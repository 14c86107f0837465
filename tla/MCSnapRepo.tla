----------------------------- MODULE MCSnapRepo -----------------------------
(***************************************************************************)
(* Small repositories for SnapRepo: up to three messages, every order of   *)
(* their timestamps around the threshold, empty messages, one unreadable   *)
(* or lost message, and every way the ring file can lie: with or without a *)
(* gap, wrapped after the first, the second or the last message, or not at *)
(* all.                                                                    *)
(***************************************************************************)
EXTENDS SnapRepo

MessageSqns == 1..3
Times == 1..3

(* The cells of message s, of the marker, and of unused space.  The marker  *)
(* ends with the start offset, least significant cell first.                *)
Piece(s, i) == [of |-> s, at |-> i]
Unused      == [of |-> 8, at |-> 0]
MarkerCell(i, start) ==
  CASE i < MarkerSz - OffsetSz -> [of |-> 9, at |-> i]
    [] i = MarkerSz - OffsetSz -> [of |-> 0, at |-> start]
    [] OTHER                   -> Zero

(* n messages behind a gap, with the marker after the last (k = 0), or the  *)
(* first k of them at the end of the file and the others, if any, and the   *)
(* marker at its front.  The record of message 2 has two cells, the others  *)
(* have len: with a header of one cell they are empty if len = 1.           *)
Layout(n, k, gap, len, tsp, odd, result) ==
  LET Size     == <<len, 2, len>>
      Upto     == <<0, len, len + 2, 2 * len + 2>>    \* cells before message s
      back     == IF k = 0 THEN n ELSE k
      front    == Upto[n + 1] - Upto[back + 1]
      mark     == IF k = 0 THEN gap + Upto[n + 1] ELSE front
      start    == IF k = 0 THEN gap ELSE front + MarkerSz + gap
      Offset   == [s \in 1..n |-> IF s <= back THEN start + Upto[s]
                                               ELSE Upto[s] - Upto[back + 1]]
      total    == IF k = 0 THEN mark + MarkerSz + gap
                           ELSE start + Upto[back + 1]
      Owners(o) == {s \in 1..n : o >= Offset[s] /\ o < Offset[s] + Size[s]}
      Cell(o)  == IF Owners(o) # {}
                  THEN LET s == CHOOSE s \in Owners(o) : TRUE
                       IN  Piece(s, o - Offset[s])
                  ELSE IF o \in mark .. mark + MarkerSz - 1
                  THEN MarkerCell(o - mark, start)
                  ELSE Unused
  IN  [valid |-> TRUE, size |-> total,
       low_sqn |-> 1, high_sqn |-> n,
       num_msgs |-> IF result = 0 THEN n - 1 ELSE n,
       start_offset |-> start, end_offset |-> mark,
       bytes |-> [o \in 0 .. total - 1 |-> Cell(o)],
       msg |-> [s \in 1..n |->
                  [result |-> IF s = odd THEN result ELSE 1, tsp |-> tsp[s],
                   disk_offset |-> Offset[s], disk_len |-> Size[s] - HdrSz]]]

Empty == [Layout(1, 0, 0, 1, <<1>>, 0, 1) EXCEPT
            !.num_msgs = 0, !.high_sqn = 0]

MCRepos ==
  {Empty, [Empty EXCEPT !.valid = FALSE]}
  \cup {Layout(n, Smaller(k, n), gap, len, tsp, 0, 1) :
          n \in MessageSqns, k \in {0} \cup MessageSqns, gap \in 0..1, len \in 1..2,
          tsp \in [MessageSqns -> Times]}
  \cup {Layout(3, k, 1, 2, tsp, odd, -1) :
          k \in {0} \cup MessageSqns, tsp \in [MessageSqns -> Times], odd \in 1..3}
  \cup {Layout(3, k, 1, 2, tsp, 2, 0) :
          k \in {0} \cup MessageSqns, tsp \in [MessageSqns -> Times]}
=============================================================================
