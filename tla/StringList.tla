----------------------------- MODULE StringList -----------------------------
(***************************************************************************)
(* TS_util.c of TRsniffer: the ordered, doubly linked list each kind of    *)
(* statistics is kept in.  A list is a record of the pointers of its head  *)
(* and of the nodes that are allocated; an operation is an operator from   *)
(* lists to lists, since each runs under list_mutex from its first access  *)
(* to its last.                                                            *)
(*                                                                         *)
(* A string is a sequence of numbers.  The address malloc() returns is the *)
(* string and a number that makes it free: the code compares addresses for *)
(* equality only.                                                          *)
(***************************************************************************)
EXTENDS Integers, SequencesExt

NULL == <<>>

\* strcmp(a, b) < 0
Before(a, b) ==
  \E i \in 1 .. Len(b) :
    /\ Len(a) >= i - 1
    /\ SubSeq(a, 1, i - 1) = SubSeq(b, 1, i - 1)
    /\ \/ Len(a) = i - 1
       \/ Len(a) >= i /\ a[i] < b[i]

EmptyList == [top |-> NULL, end |-> NULL, last |-> NULL, sz |-> 0, node |-> <<>>]

Live(l) == DOMAIN l.node
String(l, a) == l.node[a].string

\* The nodes met from a on along next or prev, one more than there are when
\* the pointers run in a circle.
Path(l, a, link) ==
  LET n == Cardinality(Live(l))
      at[i \in 0 .. n] ==
        IF i = 0 THEN a
        ELSE IF at[i - 1] \in Live(l) THEN l.node[at[i - 1]][link] ELSE NULL
  IN [i \in 1 .. Cardinality({j \in 0 .. n : at[j] # NULL}) |-> at[i - 1]]

malloc(l, s) ==
  <<s, CHOOSE k \in 0 .. Cardinality(Live(l)) : <<s, k>> \notin Live(l)>>

Insert_EndKept(l, before, s, after) ==
  LET new == malloc(l, s)
      linked(a) ==
        IF a = new THEN [string |-> s, next |-> after, prev |-> before]
        ELSE [string |-> String(l, a),
              next |-> IF a = before THEN new ELSE l.node[a].next,
              prev |-> IF a = after THEN new ELSE l.node[a].prev]
  IN [top  |-> IF before = NULL THEN new ELSE l.top,
      end  |-> IF before = NULL /\ after = NULL THEN new ELSE l.end,
      last |-> new,
      sz   |-> IF l.last = NULL THEN 1 ELSE l.sz + 1,
      node |-> [a \in Live(l) \union {new} |-> linked(a)]]

\* A new node between two others, at an end of the list, or alone in it
Insert(l, before, s, after) ==
  LET new == malloc(l, s)
      linked(a) ==
        IF a = new THEN [string |-> s, next |-> after, prev |-> before]
        ELSE [string |-> String(l, a),
              next |-> IF a = before THEN new ELSE l.node[a].next,
              prev |-> IF a = after THEN new ELSE l.node[a].prev]
  IN [top  |-> IF before = NULL THEN new ELSE l.top,
      end  |-> IF after = NULL THEN new ELSE l.end,
      last |-> new,
      sz   |-> IF l.last = NULL THEN 1 ELSE l.sz + 1,
      node |-> [a \in Live(l) \union {new} |-> linked(a)]]

\* From the node after the last one stored to the end
SearchForward(l, s) ==
  LET ahead == Path(l, l.node[l.last].next, "next")
      i == SelectInSeq(ahead, LAMBDA a : ~ Before(String(l, a), s))
  IN IF i = 0 THEN Insert(l, Last(<<l.last>> \o ahead), s, NULL)
     ELSE IF String(l, ahead[i]) = s THEN l
     ELSE Insert(l, l.node[ahead[i]].prev, s, ahead[i])

SearchBack_DropsEqual(l, s) ==
  LET back == Path(l, l.node[l.last].prev, "prev")
      i == SelectInSeq(back, LAMBDA a : ~ Before(s, String(l, a)))
  IN IF i = 0 THEN Insert(l, NULL, s, Last(<<l.last>> \o back))
     ELSE Insert(l, back[i], s, (<<l.last>> \o back)[i])

\* ... and back to the top
SearchBack(l, s) ==
  LET back == Path(l, l.node[l.last].prev, "prev")
      i == SelectInSeq(back, LAMBDA a : ~ Before(s, String(l, a)))
  IN IF i = 0 THEN Insert(l, NULL, s, Last(<<l.last>> \o back))
     ELSE IF String(l, back[i]) = s THEN l
     ELSE Insert(l, back[i], s, (<<l.last>> \o back)[i])

strings_list_store(l, s) ==
  IF l.last = NULL THEN Insert(l, NULL, s, NULL)
  ELSE IF String(l, l.last) = s THEN l
  ELSE IF Before(String(l, l.last), s) THEN SearchForward(l, s)
  ELSE SearchBack(l, s)

NothingThere(l) == l.sz = 0 \/ l.top = NULL \/ l.end = NULL \/ l.last = NULL

\* The nodes the loops of print and clear come to before `end', sz at most
BeforeEnd(l) ==
  LET path == Path(l, l.top, "next")
      upto == SelectInSeq(path, LAMBDA a : a = l.end)
      n == IF upto = 0 THEN Len(path) ELSE upto - 1
  IN SubSeq(path, 1, IF n < l.sz THEN n ELSE l.sz)

\* What print_string_list prints, in order
print_string_list(l) ==
  IF NothingThere(l) THEN <<>>
  ELSE LET first == BeforeEnd(l)
           iter == IF first = <<>> THEN l.top ELSE l.node[Last(first)].next
           nodes == IF iter = l.end THEN Append(first, iter) ELSE first
       IN [i \in 1 .. Len(nodes) |-> String(l, nodes[i])]

\* Frees the nodes before `end', then `end'
clear_string_list(l) ==
  IF NothingThere(l) THEN l
  ELSE LET freed == ToSet(BeforeEnd(l)) \union {l.end}
       IN [EmptyList EXCEPT !.node = [a \in Live(l) \ freed |-> l.node[a]]]

-----------------------------------------------------------------------------

Strings(l) == {String(l, a) : a \in Live(l)}

\* The list is one chain of all that is allocated, the same in both
\* directions, strictly ascending, with every pointer of its head in place.
Sound(l) ==
  LET path == Path(l, l.top, "next")
  IN /\ ToSet(path) = Live(l) /\ l.sz = Len(path) /\ Len(path) = Cardinality(Live(l))
     /\ Path(l, l.end, "prev") = Reverse(path)
     /\ \A i \in 1 .. Len(path) - 1 : Before(String(l, path[i]), String(l, path[i + 1]))
     /\ path = <<>> => l.last = NULL
     /\ path # <<>> => l.last \in Live(l)
=============================================================================
