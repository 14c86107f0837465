------------------------------ MODULE StatsSet ------------------------------
(***************************************************************************)
(* What the lists of TRsniffer promise to the threads that share them: each *)
(* is a set of strings; a string is stored once, a print shows all of a    *)
(* list in the order of the strings, a clear empties it.                   *)
(***************************************************************************)
EXTENDS Integers, Sequences

CONSTANTS Names,          \* the lists
          Precedes(_, _)  \* the order of strings

VARIABLES contents,       \* the strings of each list
          printed         \* the list printed last and what was shown

vars == <<contents, printed>>

Ascending(seq) == \A i \in 1 .. Len(seq) - 1 : Precedes(seq[i], seq[i + 1])

Init ==
  /\ contents = [n \in Names |-> {}]
  /\ printed = [list |-> "none", shown |-> <<>>]

\* contents' only ever gains one string of one list: which one is the caller's
Store(n) ==
  /\ \E s \in contents'[n] :
       contents' = [contents EXCEPT ![n] = @ \union {s}]
  /\ UNCHANGED printed

Show(n) ==
  /\ printed'.list = n
  /\ {printed'.shown[i] : i \in DOMAIN printed'.shown} = contents[n]
  /\ Ascending(printed'.shown)
  /\ UNCHANGED contents

Clear(n) ==
  /\ contents' = [contents EXCEPT ![n] = {}]
  /\ UNCHANGED printed

Next == \E n \in Names : Store(n) \/ Show(n) \/ Clear(n)

Spec == Init /\ [][Next]_vars
=============================================================================
