------------------------------- MODULE IpFrags -------------------------------
(***************************************************************************)
(* How TRsniffer puts the fragments of a datagram together when it reads a *)
(* capture file.  The fragments of one id hang in a list; the lists hang   *)
(* behind list_head, whose own id is 0.                                    *)
(*                                                                         *)
(* A fragment is [datagram, id, offset, nBytes, more]: `datagram' stands   *)
(* for its bytes.                                                          *)
(***************************************************************************)
EXTENDS Integers, FiniteSets, SequencesExt

CONSTANTS
  Datagrams,     \* the datagrams that come in fragments, each a set of them
  CHAR_MAX       \* the largest char: 127

ASSUME CharAssumption == CHAR_MAX \in Nat \ {0}

\* IP cuts a datagram into two or more parts, as large as the first one but
\* for the last, which alone has no more behind it.
IsCut(d) ==
  /\ IsFiniteSet(d)
  /\ \A f \in d : /\ f.id \in Nat /\ f.offset \in Nat
                 /\ f.nBytes \in Nat \ {0} /\ f.more \in BOOLEAN
  /\ \A f, g \in d : f.id = g.id /\ f.datagram = g.datagram
  /\ \E size \in {f.nBytes : f \in d}, last \in d :
       LET before == Cardinality(d) - 1
       IN /\ before > 0 /\ ~ last.more /\ last.offset = before * size
          /\ \A f \in d \ {last} : f.more /\ f.nBytes = size /\ f.offset < last.offset

ASSUME DatagramsAssumption ==
  /\ \A d \in Datagrams : IsCut(d)
  /\ \A d, e \in Datagrams : \A f \in d, g \in e : f.datagram = g.datagram => d = e

VARIABLES
  pending,       \* the lists behind list_head
  seen,          \* observation: the fragments of the capture so far
  handed         \* observation: the buffers given to the decoder

fragVars == <<pending, seen, handed>>

FragsInit == pending = <<>> /\ seen = <<>> /\ handed = {}

\* The two counters of a list are chars, and chars are signed.
Chars == 2 * (CHAR_MAX + 1)
AsChar(n) == ((n + CHAR_MAX + 1) % Chars) - (CHAR_MAX + 1)

new_list(f) ==
  [id |-> f.id, incomplete_flag |-> AsChar(2 * CHAR_MAX + 1), got_last_frag |-> FALSE,
   frags_received |-> 1, frags |-> <<f>>]

\* The last fragment compares what was received with its place, the others
\* count a surplus down.
CountIn_LastIncluded(list, f) ==
  LET left == list.incomplete_flag
      now == IF ~ f.more THEN AsChar(list.frags_received + 1 - f.offset \div list.frags[1].nBytes)
             ELSE IF left > 0 THEN left - 1 ELSE left
  IN [list EXCEPT !.got_last_frag = @ \/ ~ f.more,
                  !.incomplete_flag = now,
                  !.frags = Append(@, f),
                  !.frags_received = AsChar(@ + 1)]

CountIn_AnyCount(list, f) ==
  [list EXCEPT !.got_last_frag = @ \/ ~ f.more,
               !.incomplete_flag = IF ~ f.more THEN 0 ELSE @,
               !.frags = Append(@, f),
               !.frags_received = AsChar(@ + 1)]

CountIn(list, f) ==
  LET left == list.incomplete_flag
      now == IF ~ f.more THEN AsChar(list.frags_received - f.offset \div list.frags[1].nBytes)
             ELSE IF left > 0 THEN left - 1 ELSE left
  IN [list EXCEPT !.got_last_frag = @ \/ ~ f.more,
                  !.incomplete_flag = now,
                  !.frags = Append(@, f),
                  !.frags_received = AsChar(@ + 1)]

\* The walk stops at list_head for id 0: the new list is linked in its place.
TS_add_ip_fragment(lists, f) ==
  LET i == SelectInSeq(lists, LAMBDA l : l.id = f.id)
  IN IF f.id = 0 THEN [lists |-> <<new_list(f)>>, at |-> 1]
     ELSE IF i = 0 THEN [lists |-> Append(lists, new_list(f)), at |-> Len(lists) + 1]
     ELSE [lists |-> [lists EXCEPT ![i] = CountIn(lists[i], f)], at |-> i]

\* The buffer is as long as the fragment that completes it says.
TS_reassmble_ip_fragment(list, f) ==
  [frags |-> ToSet(list.frags), msg_size |-> f.offset + f.nBytes]

\* What there is to decode after fragment f, if anything
Assembled(f) ==
  LET added == TS_add_ip_fragment(pending, f)
      list == added.lists[added.at]
  IN IF list.got_last_frag /\ list.incomplete_flag = 0
     THEN {TS_reassmble_ip_fragment(list, f)} ELSE {}

\* The list of what was decoded is unlinked.
TS_assemble_udp_frags(f) ==
  LET added == TS_add_ip_fragment(pending, f)
  IN /\ pending' = IF Assembled(f) = {} THEN added.lists
                   ELSE RemoveAt(added.lists, added.at)
     /\ seen' = Append(seen, f)
     /\ handed' = handed \union Assembled(f)

-----------------------------------------------------------------------------

IsWhole(buffer, fragments) ==
  /\ buffer.frags = fragments
  /\ LET last == CHOOSE f \in fragments : ~ f.more
     IN buffer.msg_size = last.offset + last.nBytes

OnceEach ==
  IsInjective(seen) /\ \A f, g \in ToSet(seen) : f.id = g.id => f.datagram = g.datagram

\* What reaches the decoder is of one datagram, and it is all of it if its
\* fragments are few enough for what it lacks to fit a char, as long as no
\* fragment comes twice and no id is used again: whatever is lost or out of
\* order, and whatever list was dropped.
FewFragments(d) == Cardinality(d) <= CHAR_MAX + 3

DecodedWhole ==
  OnceEach =>
    \A b \in handed :
      \E d \in Datagrams :
        /\ b.frags \subseteq d
        /\ FewFragments(d) => IsWhole(b, d)

\* Of the fragments of d, and of those with its id or with id 0, whose
\* fragments disturb every datagram, the next always is one of d further on.
InOrder(d) ==
  /\ \A i \in DOMAIN seen : seen[i].id \in {f.id : f \in d} \union {0} => seen[i] \in d
  /\ \A i, j \in DOMAIN seen : i < j /\ seen[i] \in d /\ seen[j] \in d
                              => seen[i].offset < seen[j].offset

\* A datagram whose fragments come in order, once, is decoded, however many
\* they are and whatever comes in between: but for id 0.
InOrderDecoded ==
  \A d \in Datagrams :
    InOrder(d) /\ d \subseteq ToSet(seen) /\ (\A f \in d : f.id # 0)
    => \E b \in handed : IsWhole(b, d)
=============================================================================
