------------------------- MODULE TRSniffer_proofs -------------------------
(***************************************************************************)
(* Proofs about the threads of TRsniffer: the dump thread for every pair   *)
(* of intervals, every word they fit in, and whatever main() stores        *)
(* meanwhile; the keepalive thread for any packets main() hears; the lists *)
(* for any packets, strings and options.                                   *)
(***************************************************************************)
EXTENDS TRSniffer, SnifferData_proofs, TLAPS

s == setup.stats_ivl
c == setup.clearstats_ivl

(***************************************************************************)
(* Lists are printed in time.                                              *)
(***************************************************************************)

(* What is left of the interval and what was slept add up to what has gone *)
(* by, and what is left is never less than the next sleep takes.           *)
DumpInv ==
  /\ setup \in Setups
  /\ dump_pc \in {"off", "sleep", "print", "clear"}
  /\ dump_pc # "off" =>
       /\ s > 0
       /\ slept \in 0 .. min_ivl /\ sincePrint \in Nat /\ dump_ivl \in 0 .. s
       /\ dump_pc # "sleep" => slept = 0
       /\ dump_pc = "print" => sincePrint <= s
       /\ dump_pc # "print" => dump_ivl >= min_ivl /\ sincePrint = (s - dump_ivl) + slept

LEMMA MinBounds ==
  ASSUME setup \in Setups, s > 0
  PROVE  s \in 1 .. Word - 1 /\ min_ivl \in 1 .. s
  BY SnifferAssumption DEF s, min_ivl

LEMMA Unwrapped ==
  ASSUME NEW w \in Nat \ {0}, NEW x \in 0 .. w - 1
  PROVE  x % w = x
  OBVIOUS

LEMMA DumpInvInit == Init => DumpInv
<1> SUFFICES ASSUME Init PROVE DumpInv
  OBVIOUS
<1>1. setup \in Setups /\ dump_pc \in {"off", "sleep"}
  BY DEF Init
<1>2. ASSUME dump_pc # "off" PROVE s > 0
  BY <1>1, <1>2, SnifferAssumption DEF Init, s
<1>3. ASSUME dump_pc # "off" PROVE min_ivl \in 1 .. s
  BY <1>1, <1>2, <1>3, MinBounds
<1>4. ASSUME dump_pc # "off" PROVE s \in Nat
  BY <1>1, <1>2, <1>4, MinBounds
<1> QED
  BY <1>1, <1>2, <1>3, <1>4 DEF Init, DumpInv, s

(* Every other action leaves the dump thread alone.                        *)
Elsewhere == UNCHANGED <<setup, dump_pc, slept, dump_ivl, sincePrint>>

LEMMA MainElsewhere == main \/ lbmrd_keepalive \/ lose_answer => Elsewhere
<1> USE DEF Elsewhere, dumpVars
<1>1. store_entry \/ all_stored => Elsewhere
  BY DEF store_entry, all_stored
<1>2. load_received \/ write_received \/ set_received => Elsewhere
  BY DEF load_received, write_received, set_received, Written
<1>3. count_packet => Elsewhere
  BY DEF count_packet
<1>4. read_frame => Elsewhere
  BY DEF read_frame, skip_frame, read_udp, read_other, read_fragment, NextFrame
<1>5. end_of_file \/ report => Elsewhere
  BY DEF end_of_file, report
<1>6. (\E p \in Heard : recvfrom(p)) \/ recv_error => Elsewhere
  BY DEF recvfrom, recv_error
<1>7. lbmrd_keepalive => Elsewhere
  BY DEF lbmrd_keepalive, ka_test_one, ka_test_zero, ka_test_many, ka_heard, ka_send,
     ka_goto, CheckOver
<1>8. lose_answer => Elsewhere
  BY DEF lose_answer
<1> QED
  BY <1>1, <1>2, <1>3, <1>4, <1>5, <1>6, <1>7, <1>8 DEF main

LEMMA DumpInvStep == DumpInv /\ [Next]_vars => DumpInv'
<1> SUFFICES ASSUME DumpInv, [Next]_vars PROVE DumpInv'
  OBVIOUS
<1>1. CASE Elsewhere
  BY <1>1 DEF Elsewhere, DumpInv, s, min_ivl
<1>2. CASE one_second
  <2>1. dump_pc = "sleep" /\ s > 0
    BY <1>2 DEF one_second, DumpInv
  <2>2. min_ivl \in 1 .. s /\ s \in Nat
    BY <2>1, MinBounds DEF DumpInv
  <2> QED
    BY <1>2, <2>1, <2>2 DEF one_second, DumpInv, s, min_ivl
<1>3. CASE dump_wakes
  <2>1. dump_pc = "sleep" /\ s > 0 /\ slept = min_ivl
    BY <1>3 DEF dump_wakes, DumpInv
  <2>2. min_ivl \in 1 .. s /\ s \in 1 .. Word - 1
    BY <2>1, MinBounds DEF DumpInv
  <2>3. dump_ivl \in min_ivl .. s /\ sincePrint = (s - dump_ivl) + min_ivl
    BY <2>1, <2>2 DEF DumpInv
  <2>4. dump_ivl - min_ivl \in 0 .. Word - 1 /\ Word \in Nat \ {0}
    BY <2>2, <2>3, SnifferAssumption
  <2>5. (dump_ivl - min_ivl) % Word = dump_ivl - min_ivl
    BY <2>4, Unwrapped
  <2>6. dump_ivl' = dump_ivl - min_ivl /\ slept' = 0
    BY <1>3, <2>5 DEF dump_wakes
  <2>7. setup' = setup /\ s' = s /\ min_ivl' = min_ivl /\ sincePrint' = sincePrint
    BY <1>3 DEF dump_wakes, s, min_ivl
  <2>8. dump_pc' \in {"sleep", "print", "clear"}
    BY <1>3 DEF dump_wakes
  <2>9. dump_pc' # "print" => dump_ivl' >= min_ivl
    BY <1>3, <2>2, <2>3, <2>6, <2>7 DEF dump_wakes, Due
  <2> QED
    BY <2>1, <2>2, <2>3, <2>6, <2>7, <2>8, <2>9 DEF DumpInv
<1>4. CASE TS_print_stored_stats
  <2>1. dump_pc = "print" /\ s > 0
    BY <1>4 DEF TS_print_stored_stats, DumpInv
  <2>2. min_ivl \in 1 .. s /\ s \in Nat
    BY <2>1, MinBounds DEF DumpInv
  <2>3. CASE dump_at + 1 < Len(PrintOrder)
    BY <1>4, <2>1, <2>2, <2>3 DEF TS_print_stored_stats, DumpInv, s, min_ivl
  <2>4. CASE ~ (dump_at + 1 < Len(PrintOrder))
    BY <1>4, <2>1, <2>2, <2>4 DEF TS_print_stored_stats, DumpInv, s, min_ivl
  <2> QED
    BY <2>3, <2>4
<1>5. CASE TS_clear_stored_stats
  <2>1. dump_pc = "clear" /\ s > 0
    BY <1>5 DEF TS_clear_stored_stats, DumpInv
  <2>2. dump_pc' \in {"clear", "sleep"} /\ UNCHANGED <<setup, slept, dump_ivl, sincePrint>>
    BY <1>5, <2>1 DEF TS_clear_stored_stats
  <2> QED
    BY <2>1, <2>2 DEF DumpInv, s, min_ivl
<1>6. CASE UNCHANGED vars
  BY <1>6, <1>1 DEF vars, dumpVars, Elsewhere
<1> QED
  BY <1>1, <1>2, <1>3, <1>4, <1>5, <1>6, MainElsewhere DEF Next, TS_stats_dump_thread

(* Whatever -C says, no list waits longer than -s for its print, as long   *)
(* as the thread is scheduled when its sleep is over (line 1837).          *)
THEOREM PrintedInTime == Spec => []DumpInTime
<1>1. DumpInv => DumpInTime
  <2> SUFFICES ASSUME DumpInv, dump_pc # "off" PROVE sincePrint <= setup.stats_ivl
    BY DEF DumpInTime
  <2>1. min_ivl \in 1 .. s /\ s \in Nat
    BY MinBounds DEF DumpInv
  <2> QED
    BY <2>1 DEF DumpInv, s
<1> QED
  BY <1>1, DumpInvInit, DumpInvStep, PTL DEF Spec

(***************************************************************************)
(* What is cleared was printed.                                            *)
(***************************************************************************)

ClearsMoreOften == c \in 1 .. s - 1

(* Without a capture file main() only listens: it never gets to the report *)
(* that goes through the lists where the dump thread does.                 *)
ListenInv ==
  setup.capture = "none" =>
    \/ main_pc \in {"recv", "exit"}
    \/ main_pc \in {"store", "load", "write", "set99", "count"} /\ decoded.from = "socket"

(* Of what there was at the wake-up, nothing is owed of a list the thread  *)
(* has printed, and so nothing at all when it clears.                      *)
OwedInv ==
  /\ dump_pc # "off" => setup.capture = "none"
  /\ dump_pc = "sleep" => dump_at = 0
  /\ dump_pc = "print" => dump_at \in 0 .. 6
  /\ ~ ClearsMoreOften =>
       /\ dump_pc = "print" => \A e \in owed : \A i \in 1 .. dump_at : e[1] # PrintOrder[i]
       /\ dump_pc = "clear" => \A e \in owed : e[1] \notin Lists

LEMMA ListenInvInit == Init => ListenInv
  BY DEF Init, ListenInv

LEMMA ListenInvStep == ListenInv /\ [Next]_vars => ListenInv'
<1> SUFFICES ASSUME ListenInv, [Next]_vars PROVE ListenInv'
  OBVIOUS
<1>1. CASE UNCHANGED <<setup, main_pc, decoded>>
  BY <1>1 DEF ListenInv
<1>2. CASE store_entry \/ all_stored
  BY <1>2 DEF store_entry, all_stored, ListenInv
<1>3. CASE load_received \/ write_received \/ set_received
  BY <1>3 DEF load_received, write_received, set_received, Written, ListenInv
<1>4. CASE count_packet
  BY <1>4 DEF count_packet, ListenInv
<1>5. CASE main_pc = "read" /\ read_frame
  <2>1. setup.capture # "none" /\ setup' = setup
    BY <1>5 DEF ListenInv, read_frame, skip_frame, read_udp, read_other, read_fragment, NextFrame
  <2> QED
    BY <2>1 DEF ListenInv
<1>6. CASE end_of_file \/ report
  BY <1>6 DEF end_of_file, report, ListenInv
<1>7. CASE \E p \in Heard : recvfrom(p)
  <2>1. PICK p \in Heard : recvfrom(p)
    BY <1>7
  <2>2. setup' = setup /\ main_pc' = "store" /\ decoded'.from = "socket"
    BY <2>1 DEF recvfrom, Decode
  <2> QED
    BY <2>2 DEF ListenInv
<1>8. CASE recv_error
  BY <1>8 DEF recv_error, ListenInv
<1>9. CASE lbmrd_keepalive \/ lose_answer
  BY <1>1, <1>9 DEF lbmrd_keepalive, ka_test_one, ka_test_zero, ka_test_many, ka_heard, ka_send,
     ka_goto, CheckOver, lose_answer, mainVars
<1>10. CASE TS_stats_dump_thread \/ one_second
  BY <1>1, <1>10 DEF TS_stats_dump_thread, dump_wakes, TS_print_stored_stats,
     TS_clear_stored_stats, one_second, mainVars
<1>11. CASE UNCHANGED vars
  BY <1>1, <1>11 DEF vars, mainVars
<1> QED
  BY <1>2, <1>3, <1>4, <1>5, <1>6, <1>7, <1>8, <1>9, <1>10, <1>11 DEF Next, main

LEMMA OwedInvInit == Init => OwedInv
  BY DEF Init, OwedInv

(* Every other action leaves alone what is owed and how far the thread is. *)
Aside == UNCHANGED <<setup, dump_pc, dump_at, owed>>

LEMMA MainAside ==
  ASSUME main \/ lbmrd_keepalive \/ lose_answer \/ one_second, ~ report
  PROVE  Aside
<1> USE DEF Aside, dumpVars, listVars
<1>1. store_entry \/ all_stored => Aside
  BY DEF store_entry, all_stored
<1>2. load_received \/ write_received \/ set_received => Aside
  BY DEF load_received, write_received, set_received, Written
<1>3. count_packet => Aside
  BY DEF count_packet
<1>4. read_frame => Aside
  BY DEF read_frame, skip_frame, read_udp, read_other, read_fragment, NextFrame
<1>5. end_of_file => Aside
  BY DEF end_of_file
<1>6. (\E p \in Heard : recvfrom(p)) \/ recv_error => Aside
  BY DEF recvfrom, recv_error
<1>7. lbmrd_keepalive => Aside
  BY DEF lbmrd_keepalive, ka_test_one, ka_test_zero, ka_test_many, ka_heard, ka_send,
     ka_goto, CheckOver
<1>8. lose_answer \/ one_second => Aside
  BY DEF lose_answer, one_second
<1> QED
  BY <1>1, <1>2, <1>3, <1>4, <1>5, <1>6, <1>7, <1>8 DEF main

(* Unless -C is shorter, every wake-up goes on to print.                   *)
LEMMA WakesToPrint ==
  ASSUME DumpInv, dump_wakes, ~ ClearsMoreOften
  PROVE  dump_pc' = "print"
<1>1. dump_pc = "sleep" /\ s > 0 /\ setup \in Setups
  BY DEF dump_wakes, DumpInv
<1>2. s \in 1 .. Word - 1 /\ c \in 0 .. Word - 1 /\ min_ivl \in 1 .. s /\ Word \in Nat \ {0}
  BY <1>1, MinBounds, SnifferAssumption DEF c
<1>3. min_ivl = s
  BY <1>2 DEF ClearsMoreOften, min_ivl, s, c
<1>4. dump_ivl = s
  BY <1>1, <1>2, <1>3 DEF DumpInv
<1>5. (dump_ivl - min_ivl) % Word = 0
  BY <1>2, <1>3, <1>4, Unwrapped
<1> QED
  BY <1>2, <1>5 DEF dump_wakes, Due

LEMMA OwedInvStep == DumpInv /\ ListenInv /\ OwedInv /\ [Next]_vars => OwedInv'
<1> SUFFICES ASSUME DumpInv, ListenInv, OwedInv, [Next]_vars PROVE OwedInv'
  OBVIOUS
<1>0. Len(PrintOrder) = 7 /\ \A n \in Lists : \E i \in 1 .. 7 : n = PrintOrder[i]
  BY DEF PrintOrder, Lists
<1>1. CASE Aside
  BY <1>1 DEF Aside, OwedInv, ClearsMoreOften, s, c
<1>2. CASE report
  <2>1. dump_pc = "off" /\ dump_pc' = "off"
    BY <1>2 DEF report, ListenInv, OwedInv
  <2> QED
    BY <2>1 DEF OwedInv
<1>3. CASE dump_wakes
  <2>1. dump_at' = 0 /\ setup' = setup /\ dump_pc # "off"
    BY <1>3 DEF dump_wakes, OwedInv
  <2>2. ClearsMoreOften' <=> ClearsMoreOften
    BY <2>1 DEF ClearsMoreOften, s, c
  <2>3. ~ ClearsMoreOften => dump_pc' = "print"
    BY <1>3, WakesToPrint
  <2> QED
    BY <2>1, <2>2, <2>3 DEF OwedInv
<1>4. CASE TS_print_stored_stats
  <2>1. dump_pc = "print" /\ dump_at \in 0 .. 6 /\ setup' = setup /\ setup.capture = "none"
    BY <1>4 DEF TS_print_stored_stats, OwedInv
  <2>2. ClearsMoreOften' <=> ClearsMoreOften
    BY <2>1 DEF ClearsMoreOften, s, c
  <2>3. owed' = {e \in owed : e[1] # PrintOrder[dump_at + 1]}
    BY <1>4 DEF TS_print_stored_stats, PrintList
  <2>4. ~ ClearsMoreOften => \A e \in owed' : \A i \in 1 .. dump_at + 1 : e[1] # PrintOrder[i]
    BY <2>1, <2>3 DEF OwedInv
  <2>5. CASE dump_at + 1 < Len(PrintOrder)
    <3>1. dump_pc' = "print" /\ dump_at' = dump_at + 1 /\ dump_at' \in 0 .. 6
      BY <1>0, <1>4, <2>1, <2>5 DEF TS_print_stored_stats
    <3> QED
      BY <2>1, <2>2, <2>4, <3>1 DEF OwedInv
  <2>6. CASE ~ (dump_at + 1 < Len(PrintOrder))
    <3>1. dump_at = 6 /\ dump_at' = 0 /\ dump_pc' \in {"clear", "sleep"}
      BY <1>0, <1>4, <2>1, <2>6 DEF TS_print_stored_stats
    <3>2. ~ ClearsMoreOften => \A e \in owed' : e[1] \notin Lists
      BY <1>0, <2>4, <3>1
    <3> QED
      BY <2>1, <2>2, <3>1, <3>2 DEF OwedInv
  <2> QED
    BY <2>5, <2>6
<1>5. CASE TS_clear_stored_stats
  <2>1. dump_pc = "clear" /\ setup' = setup /\ setup.capture = "none" /\ owed' = owed
    BY <1>5 DEF TS_clear_stored_stats, ClearList, OwedInv
  <2>2. ClearsMoreOften' <=> ClearsMoreOften
    BY <2>1 DEF ClearsMoreOften, s, c
  <2>3. dump_pc' = "clear" \/ (dump_pc' = "sleep" /\ dump_at' = 0)
    BY <1>5 DEF TS_clear_stored_stats
  <2> QED
    BY <2>1, <2>2, <2>3 DEF OwedInv
<1>6. CASE UNCHANGED vars
  BY <1>1, <1>6 DEF vars, dumpVars, listVars, Aside
<1> QED
  BY <1>1, <1>2, <1>3, <1>4, <1>5, <1>6, MainAside DEF Next, TS_stats_dump_thread

(* Unless -C is shorter than -s, an entry that was there when the thread   *)
(* woke is not cleared before it is printed, though both intervals run out *)
(* at once and main() stores all along (lines 1838 to 1848). One that is    *)
(* stored between the print of its list and the clear is lost unprinted.   *)
THEOREM ClearedAfterPrint == Spec => PrintedBeforeCleared
<1>1. OwedInv =>
        \A n \in Lists :
          dump_pc = "clear" => ClearsMoreOften \/ \A e \in owed : e[1] # n
  BY DEF OwedInv
<1>2. OwedInv /\ [Next]_vars =>
        [\A n \in Lists :
           dump_pc = "clear" /\ dump_pc' \in {"clear", "sleep"}
           /\ lists'[n] = EmptyList /\ lists[n] # EmptyList
           => \/ setup.clearstats_ivl \in 1 .. setup.stats_ivl - 1
              \/ \A e \in owed : e[1] # n]_vars
  BY <1>1 DEF ClearsMoreOften, s, c
<1> QED
  BY <1>2, DumpInvInit, DumpInvStep, ListenInvInit, ListenInvStep, OwedInvInit, OwedInvStep, PTL
     DEF Spec, PrintedBeforeCleared

(***************************************************************************)
(* What a check says of the answers is so.                                 *)
(***************************************************************************)

K == TS_lbmrd_keepalive_received

(* The numbers n answers lead to: from 2 down, and around; from 99 down.   *)
FromTwo(n) == IF n <= 2 THEN 2 - n ELSE 65538 - n
Reaches(k, most) == \E n \in 0 .. most : k \in {FromTwo(n), 99 - n}

(* What the tests of a check take for an answer, up to eight of them after *)
(* the number was set.                                                     *)
SignsOfAnswer == {0, 1} \union 91 .. 99 \union 65530 .. 65535

(* The number since main() wrote it last: what a check has tested and what *)
(* the next one will, as nobody writes it but the check.                   *)
HeardInv ==
  /\ K \in Nat /\ loaded \in Nat /\ quiet \in Nat
  /\ quiet >= 1 /\ ka_pc \in {"zero", "many"} => K # 1
  /\ quiet >= 1 /\ ka_pc = "many" => K # 0
  /\ quiet >= 2 => K \in 2 .. 90 /\ ka_pc # "heard"

(* An answer whose handling main() began and ended between two checks      *)
(* leaves a number that one of the tests of the next takes for an answer,  *)
(* though main() goes on counting down from one test to the other: what it *)
(* has read is what it writes, for no check sets the number meanwhile.     *)
SilentInv ==
  /\ counted \in 0 .. 9
  /\ ka_pc # "off" /\ counted <= 8 =>
       /\ Reaches(K, counted)
       /\ main_pc = "write" => Reaches(loaded, counted)
       /\ answered /\ ka_pc # "heard" =>
            /\ K \in SignsOfAnswer
            /\ ka_pc = "zero" => K # 1
            /\ ka_pc = "many" => K \notin {0, 1}
  /\ answered /\ main_pc = "write" => loaded = K

checkVars == <<K, ka_pc, verdict, quiet, answered, begun, counted, loaded>>

(* Most actions leave the number, the check and what main() has read alone. *)
Unwatched == UNCHANGED checkVars /\ (main_pc' = "write" => main_pc = "write")

LEMMA MainUnwatched ==
  ASSUME Next, ~ load_received, ~ write_received, ~ set_received, ~ lbmrd_keepalive
  PROVE  Unwatched
<1> USE DEF Unwatched, checkVars, K, kaVars, mainVars
<1>1. store_entry \/ all_stored => Unwatched
  BY DEF store_entry, all_stored
<1>2. count_packet => Unwatched
  BY DEF count_packet
<1>3. read_frame => Unwatched
  BY DEF read_frame, skip_frame, read_udp, read_other, read_fragment, NextFrame, Decode
<1>4. end_of_file \/ report \/ recv_error => Unwatched
  BY DEF end_of_file, report, recv_error
<1>5. (\E p \in Heard : recvfrom(p)) => Unwatched
  BY DEF recvfrom, Decode
<1>6. TS_stats_dump_thread => Unwatched
  BY DEF TS_stats_dump_thread, dump_wakes, TS_print_stored_stats, TS_clear_stored_stats
<1>7. lose_answer \/ one_second => Unwatched
  BY DEF lose_answer, one_second
<1> QED
  BY <1>1, <1>2, <1>3, <1>4, <1>5, <1>6, <1>7 DEF Next, main

(* An unsigned short counted down.                                         *)
LEMMA CountedDown ==
  ASSUME NEW k \in Nat
  PROVE  /\ (k - 1) % 2^16 \in Nat
         /\ \A n \in 0 .. 8 : k = FromTwo(n) => (k - 1) % 2^16 = FromTwo(n + 1)
         /\ \A n \in 0 .. 8 : k = 99 - n => (k - 1) % 2^16 = 99 - (n + 1)
<1>1. 2^16 = 65536
  OBVIOUS
<1> QED
  BY <1>1 DEF FromTwo

LEMMA HeardInvInit == Init => HeardInv
  BY DEF Init, HeardInv, K

LEMMA HeardInvStep == HeardInv /\ [Next]_vars => HeardInv'
<1> SUFFICES ASSUME HeardInv, [Next]_vars PROVE HeardInv'
  OBVIOUS
<1>1. CASE UNCHANGED checkVars
  BY <1>1 DEF checkVars, HeardInv, K
<1>2. CASE load_received
  BY <1>2 DEF load_received, HeardInv, K
<1>3. CASE write_received
  <2>1. (loaded - 1) % 2^16 \in Nat
    BY CountedDown DEF HeardInv
  <2>2. K' \in Nat /\ quiet' = 0 /\ loaded' = loaded
    BY <1>3, <2>1 DEF write_received, Written, K
  <2> QED
    BY <2>2 DEF HeardInv
<1>4. CASE set_received
  BY <1>4 DEF set_received, Written, HeardInv, K
<1>5. CASE ka_test_one \/ ka_test_zero
  BY <1>5 DEF ka_test_one, ka_test_zero, ka_at, ka_goto, mainVars, HeardInv, K
<1>6. CASE ka_test_many
  <2>1. CASE K > 90 /\ ka_goto("heard")
    BY <1>6, <2>1 DEF ka_test_many, ka_at, ka_goto, mainVars, HeardInv, K
  <2>2. CASE K <= 90 /\ CheckOver("silent") /\ K' = K
    BY <1>6, <2>2 DEF ka_test_many, ka_at, CheckOver, mainVars, HeardInv
  <2> QED
    BY <1>6, <2>1, <2>2 DEF ka_test_many, K
<1>7. CASE ka_heard
  BY <1>7 DEF ka_heard, ka_at, CheckOver, mainVars, HeardInv, K
<1>8. CASE ka_send
  BY <1>8 DEF ka_send, BetweenChecks, mainVars, HeardInv, K
<1>9. CASE UNCHANGED vars
  BY <1>1, <1>9 DEF vars, kaVars, mainVars, checkVars, K
<1> QED
  BY <1>1, <1>2, <1>3, <1>4, <1>5, <1>6, <1>7, <1>8, <1>9, MainUnwatched
     DEF lbmrd_keepalive, Unwatched

LEMMA SilentInvInit == Init => SilentInv
<1> SUFFICES ASSUME Init PROVE SilentInv
  OBVIOUS
<1>1. counted = 0 /\ ~ answered /\ main_pc # "write" /\ (ka_pc # "off" => K = 2)
  BY DEF Init, K
<1>2. ka_pc # "off" => Reaches(K, counted)
  BY <1>1 DEF Reaches, FromTwo
<1> QED
  BY <1>1, <1>2 DEF SilentInv

(* One answer less counted, one further down.                              *)
LEMMA OneMore ==
  ASSUME NEW most \in 0 .. 7, NEW k \in Nat, Reaches(k, most)
  PROVE  LET down == (k - 1) % 2^16
         IN /\ Reaches(down, most + 1) /\ down \in SignsOfAnswer
            /\ down = 1 => k = 2
            /\ down = 0 => k = 1
<1> DEFINE down == (k - 1) % 2^16
<1>1. PICK n \in 0 .. most : k \in {FromTwo(n), 99 - n}
  BY DEF Reaches
<1>2. n \in 0 .. 8 /\ n + 1 \in 0 .. most + 1 /\ n + 1 \in 1 .. 8
  OBVIOUS
<1>3. CASE k = FromTwo(n)
  <2>1. down = FromTwo(n + 1)
    BY <1>2, <1>3, CountedDown
  <2>2. Reaches(down, most + 1)
    BY <1>2, <2>1 DEF Reaches
  <2>3. down \in SignsOfAnswer /\ (down = 1 => k = 2) /\ (down = 0 => k = 1)
    BY <1>2, <1>3, <2>1 DEF FromTwo, SignsOfAnswer
  <2> QED
    BY <2>2, <2>3
<1>4. CASE k = 99 - n
  <2>1. down = 99 - (n + 1)
    BY <1>2, <1>4, CountedDown
  <2>2. Reaches(down, most + 1)
    BY <1>2, <2>1 DEF Reaches
  <2>3. down \in SignsOfAnswer /\ (down = 1 => k = 2) /\ (down = 0 => k = 1)
    BY <1>2, <1>4, <2>1 DEF SignsOfAnswer
  <2> QED
    BY <2>2, <2>3
<1> QED
  BY <1>1, <1>3, <1>4

LEMMA SilentInvStep == HeardInv /\ SilentInv /\ [Next]_vars => SilentInv'
<1> SUFFICES ASSUME HeardInv, SilentInv, [Next]_vars PROVE SilentInv'
  OBVIOUS
<1>1. CASE Unwatched
  BY <1>1 DEF Unwatched, checkVars, SilentInv, K, Reaches
<1>2. CASE load_received
  <2>1. UNCHANGED <<K, ka_pc, answered, counted>> /\ loaded' = K
    BY <1>2 DEF load_received, K
  <2>2. ka_pc # "off" /\ counted <= 8 => Reaches(K, counted)' /\ Reaches(loaded, counted)'
    BY <2>1 DEF SilentInv, Reaches
  <2> QED
    BY <2>1, <2>2 DEF SilentInv
<1>3. CASE write_received
  <2> DEFINE down == (loaded - 1) % 2^16
  <2>1. /\ main_pc = "write" /\ main_pc' = "count" /\ K' = down /\ ka_pc' = ka_pc
        /\ counted' = (IF counted < 9 THEN counted + 1 ELSE 9)
        /\ answered' => answered \/ BetweenChecks
    BY <1>3 DEF write_received, Written, K
  <2>2. counted' \in 0 .. 9 /\ loaded \in Nat /\ K \in Nat
    BY <2>1 DEF SilentInv, HeardInv
  <2>3. CASE ~ (ka_pc' # "off" /\ counted' <= 8)
    BY <2>1, <2>2, <2>3 DEF SilentInv
  <2>4. CASE ka_pc' # "off" /\ counted' <= 8
    <3>1. counted \in 0 .. 7 /\ counted' = counted + 1 /\ ka_pc # "off"
      BY <2>1, <2>4 DEF SilentInv
    <3>2. Reaches(loaded, counted)
      BY <2>1, <3>1 DEF SilentInv
    <3>3. /\ Reaches(down, counted + 1) /\ down \in SignsOfAnswer
          /\ down = 1 => loaded = 2
          /\ down = 0 => loaded = 1
      BY <2>2, <3>1, <3>2, OneMore
    <3>4. Reaches(K, counted)'
      BY <2>1, <3>1, <3>3 DEF Reaches
    <3>5. ASSUME answered', ka_pc \in {"zero", "many"}
          PROVE  K \in SignsOfAnswer /\ loaded = K /\ (ka_pc = "many" => K \notin {0, 1})
      BY <2>1, <3>1, <3>5 DEF SilentInv, BetweenChecks
    <3>6. ASSUME answered'
          PROVE  (ka_pc = "zero" => down # 1) /\ (ka_pc = "many" => down \notin {0, 1})
      BY <3>3, <3>5, <3>6 DEF SignsOfAnswer
    <3> QED
      BY <2>1, <2>2, <3>3, <3>4, <3>6 DEF SilentInv
  <2> QED
    BY <2>3, <2>4
<1>4. CASE set_received
  <2>1. K' = 99 /\ counted' = 0 /\ main_pc' = "count"
    BY <1>4 DEF set_received, Written, K
  <2>2. Reaches(K, counted)' /\ K' \in SignsOfAnswer /\ K' \notin {0, 1}
    BY <2>1 DEF Reaches, SignsOfAnswer
  <2> QED
    BY <2>1, <2>2 DEF SilentInv
<1>5. CASE ka_test_one \/ ka_test_zero \/ (ka_test_many /\ ka_goto("heard"))
  <2>1. UNCHANGED <<K, loaded, main_pc, counted, answered>> /\ ka_pc # "off"
    BY <1>5 DEF ka_test_one, ka_test_zero, ka_test_many, ka_at, ka_goto, mainVars, K
  <2>2. \/ ka_pc = "one" /\ ka_pc' = "zero" /\ K # 1
        \/ ka_pc = "zero" /\ ka_pc' = "many" /\ K # 0
        \/ ka_pc' = "heard"
    BY <1>5 DEF ka_test_one, ka_test_zero, ka_at, ka_goto, K
  <2> QED
    BY <2>1, <2>2 DEF SilentInv, Reaches
<1>6. CASE ka_test_many /\ CheckOver("silent")
  <2>1. UNCHANGED <<K, loaded, main_pc, counted>> /\ ~ answered' /\ ka_pc # "off"
    BY <1>6 DEF ka_test_many, ka_at, ka_goto, CheckOver, mainVars, K
  <2> QED
    BY <2>1 DEF SilentInv, Reaches
<1>7. CASE ka_heard
  <2>1. /\ K' = 2 /\ loaded' = loaded /\ main_pc' = main_pc /\ ~ answered' /\ ka_pc # "off"
        /\ counted' = (IF main_pc = "write" THEN counted ELSE 0)
    BY <1>7 DEF ka_heard, ka_at, CheckOver, mainVars, K
  <2>2. counted' \in 0 .. 9 /\ Reaches(K, counted)'
    BY <2>1 DEF SilentInv, Reaches, FromTwo
  <2> QED
    BY <2>1, <2>2 DEF SilentInv, Reaches
<1>8. CASE ka_send
  BY <1>8 DEF ka_send, BetweenChecks, mainVars, SilentInv, Reaches, K
<1>9. CASE UNCHANGED vars
  BY <1>1, <1>9 DEF vars, kaVars, mainVars, checkVars, Unwatched, K
<1>10. ka_test_many => ka_goto("heard") \/ CheckOver("silent")
  BY DEF ka_test_many
<1> QED
  BY <1>1, <1>2, <1>3, <1>4, <1>5, <1>6, <1>7, <1>8, <1>9, <1>10, MainUnwatched
     DEF lbmrd_keepalive

(* A check that finds lbmrd answering is at most one late, and a check that *)
(* warns follows no answer handled since the check before, wherever main() *)
(* is between reading the number and writing it (lines 721, 1811 and 1889  *)
(* to 1897), for any packets, unless main() counted the number down nine   *)
(* times since that check: from 99 it is then 90, and line 1892 warns.     *)
THEOREM ChecksAreHonest == Spec => VerdictHonest
<1> DEFINE Honest == ka_pc' = "usleep1" /\ ka_pc # "usleep1"
                     => /\ verdict' = "heard" => quiet <= 1
                        /\ verdict' = "silent" /\ counted < 9 => ~ answered
<1>1. ASSUME HeardInv, SilentInv, [Next]_vars PROVE [Honest]_vars
  <2>1. CASE ka_test_many
    <3>1. ASSUME CheckOver("silent") PROVE K <= 90 /\ ka_pc = "many" /\ verdict' = "silent"
      BY <2>1, <3>1 DEF ka_test_many, ka_at, ka_goto, CheckOver, K
    <3>2. ASSUME CheckOver("silent"), counted < 9, answered PROVE FALSE
      BY <1>1, <3>1, <3>2 DEF SilentInv, SignsOfAnswer, HeardInv
    <3>3. ka_goto("heard") => ka_pc' # "usleep1"
      BY DEF ka_goto
    <3> QED
      BY <2>1, <3>1, <3>2, <3>3 DEF ka_test_many
  <2>2. CASE ka_heard
    BY <1>1, <2>2 DEF ka_heard, ka_at, CheckOver, HeardInv
  <2>3. CASE ka_test_one \/ ka_test_zero \/ ka_send
    BY <2>3 DEF ka_test_one, ka_test_zero, ka_send, ka_goto, BetweenChecks
  <2>4. CASE load_received \/ write_received \/ set_received
    BY <2>4 DEF load_received, write_received, set_received, Written
  <2>5. CASE Unwatched
    BY <2>5 DEF Unwatched, checkVars
  <2>6. CASE UNCHANGED vars
    BY <2>6
  <2> QED
    BY <1>1, <2>1, <2>2, <2>3, <2>4, <2>5, <2>6, MainUnwatched DEF lbmrd_keepalive
<1>2. HeardInv /\ SilentInv /\ [Next]_vars => [Honest]_vars
  BY <1>1
<1> QED
  BY <1>2, HeardInvInit, HeardInvStep, SilentInvInit, SilentInvStep, PTL
     DEF Spec, VerdictHonest

(***************************************************************************)
(* Fragments are put together.                                             *)
(***************************************************************************)

(* main() is the only one to touch the fragments, and only those of the    *)
(* capture file.                                                           *)
LEMMA FragSteps ==
  ASSUME ListenInv, DumpInv, [Next]_vars
  PROVE  UNCHANGED fragVars \/ \E f \in Fragments : TS_assemble_udp_frags(f)
<1>1. CASE main_pc = "read" /\ read_frame
  <2>1. CASE skip_frame
    BY <2>1 DEF skip_frame
  <2>2. CASE \E f \in Captures(setup.capture).frames : read_udp(f) \/ read_other(f)
    BY <2>2 DEF read_udp, read_other
  <2>3. CASE \E f \in Captures(setup.capture).frames : read_fragment(f)
    <3>1. PICK f \in Captures(setup.capture).frames : read_fragment(f)
      BY <2>3
    <3>2. setup \in Setups /\ setup.capture # "none"
      BY <1>1 DEF ListenInv, DumpInv
    <3>3. f.kind = "fragment" /\ TS_assemble_udp_frags(f.fragment)
      BY <3>1 DEF read_fragment
    <3>4. f.fragment \in Fragments
      BY <3>2, <3>3, SnifferAssumption DEF Fragments
    <3> QED
      BY <3>3, <3>4
  <2> QED
    BY <1>1, <2>1, <2>2, <2>3 DEF read_frame
<1>2. CASE store_entry \/ all_stored \/ count_packet
  BY <1>2 DEF store_entry, all_stored, count_packet
<1>3. CASE load_received \/ write_received \/ set_received
  BY <1>3 DEF load_received, write_received, set_received, Written
<1>4. CASE end_of_file \/ report \/ recv_error
  BY <1>4 DEF end_of_file, report, recv_error
<1>5. CASE \E p \in Heard : recvfrom(p)
  BY <1>5 DEF recvfrom
<1>6. CASE lbmrd_keepalive \/ lose_answer
  BY <1>6 DEF lbmrd_keepalive, ka_test_one, ka_test_zero, ka_test_many, ka_heard, ka_send,
     ka_goto, CheckOver, lose_answer
<1>7. CASE TS_stats_dump_thread \/ one_second
  BY <1>7 DEF TS_stats_dump_thread, dump_wakes, TS_print_stored_stats, TS_clear_stored_stats,
     one_second
<1>8. CASE UNCHANGED vars
  BY <1>8 DEF vars
<1> QED
  BY <1>1, <1>2, <1>3, <1>4, <1>5, <1>6, <1>7, <1>8 DEF Next, main

FragInv == PendingInv /\ WholeInv /\ InOrderInv

LEMMA FragInvAlways == Spec => []FragInv
<1>1. Init => FragInv
  BY PendingInvInit, WholeInvInit, InOrderInvInit DEF Init, FragInv
<1>2. ASSUME FragInv, ListenInv, DumpInv, [Next]_vars PROVE FragInv'
  <2>1. CASE UNCHANGED fragVars
    BY <1>2, <2>1 DEF FragInv, fragVars, PendingInv, WholeInv, InOrderInv, Held, OnceEach,
       Short, Decodable, InOrder, Progress, Got
  <2>2. CASE \E f \in Fragments : TS_assemble_udp_frags(f)
    BY <1>2, <2>2, PendingInvStep, WholeInvStep, InOrderInvStep DEF FragInv
  <2> QED
    BY <1>2, <2>1, <2>2, FragSteps
<1>3. FragInv /\ ListenInv /\ DumpInv /\ [Next]_vars => FragInv'
  BY <1>2
<1> QED
  BY <1>1, <1>3, ListenInvInit, ListenInvStep, DumpInvInit, DumpInvStep, PTL DEF Spec

(* The decoder never gets parts of two datagrams, nor part of one of up to *)
(* CHAR_MAX + 3 fragments, however many are missing or out of order,       *)
(* unless one comes twice or an id is used again (lines 2676 to 2714): the *)
(* count the last fragment starts never comes out early.                   *)
THEOREM BuffersAreWhole == Spec => []DecodedWhole
<1>1. FragInv => DecodedWhole
  BY DEF FragInv, WholeInv, Decodable, DecodedWhole
<1> QED
  BY <1>1, FragInvAlways, PTL

(* Nothing that comes in order is missed, whatever fragments of other      *)
(* datagrams come in between, and whatever became of those datagrams.      *)
THEOREM InOrderIsDecoded == Spec => []InOrderDecoded
<1>1. FragInv => InOrderDecoded
  BY DEF FragInv, InOrderInv, Progress, InOrderDecoded
<1> QED
  BY <1>1, FragInvAlways, PTL

(***************************************************************************)
(* The lists stay whole, and are the sets they stand for.                  *)
(***************************************************************************)

IsList(l) == \E p : Chain(l, p)

LEMMA ListsOnList ==
  ASSUME NEW l, IsList(l)
  PROVE  /\ Sound(l)
         /\ \A key \in Str : Gains(l, key, strings_list_store(l, key))
         /\ IsList(clear_string_list(l)) /\ Strings(clear_string_list(l)) = {}
<1>1. PICK p : Chain(l, p)
  BY DEF IsList
<1>2. Sound(l)
  BY <1>1, ChainIsSound
<1>3. \A key \in Str : Gains(l, key, strings_list_store(l, key))
  BY <1>1, StoreGains
<1>4. IsList(clear_string_list(l)) /\ Strings(clear_string_list(l)) = {}
  <2>1. Len(p) \in Nat /\ Strings(l) = {String(l, p[i]) : i \in 1 .. Len(p)}
    BY <1>1, ChainFacts
  <2>2. CASE Len(p) = 0
    <3>1. l.sz = 0
      BY <1>1, <2>2 DEF Chain, HasEnds
    <3>2. clear_string_list(l) = l
      BY <3>1 DEF clear_string_list, NothingThere
    <3>3. Strings(l) = {}
      BY <2>1, <2>2
    <3> QED
      BY <3>2, <3>3
  <2>3. CASE Len(p) # 0
    <3>1. clear_string_list(l) = EmptyList
      BY <1>1, <2>3, ClearIs
    <3> QED
      BY <3>1, EmptyIsChain DEF IsList
  <2> QED
    BY <2>2, <2>3
<1> QED
  BY <1>2, <1>3, <1>4

(* What is printed of a list: every string, in order.                      *)
LEMMA PrintShows ==
  ASSUME NEW l, IsList(l)
  PROVE  LET shown == print_string_list(l)
         IN /\ {shown[i] : i \in DOMAIN shown} = Strings(l)
            /\ \A i \in 1 .. Len(shown) - 1 : Before(shown[i], shown[i + 1])
<1>1. PICK p : Chain(l, p)
  BY DEF IsList
<1>2. Len(p) \in Nat /\ Strings(l) = {String(l, p[i]) : i \in 1 .. Len(p)}
  BY <1>1, ChainFacts
<1> DEFINE shown == print_string_list(l)
<1>3. shown = [i \in 1 .. Len(p) |-> String(l, p[i])]
  BY <1>1, PrintIs
<1>4. Len(shown) = Len(p) /\ DOMAIN shown = 1 .. Len(p)
  BY <1>2, <1>3
<1>5. {shown[i] : i \in DOMAIN shown} = Strings(l)
  BY <1>2, <1>3
<1>6. ASSUME NEW i \in 1 .. Len(shown) - 1 PROVE Before(shown[i], shown[i + 1])
  <2>1. i \in 1 .. Len(p) /\ i + 1 \in 1 .. Len(p) /\ i < i + 1
    BY <1>2, <1>4
  <2>2. Before(String(l, p[i]), String(l, p[i + 1]))
    BY <1>1, <2>1 DEF Chain, Sorted
  <2> QED
    BY <1>3, <2>1, <2>2
<1> QED
  BY <1>5, <1>6

(* Each list is a chain of its nodes; what main() is to store are entries   *)
(* of the lists, and it stores them before it goes on.                     *)
ListsInv ==
  /\ setup \in Setups
  /\ lists = [n \in Lists |-> lists[n]] /\ \A n \in Lists : IsList(lists[n])
  /\ todo \in Seq(Entries(EntryLists)) /\ (todo = <<>> \/ main_pc = "store")
  /\ stats_pktCount \in Nat /\ prev_num_domains \in Int

LEMMA ListsInvInit == Init => ListsInv
<1> SUFFICES ASSUME Init PROVE ListsInv
  OBVIOUS
<1>1. lists = [n \in Lists |-> EmptyList]
  BY DEF Init
<1>2. IsList(EmptyList)
  BY EmptyIsChain DEF IsList
<1>3. <<>> \in Seq(Entries(EntryLists))
  OBVIOUS
<1>4. todo = <<>> /\ stats_pktCount = 1 /\ prev_num_domains = -1 /\ setup \in Setups
  BY DEF Init
<1> QED
  BY <1>1, <1>2, <1>3, <1>4 DEF ListsInv

(* A packet, wherever it comes from, gives entries of the lists.           *)
LEMMA DecodeTypes ==
  ASSUME ListsInv, NEW p, IsPacket(p), NEW from, Decode(p, from)
  PROVE  todo' \in Seq(Entries(EntryLists)) /\ main_pc' = "store" /\ prev_num_domains' \in Int
<1>1. PICK u \in Unset :
        LET d == DecodeLbmrPacket(p, Opts, u, prev_num_domains)
        IN todo' = d.stored /\ prev_num_domains' = d.prev_num_domains /\ main_pc' = "store"
  BY DEF Decode
<1> DEFINE d == DecodeLbmrPacket(p, Opts, u, prev_num_domains)
<1>2. IsOpts(Opts) /\ IsUnset(u) /\ prev_num_domains \in Int
  BY PacketsAssumption DEF ListsInv, IsOpts, Opts
<1>3. d \in Decodings(Entries(EntryLists), BOOLEAN)
  BY <1>2, DecodedType
<1> HIDE DEF d
<1>4. d.stored \in Seq(Entries(EntryLists)) /\ d.prev_num_domains \in Int
  BY <1>3 DEF Decodings
<1> QED
  BY <1>1, <1>4 DEF d

(* The OTIDs among them are those of its advertisements.                   *)
LEMMA DecodeNames ==
  ASSUME ListsInv, NEW p, IsPacket(p), NEW from, Decode(p, from) PROVE OtidOfItsTopic'
<1>1. PICK u \in Unset :
        LET d == DecodeLbmrPacket(p, Opts, u, prev_num_domains)
        IN decoded' = [ret |-> d.ret, packet |-> p, stored |-> d.stored,
                       count |-> d.count, from |-> from]
  BY DEF Decode
<1> DEFINE d == DecodeLbmrPacket(p, Opts, u, prev_num_domains)
           E == Entries(OtherLists) \union OtidsOf(p.tirs)
<1>2. IsOpts(Opts) /\ IsUnset(u) /\ prev_num_domains \in Int
  BY PacketsAssumption DEF ListsInv, IsOpts, Opts
<1>3. decoded'.packet = p /\ decoded'.stored = d.stored
  BY <1>1
<1>4. ASSUME \A k \in DOMAIN p.tirs : OtidFirst(p.tirs[k]) /\ OptionsOf(p.tirs[k], "ume") = {},
             NEW i \in DOMAIN d.stored, d.stored[i].list = "otids"
      PROVE  \E k \in DOMAIN p.tirs :
               /\ d.stored[i].with = p.tirs[k].topic
               /\ IsSourceName(d.stored[i].key, p.tirs[k])
  <2>1. d \in Decodings(E, BOOLEAN)
    BY <1>2, <1>4, DecodedNamed
  <2> HIDE DEF d, E
  <2>2. d.stored \in Seq(E)
    BY <2>1 DEF Decodings
  <2>3. d.stored[i] \in E
    BY <1>4, <2>2
  <2>4. d.stored[i] \notin Entries(OtherLists)
    BY <1>4 DEF Entries, OtherLists
  <2> QED
    BY <2>3, <2>4 DEF E, OtidsOf
<1> HIDE DEF d
<1> QED
  BY <1>3, <1>4 DEF OtidOfItsTopic

(* What the frames of a file and the fragments put together carry are      *)
(* packets, or say at once that they are not.                              *)
LEMMA DamagedIsPacket == IsPacket(Damaged)
  BY DEF IsPacket, Damaged

LEMMA CarriedIsPacket ==
  ASSUME setup \in Setups, setup.capture # "none", NEW f \in Captures(setup.capture).frames,
         f.kind = "fragment", NEW buffer
  PROVE  IsPacket(Carried(buffer))
<1>1. CASE \E d \in Datagrams : IsWhole(buffer, d)
  <2>1. PICK d \in Datagrams : IsWhole(buffer, d)
    BY <1>1
  <2>2. buffer.frags = d /\ \E g \in d : TRUE
    BY <2>1, DatagramsAssumption DEF IsWhole, IsCut
  <2>3. (CHOOSE g \in buffer.frags : TRUE) \in UNION Datagrams
    BY <2>1, <2>2
  <2> QED
    BY <1>1, <2>3, PacketsAssumption DEF Carried
<1>2. CASE ~ \E d \in Datagrams : IsWhole(buffer, d)
  BY <1>2, DamagedIsPacket DEF Carried
<1> QED
  BY <1>1, <1>2

(* The string of an entry, with or without the time.                       *)
LEMMA KeyIsString ==
  ASSUME ListsInv, todo # <<>>
  PROVE  /\ Head(todo).list \in Lists /\ Key(Head(todo)) \in Str
         /\ Tail(todo) \in Seq(Entries(EntryLists))
<1>1. Head(todo) \in Entries(EntryLists) /\ Tail(todo) \in Seq(Entries(EntryLists))
  BY DEF ListsInv
<1>2. Head(todo).key \in Seq(Int) /\ Head(todo).list \in EntryLists
  BY <1>1 DEF Entries
<1>3. <<100 + stats_pktCount>> \in Seq(Int)
  BY DEF ListsInv
<1>4. Key(Head(todo)) \in Seq(Int)
  BY <1>2, <1>3 DEF Key
<1> QED
  BY <1>1, <1>2, <1>4 DEF EntryLists, Lists, Str

(* Most actions leave the lists alone, and give main() nothing to store.   *)
Apart ==
  /\ UNCHANGED <<setup, lists, prev_num_domains>>
  /\ stats_pktCount \in Nat => stats_pktCount' \in Nat
  /\ todo' = todo /\ (todo = <<>> \/ main_pc' = main_pc)
  /\ decoded' \in {decoded, NoPacket}

Decoded ==
  /\ UNCHANGED <<setup, lists>> /\ stats_pktCount' \in Nat
  /\ todo' \in Seq(Entries(EntryLists)) /\ main_pc' = "store" /\ prev_num_domains' \in Int
  /\ OtidOfItsTopic'

LEMMA MainApart ==
  ASSUME ListsInv, ListenInv, main, ~ store_entry PROVE Apart \/ Decoded
<1>0. todo = <<>> \/ main_pc = "store"
  BY DEF ListsInv
<1> USE DEF countVars, listVars
<1>1. CASE all_stored
  BY <1>1 DEF all_stored, Apart
<1>2. CASE load_received \/ write_received \/ set_received
  BY <1>0, <1>2 DEF load_received, write_received, set_received, Written, Apart
<1>3. CASE count_packet
  BY <1>0, <1>3 DEF count_packet, Apart
<1>4. CASE main_pc = "read" /\ read_frame
  <2>1. CASE skip_frame
    BY <2>1 DEF skip_frame, NextFrame, mainVars, Apart
  <2>2. setup \in Setups /\ setup.capture # "none" /\ stats_pktCount \in Nat
    BY <1>4 DEF ListenInv, ListsInv
  <2>3. ASSUME NEW f \in Captures(setup.capture).frames, read_udp(f) PROVE Decoded
    <3>1. f.kind = "udp" /\ UNCHANGED <<setup, lists, stats_pktCount>>
      BY <2>3 DEF read_udp, NextFrame
    <3>2. IsPacket(f.packet)
      BY <2>2, <3>1, PacketsAssumption
    <3>3. IsPacket(IF f.link = "raw" THEN Damaged ELSE f.packet)
      BY <3>2, DamagedIsPacket
    <3>4. Decode(IF f.link = "raw" THEN Damaged ELSE f.packet, "file")
      BY <2>3 DEF read_udp
    <3> QED
      BY <2>2, <3>1, <3>3, <3>4, DecodeTypes, DecodeNames DEF Decoded
  <2>4. ASSUME NEW f \in Captures(setup.capture).frames, read_other(f) PROVE Apart
    BY <2>4 DEF read_other, NextFrame, mainVars, Apart
  <2>5. ASSUME NEW f \in Captures(setup.capture).frames, read_fragment(f) PROVE Apart \/ Decoded
    <3>1. f.kind = "fragment" /\ UNCHANGED <<setup, lists>>
      BY <2>5 DEF read_fragment, NextFrame
    <3>2. CASE UNCHANGED <<mainVars, prev_num_domains>> /\ stats_pktCount' = stats_pktCount + 1
      BY <3>1, <3>2 DEF Apart, mainVars
    <3>3. ASSUME NEW b, Decode(Carried(b), "fragments"), UNCHANGED stats_pktCount PROVE Decoded
      <4>1. IsPacket(Carried(b))
        BY <2>2, <3>1, CarriedIsPacket
      <4> QED
        BY <2>2, <3>1, <3>3, <4>1, DecodeTypes, DecodeNames DEF Decoded
    <3> QED
      BY <2>5, <3>2, <3>3 DEF read_fragment
  <2> QED
    BY <1>4, <2>1, <2>3, <2>4, <2>5 DEF read_frame
<1>5. CASE end_of_file \/ report \/ recv_error
  BY <1>0, <1>5 DEF end_of_file, report, PrintList, recv_error, Apart
<1>6. CASE \E p \in Heard : recvfrom(p)
  <2>1. PICK p \in Heard : recvfrom(p)
    BY <1>6
  <2>2. UNCHANGED <<setup, lists>> /\ stats_pktCount' = stats_pktCount + 1 /\ Decode(p, "socket")
    BY <2>1 DEF recvfrom
  <2>3. IsPacket(p) /\ stats_pktCount \in Nat
    BY PacketsAssumption DEF ListsInv
  <2> QED
    BY <2>2, <2>3, DecodeTypes, DecodeNames DEF Decoded
<1> QED
  BY <1>1, <1>2, <1>3, <1>4, <1>5, <1>6 DEF main

LEMMA OthersApart ==
  lbmrd_keepalive \/ lose_answer \/ one_second \/ dump_wakes \/ TS_print_stored_stats => Apart
<1> USE DEF countVars, listVars, mainVars, Apart
<1>1. lbmrd_keepalive => Apart
  BY DEF lbmrd_keepalive, ka_test_one, ka_test_zero, ka_test_many, ka_heard, ka_send, ka_goto,
     CheckOver
<1>2. lose_answer \/ one_second => Apart
  BY DEF lose_answer, one_second
<1>3. dump_wakes \/ TS_print_stored_stats => Apart
  BY DEF dump_wakes, TS_print_stored_stats, PrintList
<1> QED
  BY <1>1, <1>2, <1>3

(* What storing and clearing make of the lists.                            *)
LEMMA StoredIs ==
  ASSUME ListsInv, store_entry
  PROVE  \E n \in Lists : \E key \in Str :
           /\ lists' = [lists EXCEPT ![n] = strings_list_store(@, key)]
           /\ Gains(lists[n], key, strings_list_store(lists[n], key))
           /\ UNCHANGED <<setup, main_pc, stats_pktCount, prev_num_domains, printed>>
           /\ todo' \in Seq(Entries(EntryLists))
<1> DEFINE n == Head(todo).list
           key == Key(Head(todo))
<1>1. main_pc = "store" /\ todo # <<>> /\ todo' = Tail(todo)
  BY DEF store_entry
<1>2. n \in Lists /\ key \in Str /\ Tail(todo) \in Seq(Entries(EntryLists))
  BY <1>1, KeyIsString
<1>3. lists' = [lists EXCEPT ![n] = strings_list_store(@, key)]
  BY DEF store_entry
<1>4. UNCHANGED <<setup, main_pc, stats_pktCount, prev_num_domains, printed>>
  BY DEF store_entry, countVars
<1>5. IsList(lists[n])
  BY <1>2 DEF ListsInv
<1>6. Gains(lists[n], key, strings_list_store(lists[n], key))
  BY <1>2, <1>5, ListsOnList
<1> QED
  BY <1>1, <1>2, <1>3, <1>4, <1>6

LEMMA ListsInvStep == ListsInv /\ ListenInv /\ OwedInv /\ [Next]_vars => ListsInv'
<1> SUFFICES ASSUME ListsInv, ListenInv, OwedInv, [Next]_vars PROVE ListsInv'
  OBVIOUS
<1>1. CASE Apart
  BY <1>1 DEF Apart, ListsInv
<1>2. CASE store_entry
  <2>1. PICK n \in Lists, key \in Str :
          /\ lists' = [lists EXCEPT ![n] = strings_list_store(@, key)]
          /\ Gains(lists[n], key, strings_list_store(lists[n], key))
          /\ UNCHANGED <<setup, main_pc, stats_pktCount, prev_num_domains, printed>>
          /\ todo' \in Seq(Entries(EntryLists))
    BY <1>2, StoredIs
  <2>2. IsList(strings_list_store(lists[n], key))
    BY <2>1 DEF Gains, IsList
  <2>3. main_pc = "store"
    BY <1>2 DEF store_entry
  <2> QED
    BY <2>1, <2>2, <2>3 DEF ListsInv
<1>3. CASE main /\ ~ store_entry /\ ~ Apart
  <2>1. Decoded
    BY <1>3, MainApart
  <2> QED
    BY <2>1 DEF Decoded, ListsInv
<1>4. CASE TS_clear_stored_stats
  <2> DEFINE n == ClearOrder[dump_at + 1]
  <2>1. /\ lists' = [lists EXCEPT ![n] = clear_string_list(@)]
        /\ UNCHANGED <<setup, main_pc, todo, stats_pktCount, prev_num_domains>>
    BY <1>4 DEF TS_clear_stored_stats, ClearList, mainVars, countVars
  <2>2. \A m \in Lists : IsList(clear_string_list(lists[m]))
    BY ListsOnList DEF ListsInv
  <2> QED
    BY <2>1, <2>2 DEF ListsInv
<1>5. CASE UNCHANGED vars
  BY <1>1, <1>5 DEF vars, mainVars, countVars, listVars, Apart
<1> QED
  BY <1>1, <1>2, <1>3, <1>4, <1>5, OthersApart DEF Next, TS_stats_dump_thread

(* The numbers: unsigned shorts and unsigned ints.                         *)
NumbersInv ==
  /\ TS_lbmrd_keepalive_received \in 0 .. 2^16 - 1
  /\ dump_ivl \in 0 .. Word - 1 /\ clear_ivl \in 0 .. Word - 1 /\ dump_at \in 0 .. 6
  /\ verdict \in {"none", "heard", "silent"}

Numbers == <<TS_lbmrd_keepalive_received, dump_ivl, clear_ivl, dump_at, verdict>>

LEMMA NumbersInvInit == Init => NumbersInv
  BY SnifferAssumption DEF Init, NumbersInv

LEMMA NumbersInvStep == DumpInv /\ HeardInv /\ NumbersInv /\ [Next]_vars => NumbersInv'
<1> SUFFICES ASSUME DumpInv, HeardInv, NumbersInv, [Next]_vars PROVE NumbersInv'
  OBVIOUS
<1>0. Len(PrintOrder) = 7 /\ Len(ClearOrder) = 7
  BY DEF PrintOrder, ClearOrder
<1>1. CASE UNCHANGED Numbers
  BY <1>1 DEF Numbers, NumbersInv
<1> USE DEF kaVars, dumpVars
<1>2. store_entry \/ all_stored \/ load_received \/ count_packet => UNCHANGED Numbers
  BY DEF store_entry, all_stored, load_received, count_packet, Numbers
<1>3. CASE write_received
  <2>1. 2^16 = 65536
    OBVIOUS
  <2>2. (loaded - 1) % 2^16 \in 0 .. 2^16 - 1
    BY <2>1 DEF HeardInv
  <2> QED
    BY <1>3, <2>2 DEF write_received, Written, NumbersInv
<1>4. CASE set_received
  <2>1. 99 \in 0 .. 2^16 - 1
    OBVIOUS
  <2> QED
    BY <1>4, <2>1 DEF set_received, Written, NumbersInv
<1>5. read_frame \/ end_of_file \/ recv_error \/ (\E p \in Heard : recvfrom(p)) => UNCHANGED Numbers
  BY DEF read_frame, skip_frame, read_udp, read_other, read_fragment, NextFrame, end_of_file,
     recv_error, recvfrom, Numbers
<1>6. CASE report
  BY <1>0, <1>6 DEF report, NumbersInv
<1>7. CASE ka_test_one \/ ka_test_zero \/ ka_test_many \/ ka_send \/ lose_answer
  BY <1>7 DEF ka_test_one, ka_test_zero, ka_test_many, ka_send, lose_answer, ka_goto, CheckOver,
     NumbersInv
<1>8. CASE ka_heard
  <2>1. 2 \in 0 .. 2^16 - 1
    OBVIOUS
  <2> QED
    BY <1>8, <2>1 DEF ka_heard, CheckOver, NumbersInv
<1>9. /\ setup.stats_ivl \in 0 .. Word - 1 /\ setup.clearstats_ivl \in 0 .. Word - 1
      /\ Word \in Nat \ {0}
  BY SnifferAssumption DEF DumpInv
<1>10. CASE dump_wakes
  <2>1. min_ivl \in Nat
    BY <1>9 DEF min_ivl
  <2>2. /\ (dump_ivl - min_ivl) % Word \in 0 .. Word - 1
        /\ (clear_ivl - min_ivl) % Word \in 0 .. Word - 1
    BY <1>9, <2>1 DEF NumbersInv
  <2> QED
    BY <1>10, <2>2 DEF dump_wakes, NumbersInv
<1>11. CASE TS_print_stored_stats
  BY <1>0, <1>9, <1>11 DEF TS_print_stored_stats, NumbersInv
<1>12. CASE TS_clear_stored_stats
  BY <1>0, <1>9, <1>12 DEF TS_clear_stored_stats, NumbersInv
<1>13. CASE one_second
  BY <1>1, <1>13 DEF one_second, Numbers
<1>14. CASE UNCHANGED vars
  BY <1>1, <1>14 DEF vars, Numbers
<1> QED
  BY <1>1, <1>2, <1>3, <1>4, <1>5, <1>6, <1>7, <1>8, <1>10, <1>11, <1>12, <1>13, <1>14
     DEF Next, main, lbmrd_keepalive, TS_stats_dump_thread

LEMMA ListsInvAlways == Spec => [](ListsInv /\ NumbersInv /\ ListenInv /\ OwedInv)
<1>1. DumpInv /\ ListenInv /\ OwedInv /\ HeardInv /\ ListsInv /\ NumbersInv /\ [Next]_vars
        => (DumpInv /\ ListenInv /\ OwedInv /\ HeardInv /\ ListsInv /\ NumbersInv)'
  BY DumpInvStep, ListenInvStep, OwedInvStep, HeardInvStep, ListsInvStep, NumbersInvStep
<1>2. Init => DumpInv /\ ListenInv /\ OwedInv /\ HeardInv /\ ListsInv /\ NumbersInv
  BY DumpInvInit, ListenInvInit, OwedInvInit, HeardInvInit, ListsInvInit, NumbersInvInit
<1> QED
  BY <1>1, <1>2, PTL DEF Spec

(* Whatever packets are stored, in whatever order their strings come, every *)
(* list is one sorted chain of all its nodes whenever a thread can lock it *)
(* (TS_util.c), and the numbers the threads count down stay unsigned.      *)
THEOREM TypeCorrect == Spec => []TypeOK
<1>1. ListsInv /\ NumbersInv => TypeOK
  <2> SUFFICES ASSUME ListsInv, NumbersInv PROVE TypeOK
    OBVIOUS
  <2>1. \A n \in Lists : Sound(lists[n])
    BY ListsOnList DEF ListsInv
  <2> QED
    BY <2>1 DEF TypeOK, ListsInv, NumbersInv
<1> QED
  BY <1>1, ListsInvAlways, PTL

LEMMA NamedStep == ListsInv /\ ListenInv /\ OtidOfItsTopic /\ [Next]_vars => OtidOfItsTopic'
<1> SUFFICES ASSUME ListsInv, ListenInv, OtidOfItsTopic, [Next]_vars PROVE OtidOfItsTopic'
  OBVIOUS
<1>1. CASE decoded' = decoded
  BY <1>1 DEF OtidOfItsTopic
<1>2. CASE decoded' = NoPacket
  BY <1>2 DEF OtidOfItsTopic, NoPacket
<1>3. CASE store_entry
  BY <1>1, <1>3 DEF store_entry
<1>4. CASE main /\ ~ store_entry
  <2>1. Apart \/ Decoded
    BY <1>4, MainApart
  <2> QED
    BY <1>1, <1>2, <2>1 DEF Apart, Decoded
<1>5. CASE TS_clear_stored_stats
  BY <1>1, <1>5 DEF TS_clear_stored_stats, mainVars
<1>6. CASE UNCHANGED vars
  BY <1>1, <1>6 DEF vars, mainVars
<1>7. CASE Apart
  BY <1>1, <1>2, <1>7 DEF Apart
<1> QED
  BY <1>3, <1>4, <1>5, <1>6, <1>7, OthersApart DEF Next, TS_stats_dump_thread

(* However many advertisements a packet has, the flags and the buffers that *)
(* are kept between them (lines 976, 1143) never give an OTID the topic or *)
(* the name of another one.                                                *)
THEOREM OtidsBelong == Spec => []OtidOfItsTopic
<1>1. Init => OtidOfItsTopic
  BY DEF Init, OtidOfItsTopic, NoPacket
<1> QED
  BY <1>1, NamedStep, ListsInvAlways, PTL DEF Spec

(***************************************************************************)
(* The lists are sets of strings to the threads that share them.           *)
(***************************************************************************)

contents == [n \in Lists |-> Strings(lists[n])]

LEMMA PrintedAlone ==
  ASSUME Next, ~ TS_print_stored_stats, ~ report
  PROVE  printed' = printed
<1> USE DEF listVars
<1>1. store_entry \/ all_stored \/ count_packet => printed' = printed
  BY DEF store_entry, all_stored, count_packet
<1>2. load_received \/ write_received \/ set_received => printed' = printed
  BY DEF load_received, write_received, set_received, Written
<1>3. read_frame => printed' = printed
  BY DEF read_frame, skip_frame, read_udp, read_other, read_fragment, NextFrame
<1>4. end_of_file \/ recv_error \/ (\E p \in Heard : recvfrom(p)) => printed' = printed
  BY DEF end_of_file, recv_error, recvfrom
<1>5. lbmrd_keepalive \/ lose_answer \/ one_second => printed' = printed
  BY DEF lbmrd_keepalive, ka_test_one, ka_test_zero, ka_test_many, ka_heard, ka_send, ka_goto,
     CheckOver, lose_answer, one_second
<1>6. dump_wakes \/ TS_clear_stored_stats => printed' = printed
  BY DEF dump_wakes, TS_clear_stored_stats, ClearList
<1> QED
  BY <1>1, <1>2, <1>3, <1>4, <1>5, <1>6 DEF Next, main, TS_stats_dump_thread

LEMMA ShowMaps ==
  ASSUME ListsInv, NEW n \in Lists, PrintList(n)
  PROVE  Set!Show(n)
<1>1. IsList(lists[n])
  BY DEF ListsInv
<1> DEFINE shown == print_string_list(lists[n])
<1>2. /\ {shown[i] : i \in DOMAIN shown} = Strings(lists[n])
      /\ \A i \in 1 .. Len(shown) - 1 : Before(shown[i], shown[i + 1])
  BY <1>1, PrintShows
<1> HIDE DEF shown
<1>3. printed'.list = n /\ printed'.shown = shown /\ lists' = lists
  BY DEF PrintList, shown
<1> QED
  BY <1>2, <1>3 DEF Set!Show, Set!Ascending

THEOREM ListsAreSets == Spec => ImplementsStatsSet
<1>1. Init => Set!Init
  <2> SUFFICES ASSUME Init PROVE Set!Init
    OBVIOUS
  <2>1. lists = [n \in Lists |-> EmptyList] /\ printed = [list |-> "none", shown |-> <<>>]
    BY DEF Init
  <2>2. [n \in Lists |-> Strings(lists[n])] = [n \in Lists |-> {}]
    BY <2>1, EmptyIsChain
  <2> QED
    BY <2>1, <2>2 DEF Set!Init
<1>2. ASSUME ListsInv, ListenInv, OwedInv, NumbersInv, [Next]_vars PROVE [Set!Next]_(Set!vars)
  <2>1. CASE UNCHANGED <<lists, printed>>
    BY <2>1 DEF Set!vars
  <2>2. CASE store_entry
    <3>1. PICK n \in Lists, key \in Str :
            /\ lists' = [lists EXCEPT ![n] = strings_list_store(@, key)]
            /\ Gains(lists[n], key, strings_list_store(lists[n], key))
            /\ UNCHANGED <<setup, main_pc, stats_pktCount, prev_num_domains, printed>>
            /\ todo' \in Seq(Entries(EntryLists))
      BY <1>2, <2>2, StoredIs
    <3> DEFINE new == strings_list_store(lists[n], key)
    <3>2. Strings(new) = Strings(lists[n]) \union {key}
      BY <3>1 DEF Gains
    <3> HIDE DEF new
    <3>3. \A m \in Lists : lists'[m] = IF m = n THEN new ELSE lists[m]
      BY <1>2, <3>1 DEF ListsInv, new
    <3>4. contents' = [contents EXCEPT ![n] = @ \union {key}] /\ key \in contents'[n]
      BY <3>2, <3>3 DEF contents
    <3>5. Set!Store(n)
      BY <3>1, <3>4 DEF Set!Store, contents
    <3> QED
      BY <3>5 DEF Set!Next
  <2>3. CASE TS_print_stored_stats \/ report
    <3> DEFINE n == PrintOrder[dump_at + 1]
    <3>1. PrintList(n)
      BY <2>3 DEF TS_print_stored_stats, report
    <3>2. dump_at + 1 \in 1 .. 7
      BY <1>2 DEF NumbersInv
    <3>3. n \in Lists
      BY <3>2 DEF PrintOrder, Lists
    <3> HIDE DEF n
    <3>4. Set!Show(n)
      BY <1>2, <3>1, <3>3, ShowMaps
    <3> QED
      BY <3>3, <3>4 DEF Set!Next
  <2>4. CASE TS_clear_stored_stats
    <3> DEFINE n == ClearOrder[dump_at + 1]
    <3>1. ClearList(n)
      BY <2>4 DEF TS_clear_stored_stats
    <3>2. dump_at + 1 \in 1 .. 7
      BY <1>2 DEF NumbersInv
    <3>3. n \in Lists
      BY <3>2 DEF ClearOrder, Lists
    <3> HIDE DEF n
    <3> DEFINE new == clear_string_list(lists[n])
    <3>4. Strings(new) = {}
      BY <1>2, <3>3, ListsOnList DEF ListsInv
    <3>5. lists' = [lists EXCEPT ![n] = new] /\ printed' = printed
      BY <3>1 DEF ClearList
    <3> HIDE DEF new
    <3>6. \A m \in Lists : lists'[m] = IF m = n THEN new ELSE lists[m]
      BY <1>2, <3>5 DEF ListsInv
    <3>7. contents' = [contents EXCEPT ![n] = {}]
      BY <3>4, <3>6 DEF contents
    <3>8. Set!Clear(n)
      BY <3>5, <3>7 DEF Set!Clear, contents
    <3> QED
      BY <3>3, <3>8 DEF Set!Next
  <2>5. CASE UNCHANGED vars
    BY <2>1, <2>5 DEF vars, listVars
  <2>6. CASE /\ Next /\ ~ store_entry /\ ~ TS_print_stored_stats /\ ~ report
             /\ ~ TS_clear_stored_stats
    <3>1. lists' = lists
      BY <1>2, <2>6, MainApart, OthersApart DEF Next, TS_stats_dump_thread, Apart, Decoded
    <3> QED
      BY <2>1, <2>6, <3>1, PrintedAlone
  <2> QED
    BY <1>2, <2>2, <2>3, <2>4, <2>5, <2>6
<1>3. ListsInv /\ ListenInv /\ OwedInv /\ NumbersInv /\ [Next]_vars => [Set!Next]_(Set!vars)
  BY <1>2
<1> QED
  BY <1>1, <1>3, ListsInvAlways, PTL DEF Spec, ImplementsStatsSet, Set!Spec
=============================================================================
