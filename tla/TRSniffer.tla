----------------------------- MODULE TRSniffer -----------------------------
(***************************************************************************)
(* TRsniffer: main(), which reads packets from a capture file or a socket  *)
(* and decodes them, the thread that prints and clears what was found, and *)
(* the thread that sends keepalives to lbmrd and watches for answers.  The *)
(* three share the lists (StringList, each under its mutex) and the number *)
(* TS_lbmrd_keepalive_received (under nothing).                            *)
(***************************************************************************)
EXTENDS LbmrDecode, IpFrags, StringList

CONSTANTS
  Setups,        \* what the command line may say
  Captures(_),   \* by name: the frames a capture file is made of, how many,
                 \* and the packets that its fragments carry
  Heard,         \* the packets on the network while the program listens
  Unset,         \* what unset variables may hold
  Word,          \* values of an unsigned int of the dump thread
  MaxPackets,    \* packets received
  MaxAsked       \* keepalives lbmrd has not answered

ASSUME SnifferAssumption ==
  /\ Word \in Nat \ {0} /\ MaxPackets \in Nat /\ MaxAsked \in Nat
  /\ \A s \in Setups : s.stats_ivl \in 0 .. Word - 1 /\ s.clearstats_ivl \in 0 .. Word - 1
  /\ \A s \in {t \in Setups : t.capture # "none"} : \A f \in Captures(s.capture).frames :
       f.kind = "fragment" => f.fragment \in UNION Datagrams

\* What is read as a packet has the fields of one, whatever they say.
ASSUME PacketsAssumption ==
  /\ \A u \in Unset : IsUnset(u)
  /\ \A p \in Heard : IsPacket(p)
  /\ \A s \in Setups : s.save_all \in BOOLEAN
  /\ \A s \in {t \in Setups : t.capture # "none"} : \A f \in Captures(s.capture).frames :
       /\ f.kind = "udp" => IsPacket(f.packet)
       /\ f.kind = "fragment" =>
            \A g \in UNION Datagrams : IsPacket(Captures(s.capture).carries[g.datagram])

VARIABLES
  setup,           \* the options and the addresses, in the order given
  main_pc,         \* "read", "recv", "store", "load", "write", "set99", "count", "report", "exit"
  decoded,         \* the packet main() is at, and what decoding it gave
  todo,            \* entries of it that are still to be stored
  loaded,          \* TS_lbmrd_keepalive_received as main() has read it
  lists,           \* the seven lists
  stats,           \* the stats_* counters
  stats_pktCount,
  frames_read,     \* frames of the capture file
  prev_num_domains,
  TS_lbmrd_keepalive_received,
  ka_pc,           \* the keepalive thread: the test it is at, "heard", "usleep1", "usleep2"
  asked,           \* keepalives lbmrd has not answered
  dump_pc,         \* the dump thread: "off", "sleep", "print" or "clear"
  dump_at,         \* ... the list it is at
  slept,           \* seconds of its sleep
  dump_ivl, clear_ivl,
  printed,         \* the list printed last and what was shown
  verdict,         \* observation: what the last check of the answers said
  quiet,           \* observation: checks since main() last wrote that number
  answered,        \* observation: it did between the last check and this one
  begun,           \* observation: ... and began to after the last check
  counted,         \* observation: answers counted down since it was set, 9 at most
  sincePrint,      \* observation: seconds since the lists were printed
  fresh,           \* observation: entries not printed since they were stored
  owed             \* observation: those of them there were at the last wake-up

mainVars == <<main_pc, decoded, todo, loaded>>
countVars == <<stats, stats_pktCount, frames_read, prev_num_domains>>
dumpVars == <<dump_pc, dump_at, slept, dump_ivl, clear_ivl, sincePrint>>
kaVars == <<TS_lbmrd_keepalive_received, ka_pc, asked, verdict, quiet, answered, begun,
            counted>>
listVars == <<lists, printed, fresh, owed>>
vars == <<setup, mainVars, countVars, dumpVars, kaVars, listVars, fragVars>>

Lists == {"ulbs", "dros", "umps", "tmrs", "wtqrs", "tqrs", "otids"}
PrintOrder == <<"ulbs", "dros", "umps", "tmrs", "wtqrs", "tqrs", "otids">>
ClearOrder == <<"dros", "umps", "tmrs", "wtqrs", "tqrs", "otids", "ulbs">>

\* -u asks for keepalives whatever other addresses there are; all is read from,
\* and keepalives go to, the first address.
unicastTR == "u" \in ToSet(setup.addrs)
AddrList == IF setup.addrs = <<>> THEN "m" ELSE Head(setup.addrs)
Opts == [stats |-> setup.stats, save_all |-> setup.save_all, unicastTR |-> unicastTR]

NoPacket == [ret |-> 0, packet |-> <<>>, stored |-> <<>>, count |-> <<>>, from |-> "none"]

min_ivl ==
  IF setup.clearstats_ivl > setup.stats_ivl \/ setup.clearstats_ivl = 0
  THEN setup.stats_ivl ELSE setup.clearstats_ivl

Init ==
  /\ setup \in Setups
  /\ main_pc = IF setup.capture # "none" THEN "read" ELSE "recv"
  /\ decoded = NoPacket /\ todo = <<>> /\ loaded = 0
  /\ lists = [n \in Lists |-> EmptyList]
  /\ stats = [c \in Counters \union {"lbmr", "nonlbmr"} |-> 0]
  /\ stats_pktCount = 1 /\ frames_read = 0 /\ prev_num_domains = -1
  /\ TS_lbmrd_keepalive_received = IF unicastTR THEN 2 ELSE 0
  /\ ka_pc = (IF unicastTR THEN "one" ELSE "off") /\ asked = 0
  /\ dump_pc = IF setup.stats_ivl # 0 /\ setup.capture = "none" THEN "sleep" ELSE "off"
  /\ dump_at = 0 /\ slept = 0
  /\ dump_ivl = setup.stats_ivl /\ clear_ivl = setup.clearstats_ivl
  /\ printed = [list |-> "none", shown |-> <<>>]
  /\ verdict = "none" /\ quiet = 0 /\ answered = FALSE /\ begun = FALSE
  /\ counted = 0 /\ sincePrint = 0 /\ fresh = {} /\ owed = {}
  /\ FragsInit

-----------------------------------------------------------------------------
(* Decoding a packet                                                       *)

\* A buffer that is no datagram: the decoder sees another version
Damaged == [version |-> 7, dest |-> "none"]

\* `from' says how the packet came, which the counting asks
Decode(p, from) ==
  \E u \in Unset :
    LET d == DecodeLbmrPacket(p, Opts, u, prev_num_domains)
    IN /\ decoded' = [ret |-> d.ret, packet |-> p, stored |-> d.stored,
                      count |-> d.count, from |-> from]
       /\ todo' = d.stored
       /\ prev_num_domains' = d.prev_num_domains
       /\ main_pc' = "store"
       /\ UNCHANGED loaded

\* TS_stats_*: with save_all_entries the time comes first
Key(e) == IF e.timed THEN <<100 + stats_pktCount>> \o e.key ELSE e.key

store_entry ==
  /\ main_pc = "store" /\ todo # <<>>
  /\ LET e == Head(todo)
     IN /\ lists' = [lists EXCEPT ![e.list] = strings_list_store(@, Key(e))]
        /\ fresh' = IF dump_pc = "off" THEN fresh ELSE fresh \union {<<e.list, Key(e)>>}
  /\ todo' = Tail(todo)
  /\ UNCHANGED <<setup, main_pc, decoded, loaded, countVars, dumpVars, kaVars, printed, owed,
                 fragVars>>

\* An answer of lbmrd is counted down, a packet from it is noted
all_stored ==
  /\ main_pc = "store" /\ todo = <<>>
  /\ main_pc' = IF decoded.ret = 99999 THEN "load"
                ELSE IF decoded.ret = 0 /\ unicastTR THEN "set99"
                ELSE "count"
  /\ UNCHANGED <<setup, decoded, todo, loaded, countVars, dumpVars, kaVars, listVars, fragVars>>

BetweenChecks == ka_pc \in {"usleep1", "usleep2"}

\* TS_lbmrd_keepalive_received--
load_received ==
  /\ main_pc = "load"
  /\ loaded' = TS_lbmrd_keepalive_received
  /\ begun' = BetweenChecks
  /\ main_pc' = "write"
  /\ UNCHANGED <<setup, decoded, todo, countVars, dumpVars, TS_lbmrd_keepalive_received, ka_pc,
                 asked, verdict, quiet, answered, counted, listVars, fragVars>>

Written(value, began) ==
  /\ TS_lbmrd_keepalive_received' = value
  /\ quiet' = 0
  /\ answered' = (answered \/ (began /\ BetweenChecks))
  /\ begun' = FALSE
  /\ main_pc' = "count"
  /\ UNCHANGED <<setup, decoded, todo, loaded, countVars, dumpVars, ka_pc, asked, verdict,
                 listVars, fragVars>>

write_received ==
  /\ main_pc = "write" /\ Written((loaded - 1) % 2^16, begun)
  /\ counted' = IF counted < 9 THEN counted + 1 ELSE 9

set_received == main_pc = "set99" /\ Written(99, TRUE) /\ counted' = 0

\* A packet put together from fragments is counted only if it is understood;
\* an answer of lbmrd is not counted as a packet.
count_packet ==
  /\ main_pc = "count"
  /\ LET outcome == IF decoded.ret = 0 THEN {"lbmr"}
                    ELSE IF decoded.from = "fragments" \/ (decoded.from = "socket"
                                                           /\ decoded.ret = 99999) THEN {}
                    ELSE {"nonlbmr"}
     IN stats' = [c \in DOMAIN stats |->
                    stats[c] + (IF c \in outcome THEN 1 ELSE 0)
                             + (IF c \in Counters THEN decoded.count[c] ELSE 0)]
  /\ decoded' = NoPacket
  /\ UNCHANGED <<setup, todo, loaded, frames_read, prev_num_domains, dumpVars, kaVars, listVars,
                 fragVars>>
  /\ \/ /\ decoded.from # "socket"
        /\ main_pc' = "read" /\ stats_pktCount' = stats_pktCount + 1
     \/ /\ decoded.from = "socket"
        /\ main_pc' = "recv" /\ UNCHANGED stats_pktCount
     \/ /\ decoded.from = "socket" /\ setup.pcapFile     \* the record is not written
        /\ main_pc' = "exit" /\ UNCHANGED stats_pktCount

-----------------------------------------------------------------------------
(* Reading a capture file                                                  *)

NextFrame ==
  /\ main_pc = "read" /\ frames_read < Captures(setup.capture).max
  /\ frames_read' = frames_read + 1
  /\ UNCHANGED <<setup, dumpVars, kaVars, listVars, stats>>

\* -1, which -E is without the option, is the largest unsigned number.
Skipped == stats_pktCount < setup.start \/ (setup.stop # -1 /\ stats_pktCount > setup.stop)

\* A frame that is skipped is not counted.
skip_frame ==
  /\ NextFrame /\ Skipped
  /\ UNCHANGED <<mainVars, stats_pktCount, prev_num_domains, fragVars>>

\* Behind no Ethernet header the IP header is looked for where it is not.
read_udp(f) ==
  /\ NextFrame /\ ~ Skipped /\ f.kind = "udp"
  /\ Decode(IF f.link = "raw" THEN Damaged ELSE f.packet, "file")
  /\ UNCHANGED <<stats_pktCount, fragVars>>

read_other(f) ==
  /\ NextFrame /\ ~ Skipped /\ (f.kind = "other" \/ (f.kind = "udp" /\ f.link = "raw"))
  /\ stats_pktCount' = stats_pktCount + 1
  /\ UNCHANGED <<mainVars, prev_num_domains, fragVars>>

\* The packet that datagram carries
Carried(buffer) ==
  IF \E d \in Datagrams : IsWhole(buffer, d)
  THEN Captures(setup.capture).carries[(CHOOSE f \in buffer.frags : TRUE).datagram]
  ELSE Damaged

read_fragment(f) ==
  /\ NextFrame /\ ~ Skipped /\ f.kind = "fragment"
  /\ TS_assemble_udp_frags(f.fragment)
  /\ \/ /\ Assembled(f.fragment) = {}
        /\ stats_pktCount' = stats_pktCount + 1
        /\ UNCHANGED <<mainVars, prev_num_domains>>
     \/ \E b \in Assembled(f.fragment) :
          Decode(Carried(b), "fragments") /\ UNCHANGED stats_pktCount

end_of_file ==
  /\ main_pc = "read"
  /\ main_pc' = IF setup.stats THEN "report" ELSE "exit"
  /\ UNCHANGED <<setup, decoded, todo, loaded, countVars, dumpVars, kaVars, listVars, fragVars>>

-----------------------------------------------------------------------------
(* Listening                                                               *)

\* Only the first address is read from.
recvfrom(p) ==
  /\ main_pc = "recv" /\ stats_pktCount <= MaxPackets
  /\ p.dest = AddrList
  /\ IsAnswer(p) => asked > 0
  /\ asked' = IF IsAnswer(p) THEN asked - 1 ELSE asked
  /\ stats_pktCount' = stats_pktCount + 1
  /\ Decode(p, "socket")
  /\ UNCHANGED <<setup, stats, frames_read, dumpVars, TS_lbmrd_keepalive_received, ka_pc, verdict,
                 quiet, answered, begun, counted, listVars, fragVars>>

\* recvfrom fails
recv_error ==
  /\ main_pc = "recv" /\ main_pc' = "exit"
  /\ UNCHANGED <<setup, decoded, todo, loaded, countVars, dumpVars, kaVars, listVars, fragVars>>

-----------------------------------------------------------------------------
(* lbmrd_keepalive                                                         *)

Running == main_pc # "exit"

ka_at(pc) == Running /\ ka_pc = pc

ka_goto(pc) ==
  /\ ka_pc' = pc
  /\ UNCHANGED <<setup, mainVars, countVars, dumpVars, TS_lbmrd_keepalive_received, asked,
                 verdict, quiet, answered, begun, counted, listVars, fragVars>>

\* The number is read again for each test.
ka_test_one ==
  /\ ka_at("one")
  /\ ka_goto(IF TS_lbmrd_keepalive_received = 1 THEN "heard" ELSE "zero")

ka_test_zero ==
  /\ ka_at("zero")
  /\ ka_goto(IF TS_lbmrd_keepalive_received = 0 THEN "heard" ELSE "many")

CheckOver(said) ==
  /\ verdict' = said
  /\ quiet' = IF quiet < 3 THEN quiet + 1 ELSE quiet
  /\ answered' = FALSE /\ begun' = FALSE
  /\ ka_pc' = "usleep1"
  /\ UNCHANGED <<setup, mainVars, countVars, dumpVars, asked, listVars, fragVars>>

ka_test_many ==
  /\ ka_at("many")
  /\ \/ TS_lbmrd_keepalive_received > 90 /\ ka_goto("heard")
     \/ /\ TS_lbmrd_keepalive_received <= 90
        /\ CheckOver("silent")              \* WARNING! LBMRD No response
        /\ UNCHANGED <<TS_lbmrd_keepalive_received, counted>>

ka_heard_NotReset ==
  /\ ka_at("heard")
  /\ CheckOver("heard")
  /\ UNCHANGED <<TS_lbmrd_keepalive_received, counted>>

\* What main() has read before and writes after is the old number.
ka_heard ==
  /\ ka_at("heard")
  /\ TS_lbmrd_keepalive_received' = 2
  /\ counted' = IF main_pc = "write" THEN counted ELSE 0
  /\ CheckOver("heard")

\* One for the receiver and one for the source; lbmrd hears them if it is the
\* first address.
ka_send ==
  /\ Running /\ BetweenChecks
  /\ ka_pc' = IF ka_pc = "usleep1" THEN "usleep2" ELSE "one"
  /\ asked' = IF AddrList = "u" /\ asked < MaxAsked THEN asked + 1 ELSE asked
  /\ UNCHANGED <<setup, mainVars, countVars, dumpVars, TS_lbmrd_keepalive_received, verdict,
                 quiet, answered, begun, counted, listVars, fragVars>>

\* A keepalive, or the answer to it, is lost
lose_answer ==
  /\ Running /\ asked > 0 /\ asked' = asked - 1
  /\ UNCHANGED <<setup, mainVars, countVars, dumpVars, TS_lbmrd_keepalive_received, ka_pc, verdict,
                 quiet, answered, begun, counted, listVars, fragVars>>

-----------------------------------------------------------------------------
(* TS_stats_dump_thread, and the report at the end of a file               *)

PrintList(n) ==
  /\ printed' = [list |-> n, shown |-> print_string_list(lists[n])]
  /\ fresh' = {e \in fresh : e[1] # n}
  /\ owed' = {e \in owed : e[1] # n}
  /\ UNCHANGED lists

ClearList(n) ==
  /\ lists' = [lists EXCEPT ![n] = clear_string_list(@)]
  /\ fresh' = {e \in fresh : e[1] # n}
  /\ UNCHANGED <<printed, owed>>

one_second ==
  /\ Running /\ dump_pc = "sleep" /\ slept < min_ivl
  /\ slept' = slept + 1 /\ sincePrint' = sincePrint + 1
  /\ UNCHANGED <<setup, mainVars, countVars, dump_pc, dump_at, dump_ivl, clear_ivl, kaVars,
                 listVars, fragVars>>

Due_Exactly(ivl) == ivl = 0

\* Is there less left than the next sleep takes?
Due(ivl) == ivl < min_ivl

dump_wakes_ClearFirst ==
  /\ Running /\ dump_pc = "sleep" /\ slept = min_ivl
  /\ slept' = 0
  /\ dump_ivl' = (dump_ivl - min_ivl) % Word
  /\ clear_ivl' = (clear_ivl - min_ivl) % Word
  /\ dump_pc' = IF Due(clear_ivl') THEN "clear" ELSE IF Due(dump_ivl') THEN "print" ELSE "sleep"
  /\ owed' = fresh
  /\ UNCHANGED <<setup, mainVars, countVars, dump_at, sincePrint, kaVars, lists, printed, fresh,
                 fragVars>>

\* The intervals are unsigned: without -C, clear_ivl starts at 0 and wraps.
dump_wakes ==
  /\ Running /\ dump_pc = "sleep" /\ slept = min_ivl
  /\ slept' = 0
  /\ dump_ivl' = (dump_ivl - min_ivl) % Word
  /\ clear_ivl' = (clear_ivl - min_ivl) % Word
  /\ dump_pc' = IF Due(dump_ivl') THEN "print" ELSE IF Due(clear_ivl') THEN "clear" ELSE "sleep"
  /\ owed' = fresh
  /\ UNCHANGED <<setup, mainVars, countVars, dump_at, sincePrint, kaVars, lists, printed, fresh,
                 fragVars>>

TS_print_stored_stats ==
  /\ Running /\ dump_pc = "print"
  /\ PrintList(PrintOrder[dump_at + 1])
  /\ IF dump_at + 1 < Len(PrintOrder)
     THEN dump_at' = dump_at + 1 /\ UNCHANGED <<dump_pc, dump_ivl, sincePrint>>
     ELSE /\ dump_at' = 0 /\ dump_ivl' = setup.stats_ivl /\ sincePrint' = 0
          /\ dump_pc' = IF Due(clear_ivl) THEN "clear" ELSE "sleep"
  /\ UNCHANGED <<setup, mainVars, countVars, slept, clear_ivl, kaVars, fragVars>>

TS_clear_stored_stats ==
  /\ Running /\ dump_pc = "clear"
  /\ ClearList(ClearOrder[dump_at + 1])
  /\ IF dump_at + 1 < Len(ClearOrder)
     THEN dump_at' = dump_at + 1 /\ UNCHANGED <<dump_pc, clear_ivl>>
     ELSE dump_at' = 0 /\ clear_ivl' = setup.clearstats_ivl /\ dump_pc' = "sleep"
  /\ UNCHANGED <<setup, mainVars, countVars, slept, dump_ivl, sincePrint, kaVars, fragVars>>

\* main() itself prints what it read from a file, and exits
report ==
  /\ main_pc = "report"
  /\ PrintList(PrintOrder[dump_at + 1])
  /\ dump_at' = IF dump_at + 1 < Len(PrintOrder) THEN dump_at + 1 ELSE 0
  /\ main_pc' = IF dump_at + 1 < Len(PrintOrder) THEN "report" ELSE "exit"
  /\ UNCHANGED <<setup, decoded, todo, loaded, countVars, dump_pc, slept, dump_ivl, clear_ivl,
                 sincePrint, kaVars, fragVars>>

-----------------------------------------------------------------------------

read_frame == skip_frame \/ \E f \in Captures(setup.capture).frames :
                              read_udp(f) \/ read_other(f) \/ read_fragment(f)

main == \/ store_entry \/ all_stored \/ load_received \/ write_received \/ set_received
        \/ count_packet \/ (main_pc = "read" /\ read_frame) \/ end_of_file \/ report
        \/ (\E p \in Heard : recvfrom(p)) \/ recv_error

lbmrd_keepalive == ka_test_one \/ ka_test_zero \/ ka_test_many \/ ka_heard \/ ka_send

TS_stats_dump_thread == dump_wakes \/ TS_print_stored_stats \/ TS_clear_stored_stats

Next == main \/ lbmrd_keepalive \/ TS_stats_dump_thread \/ lose_answer \/ one_second

Spec == Init /\ [][Next]_vars

-----------------------------------------------------------------------------
(* Properties                                                              *)

\* Every list is one sorted chain of all its nodes at any moment another
\* thread can lock it, and the numbers the threads count down stay unsigned.
TypeOK ==
  /\ \A n \in Lists : Sound(lists[n])
  /\ TS_lbmrd_keepalive_received \in 0 .. 2^16 - 1
  /\ todo = <<>> \/ main_pc = "store"
  /\ dump_ivl \in 0 .. Word - 1 /\ clear_ivl \in 0 .. Word - 1 /\ dump_at \in 0 .. 6
  /\ verdict \in {"none", "heard", "silent"}

\* Storing, printing and clearing by two threads is what a set of strings per
\* list does: a print shows each string once, in order, and all of them.
Set == INSTANCE StatsSet WITH
         Names <- Lists, Precedes <- Before,
         contents <- [n \in Lists |-> Strings(lists[n])], printed <- printed
ImplementsStatsSet == Set!Spec

\* An OTID is stored with the topic and the name of the advertisement it came
\* in, never with those of another one of the packet.  Behind an UME option
\* the code reads what is no option.
OtidOfItsTopic ==
  decoded.packet # <<>> =>
    \A i \in DOMAIN decoded.stored :
      LET e == decoded.stored[i]
          tirs == decoded.packet.tirs
      IN e.list = "otids"
         /\ (\A k \in DOMAIN tirs : OtidFirst(tirs[k]) /\ OptionsOf(tirs[k], "ume") = {})
         => \E k \in DOMAIN tirs : e.with = tirs[k].topic /\ IsSourceName(e.key, tirs[k])

\* A check that finds lbmrd answering is at most one after main() heard from
\* it last; a check that warns follows no packet main() began and finished
\* handling since the check before, whatever the two do at once, as long as
\* the number was not counted down nine times, which takes 99 to 90.
VerdictHonest ==
  [][ka_pc' = "usleep1" /\ ka_pc # "usleep1"
     => /\ verdict' = "heard" => quiet <= 1
        /\ verdict' = "silent" /\ counted < 9 => ~ answered]_vars

\* While the dump thread is scheduled the lists are printed every stats_ivl
\* seconds at least, whatever -C says.
DumpInTime == dump_pc # "off" => sincePrint <= setup.stats_ivl

\* Unless -C is shorter than -s, what is cleared was printed: but for what
\* came in while the thread printed and cleared.
PrintedBeforeCleared ==
  [][\A n \in Lists :
       dump_pc = "clear" /\ dump_pc' \in {"clear", "sleep"}
       /\ lists'[n] = EmptyList /\ lists[n] # EmptyList
       => \/ setup.clearstats_ivl \in 1 .. setup.stats_ivl - 1
          \/ \A e \in owed : e[1] # n]_vars
=============================================================================
