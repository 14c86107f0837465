---------------------------- MODULE UmTransport ----------------------------
(***************************************************************************)
(* What lies between umpub and umsub: the UM library and the network, as   *)
(* the two programs use them.  A source accepts messages until it is       *)
(* deleted.  At the receiver a transport session begins, its messages are  *)
(* delivered in order or given up as lost, and it ends: when the source is *)
(* gone and all was delivered, or because the connection breaks.           *)
(***************************************************************************)
EXTENDS Integers, FiniteSets

CONSTANT NumSrcs

ASSUME TransportAssumption == NumSrcs \in Nat \ {0}

Srcs == 0 .. NumSrcs - 1

VARIABLES
  src,           \* state of each source: "none", "live" or "deleted"
  accepted,      \* messages each source has accepted
  position,      \* messages of each source that were delivered or given up
  session,       \* state of each session at the receiver: "none" or "up"
  missed,        \* packets each session lacked, as its statistics say
  missesLeft,    \* bound: packets that may still not arrive
  breaksLeft,    \* bound: sessions that may still break
  replies,       \* messages umsub has sent back and umpub not received
  missedEver     \* observation: packets missed in all sessions there were

boundVars == <<missesLeft, breaksLeft>>
wireVars == <<src, accepted, position, session, missed, boundVars, replies, missedEver>>

(* What f counts for the members of S, each thing once, and how much it is. *)
Things(f, S) == UNION {{s} \X (1 .. f[s]) : s \in S}
SumOver(f, S) == Cardinality(Things(f, S))
Total(f) == SumOver(f, DOMAIN f)

Networks == [misses : Nat, breaks : Nat]

TransportInit(net) ==
  /\ src = [s \in Srcs |-> "none"]
  /\ accepted = [s \in Srcs |-> 0] /\ position = [s \in Srcs |-> 0]
  /\ session = [s \in Srcs |-> "none"]
  /\ missed = [s \in Srcs |-> 0]
  /\ missesLeft = net.misses /\ breaksLeft = net.breaks
  /\ replies = 0 /\ missedEver = 0

-----------------------------------------------------------------------------
(* What a program does to it                                                *)

Accept(s) ==
  /\ src[s] = "live"
  /\ accepted' = [accepted EXCEPT ![s] = @ + 1]

Delete(ss) == src' = [s \in Srcs |-> IF s \in ss THEN "deleted" ELSE src[s]]

-----------------------------------------------------------------------------
(* What it calls a receiver for: the conditions, and the effect on itself.  *)

MessageReady(s) == session[s] = "up" /\ position[s] < accepted[s]
Consume(s, n) ==
  /\ MessageReady(s) /\ position[s] + n <= accepted[s]
  /\ position' = [position EXCEPT ![s] = @ + n]
  /\ UNCHANGED <<src, accepted, session, missed, boundVars, missedEver>>

Over(s) == src[s] = "deleted" /\ position[s] = accepted[s]
EndSession(s) ==
  /\ session[s] = "up"
  /\ \/ Over(s) /\ breaksLeft' = breaksLeft
     \/ ~Over(s) /\ breaksLeft > 0 /\ breaksLeft' = breaksLeft - 1
  /\ session' = [session EXCEPT ![s] = "none"]
  /\ missed' = [missed EXCEPT ![s] = 0]
  /\ UNCHANGED <<src, accepted, position, missesLeft, missedEver, replies>>

BeginSession(s) ==
  /\ session[s] = "none" /\ src[s] # "none" /\ ~Over(s)
  /\ session' = [session EXCEPT ![s] = "up"]
  /\ UNCHANGED <<src, accepted, position, missed, boundVars, missedEver, replies>>

(* A packet does not arrive.  It may be sent again. *)
miss(s) ==
  /\ session[s] = "up" /\ missesLeft > 0 /\ missesLeft' = missesLeft - 1
  /\ missed' = [missed EXCEPT ![s] = @ + 1]
  /\ missedEver' = missedEver + 1
  /\ UNCHANGED <<src, accepted, position, session, breaksLeft, replies>>

=============================================================================
