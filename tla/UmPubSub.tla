----------------------------- MODULE UmPubSub -----------------------------
(***************************************************************************)
(* One umpub and one umsub, at the two ends of UM.                         *)
(***************************************************************************)
EXTENDS UmPub, UmSub

CONSTANT Setups      \* command lines, and what the network may do

ASSUME SetupsAssumption ==
  Setups \subseteq [pub : PubCommands, sub : SubCommands, net : Networks]

vars == <<wireVars, pubVars, subVars>>

Init ==
  \E setup \in Setups :
    TransportInit(setup.net) /\ PubInit(setup.pub) /\ SubInit(setup.sub)

Next ==
  \/ PubNext /\ UNCHANGED subVars
  \/ SubNext /\ UNCHANGED pubVars
  \/ (\E s \in Srcs : miss(s)) /\ UNCHANGED <<pubVars, subVars>>

Spec == Init /\ [][Next]_vars

PubWork == pub_main \/ \E t \in Threads : sending_thread_main(t)
Callbacks == rcv_handle_msg \/ \E k \in Callers : event_queue_proccess(k)

(* Threads run, and UM calls for what there is.  Every wait of main() has a *)
(* time limit, but the join of the event queue threads.                     *)
Fairness ==
  /\ WF_vars(PubWork /\ UNCHANGED subVars)
  /\ WF_vars(Callbacks /\ UNCHANGED pubVars)
  /\ WF_vars(sub_main /\ UNCHANGED pubVars)

FairSpec == Spec /\ Fairness

-----------------------------------------------------------------------------
(* Properties                                                               *)

(* The number of messages umpub shows at the end is never more than UM      *)
(* accepted, and with one thread it is that number; the division by it      *)
(* fails only if no send was ever counted.                                  *)
PublishedHonest ==
  /\ perf_msgs_sent_out <= Total(accepted) /\ Total(accepted) <= totalmsgsleft
  /\ num_thrds = 1 /\ pub_pc \in {"delete", "contexts", "quit"} =>
       perf_msgs_sent_out = Total(accepted)
  /\ num_thrds = 1 /\ pub_pc = "sigfpe" => Total(accepted) = 0

(* Who takes a report of the first 0.01 s for all that was sent so far, and *)
(* adds the later ones, each times the seconds it is about, never arrives   *)
(* at more than one thread has sent, wherever the timer comes between its   *)
(* steps; but may miss what is sent while it prints.                        *)
ShownNeverOver == num_thrds = 1 => shown <= perf_msgs_sent_out

(* A time that is allocated for a message is held by the thread that is     *)
(* about to send it or by UM, and no way a send can end keeps or frees it   *)
(* where it must not: if every message is reported stable once at most,     *)
(* what is allocated is what they hold.  If several stores report it, the   *)
(* event frees it again and less is allocated than they hold.               *)
ClientdOwned ==
  "stability" \in opts =>
    LET held == unstable + Cardinality({t \in Threads : thr_pc[t] = "send"})
    IN  heap <= held /\ ("stores" \notin opts => heap = held)

(* What umsub was called for: a burst of losses is one call. *)
Called == Total(position) - behind

(* umsub never counts more messages, losses and bursts than it was called   *)
(* for, nor is it called for more than UM accepted; with one caller it      *)
(* counts every call.                                                       *)
ReceivedNeverOver ==
  /\ total_msg_count + total_unrec_count + total_burst_loss <= Called
  /\ Total(position) <= Total(accepted)
  /\ callers = 1 /\ rcv_pc[0] \notin {"data", "loss", "burst"} =>
       total_msg_count + total_unrec_count + total_burst_loss = Called

(* The losses shown second by second never add up to more than was missed,  *)
(* though the sum main() computes falls when a transport goes.              *)
LossNeverOver == shown_lost <= missedEver


=============================================================================
