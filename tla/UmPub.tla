------------------------------- MODULE UmPub -------------------------------
(***************************************************************************)
(* umpub: num_thrds threads, one of them main(), send a number of messages *)
(* on a number of topics, while the thread of the first context runs the   *)
(* source events and the metrics timer.  Counters are plain ints: an       *)
(* increment is a read and a write.                                        *)
(***************************************************************************)
EXTENDS UmTransport

CONSTANTS
  NumCtx         \* -C

(* "stores": the source has several stores, and each reports a message as   *)
(* stable.                                                                  *)
PubOptions == {"stability", "stores", "metrics", "rtt", "deregister"}

(* The command lines.  The option -M is an int, and so is the constant for  *)
(* no limit, which is not considered.                                       *)
PubCommands == [thrds : Nat \ {0}, msgs : Nat, opts : SUBSET PubOptions]

ASSUME PubAssumption == NumCtx \in Nat \ {0}

VARIABLES
  num_thrds, totalmsgsleft, opts,
  pub_pc, ctx_i,     \* main() and the index of its loop over the contexts
  del_i,             \* the source it deletes next
  thr_pc, idx, msgsleft,
  got,               \* the value of perf_msgs_sent_out a thread has read
  perf_msgs_sent_out,
  timer,             \* the metrics timer: "off", "set" or what it read first
  last_perf_msgs_sent_out,
  heap,              \* times allocated and not freed
  unstable,          \* accepted messages that hold one: not yet reported
                     \* stable, or reclaimed, which frees none
  msg_count,         \* replies received
  shown              \* observation: what the reports of print_perf_stats say
                     \* was sent up to now

setupVars == <<num_thrds, totalmsgsleft, opts>>
mainVars == <<pub_pc, ctx_i, del_i>>
thrVars == <<thr_pc, idx, msgsleft, got>>
eventVars == <<timer, last_perf_msgs_sent_out, msg_count, shown>>
pubVars == <<setupVars, mainVars, thrVars, perf_msgs_sent_out, eventVars, heap, unstable>>

Threads == 0 .. num_thrds - 1
PubEnded == pub_pc \in {"quit", "exit", "sigfpe", "crash"}

PubInit(cmd) ==
  /\ num_thrds = cmd.thrds /\ totalmsgsleft = cmd.msgs /\ opts = cmd.opts
  /\ pub_pc = "create" /\ ctx_i = 0 /\ del_i = 0
  /\ thr_pc = [t \in Threads |-> "none"] /\ idx = [t \in Threads |-> 0]
  /\ msgsleft = [t \in Threads |-> totalmsgsleft \div num_thrds]
  /\ got = [t \in Threads |-> 0]
  /\ perf_msgs_sent_out = 0
  /\ timer = "off" /\ last_perf_msgs_sent_out = 0 /\ msg_count = 0 /\ shown = 0
  /\ heap = 0 /\ unstable = 0

-----------------------------------------------------------------------------
(* sending_thread_main                                                      *)

AtThread(t, here) == ~PubEnded /\ thr_pc[t] = here
Go(t, there) == thr_pc' = [thr_pc EXCEPT ![t] = there]

more_left(t) ==
  /\ AtThread(t, "while")
  /\ idx' = [idx EXCEPT ![t] = 0]
  /\ Go(t, IF msgsleft[t] > 0 THEN "prepare" ELSE "done")
  /\ UNCHANGED <<setupVars, mainVars, msgsleft, got, perf_msgs_sent_out, eventVars, heap, unstable,
                 wireVars>>

(* Waits until the message is due, writes it, and notes the time in a       *)
(* block of its own, which the stability event will bring back.             *)
prepare(t) ==
  /\ AtThread(t, "prepare")
  /\ heap' = IF "stability" \in opts THEN heap + 1 ELSE heap
  /\ Go(t, "send")
  /\ UNCHANGED <<setupVars, mainVars, idx, msgsleft, got, perf_msgs_sent_out, eventVars, unstable,
                 wireVars>>

send_accepted(t) ==
  /\ AtThread(t, "send")
  /\ Accept(idx[t])
  /\ unstable' = IF "stability" \in opts THEN unstable + 1 ELSE unstable
  /\ Go(t, "read")
  /\ UNCHANGED <<setupVars, mainVars, idx, msgsleft, got, perf_msgs_sent_out, eventVars, heap,
                 src, position, session, missed, boundVars, replies, missedEver>>

(* Seeded fault: the block of a message that was not sent is kept. *)
send_fails_Leaks(t) ==
  /\ AtThread(t, "send")
  /\ Go(t, "advance")
  /\ UNCHANGED <<setupVars, mainVars, idx, msgsleft, got, perf_msgs_sent_out, eventVars, unstable,
                 heap, wireVars>>

(* Seeded fault: a message is counted whether it was sent or not. *)
send_fails_Counted(t) ==
  /\ AtThread(t, "send")
  /\ heap' = IF "stability" \in opts THEN heap - 1 ELSE heap
  /\ Go(t, "read")
  /\ UNCHANGED <<setupVars, mainVars, idx, msgsleft, got, perf_msgs_sent_out, eventVars, unstable,
                 wireVars>>

(* LBM_EWOULDBLOCK or another error: rc is then 1, never LBM_FAILURE, and   *)
(* the thread goes on to its next message.                                  *)
send_fails(t) ==
  /\ AtThread(t, "send")
  /\ heap' = IF "stability" \in opts THEN heap - 1 ELSE heap
  /\ Go(t, "advance")
  /\ UNCHANGED <<setupVars, mainVars, idx, msgsleft, got, perf_msgs_sent_out, eventVars, unstable,
                 wireVars>>

(* The source was deleted by main(), which does not wait for the others. *)
send_crashes(t) ==
  /\ AtThread(t, "send") /\ src[idx[t]] = "deleted"
  /\ pub_pc' = "crash" /\ Delete(Srcs)
  /\ UNCHANGED <<setupVars, ctx_i, del_i, thrVars, perf_msgs_sent_out, eventVars, heap, unstable,
                 accepted, position, session, missed, boundVars, replies, missedEver>>

read_count(t) ==
  /\ AtThread(t, "read")
  /\ got' = [got EXCEPT ![t] = perf_msgs_sent_out]
  /\ Go(t, "write")
  /\ UNCHANGED <<setupVars, mainVars, idx, msgsleft, perf_msgs_sent_out, eventVars, heap, unstable,
                 wireVars>>

write_count(t) ==
  /\ AtThread(t, "write")
  /\ perf_msgs_sent_out' = got[t] + 1
  /\ got' = [got EXCEPT ![t] = 0]
  /\ Go(t, "advance")
  /\ UNCHANGED <<setupVars, mainVars, idx, msgsleft, eventVars, heap, unstable, wireVars>>

(* The index is advanced by the body of the loop and again by its header. *)
AfterBody(t, i) == (IF i + num_thrds >= NumSrcs THEN t ELSE i + num_thrds) + 1

advance(t) ==
  /\ AtThread(t, "advance")
  /\ msgsleft' = [msgsleft EXCEPT ![t] = @ - 1]
  /\ idx' = [idx EXCEPT ![t] = AfterBody(t, @)]
  /\ Go(t, IF msgsleft[t] <= 1 THEN "done"
           ELSE IF AfterBody(t, idx[t]) < NumSrcs THEN "prepare" ELSE "while")
  /\ UNCHANGED <<setupVars, mainVars, got, perf_msgs_sent_out, eventVars, heap, unstable, wireVars>>

sending_thread_main(t) ==
  \/ more_left(t) \/ prepare(t) \/ send_accepted(t) \/ send_fails(t) \/ send_crashes(t)
  \/ read_count(t) \/ write_count(t) \/ advance(t)

-----------------------------------------------------------------------------
(* main()                                                                   *)

create_sources ==
  /\ pub_pc = "create" /\ pub_pc' = "spawn"
  /\ src' = [s \in Srcs |-> "live"]
  /\ UNCHANGED <<setupVars, ctx_i, del_i, thrVars, perf_msgs_sent_out, eventVars, heap, unstable,
                 accepted, position, session, missed, boundVars, replies, missedEver>>

(* The other threads are created, the timer is set, and main() sends too. *)
start_threads ==
  /\ pub_pc = "spawn" /\ pub_pc' = "sending"
  /\ thr_pc' = [t \in Threads |-> "while"]
  /\ timer' = IF "metrics" \in opts THEN "set" ELSE "off"
  /\ UNCHANGED <<setupVars, ctx_i, del_i, idx, msgsleft, got, perf_msgs_sent_out,
                 last_perf_msgs_sent_out, msg_count, shown, heap, unstable, wireVars>>

(* Deregistration leaves the index of its own loop behind in i. *)
next_context ==
  /\ pub_pc = "sending" /\ thr_pc[0] = "done"
  /\ ctx_i' = (IF "deregister" \in opts THEN NumSrcs ELSE ctx_i) + 1
  /\ IF ctx_i' < NumCtx THEN pub_pc' = pub_pc /\ Go(0, "while")
                        ELSE pub_pc' = "linger" /\ thr_pc' = thr_pc
  /\ UNCHANGED <<setupVars, del_i, idx, msgsleft, got, perf_msgs_sent_out, eventVars, heap,
                 unstable, wireVars>>

(* lbm_src_ume_deregister *)
deregister_fails ==
  /\ pub_pc = "sending" /\ thr_pc[0] = "done" /\ "deregister" \in opts
  /\ pub_pc' = "exit" /\ Delete(Srcs)
  /\ UNCHANGED <<setupVars, ctx_i, del_i, thrVars, perf_msgs_sent_out, eventVars, heap, unstable,
                 accepted, position, session, missed, boundVars, replies, missedEver>>

linger ==
  /\ pub_pc = "linger" /\ pub_pc' = "results"
  /\ UNCHANGED <<setupVars, ctx_i, del_i, thrVars, perf_msgs_sent_out, eventVars, heap, unstable,
                 wireVars>>

(* Divides by the number of messages published. *)
print_final_test_results ==
  /\ pub_pc = "results"
  /\ IF perf_msgs_sent_out = 0 THEN pub_pc' = "sigfpe" /\ Delete(Srcs)
                               ELSE pub_pc' = "delete" /\ src' = src
  /\ UNCHANGED <<setupVars, ctx_i, del_i, thrVars, perf_msgs_sent_out, eventVars, heap, unstable,
                 accepted, position, session, missed, boundVars, replies, missedEver>>

delete_source ==
  /\ pub_pc = "delete"
  /\ Delete({del_i}) /\ del_i' = del_i + 1
  /\ pub_pc' = IF del_i + 1 = NumSrcs THEN "contexts" ELSE "delete"
  /\ UNCHANGED <<setupVars, ctx_i, thrVars, perf_msgs_sent_out, eventVars, heap, unstable,
                 accepted, position, session, missed, boundVars, replies, missedEver>>

(* After the contexts are deleted main() returns, and the threads end. *)
delete_contexts ==
  /\ pub_pc = "contexts" /\ pub_pc' = "quit"
  /\ UNCHANGED <<setupVars, ctx_i, del_i, thrVars, perf_msgs_sent_out, eventVars, heap, unstable,
                 wireVars>>

pub_main ==
  \/ create_sources \/ start_threads \/ next_context \/ deregister_fails \/ linger
  \/ print_final_test_results \/ delete_source \/ delete_contexts

-----------------------------------------------------------------------------
(* The thread of the first context                                          *)

(* LBM_SRC_EVENT_UME_MESSAGE_STABLE_EX *)
handle_src_event ==
  /\ ~PubEnded /\ unstable > 0 /\ heap > 0
  /\ unstable' = unstable - 1 /\ heap' = heap - 1
  /\ UNCHANGED <<setupVars, mainVars, thrVars, perf_msgs_sent_out, eventVars, wireVars>>

(* The same event again, from another store: what it frees is free.  free() *)
(* ends the program, or frees what was allocated at this place since.       *)
stable_again ==
  /\ ~PubEnded /\ {"stability", "stores"} \subseteq opts /\ unstable < Total(accepted)
  /\ \/ pub_pc' = "crash" /\ Delete(Srcs) /\ UNCHANGED heap
     \/ heap > 0 /\ heap' = heap - 1 /\ UNCHANGED <<pub_pc, src>>
  /\ UNCHANGED <<setupVars, ctx_i, del_i, thrVars, perf_msgs_sent_out, eventVars, unstable,
                 accepted, position, session, missed, boundVars, replies, missedEver>>

(* increment_insecs calls print_perf_stats, which reads the count twice, to *)
(* show it and to remember it.  Up to 0.01 s after the start it shows all   *)
(* that was sent, later what was sent since, divided by the time since.     *)
increment_insecs ==
  /\ ~PubEnded /\ timer = "set" /\ timer' = "shown"
  /\ \E time_insecs \in {"early", "late"} :
       shown' = IF time_insecs = "late"
                THEN shown + perf_msgs_sent_out - last_perf_msgs_sent_out
                ELSE perf_msgs_sent_out
  /\ UNCHANGED <<setupVars, mainVars, thrVars, perf_msgs_sent_out, last_perf_msgs_sent_out,
                 msg_count, heap, unstable, wireVars>>

(* Seeded fault: what was shown is not remembered. *)
print_perf_stats_Forgets ==
  /\ ~PubEnded /\ timer = "shown" /\ timer' = "set"
  /\ UNCHANGED <<setupVars, mainVars, thrVars, perf_msgs_sent_out, last_perf_msgs_sent_out,
                 msg_count, shown, heap, unstable, wireVars>>

print_perf_stats ==
  /\ ~PubEnded /\ timer = "shown" /\ timer' = "set"
  /\ last_perf_msgs_sent_out' = perf_msgs_sent_out
  /\ UNCHANGED <<setupVars, mainVars, thrVars, perf_msgs_sent_out, msg_count, shown, heap,
                 unstable, wireVars>>

(* A reply on a .rtt topic; the last one ends the program. *)
pub_rcv_handle_msg ==
  /\ ~PubEnded /\ "rtt" \in opts /\ replies > 0
  /\ replies' = replies - 1 /\ msg_count' = msg_count + 1
  /\ IF msg_count' = totalmsgsleft THEN pub_pc' = "exit" /\ Delete(Srcs)
                               ELSE pub_pc' = pub_pc /\ src' = src
  /\ UNCHANGED <<setupVars, ctx_i, del_i, thrVars, perf_msgs_sent_out, timer,
                 last_perf_msgs_sent_out, shown, heap, unstable,
                 accepted, position, session, missed, boundVars, missedEver>>

(* Loss on a .rtt topic ends it, too. *)
reply_lost ==
  /\ ~PubEnded /\ "rtt" \in opts /\ replies > 0
  /\ replies' = replies - 1
  /\ pub_pc' = "exit" /\ Delete(Srcs)
  /\ UNCHANGED <<setupVars, ctx_i, del_i, thrVars, perf_msgs_sent_out, eventVars, heap, unstable,
                 accepted, position, session, missed, boundVars, missedEver>>

pub_callbacks ==
  \/ handle_src_event \/ stable_again \/ increment_insecs \/ print_perf_stats
  \/ pub_rcv_handle_msg \/ reply_lost

PubNext ==
  \/ \E t \in Threads : sending_thread_main(t)
  \/ pub_main
  \/ pub_callbacks

=============================================================================
