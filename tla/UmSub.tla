------------------------------- MODULE UmSub -------------------------------
(***************************************************************************)
(* umsub: UM calls rcv_handle_msg in the thread of each context or, with   *)
(* -Q, in the threads that serve the event queue.  main() wakes up once a  *)
(* second, adds up the losses of all transports and shows what is new.     *)
(* Counters are plain ints: an increment is a read and a write.            *)
(***************************************************************************)
EXTENDS UmTransport

SubOptions == {"exit", "endflag", "eventq", "roundtrip", "sigint", "absent"}

(* The command lines; "absent": it is not started. *)
SubCommands == [callers : Nat \ {0}, opts : SUBSET SubOptions]

VARIABLES
  callers,           \* -C without, -T with an event queue
  sub_opts,
  sub_pc,
  ctx,               \* the context, or receiver, the loop of main() is at
  lost, last_lost,
  close_recv, end_flg_fp,
  flag_file,         \* the end flag file exists
  rcv_pc, seen,      \* rcv_handle_msg in each caller, the counter it has read
  total_msg_count, total_unrec_count, total_burst_loss,
  behind,            \* observation: messages lost behind the first of a burst
  deleted,           \* receivers deleted
  interrupted,       \* INThandler runs
  unblocks,          \* calls of lbm_event_dispatch_unblock not yet answered
  shown_lost         \* observation: sum of the losses shown

subSetupVars == <<callers, sub_opts>>
loopVars == <<sub_pc, ctx, lost, last_lost, shown_lost>>
endVars == <<close_recv, end_flg_fp, flag_file, deleted, interrupted, unblocks>>
totalVars == <<total_msg_count, total_unrec_count, total_burst_loss>>
countVars == <<rcv_pc, seen, totalVars, behind>>
subVars == <<subSetupVars, loopVars, endVars, countVars>>

Callers == 0 .. callers - 1
EventQ == "eventq" \in sub_opts
NumCtxs == IF EventQ THEN 1 ELSE callers
SubEnded == sub_pc \in {"quit", "interrupted"}

SubInit(cmd) ==
  /\ callers = cmd.callers /\ sub_opts = cmd.opts
  /\ sub_pc = IF "absent" \in sub_opts THEN "quit" ELSE "create"
  /\ ctx = 0 /\ lost = 0 /\ last_lost = 0 /\ shown_lost = 0
  /\ close_recv = 0 /\ end_flg_fp = 0 /\ deleted = {} /\ unblocks = 0
  /\ interrupted = 0
  /\ flag_file \in IF "endflag" \in sub_opts THEN {0, 1} ELSE {0}
  /\ rcv_pc = [k \in Callers |-> "none"] /\ seen = [k \in Callers |-> 0]
  /\ total_msg_count = 0 /\ total_unrec_count = 0 /\ total_burst_loss = 0 /\ behind = 0

-----------------------------------------------------------------------------
(* rcv_handle_msg                                                           *)

(* Receivers are spread over the contexts in turn. *)
CtxOf(s) == s % NumCtxs
Calls(k, s) ==
  /\ ~SubEnded /\ rcv_pc[k] = "idle" /\ s \notin deleted
  /\ EventQ \/ k = CtxOf(s)

sub_begins(k, s) ==
  /\ Calls(k, s) /\ BeginSession(s)
  /\ UNCHANGED subVars

(* LBM_MSG_DATA and LBM_MSG_UNRECOVERABLE_LOSS *)
message(k, s) ==
  /\ Calls(k, s) /\ Consume(s, 1) /\ UNCHANGED replies
  /\ \/ rcv_pc' = [rcv_pc EXCEPT ![k] = "data"] /\ seen' = [seen EXCEPT ![k] = total_msg_count]
     \/ rcv_pc' = [rcv_pc EXCEPT ![k] = "loss"] /\ seen' = [seen EXCEPT ![k] = total_unrec_count]
  /\ UNCHANGED <<subSetupVars, loopVars, endVars, totalVars, behind>>

(* LBM_MSG_UNRECOVERABLE_LOSS_BURST: one call for all the messages lost. *)
burst(k, s) ==
  /\ Calls(k, s)
  /\ \E n \in 1 .. accepted[s] - position[s] :
       Consume(s, n) /\ behind' = behind + n - 1
  /\ UNCHANGED replies
  /\ rcv_pc' = [rcv_pc EXCEPT ![k] = "burst"] /\ seen' = [seen EXCEPT ![k] = total_burst_loss]
  /\ UNCHANGED <<subSetupVars, loopVars, endVars, totalVars>>

count_data(k) ==
  /\ ~SubEnded /\ rcv_pc[k] = "data"
  /\ total_msg_count' = seen[k] + 1
  /\ rcv_pc' = [rcv_pc EXCEPT ![k] = IF "roundtrip" \in sub_opts THEN "reply" ELSE "idle"]
  /\ seen' = [seen EXCEPT ![k] = 0]
  /\ UNCHANGED <<subSetupVars, loopVars, endVars, total_unrec_count, total_burst_loss, behind,
                 wireVars>>

(* Seeded fault: a lost message is counted as received as well. *)
count_loss_AsData(k) ==
  /\ ~SubEnded /\ rcv_pc[k] = "loss"
  /\ total_unrec_count' = seen[k] + 1 /\ total_msg_count' = total_msg_count + 1
  /\ rcv_pc' = [rcv_pc EXCEPT ![k] = "idle"] /\ seen' = [seen EXCEPT ![k] = 0]
  /\ UNCHANGED <<subSetupVars, loopVars, endVars, total_burst_loss, behind, wireVars>>

count_loss(k) ==
  /\ ~SubEnded /\ rcv_pc[k] = "loss"
  /\ total_unrec_count' = seen[k] + 1
  /\ rcv_pc' = [rcv_pc EXCEPT ![k] = "idle"] /\ seen' = [seen EXCEPT ![k] = 0]
  /\ UNCHANGED <<subSetupVars, loopVars, endVars, total_msg_count, total_burst_loss, behind,
                 wireVars>>

count_burst(k) ==
  /\ ~SubEnded /\ rcv_pc[k] = "burst"
  /\ total_burst_loss' = seen[k] + 1
  /\ rcv_pc' = [rcv_pc EXCEPT ![k] = "idle"] /\ seen' = [seen EXCEPT ![k] = 0]
  /\ UNCHANGED <<subSetupVars, loopVars, endVars, total_msg_count, total_unrec_count, behind,
                 wireVars>>

(* lbm_src_send of the time stamp, not blocking, may fail. *)
reply(k) ==
  /\ ~SubEnded /\ rcv_pc[k] = "reply"
  /\ rcv_pc' = [rcv_pc EXCEPT ![k] = "idle"]
  /\ replies' \in {replies, replies + 1}
  /\ UNCHANGED <<subSetupVars, loopVars, endVars, seen, totalVars, behind,
                 src, accepted, position, session, missed, boundVars, missedEver>>

(* LBM_MSG_EOS *)
end_of_session(k, s) ==
  /\ Calls(k, s) /\ EndSession(s)
  /\ close_recv' = IF "exit" \in sub_opts THEN 1 ELSE close_recv
  /\ UNCHANGED <<subSetupVars, interrupted, loopVars, end_flg_fp, flag_file, deleted, unblocks, countVars>>

rcv_handle_msg ==
  \E k \in Callers :
    \/ count_data(k) \/ count_loss(k) \/ count_burst(k) \/ reply(k)
    \/ \E s \in Srcs :
         sub_begins(k, s) \/ message(k, s) \/ burst(k, s) \/ end_of_session(k, s)

(* event_queue_proccess: lbm_event_dispatch returns when it is unblocked. *)
event_queue_proccess(k) ==
  /\ EventQ /\ ~SubEnded /\ rcv_pc[k] = "idle" /\ unblocks > 0
  /\ unblocks' = unblocks - 1
  /\ rcv_pc' = [rcv_pc EXCEPT ![k] = IF close_recv = 0 \/ end_flg_fp = 0 THEN "idle" ELSE "exited"]
  /\ UNCHANGED <<subSetupVars, interrupted, loopVars, close_recv, end_flg_fp, flag_file, deleted, seen,
                 totalVars, behind, wireVars>>

-----------------------------------------------------------------------------
(* main()                                                                   *)

(* Receivers, threads, and the end flag file of an earlier run removed. *)
create_receivers ==
  /\ sub_pc = "create" /\ sub_pc' = "sleep"
  /\ rcv_pc' = [k \in Callers |-> "idle"]
  /\ flag_file' = 0
  /\ UNCHANGED <<subSetupVars, interrupted, ctx, lost, last_lost, shown_lost, close_recv, end_flg_fp, deleted,
                 unblocks, seen, totalVars, behind, wireVars>>

wake_up ==
  /\ sub_pc = "sleep" /\ sub_pc' = "stats"
  /\ ctx' = 0 /\ lost' = 0
  /\ UNCHANGED <<subSetupVars, last_lost, shown_lost, endVars, countVars, wireVars>>

MissedIn(c) == SumOver(missed, {s \in Srcs : CtxOf(s) = c})

get_loss_or_print_stats ==
  /\ sub_pc = "stats"
  /\ lost' = lost + MissedIn(ctx)
  /\ IF ctx + 1 < NumCtxs THEN ctx' = ctx + 1 /\ sub_pc' = "stats"
                          ELSE ctx' = 0 /\ sub_pc' = "print"
  /\ UNCHANGED <<subSetupVars, last_lost, shown_lost, endVars, countVars, wireVars>>

(* Seeded fault: a sum that is smaller than the last one is shown whole. *)
print_bw_Whole ==
  /\ sub_pc = "print" /\ sub_pc' = "test"
  /\ shown_lost' = shown_lost + (IF last_lost <= lost THEN lost - last_lost ELSE lost)
  /\ last_lost' = lost
  /\ lost' = 0
  /\ UNCHANGED <<subSetupVars, ctx, endVars, countVars, wireVars>>

(* The sum is smaller than the last one when a transport is gone. *)
print_bw ==
  /\ sub_pc = "print" /\ sub_pc' = "test"
  /\ shown_lost' = shown_lost + (IF last_lost <= lost THEN lost - last_lost ELSE 0)
  /\ last_lost' = lost
  /\ lost' = 0
  /\ UNCHANGED <<subSetupVars, ctx, endVars, countVars, wireVars>>


test_end ==
  /\ sub_pc = "test"
  /\ end_flg_fp' = IF "endflag" \in sub_opts THEN flag_file ELSE end_flg_fp
  /\ sub_pc' = IF end_flg_fp' = 1 \/ close_recv = 1 THEN "linger" ELSE "sleep"
  /\ UNCHANGED <<subSetupVars, interrupted, ctx, lost, last_lost, shown_lost, close_recv, flag_file, deleted,
                 unblocks, countVars, wireVars>>

sub_linger ==
  /\ sub_pc = "linger" /\ sub_pc' = "delete"
  /\ UNCHANGED <<subSetupVars, ctx, lost, last_lost, shown_lost, endVars, countVars, wireVars>>

(* lbm_rcv_delete waits for a callback of the receiver that is running. *)
delete_receiver ==
  /\ sub_pc = "delete"
  /\ EventQ \/ rcv_pc[CtxOf(ctx)] = "idle"
  /\ deleted' = deleted \cup {ctx}
  /\ IF ctx + 1 < NumSrcs THEN ctx' = ctx + 1 /\ sub_pc' = "delete"
                          ELSE ctx' = 0 /\ sub_pc' = IF EventQ THEN "unblock" ELSE "quit"
  /\ UNCHANGED <<subSetupVars, interrupted, lost, last_lost, shown_lost, close_recv, end_flg_fp, flag_file,
                 unblocks, countVars, wireVars>>

unblock_threads ==
  /\ sub_pc = "unblock" /\ sub_pc' = "join"
  /\ close_recv' = 1 /\ unblocks' = callers
  /\ UNCHANGED <<subSetupVars, interrupted, ctx, lost, last_lost, shown_lost, end_flg_fp, flag_file, deleted,
                 countVars, wireVars>>

pthread_join ==
  /\ sub_pc = "join" /\ sub_pc' = "quit"
  /\ \A k \in Callers : rcv_pc[k] = "exited"
  /\ UNCHANGED <<subSetupVars, ctx, lost, last_lost, shown_lost, endVars, countVars, wireVars>>

sub_main ==
  \/ create_receivers \/ wake_up \/ get_loss_or_print_stats \/ print_bw \/ test_end
  \/ sub_linger \/ delete_receiver \/ unblock_threads \/ pthread_join

(* The user creates the end flag file. *)
touch_flag ==
  /\ ~SubEnded /\ "endflag" \in sub_opts /\ flag_file = 0 /\ flag_file' = 1
  /\ UNCHANGED <<subSetupVars, interrupted, loopVars, close_recv, end_flg_fp, deleted, unblocks, countVars,
                 wireVars>>

(* The process ends two seconds after SIGINT, whatever main() has done.     *)
INThandler ==
  /\ ~SubEnded /\ "sigint" \in sub_opts /\ interrupted = 0
  /\ interrupted' = 1 /\ close_recv' = 1
  /\ UNCHANGED <<subSetupVars, loopVars, end_flg_fp, flag_file, deleted, unblocks, countVars,
                 wireVars>>

handler_exits ==
  /\ ~SubEnded /\ interrupted = 1 /\ sub_pc' = "interrupted"
  /\ UNCHANGED <<subSetupVars, ctx, lost, last_lost, shown_lost, endVars, countVars, wireVars>>

SubNext ==
  \/ rcv_handle_msg
  \/ \E k \in Callers : event_queue_proccess(k)
  \/ sub_main
  \/ touch_flag \/ INThandler \/ handler_exits

=============================================================================
