------------------------------ MODULE Watchdog ------------------------------
(***************************************************************************)
(* lbm_watchdog.  One thread of UM runs rcv_handle_msg, resolver_event_cb  *)
(* and lbm_log_msg, each of which stores the time of what it was called    *)
(* for; main() polls these times and sends a topic resolution request when *)
(* they are too old.  Nothing is locked: a time is two words, written and  *)
(* read one after the other.                                               *)
(*                                                                         *)
(* Time is counted in units, Sub of them to a second.  A pass of the loop  *)
(* and a callback take at most Slack units, a sleep is at most Slack late. *)
(***************************************************************************)
EXTENDS Integers, FiniteSets

CONSTANTS
  Sub, Slack,
  OptionSets,    \* the command lines considered, each a subset of Options
  CtxTimeout,    \* -S, seconds
  MsgTimeout,    \* -M, seconds
  SustainTqr,    \* resolver_query_minimum_sustain_duration
  WildcardTqr,   \* the same, for a wildcard receiver
  Linger,        \* -L, seconds
  QueryTime,     \* units for which UM sends queries and reports no source
  Garbage,       \* values an uninitialised flag may have
  MaxUp,         \* bound: sessions of the heartbeat topic at one time
  MaxLogs,       \* bound: log messages of UM
  Last           \* bound: last time considered

Options == {"S", "R", "W", "M", "D"}

ASSUME OptionAssumption == OptionSets \subseteq SUBSET Options
ASSUME TimeAssumption ==
  /\ Sub \in Nat \ {0, 1} /\ Slack \in Nat
  /\ {CtxTimeout, MsgTimeout, SustainTqr, WildcardTqr, Linger} \subseteq Nat
  /\ {QueryTime, MaxUp, MaxLogs, Last} \subseteq Nat

VARIABLES
  now, pc,
  wake,           \* end of the sleep, or start of the pass
  opts,
  ctx_loop_flag, rcv_loop_flag, tqr_sustain_duration,
  cur_tv, ctx_last_tv, rcv_last_tv, rcv_eos_count,
  diff_sec,       \* tv_sec of the difference being computed
  c_tmo_flag, r_tmo_flag,
  (* the thread of UM *)
  cb,             \* what the callback it runs was called for, or "none"
  cb_tv,          \* the time of it
  cb_step,        \* what it stores next
  (* observation only *)
  up,             \* sessions whose BOS was, and whose EOS was not delivered
  lastCtx, lastRcv, lastEnd,   \* last advertisement, message, end of all sessions
  lastReq,        \* last request
  logs,           \* log messages so far
  raced           \* what UM called for in this pass, since main() read the clock

flagVars == <<opts, ctx_loop_flag, rcv_loop_flag, tqr_sustain_duration>>
sharedVars == <<ctx_last_tv, rcv_last_tv, rcv_eos_count>>
passVars == <<diff_sec, c_tmo_flag, r_tmo_flag>>
cbVars == <<cb, cb_tv, cb_step>>
eventVars == <<up, lastCtx, lastRcv, lastEnd, logs>>
vars == <<now, pc, wake, flagVars, cur_tv, sharedVars, passVars, cbVars,
          eventVars, lastReq, raced>>

tv(t) == [sec |-> t \div Sub, usec |-> t % Sub]
Receiver(o) == o \cap {"R", "W"} # {}
Smaller(a, b) == IF a <= b THEN a ELSE b
SustainDuration(o) ==
  IF ~Receiver(o) THEN 0
  ELSE IF "W" \in o THEN Smaller(SustainTqr, WildcardTqr) ELSE SustainTqr

Init ==
  /\ now = 0 /\ pc = "loop" /\ wake = 0
  /\ opts \in OptionSets
  /\ ctx_loop_flag = IF "S" \in opts THEN 1 ELSE 0
  /\ rcv_loop_flag \in IF Receiver(opts) THEN {1} ELSE Garbage
  /\ tqr_sustain_duration = SustainDuration(opts)
  /\ cur_tv = tv(0) /\ ctx_last_tv = tv(0) /\ rcv_last_tv = tv(0)
  /\ rcv_eos_count = 0
  /\ diff_sec = 0 /\ c_tmo_flag = 0 /\ r_tmo_flag = 0
  /\ cb = "none" /\ cb_tv = tv(0) /\ cb_step = "sec"
  /\ up = 0 /\ lastCtx = 0 /\ lastRcv = 0 /\ lastEnd = 0 /\ lastReq = 0
  /\ logs = 0 /\ raced = {}

-----------------------------------------------------------------------------
(* The callbacks                                                            *)

Awake == pc \notin {"loop", "sleep", "linger", "ended"}

(* UM reports the start of a session before its messages and its end after  *)
(* them, and no source while it is querying and there is none.  What it     *)
(* logs outside a pass is overwritten before it is read.                    *)
Occurs(kind) ==
  CASE kind = "bos"   -> Receiver(opts) /\ up < MaxUp
    [] kind = "data"  -> up > 0
    [] kind = "eos"   -> up > 0
    [] kind = "nosrc" -> /\ Receiver(opts) /\ up = 0
                         /\ now <= QueryTime + (IF lastEnd > lastReq THEN lastEnd ELSE lastReq)
    [] kind = "tir"   -> "S" \in opts
    [] kind = "log"   -> Awake /\ logs < MaxLogs

RcvKinds == {"bos", "data", "eos", "nosrc"}
Kinds == RcvKinds \cup {"tir", "log"}

(* A callback stores tv_sec first. *)
StoreSec(kind) ==
  /\ rcv_last_tv' = IF kind \in RcvKinds THEN [rcv_last_tv EXCEPT !.sec = tv(now).sec]
                                         ELSE rcv_last_tv
  /\ ctx_last_tv' = IF kind = "tir" THEN [ctx_last_tv EXCEPT !.sec = tv(now).sec]
                                    ELSE ctx_last_tv
  /\ cur_tv' = IF kind = "log" THEN [cur_tv EXCEPT !.sec = tv(now).sec] ELSE cur_tv

(* Seeded fault: the end of a session is counted, its time is not stored. *)
callback_EndUntimed ==
  /\ cb = "none" /\ pc # "ended"
  /\ \E kind \in {"bos", "eos"} :
       /\ Occurs(kind)
       /\ up' = up + (IF kind = "bos" THEN 1 ELSE -1)
       /\ rcv_eos_count' = up'
       /\ rcv_last_tv' = IF kind = "bos" THEN tv(now) ELSE rcv_last_tv
       /\ lastRcv' = now
       /\ lastEnd' = IF kind = "eos" /\ up = 1 THEN now ELSE lastEnd
       /\ raced' = IF Awake THEN raced \cup {kind} ELSE raced
  /\ UNCHANGED <<now, pc, wake, flagVars, cur_tv, ctx_last_tv, passVars, cbVars, lastCtx,
                 logs, lastReq>>

callback ==
  /\ cb = "none" /\ pc # "ended"
  /\ \E kind \in Kinds :
       /\ Occurs(kind)
       /\ cb' = kind /\ cb_tv' = tv(now) /\ cb_step' = "usec"
       /\ StoreSec(kind)
       /\ up' = up + (IF kind = "bos" THEN 1 ELSE IF kind = "eos" THEN -1 ELSE 0)
       /\ lastCtx' = IF kind = "tir" THEN now ELSE lastCtx
       /\ lastRcv' = IF kind \in RcvKinds THEN now ELSE lastRcv
       /\ lastEnd' = IF kind = "eos" /\ up = 1 THEN now ELSE lastEnd
       /\ logs' = IF kind = "log" THEN logs + 1 ELSE logs
       /\ raced' = IF Awake THEN raced \cup {kind} ELSE raced
  /\ UNCHANGED <<now, pc, wake, flagVars, rcv_eos_count, passVars, lastReq>>

store_usec ==
  /\ cb # "none" /\ cb_step = "usec" /\ pc # "ended"
  /\ rcv_last_tv' = IF cb \in RcvKinds THEN [rcv_last_tv EXCEPT !.usec = cb_tv.usec]
                                       ELSE rcv_last_tv
  /\ ctx_last_tv' = IF cb = "tir" THEN [ctx_last_tv EXCEPT !.usec = cb_tv.usec]
                                  ELSE ctx_last_tv
  /\ cur_tv' = IF cb = "log" THEN [cur_tv EXCEPT !.usec = cb_tv.usec] ELSE cur_tv
  /\ IF cb \in {"bos", "eos"} THEN cb_step' = "count" /\ UNCHANGED <<cb, cb_tv>>
                              ELSE cb' = "none" /\ cb_step' = "sec" /\ cb_tv' = tv(0)
  /\ UNCHANGED <<now, pc, wake, flagVars, rcv_eos_count, passVars, eventVars, lastReq, raced>>

(* Seeded fault: the end of a session is not counted. *)
store_count_StartsOnly ==
  /\ cb_step = "count" /\ pc # "ended"
  /\ rcv_eos_count' = IF cb = "bos" THEN 1 ELSE rcv_eos_count
  /\ cb' = "none" /\ cb_step' = "sec" /\ cb_tv' = tv(0)
  /\ UNCHANGED <<now, pc, wake, flagVars, cur_tv, ctx_last_tv, rcv_last_tv, passVars,
                 eventVars, lastReq, raced>>

store_count ==
  /\ cb_step = "count" /\ pc # "ended"
  /\ rcv_eos_count' = rcv_eos_count + (IF cb = "bos" THEN 1 ELSE -1)
  /\ cb' = "none" /\ cb_step' = "sec" /\ cb_tv' = tv(0)
  /\ UNCHANGED <<now, pc, wake, flagVars, cur_tv, ctx_last_tv, rcv_last_tv, passVars,
                 eventVars, lastReq, raced>>

-----------------------------------------------------------------------------
(* The loop of main()                                                       *)

Here == <<now, wake, flagVars, sharedVars, cbVars, eventVars, lastReq>>

read_clock ==
  /\ pc = "loop" /\ (ctx_loop_flag = 1 \/ rcv_loop_flag = 1)
  /\ cur_tv' = tv(now) /\ c_tmo_flag' = 0 /\ r_tmo_flag' = 0
  /\ raced' = IF cb = "none" THEN {} ELSE {cb}
  /\ pc' = IF ctx_loop_flag = 1 THEN "ctx_sec" ELSE "rcv"
  /\ UNCHANGED <<diff_sec, Here>>

(* normalize_tv of a difference whose usec lies between -Sub and Sub: no    *)
(* borrow from 0 seconds, towards zero below.                               *)
normalize_tv(sec, usec) ==
  IF sec >= 1 /\ usec < 0 THEN sec - 1
  ELSE IF sec < 0 /\ usec > 0 THEN sec + 1 ELSE sec

(* Seeded fault: the last second of the timeout already counts. *)
Exceeds_OrReaches(sec, timeout) == sec < 0 \/ sec >= timeout

(* A signed number of seconds is compared with an unsigned timeout. *)
Exceeds(sec, timeout) == sec < 0 \/ sec > timeout

ctx_sec ==
  /\ pc = "ctx_sec" /\ pc' = "ctx_usec"
  /\ diff_sec' = cur_tv.sec - ctx_last_tv.sec
  /\ UNCHANGED <<cur_tv, c_tmo_flag, r_tmo_flag, raced, Here>>

ctx_usec ==
  /\ pc = "ctx_usec" /\ pc' = "rcv" /\ diff_sec' = 0
  /\ c_tmo_flag' =
       IF Exceeds(normalize_tv(diff_sec, cur_tv.usec - ctx_last_tv.usec), CtxTimeout)
       THEN 1 ELSE 0
  /\ UNCHANGED <<cur_tv, r_tmo_flag, raced, Here>>

test_count ==
  /\ pc = "rcv"
  /\ pc' = IF rcv_loop_flag = 1 /\ rcv_eos_count = 0 THEN "rcv_sec" ELSE "decide"
  /\ UNCHANGED <<cur_tv, passVars, raced, Here>>

rcv_sec ==
  /\ pc = "rcv_sec" /\ pc' = "rcv_usec"
  /\ diff_sec' = cur_tv.sec - rcv_last_tv.sec
  /\ UNCHANGED <<cur_tv, c_tmo_flag, r_tmo_flag, raced, Here>>

(* -M is ignored without a receiver. *)
rcv_usec ==
  /\ pc = "rcv_usec" /\ pc' = "decide" /\ diff_sec' = 0
  /\ LET sec == normalize_tv(diff_sec, cur_tv.usec - rcv_last_tv.usec)
     IN  r_tmo_flag' = IF \/ Exceeds(sec, tqr_sustain_duration)
                          \/ Receiver(opts) /\ "M" \in opts /\ Exceeds(sec, MsgTimeout)
                       THEN 1 ELSE 0
  /\ UNCHANGED <<cur_tv, c_tmo_flag, raced, Here>>

Fires == "D" \notin opts /\ (c_tmo_flag = 1 \/ r_tmo_flag = 1)

(* The variables of the body of the loop do not outlive it. *)
pass_ends == diff_sec' = 0 /\ c_tmo_flag' = 0 /\ r_tmo_flag' = 0 /\ raced' = {}

(* lbm_context_topic_resolution_request *)
send_request ==
  /\ pc = "decide" /\ pc' = "sleep"
  /\ Fires
  /\ lastReq' = now /\ wake' = now + (Linger + 1) * Sub
  /\ pass_ends
  /\ UNCHANGED <<now, flagVars, cur_tv, sharedVars, cbVars, eventVars>>

no_request ==
  /\ pc = "decide" /\ pc' = "sleep"
  /\ ~Fires
  /\ wake' = now + 2 * Sub
  /\ pass_ends
  /\ UNCHANGED <<now, flagVars, cur_tv, sharedVars, cbVars, eventVars, lastReq>>

wake_up ==
  /\ pc = "sleep" /\ pc' = "loop"
  /\ now >= wake /\ wake' = now
  /\ UNCHANGED <<now, flagVars, cur_tv, sharedVars, passVars, cbVars, eventVars,
                 lastReq, raced>>

(* With nothing to watch one request is sent, -D or not, and main() returns *)
(* after the linger time.                                                   *)
nothing_to_watch ==
  /\ pc = "loop" /\ ctx_loop_flag = 0 /\ rcv_loop_flag # 1
  /\ pc' = "linger" /\ lastReq' = now /\ wake' = now + Linger * Sub
  /\ UNCHANGED <<now, flagVars, cur_tv, sharedVars, passVars, cbVars, eventVars, raced>>

context_delete ==
  /\ pc = "linger" /\ pc' = "ended"
  /\ now >= wake
  /\ UNCHANGED <<now, wake, flagVars, cur_tv, sharedVars, passVars, cbVars, eventVars,
                 lastReq, raced>>

(* The program is ended from outside. *)
kill ==
  /\ pc \notin {"linger", "ended"} /\ pc' = "ended"
  /\ UNCHANGED <<now, wake, flagVars, cur_tv, sharedVars, passVars, cbVars, eventVars,
                 lastReq, raced>>

time_passes ==
  /\ pc # "ended" /\ now < Last
  /\ now < wake + Slack
  /\ cb # "none" => now < cb_tv.sec * Sub + cb_tv.usec + Slack
  /\ now' = now + 1
  /\ UNCHANGED <<pc, wake, flagVars, cur_tv, sharedVars, passVars, cbVars, eventVars,
                 lastReq, raced>>

Next ==
  \/ callback \/ store_usec \/ store_count
  \/ read_clock \/ ctx_sec \/ ctx_usec \/ test_count \/ rcv_sec \/ rcv_usec
  \/ send_request \/ no_request \/ wake_up
  \/ nothing_to_watch \/ context_delete \/ kill
  \/ time_passes

Spec == Init /\ [][Next]_vars

-----------------------------------------------------------------------------
(* Properties                                                               *)

(* The time after which the receiver is given up. *)
RcvTimeout ==
  IF "M" \in opts /\ MsgTimeout < tqr_sustain_duration THEN MsgTimeout ELSE tqr_sustain_duration

SinceClock(t) == cur_tv.sec * Sub + cur_tv.usec - t

RcvSilent == Receiver(opts) /\ SinceClock(lastRcv) >= (RcvTimeout + 1) * Sub

(* A pass that no callback runs into raises the alarm for the               *)
(* advertisements exactly when they have been missing for a second more     *)
(* than the timeout.  It raises the one for the receiver only when its      *)
(* messages have, and always if no session is up either; that -M finds the  *)
(* silence of a session that is up, as its usage text says, is not claimed: *)
(* the code does not look (README).                                         *)
AlarmExact ==
  pc = "decide" /\ raced = {} =>
    /\ c_tmo_flag = 1 <=> "S" \in opts /\ SinceClock(lastCtx) >= (CtxTimeout + 1) * Sub
    /\ r_tmo_flag = 1 => RcvSilent
    /\ RcvSilent /\ up = 0 => r_tmo_flag = 1

(* Data and the end of a session never make a pass raise an alarm it would  *)
(* not have raised without them: rcv_handle_msg stores the time before it   *)
(* counts the session.  The start of a session may, see README.             *)
EndNotEarly ==
  pc = "decide" /\ raced \subseteq {"data", "eos"} =>
    (r_tmo_flag = 1 => up = 0 /\ SinceClock(lastEnd) >= (RcvTimeout + 1) * Sub)

(* Longest time from the start of one pass to that of the next, and of one  *)
(* pass: a pass, a sleep and the lateness of the sleep.                     *)
Nap == (IF Linger > 1 THEN Linger + 1 ELSE 2) * Sub
Period == Nap + 2 * Slack
Pass == Slack

Later(a, b) == IF a >= b THEN a ELSE b

(* Once the advertisements stop, or the last session has ended, a request   *)
(* follows, and another and another: before the timeout and a second plus   *)
(* two passes have gone since the last of them.  UM's own reports of a      *)
(* missing source put it off only for as long as UM makes them, a log       *)
(* message, which stores into the clock of main(), by one pass at most.     *)
NoticedInTime ==
  "D" \notin opts /\ pc # "ended" =>
    /\ "S" \in opts =>
         now - Later(lastCtx, lastReq) < (CtxTimeout + 1) * Sub + (1 + logs) * Period + Pass
    /\ Receiver(opts) /\ up = 0 =>
         now - Later(lastEnd, lastReq) < QueryTime + (RcvTimeout + 1) * Sub
                                           + (1 + logs) * Period + Pass

=============================================================================
