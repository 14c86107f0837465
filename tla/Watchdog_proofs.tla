--------------------------- MODULE Watchdog_proofs ---------------------------
(***************************************************************************)
(* Proofs about lbm_watchdog, for every resolution of the clock, every     *)
(* timeout and every number of sessions and log messages.                  *)
(***************************************************************************)
EXTENDS Watchdog, TLAPS

(* tv and normalize_tv: the seconds of the difference of two times, as the *)
(* code computes them, exceed a timeout exactly if the difference is at    *)
(* least a second more, unless the earlier time is a second later.         *)
LEMMA Divided ==
  ASSUME NEW t \in Nat
  PROVE  /\ tv(t).sec \in Nat /\ tv(t).usec \in 0 .. Sub - 1
         /\ t = Sub * tv(t).sec + tv(t).usec
         /\ t = tv(t).sec * Sub + tv(t).usec
  BY TimeAssumption DEF tv

LEMMA Product ==
  ASSUME NEW b \in Nat, NEW m \in Int, NEW n \in Int, m <= n
  PROVE  b * m <= b * n /\ b * m \in Int /\ b * n \in Int
  OBVIOUS

LEMMA Compare ==
  ASSUME NEW c \in Nat, NEW l \in Nat, l - c < Sub, NEW timeout \in Nat
  PROVE  Exceeds(normalize_tv(tv(c).sec - tv(l).sec, tv(c).usec - tv(l).usec), timeout)
           <=> c - l >= (timeout + 1) * Sub
<1> DEFINE d == tv(c).sec - tv(l).sec
           u == tv(c).usec - tv(l).usec
           sec == normalize_tv(d, u)
           whole == Sub * d
           limit == Sub * (timeout + 1)
<1>0. Sub \in Nat /\ Sub > 1
  BY TimeAssumption
<1>1. d \in Int /\ u \in Int /\ -Sub < u /\ u < Sub /\ c - l = whole + u
  <2> DEFINE cs == tv(c).sec
             ls == tv(l).sec
             cu == tv(c).usec
             lu == tv(l).usec
  <2>1. /\ cs \in Nat /\ ls \in Nat /\ cu \in 0 .. Sub - 1 /\ lu \in 0 .. Sub - 1
        /\ c = Sub * cs + cu /\ l = Sub * ls + lu
    BY <1>0, Divided
  <2> HIDE DEF cs, ls, cu, lu
  <2>2. Sub * (cs - ls) = Sub * cs - Sub * ls /\ Sub * cs \in Int /\ Sub * ls \in Int
    BY <1>0, <2>1
  <2>3. cs - ls \in Int /\ cu - lu \in Int /\ -Sub < cu - lu /\ cu - lu < Sub
    BY <1>0, <2>1
  <2>4. c - l = Sub * (cs - ls) + (cu - lu)
    BY <1>0, <2>1, <2>2
  <2> QED
    BY <2>3, <2>4 DEF cs, ls, cu, lu
<1> HIDE DEF d, u
<1>2. /\ d >= 1 /\ u < 0 => sec = d - 1
      /\ d < 0 /\ u > 0 => sec = d + 1
      /\ ~(d >= 1 /\ u < 0) /\ ~(d < 0 /\ u > 0) => sec = d
  BY <1>1 DEF normalize_tv
<1>3. Exceeds(sec, timeout) <=> sec < 0 \/ sec > timeout
  BY DEF Exceeds
<1>4. /\ (timeout + 1) * Sub = limit /\ limit \in Int /\ whole \in Int
      /\ d <= -2 => whole <= -2 * Sub
      /\ d = -1 => whole = -Sub
      /\ d = 0 => whole = 0
      /\ d <= timeout => whole + Sub <= limit
      /\ d = timeout + 1 => whole = limit
      /\ d >= timeout + 2 => limit + Sub <= whole
      /\ Sub <= limit
  <2>1. (timeout + 1) * Sub = limit /\ limit \in Int /\ whole \in Int
    BY <1>0, <1>1
  <2>2. d <= -2 => whole <= -2 * Sub
    <3>1. d <= -2 => Sub * d <= Sub * (-2)
      BY <1>0, <1>1, Product
    <3> QED
      BY <3>1, <1>0
  <2>3. (d = -1 => whole = -Sub) /\ (d = 0 => whole = 0) /\ (d = timeout + 1 => whole = limit)
    BY <1>0, <1>1
  <2>4. d <= timeout => whole + Sub <= limit
    <3>1. d <= timeout => Sub * (d + 1) <= Sub * (timeout + 1)
      BY <1>0, <1>1, Product
    <3>2. Sub * (d + 1) = Sub * d + Sub
      BY <1>0, <1>1
    <3> QED
      BY <3>1, <3>2
  <2>5. d >= timeout + 2 => limit + Sub <= whole
    <3>1. d >= timeout + 2 => Sub * (timeout + 2) <= Sub * d
      BY <1>0, <1>1, Product
    <3>2. Sub * (timeout + 2) = Sub * (timeout + 1) + Sub
      BY <1>0
    <3> QED
      BY <3>1, <3>2
  <2>6. Sub <= limit
    <3>1. Sub * 1 <= Sub * (timeout + 1) /\ Sub * 1 = Sub
      BY <1>0, Product
    <3> QED
      BY <3>1
  <2> QED
    BY <2>1, <2>2, <2>3, <2>4, <2>5, <2>6
<1> HIDE DEF sec, whole, limit
<1>5. d >= -1
  BY <1>0, <1>1, <1>4
<1>6. sec < 0 \/ sec > timeout <=> whole + u >= limit
  <2>1. CASE d = -1
    BY <2>1, <1>0, <1>1, <1>2, <1>4
  <2>2. CASE d = 0
    BY <2>2, <1>0, <1>1, <1>2, <1>4
  <2>3. CASE d >= 1 /\ d <= timeout
    BY <2>3, <1>0, <1>1, <1>2, <1>4
  <2>4. CASE d = timeout + 1
    BY <2>4, <1>0, <1>1, <1>2, <1>4
  <2>5. CASE d >= timeout + 2
    BY <2>5, <1>0, <1>1, <1>2, <1>4
  <2> QED
    BY <1>1, <1>5, <2>1, <2>2, <2>3, <2>4, <2>5
<1> QED
  BY <1>1, <1>3, <1>4, <1>6 DEF sec, d, u

-----------------------------------------------------------------------------
Passing == {"ctx_sec", "ctx_usec", "rcv", "rcv_sec", "rcv_usec", "decide"}

TypeInv ==
  /\ now \in Nat /\ wake \in Nat
  /\ lastCtx \in Nat /\ lastRcv \in Nat /\ lastEnd \in Nat
  /\ lastCtx <= now /\ lastRcv <= now /\ lastEnd <= lastRcv
  /\ up \in Nat
  /\ pc \in Passing \cup {"loop", "sleep", "linger", "ended"}
  /\ ctx_loop_flag = 1 <=> "S" \in opts
  /\ rcv_loop_flag = 1 <=> Receiver(opts)
  /\ tqr_sustain_duration \in Nat

(* A pass is short, and the time it began with is not before its wake.     *)
PaceInv ==
  /\ pc \in Passing \cup {"loop"} => now <= wake + Slack
  /\ pc = "loop" => wake <= now

(* The thread of UM: between the two stores of a time its second is new    *)
(* and its other half old; between the store and the count the number of   *)
(* sessions lags behind.                                                   *)
Timeval == [sec : Int, usec : Int]
Lag == IF cb = "eos" THEN 1 ELSE IF cb = "bos" THEN -1 ELSE 0

SharedInv ==
  /\ cb \in Kinds \cup {"none"}
  /\ cb # "none" => cb_step \in {"usec", "count"}
  /\ cb_step = "count" => cb \in {"bos", "eos"}
  /\ cb_tv \in Timeval
  /\ rcv_last_tv \in Timeval /\ ctx_last_tv \in Timeval /\ cur_tv \in Timeval
  /\ rcv_last_tv.sec = tv(lastRcv).sec /\ ctx_last_tv.sec = tv(lastCtx).sec
  /\ IF cb \in RcvKinds /\ cb_step = "usec"
     THEN cb_tv = tv(lastRcv) ELSE rcv_last_tv.usec = tv(lastRcv).usec
  /\ IF cb = "tir" THEN cb_tv = tv(lastCtx) ELSE ctx_last_tv.usec = tv(lastCtx).usec
  /\ rcv_eos_count = up + Lag
  /\ cb \in {"bos", "data"} => up > 0
  /\ Awake /\ cb # "none" => cb \in raced

(* A pass no log message runs into knows the time it began.                *)
Clock == cur_tv.sec * Sub + cur_tv.usec

ClockInv ==
  Awake /\ "log" \notin raced =>
    /\ Clock \in Nat /\ cur_tv = tv(Clock) /\ wake <= Clock
    /\ "tir" \notin raced => lastCtx <= Clock
    /\ raced \cap RcvKinds = {} => lastRcv <= Clock

LEMMA TvTypes ==
  ASSUME NEW t \in Nat
  PROVE  tv(t) \in Timeval /\ DOMAIN tv(t) = {"sec", "usec"}
  BY Divided DEF tv, Timeval

LEMMA SecStored ==
  ASSUME NEW r \in Timeval, NEW t \in Nat
  PROVE  /\ [r EXCEPT !.sec = tv(t).sec] \in Timeval
         /\ [r EXCEPT !.sec = tv(t).sec].sec = tv(t).sec
         /\ [r EXCEPT !.sec = tv(t).sec].usec = r.usec
  BY Divided DEF Timeval

LEMMA UsecStored ==
  ASSUME NEW r \in Timeval, NEW t \in Nat
  PROVE  /\ [r EXCEPT !.usec = tv(t).usec] \in Timeval
         /\ [r EXCEPT !.usec = tv(t).usec].usec = tv(t).usec
         /\ [r EXCEPT !.usec = tv(t).usec].sec = r.sec
  BY Divided DEF Timeval

LEMMA TypeInit == 1 \notin Garbage /\ Init => TypeInv /\ PaceInv
<1> SUFFICES ASSUME 1 \notin Garbage, Init PROVE TypeInv /\ PaceInv
  OBVIOUS
<1>1. tqr_sustain_duration \in Nat
  BY TimeAssumption DEF Init, SustainDuration, Smaller
<1> QED
  BY <1>1, TimeAssumption DEF Init, TypeInv, PaceInv, Passing

LEMMA TypeStep == TypeInv /\ PaceInv /\ [Next]_vars => TypeInv' /\ PaceInv'
<1> SUFFICES ASSUME TypeInv, PaceInv, [Next]_vars PROVE TypeInv' /\ PaceInv'
  OBVIOUS
<1> USE TimeAssumption DEF TypeInv, PaceInv, Passing, Receiver, flagVars, sharedVars, passVars,
        cbVars, eventVars, Here
<1>1. CASE callback
  <2>1. PICK kind \in Kinds :
          /\ Occurs(kind)
          /\ up' = up + (IF kind = "bos" THEN 1 ELSE IF kind = "eos" THEN -1 ELSE 0)
          /\ lastCtx' = IF kind = "tir" THEN now ELSE lastCtx
          /\ lastRcv' = IF kind \in RcvKinds THEN now ELSE lastRcv
          /\ lastEnd' = IF kind = "eos" /\ up = 1 THEN now ELSE lastEnd
    BY <1>1 DEF callback
  <2>2. kind = "eos" => up > 0
    BY <2>1 DEF Occurs
  <2>3. UNCHANGED <<now, pc, wake, flagVars>>
    BY <1>1 DEF callback
  <2> QED
    BY <2>1, <2>2, <2>3 DEF RcvKinds
<1>2. CASE store_usec \/ store_count
  BY <1>2 DEF store_usec, store_count
<1>3. CASE read_clock
  BY <1>3 DEF read_clock
<1>4. CASE ctx_sec \/ ctx_usec \/ test_count
  BY <1>4 DEF ctx_sec, ctx_usec, test_count
<1>5. CASE rcv_sec \/ rcv_usec
  BY <1>5 DEF rcv_sec, rcv_usec
<1>6. CASE send_request \/ no_request
  BY <1>6 DEF send_request, no_request
<1>7. CASE wake_up
  BY <1>7 DEF wake_up
<1>8. CASE nothing_to_watch
  BY <1>8 DEF nothing_to_watch
<1>9. CASE context_delete \/ kill
  BY <1>9 DEF context_delete, kill
<1>10. CASE time_passes
  BY <1>10 DEF time_passes
<1>11. CASE UNCHANGED vars
  BY <1>11 DEF vars
<1> QED
  BY <1>1, <1>2, <1>3, <1>4, <1>5, <1>6, <1>7, <1>8, <1>9, <1>10, <1>11 DEF Next

LEMMA SharedStep == TypeInv /\ SharedInv /\ [Next]_vars => SharedInv'
<1> SUFFICES ASSUME TypeInv, SharedInv, [Next]_vars PROVE SharedInv'
  OBVIOUS
<1> USE DEF flagVars, sharedVars, passVars, cbVars, eventVars, Here
<1>0. Awake <=> pc \in Passing
  BY DEF TypeInv, Awake, Passing
<1>1. CASE callback
  <2>1. PICK kind \in Kinds :
          /\ Occurs(kind)
          /\ cb' = kind /\ cb_tv' = tv(now) /\ cb_step' = "usec"
          /\ StoreSec(kind)
          /\ up' = up + (IF kind = "bos" THEN 1 ELSE IF kind = "eos" THEN -1 ELSE 0)
          /\ lastCtx' = IF kind = "tir" THEN now ELSE lastCtx
          /\ lastRcv' = IF kind \in RcvKinds THEN now ELSE lastRcv
          /\ raced' = IF Awake THEN raced \cup {kind} ELSE raced
    BY <1>1 DEF callback
  <2>2. cb = "none" /\ UNCHANGED <<pc, rcv_eos_count>>
    BY <1>1 DEF callback
  <2>3. /\ kind = "data" => up > 0
        /\ kind \in RcvKinds => kind # "tir"
    BY <2>1 DEF Occurs, RcvKinds
  <2>4. now \in Nat /\ up \in Nat /\ lastRcv \in Nat /\ lastCtx \in Nat
    BY DEF TypeInv
  <2>5. cur_tv' \in Timeval /\ cb_tv' \in Timeval
    BY <2>1, <2>4, SecStored, TvTypes DEF StoreSec, SharedInv
  <2>6. /\ rcv_last_tv' \in Timeval /\ rcv_last_tv'.sec = tv(lastRcv').sec
        /\ IF kind \in RcvKinds THEN cb_tv' = tv(lastRcv')
                               ELSE rcv_last_tv'.usec = tv(lastRcv').usec
    BY <2>1, <2>2, <2>4, SecStored DEF StoreSec, SharedInv, RcvKinds
  <2>7. /\ ctx_last_tv' \in Timeval /\ ctx_last_tv'.sec = tv(lastCtx').sec
        /\ IF kind = "tir" THEN cb_tv' = tv(lastCtx')
                          ELSE ctx_last_tv'.usec = tv(lastCtx').usec
    BY <2>1, <2>2, <2>4, SecStored DEF StoreSec, SharedInv
  <2>8. /\ rcv_eos_count' = up' + Lag'
        /\ cb' \in {"bos", "data"} => up' > 0
    BY <2>1, <2>2, <2>3, <2>4 DEF SharedInv, Lag
  <2>9. Awake' => cb' \in raced'
    BY <2>1, <2>2 DEF Awake
  <2> QED
    BY <2>1, <2>5, <2>6, <2>7, <2>8, <2>9 DEF SharedInv
<1>2. CASE store_usec
  <2>1. /\ cb # "none" /\ cb_step = "usec"
        /\ UNCHANGED <<pc, raced, up, lastRcv, lastCtx, rcv_eos_count>>
        /\ rcv_last_tv' = IF cb \in RcvKinds THEN [rcv_last_tv EXCEPT !.usec = cb_tv.usec]
                                             ELSE rcv_last_tv
        /\ ctx_last_tv' = IF cb = "tir" THEN [ctx_last_tv EXCEPT !.usec = cb_tv.usec]
                                        ELSE ctx_last_tv
        /\ cur_tv' = IF cb = "log" THEN [cur_tv EXCEPT !.usec = cb_tv.usec] ELSE cur_tv
        /\ IF cb \in {"bos", "eos"} THEN cb_step' = "count" /\ UNCHANGED <<cb, cb_tv>>
                                    ELSE cb' = "none" /\ cb_step' = "sec" /\ cb_tv' = tv(0)
    BY <1>2 DEF store_usec
  <2>2. lastRcv \in Nat /\ lastCtx \in Nat /\ up \in Nat
    BY DEF TypeInv
  <2>3. cur_tv' \in Timeval /\ cb_tv' \in Timeval
    BY <2>1, TvTypes DEF SharedInv, Timeval
  <2>4. rcv_last_tv' \in Timeval /\ rcv_last_tv'.sec = tv(lastRcv').sec
        /\ rcv_last_tv'.usec = tv(lastRcv').usec
    BY <2>1, <2>2, UsecStored DEF SharedInv
  <2>5. ctx_last_tv' \in Timeval /\ ctx_last_tv'.sec = tv(lastCtx').sec
        /\ ctx_last_tv'.usec = tv(lastCtx').usec
    BY <2>1, <2>2, UsecStored DEF SharedInv
  <2>6. /\ rcv_eos_count' = up' + Lag'
        /\ cb' \in {"bos", "data"} => up' > 0
    BY <2>1, <2>2 DEF SharedInv, Lag
  <2>7. Awake' /\ cb' # "none" => cb' \in raced'
    BY <2>1 DEF SharedInv, Awake
  <2>8. cb' # "tir" /\ (cb' # "none" => cb' \in {"bos", "eos"} /\ cb_step' = "count")
        /\ cb' \in Kinds \cup {"none"} /\ (cb_step' = "count" => cb' \in {"bos", "eos"})
    BY <2>1 DEF SharedInv
  <2> QED
    BY <2>3, <2>4, <2>5, <2>6, <2>7, <2>8 DEF SharedInv, RcvKinds
<1>3. CASE store_count
  BY <1>3, TvTypes DEF store_count, SharedInv, Lag, Awake, Kinds, RcvKinds, TypeInv
<1>4. CASE read_clock
  <2>1. cur_tv' \in Timeval
    BY <1>4, TvTypes DEF read_clock, TypeInv
  <2>2. cb' = "none" \/ cb' \in raced'
    BY <1>4 DEF read_clock
  <2> QED
    BY <1>4, <2>1, <2>2 DEF read_clock, SharedInv, Lag
<1>5. CASE ctx_sec \/ ctx_usec \/ test_count \/ rcv_sec \/ rcv_usec
  BY <1>5 DEF ctx_sec, ctx_usec, test_count, rcv_sec, rcv_usec, SharedInv, Lag, Awake
<1>6. CASE send_request \/ no_request
  BY <1>6 DEF send_request, no_request, SharedInv, Lag, Awake
<1>7. CASE wake_up \/ nothing_to_watch
  BY <1>7 DEF wake_up, nothing_to_watch, SharedInv, Lag, Awake
<1>8. CASE context_delete \/ kill
  BY <1>8 DEF context_delete, kill, SharedInv, Lag, Awake
<1>9. CASE time_passes
  BY <1>9 DEF time_passes, SharedInv, Lag, Awake
<1>10. CASE UNCHANGED vars
  BY <1>10 DEF vars, SharedInv, Lag, Awake
<1> QED
  BY <1>1, <1>2, <1>3, <1>4, <1>5, <1>6, <1>7, <1>8, <1>9, <1>10 DEF Next

LEMMA SharedInit == Init => SharedInv
<1> SUFFICES ASSUME Init PROVE SharedInv
  OBVIOUS
<1> QED
  BY TvTypes DEF Init, SharedInv, Kinds, RcvKinds, Lag, Awake

-----------------------------------------------------------------------------
(* The time main() reads is that of the pass.                              *)
LEMMA ClockStep ==
  TypeInv /\ PaceInv /\ SharedInv /\ ClockInv /\ [Next]_vars => ClockInv'
<1> SUFFICES ASSUME TypeInv, PaceInv, SharedInv, ClockInv, [Next]_vars PROVE ClockInv'
  OBVIOUS
<1> USE DEF flagVars, sharedVars, passVars, cbVars, eventVars, Here
<1>0. Awake <=> pc \in Passing
  BY DEF TypeInv, Awake, Passing
<1>1. CASE callback
  <2>1. PICK kind \in Kinds :
          /\ StoreSec(kind)
          /\ lastCtx' = IF kind = "tir" THEN now ELSE lastCtx
          /\ lastRcv' = IF kind \in RcvKinds THEN now ELSE lastRcv
          /\ raced' = IF Awake THEN raced \cup {kind} ELSE raced
    BY <1>1 DEF callback
  <2>2. UNCHANGED <<pc, wake>>
    BY <1>1 DEF callback
  <2>3. Awake' => Awake /\ raced' = raced \cup {kind}
    BY <2>1, <2>2 DEF Awake
  <2>4. kind # "log" => cur_tv' = cur_tv
    BY <2>1 DEF StoreSec
  <2> QED
    BY <2>1, <2>2, <2>3, <2>4 DEF ClockInv, Clock
<1>2. CASE store_usec
  <2>1. UNCHANGED <<pc, wake, raced, lastRcv, lastCtx>> /\ cb # "none"
    BY <1>2 DEF store_usec
  <2>2. Awake /\ "log" \notin raced => cur_tv' = cur_tv
    BY <1>2 DEF store_usec, SharedInv
  <2> QED
    BY <2>1, <2>2 DEF ClockInv, Clock, Awake
<1>3. CASE store_count
  BY <1>3 DEF store_count, ClockInv, Clock, Awake
<1>4. CASE read_clock
  <2>1. now \in Nat /\ wake <= now /\ lastCtx <= now /\ lastRcv <= now
    BY <1>4 DEF read_clock, TypeInv, PaceInv
  <2>2. cur_tv' = tv(now) /\ UNCHANGED <<wake, lastCtx, lastRcv>>
    BY <1>4 DEF read_clock
  <2>3. Clock' = now
    BY <2>1, <2>2, Divided DEF Clock
  <2> QED
    BY <2>1, <2>2, <2>3 DEF ClockInv
<1>5. CASE ctx_sec \/ ctx_usec \/ test_count \/ rcv_sec \/ rcv_usec
  BY <1>5 DEF ctx_sec, ctx_usec, test_count, rcv_sec, rcv_usec, ClockInv, Clock, Awake
<1>6. CASE send_request \/ no_request \/ wake_up \/ nothing_to_watch \/ context_delete \/ kill
  BY <1>6 DEF send_request, no_request, wake_up, nothing_to_watch, context_delete, kill,
              ClockInv, Awake
<1>7. CASE time_passes
  BY <1>7 DEF time_passes, ClockInv, Clock, Awake
<1>8. CASE UNCHANGED vars
  BY <1>8 DEF vars, ClockInv, Clock, Awake
<1> QED
  BY <1>1, <1>2, <1>3, <1>4, <1>5, <1>6, <1>7, <1>8 DEF Next

LEMMA Elapsed ==
  ASSUME Clock \in Nat, cur_tv = tv(Clock), NEW t \in Nat
  PROVE  SinceClock(t) = Clock - t
<1>1. cur_tv.sec \in Nat /\ cur_tv.usec \in Nat
  BY Divided, TimeAssumption
<1>2. cur_tv.sec * Sub \in Nat
  BY <1>1, TimeAssumption
<1> DEFINE p == cur_tv.sec * Sub
<1> HIDE DEF p
<1>3. p + cur_tv.usec - t = (p + cur_tv.usec) - t
  BY <1>1, <1>2 DEF p
<1> QED
  BY <1>3 DEF SinceClock, Clock, p

-----------------------------------------------------------------------------
(* The alarm of the context: nothing but an advertisement or a log message *)
(* disturbs its computation.                                               *)
Undisturbed == Awake /\ "log" \notin raced /\ "tir" \notin raced
CtxDue == "S" \in opts /\ SinceClock(lastCtx) >= (CtxTimeout + 1) * Sub

CtxFlagInv ==
  /\ pc \in {"ctx_sec", "ctx_usec"} => "S" \in opts
  /\ pc \in {"rcv", "rcv_sec", "rcv_usec", "decide"} /\ "S" \notin opts => c_tmo_flag = 0
  /\ pc = "ctx_usec" /\ Undisturbed => diff_sec = cur_tv.sec - ctx_last_tv.sec
  /\ pc \in {"rcv", "rcv_sec", "rcv_usec", "decide"} /\ Undisturbed =>
       (c_tmo_flag = 1 <=> CtxDue)

LEMMA CtxFlagStep ==
  TypeInv /\ SharedInv /\ ClockInv /\ CtxFlagInv /\ [Next]_vars => CtxFlagInv'
<1> SUFFICES ASSUME TypeInv, SharedInv, ClockInv, CtxFlagInv, [Next]_vars PROVE CtxFlagInv'
  OBVIOUS
<1> USE DEF flagVars, sharedVars, passVars, cbVars, eventVars, Here
<1>1. CASE callback
  <2>1. PICK kind \in Kinds :
          /\ StoreSec(kind)
          /\ lastCtx' = IF kind = "tir" THEN now ELSE lastCtx
          /\ raced' = IF Awake THEN raced \cup {kind} ELSE raced
    BY <1>1 DEF callback
  <2>2. UNCHANGED <<pc, opts, c_tmo_flag, diff_sec>>
    BY <1>1 DEF callback
  <2>3. Undisturbed' => Undisturbed /\ kind # "log" /\ kind # "tir"
    BY <2>1, <2>2 DEF Undisturbed, Awake
  <2>4. Undisturbed' => UNCHANGED <<cur_tv, ctx_last_tv, lastCtx>>
    BY <2>1, <2>3 DEF StoreSec
  <2> QED
    BY <2>2, <2>3, <2>4 DEF CtxFlagInv, CtxDue, SinceClock
<1>2. CASE store_usec
  <2>1. UNCHANGED <<pc, opts, c_tmo_flag, diff_sec, lastCtx, raced>> /\ cb # "none"
    BY <1>2 DEF store_usec
  <2>2. Undisturbed' => Undisturbed
    BY <2>1 DEF Undisturbed, Awake
  <2>3. Undisturbed => cb # "log" /\ cb # "tir"
    BY <2>1 DEF Undisturbed, SharedInv
  <2>4. Undisturbed => UNCHANGED <<cur_tv, ctx_last_tv>>
    BY <1>2, <2>3 DEF store_usec
  <2> QED
    BY <2>1, <2>2, <2>4 DEF CtxFlagInv, CtxDue, SinceClock
<1>3. CASE store_count
  BY <1>3 DEF store_count, CtxFlagInv, CtxDue, SinceClock, Undisturbed, Awake
<1>4. CASE read_clock
  BY <1>4 DEF read_clock, CtxFlagInv, CtxDue, TypeInv
<1>5. CASE ctx_sec
  BY <1>5 DEF ctx_sec, CtxFlagInv, Undisturbed, Awake
<1>6. CASE ctx_usec
  <2>1. /\ pc = "ctx_usec" /\ pc' = "rcv" /\ UNCHANGED <<cur_tv, raced, Here>>
        /\ c_tmo_flag' =
             IF Exceeds(normalize_tv(diff_sec, cur_tv.usec - ctx_last_tv.usec), CtxTimeout)
             THEN 1 ELSE 0
    BY <1>6 DEF ctx_usec
  <2>2. "S" \in opts
    BY <2>1 DEF CtxFlagInv
  <2>3. ASSUME Undisturbed PROVE c_tmo_flag' = 1 <=> CtxDue'
    <3>1. /\ Clock \in Nat /\ cur_tv = tv(Clock)
          /\ lastCtx <= Clock /\ lastCtx \in Nat
      BY <2>3 DEF Undisturbed, ClockInv, TypeInv
    <3>2. cb # "tir"
      BY <2>3 DEF Undisturbed, SharedInv
    <3>3. ctx_last_tv.sec = tv(lastCtx).sec /\ ctx_last_tv.usec = tv(lastCtx).usec
      BY <3>2 DEF SharedInv
    <3>4. diff_sec = tv(Clock).sec - tv(lastCtx).sec
      BY <2>1, <2>3, <3>1, <3>3 DEF CtxFlagInv
    <3>5. c_tmo_flag' = 1 <=> Clock - lastCtx >= (CtxTimeout + 1) * Sub
      BY <2>1, <3>1, <3>3, <3>4, Compare, TimeAssumption
    <3>6. SinceClock(lastCtx) = Clock - lastCtx
      BY <3>1, Elapsed
    <3>7. c_tmo_flag' = 1 <=> CtxDue
      BY <2>2, <3>5, <3>6 DEF CtxDue
    <3> QED
      BY <2>1, <3>7 DEF CtxDue, SinceClock
  <2>4. Undisturbed' => Undisturbed
    BY <2>1 DEF Undisturbed, Awake
  <2> QED
    BY <2>1, <2>2, <2>3, <2>4 DEF CtxFlagInv
<1>7. CASE test_count \/ rcv_sec \/ rcv_usec
  BY <1>7 DEF test_count, rcv_sec, rcv_usec, CtxFlagInv, CtxDue, SinceClock, Undisturbed, Awake
<1>8. CASE send_request \/ no_request \/ wake_up \/ nothing_to_watch \/ context_delete \/ kill
  BY <1>8 DEF send_request, no_request, wake_up, nothing_to_watch, context_delete, kill,
              CtxFlagInv
<1>9. CASE time_passes
  BY <1>9 DEF time_passes, CtxFlagInv, CtxDue, SinceClock, Undisturbed, Awake
<1>10. CASE UNCHANGED vars
  BY <1>10 DEF vars, CtxFlagInv, CtxDue, SinceClock, Undisturbed, Awake
<1> QED
  BY <1>1, <1>2, <1>3, <1>4, <1>5, <1>6, <1>7, <1>8, <1>9, <1>10 DEF Next

-----------------------------------------------------------------------------
(* The alarm of the receiver: a pass that, besides advertisements, only    *)
(* data and ends of sessions run into computes it, if at all, while there  *)
(* is no session, so that none of them happens any more.  The last message *)
(* is then no later than the pass lasts.                                   *)
Unheard == raced \cap RcvKinds = {}
Quiet ==
  Awake /\ raced \subseteq {"data", "eos", "tir"} /\ (Unheard \/ Slack < Sub)
RcvLimit == (RcvTimeout + 1) * Sub
RcvDue == SinceClock(lastRcv) >= RcvLimit
Alone == Receiver(opts) /\ up = 0 /\ cb \notin RcvKinds

RcvFlagInv ==
  Quiet =>
    /\ pc \in {"ctx_sec", "ctx_usec", "rcv", "rcv_sec", "rcv_usec"} => r_tmo_flag = 0
    /\ pc \in {"rcv_sec", "rcv_usec"} => Alone
    /\ pc = "rcv_usec" => diff_sec = cur_tv.sec - rcv_last_tv.sec
    /\ pc = "decide" /\ r_tmo_flag = 1 => Alone /\ RcvDue
    /\ pc = "decide" /\ Unheard => (Receiver(opts) /\ up = 0 /\ RcvDue => r_tmo_flag = 1)

(* What a quiet pass computes from. *)
LEMMA QuietReads ==
  TypeInv /\ PaceInv /\ SharedInv /\ ClockInv /\ Quiet /\ cb \notin RcvKinds =>
    /\ Clock \in Nat /\ cur_tv = tv(Clock)
    /\ lastRcv \in Nat /\ lastRcv - Clock < Sub
    /\ rcv_last_tv.sec = tv(lastRcv).sec /\ rcv_last_tv.usec = tv(lastRcv).usec
<1> SUFFICES ASSUME TypeInv, PaceInv, SharedInv, ClockInv, Quiet, cb \notin RcvKinds
             PROVE  /\ Clock \in Nat /\ cur_tv = tv(Clock)
                    /\ lastRcv \in Nat /\ lastRcv - Clock < Sub
                    /\ rcv_last_tv.sec = tv(lastRcv).sec /\ rcv_last_tv.usec = tv(lastRcv).usec
  OBVIOUS
<1>1. /\ Clock \in Nat /\ cur_tv = tv(Clock) /\ wake <= Clock
      /\ Unheard => lastRcv <= Clock
  BY DEF Quiet, ClockInv, Unheard
<1>2. lastRcv \in Nat /\ now \in Nat /\ wake \in Nat /\ lastRcv <= now /\ now <= wake + Slack
  BY DEF TypeInv, PaceInv, Quiet, Awake
<1>3. lastRcv - Clock < Sub
  BY <1>1, <1>2, TimeAssumption DEF Quiet
<1>4. rcv_last_tv.sec = tv(lastRcv).sec /\ rcv_last_tv.usec = tv(lastRcv).usec
  BY DEF SharedInv, RcvKinds
<1> QED
  BY <1>1, <1>2, <1>3, <1>4

LEMMA Earliest ==
  ASSUME TypeInv, NEW since \in Int
  PROVE  since >= RcvLimit <=>
           \/ since >= (tqr_sustain_duration + 1) * Sub
           \/ "M" \in opts /\ since >= (MsgTimeout + 1) * Sub
<1> DEFINE t == tqr_sustain_duration
           a == Sub * (t + 1)
           b == Sub * (MsgTimeout + 1)
<1>1. t \in Nat /\ MsgTimeout \in Nat /\ Sub \in Nat
  BY TimeAssumption DEF TypeInv
<1> HIDE DEF t
<1>2. a \in Int /\ b \in Int /\ (t + 1) * Sub = a /\ (MsgTimeout + 1) * Sub = b
  BY <1>1
<1>3. MsgTimeout < t => b <= a
  BY <1>1, Product
<1>4. t <= MsgTimeout => a <= b
  BY <1>1, Product
<1>5. RcvLimit = IF "M" \in opts /\ MsgTimeout < t THEN b ELSE a
  BY <1>2 DEF RcvLimit, RcvTimeout, t
<1> HIDE DEF a, b
<1>6. since >= RcvLimit <=> since >= a \/ ("M" \in opts /\ since >= b)
  BY <1>1, <1>2, <1>3, <1>4, <1>5
<1> QED
  BY <1>2, <1>6 DEF t

LEMMA RcvFlagCallback ==
  TypeInv /\ PaceInv /\ SharedInv /\ RcvFlagInv /\ callback => RcvFlagInv'
<1> SUFFICES ASSUME TypeInv, PaceInv, SharedInv, RcvFlagInv, callback, Quiet' PROVE RcvFlagInv'
  BY DEF RcvFlagInv
<1> USE DEF flagVars, sharedVars, passVars, cbVars, eventVars
<1>1. PICK kind \in Kinds :
        /\ Occurs(kind) /\ cb' = kind
        /\ raced' = IF Awake THEN raced \cup {kind} ELSE raced
        /\ StoreSec(kind)
        /\ lastRcv' = IF kind \in RcvKinds THEN now ELSE lastRcv
        /\ up' = up + (IF kind = "bos" THEN 1 ELSE IF kind = "eos" THEN -1 ELSE 0)
  BY DEF callback
<1>2. UNCHANGED <<pc, opts, r_tmo_flag, diff_sec, tqr_sustain_duration>>
  BY DEF callback
<1>3. raced' = raced \cup {kind} /\ kind \in {"data", "eos", "tir"}
  BY <1>1, <1>2 DEF Quiet, Awake
<1>4. Quiet
  BY <1>2, <1>3 DEF Quiet, Awake, Unheard
<1>5. CASE kind = "tir"
  <2>1. UNCHANGED <<lastRcv, up, cur_tv, rcv_last_tv, tqr_sustain_duration>> /\ cb' = "tir"
    BY <1>1, <1>2, <1>5 DEF TypeInv, StoreSec, RcvKinds
  <2>2. Unheard' => Unheard
    BY <1>3 DEF Unheard
  <2>3. Alone => Alone'
    BY <1>2, <2>1 DEF Alone, RcvKinds
  <2>4. RcvDue' <=> RcvDue
    BY <1>2, <2>1 DEF RcvDue, RcvLimit, RcvTimeout, SinceClock
  <2> QED
    BY <1>2, <1>4, <2>1, <2>2, <2>3, <2>4 DEF RcvFlagInv
<1>6. CASE kind # "tir"
  <2>1. up > 0 /\ ~Unheard'
    BY <1>1, <1>3, <1>6 DEF Occurs, Unheard, RcvKinds
  <2>2. ~Alone
    BY <2>1 DEF Alone
  <2> QED
    BY <1>2, <1>3, <1>4, <2>1, <2>2 DEF RcvFlagInv
<1> QED
  BY <1>5, <1>6

LEMMA RcvFlagStep ==
  TypeInv /\ PaceInv /\ SharedInv /\ ClockInv /\ RcvFlagInv /\ [Next]_vars => RcvFlagInv'
<1> SUFFICES ASSUME TypeInv, PaceInv, SharedInv, ClockInv, RcvFlagInv, [Next]_vars
             PROVE  RcvFlagInv'
  OBVIOUS
<1> USE DEF flagVars, sharedVars, passVars, cbVars, eventVars, Here
<1>1. CASE callback
  BY <1>1, RcvFlagCallback
<1>2. CASE store_usec
  <2>1. /\ UNCHANGED <<pc, opts, r_tmo_flag, diff_sec, up, raced, lastRcv>> /\ cb # "none"
    BY <1>2 DEF store_usec
  <2>2. Quiet' => Quiet /\ cb \in raced /\ cb # "log"
    BY <2>1 DEF Quiet, Awake, SharedInv, Unheard
  <2>3. Quiet' => cur_tv' = cur_tv
    BY <1>2, <2>1, <2>2 DEF store_usec
  <2>4. UNCHANGED <<Unheard, tqr_sustain_duration>>
    BY <1>2, <2>1 DEF Unheard, store_usec
  <2>5. CASE Quiet' /\ cb \in RcvKinds
    <3>1. ~Unheard /\ ~Alone
      BY <2>2, <2>5 DEF Unheard, Alone
    <3> QED
      BY <2>1, <2>2, <2>4, <3>1 DEF RcvFlagInv
  <2>6. CASE Quiet' /\ cb \notin RcvKinds
    <3>1. rcv_last_tv' = rcv_last_tv /\ cb' \notin RcvKinds
      BY <1>2, <2>1, <2>6 DEF store_usec, RcvKinds
    <3>2. Alone => Alone'
      BY <2>1, <3>1 DEF Alone
    <3>3. RcvDue' <=> RcvDue
      BY <2>1, <2>3, <2>4, <2>6 DEF RcvDue, RcvLimit, RcvTimeout, SinceClock
    <3> QED
      BY <2>1, <2>2, <2>3, <2>4, <2>6, <3>1, <3>2, <3>3 DEF RcvFlagInv
  <2>7. ~Quiet' => RcvFlagInv'
    BY DEF RcvFlagInv
  <2> QED
    BY <2>5, <2>6, <2>7
<1>3. CASE store_count
  <2>1. /\ UNCHANGED <<pc, opts, r_tmo_flag, diff_sec, up, raced, lastRcv>> /\ cb_step = "count"
    BY <1>3 DEF store_count
  <2>2. cb \in {"bos", "eos"}
    BY <2>1 DEF SharedInv
  <2>3. Quiet' => Quiet /\ cb \in raced
    BY <2>1, <2>2 DEF Quiet, Awake, SharedInv, Unheard
  <2>4. Quiet' => ~Unheard' /\ ~Alone
    BY <2>1, <2>2, <2>3 DEF Alone, Unheard, RcvKinds
  <2> QED
    BY <2>1, <2>3, <2>4 DEF RcvFlagInv
<1>4. CASE read_clock
  BY <1>4 DEF read_clock, RcvFlagInv
<1>5. CASE ctx_sec \/ ctx_usec
  BY <1>5 DEF ctx_sec, ctx_usec, RcvFlagInv, Quiet, Awake, Unheard
<1>6. CASE test_count
  <2>1. /\ pc = "rcv"
        /\ pc' = IF rcv_loop_flag = 1 /\ rcv_eos_count = 0 THEN "rcv_sec" ELSE "decide"
        /\ UNCHANGED <<cur_tv, passVars, raced, Here>>
    BY <1>6 DEF test_count
  <2>2. Quiet' => Quiet
    BY <2>1 DEF Quiet, Awake, Unheard
  <2>3. r_tmo_flag' = 1 => ~Quiet'
    BY <2>1, <2>2 DEF RcvFlagInv
  <2>4. ASSUME Quiet', pc' = "rcv_sec" PROVE Alone
    <3>1. Receiver(opts) /\ up + Lag = 0 /\ up \in Nat
      BY <2>1, <2>4 DEF TypeInv, SharedInv
    <3>2. cb \in RcvKinds => cb \in {"data", "eos"}
      BY <2>2, <2>4 DEF Quiet, SharedInv, RcvKinds
    <3>3. cb = "data" => up > 0 /\ Lag = 0
      BY DEF SharedInv, Lag
    <3>4. cb = "eos" => Lag = 1
      BY DEF Lag
    <3>5. cb \notin RcvKinds
      BY <3>1, <3>2, <3>3, <3>4
    <3> QED
      BY <3>1, <3>5 DEF Alone, Lag, RcvKinds
  <2>5. ASSUME Quiet', pc' = "decide", Unheard' PROVE ~(Receiver(opts) /\ up = 0)
    <3>1. rcv_loop_flag # 1 \/ rcv_eos_count # 0
      BY <2>1, <2>5
    <3>2. cb \notin RcvKinds
      BY <2>1, <2>2, <2>5 DEF Quiet, SharedInv, Unheard, RcvKinds
    <3>3. Lag = 0
      BY <3>2 DEF Lag, RcvKinds
    <3> QED
      BY <3>1, <3>3 DEF TypeInv, SharedInv
  <2>6. UNCHANGED <<opts, up, cb>>
    BY <2>1
  <2>7. Alone => Alone'
    BY <2>6 DEF Alone
  <2>8. Quiet' /\ pc' \in {"rcv_sec", "decide"} => r_tmo_flag' = 0
    BY <2>1, <2>2 DEF RcvFlagInv
  <2>9. pc' \in {"rcv_sec", "decide"}
    BY <2>1
  <2> QED
    BY <2>4, <2>5, <2>6, <2>7, <2>8, <2>9 DEF RcvFlagInv
<1>7. CASE rcv_sec
  BY <1>7 DEF rcv_sec, RcvFlagInv, Quiet, Awake, Alone, Unheard
<1>8. CASE rcv_usec
  <2> DEFINE sec == normalize_tv(diff_sec, cur_tv.usec - rcv_last_tv.usec)
  <2> HIDE DEF sec
  <2> DEFINE exceeds == Exceeds(sec, tqr_sustain_duration)
             exceedsM == Exceeds(sec, MsgTimeout)
             set == exceeds \/ (Receiver(opts) /\ "M" \in opts /\ exceedsM)
  <2> HIDE DEF exceeds, exceedsM, set
  <2>0. r_tmo_flag' = IF set THEN 1 ELSE 0
    BY <1>8, Zenon DEF rcv_usec, sec, set, exceeds, exceedsM
  <2>1. pc = "rcv_usec" /\ pc' = "decide" /\ UNCHANGED <<cur_tv, raced, Here>>
    BY <1>8, Zenon DEF rcv_usec
  <2>2. Quiet' => Quiet
    BY <2>1 DEF Quiet, Awake, Unheard
  <2>3. ASSUME Quiet PROVE Alone /\ (r_tmo_flag' = 1 <=> RcvDue)
    <3>1. Alone /\ diff_sec = cur_tv.sec - rcv_last_tv.sec
      BY <2>1, <2>3 DEF RcvFlagInv
    <3>2. /\ Clock \in Nat /\ cur_tv = tv(Clock)
          /\ lastRcv \in Nat /\ lastRcv - Clock < Sub
          /\ rcv_last_tv.sec = tv(lastRcv).sec /\ rcv_last_tv.usec = tv(lastRcv).usec
      BY <2>3, <3>1, QuietReads DEF Alone
    <3>3. sec = normalize_tv(tv(Clock).sec - tv(lastRcv).sec, tv(Clock).usec - tv(lastRcv).usec)
      BY <3>1, <3>2 DEF sec
    <3>4. tqr_sustain_duration \in Nat /\ MsgTimeout \in Nat
      BY TimeAssumption DEF TypeInv
    <3>5. Exceeds(sec, tqr_sustain_duration)
            <=> Clock - lastRcv >= (tqr_sustain_duration + 1) * Sub
      BY <3>2, <3>3, <3>4, Compare
    <3>6. Exceeds(sec, MsgTimeout) <=> Clock - lastRcv >= (MsgTimeout + 1) * Sub
      BY <3>2, <3>3, <3>4, Compare
    <3>7. Clock - lastRcv \in Int /\ SinceClock(lastRcv) = Clock - lastRcv
      BY <3>2, Elapsed
    <3>8. RcvDue <=> \/ Exceeds(sec, tqr_sustain_duration)
                     \/ "M" \in opts /\ Exceeds(sec, MsgTimeout)
      BY <3>5, <3>6, <3>7, Earliest DEF RcvDue
    <3>9. RcvDue <=> set
      BY <3>1, <3>8, Zenon DEF Alone, set, exceeds, exceedsM
    <3>10. r_tmo_flag' = 1 <=> set
      BY <2>0
    <3> QED
      BY <3>1, <3>9, <3>10
  <2>4. UNCHANGED <<opts, up, cb, lastRcv, tqr_sustain_duration>>
    BY <2>1
  <2>5. (RcvDue' <=> RcvDue) /\ (Alone' <=> Alone)
    BY <2>1, <2>4 DEF RcvDue, RcvLimit, RcvTimeout, SinceClock, Alone
  <2> QED
    BY <2>1, <2>2, <2>3, <2>5 DEF RcvFlagInv
<1>9. CASE send_request \/ no_request \/ wake_up \/ nothing_to_watch \/ context_delete \/ kill
  BY <1>9 DEF send_request, no_request, wake_up, nothing_to_watch, context_delete, kill,
              RcvFlagInv, Quiet, Awake, Unheard
<1>10. CASE time_passes
  BY <1>10 DEF time_passes, RcvFlagInv, Quiet, Awake, Alone, RcvDue, RcvLimit, RcvTimeout,
               SinceClock, Unheard
<1>11. CASE UNCHANGED vars
  BY <1>11 DEF vars, RcvFlagInv, Quiet, Awake, Alone, RcvDue, RcvLimit, RcvTimeout, SinceClock,
               Unheard
<1> QED
  BY <1>1, <1>2, <1>3, <1>4, <1>5, <1>6, <1>7, <1>8, <1>9, <1>10, <1>11 DEF Next

-----------------------------------------------------------------------------
(* Silence is answered in time.  The argument counts passes: one that reads *)
(* the clock at wake or later, and does not raise the alarm, has found the  *)
(* last sign of life less than the timeout and a second before wake; the    *)
(* next pass wakes at most Period later.  A pass a log message ran into     *)
(* proves nothing, and costs one more Period.                               *)

(* A callback is short, and one of UM's log messages is over before the     *)
(* pass after the one it began in: a sleep is longer than a callback.       *)
CallTime == cb_tv.sec * Sub + cb_tv.usec

CallInv ==
  /\ cb # "none" =>
       /\ CallTime \in Nat /\ cb_tv = tv(CallTime)
       /\ CallTime <= now /\ now <= CallTime + Slack
       /\ cb = "tir" => lastCtx = CallTime
       /\ cb \in RcvKinds => lastRcv = CallTime
  /\ cb = "log" =>
       /\ pc # "loop"
       /\ pc = "sleep" => CallTime + Sub <= wake

(* Where now is between a wake and the next.                                *)
NapInv ==
  /\ logs \in Nat /\ lastReq \in Nat /\ lastReq <= now
  /\ Awake => wake <= now
  /\ pc = "sleep" => now <= wake + Slack /\ wake <= now + Nap
  /\ pc = "linger" => "S" \notin opts /\ ~Receiver(opts)

(* A pass that a callback ran into knows a sign of life as old as that      *)
(* callback can be; UM's reports end QueryTime after the last session or    *)
(* request.                                                                 *)
CtxSince == Later(lastCtx, lastReq)
RcvSince == Later(lastEnd, lastReq)

SignInv ==
  /\ raced \subseteq Kinds
  /\ Awake /\ "tir" \in raced => wake <= lastCtx + Slack
  /\ Awake /\ ~Unheard => wake <= lastRcv + Slack
  /\ up = 0 => lastRcv <= QueryTime + RcvSince

(* Every pass wakes within the limit of the last sign of life, plus a       *)
(* Period for this pass and one for every pass a log message has spoilt.    *)
CtxLimit == (CtxTimeout + 1) * Sub
Spent == logs * Period

InTime(since, limit) ==
  /\ pc \in Passing \cup {"loop"} => wake < since + limit + Spent + Period
  /\ Awake /\ "log" \in raced => wake < since + limit + Spent
  /\ pc = "sleep" => wake + Slack < since + limit + Spent + Period

InTimeInv ==
  "D" \notin opts =>
    /\ "S" \in opts => InTime(CtxSince, CtxLimit)
    /\ Receiver(opts) /\ up = 0 => InTime(RcvSince, QueryTime + RcvLimit)

LEMMA Durations ==
  /\ Sub \in Nat /\ Sub > 1 /\ Slack \in Nat
  /\ Nap \in Nat /\ Nap >= 2 * Sub /\ Nap >= (Linger + 1) * Sub
  /\ (Linger + 1) * Sub \in Nat /\ (Linger + 1) * Sub >= Sub
  /\ Period \in Nat /\ Period = Nap + 2 * Slack /\ 2 * Slack \in Nat
  /\ CtxLimit \in Nat /\ CtxLimit >= Sub
<1>1. Sub \in Nat /\ Sub > 1 /\ Slack \in Nat /\ Linger \in Nat /\ CtxTimeout \in Nat
  BY TimeAssumption
<1>2. /\ (CtxTimeout + 1) * Sub = Sub * (CtxTimeout + 1)
      /\ Sub * 1 <= Sub * (CtxTimeout + 1) /\ Sub * 1 = Sub
  BY <1>1, Product
<1>3. CtxLimit \in Nat /\ CtxLimit >= Sub
  BY <1>1, <1>2 DEF CtxLimit
<1> DEFINE n == IF Linger > 1 THEN Linger + 1 ELSE 2
<1>4. n \in Nat /\ 2 <= n /\ Linger + 1 <= n
  BY <1>1
<1> HIDE DEF n
<1>5. Sub * 2 <= Sub * n /\ Sub * (Linger + 1) <= Sub * n /\ Sub * n \in Nat
  BY <1>1, <1>4, Product
<1>6. Nap = Sub * n /\ 2 * Sub = Sub * 2 /\ (Linger + 1) * Sub = Sub * (Linger + 1)
  BY <1>1, <1>4 DEF Nap, n
<1>7. Nap \in Nat /\ Nap >= 2 * Sub /\ Nap >= (Linger + 1) * Sub
  BY <1>5, <1>6
<1>9. (Linger + 1) * Sub \in Nat /\ (Linger + 1) * Sub >= Sub
  <2>1. Sub * 1 <= Sub * (Linger + 1) /\ Sub * 1 = Sub /\ Sub * (Linger + 1) \in Nat
    BY <1>1, Product
  <2> QED
    BY <1>6, <2>1
<1>8. Period \in Nat /\ Period = Nap + 2 * Slack /\ 2 * Slack \in Nat
  BY <1>1, <1>7 DEF Period
<1> QED
  BY <1>1, <1>3, <1>7, <1>8, <1>9

LEMMA RcvLimitType ==
  TypeInv => RcvLimit \in Nat /\ RcvLimit >= Sub
<1> SUFFICES ASSUME TypeInv PROVE RcvLimit \in Nat /\ RcvLimit >= Sub
  OBVIOUS
<1>1. RcvTimeout \in Nat /\ Sub \in Nat
  BY TimeAssumption DEF TypeInv, RcvTimeout
<1>2. /\ (RcvTimeout + 1) * Sub = Sub * (RcvTimeout + 1)
      /\ Sub * 1 <= Sub * (RcvTimeout + 1) /\ Sub * 1 = Sub
  BY <1>1, Product
<1> QED
  BY <1>1, <1>2 DEF RcvLimit

LEMMA NapStep == TypeInv /\ PaceInv /\ NapInv /\ [Next]_vars => NapInv'
<1> SUFFICES ASSUME TypeInv, PaceInv, NapInv, [Next]_vars PROVE NapInv'
  OBVIOUS
<1> USE Durations DEF TypeInv, PaceInv, NapInv, Passing, Awake, Receiver, flagVars, sharedVars,
        passVars, cbVars, eventVars, Here
<1>1. CASE callback
  <2>1. UNCHANGED <<now, pc, wake, flagVars, lastReq>> /\ logs' \in {logs, logs + 1}
    BY <1>1 DEF callback
  <2> QED
    BY <2>1
<1>2. CASE store_usec \/ store_count
  BY <1>2 DEF store_usec, store_count
<1>3. CASE read_clock
  BY <1>3 DEF read_clock
<1>4. CASE ctx_sec \/ ctx_usec \/ test_count
  BY <1>4 DEF ctx_sec, ctx_usec, test_count
<1>5. CASE rcv_sec \/ rcv_usec
  BY <1>5 DEF rcv_sec, rcv_usec
<1>6. CASE send_request
  <2>1. wake' = now + (Linger + 1) * Sub /\ lastReq' = now /\ pc' = "sleep"
        /\ UNCHANGED <<now, flagVars, logs>>
    BY <1>6 DEF send_request
  <2>2. (Linger + 1) * Sub \in Nat
    BY TimeAssumption
  <2> DEFINE nap == (Linger + 1) * Sub
  <2> HIDE DEF nap
  <2>3. nap \in Nat /\ nap <= Nap /\ wake' = now + nap
    BY <2>1, <2>2 DEF nap
  <2> QED
    BY <2>1, <2>3
<1>7. CASE no_request
  BY <1>7 DEF no_request
<1>8. CASE wake_up
  BY <1>8 DEF wake_up
<1>9. CASE nothing_to_watch
  BY <1>9 DEF nothing_to_watch
<1>10. CASE context_delete \/ kill
  BY <1>10 DEF context_delete, kill
<1>11. CASE time_passes
  BY <1>11 DEF time_passes
<1>12. CASE UNCHANGED vars
  BY <1>12 DEF vars
<1> QED
  BY <1>1, <1>2, <1>3, <1>4, <1>5, <1>6, <1>7, <1>8, <1>9, <1>10, <1>11, <1>12 DEF Next

LEMMA CallStep ==
  ASSUME Slack < Sub
  PROVE  TypeInv /\ SharedInv /\ PaceInv /\ NapInv /\ CallInv /\ [Next]_vars => CallInv'
<1> SUFFICES ASSUME TypeInv, SharedInv, PaceInv, NapInv, CallInv, [Next]_vars PROVE CallInv'
  OBVIOUS
<1> USE DEF flagVars, sharedVars, passVars, cbVars, eventVars, Here
<1>0. /\ Sub \in Nat /\ Slack \in Nat /\ now \in Nat /\ wake \in Nat /\ (Awake <=> pc \in Passing)
  BY Durations DEF TypeInv, Awake, Passing
<1>1. CASE callback
  <2>1. PICK kind \in Kinds :
          /\ Occurs(kind)
          /\ cb' = kind /\ cb_tv' = tv(now)
          /\ lastCtx' = IF kind = "tir" THEN now ELSE lastCtx
          /\ lastRcv' = IF kind \in RcvKinds THEN now ELSE lastRcv
    BY <1>1 DEF callback
  <2>2. UNCHANGED <<now, pc, wake>>
    BY <1>1 DEF callback
  <2>3. CallTime' = now
    <3>1. CallTime' = tv(now).sec * Sub + tv(now).usec
      BY <2>1 DEF CallTime
    <3> QED
      BY <1>0, <3>1, Divided
  <2>4. kind = "log" => pc \notin {"loop", "sleep"}
    BY <2>1 DEF Occurs, Awake
  <2>5. kind = "tir" => kind \notin RcvKinds
    BY DEF RcvKinds
  <2> QED
    BY <1>0, <2>1, <2>2, <2>3, <2>4, <2>5 DEF CallInv
<1>2. CASE store_usec
  <2>1. /\ UNCHANGED <<now, pc, wake, lastRcv, lastCtx>> /\ cb # "none"
        /\ cb' = "none" \/ UNCHANGED <<cb, cb_tv>>
    BY <1>2 DEF store_usec
  <2> QED
    BY <2>1 DEF CallInv, CallTime, RcvKinds
<1>3. CASE store_count
  BY <1>3 DEF store_count, CallInv
<1>4. CASE read_clock
  BY <1>4 DEF read_clock, CallInv, CallTime
<1>5. CASE ctx_sec \/ ctx_usec \/ test_count
  BY <1>5 DEF ctx_sec, ctx_usec, test_count, CallInv, CallTime
<1>6. CASE rcv_sec \/ rcv_usec
  BY <1>6 DEF rcv_sec, rcv_usec, CallInv, CallTime
<1>7. CASE send_request \/ no_request
  <2>1. /\ UNCHANGED <<now, cb, cb_tv, lastRcv, lastCtx>> /\ pc' = "sleep"
        /\ wake' = now + 2 * Sub \/ wake' = now + (Linger + 1) * Sub
    BY <1>7 DEF send_request, no_request
  <2>2. CallTime' = CallTime
    BY <2>1 DEF CallTime
  <2>3. CASE wake' = now + 2 * Sub
    BY <1>0, <2>1, <2>2, <2>3 DEF CallInv
  <2>4. CASE wake' = now + (Linger + 1) * Sub
    <3>1. wake' \in Nat /\ wake' >= now + Sub
      BY <1>0, <2>4, Durations
    <3> QED
      BY <1>0, <2>1, <2>2, <3>1 DEF CallInv
  <2> QED
    BY <2>1, <2>3, <2>4
<1>8. CASE wake_up
  <2>1. pc = "sleep" /\ pc' = "loop" /\ now >= wake /\ UNCHANGED <<now, cb, cb_tv, lastRcv, lastCtx>>
    BY <1>8 DEF wake_up
  <2>2. cb # "log"
    BY <1>0, <2>1 DEF CallInv
  <2> QED
    BY <2>1, <2>2 DEF CallInv, CallTime
<1>9. CASE nothing_to_watch \/ context_delete \/ kill
  BY <1>9 DEF nothing_to_watch, context_delete, kill, CallInv, CallTime
<1>10. CASE time_passes
  <2>1. /\ UNCHANGED <<pc, wake, cb, cb_tv, lastRcv, lastCtx>> /\ now' = now + 1
        /\ cb # "none" => now < CallTime + Slack
    BY <1>10 DEF time_passes, CallTime
  <2>2. CallTime' = CallTime
    BY <2>1 DEF CallTime
  <2> QED
    BY <1>0, <2>1, <2>2 DEF CallInv
<1>11. CASE UNCHANGED vars
  BY <1>11 DEF vars, CallInv, CallTime
<1> QED
  BY <1>1, <1>2, <1>3, <1>4, <1>5, <1>6, <1>7, <1>8, <1>9, <1>10, <1>11 DEF Next

LEMMA LaterType ==
  ASSUME NEW a \in Nat, NEW b \in Nat
  PROVE  Later(a, b) \in Nat /\ a <= Later(a, b) /\ b <= Later(a, b)
  BY DEF Later

LEMMA LaterGrows ==
  ASSUME NEW a \in Nat, NEW b \in Nat, NEW c \in Nat, NEW d \in Nat, a <= c, b <= d
  PROVE  Later(a, b) <= Later(c, d)
  BY DEF Later

LEMMA SignStep ==
  TypeInv /\ PaceInv /\ NapInv /\ CallInv /\ SharedInv /\ SignInv /\ [Next]_vars => SignInv'
<1> SUFFICES ASSUME TypeInv, PaceInv, NapInv, CallInv, SharedInv, SignInv, [Next]_vars PROVE SignInv'
  OBVIOUS
<1> USE DEF flagVars, sharedVars, passVars, cbVars, eventVars, Here
<1>0. /\ Slack \in Nat /\ QueryTime \in Nat /\ now \in Nat /\ wake \in Nat /\ up \in Nat
      /\ lastCtx \in Nat /\ lastRcv \in Nat /\ lastEnd \in Nat /\ lastReq \in Nat
      /\ lastEnd <= now /\ lastReq <= now /\ lastRcv <= now
  BY TimeAssumption DEF TypeInv, NapInv
<1>a. RcvSince \in Nat
  BY <1>0, LaterType DEF RcvSince
<1>b. ASSUME NEW t \in Nat, NEW s \in Nat, t <= s PROVE t <= QueryTime + s
  BY <1>0, <1>b
<1>1. CASE callback
  <2>1. PICK kind \in Kinds :
          /\ Occurs(kind)
          /\ up' = up + (IF kind = "bos" THEN 1 ELSE IF kind = "eos" THEN -1 ELSE 0)
          /\ lastCtx' = IF kind = "tir" THEN now ELSE lastCtx
          /\ lastRcv' = IF kind \in RcvKinds THEN now ELSE lastRcv
          /\ lastEnd' = IF kind = "eos" /\ up = 1 THEN now ELSE lastEnd
          /\ raced' = IF Awake THEN raced \cup {kind} ELSE raced
    BY <1>1 DEF callback
  <2>2. UNCHANGED <<now, pc, wake, lastReq>> /\ (Awake' <=> Awake)
    BY <1>1 DEF callback, Awake
  <2>6. raced' \subseteq Kinds
    BY <2>1 DEF SignInv
  <2>3. Awake /\ "tir" \in raced' => wake <= lastCtx' + Slack
    BY <1>0, <2>1 DEF NapInv, SignInv
  <2>4. Awake /\ ~Unheard' => wake <= lastRcv' + Slack
    BY <1>0, <2>1 DEF NapInv, SignInv, Unheard
  <2>5. ASSUME up' = 0 PROVE lastRcv' <= QueryTime + RcvSince'
    <3>1. CASE kind = "nosrc"
      <4>1. now <= QueryTime + RcvSince /\ RcvSince' = RcvSince
        BY <1>0, <2>1, <2>2, <3>1 DEF Occurs, RcvSince, Later
      <4> QED
        BY <2>1, <3>1, <4>1 DEF RcvKinds
    <3>2. CASE kind = "eos"
      <4>1. lastEnd' = now /\ lastRcv' = now
        BY <1>0, <2>1, <2>5, <3>2 DEF RcvKinds
      <4>2. now <= RcvSince' /\ RcvSince' \in Nat
        BY <1>0, <2>2, <4>1, LaterType DEF RcvSince
      <4> QED
        BY <1>0, <1>b, <4>1, <4>2
    <3>3. CASE kind \in {"bos", "data"}
      <4>1. kind = "bos" => up' = up + 1
        BY <2>1
      <4>2. kind = "data" => up > 0 /\ up' = up
        BY <1>0, <2>1 DEF Occurs
      <4> QED
        BY <1>0, <2>5, <3>3, <4>1, <4>2
    <3>4. CASE kind \in {"tir", "log"}
      <4>1. UNCHANGED <<lastRcv, lastEnd, up>>
        BY <1>0, <2>1, <3>4 DEF RcvKinds
      <4> QED
        BY <2>2, <2>5, <4>1 DEF SignInv, RcvSince
    <3> QED
      BY <3>1, <3>2, <3>3, <3>4 DEF Kinds, RcvKinds
  <2> QED
    BY <2>2, <2>3, <2>4, <2>5, <2>6 DEF SignInv
<1>2. CASE store_usec \/ store_count
  BY <1>2 DEF store_usec, store_count, SignInv, Awake, Unheard, RcvSince
<1>3. CASE read_clock
  <2>1. /\ pc = "loop" /\ raced' = IF cb = "none" THEN {} ELSE {cb}
        /\ UNCHANGED <<wake, up, lastCtx, lastRcv, lastEnd, lastReq>>
    BY <1>3 DEF read_clock
  <2>2. wake <= now
    BY <2>1 DEF PaceInv
  <2>3. "tir" \in raced' => wake <= lastCtx + Slack
    BY <1>0, <2>1, <2>2 DEF CallInv
  <2>4. ~Unheard' => wake <= lastRcv + Slack
    BY <1>0, <2>1, <2>2 DEF CallInv, Unheard, RcvKinds
  <2>5. raced' \subseteq Kinds
    BY <2>1 DEF SharedInv
  <2> QED
    BY <2>1, <2>3, <2>4, <2>5 DEF SignInv, RcvSince
<1>4. CASE ctx_sec \/ ctx_usec \/ test_count
  BY <1>4 DEF ctx_sec, ctx_usec, test_count, SignInv, Awake, Unheard, RcvSince
<1>5. CASE rcv_sec \/ rcv_usec
  BY <1>5 DEF rcv_sec, rcv_usec, SignInv, Awake, Unheard, RcvSince
<1>6. CASE send_request \/ nothing_to_watch
  <2>1. ~Awake' /\ lastReq' = now /\ UNCHANGED <<up, lastRcv, lastEnd>>
    BY <1>6 DEF send_request, nothing_to_watch, Awake
  <2>2. RcvSince' = Later(lastEnd, now)
    BY <2>1 DEF RcvSince
  <2>3. now <= RcvSince' /\ RcvSince' \in Nat
    BY <1>0, <2>2, LaterType
  <2>4. lastRcv <= RcvSince'
    BY <1>0, <2>3
  <2>5. lastRcv' <= QueryTime + RcvSince'
    BY <1>0, <1>b, <2>1, <2>3, <2>4
  <2>6. raced' \subseteq Kinds
    BY <1>6 DEF send_request, nothing_to_watch, pass_ends, SignInv
  <2> QED
    BY <2>1, <2>5, <2>6 DEF SignInv
<1>7. CASE no_request \/ wake_up \/ context_delete \/ kill
  BY <1>7 DEF no_request, wake_up, context_delete, kill, pass_ends, SignInv, Awake, Unheard, RcvSince
<1>8. CASE time_passes
  BY <1>8 DEF time_passes, SignInv, Awake, Unheard, RcvSince
<1>9. CASE UNCHANGED vars
  BY <1>9 DEF vars, SignInv, Awake, Unheard, RcvSince
<1> QED
  BY <1>1, <1>2, <1>3, <1>4, <1>5, <1>6, <1>7, <1>8, <1>9 DEF Next

(* A pass that raises no alarm has found a sign of life.                    *)
LEMMA CtxFound ==
  ASSUME Slack < Sub, TypeInv, SharedInv, ClockInv, CtxFlagInv, SignInv,
         pc = "decide", "S" \in opts, c_tmo_flag # 1, "log" \notin raced
  PROVE  wake < lastCtx + CtxLimit
<1>0. Awake /\ wake \in Nat /\ lastCtx \in Nat /\ Slack \in Nat /\ CtxLimit \in Nat /\ CtxLimit >= Sub
      /\ Sub \in Nat
  BY Durations DEF TypeInv, Awake
<1>1. CASE "tir" \in raced
  <2>1. wake <= lastCtx + Slack
    BY <1>0, <1>1 DEF SignInv
  <2> QED
    BY <1>0, <2>1
<1>2. CASE "tir" \notin raced
  <2>1. Undisturbed
    BY <1>0, <1>2 DEF Undisturbed
  <2>2. ~CtxDue
    BY <2>1 DEF CtxFlagInv
  <2>3. Clock \in Nat /\ cur_tv = tv(Clock) /\ wake <= Clock
    BY <1>0 DEF ClockInv
  <2>4. SinceClock(lastCtx) = Clock - lastCtx
    BY <1>0, <2>3, Elapsed
  <2>5. ~(Clock - lastCtx >= CtxLimit)
    BY <2>2, <2>4 DEF CtxDue, CtxLimit
  <2> QED
    BY <1>0, <2>3, <2>5
<1> QED
  BY <1>1, <1>2

LEMMA RcvFound ==
  ASSUME Slack < Sub, TypeInv, SharedInv, ClockInv, RcvFlagInv, SignInv,
         pc = "decide", Receiver(opts), up = 0, r_tmo_flag # 1, "log" \notin raced
  PROVE  wake < lastRcv + RcvLimit
<1>0. Awake /\ wake \in Nat /\ lastRcv \in Nat /\ Slack \in Nat /\ RcvLimit \in Nat /\ RcvLimit >= Sub
      /\ Sub \in Nat
  BY Durations, RcvLimitType DEF TypeInv, Awake
<1>1. CASE ~Unheard
  <2>1. wake <= lastRcv + Slack
    BY <1>0, <1>1 DEF SignInv
  <2> QED
    BY <1>0, <2>1
<1>2. CASE Unheard
  <2>1. raced \subseteq {"tir"}
    BY <1>2 DEF SignInv, Unheard, Kinds
  <2>2. ASSUME Quiet PROVE ~RcvDue
    BY <1>2, <2>2 DEF RcvFlagInv
  <2>3. Clock \in Nat /\ cur_tv = tv(Clock) /\ wake <= Clock
    BY <1>0 DEF ClockInv
  <2>4. SinceClock(lastRcv) = Clock - lastRcv
    BY <1>0, <2>3, Elapsed
  <2>5. Quiet
    BY <1>0, <1>2, <2>1 DEF Quiet, SignInv
  <2>6. ~(Clock - lastRcv >= RcvLimit)
    BY <2>2, <2>4, <2>5 DEF RcvDue
  <2> QED
    BY <1>0, <2>3, <2>6
<1> QED
  BY <1>1, <1>2

(* One step keeps the deadline of a since that only grows.                  *)
LEMMA InTimeStep ==
  ASSUME TypeInv, PaceInv, NapInv, CallInv, [Next]_vars, "D" \notin opts,
         NEW since \in Nat, NEW later \in Nat, NEW limit \in Nat,
         since <= later, InTime(since, limit),
         no_request /\ "log" \notin raced => wake < since + limit,
         send_request => now <= later, limit > 0
  PROVE  InTime(later, limit)'
<1> USE DEF flagVars, sharedVars, passVars, cbVars, eventVars, Here
<1>0. /\ Slack \in Nat /\ Nap \in Nat /\ Period \in Nat /\ Period = Nap + 2 * Slack /\ 2 * Slack \in Nat
      /\ now \in Nat /\ wake \in Nat /\ logs \in Nat
  BY Durations DEF TypeInv, NapInv
<1>a. Spent \in Nat /\ (logs + 1) * Period = Spent + Period
  BY <1>0 DEF Spent
<1>b. Awake <=> pc \in Passing
  BY DEF TypeInv, Awake, Passing
<1>1. CASE callback
  <2>1. PICK kind \in Kinds :
          /\ Occurs(kind)
          /\ logs' = IF kind = "log" THEN logs + 1 ELSE logs
          /\ raced' = IF Awake THEN raced \cup {kind} ELSE raced
    BY <1>1 DEF callback
  <2>2. UNCHANGED <<pc, wake>> /\ (Awake' <=> Awake)
    BY <1>1 DEF callback, Awake
  <2>3. CASE kind = "log"
    <3>1. Spent' = Spent + Period /\ Awake
      BY <1>a, <2>1, <2>3 DEF Spent, Occurs
    <3> QED
      BY <1>0, <1>a, <1>b, <2>2, <3>1 DEF InTime, Passing
  <2>4. CASE kind # "log"
    <3>1. Spent' = Spent /\ ("log" \in raced' => "log" \in raced)
      BY <2>1, <2>4 DEF Spent
    <3> QED
      BY <1>0, <1>a, <2>2, <3>1 DEF InTime
  <2> QED
    BY <2>3, <2>4
<1>2. CASE store_usec \/ store_count
  <2>1. UNCHANGED <<pc, wake, logs, raced>>
    BY <1>2 DEF store_usec, store_count
  <2> QED
    BY <1>0, <1>a, <2>1 DEF InTime, Spent, Awake
<1>3. CASE read_clock
  <2>1. /\ pc = "loop" /\ pc' \in {"ctx_sec", "rcv"} /\ UNCHANGED <<wake, logs>>
        /\ raced' = IF cb = "none" THEN {} ELSE {cb}
    BY <1>3 DEF read_clock
  <2>2. "log" \notin raced'
    BY <2>1 DEF CallInv
  <2> QED
    BY <1>0, <1>a, <2>1, <2>2 DEF InTime, Spent, Awake, Passing
<1>4. CASE ctx_sec \/ ctx_usec \/ test_count \/ rcv_sec \/ rcv_usec
  <2>1. pc \in Passing /\ pc' \in Passing /\ UNCHANGED <<wake, logs, raced>>
    BY <1>4 DEF ctx_sec, ctx_usec, test_count, rcv_sec, rcv_usec, Passing
  <2> QED
    BY <1>0, <1>a, <1>b, <2>1 DEF InTime, Spent, Passing, Awake
<1>5. CASE send_request
  <2>1. pc' = "sleep" /\ wake' = now + (Linger + 1) * Sub /\ UNCHANGED logs
    BY <1>5 DEF send_request
  <2>2. wake' \in Nat /\ wake' <= now + Nap
    BY <1>0, <2>1, Durations
  <2> QED
    BY <1>0, <1>a, <1>5, <2>1, <2>2 DEF InTime, Spent, Passing, Awake
<1>6. CASE no_request
  <2>1. pc = "decide" /\ pc' = "sleep" /\ wake' = now + 2 * Sub /\ UNCHANGED logs
    BY <1>6 DEF no_request
  <2>2. wake' \in Nat /\ wake' <= now + Nap
    BY <1>0, <2>1, Durations
  <2>3. now <= wake + Slack
    BY <2>1 DEF PaceInv, Passing
  <2>4. wake < since + limit + Spent
    BY <1>0, <1>a, <1>6, <2>1 DEF InTime, Awake
  <2> QED
    BY <1>0, <1>a, <2>1, <2>2, <2>3, <2>4 DEF InTime, Spent, Passing, Awake
<1>7. CASE wake_up
  <2>1. pc = "sleep" /\ pc' = "loop" /\ wake' = now /\ UNCHANGED logs
    BY <1>7 DEF wake_up
  <2>2. now <= wake + Slack
    BY <2>1 DEF NapInv
  <2> QED
    BY <1>0, <1>a, <2>1, <2>2 DEF InTime, Spent, Passing, Awake
<1>8. CASE nothing_to_watch \/ context_delete \/ kill
  <2>1. pc' \in {"linger", "ended"}
    BY <1>8 DEF nothing_to_watch, context_delete, kill
  <2> QED
    BY <2>1 DEF InTime, Passing, Awake
<1>9. CASE time_passes
  BY <1>0, <1>a, <1>9 DEF time_passes, InTime, Spent, Awake
<1>10. CASE UNCHANGED vars
  BY <1>0, <1>a, <1>10 DEF vars, InTime, Spent, Awake
<1> QED
  BY <1>1, <1>2, <1>3, <1>4, <1>5, <1>6, <1>7, <1>8, <1>9, <1>10 DEF Next

LEMMA InTimeInvStep ==
  ASSUME Slack < Sub
  PROVE  TypeInv /\ PaceInv /\ SharedInv /\ ClockInv /\ CtxFlagInv /\ RcvFlagInv
           /\ NapInv /\ CallInv /\ SignInv /\ InTimeInv /\ [Next]_vars => InTimeInv'
<1> SUFFICES ASSUME TypeInv, PaceInv, SharedInv, ClockInv, CtxFlagInv, RcvFlagInv, NapInv,
                    CallInv, SignInv, InTimeInv, [Next]_vars
             PROVE  InTimeInv'
  OBVIOUS
<1>1. UNCHANGED <<opts, tqr_sustain_duration>>
  BY DEF Next, vars, flagVars, Here, callback, store_usec, store_count, read_clock, ctx_sec,
         ctx_usec, test_count, rcv_sec, rcv_usec, send_request, no_request, wake_up,
         nothing_to_watch, context_delete, kill, time_passes
<1>2. /\ now \in Nat /\ wake \in Nat /\ lastCtx \in Nat /\ lastRcv \in Nat
      /\ lastEnd \in Nat /\ lastReq \in Nat /\ lastCtx <= now /\ lastReq <= now
      /\ lastEnd <= now /\ QueryTime \in Nat /\ up \in Nat
      /\ Slack \in Nat /\ Sub > 0 /\ Sub \in Nat
  BY TimeAssumption DEF TypeInv, NapInv
<1>3. /\ lastCtx' \in Nat /\ lastCtx <= lastCtx'
      /\ lastEnd' \in Nat /\ lastEnd <= lastEnd'
      /\ lastReq' \in Nat /\ lastReq <= lastReq'
  <2>1. /\ lastCtx' \in {lastCtx, now} /\ lastEnd' \in {lastEnd, now}
        /\ lastReq' \in {lastReq, now}
    BY DEF Next, vars, eventVars, Here, callback, store_usec, store_count, read_clock, ctx_sec,
           ctx_usec, test_count, rcv_sec, rcv_usec, send_request, no_request, wake_up,
           nothing_to_watch, context_delete, kill, time_passes
  <2> QED
    BY <1>2, <2>1
<1>4. send_request => lastReq' = now
  BY DEF send_request
<1>5. "D" \notin opts /\ no_request => pc = "decide" /\ c_tmo_flag # 1 /\ r_tmo_flag # 1
  BY DEF no_request, Fires
<1>6. CtxLimit \in Nat /\ CtxLimit > 0 /\ RcvLimit \in Nat /\ RcvLimit > 0
  BY <1>2, Durations, RcvLimitType
<1>7. ASSUME "D" \notin opts, "S" \in opts PROVE InTime(CtxSince, CtxLimit)'
  <2>a. CtxSince \in Nat /\ CtxSince' \in Nat
    BY <1>2, <1>3, LaterType DEF CtxSince
  <2>b. PICK since \in Nat : since = CtxSince
    BY <2>a
  <2>c. PICK later \in Nat : later = CtxSince'
    BY <2>a
  <2>1. since <= later /\ lastCtx <= since
    BY <1>2, <1>3, <2>b, <2>c, LaterType, LaterGrows DEF CtxSince
  <2>2. InTime(since, CtxLimit)
    BY <1>1, <1>7, <2>b DEF InTimeInv
  <2>3. no_request /\ "log" \notin raced => wake < since + CtxLimit
    <3>1. no_request /\ "log" \notin raced => wake < lastCtx + CtxLimit
      BY <1>5, <1>7, CtxFound
    <3> QED
      BY <1>2, <1>6, <2>1, <3>1
  <2>4. send_request => now <= later
    BY <1>2, <1>3, <1>4, <2>c, LaterType DEF CtxSince
  <2>5. InTime(later, CtxLimit)'
    BY <1>6, <1>7, <2>b, <2>c, <2>1, <2>2, <2>3, <2>4, InTimeStep
  <2> QED
    BY <2>5, <2>c DEF InTime, CtxLimit
<1>8. ASSUME "D" \notin opts, Receiver(opts), up' = 0
      PROVE  InTime(RcvSince, QueryTime + RcvLimit)'
  <2>a. RcvSince \in Nat /\ RcvSince' \in Nat
    BY <1>2, <1>3, LaterType DEF RcvSince
  <2>b. PICK since \in Nat : since = RcvSince
    BY <2>a
  <2>c. PICK later \in Nat : later = RcvSince'
    BY <2>a
  <2>d. PICK limit \in Nat : limit = QueryTime + RcvLimit
    BY <1>2, <1>6
  <2>1. since <= later /\ lastEnd' <= later
    BY <1>2, <1>3, <2>b, <2>c, LaterType, LaterGrows DEF RcvSince
  <2>2. limit > 0 /\ (QueryTime + RcvLimit)' = limit
    <3>1. RcvLimit' = RcvLimit
      BY <1>1 DEF RcvLimit, RcvTimeout
    <3> QED
      BY <1>2, <1>6, <2>d, <3>1
  <2>3. CASE up = 0
    <3>1. InTime(since, limit)
      BY <1>1, <1>8, <2>3, <2>b, <2>d DEF InTimeInv
    <3>2. no_request /\ "log" \notin raced => wake < since + limit
      <4>1. no_request /\ "log" \notin raced => wake < lastRcv + RcvLimit
        BY <1>5, <1>8, <2>3, RcvFound
      <4>2. lastRcv <= QueryTime + since
        BY <2>3, <2>b DEF SignInv
      <4> QED
        BY <1>2, <1>6, <2>d, <4>1, <4>2
    <3>3. send_request => now <= later
      BY <1>2, <1>3, <1>4, <2>c, LaterType DEF RcvSince
    <3>4. InTime(later, limit)'
      BY <1>8, <2>b, <2>c, <2>d, <2>1, <2>2, <3>1, <3>2, <3>3, InTimeStep
    <3> QED
      BY <2>2, <2>c, <3>4 DEF InTime
  <2>4. CASE up # 0
    <3>1. callback
      BY <1>8, <2>4 DEF Next, vars, eventVars, Here, store_usec, store_count, read_clock, ctx_sec,
         ctx_usec, test_count, rcv_sec, rcv_usec, send_request, no_request, wake_up,
         nothing_to_watch, context_delete, kill, time_passes
    <3>2. PICK kind \in Kinds :
            /\ up' = up + (IF kind = "bos" THEN 1 ELSE IF kind = "eos" THEN -1 ELSE 0)
            /\ lastEnd' = IF kind = "eos" /\ up = 1 THEN now ELSE lastEnd
            /\ logs' = IF kind = "log" THEN logs + 1 ELSE logs
      BY <3>1 DEF callback
    <3>3. kind = "eos" /\ up = 1
      BY <1>2, <1>8, <2>4, <3>2
    <3>4. lastEnd' = now /\ logs' = logs /\ UNCHANGED <<pc, wake, now>>
      BY <3>1, <3>2, <3>3 DEF callback
    <3>5. now <= later
      BY <2>1, <3>4
    <3>6. /\ Nap \in Nat /\ Period \in Nat /\ Period = Nap + 2 * Slack /\ 2 * Slack \in Nat
          /\ Spent' \in Nat
      BY <3>4, Durations DEF NapInv, Spent
    <3>7. /\ pc \in Passing \cup {"loop"} => wake <= now
          /\ pc = "sleep" => wake <= now + Nap
          /\ Awake' => pc \in Passing
      BY <3>4 DEF PaceInv, NapInv, Passing, Awake, TypeInv
    <3>8. /\ pc \in Passing \cup {"loop"} => wake < later + limit + Spent' + Period
          /\ Awake' => wake < later + limit + Spent'
          /\ pc = "sleep" => wake + Slack < later + limit + Spent' + Period
      BY <1>2, <2>c, <2>d, <2>2, <3>5, <3>6, <3>7
    <3>9. InTime(later, limit)'
      BY <3>4, <3>8 DEF InTime
    <3> QED
      BY <2>2, <2>c, <3>9 DEF InTime
  <2> QED
    BY <2>3, <2>4
<1> QED
  BY <1>1, <1>7, <1>8 DEF InTimeInv, Receiver

-----------------------------------------------------------------------------
Inductive ==
  TypeInv /\ PaceInv /\ SharedInv /\ ClockInv /\ CtxFlagInv /\ RcvFlagInv

LEMMA Invariant ==
  ASSUME 1 \notin Garbage
  PROVE  Spec => []Inductive
<1>1. Init => Inductive
  <2>1. Init => ClockInv /\ CtxFlagInv /\ RcvFlagInv
    BY DEF Init, ClockInv, CtxFlagInv, RcvFlagInv, Undisturbed, Quiet, Awake, Unheard
  <2> QED
    BY <2>1, TypeInit, SharedInit DEF Inductive
<1>2. Inductive /\ [Next]_vars => Inductive'
  BY TypeStep, SharedStep, ClockStep, CtxFlagStep, RcvFlagStep DEF Inductive
<1> QED
  BY <1>1, <1>2, PTL DEF Spec

(* AlarmExact: a pass of main() that no callback runs into raises the      *)
(* alarm for the advertisements exactly when they have been missing for a  *)
(* second more than the timeout, and the one for the receiver only when    *)
(* its messages have, and always if no session is up; for every timeout,   *)
(* every resolution of the clock and every lateness of the passes.  It     *)
(* assumes that the uninitialised rcv_loop_flag is not read as 1.          *)
THEOREM AlarmsExact ==
  ASSUME 1 \notin Garbage
  PROVE  Spec => []AlarmExact
<1>1. Inductive => AlarmExact
  <2> SUFFICES ASSUME Inductive, pc = "decide", raced = {}
               PROVE  /\ c_tmo_flag = 1 <=> CtxDue
                      /\ r_tmo_flag = 1 <=> Receiver(opts) /\ up = 0 /\ RcvDue
    BY DEF AlarmExact, CtxDue, RcvDue, RcvLimit, RcvSilent
  <2>1. Undisturbed /\ Quiet /\ Unheard
    BY DEF Undisturbed, Quiet, Awake, Unheard
  <2> QED
    BY <2>1 DEF Inductive, CtxFlagInv, RcvFlagInv, Alone
<1> QED
  BY <1>1, Invariant, PTL

(* EndNotEarly: data and ends of sessions that run into a pass never make  *)
(* it raise an alarm of the receiver that is not due.  It assumes that a   *)
(* pass and a callback take less than a second.                            *)
THEOREM EndsNotEarly ==
  ASSUME 1 \notin Garbage, Slack < Sub
  PROVE  Spec => []EndNotEarly
<1>1. Inductive => EndNotEarly
  <2> SUFFICES ASSUME Inductive, pc = "decide", raced \subseteq {"data", "eos"}, r_tmo_flag = 1
               PROVE  up = 0 /\ SinceClock(lastEnd) >= RcvLimit
    BY DEF EndNotEarly, RcvLimit
  <2>1. Quiet
    BY DEF Quiet, Awake
  <2>2. Alone /\ SinceClock(lastRcv) >= RcvLimit
    BY <2>1 DEF Inductive, RcvFlagInv, RcvDue
  <2>3. /\ Clock \in Nat /\ cur_tv = tv(Clock)
        /\ lastRcv \in Nat /\ lastEnd \in Nat /\ lastEnd <= lastRcv
    BY <2>1, <2>2, QuietReads DEF Inductive, Alone, TypeInv
  <2>4. RcvLimit \in Int
    BY TimeAssumption DEF Inductive, TypeInv, RcvLimit, RcvTimeout
  <2>5. SinceClock(lastEnd) >= RcvLimit
    BY <2>2, <2>3, <2>4, Elapsed
  <2> QED
    BY <2>2, <2>5 DEF Alone
<1> QED
  BY <1>1, Invariant, PTL

(* What NoticedInTime rests on besides.                                     *)
Timely == Inductive /\ NapInv /\ CallInv /\ SignInv /\ InTimeInv

LEMMA TimelyInit == 1 \notin Garbage /\ Init => Timely
<1> SUFFICES ASSUME 1 \notin Garbage, Init PROVE Timely
  OBVIOUS
<1>1. Inductive
  <2>1. ClockInv /\ CtxFlagInv /\ RcvFlagInv
    BY DEF Init, ClockInv, CtxFlagInv, RcvFlagInv, Undisturbed, Quiet, Awake, Unheard
  <2> QED
    BY <2>1, TypeInit, SharedInit DEF Inductive
<1>2. /\ now = 0 /\ pc = "loop" /\ wake = 0 /\ cb = "none" /\ lastCtx = 0 /\ lastRcv = 0
      /\ lastEnd = 0 /\ lastReq = 0 /\ logs = 0 /\ raced = {} /\ ~Awake
  BY DEF Init, Awake
<1>3. NapInv /\ CallInv
  BY <1>2 DEF NapInv, CallInv
<1>4. CtxSince = 0 /\ RcvSince = 0
  BY <1>2 DEF CtxSince, RcvSince, Later
<1>5. SignInv
  BY <1>2, <1>4, TimeAssumption DEF SignInv
<1>6. /\ QueryTime + RcvLimit \in Nat /\ QueryTime + RcvLimit > 0
      /\ CtxLimit \in Nat /\ CtxLimit > 0 /\ Period \in Nat /\ Spent = 0
  <2>1. /\ RcvLimit \in Nat /\ RcvLimit >= Sub /\ Sub > 1 /\ Sub \in Nat /\ QueryTime \in Nat
        /\ CtxLimit \in Nat /\ CtxLimit >= Sub /\ Period \in Nat
    BY <1>1, RcvLimitType, Durations, TimeAssumption DEF Inductive
  <2>2. Spent = 0
    BY <1>2, <2>1 DEF Spent
  <2> QED
    BY <2>1, <2>2
<1>7. ASSUME NEW limit \in Nat, limit > 0 PROVE InTime(0, limit)
  BY <1>2, <1>6, <1>7 DEF InTime
<1>8. InTimeInv
  BY <1>4, <1>6, <1>7 DEF InTimeInv
<1> QED
  BY <1>1, <1>3, <1>5, <1>8 DEF Timely

LEMMA TimelyBounds == Timely => NoticedInTime
<1> SUFFICES ASSUME Timely, "D" \notin opts, pc # "ended"
             PROVE  /\ "S" \in opts =>
                         now - CtxSince < CtxLimit + (1 + logs) * Period + Pass
                    /\ Receiver(opts) /\ up = 0 =>
                         now - RcvSince < QueryTime + RcvLimit + (1 + logs) * Period + Pass
  BY DEF NoticedInTime, CtxSince, RcvSince, CtxLimit, RcvLimit
<1>0. /\ now \in Nat /\ wake \in Nat /\ Slack \in Nat /\ Period \in Nat /\ logs \in Nat
      /\ CtxLimit \in Nat /\ RcvLimit \in Nat /\ QueryTime \in Nat
  BY Durations, RcvLimitType, TimeAssumption DEF Timely, Inductive, TypeInv, NapInv
<1>1. Spent \in Nat /\ (1 + logs) * Period = Spent + Period
  BY <1>0 DEF Spent
<1>2. ASSUME NEW since \in Nat, NEW limit \in Nat, InTime(since, limit), pc # "linger"
      PROVE  now - since < limit + (1 + logs) * Period + Pass
  <2>1. pc \in Passing \cup {"loop", "sleep"}
    BY <1>2 DEF Timely, Inductive, TypeInv
  <2>2. now <= wake + Slack
    BY <2>1 DEF Timely, Inductive, PaceInv, NapInv
  <2>3. CASE pc = "sleep"
    <3>1. wake + Slack < since + limit + Spent + Period
      BY <1>2, <2>3 DEF InTime
    <3> QED
      BY <1>0, <1>1, <2>2, <3>1 DEF Pass
  <2>4. CASE pc # "sleep"
    <3>1. wake < since + limit + Spent + Period
      BY <1>2, <2>1, <2>4 DEF InTime
    <3> QED
      BY <1>0, <1>1, <2>2, <3>1 DEF Pass
  <2> QED
    BY <2>3, <2>4
<1>3. CtxSince \in Nat /\ RcvSince \in Nat
  BY LaterType DEF Timely, Inductive, TypeInv, NapInv, CtxSince, RcvSince
<1>4. ASSUME "S" \in opts
      PROVE  now - CtxSince < CtxLimit + (1 + logs) * Period + Pass
  <2>1. InTime(CtxSince, CtxLimit) /\ pc # "linger"
    BY <1>4 DEF Timely, InTimeInv, NapInv
  <2> QED
    BY <1>0, <1>2, <1>3, <2>1
<1>5. ASSUME Receiver(opts), up = 0
      PROVE  now - RcvSince < QueryTime + RcvLimit + (1 + logs) * Period + Pass
  <2>1. InTime(RcvSince, QueryTime + RcvLimit) /\ pc # "linger"
    BY <1>5 DEF Timely, InTimeInv, NapInv
  <2>2. QueryTime + RcvLimit \in Nat
    BY <1>0
  <2> QED
    BY <1>2, <1>3, <2>1, <2>2
<1> QED
  BY <1>4, <1>5

(* NoticedInTime: without -D, once the advertisements stop, or the last     *)
(* session of the topic has ended, a request follows, and another and       *)
(* another: before the timeout and a second, for the topic the time UM      *)
(* itself reports no source, a period for the pass and one for each log     *)
(* message, and a pass have gone.  Silence with a session up is not         *)
(* covered.  It needs a pass and a callback that take less than a second.   *)
THEOREM SilenceIsNoticed ==
  ASSUME 1 \notin Garbage, Slack < Sub
  PROVE  Spec => []NoticedInTime
<1>1. Init => Timely
  BY TimelyInit
<1>2. Timely /\ [Next]_vars => Timely'
  BY TypeStep, SharedStep, ClockStep, CtxFlagStep, RcvFlagStep, NapStep, CallStep, SignStep,
     InTimeInvStep DEF Timely, Inductive
<1> QED
  BY <1>1, <1>2, TimelyBounds, PTL DEF Spec
=============================================================================
