--------------------------- MODULE Monitor_proofs ---------------------------
(***************************************************************************)
(* Proofs about the schedule, for every period, target minute and guard,   *)
(* and about the ring, for every size, threshold and window.               *)
(***************************************************************************)
EXTENDS Monitor, FiniteSetTheorems, WellFoundedInduction, TLAPS

(***************************************************************************)
(* Target minutes                                                          *)
(***************************************************************************)

LEMMA DivMod ==
  ASSUME NEW t \in Nat
  PROVE  /\ t \div Period \in Nat /\ t % Period \in 0 .. Period - 1
         /\ t = (t \div Period) * Period + (t % Period)
  BY ClockAssumption

LEMMA StartIsInt == ASSUME NEW w \in Int PROVE MinuteStart(w) \in Int
  BY ClockAssumption DEF MinuteStart

LEMMA MinuteBounds ==
  ASSUME NEW t \in Nat, InMinute(t)
  PROVE  /\ MinuteOf(t) \in Nat
         /\ MinuteStart(MinuteOf(t)) <= t /\ t < MinuteStart(MinuteOf(t)) + Minute
<1> DEFINE p == (t \div Period) * Period
           r == t % Period
<1>1. p \in Int /\ r \in Target .. Target + Minute - 1 /\ t = p + r
  BY DivMod, ClockAssumption DEF InMinute
<1>2. MinuteStart(MinuteOf(t)) = p + Target /\ MinuteOf(t) \in Nat
  BY DivMod DEF MinuteStart, MinuteOf
<1> HIDE DEF p, r
<1> QED
  BY <1>1, <1>2, ClockAssumption

LEMMA RemainderUnique ==
  ASSUME NEW w \in Nat, NEW r \in 0 .. Period - 1
  PROVE  (w * Period + r) % Period = r
  BY ClockAssumption

LEMMA InItsMinute ==
  ASSUME NEW t \in Nat, NEW w \in Nat,
         MinuteStart(w) <= t, t < MinuteStart(w) + Minute
  PROVE  InMinute(t)
<1> DEFINE r == t - w * Period
<1>1. w * Period \in Int
  BY ClockAssumption
<1>2. r \in Target .. Target + Minute - 1 /\ r \in 0 .. Period - 1 /\ t = w * Period + r
  BY <1>1, ClockAssumption DEF MinuteStart
<1>3. t % Period = r
  BY <1>2, RemainderUnique
<1> QED
  BY <1>2, <1>3 DEF InMinute

(***************************************************************************)
(* The schedule                                                            *)
(***************************************************************************)

Minutes == {w \in Epoch \div Period .. Last \div Period : MinuteStart(w) + Minute > Epoch}

Covered(w) == w \in begun \cup away

(* The loop is behind the decision of a pass, and goes on.                 *)
Decided == pc = "sleep" \/ (pc = "tail" /\ g_running = 1)

TimesOK ==
  /\ pc \in {"read", "due", "tail", "sleep", "left"} /\ type \in {"minute", "interval"}
  /\ now \in Epoch .. Last /\ g_last_maint_time \in 0 .. Last

(* What the times of a cycle say of the target minutes: one that has been  *)
(* used began before the last cycle ended; and one that is over, or whose  *)
(* cycle the guard of the last one forbids, has been used or may be missed.*)
ScheduleInv ==
  /\ TimesOK
  /\ type = "minute" =>
       /\ \A w \in begun : w \in Nat /\ MinuteStart(w) < g_last_maint_time
       /\ \A w \in Minutes : MinuteStart(w) + Minute <= now => Covered(w)
       /\ g_last_maint_time # 0 =>
            \A w \in Minutes : MinuteStart(w) <= g_last_maint_time + Guard => Covered(w)
       /\ Decided => \A w \in Minutes : MinuteStart(w) <= now => Covered(w)
  /\ type = "interval" =>
       /\ Decided => g_last_maint_time # 0 /\ now - g_last_maint_time < Interval
       /\ pc \in {"read", "due"} =>
            g_last_maint_time = 0 \/ now - g_last_maint_time < Interval + Poll

(* How far an interval is exceeded by a pass that ends at t.               *)
LEMMA Exceeded ==
  ASSUME NEW t0 \in Nat, NEW t \in Nat, NEW m \in Nat, t0 - m < Interval
  PROVE  /\ t <= t0 => t - m < Interval
         /\ t <= t0 + Poll => t - m < Interval + Poll
  BY ClockAssumption

LEMMA NothingExceeded == ASSUME NEW t \in Nat PROVE t - t < Interval
  BY ClockAssumption

LEMMA MinutesAreNats == ASSUME NEW w \in Minutes PROVE w \in Nat /\ MinuteStart(w) \in Int
<1>1. Epoch \div Period \in Nat /\ Last \div Period \in Nat
  BY DivMod, ClockAssumption
<1> QED
  BY <1>1, StartIsInt DEF Minutes

LEMMA ScheduleInit == Init => ScheduleInv
<1> SUFFICES ASSUME Init PROVE ScheduleInv
  OBVIOUS
<1>1. TimesOK
  BY ClockAssumption DEF Init, TimesOK
<1>2. \A w \in Minutes : ~ (MinuteStart(w) + Minute <= now)
  BY MinutesAreNats, ClockAssumption DEF Init, Minutes
<1> QED
  BY <1>1, <1>2 DEF Init, ScheduleInv, Decided

LEMMA ScheduleStep == ScheduleInv /\ [Next]_vars => ScheduleInv'
<1> SUFFICES ASSUME ScheduleInv, [Next]_vars PROVE ScheduleInv'
  OBVIOUS
<1> USE ClockAssumption, MinutesAreNats DEF schedVars
<1>1. CASE process_child_line
  BY <1>1 DEF process_child_line, keyword_ring_add, ScheduleInv, TimesOK, Decided, Covered
<1>2. CASE output_read
  BY <1>2 DEF output_read, ScheduleInv, TimesOK, Decided, Covered
<1>3. CASE not_due
  <2>1. /\ pc = "due" /\ pc' = "tail" /\ ~ is_maintenance_due
        /\ UNCHANGED <<now, type, begun, away>>
    BY <1>3 DEF not_due
  <2>2. TimesOK'
    BY <1>3 DEF not_due, ScheduleInv, TimesOK
  <2>3. CASE type = "minute"
    <3>1. g_last_maint_time' = g_last_maint_time
      BY <1>3, <2>3 DEF not_due
    <3>2. ASSUME NEW w \in Minutes, MinuteStart(w) <= now PROVE Covered(w)
      <4>1. CASE MinuteStart(w) + Minute <= now
        BY <2>3, <4>1 DEF ScheduleInv
      <4>2. CASE now < MinuteStart(w) + Minute
        <5>1. InMinute(now)
          BY <3>2, <4>2, InItsMinute DEF ScheduleInv, TimesOK
        <5>2. now - g_last_maint_time <= Guard
          BY <2>1, <2>3, <5>1 DEF is_maintenance_due, ScheduleInv, TimesOK
        <5>3. g_last_maint_time # 0 /\ MinuteStart(w) <= g_last_maint_time + Guard
          BY <3>2, <5>2 DEF ScheduleInv, TimesOK
        <5> QED
          BY <2>3, <5>3 DEF ScheduleInv
      <4> QED
        BY <4>1, <4>2 DEF ScheduleInv, TimesOK
    <3> QED
      BY <2>1, <2>2, <2>3, <3>1, <3>2 DEF ScheduleInv, Decided, Covered
  <2>4. CASE type = "interval"
    <3>1. g_last_maint_time' # 0 /\ now - g_last_maint_time' < Interval
      BY <1>3, <2>1, <2>4 DEF not_due, is_maintenance_due, ScheduleInv, TimesOK
    <3> QED
      BY <2>1, <2>2, <2>4, <3>1 DEF ScheduleInv
  <2> QED
    BY <2>3, <2>4 DEF ScheduleInv, TimesOK
<1>4. CASE maintenance_succeeds
  <2>1. /\ pc = "due" /\ pc' = "tail" /\ is_maintenance_due /\ type' = type
        /\ g_last_maint_time' = now' /\ now < now'
        /\ begun' = begun \cup (IF InMinute(now) THEN {MinuteOf(now)} ELSE {})
        /\ away' = away \cup MinutesWithin(now, now' + Guard)
    BY <1>4 DEF maintenance_succeeds, ScheduleInv, TimesOK
  <2>2. TimesOK'
    BY <1>4 DEF maintenance_succeeds, ScheduleInv, TimesOK
  <2>3. ASSUME type = "minute" PROVE g_last_maint_time < now
    BY <2>1, <2>3 DEF is_maintenance_due, ScheduleInv, TimesOK
  <2>4. ASSUME type = "minute", NEW w \in begun'
        PROVE  w \in Nat /\ MinuteStart(w) < g_last_maint_time'
    <3>1. CASE w \in begun
      <4>1. w \in Nat /\ MinuteStart(w) \in Int /\ MinuteStart(w) < g_last_maint_time
        BY <2>4, <3>1, StartIsInt DEF ScheduleInv
      <4> QED
        BY <2>1, <2>2, <2>3, <2>4, <4>1 DEF ScheduleInv, TimesOK
    <3>2. CASE InMinute(now) /\ w = MinuteOf(now)
      <4>1. w \in Nat /\ MinuteStart(w) \in Int /\ MinuteStart(w) <= now
        BY <3>2, MinuteBounds, StartIsInt DEF ScheduleInv, TimesOK
      <4> QED
        BY <2>1, <2>2, <4>1 DEF ScheduleInv, TimesOK
    <3> QED
      BY <2>1, <2>4, <3>1, <3>2
  <2>5. ASSUME type = "minute", NEW w \in Minutes,
               MinuteStart(w) <= g_last_maint_time' + Guard
        PROVE  Covered(w)'
    <3>1. CASE MinuteStart(w) + Minute <= now
      BY <2>1, <2>5, <3>1 DEF ScheduleInv, Covered
    <3>2. CASE now < MinuteStart(w) + Minute
      BY <2>1, <2>5, <3>2 DEF MinutesWithin, Minutes, Covered
    <3> QED
      BY <3>1, <3>2 DEF ScheduleInv, TimesOK
  <2>6. ASSUME type = "minute", NEW w \in Minutes,
               MinuteStart(w) <= now' \/ MinuteStart(w) + Minute <= now'
        PROVE  Covered(w)'
    BY <2>1, <2>2, <2>5, <2>6 DEF TimesOK
  <2>7. g_last_maint_time' # 0 /\ now' - g_last_maint_time' < Interval
    <3>1. now' \in Nat /\ now' >= Epoch
      BY <2>2 DEF TimesOK
    <3>2. now' # 0
      BY <3>1
    <3>3. now' - now' < Interval
      BY <3>1, NothingExceeded
    <3> QED
      BY <2>1, <3>2, <3>3
  <2>8. CASE type = "minute"
    BY <2>1, <2>2, <2>4, <2>5, <2>6, <2>8 DEF ScheduleInv
  <2>9. CASE type = "interval"
    BY <2>1, <2>2, <2>7, <2>9 DEF ScheduleInv
  <2> QED
    BY <2>8, <2>9 DEF ScheduleInv, TimesOK
<1>5. CASE maintenance_fails
  BY <1>5 DEF maintenance_fails, ScheduleInv, TimesOK, Decided, Covered
<1>6. CASE loop_tail
  BY <1>6 DEF loop_tail, ScheduleInv, TimesOK, Decided, Covered
<1>7. CASE sleep
  <2>1. /\ pc = "sleep" /\ pc' = "read" /\ now' \in now + 1 .. now + Poll
        /\ UNCHANGED <<type, g_last_maint_time, begun, away>>
    BY <1>7 DEF sleep, ScheduleInv, TimesOK
  <2>2. TimesOK'
    BY <1>7 DEF sleep, ScheduleInv, TimesOK
  <2>3. ASSUME type = "minute", NEW w \in Minutes, MinuteStart(w) + Minute <= now'
        PROVE  Covered(w)
    <3>1. MinuteStart(w) <= now
      BY <2>1, <2>3 DEF ScheduleInv, TimesOK
    <3> QED
      BY <2>1, <2>3, <3>1 DEF ScheduleInv, Decided
  <2>4. ASSUME type = "interval" PROVE now' - g_last_maint_time < Interval + Poll
    <3>1. now - g_last_maint_time < Interval
      BY <2>1, <2>4 DEF ScheduleInv, Decided
    <3>2. now \in Nat /\ now' \in Nat /\ g_last_maint_time \in Nat
      BY <2>2 DEF ScheduleInv, TimesOK
    <3>3. now' <= now + Poll
      BY <2>1, <3>2
    <3> QED
      BY <3>1, <3>2, <3>3, Exceeded
  <2> QED
    BY <2>1, <2>2, <2>3, <2>4 DEF ScheduleInv, Decided, Covered
<1>8. CASE clock_set_back
  <2>1. /\ pc = "sleep" /\ pc' = pc /\ now' \in Epoch .. now - 1
        /\ UNCHANGED <<type, g_last_maint_time, begun, away>>
    BY <1>8 DEF clock_set_back
  <2>2. TimesOK'
    BY <2>1 DEF ScheduleInv, TimesOK
  <2>3. ASSUME NEW w \in Minutes, MinuteStart(w) <= now' \/ MinuteStart(w) + Minute <= now'
        PROVE  MinuteStart(w) <= now
    BY <2>1, <2>3 DEF ScheduleInv, TimesOK
  <2>4. ASSUME type = "interval"
        PROVE  g_last_maint_time # 0 /\ now' - g_last_maint_time < Interval
    <3>1. g_last_maint_time # 0 /\ now - g_last_maint_time < Interval
      BY <2>1, <2>4 DEF ScheduleInv, Decided
    <3>2. now \in Nat /\ now' \in Nat /\ g_last_maint_time \in Nat
      BY <2>2 DEF ScheduleInv, TimesOK
    <3>3. now' <= now
      BY <2>1, <3>2
    <3> QED
      BY <3>1, <3>2, <3>3, Exceeded
  <2> QED
    BY <2>1, <2>2, <2>3, <2>4 DEF ScheduleInv, Decided, Covered
<1>9. CASE UNCHANGED vars
  BY <1>9 DEF vars, ScheduleInv, TimesOK, Decided, Covered
<1> QED
  BY <1>1, <1>2, <1>3, <1>4, <1>5, <1>6, <1>7, <1>8, <1>9 DEF Next

LEMMA Scheduled == Spec => []ScheduleInv
  BY ScheduleInit, ScheduleStep, PTL DEF Spec

(* A cycle is never begun twice in a target minute, though it may be over  *)
(* in a second and the clock be set back into the minute: the guard is no  *)
(* shorter than the minute (is_maintenance_due).                           *)
THEOREM NeverTwice == Spec => OncePerMinute
<1>1. ScheduleInv /\ [Next]_vars =>
        [pc = "due" /\ now' # now /\ InMinute(now) /\ type = "minute"
           => MinuteOf(now) \notin begun]_vars
  <2> SUFFICES ASSUME ScheduleInv, [Next]_vars, pc = "due", now' # now, InMinute(now),
                      type = "minute", MinuteOf(now) \in begun
               PROVE  FALSE
    OBVIOUS
  <2>1. is_maintenance_due
    BY DEF Next, vars, process_child_line, keyword_ring_add, output_read, not_due, maintenance_succeeds,
       maintenance_fails, loop_tail, sleep, clock_set_back
  <2>2. now > g_last_maint_time + Guard
    BY <2>1, ClockAssumption DEF is_maintenance_due, ScheduleInv, TimesOK
  <2>3. now < MinuteStart(MinuteOf(now)) + Minute /\ MinuteStart(MinuteOf(now)) \in Int
    BY MinuteBounds, StartIsInt, ClockAssumption DEF ScheduleInv, TimesOK
  <2>4. MinuteStart(MinuteOf(now)) < g_last_maint_time
    BY DEF ScheduleInv
  <2> QED
    BY <2>2, <2>3, <2>4, ClockAssumption DEF ScheduleInv, TimesOK
<1> QED
  BY <1>1, Scheduled, PTL DEF OncePerMinute, Spec

(* No target minute goes by without a cycle, but for one the loop was      *)
(* maintaining in or shortly before, since a pass of the loop takes no     *)
(* longer than the minute; and no interval is exceeded by more than a pass *)
(* (is_maintenance_due, the sleep of the loop).                            *)
THEOREM NoneMissed == Spec => []NotMissed
<1>1. ScheduleInv => NotMissed
  <2> SUFFICES ASSUME ScheduleInv, pc \in {"read", "sleep"} PROVE NotMissed
    BY DEF NotMissed
  <2>1. CASE type = "minute"
    <3>1. ASSUME NEW w \in MinutesWithin(Epoch, now) PROVE w \in Minutes
      BY DEF MinutesWithin, Minutes
    <3> QED
      BY <2>1, <3>1 DEF NotMissed, ScheduleInv, Covered
  <2>2. CASE type = "interval"
    BY <2>2, ClockAssumption DEF NotMissed, ScheduleInv, TimesOK, Decided
  <2> QED
    BY <2>1, <2>2 DEF ScheduleInv, TimesOK
<1> QED
  BY <1>1, Scheduled, PTL

(***************************************************************************)
(* The keyword ring                                                        *)
(***************************************************************************)

LEMMA SmallestOf ==
  ASSUME NEW S \in SUBSET Nat, S # {}
  PROVE  \E m \in S : \A k \in S : m <= k
<1>1. IsWellFoundedOn(OpToRel(<, Nat), Nat)
  BY NatLessThanWellFounded
<1>2. PICK m \in S : \A k \in S : ~ (<<k, m>> \in OpToRel(<, Nat))
  BY <1>1, WFMin
<1>3. \A k \in S : ~ (k < m)
  BY <1>2 DEF OpToRel
<1> QED
  BY <1>3

(* The slot of the entry that is k older than the newest.                  *)
Slot(h, k) == (h - 1 - k + RingSize) % RingSize

LEMMA Wraps ==
  ASSUME NEW x \in 0 .. RingSize - 1
  PROVE  x % RingSize = x /\ (x + RingSize) % RingSize = x
  BY RingAssumption

LEMMA SlotIs ==
  ASSUME NEW h \in 0 .. RingSize - 1, NEW k \in 0 .. RingSize - 1
  PROVE  Slot(h, k) = IF k < h THEN h - 1 - k ELSE h - 1 - k + RingSize
<1>1. CASE k < h
  <2>1. h - 1 - k \in 0 .. RingSize - 1
    BY <1>1, RingAssumption
  <2> QED
    BY <1>1, <2>1, Wraps DEF Slot
<1>2. CASE ~ (k < h)
  <2>1. h - 1 - k + RingSize \in 0 .. RingSize - 1
    BY <1>2, RingAssumption
  <2> QED
    BY <1>2, <2>1, Wraps DEF Slot
<1> QED
  BY <1>1, <1>2

LEMMA NextHead ==
  ASSUME NEW h \in 0 .. RingSize - 1
  PROVE  (h + 1) % RingSize = IF h + 1 = RingSize THEN 0 ELSE h + 1
<1>1. CASE h + 1 = RingSize
  <2>1. 0 \in 0 .. RingSize - 1 /\ h + 1 = 0 + RingSize
    BY <1>1, RingAssumption
  <2> QED
    BY <1>1, <2>1, Wraps
<1>2. CASE h + 1 # RingSize
  <2>1. h + 1 \in 0 .. RingSize - 1
    BY <1>2, RingAssumption
  <2> QED
    BY <1>2, <2>1, Wraps
<1> QED
  BY <1>1, <1>2

(* Storing an entry makes every other one older, and is done in the slot   *)
(* of none that is still counted.                                          *)
LEMMA SlotMoves ==
  ASSUME NEW h \in 0 .. RingSize - 1
  PROVE  /\ (h + 1) % RingSize \in 0 .. RingSize - 1
         /\ Slot((h + 1) % RingSize, 0) = h
         /\ \A k \in 0 .. RingSize - 2 :
              /\ Slot((h + 1) % RingSize, k + 1) = Slot(h, k)
              /\ Slot(h, k) # h /\ Slot(h, k) \in 0 .. RingSize - 1
<1> DEFINE g == (h + 1) % RingSize
<1>1. g = (IF h + 1 = RingSize THEN 0 ELSE h + 1) /\ g \in 0 .. RingSize - 1
  BY NextHead, RingAssumption
<1> HIDE DEF g
<1>2. Slot(g, 0) = h
  <2>1. 0 \in 0 .. RingSize - 1
    BY RingAssumption
  <2>2. Slot(g, 0) = IF 0 < g THEN g - 1 - 0 ELSE g - 1 - 0 + RingSize
    BY <1>1, <2>1, SlotIs
  <2> QED
    BY <1>1, <2>2, RingAssumption
<1>3. ASSUME NEW k \in 0 .. RingSize - 2
      PROVE  Slot(g, k + 1) = Slot(h, k) /\ Slot(h, k) # h /\ Slot(h, k) \in 0 .. RingSize - 1
  <2>1. k \in 0 .. RingSize - 1 /\ k + 1 \in 0 .. RingSize - 1
    BY RingAssumption
  <2>2. Slot(g, k + 1) = IF k + 1 < g THEN g - 1 - (k + 1) ELSE g - 1 - (k + 1) + RingSize
    BY <1>1, <2>1, SlotIs
  <2>3. Slot(h, k) = IF k < h THEN h - 1 - k ELSE h - 1 - k + RingSize
    BY <2>1, SlotIs
  <2> QED
    BY <1>1, <2>1, <2>2, <2>3, RingAssumption
<1> QED
  BY <1>1, <1>2, <1>3 DEF g

(* What the scan of the ring returns: the entries before the first old one.*)
LEMMA CountRecent ==
  ASSUME NEW ts, NEW h, NEW n \in Nat, NEW t
  PROVE  LET c == keyword_ring_count_recent(ts, h, n, t)
         IN  /\ c \in 0 .. n
             /\ \A k \in 0 .. c - 1 : ~ (ts[Slot(h, k)] < t - Window)
             /\ c < n => ts[Slot(h, c)] < t - Window
<1> DEFINE c == keyword_ring_count_recent(ts, h, n, t)
           old == {k \in 0 .. n - 1 : ts[Slot(h, k)] < t - Window}
<1>1. c = IF old = {} THEN n ELSE CHOOSE k \in old : \A j \in old : k <= j
  BY DEF keyword_ring_count_recent, Slot
<1>2. CASE old = {}
  BY <1>1, <1>2
<1>3. CASE old # {}
  <2>1. old \in SUBSET Nat
    OBVIOUS
  <2>2. c \in old /\ \A j \in old : c <= j
    BY <1>1, <1>3, <2>1, SmallestOf
  <2>3. c \in 0 .. n - 1 /\ ts[Slot(h, c)] < t - Window
    BY <2>2
  <2>4. ASSUME NEW k \in 0 .. c - 1 PROVE k \notin old
    BY <2>2, <2>3
  <2>5. ASSUME NEW k \in 0 .. c - 1 PROVE ~ (ts[Slot(h, k)] < t - Window)
    BY <2>3, <2>4
  <2> QED
    BY <2>3, <2>5
<1> QED
  BY <1>2, <1>3

RecentIn(seq, t) == {k \in DOMAIN seq : seq[k] >= t - Window}

(* If the last c times are recent, at least c of them are.                 *)
LEMMA AtLeast ==
  ASSUME NEW seq \in Seq(Nat), NEW t, NEW c \in 0 .. Len(seq),
         \A k \in 0 .. c - 1 : seq[Len(seq) - k] >= t - Window
  PROVE  Cardinality(RecentIn(seq, t)) \in Nat /\ Cardinality(RecentIn(seq, t)) >= c
<1> DEFINE L == Len(seq)
           last == L - c + 1 .. L
           all == 1 .. L
<1>1. L \in Nat /\ DOMAIN seq = all
  OBVIOUS
<1>2. RecentIn(seq, t) \in SUBSET all /\ IsFiniteSet(all)
  BY <1>1, FS_Interval DEF RecentIn
<1>3. IsFiniteSet(RecentIn(seq, t)) /\ Cardinality(RecentIn(seq, t)) \in Nat
  BY <1>2, FS_Subset, FS_CardinalityType
<1>4. Cardinality(last) = c
  BY <1>1, FS_Interval
<1>5. ASSUME NEW j \in last PROVE j \in RecentIn(seq, t)
  <2>1. L - j \in 0 .. c - 1 /\ L - (L - j) = j /\ j \in all
    BY <1>1
  <2> QED
    BY <1>1, <2>1 DEF RecentIn
<1>6. last \in SUBSET RecentIn(seq, t)
  BY <1>5
<1>7. Cardinality(last) <= Cardinality(RecentIn(seq, t))
  BY <1>3, <1>6, FS_Subset
<1> QED
  BY <1>3, <1>4, <1>7

(* If the times never go down and the one that is c older than the last is *)
(* not recent, at most c of them are.                                      *)
LEMMA AtMost ==
  ASSUME NEW seq \in Seq(Nat), NEW t \in Nat, NEW c \in 0 .. Len(seq),
         \A a, b \in DOMAIN seq : a <= b => seq[a] <= seq[b],
         c < Len(seq) => seq[Len(seq) - c] < t - Window
  PROVE  Cardinality(RecentIn(seq, t)) <= c
<1> DEFINE L == Len(seq)
           last == L - c + 1 .. L
<1>1. L \in Nat /\ DOMAIN seq = 1 .. L
  OBVIOUS
<1>2. Cardinality(last) = c /\ IsFiniteSet(last)
  BY <1>1, FS_Interval
<1>3. ASSUME NEW j \in RecentIn(seq, t) PROVE j \in last
  <2>1. j \in 1 .. L /\ seq[j] \in Nat /\ seq[j] >= t - Window
    BY <1>1 DEF RecentIn
  <2>2. CASE j <= L - c
    <3>1. L - c \in 1 .. L /\ c < L
      BY <1>1, <2>1, <2>2
    <3> DEFINE x == seq[j]
               y == seq[L - c]
    <3>2. x <= y
      BY <1>1, <2>1, <2>2, <3>1
    <3>3. y < t - Window
      BY <3>1
    <3>4. y \in Nat
      BY <1>1, <3>1
    <3>5. x \in Nat /\ x >= t - Window
      BY <2>1
    <3>6. Window \in Nat
      BY AlertAssumption
    <3> HIDE DEF x, y
    <3>7. FALSE
      BY <3>2, <3>3, <3>4, <3>5, <3>6
    <3> QED
      BY <3>7
  <2>3. CASE ~ (j <= L - c)
    BY <1>1, <2>1, <2>3
  <2> QED
    BY <2>2, <2>3
<1>4. RecentIn(seq, t) \in SUBSET last
  BY <1>3
<1> QED
  BY <1>2, <1>4, FS_Subset

Held == IF Len(matches) < RingSize THEN Len(matches) ELSE RingSize

(* The ring holds the newest times, as many as it can, the newest first;   *)
(* while the clock only went on they never go down.                        *)
RingInv ==
  /\ TimesOK
  /\ timestamps \in [0 .. RingSize - 1 -> Nat] /\ head \in 0 .. RingSize - 1
  /\ matches \in Seq(Nat)
  /\ count = Held
  /\ \A k \in 0 .. count - 1 : timestamps[Slot(head, k)] = matches[Len(matches) - k]
  /\ stepped = 0 =>
       /\ \A a, b \in DOMAIN matches : a <= b => matches[a] <= matches[b]
       /\ \A a \in DOMAIN matches : matches[a] <= now
  /\ {keyword_alert, expected, stepped, g_running} \subseteq {0, 1}

LEMMA RingInit == Init => RingInv
<1> SUFFICES ASSUME Init PROVE RingInv
  OBVIOUS
<1>1. TimesOK
  BY ScheduleInit DEF ScheduleInv
<1>2. timestamps \in [0 .. RingSize - 1 -> Nat] /\ head \in 0 .. RingSize - 1
  BY RingAssumption DEF Init, EmptyRing
<1> QED
  BY <1>1, <1>2, RingAssumption DEF Init, RingInv, Held

LEMMA RingStep == TimesOK' /\ RingInv /\ [Next]_vars => RingInv'
<1> SUFFICES ASSUME TimesOK', RingInv, [Next]_vars PROVE RingInv'
  OBVIOUS
<1> USE DEF ringVars, alertVars
<1>1. CASE process_child_line
  <2>0. now' = now /\ now \in Nat /\ UNCHANGED <<stepped, g_running>>
    BY <1>1, ClockAssumption DEF process_child_line, keyword_ring_add, RingInv, TimesOK
  <2>1. matches' = Append(matches, now) /\ matches' \in Seq(Nat)
        /\ Len(matches') = Len(matches) + 1
        /\ \A a \in DOMAIN matches : matches'[a] = matches[a]
        /\ matches'[Len(matches')] = now
        /\ DOMAIN matches' = DOMAIN matches \cup {Len(matches')}
        /\ DOMAIN matches = 1 .. Len(matches) /\ Len(matches) \in Nat
    <3>1. matches' = Append(matches, now)
      BY <1>1 DEF process_child_line, keyword_ring_add
    <3>2. matches \in Seq(Nat)
      BY DEF RingInv
    <3> QED
      BY <3>1, <3>2, <2>0
  <2>2. /\ timestamps' = [timestamps EXCEPT ![head] = now]
        /\ head' = (head + 1) % RingSize
        /\ count' = IF count < RingSize THEN count + 1 ELSE count
    BY <1>1 DEF process_child_line, keyword_ring_add
  <2>3. /\ timestamps' \in [0 .. RingSize - 1 -> Nat] /\ head' \in 0 .. RingSize - 1
    BY <2>0, <2>2, SlotMoves DEF RingInv
  <2>4. count' = Held'
    BY <2>1, <2>2, RingAssumption DEF RingInv, Held
  <2>5. ASSUME NEW k \in 0 .. count' - 1
        PROVE  timestamps'[Slot(head', k)] = matches'[Len(matches') - k]
    <3>1. CASE k = 0
      <4>1. Slot(head', k) = head /\ timestamps'[head] = now
        BY <2>2, <3>1, SlotMoves DEF RingInv
      <4> QED
        BY <2>1, <3>1, <4>1
    <3>2. CASE k # 0
      <4> DEFINE j == k - 1
      <4>1. j \in 0 .. count - 1 /\ j \in 0 .. RingSize - 2 /\ k = j + 1
        BY <2>1, <2>2, <3>2, RingAssumption DEF RingInv, Held
      <4>2. Slot(head', k) = Slot(head, j) /\ Slot(head, j) # head
            /\ Slot(head, j) \in 0 .. RingSize - 1
        BY <2>2, <4>1, SlotMoves DEF RingInv
      <4>3. timestamps'[Slot(head', k)] = matches[Len(matches) - j]
        BY <2>2, <4>1, <4>2 DEF RingInv
      <4>4. count \in 0 .. Len(matches)
        BY <2>1, RingAssumption DEF RingInv, Held
      <4>5. Len(matches) - j \in DOMAIN matches /\ Len(matches') - k = Len(matches) - j
        BY <2>1, <4>1, <4>4
      <4> QED
        BY <2>1, <4>3, <4>5
    <3> QED
      BY <3>1, <3>2
  <2>6. ASSUME stepped' = 0
        PROVE  /\ \A a, b \in DOMAIN matches' : a <= b => matches'[a] <= matches'[b]
               /\ \A a \in DOMAIN matches' : matches'[a] <= now'
    <3>1. stepped = 0
      BY <2>0, <2>6
    <3>2. /\ \A a, b \in DOMAIN matches : a <= b => matches[a] <= matches[b]
          /\ \A a \in DOMAIN matches : matches[a] <= now
      BY <3>1 DEF RingInv
    <3>3. \A a \in DOMAIN matches' : matches'[a] <= now
      BY <2>0, <2>1, <3>2
    <3>4. ASSUME NEW a \in DOMAIN matches', NEW b \in DOMAIN matches', a <= b
          PROVE  matches'[a] <= matches'[b]
      <4>1. CASE b = Len(matches')
        BY <4>1, <2>1, <3>3
      <4>2. CASE b # Len(matches')
        BY <4>2, <3>4, <2>1, <3>2
      <4> QED
        BY <4>1, <4>2
    <3> QED
      BY <2>0, <3>3, <3>4
  <2>7. {keyword_alert, expected, stepped, g_running}' \subseteq {0, 1}
    BY <1>1, <2>0 DEF process_child_line, keyword_ring_add, RingInv
  <2> QED
    BY <2>1, <2>3, <2>4, <2>5, <2>6, <2>7 DEF RingInv
<1>2. CASE output_read
  BY <1>2 DEF output_read, RingInv, Held
<1>3. CASE not_due
  BY <1>3 DEF not_due, RingInv, Held
<1>4. CASE maintenance_succeeds
  <2>1. timestamps' \in [0 .. RingSize - 1 -> Nat] /\ head' \in 0 .. RingSize - 1
    BY <1>4, RingAssumption DEF maintenance_succeeds, EmptyRing
  <2>2. count' = 0 /\ matches' = <<>>
    BY <1>4 DEF maintenance_succeeds
  <2>3. UNCHANGED <<keyword_alert, expected, stepped, g_running>>
    BY <1>4 DEF maintenance_succeeds
  <2> QED
    BY <2>1, <2>2, <2>3, RingAssumption DEF RingInv, Held
<1>5. CASE maintenance_fails
  BY <1>5 DEF maintenance_fails, RingInv, Held
<1>6. CASE loop_tail
  BY <1>6 DEF loop_tail, RingInv, Held
<1>7. CASE sleep
  <2>1. /\ UNCHANGED <<timestamps, head, count, matches, g_running>>
        /\ keyword_alert' = 0 /\ expected' = 0
        /\ stepped' = IF matches = <<>> THEN 0 ELSE stepped
    BY <1>7 DEF sleep
  <2>2. now <= now' /\ now \in Nat /\ now' \in Nat
    BY <1>7, ClockAssumption DEF sleep, RingInv, TimesOK
  <2>3. ASSUME stepped' = 0
        PROVE  /\ \A a, b \in DOMAIN matches : a <= b => matches[a] <= matches[b]
               /\ \A a \in DOMAIN matches : matches[a] <= now'
    <3>1. CASE matches = <<>>
      BY <3>1
    <3>2. CASE matches # <<>>
      <4>1. \A a \in DOMAIN matches : matches[a] <= now /\ matches[a] \in Nat
        BY <2>1, <2>3, <3>2 DEF RingInv
      <4> QED
        BY <2>1, <2>2, <2>3, <3>2, <4>1 DEF RingInv
    <3> QED
      BY <3>1, <3>2
  <2> QED
    BY <2>1, <2>3 DEF RingInv, Held
<1>8. CASE clock_set_back
  BY <1>8 DEF clock_set_back, RingInv, Held
<1>9. CASE UNCHANGED vars
  BY <1>9 DEF vars, RingInv, Held
<1> QED
  BY <1>1, <1>2, <1>3, <1>4, <1>5, <1>6, <1>7, <1>8, <1>9 DEF Next

(* The scan of the ring and the count over all times agree on a pass.      *)
Scan == keyword_ring_count_recent(timestamps, head, count, now)

Agree ==
  /\ Scan >= Threshold => Recent(matches) >= Threshold
  /\ Recent(matches) >= Threshold /\ Threshold <= RingSize /\ stepped = 0
     => Scan >= Threshold

LEMMA ScanAgrees == RingInv => Agree
<1> SUFFICES ASSUME RingInv PROVE Agree
  OBVIOUS
<1> DEFINE c == Scan
<1>0. c = keyword_ring_count_recent(timestamps, head, count, now)
  BY DEF Scan
<1> HIDE DEF c
<1>1. now \in Nat /\ Len(matches) \in Nat /\ count \in 0 .. Len(matches)
      /\ DOMAIN matches = 1 .. Len(matches)
  BY RingAssumption, ClockAssumption DEF RingInv, TimesOK, Held
<1>2. /\ c \in 0 .. count
      /\ \A k \in 0 .. c - 1 : ~ (timestamps[Slot(head, k)] < now - Window)
      /\ c < count => timestamps[Slot(head, c)] < now - Window
  BY <1>0, <1>1, CountRecent
<1>3. Recent(matches) = Cardinality(RecentIn(matches, now)) /\ matches \in Seq(Nat)
  BY DEF Recent, RecentIn, RingInv
<1>4. ASSUME NEW k \in 0 .. c - 1 PROVE matches[Len(matches) - k] >= now - Window
  <2>1. timestamps[Slot(head, k)] = matches[Len(matches) - k]
    BY <1>1, <1>2 DEF RingInv
  <2>2. matches[Len(matches) - k] \in Nat
    BY <1>1, <1>2, <1>3
  <2> QED
    BY <1>1, <1>2, <2>1, <2>2, AlertAssumption
<1>a. c \in 0 .. Len(matches)
  BY <1>1, <1>2
<1>5. Recent(matches) \in Nat /\ Recent(matches) >= c
  BY <1>3, <1>4, <1>a, AtLeast
<1>b. ASSUME stepped = 0, c < Len(matches) => matches[Len(matches) - c] < now - Window
      PROVE  Recent(matches) <= c
  <2>1. \A a, b \in DOMAIN matches : a <= b => matches[a] <= matches[b]
    BY <1>b DEF RingInv
  <2> QED
    BY <1>1, <1>3, <1>a, <1>b, <2>1, AtMost
<1>6. ASSUME Recent(matches) >= Threshold, Threshold <= RingSize, stepped = 0
      PROVE  c >= Threshold
  <2>1. CASE c = count
    <3>1. CASE count = RingSize
      BY <1>6, <2>1, <3>1
    <3>2. CASE count = Len(matches)
      <4>1. Recent(matches) <= c
        BY <1>1, <1>6, <1>b, <2>1, <3>2
      <4> QED
        BY <1>1, <1>2, <1>5, <1>6, <4>1, AlertAssumption
    <3> QED
      BY <3>1, <3>2 DEF RingInv, Held
  <2>2. CASE c # count
    <3>0. c \in 0 .. count - 1
      BY <1>1, <1>2, <2>2
    <3>1. matches[Len(matches) - c] < now - Window
      BY <1>1, <1>2, <3>0 DEF RingInv
    <3>2. Recent(matches) <= c
      BY <1>6, <1>b, <3>1
    <3> QED
      BY <1>1, <1>2, <1>5, <1>6, <3>2, AlertAssumption
  <2> QED
    BY <2>1, <2>2
<1>7. c >= Threshold => Recent(matches) >= Threshold
  BY <1>1, <1>2, <1>5, AlertAssumption
<1> QED
  BY <1>6, <1>7 DEF Agree, c

AlertInv == ScheduleInv /\ RingInv /\ AlertExact

LEMMA AlertStep == AlertInv /\ [Next]_vars => AlertInv'
<1> SUFFICES ASSUME AlertInv, [Next]_vars PROVE AlertInv'
  OBVIOUS
<1>1. ScheduleInv'
  BY ScheduleStep DEF AlertInv
<1>2. RingInv'
  BY <1>1, RingStep DEF AlertInv, ScheduleInv
<1>c. (RingInv => Agree)'
  BY ScanAgrees, PTL
<1>3. AlertExact'
  <2> USE DEF AlertInv, AlertExact, ringVars, alertVars
  <2>1. CASE process_child_line
    <3>1. Agree'
      BY <1>2, <1>c
    <3>2. /\ now' = now /\ stepped' = stepped
          /\ keyword_alert' = IF Scan' >= Threshold THEN 1 ELSE keyword_alert
          /\ expected' = IF Recent(matches)' >= Threshold THEN 1 ELSE expected
      BY <2>1 DEF process_child_line, keyword_ring_add, Recent, Scan
    <3> QED
      BY <3>1, <3>2 DEF Agree
  <2>2. CASE sleep
    BY <2>2 DEF sleep
  <2>3. CASE clock_set_back
    BY <2>3 DEF clock_set_back
  <2>4. CASE UNCHANGED <<keyword_alert, expected, stepped>>
    BY <2>4
  <2>5. output_read \/ not_due \/ maintenance_succeeds \/ maintenance_fails \/ loop_tail
        \/ UNCHANGED vars => UNCHANGED <<keyword_alert, expected, stepped>>
    BY DEF output_read, not_due, maintenance_succeeds, maintenance_fails, loop_tail, vars
  <2> QED
    BY <2>1, <2>2, <2>3, <2>4, <2>5 DEF Next
<1> QED
  BY <1>1, <1>2, <1>3 DEF AlertInv

(* The ring, of whatever size and however often it went round, raises the  *)
(* alert when and only when the times of all matching lines call for it:   *)
(* never too early, and not too late unless the clock was set back or the  *)
(* ring is smaller than the threshold (keyword_ring_count_recent).         *)
THEOREM RingExact == Spec => []AlertExact
<1>1. Init => AlertInv
  BY ScheduleInit, RingInit DEF Init, AlertInv, AlertExact
<1>2. AlertInv => AlertExact
  BY DEF AlertInv
<1> QED
  BY <1>1, <1>2, AlertStep, PTL DEF Spec

(* The variables hold what their declarations say.                         *)
THEOREM TypeCorrect == Spec => []TypeOK
<1>1. ScheduleInv /\ RingInv => TypeOK
  <2> SUFFICES ASSUME ScheduleInv, RingInv PROVE TypeOK
    OBVIOUS
  <2>1. count \in 0 .. RingSize
    BY RingAssumption DEF RingInv, Held
  <2>2. \A k \in DOMAIN matches : matches[k] \in Nat
    BY DEF RingInv
  <2>3. now \in Nat /\ g_last_maint_time \in Nat
    BY ClockAssumption DEF ScheduleInv, TimesOK
  <2> QED
    BY <2>1, <2>2, <2>3 DEF RingInv, ScheduleInv, TimesOK, TypeOK
<1>2. Init => ScheduleInv /\ RingInv
  BY ScheduleInit, RingInit
<1>3. ScheduleInv /\ RingInv /\ [Next]_vars => (ScheduleInv /\ RingInv)'
  BY ScheduleStep, RingStep DEF ScheduleInv
<1> QED
  BY <1>1, <1>2, <1>3, PTL DEF Spec
=============================================================================
