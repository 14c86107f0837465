------------------------------ MODULE Monitor ------------------------------
(***************************************************************************)
(* The clock of store_auto_maint: the ring of keyword times that decides   *)
(* when the loop stops, and the schedule that decides when maintenance     *)
(* runs.  StoreAutoMaint leaves both to chance, this module leaves the     *)
(* child process out.                                                      *)
(*                                                                         *)
(* The loop is sequential, so time passes while it sleeps and while it     *)
(* maintains; one pass over the output takes none.                         *)
(***************************************************************************)
EXTENDS Integers, Sequences, FiniteSets

CONSTANTS
  RingSize,     \* MAX_KEYWORD_EVENTS
  Threshold, Window, MinSeverity,   \* -N, -M, -k
  Minute,       \* seconds of the target minute
  Period,       \* seconds of a day or of a week
  Target,       \* second of the Period at which the target minute begins
  Guard,        \* the 120 seconds between two cycles
  Interval,     \* interval_secs
  Poll,         \* bound: longest time from one pass of the loop to the next
  MaxMaint,     \* bound: longest maintenance
  Epoch, Last,  \* bounds: time of the start, last time considered
  MaxMatches,   \* bound: matching lines between two maintenance cycles
  Faults        \* subset of {"clock"}: the clock may be set back

ASSUME RingAssumption == RingSize \in Nat \ {0}
ASSUME ClockAssumption ==
  /\ Minute \in Nat \ {0} /\ Period \in Nat \ {0} /\ Target \in 0 .. Period - Minute
  /\ Guard \in Nat /\ Minute <= Guard /\ Guard < Period
  /\ Interval \in Nat \ {0}
  /\ Poll \in 1..Minute /\ MaxMaint \in Nat \ {0}
  /\ Epoch \in Nat /\ Epoch > Guard + MaxMaint /\ Last \in Nat /\ Epoch <= Last
ASSUME AlertAssumption == {Threshold, Window, MaxMatches} \subseteq Nat

VARIABLES
  pc, now,
  type,                      \* g_schedule.type, daily and weekly alike
  timestamps, head, count,   \* g_keyword_ring
  keyword_alert, g_running, g_last_maint_time,
  (* observation only *)
  matches,    \* times of the matching lines since the ring was cleared
  expected,   \* those times would have raised the alert in this pass
  stepped,    \* the clock was set back while the ring held a time
  begun,      \* target minutes in which a cycle was begun
  away        \* target minutes it may miss, see NotMissed

ringVars  == <<timestamps, head, count>>
schedVars == <<type, g_last_maint_time, begun, away>>
alertVars == <<keyword_alert, expected>>
vars == <<pc, now, ringVars, schedVars, alertVars, matches, stepped, g_running>>

Severities == 0..3
NoWord == -1
Lines == [tag : Severities \cup {NoWord}, word : Severities \cup {NoWord}]

EmptyRing == [k \in 0 .. RingSize - 1 |-> 0]

Init ==
  /\ pc = "read" /\ now = Epoch /\ type \in {"minute", "interval"}
  /\ timestamps = EmptyRing /\ head = 0 /\ count = 0
  /\ keyword_alert = 0 /\ g_running = 1 /\ g_last_maint_time = 0
  /\ matches = <<>> /\ expected = 0 /\ stepped = 0
  /\ begun = {} /\ away = {}

-----------------------------------------------------------------------------
(* The keyword ring                                                         *)

(* A tagged line is matched by its tag only, any other by its words. *)
scan_line_for_keywords(line) ==
  IF line.tag # NoWord THEN line.tag >= MinSeverity
                       ELSE line.word >= MinSeverity

(* Seeded fault: the oldest slot is read first. *)
count_recent_FromOldest(ts, h, n, t) ==
  LET slot(k) == (h + k) % RingSize
      old == {k \in 0 .. n - 1 : ts[slot(k)] < t - Window}
  IN  IF old = {} THEN n ELSE CHOOSE k \in old : \A j \in old : k <= j

(* The newest entries, up to the first that is older than the window. *)
keyword_ring_count_recent(ts, h, n, t) ==
  LET slot(k) == (h - 1 - k + RingSize) % RingSize
      old == {k \in 0 .. n - 1 : ts[slot(k)] < t - Window}
  IN  IF old = {} THEN n ELSE CHOOSE k \in old : \A j \in old : k <= j

Recent(seq) == Cardinality({k \in DOMAIN seq : seq[k] >= now - Window})

(* A full ring writes over its oldest entry.                               *)
keyword_ring_add(ts) ==
  /\ timestamps' = [timestamps EXCEPT ![head] = ts]
  /\ head' = (head + 1) % RingSize
  /\ count' = IF count < RingSize THEN count + 1 ELSE count

(* A matching line, and the comparison with the threshold. *)
process_child_line ==
  /\ pc = "read"
  /\ Len(matches) < MaxMatches
  /\ \E line \in Lines : scan_line_for_keywords(line)
  /\ keyword_ring_add(now)
  /\ matches' = Append(matches, now)
  /\ keyword_alert' =
       IF keyword_ring_count_recent(timestamps', head', count', now) >= Threshold
       THEN 1 ELSE keyword_alert
  /\ expected' = IF Recent(matches') >= Threshold THEN 1 ELSE expected
  /\ UNCHANGED <<pc, now, schedVars, stepped, g_running>>

output_read ==
  /\ pc = "read" /\ pc' = "due"
  /\ UNCHANGED <<now, ringVars, schedVars, alertVars, matches, stepped, g_running>>

-----------------------------------------------------------------------------
(* The schedule                                                             *)

MinuteStart(w) == w * Period + Target
InMinute(t) == t % Period \in Target .. Target + Minute - 1
MinuteOf(t) == t \div Period
(* Target minutes that are not over at time from and have begun by to. *)
MinutesWithin(from, to) ==
  {w \in Epoch \div Period .. Last \div Period :
     MinuteStart(w) <= to /\ MinuteStart(w) + Minute > from}

(* Seeded faults: no guard, and one that outlasts the period. *)
is_maintenance_due_Unguarded ==
  IF type = "minute"
  THEN InMinute(now) /\ now - g_last_maint_time >= 0
  ELSE g_last_maint_time # 0 /\ now - g_last_maint_time >= Interval

is_maintenance_due_TooGuarded ==
  IF type = "minute"
  THEN InMinute(now) /\ now - g_last_maint_time > Period
  ELSE g_last_maint_time # 0 /\ now - g_last_maint_time >= Interval

is_maintenance_due ==
  IF type = "minute"
  THEN InMinute(now) /\ now - g_last_maint_time > Guard
  ELSE g_last_maint_time # 0 /\ now - g_last_maint_time >= Interval

not_due ==
  /\ pc = "due" /\ pc' = "tail"
  /\ ~is_maintenance_due
  /\ g_last_maint_time' = IF type = "interval" /\ g_last_maint_time = 0
                          THEN now ELSE g_last_maint_time
  /\ UNCHANGED <<now, type, begun, away, ringVars, alertVars, matches, stepped,
                 g_running>>

(* A cycle that brings the store back: keywords of its start-up output were *)
(* scanned, and are forgotten with the rest of the ring.                    *)
maintenance_succeeds ==
  /\ pc = "due" /\ pc' = "tail"
  /\ is_maintenance_due
  /\ \E d \in 1..MaxMaint : now + d <= Last /\ now' = now + d
  /\ g_last_maint_time' = now'
  /\ timestamps' = EmptyRing /\ head' = 0 /\ count' = 0
  /\ matches' = <<>>
  /\ begun' = begun \cup (IF InMinute(now) THEN {MinuteOf(now)} ELSE {})
  /\ away' = away \cup MinutesWithin(now, now' + Guard)
  /\ UNCHANGED <<type, alertVars, stepped, g_running>>

maintenance_fails ==
  /\ pc = "due" /\ pc' = "tail"
  /\ is_maintenance_due
  /\ g_running' = 0
  /\ UNCHANGED <<now, schedVars, ringVars, alertVars, matches, stepped>>

(* The keyword alert ends the loop, after maintenance if that was due too.  *)
loop_tail ==
  /\ pc = "tail"
  /\ g_running' = IF keyword_alert = 1 THEN 0 ELSE g_running
  /\ pc' = IF g_running' = 1 THEN "sleep" ELSE "left"
  /\ UNCHANGED <<now, ringVars, schedVars, alertVars, matches, stepped>>

sleep ==
  /\ pc = "sleep" /\ pc' = "read"
  /\ \E d \in 1..Poll : now + d <= Last /\ now' = now + d
  /\ keyword_alert' = 0 /\ expected' = 0
  /\ stepped' = IF matches = <<>> THEN 0 ELSE stepped
  /\ UNCHANGED <<ringVars, schedVars, matches, g_running>>

clock_set_back ==
  /\ pc = "sleep" /\ "clock" \in Faults /\ stepped = 0
  /\ now' \in Epoch .. now - 1
  /\ stepped' = 1
  /\ UNCHANGED <<pc, ringVars, schedVars, alertVars, matches, g_running>>

Next ==
  \/ process_child_line \/ output_read
  \/ not_due \/ maintenance_succeeds \/ maintenance_fails
  \/ loop_tail \/ sleep \/ clock_set_back

Spec == Init /\ [][Next]_vars

-----------------------------------------------------------------------------
(* Properties                                                               *)

TypeOK ==
  /\ pc \in {"read", "due", "tail", "sleep", "left"}
  /\ now \in Nat /\ type \in {"minute", "interval"}
  /\ timestamps \in [0 .. RingSize - 1 -> Nat]
  /\ head \in 0 .. RingSize - 1 /\ count \in 0 .. RingSize
  /\ {keyword_alert, expected, stepped, g_running} \subseteq {0, 1}
  /\ g_last_maint_time \in Nat
  /\ \A k \in DOMAIN matches : matches[k] \in Nat

(* The ring of RingSize entries, filled and emptied and filled again, says  *)
(* what the times of all matching lines say: an alert is raised only when   *)
(* there were Threshold of them within the window, and - as long as the     *)
(* ring can hold so many and the clock was not set back - whenever there    *)
(* were.                                                                    *)
AlertExact ==
  /\ keyword_alert = 1 => expected = 1
  /\ expected = 1 /\ Threshold <= RingSize /\ stepped = 0 => keyword_alert = 1

(* No target minute has two cycles, however short they are and however the  *)
(* clock is set.                                                            *)
OncePerMinute ==
  [][pc = "due" /\ now' # now /\ InMinute(now) /\ type = "minute"
       => MinuteOf(now) \notin begun]_vars

(* No target minute passes without a cycle, unless the loop was maintaining *)
(* in it or up to Guard seconds before it, however the clock is set; and an *)
(* interval is never exceeded by more than a pass of the loop.              *)
NotMissed ==
  pc \in {"read", "sleep"} =>
    IF type = "minute"
    THEN \A w \in MinutesWithin(Epoch, now) :
           MinuteStart(w) + Minute <= now => w \in begun \cup away
    ELSE g_last_maint_time = 0 \/ now - g_last_maint_time < Interval + Poll
=============================================================================
