--------------------------- MODULE StoreAutoMaint ---------------------------
(***************************************************************************)
(* The supervisor store_auto_maint (POSIX build): one umestored child, its *)
(* signals, its output pipe, its PID file, and the maintenance cycle with  *)
(* three restart attempts.                                                 *)
(*                                                                         *)
(* The wrapper is sequential; pc names the statement it runs next, and     *)
(* every interleaving with the child, the kernel and the operator happens  *)
(* between two of its steps.  The SIGCHLD and SIGINT/SIGTERM handlers only *)
(* write flags, so a delivery is one step.                                 *)
(***************************************************************************)
EXTENDS Integers, FiniteSets

CONSTANTS
  Pids,       \* process ids the kernel hands out
  PipeCap,    \* lines the child's pipe holds before a write blocks
  MaxCycles,  \* bound: maintenance cycles of one boot
  MaxBoots,   \* bound: times the operator starts the wrapper
  LogFile,    \* the XML configures a <log> file that is tailed as well
  Faults      \* environment events allowed, a subset of AllFaults

AllFaults == {"pipe", "fork", "pidwrite", "recycle", "jobcontrol", "crash"}

ASSUME LogFileAssumption == LogFile \in BOOLEAN
ASSUME PidsAssumption == Pids \subseteq Nat \ {0}
ASSUME BoundsAssumption ==
  /\ PipeCap \in Nat \ {0}
  /\ MaxCycles \in Nat
  /\ MaxBoots \in Nat \ {0}
  /\ Faults \subseteq AllFaults

VARIABLES
  (* the wrapper *)
  pc, ret, attempt, script_rc, keyword_alert,
  g_running, g_child_alive, g_child_pid,
  g_fast_shutdown, g_first_int_time,
  initiated, completed, errors, failed,     \* g_stats
  (* the kernel and the file system *)
  proc,           \* what each process id is
  pipe,           \* the child whose output g_pipe_fd[0] carries, 0 when closed
  unread, hot,    \* lines in that pipe; one of them passes the threshold
  pid_file,       \* the pid stored in the PID file, 0 when there is no file
  files,          \* the store's files in this cycle
  orphan_script,  \* a script that outlived the wrapper which ran it
  (* observation only *)
  asked,          \* an operator has sent SIGINT or SIGTERM to this wrapper
  boots

wrapperVars == <<pc, ret, attempt, script_rc, keyword_alert>>
signalVars  == <<g_running, g_fast_shutdown, g_first_int_time>>
childVars   == <<g_child_alive, g_child_pid>>
g_stats     == <<initiated, completed, errors, failed>>
pipeVars    == <<pipe, unread, hot>>
envVars     == <<files, orphan_script, asked, boots>>

vars == <<wrapperVars, signalVars, childVars, g_stats, proc, pipeVars,
          pid_file, envVars>>

RestartMax == 3                  \* CHILD_RESTART_MAX_ATTEMPTS

(* "up": serving.  "flushing" / "closing": was sent SIGINT, and still has / *)
(* no longer has shutdown lines to print.  "orphan": a store whose wrapper  *)
(* is gone.  "foreign": another program that was given the process id.      *)
ProcState == {"none", "foreign", "up", "flushing", "closing", "orphan", "zombie"}
ChildLive == {"up", "flushing", "closing"}
StoreLive == ChildLive \cup {"orphan"}
OwnChild  == ChildLive \cup {"zombie"}

LiveStores == {p \in Pids : proc[p] \in StoreLive}
FreePids   == {p \in Pids : proc[p] = "none"}

Off      == {"exited", "crashed"}
InSystem == {"script", "revert", "wipe"}         \* inside system()
PcState  == Off \cup InSystem \cup
  {"boot", "fork", "alive", "record", "loop", "scan", "probe", "reap", "due",
   "stop", "wait1", "phase2", "wait2", "phase3", "wait3",
   "maint", "tier", "settle", "verify", "tail"}
Running  == PcState \ Off

-----------------------------------------------------------------------------
Init ==
  /\ pc = "boot" /\ ret = "main" /\ attempt = 0 /\ script_rc = 0
  /\ keyword_alert = 0
  /\ g_running = 1 /\ g_fast_shutdown = 0 /\ g_first_int_time = "never"
  /\ g_child_alive = 0 /\ g_child_pid = 0
  /\ initiated = 0 /\ completed = 0 /\ errors = 0 /\ failed = 0
  /\ proc = [p \in Pids |-> "none"]
  /\ pipe = 0 /\ unread = 0 /\ hot = 0
  /\ pid_file = 0
  /\ files = "kept" /\ orphan_script = 0
  /\ asked = 0 /\ boots = 1

Goto(from, to) == pc = from /\ pc' = to

(* The wrapper is gone: init reaps its zombies and inherits its live store. *)
Abandoned(f) == [p \in Pids |-> CASE f[p] = "zombie"    -> "none"
                                   [] f[p] \in ChildLive -> "orphan"
                                   [] OTHER              -> f[p]]

AbandonChildren == proc' = Abandoned(proc)

ClosePipe == pipe' = 0 /\ unread' = 0 /\ hot' = 0

-----------------------------------------------------------------------------
(* Start-up and start_child()                                              *)

(* Seeded fault: the file is removed without a look at the process.        *)
check_existing_pid_file_Blind ==
  /\ pc = "boot"
  /\ pc' = "fork" /\ pid_file' = 0
  /\ UNCHANGED <<proc, pipeVars, ret, attempt, script_rc, keyword_alert,
                 signalVars, childVars, g_stats, envVars>>

(* kill(pid, 0) succeeds for a live process and for a zombie; EPERM, which  *)
(* another user's process gives, is taken for "no such process". pid_file   *)
(* 0 is no file, or one without a number, as a wrapper leaves that dies     *)
(* between fopen() and fclose() in write_pid_file: it is removed (925).     *)
check_existing_pid_file ==
  /\ pc = "boot"
  /\ \/ pid_file = 0 /\ pc' = "fork" /\ UNCHANGED <<pid_file, proc, pipeVars>>
     \/ /\ pid_file # 0
        /\ proc[pid_file] # "none"
        /\ pc' = "exited"
        /\ AbandonChildren /\ ClosePipe /\ UNCHANGED pid_file
     \/ /\ pid_file # 0
        /\ proc[pid_file] \in {"none", "foreign"}
        /\ pc' = "fork" /\ pid_file' = 0
        /\ UNCHANGED <<proc, pipeVars>>
  /\ UNCHANGED <<ret, attempt, script_rc, keyword_alert, signalVars, childVars,
                 g_stats, envVars>>

(* Seeded faults of AttemptFailed: one attempt too many, and one for ever. *)
AttemptFailed_OneTooMany ==
  IF attempt <= RestartMax
  THEN /\ attempt' = attempt + 1
       /\ pc' = "tier"
       /\ UNCHANGED <<g_stats, g_running>>
  ELSE /\ failed' = failed + 1
       /\ g_running' = 0
       /\ pc' = "tail"
       /\ UNCHANGED <<attempt, initiated, completed, errors>>
AttemptFailed_Forever ==
  pc' = "tier" /\ UNCHANGED <<attempt, g_stats, g_running>>

(* What perform_maintenance does when an attempt is over and lost. *)
AttemptFailed ==
  IF attempt < RestartMax
  THEN /\ attempt' = attempt + 1
       /\ pc' = "tier"
       /\ UNCHANGED <<g_stats, g_running>>
  ELSE /\ failed' = failed + 1
       /\ g_running' = 0
       /\ pc' = "tail"
       /\ UNCHANGED <<attempt, initiated, completed, errors>>

(* start_child() returned -1: main() gives up, perform_maintenance goes on. *)
StartFailed ==
  /\ IF ret = "main"
     THEN /\ pc' = "exited" /\ AbandonChildren
          /\ UNCHANGED <<attempt, g_stats, g_running>>
     ELSE AttemptFailed /\ UNCHANGED proc
  /\ UNCHANGED <<ret, script_rc, keyword_alert, g_fast_shutdown,
                 g_first_int_time, g_child_alive, pid_file, envVars>>

pipe_fails ==
  /\ pc = "fork" /\ "pipe" \in Faults
  /\ StartFailed /\ UNCHANGED g_child_pid
  /\ IF ret = "main" THEN ClosePipe ELSE UNCHANGED pipeVars

fork_fails ==
  /\ pc = "fork" /\ ("fork" \in Faults \/ FreePids = {})
  /\ StartFailed /\ g_child_pid' = -1
  /\ ClosePipe

fork_child ==
  /\ Goto("fork", "alive")
  /\ \E p \in FreePids :
       /\ proc' = [proc EXCEPT ![p] = "up"]
       /\ g_child_pid' = p
       /\ pipe' = p /\ unread' = 0 /\ hot' = 0
  /\ UNCHANGED <<ret, attempt, script_rc, keyword_alert, signalVars,
                 g_child_alive, g_stats, pid_file, envVars>>

(* Seeded fault: start_child forgets to raise the flag.                    *)
set_child_alive_Missing ==
  /\ Goto("alive", "record")
  /\ UNCHANGED <<ret, attempt, script_rc, keyword_alert, signalVars,
                 childVars, g_stats, proc, pipeVars, pid_file, envVars>>

set_child_alive ==
  /\ Goto("alive", "record")
  /\ g_child_alive' = 1
  /\ UNCHANGED <<ret, attempt, script_rc, keyword_alert, signalVars,
                 g_child_pid, g_stats, proc, pipeVars, pid_file, envVars>>

(* Seeded fault: the PID file is written by the first start only.          *)
write_pid_file_Once ==
  /\ pc = "record"
  /\ pc' = IF ret = "main" THEN "loop" ELSE "settle"
  /\ pid_file' = IF ret = "main" THEN g_child_pid ELSE pid_file
  /\ UNCHANGED <<ret, attempt, script_rc, keyword_alert, signalVars, childVars,
                 g_stats, proc, pipeVars, envVars>>

write_pid_file ==
  /\ pc = "record"
  /\ pc' = IF ret = "main" THEN "loop" ELSE "settle"
  /\ \/ pid_file' = g_child_pid
     \/ "pidwrite" \in Faults /\ UNCHANGED pid_file
  /\ UNCHANGED <<ret, attempt, script_rc, keyword_alert, signalVars, childVars,
                 g_stats, proc, pipeVars, envVars>>

-----------------------------------------------------------------------------
(* stop_child(): three phases, each ending in a return to the caller        *)

(* umestored answers a SIGINT by shutting down, with or without something   *)
(* left to print; a second one may make it drop what it had to print.       *)
SendSigint(n) ==
  \E answer \in {"flushing", "closing"} :
    proc' = [proc EXCEPT ![g_child_pid] =
               CASE @ = "up"                  -> answer
                 [] @ = "flushing" /\ n > 1   -> answer
                 [] OTHER                     -> @]

(* The statement after the call: the script, the next attempt, or the end. *)
ReturnFromStop ==
  \/ /\ ret = "maint" /\ pc' = "maint"
     /\ UNCHANGED <<attempt, g_stats, g_running>>
  \/ ret = "retry" /\ AttemptFailed
  \/ /\ ret = "main" /\ pc' = "exited"
     /\ UNCHANGED <<attempt, g_stats, g_running>>

stop_nothing ==
  /\ pc = "stop"
  /\ g_child_alive = 0 \/ g_child_pid <= 0
  /\ ReturnFromStop
  /\ IF ret = "main" THEN AbandonChildren /\ ClosePipe
                     ELSE UNCHANGED <<proc, pipeVars>>
  /\ UNCHANGED <<ret, script_rc, keyword_alert, g_fast_shutdown,
                 g_first_int_time, childVars, pid_file, envVars>>

stop_phase1 ==
  /\ pc = "stop"
  /\ g_child_alive = 1 /\ g_child_pid > 0
  /\ IF g_fast_shutdown = 1
     THEN pc' = "phase2" /\ UNCHANGED proc
     ELSE pc' = "wait1" /\ SendSigint(1)
  /\ UNCHANGED <<ret, attempt, script_rc, keyword_alert, signalVars, childVars,
                 g_stats, pipeVars, pid_file, envVars>>

(* waitpid() got the child: cleanup_child_state() and return. *)
wait_for_child_exit ==
  /\ pc \in {"wait1", "wait2", "wait3"}
  /\ proc[g_child_pid] = "zombie"
  /\ ReturnFromStop
  /\ LET reaped == [proc EXCEPT ![g_child_pid] = "none"]
     IN  proc' = IF ret = "main" THEN Abandoned(reaped) ELSE reaped
  /\ g_child_alive' = 0 /\ g_child_pid' = 0
  /\ pid_file' = 0
  /\ ClosePipe
  /\ UNCHANGED <<ret, script_rc, keyword_alert, g_fast_shutdown,
                 g_first_int_time, envVars>>

(* shutdown_wait seconds have passed, or a second Ctrl-C cuts them short. *)
phase1_over ==
  /\ Goto("wait1", "phase2")
  /\ UNCHANGED <<ret, attempt, script_rc, keyword_alert, signalVars, childVars,
                 g_stats, proc, pipeVars, pid_file, envVars>>

stop_phase2 ==
  /\ Goto("phase2", "wait2")
  /\ SendSigint(2)
  /\ UNCHANGED <<ret, attempt, script_rc, keyword_alert, signalVars, childVars,
                 g_stats, pipeVars, pid_file, envVars>>

phase2_over ==
  /\ Goto("wait2", "phase3")
  /\ UNCHANGED <<ret, attempt, script_rc, keyword_alert, signalVars, childVars,
                 g_stats, proc, pipeVars, pid_file, envVars>>

(* SIGKILL; the SIGCHLD it causes clears g_child_alive. *)
stop_phase3 ==
  /\ Goto("phase3", "wait3")
  /\ proc' = [proc EXCEPT ![g_child_pid] = "zombie"]
  /\ g_child_alive' = 0
  /\ UNCHANGED <<ret, attempt, script_rc, keyword_alert, signalVars,
                 g_child_pid, g_stats, pipeVars, pid_file, envVars>>

-----------------------------------------------------------------------------
(* main_loop()                                                              *)

(* Seeded faults: main() returns without stop_child(), and the loop looks  *)
(* at the alert where it should look at g_running.                         *)
loop_top_NoStop ==
  /\ pc = "loop"
  /\ IF g_running = 1
     THEN pc' = "scan" /\ keyword_alert' = 0
     ELSE pc' = "exited" /\ UNCHANGED keyword_alert
  /\ UNCHANGED <<ret, attempt, script_rc, signalVars, childVars, g_stats, proc,
                 pipeVars, pid_file, envVars>>
loop_top_WrongFlag ==
  /\ pc = "loop"
  /\ IF keyword_alert = 0
     THEN pc' = "scan" /\ keyword_alert' = 0 /\ UNCHANGED ret
     ELSE pc' = "stop" /\ ret' = "main" /\ UNCHANGED keyword_alert
  /\ UNCHANGED <<attempt, script_rc, signalVars, childVars, g_stats, proc,
                 pipeVars, pid_file, envVars>>

loop_top ==
  /\ pc = "loop"
  /\ IF g_running = 1
     THEN pc' = "scan" /\ keyword_alert' = 0 /\ UNCHANGED ret
     ELSE pc' = "stop" /\ ret' = "main" /\ UNCHANGED keyword_alert
  /\ UNCHANGED <<attempt, script_rc, signalVars, childVars, g_stats, proc,
                 pipeVars, pid_file, envVars>>

(* read_child_output() drains the pipe; the tailed log may alert as well. *)
read_output ==
  /\ Goto("scan", "probe")
  /\ keyword_alert' \in {hot} \cup (IF LogFile THEN {1} ELSE {})
  /\ unread' = 0 /\ hot' = 0
  /\ UNCHANGED <<ret, attempt, script_rc, signalVars, childVars, g_stats, proc,
                 pipe, pid_file, envVars>>

test_child_alive ==
  /\ pc = "probe"
  /\ pc' = IF g_child_alive = 1 THEN "reap" ELSE "due"
  /\ UNCHANGED <<ret, attempt, script_rc, keyword_alert, signalVars, childVars,
                 g_stats, proc, pipeVars, pid_file, envVars>>

(* Seeded fault: the child is reaped, its pid and its flag are kept.       *)
ReapUnexpected_KeepsPid ==
  /\ proc' = [proc EXCEPT ![g_child_pid] = "none"]
  /\ UNCHANGED childVars
  /\ ClosePipe

(* check_child_alive(): a reaped child leaves the PID file where it is. *)
ReapUnexpected ==
  /\ proc' = [proc EXCEPT ![g_child_pid] = "none"]
  /\ g_child_alive' = 0 /\ g_child_pid' = 0
  /\ ClosePipe

check_child_alive ==
  /\ Goto("reap", "due")
  /\ IF g_child_pid > 0 /\ proc[g_child_pid] = "zombie"
     THEN ReapUnexpected
     ELSE UNCHANGED <<proc, childVars, pipeVars>>
  /\ UNCHANGED <<ret, attempt, script_rc, keyword_alert, signalVars, g_stats,
                 pid_file, envVars>>

not_due ==
  /\ Goto("due", "tail")
  /\ UNCHANGED <<ret, attempt, script_rc, keyword_alert, signalVars, childVars,
                 g_stats, proc, pipeVars, pid_file, envVars>>

loop_tail ==
  /\ Goto("tail", "loop")
  /\ g_running' = IF keyword_alert = 1 THEN 0 ELSE g_running
  /\ attempt' = 0 /\ script_rc' = 0 /\ ret' = "main"
  /\ UNCHANGED <<keyword_alert, g_fast_shutdown, g_first_int_time, childVars,
                 g_stats, proc, pipeVars, pid_file, envVars>>

-----------------------------------------------------------------------------
(* perform_maintenance()                                                    *)

(* Seeded fault: the script is run before the store is stopped.            *)
maintenance_due_NoStop ==
  /\ Goto("due", "maint")
  /\ initiated < MaxCycles
  /\ initiated' = initiated + 1
  /\ ret' = "maint"
  /\ files' = "kept"
  /\ UNCHANGED <<attempt, script_rc, keyword_alert, signalVars, childVars,
                 completed, errors, failed, proc, pipeVars, pid_file,
                 orphan_script, asked, boots>>

maintenance_due ==
  /\ Goto("due", "stop")
  /\ initiated < MaxCycles
  /\ initiated' = initiated + 1
  /\ ret' = "maint"
  /\ files' = "kept"
  /\ UNCHANGED <<attempt, script_rc, keyword_alert, signalVars, childVars,
                 completed, errors, failed, proc, pipeVars, pid_file,
                 orphan_script, asked, boots>>

(* run_maintenance_script(): exit code 127 when there is no script to run. *)
run_script ==
  /\ pc = "maint"
  /\ \/ pc' = "script" /\ UNCHANGED <<script_rc, attempt>>
     \/ pc' = "tier" /\ script_rc' = 127 /\ attempt' = 1
  /\ UNCHANGED <<ret, keyword_alert, signalVars, childVars, g_stats, proc,
                 pipeVars, pid_file, envVars>>

(* system() returns; the shell's own SIGCHLD, blocked until now, is handled. *)
script_ends ==
  /\ Goto("script", "tier")
  /\ script_rc' \in {0, 1}
  /\ attempt' = 1
  /\ g_child_alive' = 0
  /\ UNCHANGED <<ret, keyword_alert, signalVars, g_child_pid, g_stats, proc,
                 pipeVars, pid_file, envVars>>

tier ==
  /\ pc = "tier"
  /\ pc' = CASE attempt = 2 /\ script_rc # 0 -> "revert"
             [] attempt = 3                  -> "wipe"
             [] OTHER                        -> "fork"
  /\ ret' = "maint"
  /\ UNCHANGED <<attempt, script_rc, keyword_alert, signalVars, childVars,
                 g_stats, proc, pipeVars, pid_file, envVars>>

revert_from_backup ==
  /\ Goto("revert", "fork")
  /\ files' = "reverted"
  /\ g_child_alive' = 0
  /\ UNCHANGED <<ret, attempt, script_rc, keyword_alert, signalVars,
                 g_child_pid, g_stats, proc, pipeVars, pid_file,
                 orphan_script, asked, boots>>

wipe_directories ==
  /\ Goto("wipe", "fork")
  /\ files' = "wiped"
  /\ g_child_alive' = 0
  /\ UNCHANGED <<ret, attempt, script_rc, keyword_alert, signalVars,
                 g_child_pid, g_stats, proc, pipeVars, pid_file,
                 orphan_script, asked, boots>>

(* sleep(5) and the drain of the start-up output, whose result is ignored. *)
settle ==
  /\ Goto("settle", "verify")
  /\ unread' = 0 /\ hot' = 0
  /\ UNCHANGED <<ret, attempt, script_rc, keyword_alert, signalVars, childVars,
                 g_stats, proc, pipe, pid_file, envVars>>

(* Seeded fault: a cycle whose script failed counts as an error only.      *)
start_succeeded_ErrorOnly ==
  /\ Goto("verify", "tail")
  /\ ~(g_child_pid > 0 /\ proc[g_child_pid] = "zombie")
  /\ completed' = IF script_rc = 0 THEN completed + 1 ELSE completed
  /\ errors' = IF script_rc = 0 THEN errors ELSE errors + 1
  /\ UNCHANGED <<ret, attempt, script_rc, keyword_alert, signalVars, childVars,
                 initiated, failed, proc, pipeVars, pid_file, envVars>>

start_succeeded ==
  /\ Goto("verify", "tail")
  /\ ~(g_child_pid > 0 /\ proc[g_child_pid] = "zombie")
  /\ completed' = completed + 1
  /\ errors' = IF script_rc = 0 THEN errors ELSE errors + 1
  /\ UNCHANGED <<ret, attempt, script_rc, keyword_alert, signalVars, childVars,
                 initiated, failed, proc, pipeVars, pid_file, envVars>>

(* Seeded fault: every start is taken for a failed one.                    *)
start_died_Always ==
  /\ Goto("verify", "stop")
  /\ g_child_pid > 0
  /\ g_child_alive' = 0 /\ g_child_pid' = 0
  /\ ClosePipe
  /\ ret' = "retry"
  /\ UNCHANGED <<attempt, script_rc, keyword_alert, signalVars, g_stats, proc,
                 pid_file, envVars>>

start_died ==
  /\ Goto("verify", "stop")
  /\ g_child_pid > 0 /\ proc[g_child_pid] = "zombie"
  /\ ReapUnexpected
  /\ ret' = "retry"
  /\ UNCHANGED <<attempt, script_rc, keyword_alert, signalVars, g_stats,
                 pid_file, envVars>>

Wrapper ==
  \/ check_existing_pid_file \/ pipe_fails \/ fork_fails \/ fork_child
  \/ set_child_alive \/ write_pid_file
  \/ stop_nothing \/ stop_phase1 \/ wait_for_child_exit \/ phase1_over
  \/ stop_phase2 \/ phase2_over \/ stop_phase3
  \/ loop_top \/ read_output \/ test_child_alive \/ check_child_alive
  \/ not_due \/ loop_tail
  \/ maintenance_due \/ run_script \/ script_ends \/ tier
  \/ revert_from_backup \/ wipe_directories
  \/ settle \/ start_succeeded \/ start_died

-----------------------------------------------------------------------------
(* Signals to the wrapper                                                   *)

(* sig_handler() for SIGINT and SIGTERM: two within DOUBLE_INT_WINDOW are a *)
(* request to skip phase 1.                                                 *)
HandleShutdown ==
  /\ IF g_first_int_time = "recent"
     THEN g_fast_shutdown' = 1 /\ UNCHANGED g_first_int_time
     ELSE g_first_int_time' = "recent" /\ UNCHANGED g_fast_shutdown
  /\ g_running' = 0

sigterm ==
  /\ pc \in Running
  /\ HandleShutdown
  /\ asked' = 1
  /\ UNCHANGED <<wrapperVars, childVars, g_stats, proc, pipeVars, pid_file,
                 files, orphan_script, boots>>

(* system() ignores SIGINT in the caller until the shell has ended. *)
sigint ==
  /\ pc \in Running
  /\ IF pc \in InSystem THEN UNCHANGED signalVars ELSE HandleShutdown
  /\ asked' = 1
  /\ UNCHANGED <<wrapperVars, childVars, g_stats, proc, pipeVars, pid_file,
                 files, orphan_script, boots>>

(* DOUBLE_INT_WINDOW seconds pass after the first signal. *)
int_window_closes ==
  /\ g_first_int_time = "recent"
  /\ pc \in Running
  /\ g_first_int_time' = "stale"
  /\ UNCHANGED <<wrapperVars, g_running, g_fast_shutdown, childVars, g_stats,
                 proc, pipeVars, pid_file, envVars>>

-----------------------------------------------------------------------------
(* umestored, the kernel and the operator                                   *)

(* The store writes a line; a full pipe makes it wait. *)
store_logs(p) ==
  /\ proc[p] \in {"up", "flushing"}
  /\ p = pipe => unread < PipeCap
  /\ proc' = [proc EXCEPT ![p] = IF @ = "flushing" THEN "closing" ELSE @]
  /\ IF p = pipe
     THEN unread' = unread + 1 /\ hot' \in {hot, 1}
     ELSE UNCHANGED <<unread, hot>>
  /\ UNCHANGED <<wrapperVars, signalVars, childVars, g_stats, pipe, pid_file,
                 envVars>>

(* The store ends, asked or not; the wrapper's SIGCHLD handler runs. *)
store_dies(p) ==
  /\ proc[p] \in StoreLive
  /\ proc' = [proc EXCEPT ![p] = IF @ = "orphan" THEN "none" ELSE "zombie"]
  /\ g_child_alive' = IF proc[p] = "orphan" THEN g_child_alive ELSE 0
  /\ UNCHANGED <<wrapperVars, signalVars, g_child_pid, g_stats, pipeVars,
                 pid_file, envVars>>

(* The store is stopped or continued (SIGSTOP, SIGCONT): SA_NOCLDSTOP is    *)
(* not set, so this raises SIGCHLD too.                                     *)
job_control(p) ==
  /\ "jobcontrol" \in Faults
  /\ proc[p] \in ChildLive
  /\ g_child_alive = 1
  /\ g_child_alive' = 0
  /\ UNCHANGED <<wrapperVars, signalVars, g_child_pid, g_stats, proc, pipeVars,
                 pid_file, envVars>>

(* Another program gets, or gives back, a free process id. *)
recycle_pid(p) ==
  /\ "recycle" \in Faults
  /\ \/ proc[p] = "none" /\ proc' = [proc EXCEPT ![p] = "foreign"]
     \/ proc[p] = "foreign" /\ proc' = [proc EXCEPT ![p] = "none"]
  /\ UNCHANGED <<wrapperVars, signalVars, childVars, g_stats, pipeVars,
                 pid_file, envVars>>

(* The wrapper is killed; a script it was running goes on by itself. *)
crash ==
  /\ "crash" \in Faults
  /\ pc \in Running
  /\ pc' = "crashed"
  /\ orphan_script' = IF pc \in InSystem THEN 1 ELSE orphan_script
  /\ AbandonChildren /\ ClosePipe
  /\ UNCHANGED <<ret, attempt, script_rc, keyword_alert, signalVars, childVars,
                 g_stats, pid_file, files, asked, boots>>

orphan_script_ends ==
  /\ orphan_script = 1
  /\ orphan_script' = 0
  /\ UNCHANGED <<wrapperVars, signalVars, childVars, g_stats, proc, pipeVars,
                 pid_file, files, asked, boots>>

(* The operator starts the wrapper again: a new process, fresh globals. *)
restart_wrapper ==
  /\ pc \in Off
  /\ boots < MaxBoots
  /\ boots' = boots + 1
  /\ pc' = "boot" /\ ret' = "main" /\ attempt' = 0 /\ script_rc' = 0
  /\ keyword_alert' = 0
  /\ g_running' = 1 /\ g_fast_shutdown' = 0
  /\ g_first_int_time' = "never"
  /\ g_child_alive' = 0 /\ g_child_pid' = 0
  /\ initiated' = 0 /\ completed' = 0 /\ errors' = 0 /\ failed' = 0
  /\ asked' = 0 /\ files' = "kept"
  /\ UNCHANGED <<proc, pipeVars, pid_file, orphan_script>>

Environment ==
  \/ sigterm \/ sigint \/ int_window_closes
  \/ \E p \in Pids :
       store_logs(p) \/ store_dies(p) \/ job_control(p) \/ recycle_pid(p)
  \/ crash \/ orphan_script_ends \/ restart_wrapper

Next == Wrapper \/ Environment

Spec == Init /\ [][Next]_vars

(* The wrapper is a running process, and every wait in it is bounded. *)
FairSpec == Spec /\ WF_vars(Wrapper)

-----------------------------------------------------------------------------
(* Properties                                                               *)

TypeOK ==
  /\ pc \in PcState
  /\ ret \in {"main", "maint", "retry"}
  /\ attempt \in 0..RestartMax
  /\ script_rc \in {0, 1, 127}
  /\ keyword_alert \in {0, 1}
  /\ g_running \in {0, 1} /\ g_fast_shutdown \in {0, 1}
  /\ g_first_int_time \in {"never", "recent", "stale"}
  /\ g_child_alive \in {0, 1}
  /\ g_child_pid \in Pids \cup {-1, 0}
  /\ initiated \in Nat /\ completed \in Nat /\ errors \in Nat /\ failed \in Nat
  /\ proc \in [Pids -> ProcState]
  /\ pipe \in Pids \cup {0}
  /\ unread \in 0..PipeCap /\ hot \in {0, 1}
  /\ pid_file \in Pids \cup {-1, 0}
  /\ files \in {"kept", "reverted", "wiped"}
  /\ orphan_script \in {0, 1} /\ asked \in {0, 1}
  /\ boots \in Nat

(* At most one umestored runs on the store's files, whatever dies when and  *)
(* whichever of the three attempts of perform_maintenance is under way.     *)
OneStore == \A p, q \in LiveStores : p = q

(* The script, the revert and the wipe work on files no umestored has open. *)
FilesAtWork == pc \in InSystem \/ orphan_script = 1
MaintenanceExclusive == FilesAtWork => LiveStores = {}

(* kill() in stop_child only ever names an unreaped child of this wrapper:  *)
(* never -1 (a failed fork), 0, or an id the kernel may have given away.    *)
AboutToSignal ==
  \/ pc \in {"phase2", "phase3"}
  \/ pc = "stop" /\ g_child_alive = 1 /\ g_child_pid > 0
SignalsOnlyOwnChild ==
  AboutToSignal => g_child_pid \in Pids /\ proc[g_child_pid] \in OwnChild

(* At every point but the few statements between fork() and write_pid_file, *)
(* a killed wrapper leaves a PID file that names the store it leaves behind.*)
LiveStoreRecorded ==
  pc \notin {"alive", "record"} => \A p \in LiveStores : pid_file = p

(* Every initiated cycle ends in exactly one of completed and failed, a     *)
(* failed one is the last, and errors counts some of the completed ones.    *)
InCycle ==
  \/ pc \in InSystem \cup {"maint", "tier", "settle", "verify"}
  \/ pc \in {"fork", "alive", "record"} /\ ret = "maint"
  \/ pc \in {"stop", "wait1", "phase2", "wait2", "phase3", "wait3"}
       /\ ret \in {"maint", "retry"}
StatsConsistent ==
  /\ errors <= completed
  /\ pc # "crashed" =>
       initiated = completed + failed
                             + (IF InCycle THEN 1 ELSE 0)
  /\ failed > 0 => failed = 1 /\ g_running = 0

(* An orderly exit leaves no store behind. *)
ExitLeavesNoStore == pc = "exited" => LiveStores = {}

(* The supervisor implements StoreSupervisor: its live stores, and the job  *)
(* its program counter says it is doing on the files.                       *)
Job == CASE FilesAtWork   -> "files"
         [] pc = "exited" -> "halted"
         [] OTHER         -> "idle"
Supervisor == INSTANCE StoreSupervisor WITH stores <- LiveStores, job <- Job
ImplementsSupervisor == Supervisor!Spec

(* A store that the PID file names is never forgotten while it runs: no     *)
(* wrapper, restarted after a crash or not, removes or replaces that record.*)
RecordedUntilDead ==
  [][\A p \in LiveStores \cap LiveStores' : pid_file = p => pid_file' = p]_vars

(* Once g_running is cleared the wrapper gets to its exit, out of whichever *)
(* wait, attempt or maintenance step it was in.                             *)
ShutdownCompletes == (g_running = 0) ~> pc \in Off

(* A maintenance cycle always ends: with the store back or the loop over.   *)
MaintenanceTerminates == InCycle ~> pc \in {"tail", "exited", "crashed"}

=============================================================================
