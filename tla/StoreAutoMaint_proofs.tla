----------------------- MODULE StoreAutoMaint_proofs -----------------------
(***************************************************************************)
(* Proofs about the supervisor for every set of process ids, every number  *)
(* of cycles and boots and every size of the pipe.                         *)
(***************************************************************************)
EXTENDS StoreAutoMaint, TLAPS

USE PidsAssumption, BoundsAssumption
    DEF RestartMax, ProcState, ChildLive, StoreLive, OwnChild, Off, InSystem,
        PcState, Running, wrapperVars, signalVars, childVars, g_stats,
        pipeVars, envVars

-----------------------------------------------------------------------------
(* The wrapper's view of its child, under every fault.                      *)

(* Between a call of stop_child and the end of start_child the flag is down.*)
FlagDown == {"boot", "maint", "script", "tier", "revert", "wipe", "fork",
             "alive", "exited"}
(* Statements at which g_child_pid names a process.                         *)
HasPid == {"alive", "record", "wait1", "phase2", "wait2", "phase3", "wait3"}

OwnInv ==
  /\ TypeOK
  /\ g_child_alive = 1 => g_child_pid \in Pids
  /\ pc \in HasPid => g_child_pid \in Pids
  /\ pc \in FlagDown => g_child_alive = 0
  /\ pc \in Running /\ g_child_pid \in Pids => proc[g_child_pid] \in OwnChild

LEMMA OwnInvInit == Init => OwnInv
  BY DEF Init, OwnInv, TypeOK, FlagDown, HasPid

LEMMA OwnInvStep == OwnInv /\ [Next]_vars => OwnInv'
<1> SUFFICES ASSUME OwnInv, [Next]_vars PROVE OwnInv'
  OBVIOUS
<1> USE DEF OwnInv, TypeOK, FlagDown, HasPid
<1>1. CASE check_existing_pid_file
  BY <1>1 DEF check_existing_pid_file, AbandonChildren, Abandoned, ClosePipe
<1>2. CASE pipe_fails
  BY <1>2 DEF pipe_fails, StartFailed, AttemptFailed, AbandonChildren,
     Abandoned, ClosePipe
<1>3. CASE fork_fails
  BY <1>3 DEF fork_fails, StartFailed, AttemptFailed, AbandonChildren,
     Abandoned, ClosePipe
<1>4. CASE fork_child
  BY <1>4 DEF fork_child, Goto, FreePids
<1>5. CASE set_child_alive
  BY <1>5 DEF set_child_alive, Goto
<1>6. CASE write_pid_file
  BY <1>6 DEF write_pid_file
<1>7. CASE stop_nothing
  <2>1. CASE ret = "main"
    BY <1>7, <2>1 DEF stop_nothing, ReturnFromStop, AttemptFailed,
       AbandonChildren, Abandoned, ClosePipe
  <2>2. CASE ret # "main"
    BY <1>7, <2>2 DEF stop_nothing, ReturnFromStop, AttemptFailed,
       AbandonChildren, Abandoned, ClosePipe
  <2>3. QED
    BY <2>1, <2>2
<1>8. CASE stop_phase1
  BY <1>8 DEF stop_phase1, SendSigint
<1>9. CASE wait_for_child_exit
  <2>1. CASE ret = "main"
    BY <1>9, <2>1 DEF wait_for_child_exit, ReturnFromStop, AttemptFailed,
       Abandoned, ClosePipe
  <2>2. CASE ret # "main"
    BY <1>9, <2>2 DEF wait_for_child_exit, ReturnFromStop, AttemptFailed,
       Abandoned, ClosePipe
  <2>3. QED
    BY <2>1, <2>2
<1>10. CASE phase1_over
  BY <1>10 DEF phase1_over, Goto
<1>11. CASE stop_phase2
  BY <1>11 DEF stop_phase2, Goto, SendSigint
<1>12. CASE phase2_over
  BY <1>12 DEF phase2_over, Goto
<1>13. CASE stop_phase3
  BY <1>13 DEF stop_phase3, Goto
<1>14. CASE loop_top
  BY <1>14 DEF loop_top
<1>15. CASE read_output
  BY <1>15 DEF read_output, Goto
<1>16. CASE test_child_alive
  BY <1>16 DEF test_child_alive
<1>17. CASE check_child_alive
  BY <1>17 DEF check_child_alive, Goto, ReapUnexpected, ClosePipe
<1>18. CASE not_due
  BY <1>18 DEF not_due, Goto
<1>19. CASE loop_tail
  BY <1>19 DEF loop_tail, Goto
<1>20. CASE maintenance_due
  BY <1>20 DEF maintenance_due, Goto
<1>21. CASE run_script
  BY <1>21 DEF run_script
<1>22. CASE script_ends
  BY <1>22 DEF script_ends, Goto
<1>23. CASE tier
  BY <1>23 DEF tier
<1>24. CASE revert_from_backup
  BY <1>24 DEF revert_from_backup, Goto
<1>25. CASE wipe_directories
  BY <1>25 DEF wipe_directories, Goto
<1>26. CASE settle
  BY <1>26 DEF settle, Goto
<1>27. CASE start_succeeded
  BY <1>27 DEF start_succeeded, Goto
<1>28. CASE start_died
  BY <1>28 DEF start_died, Goto, ReapUnexpected, ClosePipe
<1>29. CASE sigterm
  BY <1>29 DEF sigterm, HandleShutdown
<1>30. CASE sigint
  BY <1>30 DEF sigint, HandleShutdown
<1>31. CASE int_window_closes
  BY <1>31 DEF int_window_closes
<1>32. CASE crash
  BY <1>32 DEF crash, AbandonChildren, Abandoned, ClosePipe
<1>33. CASE orphan_script_ends
  BY <1>33 DEF orphan_script_ends
<1>34. CASE restart_wrapper
  BY <1>34 DEF restart_wrapper
<1>35. ASSUME NEW p \in Pids, store_logs(p) PROVE OwnInv'
  BY <1>35 DEF store_logs
<1>36. ASSUME NEW p \in Pids, store_dies(p) PROVE OwnInv'
  BY <1>36 DEF store_dies
<1>37. ASSUME NEW p \in Pids, job_control(p) PROVE OwnInv'
  BY <1>37 DEF job_control
<1>38. ASSUME NEW p \in Pids, recycle_pid(p) PROVE OwnInv'
  BY <1>38 DEF recycle_pid
<1>39. CASE UNCHANGED vars
  BY <1>39 DEF vars
<1>40. QED
  BY <1>1, <1>2, <1>3, <1>4, <1>5, <1>6, <1>7, <1>8, <1>9, <1>10, <1>11,
     <1>12, <1>13, <1>14, <1>15, <1>16, <1>17, <1>18, <1>19, <1>20, <1>21,
     <1>22, <1>23, <1>24, <1>25, <1>26, <1>27, <1>28, <1>29, <1>30, <1>31,
     <1>32, <1>33, <1>34, <1>35, <1>36, <1>37, <1>38, <1>39
     DEF Next, Wrapper, Environment

LEMMA OwnInvAlways == Spec => []OwnInv
  BY OwnInvInit, OwnInvStep, PTL DEF Spec

(* Every variable of the supervisor keeps its type.                         *)
THEOREM TypeCorrect == Spec => []TypeOK
<1>1. OwnInv => TypeOK
  BY DEF OwnInv
<1>2. QED
  BY <1>1, OwnInvAlways, PTL

(* stop_child signals only an unreaped child of this wrapper: crashes,      *)
(* failed forks, recycled ids and job control included.                     *)
THEOREM SignalsOwnChild == Spec => []SignalsOnlyOwnChild
<1>1. OwnInv => SignalsOnlyOwnChild
  BY DEF OwnInv, TypeOK, HasPid, SignalsOnlyOwnChild, AboutToSignal
<1>2. QED
  BY <1>1, OwnInvAlways, PTL

-----------------------------------------------------------------------------
(* One store, and none while its files are worked on.  This needs the two   *)
(* faults away that break it: a SIGCHLD that is not a death, and a crash    *)
(* that leaves a store or a script to the next wrapper.                     *)

(* What makes it inductive: a store that runs is the child g_child_pid      *)
(* names, and the flag is up unless start_child has yet to raise it.  The   *)
(* early return of stop_child, on a flag that is down, is then safe.        *)
SoleInv ==
  /\ OwnInv
  /\ pc # "crashed" /\ orphan_script = 0
  /\ \A p \in Pids : proc[p] # "orphan"
  /\ \A p \in Pids : proc[p] \in ChildLive =>
       p = g_child_pid /\ (g_child_alive = 1 \/ pc = "alive")

LEMMA SoleInvInit == Init => SoleInv
  BY OwnInvInit DEF Init, SoleInv

LEMMA SoleInvStep ==
  ASSUME "jobcontrol" \notin Faults, "crash" \notin Faults
  PROVE  SoleInv /\ [Next]_vars => SoleInv'
<1> SUFFICES ASSUME SoleInv, [Next]_vars PROVE SoleInv'
  OBVIOUS
<1>0. OwnInv'
  BY OwnInvStep DEF SoleInv
<1> USE DEF SoleInv, OwnInv, TypeOK, FlagDown, HasPid
<1>1. CASE check_existing_pid_file
  BY <1>0, <1>1 DEF check_existing_pid_file, AbandonChildren, Abandoned,
     ClosePipe
<1>2. CASE pipe_fails
  BY <1>0, <1>2 DEF pipe_fails, StartFailed, AttemptFailed, AbandonChildren,
     Abandoned, ClosePipe
<1>3. CASE fork_fails
  BY <1>0, <1>3 DEF fork_fails, StartFailed, AttemptFailed, AbandonChildren,
     Abandoned, ClosePipe
<1>4. CASE fork_child
  BY <1>0, <1>4 DEF fork_child, Goto, FreePids
<1>5. CASE set_child_alive
  BY <1>0, <1>5 DEF set_child_alive, Goto
<1>6. CASE write_pid_file
  BY <1>0, <1>6 DEF write_pid_file
<1>7. CASE stop_nothing
  <2>1. CASE ret = "main"
    BY <1>0, <1>7, <2>1 DEF stop_nothing, ReturnFromStop, AttemptFailed,
       AbandonChildren, Abandoned, ClosePipe
  <2>2. CASE ret # "main"
    BY <1>0, <1>7, <2>2 DEF stop_nothing, ReturnFromStop, AttemptFailed,
       AbandonChildren, Abandoned, ClosePipe
  <2>3. QED
    BY <2>1, <2>2
<1>8. CASE stop_phase1
  BY <1>0, <1>8 DEF stop_phase1, SendSigint
<1>9. CASE wait_for_child_exit
  <2>1. CASE ret = "main"
    BY <1>0, <1>9, <2>1 DEF wait_for_child_exit, ReturnFromStop,
       AttemptFailed, Abandoned, ClosePipe
  <2>2. CASE ret # "main"
    BY <1>0, <1>9, <2>2 DEF wait_for_child_exit, ReturnFromStop,
       AttemptFailed, Abandoned, ClosePipe
  <2>3. QED
    BY <2>1, <2>2
<1>10. CASE phase1_over
  BY <1>0, <1>10 DEF phase1_over, Goto
<1>11. CASE stop_phase2
  BY <1>0, <1>11 DEF stop_phase2, Goto, SendSigint
<1>12. CASE phase2_over
  BY <1>0, <1>12 DEF phase2_over, Goto
<1>13. CASE stop_phase3
  BY <1>0, <1>13 DEF stop_phase3, Goto
<1>14. CASE loop_top
  BY <1>0, <1>14 DEF loop_top
<1>15. CASE read_output
  BY <1>0, <1>15 DEF read_output, Goto
<1>16. CASE test_child_alive
  BY <1>0, <1>16 DEF test_child_alive
<1>17. CASE check_child_alive
  BY <1>0, <1>17 DEF check_child_alive, Goto, ReapUnexpected, ClosePipe
<1>18. CASE not_due
  BY <1>0, <1>18 DEF not_due, Goto
<1>19. CASE loop_tail
  BY <1>0, <1>19 DEF loop_tail, Goto
<1>20. CASE maintenance_due
  BY <1>0, <1>20 DEF maintenance_due, Goto
<1>21. CASE run_script
  BY <1>0, <1>21 DEF run_script
<1>22. CASE script_ends
  BY <1>0, <1>22 DEF script_ends, Goto
<1>23. CASE tier
  BY <1>0, <1>23 DEF tier
<1>24. CASE revert_from_backup
  BY <1>0, <1>24 DEF revert_from_backup, Goto
<1>25. CASE wipe_directories
  BY <1>0, <1>25 DEF wipe_directories, Goto
<1>26. CASE settle
  BY <1>0, <1>26 DEF settle, Goto
<1>27. CASE start_succeeded
  BY <1>0, <1>27 DEF start_succeeded, Goto
<1>28. CASE start_died
  BY <1>0, <1>28 DEF start_died, Goto, ReapUnexpected, ClosePipe
<1>29. CASE sigterm
  BY <1>0, <1>29 DEF sigterm, HandleShutdown
<1>30. CASE sigint
  BY <1>0, <1>30 DEF sigint, HandleShutdown
<1>31. CASE int_window_closes
  BY <1>0, <1>31 DEF int_window_closes
<1>32. CASE crash
  BY <1>0, <1>32 DEF crash, AbandonChildren, Abandoned, ClosePipe
<1>33. CASE orphan_script_ends
  BY <1>0, <1>33 DEF orphan_script_ends
<1>34. CASE restart_wrapper
  BY <1>0, <1>34 DEF restart_wrapper
<1>35. ASSUME NEW p \in Pids, store_logs(p) PROVE SoleInv'
  BY <1>0, <1>35 DEF store_logs
<1>36. ASSUME NEW p \in Pids, store_dies(p) PROVE SoleInv'
  BY <1>0, <1>36 DEF store_dies
<1>37. ASSUME NEW p \in Pids, job_control(p) PROVE SoleInv'
  BY <1>0, <1>37 DEF job_control
<1>38. ASSUME NEW p \in Pids, recycle_pid(p) PROVE SoleInv'
  BY <1>0, <1>38 DEF recycle_pid
<1>39. CASE UNCHANGED vars
  BY <1>0, <1>39 DEF vars
<1>40. QED
  BY <1>1, <1>2, <1>3, <1>4, <1>5, <1>6, <1>7, <1>8, <1>9, <1>10, <1>11,
     <1>12, <1>13, <1>14, <1>15, <1>16, <1>17, <1>18, <1>19, <1>20, <1>21,
     <1>22, <1>23, <1>24, <1>25, <1>26, <1>27, <1>28, <1>29, <1>30, <1>31,
     <1>32, <1>33, <1>34, <1>35, <1>36, <1>37, <1>38, <1>39
     DEF Next, Wrapper, Environment

LEMMA SoleInvAlways ==
  ASSUME "jobcontrol" \notin Faults, "crash" \notin Faults
  PROVE  Spec => []SoleInv
  BY SoleInvInit, SoleInvStep, PTL DEF Spec

LEMMA NoStoreWhenFlagDown ==
  SoleInv /\ pc \in FlagDown /\ pc # "alive" => LiveStores = {}
<1> SUFFICES ASSUME SoleInv, pc \in FlagDown, pc # "alive"
             PROVE  \A p \in Pids : proc[p] \notin StoreLive
  BY DEF LiveStores
<1>1. g_child_alive = 0
  BY DEF SoleInv, OwnInv
<1>2. QED
  BY <1>1 DEF SoleInv, OwnInv, TypeOK

LEMMA SoleInvImplies ==
  SoleInv => OneStore /\ MaintenanceExclusive /\ ExitLeavesNoStore
<1> SUFFICES ASSUME SoleInv
             PROVE  OneStore /\ MaintenanceExclusive /\ ExitLeavesNoStore
  OBVIOUS
<1>1. \A p \in LiveStores : p = g_child_pid
  BY DEF SoleInv, OwnInv, TypeOK, LiveStores
<1>2. OneStore
  BY <1>1 DEF OneStore
<1>3. MaintenanceExclusive
  BY NoStoreWhenFlagDown
  DEF SoleInv, FlagDown, MaintenanceExclusive, FilesAtWork
<1>4. ExitLeavesNoStore
  BY NoStoreWhenFlagDown DEF FlagDown, ExitLeavesNoStore
<1>5. QED
  BY <1>2, <1>3, <1>4

(* At most one umestored runs.                                              *)
THEOREM AtMostOneStore ==
  ASSUME "jobcontrol" \notin Faults, "crash" \notin Faults
  PROVE  Spec => []OneStore
  BY SoleInvAlways, SoleInvImplies, PTL

(* The script, the revert and the wipe run while no umestored does.         *)
THEOREM FilesExclusive ==
  ASSUME "jobcontrol" \notin Faults, "crash" \notin Faults
  PROVE  Spec => []MaintenanceExclusive
  BY SoleInvAlways, SoleInvImplies, PTL

(* An orderly exit, whatever led to it, leaves no umestored behind.         *)
THEOREM OrderlyExit ==
  ASSUME "jobcontrol" \notin Faults, "crash" \notin Faults
  PROVE  Spec => []ExitLeavesNoStore
  BY SoleInvAlways, SoleInvImplies, PTL

-----------------------------------------------------------------------------
(* The PID file                                                             *)

RecordInv == SoleInv /\ LiveStoreRecorded

LEMMA RecordInvStep ==
  ASSUME "jobcontrol" \notin Faults, "crash" \notin Faults,
         "pidwrite" \notin Faults
  PROVE  RecordInv /\ [Next]_vars => RecordInv'
<1> SUFFICES ASSUME RecordInv, [Next]_vars PROVE LiveStoreRecorded'
  BY SoleInvStep DEF RecordInv
<1>0. SoleInv'
  BY SoleInvStep DEF RecordInv
<1> USE DEF RecordInv, SoleInv, OwnInv, TypeOK, FlagDown, HasPid,
            LiveStoreRecorded, LiveStores
<1>1. CASE check_existing_pid_file
  BY <1>0, <1>1 DEF check_existing_pid_file, AbandonChildren, Abandoned,
     ClosePipe
<1>2. CASE pipe_fails
  BY <1>0, <1>2 DEF pipe_fails, StartFailed, AttemptFailed, AbandonChildren,
     Abandoned, ClosePipe
<1>3. CASE fork_fails
  BY <1>0, <1>3 DEF fork_fails, StartFailed, AttemptFailed, AbandonChildren,
     Abandoned, ClosePipe
<1>4. CASE fork_child
  BY <1>0, <1>4 DEF fork_child, Goto, FreePids
<1>5. CASE set_child_alive
  BY <1>0, <1>5 DEF set_child_alive, Goto
<1>6. CASE write_pid_file
  BY <1>0, <1>6 DEF write_pid_file
<1>7. CASE stop_nothing
  <2>1. CASE ret = "main"
    BY <1>0, <1>7, <2>1 DEF stop_nothing, ReturnFromStop, AttemptFailed,
       AbandonChildren, Abandoned, ClosePipe
  <2>2. CASE ret # "main"
    BY <1>0, <1>7, <2>2 DEF stop_nothing, ReturnFromStop, AttemptFailed,
       AbandonChildren, Abandoned, ClosePipe
  <2>3. QED
    BY <2>1, <2>2
<1>8. CASE stop_phase1
  BY <1>0, <1>8 DEF stop_phase1, SendSigint
<1>9. CASE wait_for_child_exit
  <2>1. CASE ret = "main"
    BY <1>0, <1>9, <2>1 DEF wait_for_child_exit, ReturnFromStop,
       AttemptFailed, Abandoned, ClosePipe
  <2>2. CASE ret # "main"
    BY <1>0, <1>9, <2>2 DEF wait_for_child_exit, ReturnFromStop,
       AttemptFailed, Abandoned, ClosePipe
  <2>3. QED
    BY <2>1, <2>2
<1>10. CASE phase1_over
  BY <1>0, <1>10 DEF phase1_over, Goto
<1>11. CASE stop_phase2
  BY <1>0, <1>11 DEF stop_phase2, Goto, SendSigint
<1>12. CASE phase2_over
  BY <1>0, <1>12 DEF phase2_over, Goto
<1>13. CASE stop_phase3
  BY <1>0, <1>13 DEF stop_phase3, Goto
<1>14. CASE loop_top
  BY <1>0, <1>14 DEF loop_top
<1>15. CASE read_output
  BY <1>0, <1>15 DEF read_output, Goto
<1>16. CASE test_child_alive
  BY <1>0, <1>16 DEF test_child_alive
<1>17. CASE check_child_alive
  BY <1>0, <1>17 DEF check_child_alive, Goto, ReapUnexpected, ClosePipe
<1>18. CASE not_due
  BY <1>0, <1>18 DEF not_due, Goto
<1>19. CASE loop_tail
  BY <1>0, <1>19 DEF loop_tail, Goto
<1>20. CASE maintenance_due
  BY <1>0, <1>20 DEF maintenance_due, Goto
<1>21. CASE run_script
  BY <1>0, <1>21 DEF run_script
<1>22. CASE script_ends
  BY <1>0, <1>22 DEF script_ends, Goto
<1>23. CASE tier
  BY <1>0, <1>23 DEF tier
<1>24. CASE revert_from_backup
  BY <1>0, <1>24 DEF revert_from_backup, Goto
<1>25. CASE wipe_directories
  BY <1>0, <1>25 DEF wipe_directories, Goto
<1>26. CASE settle
  BY <1>0, <1>26 DEF settle, Goto
<1>27. CASE start_succeeded
  BY <1>0, <1>27 DEF start_succeeded, Goto
<1>28. CASE start_died
  BY <1>0, <1>28 DEF start_died, Goto, ReapUnexpected, ClosePipe
<1>29. CASE sigterm
  BY <1>0, <1>29 DEF sigterm, HandleShutdown
<1>30. CASE sigint
  BY <1>0, <1>30 DEF sigint, HandleShutdown
<1>31. CASE int_window_closes
  BY <1>0, <1>31 DEF int_window_closes
<1>32. CASE crash
  BY <1>0, <1>32 DEF crash, AbandonChildren, Abandoned, ClosePipe
<1>33. CASE orphan_script_ends
  BY <1>0, <1>33 DEF orphan_script_ends
<1>34. CASE restart_wrapper
  BY <1>0, <1>34 DEF restart_wrapper
<1>35. ASSUME NEW p \in Pids, store_logs(p) PROVE LiveStoreRecorded'
  BY <1>0, <1>35 DEF store_logs
<1>36. ASSUME NEW p \in Pids, store_dies(p) PROVE LiveStoreRecorded'
  BY <1>0, <1>36 DEF store_dies
<1>37. ASSUME NEW p \in Pids, job_control(p) PROVE LiveStoreRecorded'
  BY <1>0, <1>37 DEF job_control
<1>38. ASSUME NEW p \in Pids, recycle_pid(p) PROVE LiveStoreRecorded'
  BY <1>0, <1>38 DEF recycle_pid
<1>39. CASE UNCHANGED vars
  BY <1>0, <1>39 DEF vars
<1>40. QED
  BY <1>1, <1>2, <1>3, <1>4, <1>5, <1>6, <1>7, <1>8, <1>9, <1>10, <1>11,
     <1>12, <1>13, <1>14, <1>15, <1>16, <1>17, <1>18, <1>19, <1>20, <1>21,
     <1>22, <1>23, <1>24, <1>25, <1>26, <1>27, <1>28, <1>29, <1>30, <1>31,
     <1>32, <1>33, <1>34, <1>35, <1>36, <1>37, <1>38, <1>39
     DEF Next, Wrapper, Environment

(* A kill of the wrapper at any statement but the two between fork() and    *)
(* write_pid_file() leaves a PID file that names the store left running.    *)
THEOREM CrashFindsPidFile ==
  ASSUME "jobcontrol" \notin Faults, "crash" \notin Faults,
         "pidwrite" \notin Faults
  PROVE  Spec => []LiveStoreRecorded
<1>1. Init => RecordInv
  BY SoleInvInit DEF RecordInv, Init, LiveStoreRecorded, LiveStores
<1>2. RecordInv => LiveStoreRecorded
  BY DEF RecordInv
<1>3. QED
  BY <1>1, <1>2, RecordInvStep, PTL DEF Spec

-----------------------------------------------------------------------------
(* The PID file across crashes.  Only job control is away: a SIGCHLD that   *)
(* is not a death makes stop_child() return early, and the next start_child *)
(* records its own store over the one that still runs.                      *)

(* What makes it inductive: the children of a wrapper that run are the one  *)
(* child it has a flag for, so a store of an earlier wrapper is an orphan;  *)
(* and past check_existing_pid_file() the PID file names no orphan.         *)
NamedInv ==
  /\ OwnInv
  /\ \A p \in Pids : proc[p] \in ChildLive =>
       /\ pc \in Running /\ p = g_child_pid
       /\ g_child_alive = 1 \/ pc = "alive"
  /\ pc \in Running \ {"boot"} /\ pid_file \in LiveStores => pid_file = g_child_pid

LEMMA NamedInvInit == Init => NamedInv
  BY OwnInvInit DEF Init, NamedInv

LEMMA NamedInvStep ==
  ASSUME "jobcontrol" \notin Faults
  PROVE  NamedInv /\ [Next]_vars => NamedInv'
<1> SUFFICES ASSUME NamedInv, [Next]_vars PROVE NamedInv'
  OBVIOUS
<1>0. OwnInv'
  BY OwnInvStep DEF NamedInv
<1> USE DEF NamedInv, OwnInv, TypeOK, FlagDown, HasPid, LiveStores
<1>1. CASE check_existing_pid_file
  BY <1>0, <1>1 DEF check_existing_pid_file, AbandonChildren, Abandoned, ClosePipe
<1>2. CASE pipe_fails
  BY <1>0, <1>2 DEF pipe_fails, StartFailed, AttemptFailed, AbandonChildren, Abandoned, ClosePipe
<1>3. CASE fork_fails
  BY <1>0, <1>3 DEF fork_fails, StartFailed, AttemptFailed, AbandonChildren, Abandoned, ClosePipe
<1>4. CASE fork_child
  BY <1>0, <1>4 DEF fork_child, Goto, FreePids
<1>5. CASE set_child_alive
  BY <1>0, <1>5 DEF set_child_alive, Goto
<1>6. CASE write_pid_file
  BY <1>0, <1>6 DEF write_pid_file
<1>7. CASE stop_nothing
  BY <1>0, <1>7 DEF stop_nothing, ReturnFromStop, AttemptFailed, AbandonChildren, Abandoned, ClosePipe
<1>8. CASE stop_phase1
  BY <1>0, <1>8 DEF stop_phase1, SendSigint
<1>9. CASE wait_for_child_exit
  BY <1>0, <1>9 DEF wait_for_child_exit, ReturnFromStop, AttemptFailed, Abandoned, ClosePipe
<1>10. CASE phase1_over
  BY <1>0, <1>10 DEF phase1_over, Goto
<1>11. CASE stop_phase2
  BY <1>0, <1>11 DEF stop_phase2, Goto, SendSigint
<1>12. CASE phase2_over
  BY <1>0, <1>12 DEF phase2_over, Goto
<1>13. CASE stop_phase3
  BY <1>0, <1>13 DEF stop_phase3, Goto
<1>14. CASE loop_top
  BY <1>0, <1>14 DEF loop_top
<1>15. CASE read_output
  BY <1>0, <1>15 DEF read_output, Goto
<1>16. CASE test_child_alive
  BY <1>0, <1>16 DEF test_child_alive
<1>17. CASE check_child_alive
  BY <1>0, <1>17 DEF check_child_alive, Goto, ReapUnexpected, ClosePipe
<1>18. CASE not_due
  BY <1>0, <1>18 DEF not_due, Goto
<1>19. CASE loop_tail
  BY <1>0, <1>19 DEF loop_tail, Goto
<1>20. CASE maintenance_due
  BY <1>0, <1>20 DEF maintenance_due, Goto
<1>21. CASE run_script
  BY <1>0, <1>21 DEF run_script
<1>22. CASE script_ends
  BY <1>0, <1>22 DEF script_ends, Goto
<1>23. CASE tier
  BY <1>0, <1>23 DEF tier
<1>24. CASE revert_from_backup
  BY <1>0, <1>24 DEF revert_from_backup, Goto
<1>25. CASE wipe_directories
  BY <1>0, <1>25 DEF wipe_directories, Goto
<1>26. CASE settle
  BY <1>0, <1>26 DEF settle, Goto
<1>27. CASE start_succeeded
  BY <1>0, <1>27 DEF start_succeeded, Goto
<1>28. CASE start_died
  BY <1>0, <1>28 DEF start_died, Goto, ReapUnexpected, ClosePipe
<1>29. CASE sigterm
  BY <1>0, <1>29 DEF sigterm, HandleShutdown
<1>30. CASE sigint
  BY <1>0, <1>30 DEF sigint, HandleShutdown
<1>31. CASE int_window_closes
  BY <1>0, <1>31 DEF int_window_closes
<1>32. CASE crash
  BY <1>0, <1>32 DEF crash, AbandonChildren, Abandoned, ClosePipe
<1>33. CASE orphan_script_ends
  BY <1>0, <1>33 DEF orphan_script_ends
<1>34. CASE restart_wrapper
  BY <1>0, <1>34 DEF restart_wrapper
<1>35. ASSUME NEW p \in Pids, store_logs(p) PROVE NamedInv'
  BY <1>0, <1>35 DEF store_logs
<1>36. ASSUME NEW p \in Pids, store_dies(p) PROVE NamedInv'
  BY <1>0, <1>36 DEF store_dies
<1>37. ASSUME NEW p \in Pids, job_control(p) PROVE NamedInv'
  BY <1>0, <1>37 DEF job_control
<1>38. ASSUME NEW p \in Pids, recycle_pid(p) PROVE NamedInv'
  BY <1>0, <1>38 DEF recycle_pid
<1>39. CASE UNCHANGED vars
  BY <1>0, <1>39 DEF vars
<1>40. QED
  BY <1>1, <1>2, <1>3, <1>4, <1>5, <1>6, <1>7, <1>8, <1>9, <1>10, <1>11,
     <1>12, <1>13, <1>14, <1>15, <1>16, <1>17, <1>18, <1>19, <1>20, <1>21,
     <1>22, <1>23, <1>24, <1>25, <1>26, <1>27, <1>28, <1>29, <1>30, <1>31,
     <1>32, <1>33, <1>34, <1>35, <1>36, <1>37, <1>38, <1>39
     DEF Next, Wrapper, Environment


(* The three statements that write the PID file write over no live store.   *)
LEMMA RecordKept ==
  ASSUME NamedInv, [Next]_vars,
         NEW p \in LiveStores, pid_file = p
  PROVE  pid_file' = p
<1>0. p \in Pids /\ proc[p] \in StoreLive
  BY DEF LiveStores
<1>1. CASE check_existing_pid_file
  BY <1>0, <1>1 DEF check_existing_pid_file
<1>2. CASE write_pid_file
  BY <1>0, <1>2 DEF write_pid_file, NamedInv
<1>3. CASE wait_for_child_exit
  BY <1>0, <1>3 DEF wait_for_child_exit, NamedInv
<1>4. CASE UNCHANGED pid_file
  BY <1>4
<1>5. \/ check_existing_pid_file \/ write_pid_file \/ wait_for_child_exit
      \/ UNCHANGED pid_file
  BY DEF Next, vars, Wrapper, Environment, StartFailed,
     pipe_fails, fork_fails, fork_child, set_child_alive, stop_nothing,
     stop_phase1, phase1_over, stop_phase2, phase2_over, stop_phase3,
     loop_top, read_output, test_child_alive, check_child_alive, not_due,
     loop_tail, maintenance_due, run_script, script_ends, tier,
     revert_from_backup, wipe_directories, settle, start_succeeded,
     start_died, sigterm, sigint, int_window_closes, crash,
     orphan_script_ends, restart_wrapper, store_logs, store_dies,
     job_control, recycle_pid
<1> QED
  BY <1>1, <1>2, <1>3, <1>4, <1>5

(* Whatever dies, fails or is recycled, and however often the wrapper is    *)
(* killed and started again, a live store that the PID file names stays the *)
(* one it names.                                                            *)
THEOREM RecordOutlives ==
  ASSUME "jobcontrol" \notin Faults
  PROVE  Spec => RecordedUntilDead
<1>1. NamedInv /\ [Next]_vars =>
        [\A p \in LiveStores \cap LiveStores' : pid_file = p => pid_file' = p]_vars
  BY RecordKept
<1>2. QED
  BY <1>1, NamedInvInit, NamedInvStep, PTL DEF Spec, RecordedUntilDead

-----------------------------------------------------------------------------
(* The statistics, under every fault                                        *)

(* A cycle that fails ends the loop: failed is still 0 wherever a cycle can *)
(* start or is under way.                                                   *)
StatsInv ==
  /\ TypeOK
  /\ StatsConsistent
  /\ pc \in {"boot", "fork", "alive", "record"} => ret # "retry"
  /\ pc = "boot" => ret = "main" /\ initiated = 0
  /\ pc \in {"revert", "wipe"} => ret = "maint"
  /\ InCycle \/ pc \in {"scan", "probe", "reap", "due"} => failed = 0

LEMMA StatsInvStep == StatsInv /\ OwnInv /\ [Next]_vars => StatsInv'
<1> SUFFICES ASSUME StatsInv, OwnInv, [Next]_vars PROVE StatsInv'
  OBVIOUS
<1>0. TypeOK'
  BY OwnInvStep DEF OwnInv
<1> USE DEF StatsInv, StatsConsistent, InCycle, TypeOK
<1>1. CASE check_existing_pid_file
  BY <1>0, <1>1 DEF check_existing_pid_file, AbandonChildren, Abandoned,
     ClosePipe
<1>2. CASE pipe_fails
  BY <1>0, <1>2 DEF pipe_fails, StartFailed, AttemptFailed, AbandonChildren,
     Abandoned, ClosePipe
<1>3. CASE fork_fails
  BY <1>0, <1>3 DEF fork_fails, StartFailed, AttemptFailed, AbandonChildren,
     Abandoned, ClosePipe
<1>4. CASE fork_child
  BY <1>0, <1>4 DEF fork_child, Goto, FreePids
<1>5. CASE set_child_alive
  BY <1>0, <1>5 DEF set_child_alive, Goto
<1>6. CASE write_pid_file
  BY <1>0, <1>6 DEF write_pid_file
<1>7. CASE stop_nothing
  <2>1. CASE ret = "main"
    BY <1>0, <1>7, <2>1 DEF stop_nothing, ReturnFromStop, AttemptFailed,
       AbandonChildren, Abandoned, ClosePipe
  <2>2. CASE ret # "main"
    BY <1>0, <1>7, <2>2 DEF stop_nothing, ReturnFromStop, AttemptFailed,
       AbandonChildren, Abandoned, ClosePipe
  <2>3. QED
    BY <2>1, <2>2
<1>8. CASE stop_phase1
  BY <1>0, <1>8 DEF stop_phase1, SendSigint
<1>9. CASE wait_for_child_exit
  <2>1. CASE ret = "main"
    BY <1>0, <1>9, <2>1 DEF wait_for_child_exit, ReturnFromStop,
       AttemptFailed, Abandoned, ClosePipe
  <2>2. CASE ret # "main"
    BY <1>0, <1>9, <2>2 DEF wait_for_child_exit, ReturnFromStop,
       AttemptFailed, Abandoned, ClosePipe
  <2>3. QED
    BY <2>1, <2>2
<1>10. CASE phase1_over
  BY <1>0, <1>10 DEF phase1_over, Goto
<1>11. CASE stop_phase2
  BY <1>0, <1>11 DEF stop_phase2, Goto, SendSigint
<1>12. CASE phase2_over
  BY <1>0, <1>12 DEF phase2_over, Goto
<1>13. CASE stop_phase3
  BY <1>0, <1>13 DEF stop_phase3, Goto
<1>14. CASE loop_top
  BY <1>0, <1>14 DEF loop_top
<1>15. CASE read_output
  BY <1>0, <1>15 DEF read_output, Goto
<1>16. CASE test_child_alive
  BY <1>0, <1>16 DEF test_child_alive
<1>17. CASE check_child_alive
  BY <1>0, <1>17 DEF check_child_alive, Goto, ReapUnexpected, ClosePipe
<1>18. CASE not_due
  BY <1>0, <1>18 DEF not_due, Goto
<1>19. CASE loop_tail
  BY <1>0, <1>19 DEF loop_tail, Goto
<1>20. CASE maintenance_due
  BY <1>0, <1>20 DEF maintenance_due, Goto
<1>21. CASE run_script
  BY <1>0, <1>21 DEF run_script
<1>22. CASE script_ends
  BY <1>0, <1>22 DEF script_ends, Goto
<1>23. CASE tier
  BY <1>0, <1>23 DEF tier
<1>24. CASE revert_from_backup
  BY <1>0, <1>24 DEF revert_from_backup, Goto
<1>25. CASE wipe_directories
  BY <1>0, <1>25 DEF wipe_directories, Goto
<1>26. CASE settle
  BY <1>0, <1>26 DEF settle, Goto
<1>27. CASE start_succeeded
  BY <1>0, <1>27 DEF start_succeeded, Goto
<1>28. CASE start_died
  BY <1>0, <1>28 DEF start_died, Goto, ReapUnexpected, ClosePipe
<1>29. CASE sigterm
  BY <1>0, <1>29 DEF sigterm, HandleShutdown
<1>30. CASE sigint
  BY <1>0, <1>30 DEF sigint, HandleShutdown
<1>31. CASE int_window_closes
  BY <1>0, <1>31 DEF int_window_closes
<1>32. CASE crash
  BY <1>0, <1>32 DEF crash, AbandonChildren, Abandoned, ClosePipe
<1>33. CASE orphan_script_ends
  BY <1>0, <1>33 DEF orphan_script_ends
<1>34. CASE restart_wrapper
  BY <1>0, <1>34 DEF restart_wrapper
<1>35. ASSUME NEW p \in Pids, store_logs(p) PROVE StatsInv'
  BY <1>0, <1>35 DEF store_logs
<1>36. ASSUME NEW p \in Pids, store_dies(p) PROVE StatsInv'
  BY <1>0, <1>36 DEF store_dies
<1>37. ASSUME NEW p \in Pids, job_control(p) PROVE StatsInv'
  BY <1>0, <1>37 DEF job_control
<1>38. ASSUME NEW p \in Pids, recycle_pid(p) PROVE StatsInv'
  BY <1>0, <1>38 DEF recycle_pid
<1>39. CASE UNCHANGED vars
  BY <1>0, <1>39 DEF vars
<1>40. QED
  BY <1>1, <1>2, <1>3, <1>4, <1>5, <1>6, <1>7, <1>8, <1>9, <1>10, <1>11,
     <1>12, <1>13, <1>14, <1>15, <1>16, <1>17, <1>18, <1>19, <1>20, <1>21,
     <1>22, <1>23, <1>24, <1>25, <1>26, <1>27, <1>28, <1>29, <1>30, <1>31,
     <1>32, <1>33, <1>34, <1>35, <1>36, <1>37, <1>38, <1>39
     DEF Next, Wrapper, Environment

(* Every initiated cycle is completed, failed or under way, and a failed    *)
(* one is the last of its wrapper.                                          *)
THEOREM StatsAddUp == Spec => []StatsConsistent
<1>1. Init => StatsInv
  BY OwnInvInit DEF OwnInv, StatsInv, StatsConsistent, InCycle, Init
<1>2. StatsInv => StatsConsistent
  BY DEF StatsInv
<1>3. QED
  BY <1>1, <1>2, StatsInvStep, OwnInvAlways, PTL DEF Spec

-----------------------------------------------------------------------------
(* Refinement: the supervisor implements StoreSupervisor                    *)

SameStores == LiveStores' = LiveStores

LEMMA SameStoresWhen ==
  (\A p \in Pids : proc'[p] \in StoreLive <=> proc[p] \in StoreLive)
    => SameStores
  BY DEF SameStores, LiveStores

LEMMA RefinementStep ==
  ASSUME "jobcontrol" \notin Faults, "crash" \notin Faults
  PROVE  SoleInv /\ SoleInv' /\ [Next]_vars
           => [Supervisor!Next]_Supervisor!vars
<1> SUFFICES ASSUME SoleInv, SoleInv', [Next]_vars
             PROVE  [Supervisor!Next]_Supervisor!vars
  OBVIOUS
<1>a. pc \in FlagDown /\ pc # "alive" => LiveStores = {}
  BY NoStoreWhenFlagDown
<1>b. pc' \in FlagDown /\ pc' # "alive" => LiveStores' = {}
  <2>1. (SoleInv /\ pc \in FlagDown /\ pc # "alive" => LiveStores = {})'
    BY NoStoreWhenFlagDown, PTL
  <2>2. QED
    BY <2>1
<1>c. orphan_script = 0 /\ orphan_script' = 0
  BY DEF SoleInv
<1>d. TypeOK /\ TypeOK'
  BY DEF SoleInv, OwnInv
<1> USE DEF Supervisor!Next, Supervisor!vars, Supervisor!Launch,
            Supervisor!End, Supervisor!WorkOnFiles, Supervisor!WorkDone,
            Supervisor!Halt, Supervisor!Reboot, Job, FilesAtWork, FlagDown
<1>1. CASE check_existing_pid_file
  <2>1. SameStores
    BY <1>1, <1>d, SameStoresWhen DEF check_existing_pid_file,
       AbandonChildren, Abandoned, ClosePipe, TypeOK, SoleInv, OwnInv, HasPid
  <2>2. QED
    BY <1>1, <2>1, <1>a, <1>b, <1>c DEF check_existing_pid_file,
       AbandonChildren, Abandoned, ClosePipe, SameStores
<1>2. CASE pipe_fails
  <2>1. SameStores
    BY <1>2, <1>d, SameStoresWhen DEF pipe_fails, StartFailed,
       AttemptFailed, AbandonChildren, Abandoned, ClosePipe, TypeOK, SoleInv,
       OwnInv, HasPid
  <2>2. QED
    BY <1>2, <2>1, <1>a, <1>b, <1>c DEF pipe_fails, StartFailed,
       AttemptFailed, AbandonChildren, Abandoned, ClosePipe, SameStores
<1>3. CASE fork_fails
  <2>1. SameStores
    BY <1>3, <1>d, SameStoresWhen DEF fork_fails, StartFailed,
       AttemptFailed, AbandonChildren, Abandoned, ClosePipe, TypeOK, SoleInv,
       OwnInv, HasPid
  <2>2. QED
    BY <1>3, <2>1, <1>a, <1>b, <1>c DEF fork_fails, StartFailed,
       AttemptFailed, AbandonChildren, Abandoned, ClosePipe, SameStores
<1>4. CASE fork_child
  <2>1. \E p \in Pids : LiveStores' = {p}
    BY <1>4, <1>a, <1>d DEF fork_child, Goto, FreePids, LiveStores, TypeOK
  <2>2. QED
    BY <1>4, <2>1, <1>a, <1>c DEF fork_child, Goto, FreePids
<1>5. CASE set_child_alive
  <2>1. SameStores
    BY <1>5, <1>d, SameStoresWhen DEF set_child_alive, Goto, TypeOK,
       SoleInv, OwnInv, HasPid
  <2>2. QED
    BY <1>5, <2>1, <1>a, <1>b, <1>c DEF set_child_alive, Goto, SameStores
<1>6. CASE write_pid_file
  <2>1. SameStores
    BY <1>6, <1>d, SameStoresWhen DEF write_pid_file, TypeOK, SoleInv,
       OwnInv, HasPid
  <2>2. QED
    BY <1>6, <2>1, <1>a, <1>b, <1>c DEF write_pid_file, SameStores
<1>7. CASE stop_nothing
  <2>1. SameStores
    BY <1>7, <1>d, SameStoresWhen DEF stop_nothing, ReturnFromStop,
       AttemptFailed, AbandonChildren, Abandoned, ClosePipe, TypeOK, SoleInv,
       OwnInv, HasPid
  <2>2. QED
    BY <1>7, <2>1, <1>a, <1>b, <1>c DEF stop_nothing, ReturnFromStop,
       AttemptFailed, AbandonChildren, Abandoned, ClosePipe, SameStores
<1>8. CASE stop_phase1
  <2>1. SameStores
    BY <1>8, <1>d, SameStoresWhen DEF stop_phase1, SendSigint, TypeOK,
       SoleInv, OwnInv, HasPid
  <2>2. QED
    BY <1>8, <2>1, <1>a, <1>b, <1>c DEF stop_phase1, SendSigint, SameStores
<1>9. CASE wait_for_child_exit
  <2>1. SameStores
    BY <1>9, <1>d, SameStoresWhen DEF wait_for_child_exit, ReturnFromStop,
       AttemptFailed, Abandoned, ClosePipe, TypeOK, SoleInv, OwnInv, HasPid
  <2>2. QED
    BY <1>9, <2>1, <1>a, <1>b, <1>c DEF wait_for_child_exit, ReturnFromStop,
       AttemptFailed, Abandoned, ClosePipe, SameStores
<1>10. CASE phase1_over
  <2>1. SameStores
    BY <1>10, <1>d, SameStoresWhen DEF phase1_over, Goto, TypeOK, SoleInv,
       OwnInv, HasPid
  <2>2. QED
    BY <1>10, <2>1, <1>a, <1>b, <1>c DEF phase1_over, Goto, SameStores
<1>11. CASE stop_phase2
  <2>1. SameStores
    BY <1>11, <1>d, SameStoresWhen DEF stop_phase2, Goto, SendSigint,
       TypeOK, SoleInv, OwnInv, HasPid
  <2>2. QED
    BY <1>11, <2>1, <1>a, <1>b, <1>c DEF stop_phase2, Goto, SendSigint,
       SameStores
<1>12. CASE phase2_over
  <2>1. SameStores
    BY <1>12, <1>d, SameStoresWhen DEF phase2_over, Goto, TypeOK, SoleInv,
       OwnInv, HasPid
  <2>2. QED
    BY <1>12, <2>1, <1>a, <1>b, <1>c DEF phase2_over, Goto, SameStores
<1>13. CASE stop_phase3
  <2>1. LiveStores' = {}
    <3>1. \A q \in Pids : q # g_child_pid => proc'[q] \notin StoreLive
      BY <1>13, <1>d DEF stop_phase3, Goto, TypeOK, SoleInv, OwnInv
    <3>2. g_child_pid \in Pids => proc'[g_child_pid] \notin StoreLive
      BY <1>13, <1>d DEF stop_phase3, Goto, TypeOK, SoleInv, OwnInv
    <3>3. QED
      BY <3>1, <3>2 DEF LiveStores
  <2>2. UNCHANGED Job
    <3>1. pc \notin InSystem \cup Off \/ pc' = pc
      BY <1>13 DEF stop_phase3, Goto
    <3>2. pc' \notin InSystem \cup Off \/ pc' = pc
      BY <1>13 DEF stop_phase3, Goto
    <3>3. QED
      BY <3>1, <3>2, <1>c
  <2>3. LiveStores # {} \/ SameStores
    BY <2>1 DEF SameStores
  <2>4. QED
    BY <2>1, <2>2, <2>3 DEF SameStores
<1>14. CASE loop_top
  <2>1. SameStores
    BY <1>14, <1>d, SameStoresWhen DEF loop_top, TypeOK, SoleInv, OwnInv,
       HasPid
  <2>2. QED
    BY <1>14, <2>1, <1>a, <1>b, <1>c DEF loop_top, SameStores
<1>15. CASE read_output
  <2>1. SameStores
    BY <1>15, <1>d, SameStoresWhen DEF read_output, Goto, TypeOK, SoleInv,
       OwnInv, HasPid
  <2>2. QED
    BY <1>15, <2>1, <1>a, <1>b, <1>c DEF read_output, Goto, SameStores
<1>16. CASE test_child_alive
  <2>1. SameStores
    BY <1>16, <1>d, SameStoresWhen DEF test_child_alive, TypeOK, SoleInv,
       OwnInv, HasPid
  <2>2. QED
    BY <1>16, <2>1, <1>a, <1>b, <1>c DEF test_child_alive, SameStores
<1>17. CASE check_child_alive
  <2>1. SameStores
    BY <1>17, <1>d, SameStoresWhen DEF check_child_alive, Goto,
       ReapUnexpected, ClosePipe, TypeOK, SoleInv, OwnInv, HasPid
  <2>2. QED
    BY <1>17, <2>1, <1>a, <1>b, <1>c DEF check_child_alive, Goto,
       ReapUnexpected, ClosePipe, SameStores
<1>18. CASE not_due
  <2>1. SameStores
    BY <1>18, <1>d, SameStoresWhen DEF not_due, Goto, TypeOK, SoleInv,
       OwnInv, HasPid
  <2>2. QED
    BY <1>18, <2>1, <1>a, <1>b, <1>c DEF not_due, Goto, SameStores
<1>19. CASE loop_tail
  <2>1. SameStores
    BY <1>19, <1>d, SameStoresWhen DEF loop_tail, Goto, TypeOK, SoleInv,
       OwnInv, HasPid
  <2>2. QED
    BY <1>19, <2>1, <1>a, <1>b, <1>c DEF loop_tail, Goto, SameStores
<1>20. CASE maintenance_due
  <2>1. SameStores
    BY <1>20, <1>d, SameStoresWhen DEF maintenance_due, Goto, TypeOK,
       SoleInv, OwnInv, HasPid
  <2>2. QED
    BY <1>20, <2>1, <1>a, <1>b, <1>c DEF maintenance_due, Goto, SameStores
<1>21. CASE run_script
  <2>1. SameStores
    BY <1>21, <1>d, SameStoresWhen DEF run_script, TypeOK, SoleInv, OwnInv,
       HasPid
  <2>2. QED
    BY <1>21, <2>1, <1>a, <1>b, <1>c DEF run_script, SameStores
<1>22. CASE script_ends
  <2>1. SameStores
    BY <1>22, <1>d, SameStoresWhen DEF script_ends, Goto, TypeOK, SoleInv,
       OwnInv, HasPid
  <2>2. QED
    BY <1>22, <2>1, <1>a, <1>b, <1>c DEF script_ends, Goto, SameStores
<1>23. CASE tier
  <2>1. SameStores
    BY <1>23, <1>d, SameStoresWhen DEF tier, TypeOK, SoleInv, OwnInv, HasPid
  <2>2. QED
    BY <1>23, <2>1, <1>a, <1>b, <1>c DEF tier, SameStores
<1>24. CASE revert_from_backup
  <2>1. SameStores
    BY <1>24, <1>d, SameStoresWhen DEF revert_from_backup, Goto, TypeOK,
       SoleInv, OwnInv, HasPid
  <2>2. QED
    BY <1>24, <2>1, <1>a, <1>b, <1>c DEF revert_from_backup, Goto, SameStores
<1>25. CASE wipe_directories
  <2>1. SameStores
    BY <1>25, <1>d, SameStoresWhen DEF wipe_directories, Goto, TypeOK,
       SoleInv, OwnInv, HasPid
  <2>2. QED
    BY <1>25, <2>1, <1>a, <1>b, <1>c DEF wipe_directories, Goto, SameStores
<1>26. CASE settle
  <2>1. SameStores
    BY <1>26, <1>d, SameStoresWhen DEF settle, Goto, TypeOK, SoleInv,
       OwnInv, HasPid
  <2>2. QED
    BY <1>26, <2>1, <1>a, <1>b, <1>c DEF settle, Goto, SameStores
<1>27. CASE start_succeeded
  <2>1. SameStores
    BY <1>27, <1>d, SameStoresWhen DEF start_succeeded, Goto, TypeOK,
       SoleInv, OwnInv, HasPid
  <2>2. QED
    BY <1>27, <2>1, <1>a, <1>b, <1>c DEF start_succeeded, Goto, SameStores
<1>28. CASE start_died
  <2>1. SameStores
    BY <1>28, <1>d, SameStoresWhen DEF start_died, Goto, ReapUnexpected,
       ClosePipe, TypeOK, SoleInv, OwnInv, HasPid
  <2>2. QED
    BY <1>28, <2>1, <1>a, <1>b, <1>c DEF start_died, Goto, ReapUnexpected,
       ClosePipe, SameStores
<1>29. CASE sigterm
  <2>1. SameStores
    BY <1>29, <1>d, SameStoresWhen DEF sigterm, HandleShutdown, TypeOK,
       SoleInv, OwnInv, HasPid
  <2>2. QED
    BY <1>29, <2>1, <1>a, <1>b, <1>c DEF sigterm, HandleShutdown, SameStores
<1>30. CASE sigint
  <2>1. SameStores
    BY <1>30, <1>d, SameStoresWhen DEF sigint, HandleShutdown, TypeOK,
       SoleInv, OwnInv, HasPid
  <2>2. QED
    BY <1>30, <2>1, <1>a, <1>b, <1>c DEF sigint, HandleShutdown, SameStores
<1>31. CASE int_window_closes
  <2>1. SameStores
    BY <1>31, <1>d, SameStoresWhen DEF int_window_closes, TypeOK, SoleInv,
       OwnInv, HasPid
  <2>2. QED
    BY <1>31, <2>1, <1>a, <1>b, <1>c DEF int_window_closes, SameStores
<1>32. CASE crash
  <2>1. SameStores
    BY <1>32, <1>d, SameStoresWhen DEF crash, AbandonChildren, Abandoned,
       ClosePipe, TypeOK, SoleInv, OwnInv, HasPid
  <2>2. QED
    BY <1>32, <2>1, <1>a, <1>b, <1>c DEF crash, AbandonChildren, Abandoned,
       ClosePipe, SameStores
<1>33. CASE orphan_script_ends
  <2>1. SameStores
    BY <1>33, <1>d, SameStoresWhen DEF orphan_script_ends, TypeOK, SoleInv,
       OwnInv, HasPid
  <2>2. QED
    BY <1>33, <2>1, <1>a, <1>b, <1>c DEF orphan_script_ends, SameStores
<1>34. CASE restart_wrapper
  <2>1. SameStores
    BY <1>34, <1>d, SameStoresWhen DEF restart_wrapper, TypeOK, SoleInv,
       OwnInv, HasPid
  <2>2. QED
    BY <1>34, <2>1, <1>a, <1>b, <1>c DEF restart_wrapper, SameStores
<1>35. ASSUME NEW p \in Pids, store_logs(p)
     PROVE  [Supervisor!Next]_Supervisor!vars
  <2>1. SameStores
    BY <1>35, <1>d, SameStoresWhen DEF store_logs, TypeOK, SoleInv, OwnInv,
       HasPid
  <2>2. QED
    BY <1>35, <2>1, <1>a, <1>b, <1>c DEF store_logs, SameStores
<1>36. ASSUME NEW p \in Pids, store_dies(p)
     PROVE  [Supervisor!Next]_Supervisor!vars
  <2>1. LiveStores' = {}
    <3>1. \A q \in Pids : q # g_child_pid => proc'[q] \notin StoreLive
      BY <1>36, <1>d DEF store_dies, TypeOK, SoleInv, OwnInv
    <3>2. g_child_pid \in Pids => proc'[g_child_pid] \notin StoreLive
      BY <1>36, <1>d DEF store_dies, TypeOK, SoleInv, OwnInv
    <3>3. QED
      BY <3>1, <3>2 DEF LiveStores
  <2>2. UNCHANGED Job
    <3>1. pc \notin InSystem \cup Off \/ pc' = pc
      BY <1>36 DEF store_dies
    <3>2. pc' \notin InSystem \cup Off \/ pc' = pc
      BY <1>36 DEF store_dies
    <3>3. QED
      BY <3>1, <3>2, <1>c
  <2>3. LiveStores # {} \/ SameStores
    BY <2>1 DEF SameStores
  <2>4. QED
    BY <2>1, <2>2, <2>3 DEF SameStores
<1>37. ASSUME NEW p \in Pids, job_control(p)
     PROVE  [Supervisor!Next]_Supervisor!vars
  <2>1. SameStores
    BY <1>37, <1>d, SameStoresWhen DEF job_control, TypeOK, SoleInv, OwnInv,
       HasPid
  <2>2. QED
    BY <1>37, <2>1, <1>a, <1>b, <1>c DEF job_control, SameStores
<1>38. ASSUME NEW p \in Pids, recycle_pid(p)
     PROVE  [Supervisor!Next]_Supervisor!vars
  <2>1. SameStores
    BY <1>38, <1>d, SameStoresWhen DEF recycle_pid, TypeOK, SoleInv, OwnInv,
       HasPid
  <2>2. QED
    BY <1>38, <2>1, <1>a, <1>b, <1>c DEF recycle_pid, SameStores
<1>39. CASE UNCHANGED vars
  BY <1>39 DEF vars, LiveStores
<1>40. QED
  BY <1>1, <1>2, <1>3, <1>4, <1>5, <1>6, <1>7, <1>8, <1>9, <1>10, <1>11,
     <1>12, <1>13, <1>14, <1>15, <1>16, <1>17, <1>18, <1>19, <1>20, <1>21,
     <1>22, <1>23, <1>24, <1>25, <1>26, <1>27, <1>28, <1>29, <1>30, <1>31,
     <1>32, <1>33, <1>34, <1>35, <1>36, <1>37, <1>38, <1>39
     DEF Next, Wrapper, Environment

(* The supervisor does what StoreSupervisor promises: one store at a time,  *)
(* its files worked on only while it is down, nothing running at the end.   *)
THEOREM Refinement ==
  ASSUME "jobcontrol" \notin Faults, "crash" \notin Faults
  PROVE  Spec => ImplementsSupervisor
<1>1. Init => Supervisor!Init
  BY DEF Init, Supervisor!Init, LiveStores, Job, FilesAtWork
<1>2. QED
  BY <1>1, RefinementStep, SoleInvAlways, PTL
  DEF Spec, ImplementsSupervisor, Supervisor!Spec
=============================================================================
