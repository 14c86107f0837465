------------------------- MODULE MCStoreAutoMaint -------------------------
(***************************************************************************)
(* What the documentation of store_auto_maint says of the program, stated *)
(* so that a run of the model can tell whether the code does it.          *)
(***************************************************************************)
EXTENDS StoreAutoMaint

-----------------------------------------------------------------------------
(* What the documentation says, and the code does not do                    *)

(* README, Signals: SIGCHLD "Detects unexpected child exit, triggers        *)
(* restart".  A child that has died is at some time waited for, whether or  *)
(* not a maintenance cycle comes due.                                       *)
ExitDetected == \A p \in Pids : proc[p] = "zombie" ~> proc[p] # "zombie"

(* README, Log Keyword Monitoring: "The parent process continuously scans   *)
(* the store's output".  A store that is shutting down never has to wait    *)
(* for a wrapper that waits for it.                                         *)
NeverBothWaiting ==
  ~(/\ pc \in {"wait1", "wait2"}
    /\ proc[g_child_pid] = "flushing" /\ pipe = g_child_pid
    /\ unread = PipeCap)
=============================================================================
