-------------------------- MODULE StoreSupervisor --------------------------
(***************************************************************************)
(* What store_auto_maint promises for one store, whatever happens to the   *)
(* processes involved: one umestored at a time, files touched only while   *)
(* none runs, and nothing left running at an orderly end.                  *)
(***************************************************************************)
CONSTANT Pids

VARIABLES
  stores,  \* the umestored processes that run on the store's files
  job      \* "idle", "files" (the files are being worked on), "halted"

vars == <<stores, job>>

Init == stores = {} /\ job = "idle"

Launch ==
  /\ stores = {} /\ job = "idle"
  /\ \E p \in Pids : stores' = {p}
  /\ UNCHANGED job

End == stores # {} /\ stores' = {} /\ UNCHANGED job

WorkOnFiles == stores = {} /\ job = "idle" /\ job' = "files" /\ UNCHANGED stores

WorkDone == job = "files" /\ job' = "idle" /\ UNCHANGED stores

Halt == stores = {} /\ job = "idle" /\ job' = "halted" /\ UNCHANGED stores

Reboot == job = "halted" /\ job' = "idle" /\ UNCHANGED stores

Next == Launch \/ End \/ WorkOnFiles \/ WorkDone \/ Halt \/ Reboot

Spec == Init /\ [][Next]_vars
=============================================================================
