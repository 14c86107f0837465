---------------------------- MODULE RepoContract ----------------------------
(***************************************************************************)
(* What one run of umesnaprepo -P may do to one repository, in whichever   *)
(* of its cases the repository is dealt with and wherever it fails: the    *)
(* promise maintain_store.sh relies on.  SnapRepo is shown to keep it,     *)
(* MaintainStore uses it in place of the run.                              *)
(***************************************************************************)

(* "damaged": overwritten in part, or not in its place at all *)
Forms  == {"whole", "pruned", "damaged"}
Copies == {"none", "partial", "full"}

PruneResults ==
  {r \in [rc : {0, 1}, form : Forms, copy : Copies] :
     /\ r.form # "whole" => r.copy = "full"
     /\ r.rc = 0 => r.form # "damaged"}
=============================================================================
