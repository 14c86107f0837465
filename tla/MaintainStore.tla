--------------------------- MODULE MaintainStore ---------------------------
(***************************************************************************)
(* The files of the stores across maintenance cycles: maintain_store.sh,   *)
(* which runs umesnaprepo on one store after the other, and the three      *)
(* attempts of perform_maintenance to bring umestored back, which revert   *)
(* and wipe what the script has left.                                      *)
(*                                                                         *)
(* umestored is stopped while any of this runs (StoreAutoMaint), and one   *)
(* run of umesnaprepo -P is an outcome RepoContract allows (SnapRepo).     *)
(* The contents of a cache are named by their epoch: the number of cycles  *)
(* begun when the last of its messages was accepted; the highest sequence  *)
(* number a dump shows of it is the epoch again.                           *)
(***************************************************************************)
EXTENDS Integers, RepoContract

CONSTANTS
  NumStores,  \* stores of the XML configuration that -S lets through
  MaxCycles,  \* bound: maintenance cycles
  Faults      \* subset of AllFaults

(* "snaprepo": a run of umesnaprepo ends in an error.  "silent": it loses   *)
(* what it has written and does not notice.  "abort": set -e ends the       *)
(* script.  "noscript": the script or umesnaprepo is not there.  "cp": the  *)
(* cp of a revert fails.                                                    *)
AllFaults == {"snaprepo", "silent", "abort", "noscript", "cp"}

ASSUME StoresAssumption == NumStores \in Nat \ {0}
ASSUME FaultsAssumption == Faults \subseteq AllFaults /\ MaxCycles \in Nat

VARIABLES
  pc,
  i, overall_result,    \* maintain_store.sh
  prior, post,          \* highest number in the dumps of the store at hand
  script_rc, attempt,   \* perform_maintenance
  cycle,                \* cycles begun
  cache,                \* the cache file of each store
  copy,                 \* its copy under BACKUP_DIR
  (* observation only *)
  accepted,             \* epoch of the newest message each store accepted
  processed,            \* stores whose backup this cycle has begun anew
  overwritten,          \* stores a revert gave an unfinished or old copy
  wiped,
  trusted               \* stores umestored came up on although scarred

scriptVars == <<i, overall_result>>
dumpVars   == <<prior, post>>
tierVars   == <<script_rc, attempt>>
dataVars   == <<cache, copy>>
ghostVars  == <<accepted, overwritten, wiped, trusted>>
vars == <<pc, scriptVars, dumpVars, tierVars, cycle, dataVars, ghostVars,
          processed>>

Stores == 1..NumStores
ScriptSteps == {"clean", "dump_prior", "prune", "dump_post", "verify", "next"}
Pcs == ScriptSteps \cup {"serving", "script", "tier", "revert", "wipe", "start",
                         "halted"}

(* A file that is not as umestored or umesnaprepo means to leave it is      *)
(* "damaged" if a dump of it does not show its highest sequence number any  *)
(* more, and "scarred" if it does: a dump looks at little else.  "none":    *)
(* there are no state and cache files.                                      *)
CacheForms == {"whole", "pruned", "damaged", "scarred", "none"}
File(epoch, form) == [epoch |-> epoch, form |-> form]
NoFile == File(0, "none")
Readable(f) == f.form \in {"whole", "pruned"}

(* The highest sequence number in a dump, or that there is none, or another *)
(* than it was. *)
NoSqn == -1
Shown(f) == IF f.form \in {"damaged", "none"} THEN NoSqn ELSE f.epoch

Goto(from, to) == pc = from /\ pc' = to

Init ==
  /\ pc = "serving" /\ i = 1 /\ overall_result = 0
  /\ script_rc = 0 /\ attempt = 0 /\ cycle = 0
  /\ cache = [s \in Stores |-> File(0, "whole")]
  /\ copy = [s \in Stores |-> NoFile]
  /\ accepted = [s \in Stores |-> 0]
  /\ processed = {} /\ overwritten = {} /\ wiped = {} /\ trusted = {}
  /\ prior = NoSqn /\ post = NoSqn

-----------------------------------------------------------------------------
(* umestored has served since the last cycle, and some stores have accepted *)
(* messages, when the next cycle stops it.  New messages do not mend a      *)
(* scarred file.                                                            *)
Grown(f) == File(cycle + 1, IF f.form = "scarred" THEN "scarred" ELSE "whole")

maintenance_due ==
  /\ Goto("serving", "script")
  /\ cycle < MaxCycles
  /\ cycle' = cycle + 1
  /\ \E busy \in SUBSET Stores :
       /\ cache' = [s \in Stores |-> IF s \in busy THEN Grown(cache[s]) ELSE cache[s]]
       /\ accepted' = [s \in Stores |-> IF s \in busy THEN cycle'
                                                      ELSE accepted[s]]
       /\ overwritten' = overwritten \ busy /\ wiped' = wiped \ busy
       /\ trusted' = {s \in trusted : s \notin busy \/ cache[s].form = "scarred"}
  /\ processed' = {}
  /\ UNCHANGED <<dumpVars, scriptVars, tierVars, copy>>

-----------------------------------------------------------------------------
(* maintain_store.sh                                                        *)

(* 127 from the wrapper, 3 from the script when umesnaprepo is not found;   *)
(* a bare program name is not looked up on the PATH.                        *)
no_script ==
  /\ Goto("script", "tier") /\ "noscript" \in Faults
  /\ script_rc' \in {127, 3} /\ attempt' = 1
  /\ UNCHANGED <<dumpVars, scriptVars, cycle, dataVars, ghostVars, processed>>

begin_script ==
  /\ Goto("script", "clean")
  /\ i' = 1 /\ overall_result' = 0
  /\ UNCHANGED <<dumpVars, tierVars, cycle, dataVars, ghostVars, processed>>

(* A command outside an if fails (a full disk under the log, mkdir, rm). *)
script_aborts ==
  /\ pc \in ScriptSteps /\ "abort" \in Faults
  /\ pc' = "tier"
  /\ script_rc' = 1 /\ attempt' = 1
  /\ UNCHANGED <<dumpVars, scriptVars, cycle, dataVars, ghostVars, processed>>

(* A step of the loop body: on success the next step, on failure the next   *)
(* store ("continue").                                                      *)
Step(from, to) ==
  \/ Goto(from, to) /\ UNCHANGED overall_result
  \/ Goto(from, "next") /\ "snaprepo" \in Faults /\ overall_result' = 3

(* Seeded fault: the backup of the last cycle is kept. *)
clean_KeepsBackup ==
  /\ IF cache[i].form = "none"
     THEN Goto("clean", "next") /\ UNCHANGED overall_result
     ELSE Step("clean", "dump_prior")
  /\ processed' = processed \cup {i}
  /\ UNCHANGED <<dumpVars, i, tierVars, cycle, dataVars, ghostVars>>

(* rm -rf of the store's backup, and step 1; a store without files is none  *)
(* of an error.  -m0 moves only repositories that hold no message.          *)
clean ==
  /\ IF cache[i].form = "none"
     THEN Goto("clean", "next") /\ UNCHANGED overall_result
     ELSE Step("clean", "dump_prior")
  /\ copy' = [copy EXCEPT ![i] = NoFile]
  /\ processed' = processed \cup {i}
  /\ UNCHANGED <<dumpVars, i, tierVars, cycle, cache, ghostVars>>

(* Step 2, the dump before the prune. *)
dump_prior ==
  /\ Step("dump_prior", "prune")
  /\ prior' = Shown(cache[i])
  /\ UNCHANGED <<i, post, tierVars, cycle, dataVars, ghostVars, processed>>

(* What the copy holds: all of the cache, the beginning of it, or nothing. *)
CopyOf(f, how) == CASE how = "full"    -> f
                    [] how = "partial" -> File(f.epoch, "damaged")
                    [] how = "none"    -> NoFile

(* What a run of -P makes of cache f if its result has this form.  A dump   *)
(* may or may not tell a damaged cache; pruning does not mend a scarred one.*)
After(f, form) ==
  CASE form = "damaged" -> {File(f.epoch, "damaged"), File(f.epoch, "scarred")}
    [] form = "pruned" /\ Readable(f) -> {File(f.epoch, "pruned")}
    [] OTHER -> {f}

(* Step 3, with its exit status through the pipe (pipefail). *)
prune ==
  /\ pc = "prune"
  /\ \E r \in PruneResults :
       /\ r.rc = 1 => "snaprepo" \in Faults
       /\ \E f \in After(cache[i], r.form) : cache' = [cache EXCEPT ![i] = f]
       /\ copy' = [copy EXCEPT ![i] = CopyOf(cache[i], r.copy)]
       /\ IF r.rc = 0
          THEN pc' = "dump_post" /\ UNCHANGED overall_result
          ELSE pc' = "next" /\ overall_result' = 3
  /\ UNCHANGED <<i, dumpVars, tierVars, cycle, ghostVars, processed>>

(* Step 3 again: fclose() loses the pruned cache, the copy is good. *)
prune_loses ==
  /\ Goto("prune", "dump_post") /\ "silent" \in Faults
  /\ \E f \in After(cache[i], "damaged") : cache' = [cache EXCEPT ![i] = f]
  /\ copy' = [copy EXCEPT ![i] = CopyOf(cache[i], "full")]
  /\ UNCHANGED <<scriptVars, dumpVars, tierVars, cycle, ghostVars, processed>>

(* Seeded fault: the backup is cleaned after the prune as well. *)
dump_post_Cleans ==
  /\ Step("dump_post", "verify")
  /\ post' = Shown(cache[i])
  /\ copy' = [copy EXCEPT ![i] = NoFile]
  /\ UNCHANGED <<i, prior, tierVars, cycle, cache, ghostVars, processed>>

(* Step 4, the dump after the prune. *)
dump_post ==
  /\ Step("dump_post", "verify")
  /\ post' = Shown(cache[i])
  /\ UNCHANGED <<i, prior, tierVars, cycle, dataVars, ghostVars, processed>>

(* Seeded fault: a mismatch is logged, and that is all. *)
verify_Forgets ==
  /\ Goto("verify", "next")
  /\ UNCHANGED <<dumpVars, scriptVars, tierVars, cycle, dataVars, ghostVars, processed>>

(* Step 5: the lines with the highest sequence numbers of the two dumps are *)
(* compared, and nothing else; a grep that finds none is no failure.        *)
verify ==
  /\ Goto("verify", "next")
  /\ overall_result' = IF prior = post THEN overall_result ELSE 1
  /\ UNCHANGED <<i, dumpVars, tierVars, cycle, dataVars, ghostVars, processed>>

next_store ==
  /\ pc = "next"
  /\ IF i < NumStores
     THEN i' = i + 1 /\ pc' = "clean" /\ UNCHANGED tierVars
     ELSE /\ pc' = "tier" /\ script_rc' = overall_result /\ attempt' = 1
          /\ UNCHANGED i
  /\ UNCHANGED <<dumpVars, overall_result, cycle, dataVars, ghostVars, processed>>

-----------------------------------------------------------------------------
(* The attempts of perform_maintenance                                      *)

tier ==
  /\ pc = "tier"
  /\ pc' = CASE attempt = 2 /\ script_rc # 0 -> "revert"
             [] attempt = 3                  -> "wipe"
             [] OTHER                        -> "start"
  /\ UNCHANGED <<dumpVars, scriptVars, tierVars, cycle, dataVars, ghostVars, processed>>

(* What cp leaves of a store's cache; its exit status is ignored. *)
Reverted(s) ==
  IF copy[s].form = "none" THEN {cache[s]}
  ELSE {copy[s]} \cup
       (IF "cp" \in Faults THEN {cache[s], File(copy[s].epoch, "damaged")} ELSE {})

(* Every store is reverted, those that were maintained without an error and *)
(* those the script never came to as well.                                  *)
revert_from_backup ==
  /\ Goto("revert", "start")
  /\ cache' \in [Stores -> UNION {Reverted(s) : s \in Stores}]
  /\ \A s \in Stores : cache'[s] \in Reverted(s)
  /\ overwritten' = overwritten \cup
       {s \in Stores : \/ copy[s].form = "damaged"
                       \/ copy[s].form # "none" /\ s \notin processed}
  /\ UNCHANGED <<dumpVars, scriptVars, tierVars, cycle, copy, accepted, wiped,
                 trusted, processed>>

wipe_directories ==
  /\ Goto("wipe", "start")
  /\ cache' = [s \in Stores |-> NoFile]
  /\ wiped' = Stores
  /\ UNCHANGED <<dumpVars, scriptVars, tierVars, cycle, copy, accepted, overwritten,
                 trusted, processed>>

(* umestored stays up: not on a cache whose highest message it cannot find, *)
(* but it may on a scarred one.                                             *)
start_succeeds ==
  /\ Goto("start", "serving")
  /\ \A s \in Stores : cache[s].form # "damaged"
  /\ trusted' = trusted \cup {s \in Stores : cache[s].form = "scarred"}
  /\ UNCHANGED <<dumpVars, scriptVars, tierVars, cycle, dataVars, accepted, overwritten,
                 wiped, processed>>

start_fails ==
  /\ pc = "start"
  /\ IF attempt < 3
     THEN attempt' = attempt + 1 /\ pc' = "tier"
     ELSE pc' = "halted" /\ UNCHANGED attempt
  /\ UNCHANGED <<dumpVars, scriptVars, script_rc, cycle, dataVars, ghostVars, processed>>

Next ==
  \/ maintenance_due
  \/ no_script \/ begin_script \/ script_aborts
  \/ clean \/ dump_prior \/ prune \/ prune_loses \/ dump_post \/ verify
  \/ next_store
  \/ tier \/ revert_from_backup \/ wipe_directories
  \/ start_succeeds \/ start_fails

Spec == Init /\ [][Next]_vars

-----------------------------------------------------------------------------
(* Properties                                                               *)

Files == [epoch : 0 .. cycle, form : CacheForms]

TypeOK ==
  /\ pc \in Pcs /\ i \in Stores /\ overall_result \in {0, 1, 3}
  /\ script_rc \in {0, 1, 3, 127} /\ attempt \in 0..3
  /\ cycle \in 0..MaxCycles
  /\ prior \in {NoSqn} \cup 0..cycle /\ post \in {NoSqn} \cup 0..cycle
  /\ cache \in [Stores -> Files] /\ copy \in [Stores -> Files]
  /\ accepted \in [Stores -> 0..cycle]
  /\ processed \subseteq Stores /\ overwritten \subseteq Stores
  /\ wiped \subseteq Stores /\ trusted \subseteq Stores

(* The newest messages a store accepted are in a file that can be read. *)
Holds(f, s) == Readable(f) /\ f.epoch = accepted[s]
Held(s) == Holds(cache[s], s) \/ Holds(copy[s], s)
GivenUp == wiped \cup overwritten \cup trusted

(* Failures of umesnaprepo, of the script and of cp in any order lose no    *)
(* message in any other way than these: the directories are wiped, a revert *)
(* is given a copy that is unfinished or another cycle's, or umestored      *)
(* comes up on a cache that is scarred, and the next cycle removes the      *)
(* copy.  Otherwise what a store accepted is in its cache or its backup.    *)
LostOnlyByRevertOrWipe == \A s \in Stores \ GivenUp : Held(s)

(* A store the script has come to in this cycle never gets an older cache   *)
(* than it has, whatever failed and whichever stores a revert copies back:  *)
(* the backup of the cycle before is gone before any step can fail.  Only   *)
(* the wipe leaves it without its messages.                                 *)
NeverOlder ==
  [][\A s \in processed : cache'[s].epoch >= cache[s].epoch \/ pc = "wipe"]_vars

(* Exit status 0 of the script: every store's cache still shows the highest *)
(* sequence number it had, whichever store or step failed and in which      *)
(* order.  That the rest of the cache is undamaged it does not say.         *)
ExitStatusHonest ==
  pc = "tier" /\ attempt = 1 /\ script_rc = 0
    => \A s \in Stores : cache[s].form # "none" => Shown(cache[s]) = cache[s].epoch

=============================================================================
