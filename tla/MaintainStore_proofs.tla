------------------------ MODULE MaintainStore_proofs ------------------------
(***************************************************************************)
(* Proofs about the files of the stores, for every number of stores and of *)
(* cycles, and every set of faults.                                        *)
(***************************************************************************)
EXTENDS MaintainStore, TLAPS

(* Where the store's files are in the cycle.  A store that is not given up *)
(* has a cache of the epoch it accepted last; what was copied of it in     *)
(* this cycle is of that epoch too; and one of the two can be read.  The   *)
(* script comes to each store once, and a cache it has not come to is as   *)
(* umestored left it.  The dumps show the epoch of the cache at hand, the  *)
(* second one if that is not damaged.                                      *)
FilesInv ==
  /\ \A s \in Stores \ GivenUp : cache[s].epoch = accepted[s] /\ cache[s].form # "none"
  /\ \A s \in Stores \ GivenUp :
       s \in processed => copy[s].form \in {"damaged", "none"} \/ Holds(copy[s], s)
  /\ \A s \in Stores \ GivenUp : Held(s)
  /\ pc = "serving" => /\ \A s \in Stores : cache[s].form # "damaged"
                       /\ \A s \in Stores : cache[s].form = "scarred" => s \in trusted
                       /\ \A s \in Stores \ GivenUp : Readable(cache[s])
  /\ pc \in ScriptSteps \cup {"script"} =>
       /\ \A s \in Stores \ processed : cache[s].form # "damaged"
       /\ \A s \in Stores \ (processed \cup GivenUp) : Readable(cache[s])
  /\ pc = "script" => processed = {}
  /\ pc \in ScriptSteps => \A s \in processed : s <= i
  /\ pc = "clean" => i \notin processed
  /\ pc \in {"dump_prior", "prune"} =>
       /\ i \in processed /\ cache[i].form \notin {"damaged", "none"}
       /\ i \notin GivenUp => Readable(cache[i])
  /\ pc \in {"prune", "dump_post", "verify"} => prior = cache[i].epoch
  /\ pc \in {"dump_post", "verify"} => cache[i].form # "none"
  /\ pc = "verify" => post = Shown(cache[i])

(* What was copied in this cycle is no older than the cache it is of.      *)
CopyInv ==
  \A s \in processed : copy[s].form # "none" => copy[s].epoch >= cache[s].epoch

(* The exit status: 0 as long as every store behind the loop can be read.  *)
ResultInv ==
  /\ pc \in ScriptSteps /\ overall_result = 0 =>
       \A s \in Stores : s < i \/ (s = i /\ pc = "next") => cache[s].form # "damaged"
  /\ pc = "tier" /\ attempt = 1 /\ script_rc = 0 =>
       \A s \in Stores : cache[s].form # "damaged"
  /\ pc \in {"tier", "revert", "wipe", "start"} => attempt \in 1 .. 3

Inv == TypeOK /\ FilesInv /\ CopyInv /\ ResultInv

LEMMA StoresAreNats == Stores \subseteq Nat /\ 1 \in Stores
  BY StoresAssumption DEF Stores

LEMMA InvInit == Init => Inv
<1> SUFFICES ASSUME Init PROVE Inv
  OBVIOUS
<1>1. TypeOK
  BY StoresAreNats, FaultsAssumption DEF Init, TypeOK, Files, File, NoFile, CacheForms, Pcs
<1>2. FilesInv
  BY DEF Init, FilesInv, GivenUp, Held, Holds, Readable, File, ScriptSteps
<1>3. ResultInv /\ CopyInv
  BY DEF Init, ResultInv, CopyInv, ScriptSteps
<1> QED
  BY <1>1, <1>2, <1>3 DEF Inv

LEMMA FileOK ==
  ASSUME NEW f \in Files, NEW form \in CacheForms
  PROVE  [f EXCEPT !.form = form] \in Files /\ File(f.epoch, form) \in Files
  BY DEF Files, File

LEMMA NoFileOK == cycle \in Nat => NoFile \in Files
  BY DEF NoFile, Files, File, CacheForms

LEMMA AfterOK == ASSUME NEW f \in Files, NEW form \in Forms
                 PROVE  /\ After(f, form) \subseteq Files
                        /\ \A g \in After(f, form) :
                             /\ g.epoch = f.epoch
                             /\ g.form = "none" => f.form = "none"
                             /\ form # "damaged" /\ Readable(f) => Readable(g)
                             /\ form = "whole" => g = f
  BY FileOK DEF After, Files, File, CacheForms, Forms, Readable

LEMMA CopyOK == ASSUME cycle \in Nat, NEW f \in Files, NEW how \in Copies
                PROVE  CopyOf(f, how) \in Files
  BY FileOK, NoFileOK DEF CopyOf, Copies, CacheForms

ControlOK ==
  /\ pc \in Pcs /\ i \in Stores /\ overall_result \in {0, 1, 3}
  /\ script_rc \in {0, 1, 3, 127} /\ attempt \in 0 .. 3
  /\ cycle \in 0 .. MaxCycles

DataOK ==
  /\ cache \in [Stores -> Files] /\ copy \in [Stores -> Files]
  /\ accepted \in [Stores -> 0 .. cycle]
  /\ processed \subseteq Stores /\ overwritten \subseteq Stores
  /\ wiped \subseteq Stores /\ trusted \subseteq Stores
  /\ prior \in {NoSqn} \cup 0 .. cycle /\ post \in {NoSqn} \cup 0 .. cycle

LEMMA ControlStep == ControlOK /\ [Next]_vars => ControlOK'
<1> SUFFICES ASSUME ControlOK, [Next]_vars PROVE ControlOK'
  OBVIOUS
<1> USE DEF ControlOK, scriptVars, tierVars, Goto, Pcs, ScriptSteps
<1>1. CASE maintenance_due
  BY <1>1, FaultsAssumption DEF maintenance_due
<1>2. CASE no_script
  BY <1>2 DEF no_script
<1>3. CASE begin_script
  BY <1>3, StoresAreNats DEF begin_script
<1>4. CASE script_aborts
  BY <1>4 DEF script_aborts
<1>5. CASE clean
  BY <1>5 DEF clean, Step
<1>6. CASE dump_prior
  BY <1>6 DEF dump_prior, Step
<1>7. CASE prune
  BY <1>7 DEF prune
<1>8. CASE prune_loses
  BY <1>8 DEF prune_loses
<1>9. CASE dump_post
  BY <1>9 DEF dump_post, Step
<1>10. CASE verify
  BY <1>10 DEF verify
<1>11. CASE next_store
  BY <1>11, StoresAssumption DEF next_store, Stores
<1>12. CASE tier
  BY <1>12 DEF tier
<1>13. CASE revert_from_backup
  BY <1>13 DEF revert_from_backup
<1>14. CASE wipe_directories
  BY <1>14 DEF wipe_directories
<1>15. CASE start_succeeds
  BY <1>15 DEF start_succeeds
<1>16. CASE start_fails
  BY <1>16 DEF start_fails
<1>17. CASE UNCHANGED vars
  BY <1>17 DEF vars
<1> QED
  BY <1>1, <1>2, <1>3, <1>4, <1>5, <1>6, <1>7, <1>8, <1>9, <1>10, <1>11, <1>12,
     <1>13, <1>14, <1>15, <1>16, <1>17 DEF Next

LEMMA DataStep == ControlOK /\ DataOK /\ [Next]_vars => DataOK'
<1> SUFFICES ASSUME ControlOK, DataOK, [Next]_vars PROVE DataOK'
  OBVIOUS
<1> USE DEF DataOK, scriptVars, dumpVars, tierVars, dataVars, ghostVars, Goto
<1>a. cycle \in Nat /\ i \in Stores
  BY FaultsAssumption DEF ControlOK
<1>b. cycle' = cycle => Files' = Files
  BY DEF Files
<1>0. cycle \in Nat /\ i \in Stores /\ (cycle' = cycle => Files' = Files)
  BY <1>a, <1>b
<1>1. CASE maintenance_due
  <2>1. /\ cycle' = cycle + 1 /\ Files \subseteq Files'
        /\ \A s \in Stores : Grown(cache[s]) \in Files'
    BY <1>0, <1>1 DEF maintenance_due, Files, File, CacheForms, Grown
  <2>2. cache' \in [Stores -> Files'] /\ accepted' \in [Stores -> 0 .. cycle']
    BY <1>0, <1>1, <2>1 DEF maintenance_due
  <2>3. prior' \in {NoSqn} \cup 0 .. cycle' /\ post' \in {NoSqn} \cup 0 .. cycle'
    BY <1>0, <1>1, <2>1 DEF maintenance_due
  <2> QED
    BY <1>1, <2>1, <2>2, <2>3 DEF maintenance_due
<1>2. CASE no_script \/ begin_script \/ script_aborts \/ verify
        \/ next_store \/ tier \/ start_fails
  <2>1. UNCHANGED <<dumpVars, cycle, dataVars, ghostVars, processed>>
    BY <1>2 DEF no_script, begin_script, script_aborts, verify, next_store, tier, start_fails
  <2> QED
    BY <1>0, <2>1
<1>8. CASE dump_prior \/ dump_post
  <2>1. Shown(cache[i]) \in {NoSqn} \cup 0 .. cycle
    BY <1>0 DEF Shown, Files
  <2>2. UNCHANGED <<cycle, dataVars, ghostVars, processed>>
    BY <1>8 DEF dump_prior, dump_post
  <2>3. prior' \in {prior, Shown(cache[i])} /\ post' \in {post, Shown(cache[i])}
    BY <1>8 DEF dump_prior, dump_post
  <2> QED
    BY <1>0, <2>1, <2>2, <2>3
<1>9. CASE start_succeeds
  BY <1>0, <1>9 DEF start_succeeds
<1>3. CASE clean
  BY <1>0, <1>3, NoFileOK DEF clean, Step
<1>4. CASE prune \/ prune_loses
  <2>01. PICK form \in Forms, how \in Copies :
            \E f \in After(cache[i], form) :
              /\ cache' = [cache EXCEPT ![i] = f]
              /\ copy' = [copy EXCEPT ![i] = CopyOf(cache[i], how)]
    BY <1>4 DEF prune, prune_loses, PruneResults, Forms, Copies
  <2>1. PICK f \in After(cache[i], form) :
            /\ cache' = [cache EXCEPT ![i] = f]
            /\ copy' = [copy EXCEPT ![i] = CopyOf(cache[i], how)]
    BY <2>01
  <2>2. cache[i] \in Files
    BY <1>0
  <2>3. cache' \in [Stores -> Files] /\ copy' \in [Stores -> Files]
    BY <1>0, <2>1, <2>2, AfterOK, CopyOK
  <2> QED
    BY <1>0, <1>4, <2>3 DEF prune, prune_loses
<1>5. CASE revert_from_backup
  <2>1. ASSUME NEW s \in Stores PROVE Reverted(s) \subseteq Files
    <3>1. cache[s] \in Files /\ copy[s] \in Files /\ "damaged" \in CacheForms
      BY DEF CacheForms
    <3>2. File(copy[s].epoch, "damaged") \in Files
      BY <3>1, FileOK
    <3> QED
      BY <3>1, <3>2 DEF Reverted
  <2>2. cache' \in [Stores -> Files]
    BY <1>5, <2>1 DEF revert_from_backup
  <2> QED
    BY <1>0, <1>5, <2>2 DEF revert_from_backup
<1>6. CASE wipe_directories
  BY <1>0, <1>6, NoFileOK DEF wipe_directories
<1>7. CASE UNCHANGED vars
  BY <1>0, <1>7 DEF vars
<1> QED
  BY <1>1, <1>2, <1>3, <1>4, <1>5, <1>6, <1>7, <1>8, <1>9 DEF Next

LEMMA TypeStep == TypeOK /\ [Next]_vars => TypeOK'
  BY ControlStep, DataStep DEF TypeOK, ControlOK, DataOK

LEMMA PruneData ==
  prune \/ prune_loses =>
    \E form \in Forms, how \in Copies :
      \E f \in After(cache[i], form) :
        /\ cache' = [cache EXCEPT ![i] = f]
        /\ copy' = [copy EXCEPT ![i] = CopyOf(cache[i], how)]
        /\ form # "whole" => how = "full"
<1>1. CASE prune
  <2>1. PICK r \in PruneResults :
          \E f \in After(cache[i], r.form) :
            /\ cache' = [cache EXCEPT ![i] = f]
            /\ copy' = [copy EXCEPT ![i] = CopyOf(cache[i], r.copy)]
    BY <1>1 DEF prune
  <2>2. r.form \in Forms /\ r.copy \in Copies /\ (r.form # "whole" => r.copy = "full")
    BY DEF PruneResults
  <2> QED
    BY <2>1, <2>2
<1>2. CASE prune_loses
  <2>1. "damaged" \in Forms /\ "full" \in Copies
    BY DEF Forms, Copies
  <2> QED
    BY <1>2, <2>1 DEF prune_loses
<1> QED
  BY <1>1, <1>2

LEMMA FilesStep == TypeOK /\ FilesInv /\ [Next]_vars => FilesInv'
<1> SUFFICES ASSUME TypeOK, FilesInv, [Next]_vars PROVE FilesInv'
  OBVIOUS
<1> USE StoresAreNats
    DEF FilesInv, GivenUp, Held, Holds, Readable, File, NoFile, ScriptSteps, TypeOK, Files,
        CacheForms, Shown, scriptVars, dumpVars, tierVars, dataVars, ghostVars
<1>1. CASE maintenance_due
  <2>1. PICK busy \in SUBSET Stores :
          /\ cache' = [s \in Stores |-> IF s \in busy THEN Grown(cache[s]) ELSE cache[s]]
          /\ accepted' = [s \in Stores |-> IF s \in busy THEN cycle' ELSE accepted[s]]
          /\ overwritten' = overwritten \ busy /\ wiped' = wiped \ busy
          /\ trusted' = {s \in trusted : s \notin busy \/ cache[s].form = "scarred"}
    BY <1>1 DEF maintenance_due
  <2>2. /\ pc = "serving" /\ pc' = "script" /\ cycle' = cycle + 1 /\ processed' = {}
        /\ UNCHANGED copy
    BY <1>1 DEF maintenance_due, Goto
  <2>4. ASSUME NEW s \in Stores PROVE cache'[s].form # "damaged"
    BY <2>1, <2>2 DEF Grown
  <2>5. ASSUME NEW s \in Stores, s \notin GivenUp'
        PROVE  Holds(cache[s], s)' /\ Readable(cache[s])'
    <3>1. CASE s \in busy
      <4>1. s \notin trusted \/ cache[s].form # "scarred"
        BY <2>1, <2>5, <3>1
      <4>2. cache[s].form # "scarred"
        BY <2>2, <4>1
      <4>3. cache'[s] = File(cycle + 1, "whole") /\ accepted'[s] = cycle + 1
        BY <2>1, <2>2, <3>1, <4>2 DEF Grown
      <4> QED
        BY <4>3
    <3>2. CASE s \notin busy
      BY <2>1, <2>2, <2>5, <3>2
    <3> QED
      BY <3>1, <3>2
  <2> QED
    BY <2>1, <2>2, <2>4, <2>5
<1>2. CASE no_script
  BY <1>2 DEF no_script, Goto
<1>3. CASE begin_script
  BY <1>3 DEF begin_script, Goto
<1>4. CASE script_aborts
  BY <1>4 DEF script_aborts
<1>5. CASE clean
  <2>1. i \in Stores /\ i \notin processed /\ cache[i].form # "damaged"
    BY <1>5 DEF clean, Step, Goto
  <2>2. i \notin GivenUp => Readable(cache[i])
    BY <1>5, <2>1 DEF clean, Step, Goto
  <2>3. /\ pc = "clean" /\ (pc' = "dump_prior" => cache[i].form # "none")
        /\ pc' \in {"dump_prior", "next"}
        /\ processed' = processed \cup {i}
        /\ copy' = [copy EXCEPT ![i] = NoFile]
        /\ UNCHANGED <<i, cache, accepted, overwritten, wiped, trusted>>
    BY <1>5 DEF clean, Step, Goto
  <2>4. copy'[i].form = "none" /\ \A s \in Stores \ {i} : copy'[s] = copy[s]
    BY <2>1, <2>3
  <2> QED
    BY <2>1, <2>2, <2>3, <2>4
<1>6. CASE dump_prior
  BY <1>6 DEF dump_prior, Goto, Step
<1>7. CASE prune \/ prune_loses
  <2>1. pc = "prune" /\ i \in Stores /\ i \in Nat /\ i \in processed /\ cache[i].form # "damaged"
    BY <1>7 DEF prune, prune_loses, Goto
  <2>02. PICK form \in Forms, how \in Copies :
            \E f \in After(cache[i], form) :
              /\ cache' = [cache EXCEPT ![i] = f]
              /\ copy' = [copy EXCEPT ![i] = CopyOf(cache[i], how)]
              /\ form # "whole" => how = "full"
    BY <1>7, PruneData
  <2>2. PICK f \in After(cache[i], form) :
            /\ cache' = [cache EXCEPT ![i] = f]
            /\ copy' = [copy EXCEPT ![i] = CopyOf(cache[i], how)]
            /\ form # "whole" => how = "full"
    BY <2>02
  <2>3. /\ pc' \in {"dump_post", "next"}
        /\ UNCHANGED <<i, dumpVars, accepted, overwritten, wiped, trusted, processed>>
    BY <1>7 DEF prune, prune_loses, Goto
  <2>4. /\ f.epoch = cache[i].epoch /\ f.form # "none"
        /\ form # "damaged" /\ Readable(cache[i]) => Readable(f)
        /\ form = "whole" => f = cache[i]
    <3>1. cache[i] \in Files /\ cache[i].form # "none"
      BY <2>1
    <3> QED
      BY <3>1, AfterOK
  <2>5. /\ \A s \in Stores \ {i} : cache'[s] = cache[s] /\ copy'[s] = copy[s]
        /\ cache'[i] = f /\ copy'[i] = CopyOf(cache[i], how)
    BY <2>1, <2>2
  <2>6. /\ form # "whole" => copy'[i] = cache[i]
        /\ copy'[i].form # "none" => copy'[i].epoch = cache[i].epoch
    BY <2>2, <2>5 DEF CopyOf, Copies
  <2>7. i \notin GivenUp => Readable(cache[i])
    BY <2>1
  <2>8. i \notin GivenUp => Held(i)' /\ cache'[i].form # "none"
    BY <2>1, <2>3, <2>4, <2>5, <2>6, <2>7
  <2> QED
    <3>1. \A s \in (Stores \ GivenUp)' :
            /\ cache'[s].epoch = accepted'[s] /\ cache'[s].form # "none"
            /\ Held(s)'
      BY <2>1, <2>3, <2>4, <2>5, <2>8
    <3>2. \A s \in (Stores \ GivenUp)' : s \in processed' =>
            copy'[s].form \in {"damaged", "none"} \/ Holds(copy[s], s)'
      BY <2>1, <2>3, <2>5, <2>6, <2>7 DEF CopyOf, Copies
    <3>3. /\ \A s \in Stores \ processed : cache'[s].form # "damaged"
          /\ \A s \in Stores \ (processed \cup GivenUp) : Readable(cache'[s])
      <4>1. ASSUME NEW s \in Stores, s \notin processed PROVE cache'[s] = cache[s]
        <5> HIDE DEF FilesInv, TypeOK
        <5>1. s # i
          BY <2>1, <4>1
        <5> QED
          BY <2>5, <4>1, <5>1
      <4> QED
        BY <2>1, <4>1
    <3> QED
      BY <2>1, <2>3, <2>4, <2>5, <3>1, <3>2, <3>3
<1>8. CASE dump_post
  BY <1>8 DEF dump_post, Goto, Step
<1>9. CASE verify
  BY <1>9 DEF verify, Goto
<1>10. CASE next_store
  BY <1>10 DEF next_store
<1>11. CASE tier
  BY <1>11 DEF tier
<1>12. CASE revert_from_backup
  <2>1. /\ pc' = "start"
        /\ \A s \in Stores : cache'[s] \in Reverted(s)
        /\ UNCHANGED <<i, copy, accepted, wiped, trusted, processed>>
        /\ overwritten \subseteq overwritten'
    BY <1>12 DEF revert_from_backup, Goto
  <2>2. ASSUME NEW s \in Stores \ GivenUp'
        PROVE  /\ s \notin GivenUp
               /\ copy[s].form # "none" =>
                    Readable(copy[s]) /\ copy[s].epoch = accepted[s]
    <3>1. s \notin GivenUp
      BY <2>1
    <3>2. copy[s].form # "none" => copy[s].form # "damaged" /\ s \in processed
      BY <1>12 DEF revert_from_backup
    <3> QED
      BY <3>1, <3>2
  <2>3. ASSUME NEW s \in Stores \ GivenUp'
        PROVE  /\ cache'[s].epoch = accepted'[s] /\ cache'[s].form # "none"
               /\ Held(s)'
    <3>1. CASE copy[s].form = "none"
      <4>1. cache'[s] = cache[s]
        BY <2>1, <3>1 DEF Reverted
      <4> QED
        BY <2>1, <2>2, <3>1, <4>1
    <3>2. CASE copy[s].form # "none"
      <4>1. cache'[s] \in {copy[s], cache[s], File(copy[s].epoch, "damaged")}
        BY <2>1, <3>2 DEF Reverted
      <4>2. Holds(copy[s], s)'
        BY <2>1, <2>2, <3>2
      <4> QED
        BY <2>1, <2>2, <3>2, <4>1, <4>2
    <3> QED
      BY <3>1, <3>2
  <2> QED
    BY <2>1, <2>2, <2>3
<1>13. CASE wipe_directories
  BY <1>13 DEF wipe_directories, Goto
<1>14. CASE start_succeeds
  BY <1>14 DEF start_succeeds, Goto
<1>15. CASE start_fails
  BY <1>15 DEF start_fails
<1>16. CASE UNCHANGED vars
  BY <1>16 DEF vars
<1> QED
  BY <1>1, <1>2, <1>3, <1>4, <1>5, <1>6, <1>7, <1>8, <1>9, <1>10, <1>11, <1>12,
     <1>13, <1>14, <1>15, <1>16 DEF Next

LEMMA CopyStep == TypeOK /\ CopyInv /\ [Next]_vars => CopyInv'
<1> SUFFICES ASSUME TypeOK, CopyInv, [Next]_vars PROVE CopyInv'
  OBVIOUS
<1> USE DEF CopyInv, scriptVars, dumpVars, tierVars, dataVars, ghostVars
<1>0. /\ \A s \in Stores : cache[s] \in Files /\ copy[s] \in Files
      /\ i \in Stores /\ processed \subseteq Stores /\ cycle \in Nat
  BY FaultsAssumption DEF TypeOK
<1>1. \A f \in Files : f.epoch \in Nat
  BY <1>0 DEF Files
<1>2. CASE maintenance_due
  BY <1>2 DEF maintenance_due
<1>3. CASE clean
  <2>1. /\ processed' = processed \cup {i} /\ UNCHANGED cache
        /\ copy' = [copy EXCEPT ![i] = NoFile]
    BY <1>3 DEF clean
  <2> QED
    BY <1>0, <2>1 DEF TypeOK, NoFile, File
<1>4. CASE prune \/ prune_loses
  <2>01. PICK form \in Forms, how \in Copies :
            \E f \in After(cache[i], form) :
              /\ cache' = [cache EXCEPT ![i] = f]
              /\ copy' = [copy EXCEPT ![i] = CopyOf(cache[i], how)]
    BY <1>4 DEF prune, prune_loses, PruneResults, Forms, Copies
  <2>1. PICK f \in After(cache[i], form) :
            /\ cache' = [cache EXCEPT ![i] = f]
            /\ copy' = [copy EXCEPT ![i] = CopyOf(cache[i], how)]
    BY <2>01
  <2>2. f.epoch = cache[i].epoch
    BY <1>0, AfterOK
  <2>3. CopyOf(cache[i], how).form # "none" => CopyOf(cache[i], how).epoch = cache[i].epoch
    BY DEF CopyOf, Copies, NoFile, File
  <2>4. UNCHANGED processed
    BY <1>4 DEF prune, prune_loses
  <2> QED
    BY <1>0, <1>1, <2>1, <2>2, <2>3, <2>4 DEF TypeOK
<1>5. CASE revert_from_backup
  <2>1. /\ \A s \in Stores : cache'[s] \in Reverted(s)
        /\ UNCHANGED <<copy, processed>>
    BY <1>5 DEF revert_from_backup
  <2>2. ASSUME NEW s \in processed, copy[s].form # "none"
        PROVE  copy'[s].epoch >= cache'[s].epoch
    <3>1. cache'[s] \in {cache[s], copy[s], File(copy[s].epoch, "damaged")}
      BY <1>0, <2>1, <2>2 DEF Reverted
    <3>2. cache[s].epoch \in Nat /\ copy[s].epoch \in Nat /\ copy[s].epoch >= cache[s].epoch
      BY <1>0, <1>1, <2>2
    <3> QED
      BY <2>1, <3>1, <3>2 DEF File
  <2> QED
    BY <2>1, <2>2
<1>6. CASE wipe_directories
  BY <1>0, <1>1, <1>6 DEF wipe_directories, NoFile, File
<1>7. CASE UNCHANGED <<cache, copy, processed>>
  BY <1>7
<1>8. ASSUME no_script \/ begin_script \/ script_aborts \/ dump_prior \/ dump_post \/ verify
             \/ next_store \/ tier \/ start_succeeds \/ start_fails
      PROVE  UNCHANGED <<cache, copy, processed>>
  BY <1>8 DEF no_script, begin_script, script_aborts, dump_prior, dump_post, verify,
              next_store, tier, start_succeeds, start_fails
<1> QED
  BY <1>2, <1>3, <1>4, <1>5, <1>6, <1>7, <1>8 DEF Next, vars

LEMMA ResultStep == TypeOK /\ FilesInv /\ ResultInv /\ [Next]_vars => ResultInv'
<1> SUFFICES ASSUME TypeOK, FilesInv, ResultInv, [Next]_vars PROVE ResultInv'
  OBVIOUS
<1> USE StoresAreNats
    DEF FilesInv, ResultInv, Shown, File, NoFile, NoSqn, ScriptSteps, TypeOK, Files, Stores,
        scriptVars, dumpVars, tierVars, dataVars, ghostVars
<1>1. CASE maintenance_due
  BY <1>1 DEF maintenance_due, Goto
<1>2. CASE no_script
  BY <1>2 DEF no_script, Goto
<1>3. CASE begin_script
  BY <1>3 DEF begin_script, Goto
<1>4. CASE script_aborts
  BY <1>4 DEF script_aborts
<1>5. CASE clean
  BY <1>5 DEF clean, Goto, Step
<1>6. CASE dump_prior
  BY <1>6 DEF dump_prior, Goto, Step
<1>7. CASE prune
  BY <1>7 DEF prune
<1>8. CASE prune_loses
  BY <1>8 DEF prune_loses, Goto
<1>9. CASE dump_post
  BY <1>9 DEF dump_post, Goto, Step
<1>10. CASE verify
  BY <1>10 DEF verify, Goto
<1>11. CASE next_store
  BY <1>11 DEF next_store
<1>12. CASE tier
  BY <1>12 DEF tier
<1>13. CASE revert_from_backup
  BY <1>13 DEF revert_from_backup, Goto, Reverted
<1>14. CASE wipe_directories
  BY <1>14 DEF wipe_directories, Goto
<1>15. CASE start_succeeds
  BY <1>15 DEF start_succeeds, Goto
<1>16. CASE start_fails
  BY <1>16 DEF start_fails
<1>17. CASE UNCHANGED vars
  BY <1>17 DEF vars
<1> QED
  BY <1>1, <1>2, <1>3, <1>4, <1>5, <1>6, <1>7, <1>8, <1>9, <1>10, <1>11, <1>12,
     <1>13, <1>14, <1>15, <1>16, <1>17 DEF Next

LEMMA Invariant == Spec => []Inv
<1>1. Inv /\ [Next]_vars => Inv'
  BY TypeStep, FilesStep, CopyStep, ResultStep DEF Inv
<1> QED
  BY <1>1, InvInit, PTL DEF Spec

(* The variables hold what their declarations say.                         *)
THEOREM TypeCorrect == Spec => []TypeOK
<1>1. Inv => TypeOK
  BY DEF Inv
<1> QED
  BY <1>1, Invariant, PTL

(* No message is lost but by a wipe, by a revert that was given a copy     *)
(* that is unfinished or of another cycle, or by umestored coming up on a  *)
(* cache that is scarred, however umesnaprepo, the script and cp fail      *)
(* (maintain_store.sh, perform_maintenance).                               *)
THEOREM NothingElseLoses == Spec => []LostOnlyByRevertOrWipe
<1>1. Inv => LostOnlyByRevertOrWipe
  BY DEF Inv, FilesInv, LostOnlyByRevertOrWipe
<1> QED
  BY <1>1, Invariant, PTL

LEMMA RevertStep == Inv /\ revert_from_backup =>
                      \A s \in processed : cache'[s].epoch >= cache[s].epoch
<1> SUFFICES ASSUME Inv, revert_from_backup, NEW s \in processed
             PROVE  cache'[s].epoch >= cache[s].epoch
  OBVIOUS
<1>1. s \in Stores /\ cache[s].epoch \in Nat /\ cycle \in Nat
  BY FaultsAssumption DEF Inv, TypeOK, Files
<1>2. cache'[s] \in Reverted(s)
  BY <1>1 DEF revert_from_backup
<1>3. copy[s].form # "none" => copy[s].epoch >= cache[s].epoch
  BY DEF Inv, CopyInv
<1> QED
  BY <1>1, <1>2, <1>3 DEF Reverted, File

(* No revert, and nothing else but the wipe, gives a store the script has  *)
(* come to a cache older than the one it has: step 1 removes the backup of *)
(* the cycle before (maintain_store.sh) ahead of what can fail, and the    *)
(* revert of perform_maintenance copies what is there.                     *)
THEOREM NoOldCache == Spec => NeverOlder
<1>1. Inv /\ [Next]_vars
        => [\A s \in processed : cache'[s].epoch >= cache[s].epoch \/ pc = "wipe"]_vars
  <2> SUFFICES ASSUME Inv, [Next]_vars, NEW s \in processed
               PROVE  cache'[s].epoch >= cache[s].epoch \/ pc = "wipe"
    OBVIOUS
  <2>1. /\ s \in Stores /\ i \in Stores /\ cache \in [Stores -> Files]
        /\ cache[s].epoch \in 0 .. cycle /\ cycle \in Nat
    BY FaultsAssumption DEF Inv, TypeOK, Files
  <2>2. CASE maintenance_due
    BY <2>1, <2>2 DEF maintenance_due, Grown, File
  <2>3. CASE prune \/ prune_loses
    <3>01. PICK form \in Forms :
              \E f \in After(cache[i], form) :
                cache' = [cache EXCEPT ![i] = f]
      BY <2>3 DEF prune, prune_loses, PruneResults, Forms
    <3>1. PICK f \in After(cache[i], form) :
              cache' = [cache EXCEPT ![i] = f]
      BY <3>01
    <3>2. f.epoch = cache[i].epoch
      BY <2>1, AfterOK
    <3> QED
      BY <2>1, <3>1, <3>2
  <2>4. CASE revert_from_backup
    BY <2>4, RevertStep
  <2>5. CASE wipe_directories
    BY <2>5 DEF wipe_directories, Goto
  <2>6. CASE UNCHANGED cache
    BY <2>1, <2>6
  <2>7. ASSUME no_script \/ begin_script \/ script_aborts \/ clean \/ dump_prior
               \/ dump_post \/ verify \/ next_store \/ tier \/ start_succeeds
               \/ start_fails
        PROVE  UNCHANGED cache
    BY <2>7 DEF no_script, begin_script, script_aborts, clean, dump_prior, dump_post,
                verify, next_store, tier, start_succeeds, start_fails, dataVars
  <2> QED
    BY <2>2, <2>3, <2>4, <2>5, <2>6, <2>7 DEF Next, vars, dataVars
<1> QED
  BY <1>1, Invariant, PTL DEF Spec, NeverOlder

(* When the script ends with 0 every store's cache still shows the highest *)
(* sequence number it had before, whatever failed for which store          *)
(* (maintain_store.sh, its exit status).                                   *)
THEOREM StatusHonest == Spec => []ExitStatusHonest
<1>1. Inv => ExitStatusHonest
  <2> SUFFICES ASSUME Inv, pc = "tier", attempt = 1, script_rc = 0, NEW s \in Stores,
                      cache[s].form # "none"
               PROVE  Shown(cache[s]) = cache[s].epoch
    BY DEF ExitStatusHonest
  <2> QED
    BY DEF Inv, ResultInv, Shown
<1> QED
  BY <1>1, Invariant, PTL
=============================================================================
