--------------------------- MODULE SnapRepo_proofs ---------------------------
(***************************************************************************)
(* Proofs about one run of umesnaprepo, for every repository umestored may *)
(* have laid out, every threshold, and every size of the copy buffer.      *)
(***************************************************************************)
EXTENDS SnapRepo, TLAPS

CollectSteps == {"start", "prune"}
TailSteps    == {"tail", "tail_copy", "idx", "open", "chunk", "truncate"}
FilterSteps  == {"filter", "filter_open", "copy", "entries", "marker", "close",
                 "unlink", "rename"}
MoveSteps    == {"move", "move_cache", "move_idx"}
Ends         == {"exited", "killed"}

ControlInv ==
  /\ repo \in Repos /\ op \in {"prune", "move"}
  /\ pc \in CollectSteps \cup TailSteps \cup FilterSteps \cup MoveSteps \cup Ends
  /\ overall_rc \in {0, 1} /\ backup \in Copies
  /\ op = "prune" => pc \notin MoveSteps
  /\ op = "move" => pc \notin {"prune"} \cup TailSteps \cup FilterSteps
  /\ pc \in CollectSteps \/ op = "move" => action = "none"
  /\ pc \in TailSteps => action = "tail"
  /\ pc \in FilterSteps => action = "filter"

(* -m: the cache goes after the state. *)
MoveInv ==
  /\ cache_at = "dir" => state_at = "dir"
  /\ pc \in {"move_cache", "move_idx"} => state_at = "dir"

(* -P: the cache is as it was up to the first call that alters or removes  *)
(* it, and the copy is complete before that.                               *)
CopyInv ==
  op = "prune" =>
    /\ pc \in (CollectSteps \cup TailSteps \cup FilterSteps)
                \ {"chunk", "truncate", "rename"} => Untouched
    /\ pc \in {"idx", "open", "chunk", "truncate", "entries", "marker", "close",
               "unlink", "rename"} => backup = "full"
    /\ pc \in {"chunk", "truncate"} => cache_at = "place"
    /\ pc = "rename" => cache = Original
    /\ ~Untouched => backup = "full"

-----------------------------------------------------------------------------
LEMMA ControlInit == Init => ControlInv
  BY DEF Init, ControlInv, Copies, CollectSteps, TailSteps, FilterSteps, MoveSteps, Ends

LEMMA ControlStep == ControlInv /\ [Next]_vars => ControlInv'
<1> SUFFICES ASSUME ControlInv, [Next]_vars PROVE ControlInv'
  OBVIOUS
<1> USE DEF ControlInv, Copies, CollectSteps, TailSteps, FilterSteps, MoveSteps, Ends, Goto,
            fileVars, placeVars
<1>1. CASE locked \/ examine
  BY <1>1 DEF locked, examine
<1>2. CASE collect_error \/ collect_nothing
  BY <1>2 DEF collect_error, collect_nothing, Collected
<1>3. CASE collect_last \/ collect_tail \/ collect_filter
  BY <1>3 DEF collect_last, collect_tail, collect_filter, Collected
<1>4. CASE tail_open \/ tail_copy \/ move_idx
  BY <1>4 DEF tail_open, tail_copy, move_idx, CopyToDir
<1>5. CASE prune_open \/ prune_bails
  BY <1>5 DEF prune_open, prune_bails
<1>6. CASE copy_chunk \/ chunks_done \/ truncate
  BY <1>6 DEF copy_chunk, chunks_done, truncate
<1>7. CASE filter_open \/ filter_copy
  BY <1>7 DEF filter_open, filter_copy, CopyToDir, Fail
<1>8. CASE write_entry \/ entries_done \/ write_marker \/ close_tmp
  BY <1>8 DEF write_entry, entries_done, write_marker, close_tmp
<1>9. CASE unlink_cache \/ rename_tmp
  BY <1>9 DEF unlink_cache, rename_tmp
<1>10. CASE skip_repo \/ move_state \/ move_cache \/ move_its_idx \/ move_fails
  BY <1>10 DEF skip_repo, move_state, move_cache, move_its_idx, move_fails, Moving
<1>11. CASE io_fails
  BY <1>11 DEF io_fails, Fail
<1>12. CASE killed
  BY <1>12 DEF killed
<1>13. CASE UNCHANGED vars
  BY <1>13 DEF vars
<1> QED
  BY <1>1, <1>2, <1>3, <1>4, <1>5, <1>6, <1>7, <1>8, <1>9, <1>10, <1>11, <1>12, <1>13
     DEF Next, Program

LEMMA MoveStep == ControlInv /\ MoveInv /\ [Next]_vars => MoveInv'
<1> SUFFICES ASSUME ControlInv, MoveInv, [Next]_vars PROVE MoveInv'
  OBVIOUS
<1> USE DEF MoveInv, Goto, fileVars, placeVars
<1>1. CASE locked \/ examine
  BY <1>1 DEF locked, examine, ControlInv
<1>2. CASE collect_error \/ collect_nothing \/ collect_last \/ collect_tail \/ collect_filter
  BY <1>2 DEF collect_error, collect_nothing, collect_last, collect_tail, collect_filter,
              Collected
<1>3. CASE tail_open \/ tail_copy \/ move_idx \/ prune_open \/ prune_bails
  BY <1>3 DEF tail_open, tail_copy, move_idx, prune_open, prune_bails
<1>4. CASE copy_chunk \/ chunks_done \/ truncate
  BY <1>4 DEF copy_chunk, chunks_done, truncate
<1>5. CASE filter_open \/ filter_copy
  BY <1>5 DEF filter_open, filter_copy, Fail
<1>6. CASE write_entry \/ entries_done \/ write_marker \/ close_tmp
  BY <1>6 DEF write_entry, entries_done, write_marker, close_tmp
<1>7. CASE unlink_cache \/ rename_tmp
  BY <1>7 DEF unlink_cache, rename_tmp
<1>8. CASE skip_repo \/ move_state \/ move_cache \/ move_its_idx \/ move_fails
  BY <1>8 DEF skip_repo, move_state, move_cache, move_its_idx, move_fails, Moving
<1>9. CASE io_fails \/ killed
  BY <1>9 DEF io_fails, Fail, killed
<1>10. CASE UNCHANGED vars
  BY <1>10 DEF vars
<1> QED
  BY <1>1, <1>2, <1>3, <1>4, <1>5, <1>6, <1>7, <1>8, <1>9, <1>10 DEF Next, Program

(* moveFilesToDirectory: -m never takes a cache file from under a state    *)
(* file that stays, wherever it fails or is killed.                        *)
THEOREM CacheAfterState == Spec => []CacheFollowsState
<1>1. Init => ControlInv /\ MoveInv
  BY ControlInit DEF Init, MoveInv
<1>2. ControlInv /\ MoveInv /\ [Next]_vars => (ControlInv /\ MoveInv)'
  BY ControlStep, MoveStep
<1>3. MoveInv => CacheFollowsState
  BY DEF MoveInv, CacheFollowsState
<1> QED
  BY <1>1, <1>2, <1>3, PTL DEF Spec

-----------------------------------------------------------------------------
LEMMA CopyInit == Init => CopyInv
  BY DEF Init, CopyInv, Untouched

LEMMA CopyStep == "silent" \notin Faults /\ ControlInv /\ CopyInv /\ [Next]_vars => CopyInv'
<1> SUFFICES ASSUME "silent" \notin Faults, ControlInv, CopyInv, [Next]_vars PROVE CopyInv'
  OBVIOUS
<1> USE DEF ControlInv, CopyInv, Untouched, Original, CollectSteps, TailSteps, FilterSteps,
            MoveSteps, Ends, Goto, fileVars, placeVars
<1>1. CASE locked \/ examine
  BY <1>1 DEF locked, examine
<1>2. CASE collect_error \/ collect_nothing
  BY <1>2 DEF collect_error, collect_nothing, Collected
<1>3. CASE collect_last \/ collect_tail \/ collect_filter
  BY <1>3 DEF collect_last, collect_tail, collect_filter, Collected
<1>4. CASE tail_open \/ tail_copy \/ move_idx
  BY <1>4 DEF tail_open, tail_copy, move_idx, CopyToDir
<1>5. CASE prune_open \/ prune_bails
  BY <1>5 DEF prune_open, prune_bails
<1>6. CASE copy_chunk \/ chunks_done \/ truncate
  BY <1>6 DEF copy_chunk, chunks_done, truncate
<1>7. CASE filter_open \/ filter_copy
  BY <1>7 DEF filter_open, filter_copy, CopyToDir, Fail
<1>8. CASE write_entry \/ entries_done \/ write_marker \/ close_tmp
  BY <1>8 DEF write_entry, entries_done, write_marker, close_tmp
<1>9. CASE unlink_cache \/ rename_tmp
  BY <1>9 DEF unlink_cache, rename_tmp
<1>10. CASE skip_repo \/ move_state \/ move_cache \/ move_its_idx \/ move_fails
  BY <1>10 DEF skip_repo, move_state, move_cache, move_its_idx, move_fails, Moving
<1>11. CASE io_fails
  BY <1>11 DEF io_fails, Fail
<1>12. CASE killed
  BY <1>12 DEF killed
<1>13. CASE UNCHANGED vars
  BY <1>13 DEF vars
<1> QED
  BY <1>1, <1>2, <1>3, <1>4, <1>5, <1>6, <1>7, <1>8, <1>9, <1>10, <1>11, <1>12, <1>13
     DEF Next, Program

(* "copy original cache file to DIR directory": the cache file is altered  *)
(* or removed only when its copy is complete.                              *)
THEOREM CopyFirst ==
  ASSUME "silent" \notin Faults
  PROVE  Spec => []CopyBeforeDamage
<1>1. Init => ControlInv /\ CopyInv
  BY ControlInit, CopyInit
<1>2. ControlInv /\ CopyInv /\ [Next]_vars => (ControlInv /\ CopyInv)'
  BY ControlStep, CopyStep
<1>3. CopyInv => CopyBeforeDamage
  BY DEF CopyInv, CopyBeforeDamage
<1> QED
  BY <1>1, <1>2, <1>3, PTL DEF Spec

-----------------------------------------------------------------------------
(* What is to be kept, and how a pruned file ends.                          *)

Needed(s) ==
  /\ Readable(s) /\ ~PassedOver(s)
  /\ (s = repo.high_sqn \/ (TimeOrdered /\ Message(s).tsp > Threshold))

Ended(file, size) ==
  /\ size \in MarkerSz .. repo.size /\ DOMAIN file = 0 .. size - 1
  /\ \A i \in 1 .. MarkerSz - OffsetSz :
       file[size - MarkerSz + i - 1] = repo.bytes[repo.end_offset + i - 1]
  /\ ~PassedOver(repo.high_sqn) =>
       size > MarkerSz /\ file[size - MarkerSz - 1] = repo.bytes[To(repo, repo.high_sqn) - 1]
  /\ action = "filter" \/ InOneChunk => \A i \in 1 .. OffsetSz : file[size - i] = Zero

(* The front of the cache is cut where the first message that is needed    *)
(* begins or before it, and the newest message ends where the marker is;   *)
(* otherwise prune_file_inplace finds nothing remaining and bails.         *)
TailChoice ==
  action = "tail" =>
    /\ msg_offset \in Nat
    /\ remaining > 0 =>
         /\ repo.high_sqn \in Sqns(repo) /\ msg_offset <= From(repo, repo.high_sqn)
         /\ To(repo, repo.high_sqn) = repo.end_offset
         /\ \A s \in Sqns(repo) :
              Needed(s) => msg_offset <= From(repo, s) /\ To(repo, s) <= repo.end_offset

FilterChoice == action = "filter" => Prunable /\ Wrapped

ChoiceInv == TailChoice /\ FilterChoice

LEMMA RepoFacts ==
  ASSUME NEW r \in Repos
  PROVE  /\ RepoOK(r)
         /\ r.size \in Nat /\ r.low_sqn \in Nat /\ r.high_sqn \in Nat
         /\ r.start_offset \in Nat /\ r.start_offset <= r.size
         /\ r.end_offset \in Nat /\ r.end_offset + MarkerSz <= r.size
         /\ \A s \in Sqns(r) :
              /\ s \in Nat /\ r.msg[s].tsp \in Int
              /\ Record(r, s) \in Nat \ {0}
              /\ From(r, s) \in Nat /\ To(r, s) \in Nat /\ To(r, s) <= r.size
              /\ To(r, s) = From(r, s) + Record(r, s)
              /\ Distance(r, s) \in Int
  BY ReposAssumption, SizesAssumption DEF RepoOK, Sqns, From, To, Distance, Record

LEMMA Sizes ==
  /\ Threshold \in Int
  /\ OffsetSz \in Nat /\ OffsetSz > 0 /\ MarkerSz \in Nat /\ MarkerSz >= OffsetSz
  /\ BufSize \in Nat /\ BufSize >= OffsetSz
  BY SizesAssumption

(* In a cache that is not wrapped a later message lies further back. *)
LEMMA InOrder ==
  ASSUME NEW r \in Repos, r.start_offset < r.end_offset, NEW s \in Sqns(r), NEW t \in Sqns(r)
  PROVE  /\ s < t => To(r, s) <= From(r, t)
         /\ To(r, s) <= r.end_offset
         /\ s = r.high_sqn => To(r, s) = r.end_offset
  BY RepoFacts DEF RepoOK, LaidOut, Distance, From, To

(* In one that is, the messages and the marker fit into the file.          *)
LEMMA FitsIn ==
  ASSUME NEW r \in Repos, r.start_offset >= r.end_offset, r.high_sqn \in Sqns(r)
  PROVE  /\ Distance(r, r.high_sqn) + Record(r, r.high_sqn) + MarkerSz <= r.size
         /\ \A s \in Sqns(r) : Distance(r, s) >= 0
<1> USE RepoFacts, Sizes
<1> DEFINE h == r.high_sqn
<1>1. From(r, h) >= r.start_offset \/ To(r, h) = r.end_offset
  BY DEF RepoOK, LaidOut
<1>2. CASE From(r, h) >= r.start_offset
  BY <1>2 DEF Distance, RepoOK, LaidOut
<1>3. CASE From(r, h) < r.start_offset /\ To(r, h) = r.end_offset
  BY <1>3 DEF Distance, RepoOK, LaidOut
<1>4. ASSUME NEW s \in Sqns(r) PROVE Distance(r, s) >= 0
  BY DEF Distance
<1> QED
  BY <1>1, <1>2, <1>3, <1>4

LEMMA ChoiceStep == ControlInv /\ ChoiceInv /\ [Next]_vars => ChoiceInv'
<1> SUFFICES ASSUME ControlInv, ChoiceInv, [Next]_vars PROVE ChoiceInv'
  OBVIOUS
<1> repo \in Repos
  BY DEF ControlInv
<1> USE DEF Goto, fileVars, placeVars
<1>1. CASE collect_last
  <2> USE <1>1
  <2> DEFINE h == repo.high_sqn
  <2>1. /\ h \in Sqns(repo) /\ repo' = repo /\ msg_offset' = From(repo, h)
        /\ action = "none" /\ action' = "tail"
    BY RepoFacts DEF collect_last, Collected, Prunable, RepoOK, Sqns, From, Message, ControlInv,
                     CollectSteps
  <2>2. remaining' > 0 => To(repo, h) = repo.end_offset
    BY <2>1, RepoFacts, Sizes, InOrder
       DEF remaining, end_of_record, RepoOK, LaidOut
  <2>3. \A s \in Sqns(repo) : Needed(s) => s = h
    BY <2>1, RepoFacts, Sizes
       DEF Needed, collect_last, HighIsOld, TimeOrdered, Sqns, Message
  <2>4. \A s : Needed(s)' <=> Needed(s)
    BY <2>1 DEF Needed, PassedOver, IsEmpty, Readable, Message, TimeOrdered, Sqns
  <2> QED
    BY <2>1, <2>2, <2>3, <2>4, RepoFacts DEF ChoiceInv, TailChoice, FilterChoice
<1>2. CASE collect_tail
  <2> USE <1>2
  <2> DEFINE h == repo.high_sqn
  <2>1. PICK k \in OldRun : k # repo.low_sqn /\ IsKeepSqn(k) /\ msg_offset' = From(repo, k)
    BY DEF collect_tail, From, Message
  <2>2. /\ repo' = repo /\ action = "none" /\ action' = "tail"
        /\ repo.start_offset < repo.end_offset
        /\ h \in Sqns(repo) /\ k \in Sqns(repo) /\ k < h
    BY RepoFacts DEF collect_tail, Collected, Wrapped, OldRun, Sqns, RepoOK, Prunable, ControlInv,
                     CollectSteps
  <2>3. \A s \in Sqns(repo) : Needed(s) => k < s
    BY <2>2, RepoFacts, Sizes
       DEF Needed, OldRun, Old, Readable, Sqns, Message, TimeOrdered
  <2>4. \A s : Needed(s)' <=> Needed(s)
    BY <2>2 DEF Needed, PassedOver, IsEmpty, Readable, Message, TimeOrdered, Sqns
  <2>5. \A s \in Sqns(repo) : k < s => From(repo, k) <= From(repo, s)
    BY <2>2, InOrder, RepoFacts
  <2>6. \A s \in Sqns(repo) : To(repo, s) <= repo.end_offset
    BY <2>2, InOrder
  <2>7. To(repo, h) = repo.end_offset
    BY <2>2, InOrder
  <2> QED
    BY <2>1, <2>2, <2>3, <2>4, <2>5, <2>6, <2>7, RepoFacts
       DEF ChoiceInv, TailChoice, FilterChoice
<1>3. CASE collect_filter
  BY <1>3 DEF collect_filter, Collected, ChoiceInv, TailChoice, FilterChoice, Prunable,
              Wrapped, Readable, Old, Message
<1>4. UNCHANGED <<repo, action, msg_offset>> => ChoiceInv'
  BY DEF ChoiceInv, TailChoice, FilterChoice, Prunable, Wrapped, Readable, Old, Message,
         remaining, end_of_record, Needed, PassedOver, IsEmpty, TimeOrdered, Sqns, From, To,
         Record
<1>5. CASE locked \/ examine \/ collect_error \/ collect_nothing
  BY <1>4, <1>5 DEF locked, examine, collect_error, collect_nothing, Collected
<1>6. CASE tail_open \/ tail_copy \/ move_idx \/ prune_open \/ prune_bails
  BY <1>4, <1>6 DEF tail_open, tail_copy, move_idx, prune_open, prune_bails
<1>7. CASE copy_chunk \/ chunks_done \/ truncate
  BY <1>4, <1>7 DEF copy_chunk, chunks_done, truncate
<1>8. CASE filter_open \/ filter_copy \/ write_entry \/ entries_done \/ write_marker
  BY <1>4, <1>8 DEF filter_open, filter_copy, write_entry, entries_done, write_marker
<1>9. CASE close_tmp \/ unlink_cache \/ rename_tmp
  BY <1>4, <1>9 DEF close_tmp, unlink_cache, rename_tmp
<1>10. CASE skip_repo \/ move_state \/ move_cache \/ move_its_idx \/ move_fails
  BY <1>4, <1>10 DEF skip_repo, move_state, move_cache, move_its_idx, move_fails, Moving
<1>11. CASE io_fails \/ killed \/ UNCHANGED vars
  BY <1>4, <1>11 DEF io_fails, killed, vars
<1> QED
  BY <1>1, <1>2, <1>3, <1>5, <1>6, <1>7, <1>8, <1>9, <1>10, <1>11 DEF Next, Program

-----------------------------------------------------------------------------
(* prune_file_inplace: in front of copied the cells are those from          *)
(* msg_offset on, up to the start offset of the marker; behind it the file *)
(* is as it was, so that what is still to be copied was not overwritten.   *)
ChunkInv ==
  pc \in {"chunk", "truncate"} =>
    /\ remaining > 0 /\ end_of_record <= repo.size
    /\ copied \in 0 .. remaining
    /\ DOMAIN cache = 0 .. repo.size - 1
    /\ \A o \in 0 .. repo.size - 1 : copied <= o => cache[o] = repo.bytes[o]
    /\ \A o \in 0 .. repo.size - 1 :
         o < copied /\ o < remaining - OffsetSz => cache[o] = repo.bytes[msg_offset + o]
    /\ copied < remaining => copied % BufSize = 0
    /\ copied = remaining /\ InOneChunk => \A i \in 1 .. OffsetSz : cache[remaining - i] = Zero
    /\ pc = "truncate" => copied = remaining

LEMMA NextMultiple ==
  ASSUME NEW b \in Nat, b > 0, NEW c \in Nat, c % b = 0
  PROVE  (c + b) % b = 0 /\ \A n \in 0 .. b - 1 : (c + n) % b = n
<1> DEFINE q == c \div b
<1>1. q \in Nat /\ c = b * q
  OBVIOUS
<1> HIDE DEF q
<1>2. ASSUME NEW n \in 0 .. b - 1 PROVE (b * q + n) % b = n
  BY <1>1
<1>3. c + b = b * (q + 1) + 0
  BY <1>1
<1>4. (b * (q + 1) + 0) % b = 0
  BY <1>1
<1> QED
  BY <1>1, <1>2, <1>3, <1>4

LEMMA ChunkStep ==
  ControlInv /\ CopyInv /\ ChoiceInv /\ ChunkInv /\ [Next]_vars => ChunkInv'
<1> SUFFICES ASSUME ControlInv, CopyInv, ChoiceInv, ChunkInv, [Next]_vars PROVE ChunkInv'
  OBVIOUS
<1>0. repo \in Repos
  BY DEF ControlInv
<1> USE DEF Goto, fileVars, placeVars
<1>1. CASE prune_open
  <2>1. /\ op = "prune" /\ action = "tail" /\ cache = Original
        /\ repo' = repo /\ cache' = cache /\ msg_offset' = msg_offset /\ copied' = 0
        /\ remaining > 0 /\ end_of_record <= repo.size
    BY <1>1 DEF prune_open, ControlInv, CopyInv, Untouched, TailSteps, CollectSteps
  <2>2. remaining \in Nat /\ remaining' = remaining /\ end_of_record' = end_of_record
    BY <2>1, <1>0, RepoFacts, Sizes DEF ChoiceInv, TailChoice, remaining, end_of_record
  <2> QED
    BY <2>1, <2>2, <1>0, <1>1, Sizes, RepoFacts DEF ChunkInv, Original, prune_open
<1>2. CASE copy_chunk
  <2> DEFINE n == to_copy
  <2>1. /\ action = "tail" /\ msg_offset \in Nat
        /\ repo' = repo /\ msg_offset' = msg_offset /\ copied' = copied + n /\ pc' = "chunk"
        /\ copied \in Nat /\ copied < remaining /\ remaining > 0
    BY <1>2 DEF copy_chunk, ControlInv, TailSteps, ChoiceInv, TailChoice, ChunkInv
  <2>2. /\ remaining \in Nat /\ remaining' = remaining /\ end_of_record' = end_of_record
        /\ msg_offset + remaining = end_of_record /\ end_of_record \in Nat
        /\ repo.end_offset > msg_offset /\ remaining > MarkerSz
    BY <2>1, <1>0, RepoFacts, Sizes DEF ChoiceInv, TailChoice, remaining, end_of_record
  <2>3. /\ n \in Nat /\ n > 0 /\ n <= BufSize /\ copied + n <= remaining
        /\ copied + n < remaining => n = BufSize
        /\ n < BufSize => copied + n = remaining
    BY <2>1, <2>2, Sizes, SizesAssumption DEF to_copy, Smaller
  <2>4. InOneChunk' <=> InOneChunk
    BY <2>2 DEF InOneChunk
  <2>5. /\ DOMAIN cache' = DOMAIN cache
        /\ \A o \in DOMAIN cache :
             cache'[o] = IF o \in copied .. copied + n - 1
                         THEN IF Cleared(o) THEN Zero ELSE cache[msg_offset + o]
                         ELSE cache[o]
    BY <1>2 DEF copy_chunk
  <2>6. /\ DOMAIN cache = 0 .. repo.size - 1 /\ end_of_record <= repo.size
        /\ \A o \in 0 .. repo.size - 1 : copied <= o => cache[o] = repo.bytes[o]
        /\ \A o \in 0 .. repo.size - 1 :
             o < copied /\ o < remaining - OffsetSz => cache[o] = repo.bytes[msg_offset + o]
        /\ copied % BufSize = 0
    BY <1>2, <2>1 DEF copy_chunk, ChunkInv
  <2>7. \A o \in 0 .. repo.size - 1 : copied + n <= o => cache'[o] = repo.bytes[o]
    BY <2>1, <2>3, <2>5, <2>6
  <2>8. ASSUME NEW o \in 0 .. repo.size - 1, o < copied + n, o < remaining - OffsetSz
        PROVE  cache'[o] = repo.bytes[msg_offset + o]
    <3>1. CASE o < copied
      BY <3>1, <2>1, <2>3, <2>5, <2>6, <2>8
    <3>2. CASE o >= copied
      <4>1. ~Cleared(o) /\ o \in copied .. copied + n - 1
        BY <3>2, <2>1, <2>2, <2>3, <2>8, Sizes DEF Cleared
      <4>2. msg_offset + o \in 0 .. repo.size - 1 /\ msg_offset + o >= copied
        BY <3>2, <2>1, <2>2, <2>3, <2>6, <2>8, Sizes, <1>0, RepoFacts
      <4> QED
        BY <4>1, <4>2, <2>5, <2>6
    <3> QED
      BY <3>1, <3>2, <2>1, <2>8
  <2>9. copied + n < remaining => (copied + n) % BufSize = 0
    BY <2>1, <2>3, <2>6, NextMultiple, Sizes, SizesAssumption
  <2>10. ASSUME copied + n = remaining, InOneChunk, NEW j \in 1 .. OffsetSz
         PROVE  cache'[remaining - j] = Zero
    <3>1. n >= OffsetSz
      <4>1. CASE n = BufSize
        BY <4>1, Sizes
      <4>2. CASE n < BufSize
        <5>1. remaining % BufSize = n
          <6>1. (copied + n) % BufSize = n
            <7>1. n \in 0 .. BufSize - 1 /\ copied \in Nat /\ BufSize \in Nat /\ BufSize > 0
              BY <4>2, <2>1, <2>3, Sizes
            <7> HIDE DEF n
            <7> QED
              BY <7>1, <2>6, NextMultiple
          <6> QED
            BY <6>1, <2>10
        <5> QED
          BY <5>1, <2>3, <2>10, Sizes DEF InOneChunk
      <4> QED
        BY <4>1, <4>2, <2>3, Sizes
    <3>2. /\ remaining - j \in copied .. copied + n - 1 /\ remaining - j \in 0 .. repo.size - 1
          /\ remaining - j >= remaining - OffsetSz
      BY <3>1, <2>1, <2>2, <2>3, <2>6, <2>10, Sizes, <1>0, RepoFacts
    <3>3. Cleared(remaining - j)
      BY <3>2, <2>2, <2>10 DEF Cleared, LastChunk
    <3> QED
      BY <3>2, <3>3, <2>5, <2>6
  <2>11. /\ remaining' > 0 /\ end_of_record' <= repo'.size
         /\ copied' \in 0 .. remaining' /\ DOMAIN cache' = 0 .. repo'.size - 1
    BY <2>1, <2>2, <2>3, <2>5, <2>6
  <2> QED
    BY <2>1, <2>2, <2>4, <2>7, <2>8, <2>9, <2>10, <2>11 DEF ChunkInv
<1>3. CASE chunks_done
  <2>1. /\ pc = "chunk" /\ pc' = "truncate" /\ copied >= remaining
        /\ UNCHANGED <<repo, msg_offset, copied, cache>>
    BY <1>3 DEF chunks_done
  <2>2. remaining \in Nat /\ remaining' = remaining /\ end_of_record' = end_of_record
    BY <2>1, <1>0, RepoFacts, Sizes
       DEF ControlInv, ChoiceInv, TailChoice, TailSteps, ChunkInv, remaining, end_of_record
  <2>3. copied = remaining /\ (InOneChunk' <=> InOneChunk)
    BY <2>1, <2>2 DEF ChunkInv, InOneChunk
  <2> QED
    BY <2>1, <2>2, <2>3 DEF ChunkInv
<1>4. CASE locked \/ examine \/ collect_error \/ collect_nothing \/ collect_last
           \/ collect_tail \/ collect_filter
  BY <1>4 DEF locked, examine, collect_error, collect_nothing, collect_last, collect_tail,
              collect_filter, Collected, ChunkInv, ControlInv
<1>5. CASE tail_open \/ tail_copy \/ move_idx \/ prune_bails \/ truncate
  BY <1>5 DEF tail_open, tail_copy, move_idx, prune_bails, truncate, ChunkInv
<1>6. CASE filter_open \/ filter_copy \/ write_entry \/ entries_done \/ write_marker
           \/ close_tmp \/ unlink_cache \/ rename_tmp
  BY <1>6 DEF filter_open, filter_copy, write_entry, entries_done, write_marker, close_tmp,
              unlink_cache, rename_tmp, ChunkInv, Fail
<1>7. CASE skip_repo \/ move_state \/ move_cache \/ move_its_idx \/ move_fails
  BY <1>7 DEF skip_repo, move_state, move_cache, move_its_idx, move_fails, Moving, ChunkInv
<1>8. CASE io_fails \/ killed
  BY <1>8 DEF io_fails, Fail, killed, ChunkInv
<1>9. CASE UNCHANGED vars
  BY <1>9 DEF vars, ChunkInv, remaining, end_of_record, InOneChunk
<1> QED
  BY <1>1, <1>2, <1>3, <1>4, <1>5, <1>6, <1>7, <1>8, <1>9 DEF Next, Program

-----------------------------------------------------------------------------
(* The filter: the temporary file holds what is to be kept of the messages *)
(* before sqn, and there is room for those it has not come to.             *)
FilterInv ==
  /\ pc \in CollectSteps \cup {"filter", "filter_open", "copy"} =>
       tmp_size = 0 /\ DOMAIN tmp = {}
  /\ pc \in {"entries", "marker", "close", "unlink", "rename"} =>
       /\ tmp_size \in Nat /\ DOMAIN tmp = 0 .. tmp_size - 1
       /\ sqn \in repo.low_sqn .. repo.high_sqn + 1
       /\ pc # "entries" => sqn = repo.high_sqn + 1
       /\ \A s \in Sqns(repo) : s < sqn /\ Keep(s) => Holds(tmp, s)
       /\ pc \in {"entries", "marker"} =>
            /\ \A s \in Sqns(repo) : sqn <= s => tmp_size <= Distance(repo, s)
            /\ sqn > repo.high_sqn =>
                 /\ tmp_size + MarkerSz <= repo.size
                 /\ Keep(repo.high_sqn) =>
                      tmp_size > 0 /\ tmp[tmp_size - 1] = repo.bytes[To(repo, repo.high_sqn) - 1]
       /\ pc \in {"close", "unlink", "rename"} => Ended(tmp, tmp_size)

(* What is in a file stays in it when more is appended. *)
LEMMA HoldsMore ==
  ASSUME NEW f, NEW g, NEW s, DOMAIN f \subseteq DOMAIN g,
         \A o \in DOMAIN f : g[o] = f[o], Holds(f, s)
  PROVE  Holds(g, s)
  BY DEF Holds

LEMMA FilterFacts ==
  ASSUME ControlInv, ChoiceInv, pc \in FilterSteps
  PROVE  /\ repo \in Repos /\ action = "filter" /\ op = "prune"
         /\ repo.start_offset >= repo.end_offset /\ repo.high_sqn \in Sqns(repo)
         /\ repo.low_sqn \in Sqns(repo)
         /\ Keep(repo.high_sqn) <=> ~PassedOver(repo.high_sqn)
         /\ Sqns(repo) = repo.low_sqn .. repo.high_sqn
<1>1. repo \in Repos /\ action = "filter" /\ op = "prune"
  BY DEF ControlInv, FilterSteps, MoveSteps, CollectSteps, TailSteps, Ends
<1>2. Prunable /\ Wrapped
  BY <1>1 DEF ChoiceInv, FilterChoice
<1> QED
  BY <1>1, <1>2, RepoFacts DEF Prunable, Wrapped, Keep, PassedOver, Sqns, RepoOK

LEMMA FilterStep ==
  "silent" \notin Faults /\ ControlInv /\ CopyInv /\ ChoiceInv /\ FilterInv /\ [Next]_vars
    => FilterInv'
<1> SUFFICES ASSUME "silent" \notin Faults, ControlInv, CopyInv, ChoiceInv, FilterInv, [Next]_vars
             PROVE  FilterInv'
  OBVIOUS
<1> USE DEF Goto, fileVars, placeVars
<1>1. CASE filter_copy
  <2>1. /\ pc = "copy" /\ pc' = "entries" /\ repo' = repo /\ sqn' = repo.low_sqn
        /\ tmp' = tmp /\ tmp_size' = tmp_size /\ tmp_size = 0 /\ DOMAIN tmp = {}
    BY <1>1 DEF filter_copy, FilterInv
  <2>2. repo \in Repos /\ repo.start_offset >= repo.end_offset /\ repo.high_sqn \in Sqns(repo)
    BY <2>1, FilterFacts DEF FilterSteps
  <2>3. \A s \in Sqns(repo) : Distance(repo, s) >= 0 /\ s >= repo.low_sqn
    BY <2>2, FitsIn, RepoFacts DEF Sqns
  <2>4. repo.low_sqn \in repo.low_sqn .. repo.high_sqn + 1 /\ ~(repo.low_sqn > repo.high_sqn)
    BY <2>2, RepoFacts DEF Sqns
  <2>5. DOMAIN tmp = 0 .. tmp_size - 1
    BY <2>1
  <2>6. \A s \in Sqns(repo) : ~(s < repo.low_sqn)
    BY <2>2, RepoFacts DEF Sqns
  <2> QED
    BY <2>1, <2>3, <2>4, <2>5, <2>6 DEF FilterInv, CollectSteps
<1>2. CASE write_entry
  <2>1. /\ pc = "entries" /\ pc' = "entries" /\ repo' = repo /\ sqn' = sqn + 1
        /\ sqn <= repo.high_sqn /\ action' = action /\ cache = Original
        /\ tmp_size \in Nat /\ DOMAIN tmp = 0 .. tmp_size - 1
        /\ sqn \in repo.low_sqn .. repo.high_sqn + 1
    <3>1. op = "prune"
      BY <1>2, FilterFacts DEF write_entry, FilterSteps
    <3> QED
      BY <1>2, <3>1 DEF write_entry, FilterInv, CopyInv, Untouched, FilterSteps
  <2>2. /\ repo \in Repos /\ repo.start_offset >= repo.end_offset
        /\ repo.high_sqn \in Sqns(repo)
        /\ Sqns(repo) = repo.low_sqn .. repo.high_sqn
    BY <2>1, FilterFacts DEF FilterSteps
  <2>3. sqn \in Sqns(repo) /\ sqn \in Nat
    BY <2>1, <2>2, RepoFacts
  <2> DEFINE len == Record(repo, sqn)
             at  == repo.msg[sqn].disk_offset
  <2>4. /\ len \in Nat /\ len > 0 /\ at \in Nat /\ at + len <= repo.size
        /\ To(repo, sqn) = at + len
    BY <2>2, <2>3, RepoFacts DEF From, To
  <2>5. /\ tmp_size <= Distance(repo, sqn)
        /\ \A s \in Sqns(repo) : sqn + 1 <= s => Distance(repo, sqn) + len <= Distance(repo, s)
        /\ Distance(repo, sqn) \in Int
        /\ \A s \in Sqns(repo) : Distance(repo, s) \in Int
        /\ \A s \in Sqns(repo) : s < sqn /\ Keep(s) => Holds(tmp, s)
        /\ \A s \in Sqns(repo) : sqn <= s => tmp_size <= Distance(repo, s)
    <3>1. /\ \A s \in Sqns(repo) : s < sqn /\ Keep(s) => Holds(tmp, s)
          /\ \A s \in Sqns(repo) : sqn <= s => tmp_size <= Distance(repo, s)
      BY <2>1 DEF FilterInv
    <3>2. /\ \A s, t \in Sqns(repo) :
               s < t => Distance(repo, s) + Record(repo, s) <= Distance(repo, t)
          /\ \A s \in Sqns(repo) : Distance(repo, s) \in Int /\ s \in Nat
      BY <2>2, RepoFacts DEF RepoOK, LaidOut
    <3> QED
      BY <3>1, <3>2, <2>3
  <2>6. \A s : Keep(s)' <=> Keep(s)
    BY <2>1 DEF Keep, IsEmpty, Readable, Old, Message
  <2>7. \A s : Holds(tmp', s) => Holds(tmp, s)'
    <3>1. repo' = repo
      BY <2>1
    <3> QED
      BY <3>1 DEF Holds, Message, Record
  <2>8. CASE Keep(sqn)
    <3>1. /\ tmp_size' = tmp_size + len
          /\ DOMAIN tmp' = 0 .. tmp_size + len - 1
          /\ \A o \in 0 .. tmp_size + len - 1 : o < tmp_size => tmp'[o] = tmp[o]
          /\ \A o \in 0 .. tmp_size + len - 1 : ~(o < tmp_size) =>
               tmp'[o] = [i \in 0 .. len - 1 |-> cache[at + i]][o - tmp_size]
      BY <1>2, <2>8 DEF write_entry, Written, Keep, Append, Message
    <3> HIDE DEF len, at
    <3>2. \A o \in 0 .. tmp_size - 1 : o \in 0 .. tmp_size + len - 1 /\ tmp'[o] = tmp[o]
      <4>1. \A o \in 0 .. tmp_size - 1 : o \in 0 .. tmp_size + len - 1 /\ o < tmp_size
        BY <2>1, <2>4
      <4> QED
        BY <4>1, <3>1
    <3>3. \A i \in 0 .. len - 1 : /\ tmp_size + i \in DOMAIN tmp'
                                  /\ tmp'[tmp_size + i] = repo.bytes[at + i]
      <4> TAKE i \in 0 .. len - 1
      <4>1. /\ tmp_size + i \in 0 .. tmp_size + len - 1 /\ ~(tmp_size + i < tmp_size)
            /\ (tmp_size + i) - tmp_size = i /\ at + i \in 0 .. repo.size - 1
        BY <2>1, <2>2, <2>4, RepoFacts
      <4>2. cache[at + i] = repo.bytes[at + i]
        BY <4>1, <2>1 DEF Original
      <4> QED
        BY <4>1, <4>2, <3>1
    <3>4. Holds(tmp', sqn)
      <4>1. tmp_size \in DOMAIN tmp'
        BY <3>1, <2>1, <2>4
      <4> QED
        BY <4>1, <3>3 DEF Holds, Message, len, at
    <3>5. \A s \in Sqns(repo) : s < sqn /\ Keep(s) => Holds(tmp', s)
      <4>1. DOMAIN tmp \subseteq DOMAIN tmp' /\ \A o \in DOMAIN tmp : tmp'[o] = tmp[o]
        BY <3>1, <3>2, <2>1
      <4> QED
        BY <4>1, <2>5, HoldsMore
    <3>6. \A s \in Sqns(repo) : s < sqn + 1 /\ Keep(s) => Holds(tmp', s)
      <4>1. \A s \in Sqns(repo) : s < sqn + 1 => s < sqn \/ s = sqn
        BY <2>2, <2>3, RepoFacts
      <4> QED
        BY <3>4, <3>5, <4>1
    <3>7. \A s \in Sqns(repo) : sqn + 1 <= s => tmp_size + len <= Distance(repo, s)
      BY <2>1, <2>4, <2>5
    <3>8. sqn + 1 > repo.high_sqn =>
            /\ tmp_size + len > 0 /\ tmp_size + len + MarkerSz <= repo.size
            /\ tmp'[tmp_size + len - 1] = repo.bytes[To(repo, repo.high_sqn) - 1]
      <4> HAVE sqn + 1 > repo.high_sqn
      <4>1. sqn = repo.high_sqn
        BY <2>1, <2>2, <2>3, RepoFacts
      <4>2. Distance(repo, sqn) + len + MarkerSz <= repo.size
        BY <4>1, <2>2, FitsIn DEF len
      <4>3. tmp'[tmp_size + (len - 1)] = repo.bytes[at + (len - 1)]
        BY <3>3, <2>4
      <4>4. tmp_size + (len - 1) = tmp_size + len - 1 /\ at + (len - 1) = at + len - 1
        BY <2>1, <2>4
      <4>5. repo.size \in Nat
        BY <2>2, RepoFacts
      <4>6. tmp_size + len > 0 /\ tmp_size + len + MarkerSz <= repo.size
        BY <4>2, <4>5, <2>1, <2>4, <2>5, Sizes
      <4>7. To(repo, repo.high_sqn) - 1 = at + len - 1
        BY <4>1, <2>4
      <4>8. tmp'[tmp_size + len - 1] = repo.bytes[To(repo, repo.high_sqn) - 1]
        BY <4>3, <4>4, <4>7
      <4> QED
        BY <4>6, <4>8
    <3>9. sqn + 1 \in repo.low_sqn .. repo.high_sqn + 1 /\ tmp_size + len \in Nat
      BY <2>1, <2>2, <2>3, <2>4, RepoFacts
    <3> HIDE DEF len, at
    <3>10. tmp_size' = tmp_size + len
      BY <3>1
    <3>11. DOMAIN tmp' = 0 .. tmp_size' - 1
      BY <3>1, <3>10, <2>1, <2>4
    <3>12. \A s \in Sqns(repo)' : sqn' <= s => tmp_size' <= Distance(repo, s)'
      BY <3>7, <3>10, <2>1
    <3>13. \A s \in Sqns(repo)' : (s < sqn' /\ Keep(s)') => Holds(tmp, s)'
      BY <3>6, <2>1, <2>6, <2>7
    <3>14. sqn' > repo'.high_sqn =>
             /\ tmp_size' + MarkerSz <= repo'.size
             /\ tmp_size' > 0 /\ tmp'[tmp_size' - 1] = repo'.bytes[To(repo, repo.high_sqn)' - 1]
      BY <3>8, <3>10, <2>1, <2>4
    <3> QED
      BY <3>9, <3>10, <3>11, <3>12, <3>13, <3>14, <2>1 DEF FilterInv, CollectSteps
  <2>9. CASE ~Keep(sqn)
    <3>1. UNCHANGED <<tmp, tmp_size>>
      BY <1>2, <2>9 DEF write_entry, Written
    <3>2. sqn + 1 > repo.high_sqn => tmp_size + MarkerSz <= repo.size /\ ~Keep(repo.high_sqn)
      <4> HAVE sqn + 1 > repo.high_sqn
      <4>1. sqn = repo.high_sqn
        BY <2>1, <2>2, <2>3, RepoFacts
      <4>2. Distance(repo, sqn) + len + MarkerSz <= repo.size
        BY <4>1, <2>2, FitsIn
      <4>3. repo.size \in Nat
        BY <2>2, RepoFacts
      <4> HIDE DEF len
      <4> QED
        BY <4>1, <4>2, <4>3, <2>1, <2>4, <2>5, <2>9, Sizes
    <3>3. \A s \in Sqns(repo) : s < sqn + 1 /\ Keep(s) => Holds(tmp, s)
      BY <2>2, <2>3, <2>5, <2>9, RepoFacts
    <3>4. \A s \in Sqns(repo) : sqn + 1 <= s => tmp_size <= Distance(repo, s)
      BY <2>2, <2>3, <2>5, RepoFacts
    <3>5. sqn + 1 \in repo.low_sqn .. repo.high_sqn + 1
      BY <2>1, <2>2, <2>3, RepoFacts
    <3> QED
      BY <3>1, <3>2, <3>3, <3>4, <3>5, <2>1, <2>6, <2>7 DEF FilterInv, CollectSteps
  <2> QED
    BY <2>8, <2>9
<1>3. CASE entries_done
  <2>1. /\ pc = "entries" /\ pc' = "marker" /\ sqn > repo.high_sqn
        /\ UNCHANGED <<repo, tmp, tmp_size, sqn>>
    BY <1>3 DEF entries_done
  <2>2. repo \in Repos
    BY DEF ControlInv
  <2>3. \A s : (Keep(s)' <=> Keep(s)) /\ (Holds(tmp, s)' <=> Holds(tmp, s))
    BY <2>1 DEF Keep, IsEmpty, Readable, Old, Message, Holds, Record
  <2>4. sqn = repo.high_sqn + 1
    BY <2>1, <2>2, RepoFacts DEF FilterInv
  <2> QED
    BY <2>1, <2>3, <2>4 DEF FilterInv, CollectSteps
<1>4. CASE write_marker
  <2>1. /\ pc = "marker" /\ pc' = "close" /\ repo' = repo /\ sqn' = sqn /\ action' = action
        /\ sqn = repo.high_sqn + 1 /\ tmp_size \in Nat /\ DOMAIN tmp = 0 .. tmp_size - 1
        /\ \A s \in Sqns(repo) : s < sqn /\ Keep(s) => Holds(tmp, s)
        /\ sqn \in repo.low_sqn .. repo.high_sqn + 1
    BY <1>4 DEF write_marker, FilterInv
  <2>2. /\ repo \in Repos /\ op = "prune"
    BY <2>1, FilterFacts DEF FilterSteps
  <2>3. cache = Original
    BY <2>1, <2>2 DEF CopyInv, Untouched, FilterSteps
  <2>4. /\ tmp_size + MarkerSz <= repo.size
        /\ ~PassedOver(repo.high_sqn) =>
             tmp_size > 0 /\ tmp[tmp_size - 1] = repo.bytes[To(repo, repo.high_sqn) - 1]
    BY <2>1, <2>2, RepoFacts, FilterFacts DEF FilterInv, FilterSteps
  <2> DEFINE cells == [i \in 0 .. MarkerSz - 1 |->
                         IF i >= MarkerSz - OffsetSz THEN Zero ELSE cache[repo.end_offset + i]]
             size == tmp_size + MarkerSz
  <2>5. /\ tmp_size' = size /\ DOMAIN tmp' = 0 .. size - 1
        /\ \A o \in 0 .. size - 1 : o < tmp_size => tmp'[o] = tmp[o]
        /\ \A o \in 0 .. size - 1 : ~(o < tmp_size) => tmp'[o] = cells[o - tmp_size]
    <3>1. Append(cells, MarkerSz)
      BY <1>4 DEF write_marker
    <3> HIDE DEF cells
    <3>2. /\ tmp_size' = tmp_size + MarkerSz
          /\ tmp' = [o \in 0 .. tmp_size + MarkerSz - 1 |->
                       IF o < tmp_size THEN tmp[o] ELSE cells[o - tmp_size]]
      BY <3>1 DEF Append
    <3>3. tmp_size + MarkerSz - 1 = size - 1
      BY <2>1, Sizes
    <3> HIDE DEF size
    <3>4. tmp' = [o \in 0 .. size - 1 |->
                    IF o < tmp_size THEN tmp[o] ELSE cells[o - tmp_size]]
      BY <3>2, <3>3
    <3>5. tmp_size' = size
      BY <3>2 DEF size
    <3> QED
      BY <3>4, <3>5
  <2>6. \A i \in 0 .. MarkerSz - 1 :
          cells[i] = IF i >= MarkerSz - OffsetSz THEN Zero ELSE cache[repo.end_offset + i]
    OBVIOUS
  <2>7. size \in Nat /\ size \in MarkerSz .. repo.size /\ size - MarkerSz = tmp_size
    BY <2>1, <2>2, <2>4, Sizes, RepoFacts
  <2> HIDE DEF cells, size
  <2>8. DOMAIN tmp \subseteq DOMAIN tmp' /\ \A o \in DOMAIN tmp : tmp'[o] = tmp[o]
    <3>1. \A o \in 0 .. tmp_size - 1 : o \in 0 .. size - 1 /\ o < tmp_size
      BY <2>1, <2>7, Sizes
    <3> QED
      BY <3>1, <2>1, <2>5
  <2>9. \A s \in Sqns(repo) : s < sqn /\ Keep(s) => Holds(tmp', s)
    BY <2>1, <2>8, HoldsMore
  <2>10. ASSUME ~PassedOver(repo.high_sqn)
         PROVE  /\ size > MarkerSz
                /\ tmp'[size - MarkerSz - 1] = repo.bytes[To(repo, repo.high_sqn) - 1]
    <3>1. tmp_size - 1 \in DOMAIN tmp /\ size > MarkerSz
      BY <2>1, <2>4, <2>7, <2>10, Sizes
    <3> QED
      BY <3>1, <2>4, <2>7, <2>8, <2>10
  <2>11. ASSUME NEW i \in 1 .. MarkerSz - OffsetSz
         PROVE  tmp'[size - MarkerSz + i - 1] = repo.bytes[repo.end_offset + i - 1]
    <3>1. /\ size - MarkerSz + i - 1 \in 0 .. size - 1 /\ ~(size - MarkerSz + i - 1 < tmp_size)
          /\ (size - MarkerSz + i - 1) - tmp_size = i - 1 /\ i - 1 \in 0 .. MarkerSz - 1
          /\ ~(i - 1 >= MarkerSz - OffsetSz)
      BY <2>1, <2>7, Sizes
    <3>2. /\ repo.end_offset + (i - 1) \in 0 .. repo.size - 1
          /\ repo.end_offset + (i - 1) = repo.end_offset + i - 1
      BY <2>2, Sizes, RepoFacts
    <3>3. cells[i - 1] = cache[repo.end_offset + (i - 1)]
      BY <3>1, <2>6
    <3>4. cache[repo.end_offset + (i - 1)] = repo.bytes[repo.end_offset + (i - 1)]
      BY <3>2, <2>3 DEF Original
    <3> QED
      BY <3>1, <3>2, <3>3, <3>4, <2>5
  <2>12. ASSUME NEW i \in 1 .. OffsetSz
         PROVE  tmp'[size - i] = Zero
    <3>1. /\ size - i \in 0 .. size - 1 /\ ~(size - i < tmp_size)
          /\ (size - i) - tmp_size = MarkerSz - i /\ MarkerSz - i \in 0 .. MarkerSz - 1
          /\ MarkerSz - i >= MarkerSz - OffsetSz
      BY <2>1, <2>7, Sizes
    <3> QED
      BY <3>1, <2>5, <2>6
  <2>13. Ended(tmp, tmp_size)'
    BY <2>1, <2>5, <2>7, <2>10, <2>11, <2>12 DEF Ended, PassedOver, IsEmpty, Message
  <2>14. \A s : Keep(s)' <=> Keep(s)
    BY <2>1 DEF Keep, IsEmpty, Readable, Old, Message
  <2>15. \A s : Holds(tmp', s) => Holds(tmp, s)'
    <3>1. repo' = repo
      BY <2>1
    <3> QED
      BY <3>1 DEF Holds, Message, Record
  <2> QED
    BY <2>1, <2>5, <2>7, <2>9, <2>13, <2>14, <2>15 DEF FilterInv, CollectSteps
<1>5. CASE close_tmp
  <2>1. /\ pc = "close" /\ pc' = "unlink" /\ repo' = repo /\ sqn' = sqn /\ action' = action
        /\ msg_offset' = msg_offset /\ tmp_size' = tmp_size
        /\ tmp' = [o \in 0 .. tmp_size - 1 |-> tmp[o]]
    BY <1>5 DEF close_tmp
  <2>2. /\ tmp_size \in Nat /\ DOMAIN tmp = 0 .. tmp_size - 1
        /\ Ended(tmp, tmp_size)
        /\ \A s \in Sqns(repo) : s < sqn /\ Keep(s) => Holds(tmp, s)
        /\ sqn \in repo.low_sqn .. repo.high_sqn + 1 /\ sqn = repo.high_sqn + 1
    BY <2>1 DEF FilterInv
  <2>3. repo \in Repos /\ action = "filter"
    BY <2>1, FilterFacts DEF FilterSteps
  <2>4. DOMAIN tmp \subseteq DOMAIN tmp' /\ \A o \in DOMAIN tmp : tmp'[o] = tmp[o]
    BY <2>1, <2>2
  <2>5. \A s \in Sqns(repo) : s < sqn /\ Keep(s) => Holds(tmp', s)
    BY <2>2, <2>4, HoldsMore
  <2>6. Ended(tmp, tmp_size)'
    <3>1. /\ tmp_size \in MarkerSz .. repo.size
          /\ \A i \in 1 .. MarkerSz - OffsetSz :
               tmp[tmp_size - MarkerSz + i - 1] = repo.bytes[repo.end_offset + i - 1]
          /\ ~PassedOver(repo.high_sqn) =>
               /\ tmp_size > MarkerSz
               /\ tmp[tmp_size - MarkerSz - 1] = repo.bytes[To(repo, repo.high_sqn) - 1]
          /\ \A i \in 1 .. OffsetSz : tmp[tmp_size - i] = Zero
      BY <2>2, <2>3 DEF Ended
    <3>2. /\ \A i \in 1 .. MarkerSz - OffsetSz : tmp_size - MarkerSz + i - 1 \in 0 .. tmp_size - 1
          /\ tmp_size > MarkerSz => tmp_size - MarkerSz - 1 \in 0 .. tmp_size - 1
          /\ \A i \in 1 .. OffsetSz : tmp_size - i \in 0 .. tmp_size - 1
      <4>1. tmp_size \in Nat /\ tmp_size >= MarkerSz
        BY <3>1, <2>2, Sizes
      <4>2. \A i \in 1 .. MarkerSz - OffsetSz : tmp_size - MarkerSz + i - 1 \in 0 .. tmp_size - 1
        BY <4>1, Sizes
      <4>3. tmp_size > MarkerSz => tmp_size - MarkerSz - 1 \in 0 .. tmp_size - 1
        BY <4>1, Sizes
      <4>4. \A i \in 1 .. OffsetSz : tmp_size - i \in 0 .. tmp_size - 1
        BY <4>1, Sizes
      <4> QED
        BY <4>2, <4>3, <4>4
    <3>3. /\ \A i \in 1 .. MarkerSz - OffsetSz :
               tmp'[tmp_size - MarkerSz + i - 1] = repo.bytes[repo.end_offset + i - 1]
          /\ ~PassedOver(repo.high_sqn) =>
               /\ tmp_size > MarkerSz
               /\ tmp'[tmp_size - MarkerSz - 1] = repo.bytes[To(repo, repo.high_sqn) - 1]
          /\ \A i \in 1 .. OffsetSz : tmp'[tmp_size - i] = Zero
      BY <3>1, <3>2, <2>2, <2>4
    <3>4. DOMAIN tmp' = 0 .. tmp_size - 1
      BY <2>1
    <3> QED
      BY <3>1, <3>3, <3>4, <2>1 DEF Ended, PassedOver, IsEmpty, Message
  <2>7. \A s : Keep(s)' <=> Keep(s)
    BY <2>1 DEF Keep, IsEmpty, Readable, Old, Message
  <2>8. \A s : Holds(tmp', s) => Holds(tmp, s)'
    <3>1. repo' = repo
      BY <2>1
    <3> QED
      BY <3>1 DEF Holds, Message, Record
  <2>9. DOMAIN tmp' = 0 .. tmp_size' - 1
    BY <2>1
  <2> QED
    BY <2>1, <2>2, <2>5, <2>6, <2>7, <2>8, <2>9 DEF FilterInv, CollectSteps
<1>6. CASE unlink_cache
  <2>1. /\ pc = "unlink" /\ pc' = "rename"
        /\ UNCHANGED <<repo, tmp, tmp_size, sqn, action, msg_offset>>
    BY <1>6 DEF unlink_cache
  <2>2. \A s : (Keep(s)' <=> Keep(s)) /\ (Holds(tmp, s)' <=> Holds(tmp, s))
    BY <2>1 DEF Keep, IsEmpty, Readable, Old, Message, Holds, Record
  <2>3. Ended(tmp, tmp_size)' <=> Ended(tmp, tmp_size)
    BY <2>1 DEF Ended, PassedOver, IsEmpty, Message, InOneChunk, remaining, end_of_record
  <2> QED
    BY <2>1, <2>2, <2>3 DEF FilterInv, CollectSteps
<1>7. CASE locked \/ examine
  BY <1>7 DEF locked, examine, FilterInv, CollectSteps, ControlInv
<1>8. CASE collect_error \/ collect_nothing \/ collect_last \/ collect_tail \/ collect_filter
  BY <1>8 DEF collect_error, collect_nothing, collect_last, collect_tail, collect_filter,
              Collected, FilterInv, CollectSteps
<1>9. CASE tail_open \/ tail_copy \/ move_idx \/ prune_open \/ prune_bails
  BY <1>9 DEF tail_open, tail_copy, move_idx, prune_open, prune_bails, FilterInv, CollectSteps
<1>10. CASE copy_chunk \/ chunks_done \/ truncate
  BY <1>10 DEF copy_chunk, chunks_done, truncate, FilterInv, CollectSteps
<1>11. CASE filter_open
  BY <1>11 DEF filter_open, Fail, FilterInv, CollectSteps
<1>12. CASE rename_tmp
  BY <1>12 DEF rename_tmp, FilterInv, CollectSteps
<1>13. CASE skip_repo \/ move_state \/ move_cache \/ move_its_idx \/ move_fails
  BY <1>13 DEF skip_repo, move_state, move_cache, move_its_idx, move_fails, Moving, FilterInv,
               CollectSteps
<1>14. CASE io_fails \/ killed
  BY <1>14 DEF io_fails, Fail, killed, FilterInv, CollectSteps
<1>15. CASE UNCHANGED vars
  <2>1. UNCHANGED <<pc, repo, tmp, tmp_size, sqn, action, msg_offset>>
    BY <1>15 DEF vars
  <2>2. \A s : (Keep(s)' <=> Keep(s)) /\ (Holds(tmp, s)' <=> Holds(tmp, s))
    BY <2>1 DEF Keep, IsEmpty, Readable, Old, Message, Holds, Record
  <2>3. Ended(tmp, tmp_size)' <=> Ended(tmp, tmp_size)
    BY <2>1 DEF Ended, PassedOver, IsEmpty, Message, InOneChunk, remaining, end_of_record
  <2> QED
    BY <2>1, <2>2, <2>3 DEF FilterInv
<1> QED
  BY <1>1, <1>2, <1>3, <1>4, <1>5, <1>6, <1>7, <1>8, <1>9, <1>10, <1>11, <1>12, <1>13, <1>14,
     <1>15 DEF Next, Program

-----------------------------------------------------------------------------
(* The end: what is left if no error is reported.                           *)

Done == action # "none" /\ cache_at = "place" /\ KeepsNewer /\ EndsWithMarker

ExitInv ==
  pc = "exited" /\ overall_rc = 0 =>
    /\ op = "prune" => Untouched \/ Done
    /\ action # "none" /\ ~io_error => Done

CacheEnded ==
  repo \in Repos /\ repo.high_sqn \in Sqns(repo) /\ \E size : Ended(cache, size)

LEMMA EndedMarker == CacheEnded => EndsWithMarker
<1> SUFFICES ASSUME NEW size, Ended(cache, size) PROVE EndsWithMarker
  BY DEF CacheEnded
<1>1. size \in MarkerSz .. repo.size /\ DOMAIN cache = 0 .. size - 1
  BY DEF Ended
<1>2. MarkerWithin(size)
  BY DEF Ended, MarkerWithin
<1>3. action = "filter" \/ InOneChunk => StartsAtZero(size)
  BY DEF Ended, StartsAtZero
<1> QED
  BY <1>1, <1>2, <1>3 DEF EndsWithMarker

(* The in-place copy, before the file is cut to its new length.            *)
LEMMA TailDone ==
  ControlInv /\ CopyInv /\ ChoiceInv /\ ChunkInv /\ truncate => Done'
<1> SUFFICES ASSUME ControlInv, CopyInv, ChoiceInv, ChunkInv, truncate PROVE Done'
  OBVIOUS
<1> DEFINE size == remaining
<1>1. /\ pc = "truncate" /\ repo' = repo /\ action' = action /\ msg_offset' = msg_offset
      /\ cache_at' = cache_at /\ cache' = [o \in 0 .. size - 1 |-> cache[o]]
  BY DEF truncate, placeVars, Goto
<1>2. repo \in Repos /\ action = "tail" /\ op = "prune" /\ cache_at = "place"
  BY <1>1 DEF ControlInv, CopyInv, TailSteps, CollectSteps
<1>3. /\ remaining > 0 /\ end_of_record <= repo.size /\ copied = remaining
      /\ \A o \in 0 .. repo.size - 1 :
           o < copied /\ o < remaining - OffsetSz => cache[o] = repo.bytes[msg_offset + o]
      /\ InOneChunk => \A i \in 1 .. OffsetSz : cache[remaining - i] = Zero
  BY <1>1 DEF ChunkInv
<1>4. /\ msg_offset \in Nat
      /\ repo.high_sqn \in Sqns(repo) /\ msg_offset <= From(repo, repo.high_sqn)
      /\ To(repo, repo.high_sqn) = repo.end_offset
      /\ \A s \in Sqns(repo) :
           Needed(s) => msg_offset <= From(repo, s) /\ To(repo, s) <= repo.end_offset
  BY <1>2, <1>3 DEF ChoiceInv, TailChoice
<1>5. /\ size \in Nat /\ size > MarkerSz /\ size <= repo.size
      /\ msg_offset + size = repo.end_offset + MarkerSz /\ repo.end_offset \in Nat
      /\ repo.size \in Nat
  BY <1>2, <1>3, <1>4, RepoFacts, Sizes DEF remaining, end_of_record
<1>6. size' = size /\ (InOneChunk' <=> InOneChunk)
  BY <1>1 DEF remaining, end_of_record, InOneChunk
<1> HIDE DEF size
<1>7. \A o \in 0 .. size - 1 :
        o < size - OffsetSz => cache'[o] = repo.bytes[msg_offset + o]
  <2>1. \A o \in 0 .. size - 1 : o \in 0 .. repo.size - 1 /\ o < size
    BY <1>5
  <2> QED
    BY <2>1, <1>1, <1>3 DEF size
<1>8. KeepsNewer'
  <2>1. ASSUME NEW s \in Sqns(repo), Needed(s) PROVE Holds(cache', s)
    <3> DEFINE o == From(repo, s) - msg_offset
    <3>1. /\ msg_offset <= From(repo, s) /\ To(repo, s) <= repo.end_offset
          /\ From(repo, s) \in Nat /\ Record(repo, s) \in Nat \ {0}
          /\ To(repo, s) = From(repo, s) + Record(repo, s)
          /\ Message(s).disk_offset = From(repo, s)
      BY <2>1, <1>2, <1>4, RepoFacts DEF Message, From
    <3>2. ASSUME NEW i \in 0 .. Record(repo, s) - 1
          PROVE  /\ o + i \in 0 .. size - 1 /\ o + i < size - OffsetSz
                 /\ msg_offset + (o + i) = From(repo, s) + i
      BY <3>1, <1>4, <1>5, Sizes
    <3>3. DOMAIN cache' = 0 .. size - 1
      BY <1>1 DEF size
    <3>4. o \in DOMAIN cache'
      BY <3>1, <3>3, <1>4, <1>5, Sizes
    <3> HIDE DEF o
    <3>5. ASSUME NEW i \in 0 .. Record(repo, s) - 1
          PROVE  /\ o + i \in DOMAIN cache'
                 /\ cache'[o + i] = repo.bytes[Message(s).disk_offset + i]
      BY <3>1, <3>2, <3>3, <1>7
    <3> QED
      BY <3>4, <3>5 DEF Holds
  <2>2. \A s : Needed(s)' <=> Needed(s)
    BY <1>1 DEF Needed, PassedOver, IsEmpty, Readable, Message, TimeOrdered, Sqns
  <2>3. \A s : Holds(cache', s) => Holds(cache, s)'
    <3>1. repo' = repo
      BY <1>1
    <3> QED
      BY <3>1 DEF Holds, Message, Record
  <2> QED
    BY <2>1, <2>2, <2>3, <1>1 DEF KeepsNewer, Needed, PassedOver, IsEmpty, Readable, Message,
                                    TimeOrdered, Sqns
<1>9. Ended(cache, size)'
  <2>1. size \in MarkerSz .. repo.size /\ DOMAIN cache' = 0 .. size - 1
    BY <1>1, <1>5, Sizes DEF size
  <2>2. ASSUME NEW i \in 1 .. MarkerSz - OffsetSz
        PROVE  cache'[size - MarkerSz + i - 1] = repo.bytes[repo.end_offset + i - 1]
    <3>1. /\ size - MarkerSz + i - 1 \in 0 .. size - 1
          /\ size - MarkerSz + i - 1 < size - OffsetSz
          /\ msg_offset + (size - MarkerSz + i - 1) = repo.end_offset + i - 1
      BY <1>4, <1>5, Sizes
    <3> QED
      BY <3>1, <1>7
  <2>3. cache'[size - MarkerSz - 1] = repo.bytes[To(repo, repo.high_sqn) - 1]
    <3>1. /\ size - MarkerSz - 1 \in 0 .. size - 1 /\ size - MarkerSz - 1 < size - OffsetSz
          /\ msg_offset + (size - MarkerSz - 1) = repo.end_offset - 1
      BY <1>4, <1>5, Sizes
    <3> QED
      BY <3>1, <1>4, <1>7
  <2>4. ASSUME InOneChunk, NEW i \in 1 .. OffsetSz PROVE cache'[size - i] = Zero
    <3>1. size - i \in 0 .. size - 1
      BY <1>5, Sizes
    <3> QED
      BY <3>1, <2>4, <1>1, <1>3 DEF size
  <2> QED
    <3>1. To(repo, repo.high_sqn)' = To(repo, repo.high_sqn)
      BY <1>1
    <3>2. cache'[size' - MarkerSz - 1] = repo'.bytes[To(repo, repo.high_sqn)' - 1]
      BY <3>1, <2>3, <1>1, <1>6
    <3>3. \A i \in 1 .. MarkerSz - OffsetSz :
            cache'[size' - MarkerSz + i - 1] = repo'.bytes[repo'.end_offset + i - 1]
      BY <2>2, <1>1, <1>6
    <3>4. action' # "filter" /\ size' > MarkerSz
      BY <1>1, <1>2, <1>5, <1>6
    <3>5. InOneChunk' => \A i \in 1 .. OffsetSz : cache'[size' - i] = Zero
      BY <2>4, <1>6
    <3>6. size' \in MarkerSz .. repo'.size /\ DOMAIN cache' = 0 .. size' - 1
      BY <2>1, <1>1, <1>6
    <3> QED
      BY <3>2, <3>3, <3>4, <3>5, <3>6 DEF Ended
<1>10. EndsWithMarker'
  <2>1. (CacheEnded => EndsWithMarker)'
    BY EndedMarker, PTL
  <2>2. CacheEnded'
    BY <1>9, <1>1, <1>2, <1>4 DEF CacheEnded, Sqns
  <2> QED
    BY <2>1, <2>2
<1> QED
  BY <1>1, <1>2, <1>8, <1>10 DEF Done

(* The filter, before the temporary file takes the place of the cache.     *)
LEMMA FilterDone ==
  ControlInv /\ ChoiceInv /\ FilterInv /\ rename_tmp => Done'
<1> SUFFICES ASSUME ControlInv, ChoiceInv, FilterInv, rename_tmp PROVE Done'
  OBVIOUS
<1>1. /\ pc = "rename" /\ repo' = repo /\ action' = action /\ msg_offset' = msg_offset
      /\ cache_at' = "place" /\ cache' = tmp
  BY DEF rename_tmp, Goto
<1>2. /\ repo \in Repos /\ action = "filter" /\ repo.high_sqn \in Sqns(repo)
  BY <1>1, FilterFacts DEF FilterSteps
<1>3. /\ Ended(tmp, tmp_size) /\ sqn = repo.high_sqn + 1
      /\ \A s \in Sqns(repo) : s < sqn /\ Keep(s) => Holds(tmp, s)
  BY <1>1 DEF FilterInv
<1>4. KeepsNewer'
  <2>1. ASSUME NEW s \in Sqns(repo), Needed(s) PROVE Holds(tmp, s)
    <3>1. s < sqn
      BY <1>2, <1>3, RepoFacts DEF Sqns
    <3>2. Keep(s)
      BY <2>1, <1>2, Sizes, RepoFacts DEF Needed, PassedOver, Keep, Old, Message
    <3> QED
      BY <3>1, <3>2, <1>3
  <2>2. \A s : Needed(s)' <=> Needed(s)
    BY <1>1 DEF Needed, PassedOver, IsEmpty, Readable, Message, TimeOrdered, Sqns
  <2>3. \A s : Holds(tmp, s) => Holds(cache, s)'
    BY <1>1 DEF Holds, Message
  <2> QED
    BY <2>1, <2>2, <2>3, <1>1 DEF KeepsNewer, Needed, PassedOver, IsEmpty, Readable, Message,
                                    TimeOrdered, Sqns
<1>5. EndsWithMarker'
  <2>1. (CacheEnded => EndsWithMarker)'
    BY EndedMarker, PTL
  <2>2. \E n : Ended(cache, n)'
    <3>1. InOneChunk' <=> InOneChunk
      BY <1>1 DEF InOneChunk, remaining, end_of_record
    <3>2. \A n : Ended(tmp, n) => Ended(cache, n)'
      BY <3>1, <1>1 DEF Ended, PassedOver, IsEmpty, Message, To, From, Record
    <3> QED
      BY <3>2, <1>3
  <2>3. CacheEnded'
    BY <2>2, <1>1, <1>2 DEF CacheEnded, Sqns
  <2> QED
    BY <2>1, <2>3
<1> QED
  BY <1>1, <1>2, <1>4, <1>5 DEF Done

LEMMA ExitStep ==
  ControlInv /\ CopyInv /\ ChoiceInv /\ ChunkInv /\ FilterInv /\ ExitInv /\ [Next]_vars
    => ExitInv'
<1> SUFFICES ASSUME ControlInv, CopyInv, ChoiceInv, ChunkInv, FilterInv, ExitInv, [Next]_vars
             PROVE  ExitInv'
  OBVIOUS
<1> USE DEF Goto, fileVars, placeVars
<1>1. CASE truncate
  BY <1>1, TailDone DEF ExitInv
<1>2. CASE rename_tmp
  BY <1>2, FilterDone DEF ExitInv
<1>3. CASE locked \/ examine
  BY <1>3 DEF locked, examine, ExitInv, ControlInv
<1>4. CASE collect_error \/ collect_last \/ collect_tail \/ collect_filter
  BY <1>4 DEF collect_error, collect_last, collect_tail, collect_filter, Collected, ExitInv
<1>5. CASE collect_nothing
  <2>1. /\ pc = "prune" /\ action' = action /\ action = "none"
        /\ UNCHANGED <<repo, cache, cache_at, op>>
    BY <1>5 DEF collect_nothing, Collected, ControlInv, CollectSteps
  <2>2. op = "prune" => Untouched'
    BY <2>1 DEF CopyInv, Untouched, Original, CollectSteps
  <2> QED
    BY <2>1, <2>2 DEF ExitInv
<1>6. CASE tail_open \/ tail_copy \/ move_idx \/ prune_open \/ prune_bails
  BY <1>6 DEF tail_open, tail_copy, move_idx, prune_open, prune_bails, ExitInv
<1>7. CASE copy_chunk \/ chunks_done \/ filter_copy
  BY <1>7 DEF copy_chunk, chunks_done, filter_copy, ExitInv
<1>8. CASE filter_open
  BY <1>8 DEF filter_open, Fail, ExitInv
<1>9. CASE write_entry \/ entries_done \/ write_marker \/ close_tmp \/ unlink_cache
  BY <1>9 DEF write_entry, entries_done, write_marker, close_tmp, unlink_cache, ExitInv
<1>10. CASE skip_repo \/ move_state \/ move_cache \/ move_its_idx \/ move_fails
  <2>1. op = "move" /\ op' = op /\ action = "none" /\ action' = action
    BY <1>10 DEF skip_repo, move_state, move_cache, move_its_idx, move_fails, Moving,
                 ControlInv, MoveSteps
  <2> QED
    BY <2>1 DEF ExitInv
<1>11. CASE io_fails
  <2>1. PICK at \in {"tail", "tail_copy", "open", "chunk", "truncate", "copy", "entries",
                     "unlink", "rename", "marker"}, ret \in {-1, 1} :
          Fail(at, ret) /\ (ret = 1 => at \in {"entries", "marker"})
    BY <1>11 DEF io_fails
  <2>2. CASE ret = -1
    BY <2>1, <2>2 DEF Fail, ExitInv
  <2>3. CASE ret = 1
    <3>1. /\ pc \in {"entries", "marker"} /\ io_error' = TRUE
          /\ UNCHANGED <<repo, op, cache, cache_at>>
      BY <1>11, <2>1, <2>3 DEF io_fails, Fail
    <3>2. op = "prune" => Untouched'
      BY <3>1 DEF CopyInv, Untouched, Original, FilterSteps
    <3> QED
      BY <3>1, <3>2 DEF ExitInv
  <2> QED
    BY <2>2, <2>3
<1>12. CASE killed
  BY <1>12 DEF killed, ExitInv
<1>13. CASE UNCHANGED vars
  <2>1. UNCHANGED <<repo, op, pc, action, msg_offset, cache, cache_at, overall_rc, io_error>>
    BY <1>13 DEF vars, fileVars, placeVars
  <2>2. KeepsNewer' <=> KeepsNewer
    BY <2>1 DEF KeepsNewer, PassedOver, IsEmpty, Sqns, Readable, TimeOrdered, Message, Holds, Record
  <2>3. EndsWithMarker' <=> EndsWithMarker
    BY <2>1 DEF EndsWithMarker, PassedOver, IsEmpty, Message, MarkerWithin, StartsAtZero,
                InOneChunk, remaining, end_of_record, To, From, Record
  <2>4. (Done' <=> Done) /\ (Untouched' <=> Untouched)
    BY <2>1, <2>2, <2>3 DEF Done, Untouched, Original
  <2> QED
    BY <2>1, <2>4 DEF ExitInv
<1> QED
  BY <1>1, <1>2, <1>3, <1>4, <1>5, <1>6, <1>7, <1>8, <1>9, <1>10, <1>11, <1>12, <1>13
     DEF Next, Program

-----------------------------------------------------------------------------
PruneInv ==
  ControlInv /\ CopyInv /\ ChoiceInv /\ ChunkInv /\ FilterInv /\ ExitInv

LEMMA PruneInvariant ==
  ASSUME "silent" \notin Faults
  PROVE  Spec => []PruneInv
<1>1. Init => PruneInv
  <2> SUFFICES ASSUME Init PROVE PruneInv
    OBVIOUS
  <2>1. ControlInv /\ CopyInv
    BY ControlInit, CopyInit
  <2>2. ChoiceInv /\ ChunkInv /\ ExitInv
    BY DEF Init, ChoiceInv, TailChoice, FilterChoice, ChunkInv, ExitInv
  <2>3. FilterInv
    BY DEF Init, FilterInv
  <2> QED
    BY <2>1, <2>2, <2>3 DEF PruneInv
<1>2. PruneInv /\ [Next]_vars => PruneInv'
  BY ControlStep, CopyStep, ChoiceStep, ChunkStep, FilterStep, ExitStep DEF PruneInv
<1> QED
  BY <1>1, <1>2, PTL DEF Spec

(* A prune that reports success has kept the newest message and, where the *)
(* messages are in the order of their timestamps, every newer one, whether *)
(* the file was cut at its front through a buffer of any size or filtered  *)
(* message by message - but for the empty messages the filter passes over. *)
THEOREM NewerSurvive ==
  ASSUME "silent" \notin Faults
  PROVE  Spec => []NewerKept
<1>1. PruneInv => NewerKept
  BY DEF PruneInv, ExitInv, Done, NewerKept, Pruned
<1> QED
  BY <1>1, PruneInvariant, PTL

(* The file ends with the marker, right behind the newest message unless   *)
(* the filter has passed that over, and the marker's start offset is 0     *)
(* unless it was split between two rounds.                                 *)
THEOREM MarkerEnds ==
  ASSUME "silent" \notin Faults
  PROVE  Spec => []MarkerAtEnd
<1>1. PruneInv => MarkerAtEnd
  BY DEF PruneInv, ExitInv, Done, MarkerAtEnd, Pruned
<1> QED
  BY <1>1, PruneInvariant, PTL

(* Wherever -P stops, exit status, cache and copy are a result             *)
(* RepoContract allows; MaintainStore relies on it.                        *)
THEOREM Contract ==
  ASSUME "silent" \notin Faults
  PROVE  Spec => []KeepsContract
<1>1. PruneInv => KeepsContract
  <2> SUFFICES ASSUME PruneInv, op = "prune", pc \in {"exited", "killed"}
               PROVE  [rc |-> IF pc = "killed" THEN 1 ELSE overall_rc,
                       form |-> CacheForm, copy |-> backup] \in PruneResults
    BY DEF KeepsContract
  <2>1. overall_rc \in {0, 1} /\ backup \in Copies
    BY DEF PruneInv, ControlInv
  <2>2. CacheForm \in Forms /\ (CacheForm # "whole" => ~Untouched)
    BY DEF CacheForm, Forms
  <2>3. ~Untouched => backup = "full"
    BY DEF PruneInv, CopyInv
  <2>4. pc # "killed" /\ overall_rc = 0 => CacheForm # "damaged"
    BY DEF PruneInv, ExitInv, Done, CacheForm
  <2> QED
    BY <2>1, <2>2, <2>3, <2>4 DEF PruneResults
<1> QED
  BY <1>1, PruneInvariant, PTL
=============================================================================
