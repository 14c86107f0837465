------------------------------ MODULE SnapRepo ------------------------------
(***************************************************************************)
(* umesnaprepo on one repository: -P prunes the cache file of a stopped    *)
(* store, -m moves the files of an idle repository away.  -P first asks    *)
(* the repository library what to do (prune_collect), then does it with    *)
(* plain file I/O (prune_execute), of which any call may fail and after    *)
(* any of which the program may be killed.                                 *)
(*                                                                         *)
(* A file is a function from its offsets to cells.  A cell is a piece of a *)
(* message, of the end marker's header or of the start offset the marker   *)
(* ends with; all sizes count cells.  On disk a message is a record: a      *)
(* header of HdrSz, then disk_len more, which may be none.                 *)
(***************************************************************************)
EXTENDS Integers, RepoContract

CONSTANTS
  Repos,      \* the repositories the library may present, see RepoOK
  Threshold,  \* TIMESTAMP of -P and -m
  BufSize,    \* BUF_SIZE of prune_file_inplace
  MarkerSz,   \* UMEDISK_REC_MARKER_SZ
  OffsetSz,   \* size of start_offset, the last field of the marker
  HdrSz,      \* UMEDISK_REC_HDR_SZ
  EntryBuf,   \* size of buf in prune_execute, which takes one record
  Faults      \* subset of {"io", "silent", "kill"}

Zero == [of |-> 0, at |-> 0]              \* a cell of a start offset of 0

(* What lbm_srp_get_repo_state and lbm_srp_get_repo_message tell of a       *)
(* repository.  msg[s].result is 1 (read), 0 (lost) or -1 (read error).     *)
Sqns(r) == r.low_sqn .. r.high_sqn
Record(r, s) == r.msg[s].disk_len + HdrSz
From(r, s) == r.msg[s].disk_offset
To(r, s)   == r.msg[s].disk_offset + Record(r, s)

(* Where message s begins if the ring is read from start_offset.            *)
Distance(r, s) ==
  From(r, s) - r.start_offset + (IF From(r, s) >= r.start_offset THEN 0 ELSE r.size)

(* umestored writes the messages one behind the other, and the marker       *)
(* behind the newest, at the front of the file where it does not fit.       *)
LaidOut(r) ==
  /\ \A s, t \in Sqns(r) :
       s < t => Distance(r, s) + Record(r, s) <= Distance(r, t)
  /\ r.start_offset < r.end_offset =>
       \A s \in Sqns(r) : /\ From(r, s) >= r.start_offset /\ To(r, s) <= r.end_offset
                          /\ s = r.high_sqn => To(r, s) = r.end_offset
  /\ r.start_offset >= r.end_offset =>
       /\ r.end_offset + MarkerSz <= r.start_offset
       /\ \A s \in Sqns(r) :
            \/ From(r, s) >= r.start_offset
            \/ To(r, s) < r.end_offset /\ s # r.high_sqn
            \/ To(r, s) = r.end_offset

(* A record fits into the buffer the filter reads it into: the code does    *)
(* not look, and nothing is said here of one that does not fit.             *)
RepoOK(r) ==
  /\ r.valid \in BOOLEAN
  /\ r.size \in Nat
  /\ r.low_sqn \in Nat /\ r.high_sqn \in Nat /\ r.num_msgs \in Nat
  /\ r.num_msgs > 0 => r.low_sqn <= r.high_sqn
  /\ r.start_offset \in 0..r.size
  /\ r.end_offset \in Nat /\ r.end_offset + MarkerSz <= r.size
  /\ \A s \in Sqns(r) :
       /\ r.msg[s].result \in {-1, 0, 1}
       /\ r.msg[s].tsp \in Int
       /\ r.msg[s].disk_offset \in Nat /\ r.msg[s].disk_len \in Nat
       /\ Record(r, s) <= EntryBuf /\ To(r, s) <= r.size
  /\ LaidOut(r)

ASSUME ReposAssumption == \A r \in Repos : RepoOK(r)
ASSUME SizesAssumption ==
  /\ Threshold \in Int
  /\ OffsetSz \in Nat \ {0} /\ MarkerSz \in Nat /\ MarkerSz >= OffsetSz
  /\ BufSize \in Nat /\ BufSize >= OffsetSz
  /\ HdrSz \in Nat \ {0} /\ EntryBuf \in Nat

VARIABLES
  repo, op,        \* the repository and the option, "prune" or "move"
  pc,
  action, msg_offset,  \* prune_decision_t
  copied, sqn,     \* progress of the in-place copy and of the filter
  cache,           \* contents of the cache file
  tmp, tmp_size,   \* contents of the temporary file
  backup,          \* the copy in DIR: "none", "partial" or "full"
  cache_at, state_at, idx_at,   \* "place", "dir" or "gone"
  overall_rc,
  io_error         \* observation: an I/O call of prune_execute has failed

fileVars == <<cache, tmp, tmp_size, backup>>
placeVars == <<cache_at, state_at, idx_at>>
vars == <<repo, op, pc, action, msg_offset, copied, sqn, fileVars, placeVars,
          overall_rc, io_error>>

Message(s) == repo.msg[s]
Readable(s) == Message(s).result = 1
Old(s) == Message(s).tsp < Threshold
IsEmpty(s) == Message(s).disk_len = 0

(* The cells a repository consists of before anything is pruned. *)
Original == [o \in 0 .. repo.size - 1 |-> repo.bytes[o]]

(* Seeded fault: the end marker is not part of what is kept. *)
end_of_record_NoMarker == repo.end_offset

end_of_record == repo.end_offset + MarkerSz
remaining == end_of_record - msg_offset

Goto(from, to) == pc = from /\ pc' = to
Smaller(a, b) == IF a <= b THEN a ELSE b

-----------------------------------------------------------------------------
Init ==
  /\ repo \in Repos
  /\ op \in {"prune", "move"}
  /\ pc = "start" /\ action = "none" /\ msg_offset = 0
  /\ copied = 0 /\ sqn = repo.low_sqn
  /\ cache = Original
  /\ tmp = [o \in {} |-> Zero] /\ tmp_size = 0
  /\ backup = "none"
  /\ cache_at = "place" /\ state_at = "place" /\ idx_at \in {"place", "gone"}
  /\ overall_rc = 0 /\ io_error = FALSE

(* .umlock is held by a running umestored, or cannot be opened. *)
locked ==
  /\ Goto("start", "exited")
  /\ overall_rc' = 1
  /\ UNCHANGED <<repo, op, action, msg_offset, copied, sqn, fileVars,
                 placeVars, io_error>>

examine ==
  /\ Goto("start", op)
  /\ UNCHANGED <<repo, op, action, msg_offset, copied, sqn, fileVars,
                 placeVars, overall_rc, io_error>>

-----------------------------------------------------------------------------
(* prune_collect(): no file is touched                                      *)

Collected(rc, to) ==
  /\ pc = "prune" /\ pc' = to
  /\ overall_rc' = rc
  /\ UNCHANGED <<repo, op, copied, sqn, fileVars, placeVars, io_error>>

collect_error ==
  /\ Collected(1, "exited")
  /\ \/ ~repo.valid
     \/ /\ repo.num_msgs > 0
        /\ \/ ~Readable(repo.low_sqn)
           \/ Old(repo.low_sqn) /\ ~Readable(repo.high_sqn)
  /\ UNCHANGED <<action, msg_offset>>

(* Both ends can be read and the lowest message is older: cases 2 to 4. *)
Prunable ==
  /\ repo.valid /\ repo.num_msgs > 0
  /\ Readable(repo.low_sqn) /\ Old(repo.low_sqn)
  /\ Readable(repo.high_sqn)
HighIsOld == Message(repo.high_sqn).tsp <= Threshold
Wrapped == repo.start_offset >= repo.end_offset

(* Case 3 keeps the last of the old messages the scan from below gets to. *)
OldRun == {s \in repo.low_sqn .. repo.high_sqn - 1 :
             /\ Readable(s)
             /\ \A t \in repo.low_sqn .. s : Readable(t) => Old(t)}
IsKeepSqn(k) == k \in OldRun /\ \A s \in OldRun : s <= k

collect_nothing ==
  /\ Collected(0, "exited")
  /\ \/ repo.valid /\ repo.num_msgs = 0
     \/ /\ repo.valid /\ repo.num_msgs > 0
        /\ Readable(repo.low_sqn) /\ ~Old(repo.low_sqn)
     \/ Prunable /\ HighIsOld /\ repo.num_msgs = 1
     \/ Prunable /\ ~HighIsOld /\ ~Wrapped /\ IsKeepSqn(repo.low_sqn)
  /\ UNCHANGED <<action, msg_offset>>

(* Case 2: nothing is newer, keep the last message. *)
collect_last ==
  /\ Collected(0, "tail")
  /\ Prunable /\ HighIsOld /\ repo.num_msgs # 1
  /\ action' = "tail"
  /\ msg_offset' = Message(repo.high_sqn).disk_offset

(* Case 3: the cache is not wrapped, cut it at its front. *)
collect_tail ==
  /\ Collected(0, "tail")
  /\ Prunable /\ ~HighIsOld /\ ~Wrapped
  /\ action' = "tail"
  /\ \E k \in OldRun :
       /\ k # repo.low_sqn /\ IsKeepSqn(k)
       /\ msg_offset' = Message(k).disk_offset

(* Case 4: the cache is wrapped, filter it message by message. *)
collect_filter ==
  /\ Collected(0, "filter")
  /\ Prunable /\ ~HighIsOld /\ Wrapped
  /\ action' = "filter"
  /\ UNCHANGED msg_offset

-----------------------------------------------------------------------------
(* prune_execute(): the error exits                                         *)

(* A call fails and prune_execute returns ret; main() takes only a negative *)
(* result for an error.                                                     *)
Fail(at, ret) ==
  /\ "io" \in Faults
  /\ pc = at /\ pc' = "exited"
  /\ overall_rc' = IF ret < 0 THEN 1 ELSE overall_rc
  /\ io_error' = TRUE

(* Seeded fault: a failed replacement returns 1 as well. *)
io_fails_Hidden ==
  /\ \/ \E at \in {"tail", "tail_copy", "open", "chunk", "truncate", "copy",
                   "entries", "unlink"} : Fail(at, -1)
     \/ \E at \in {"entries", "marker", "rename"} : Fail(at, 1)
  /\ UNCHANGED <<repo, op, action, msg_offset, copied, sqn, fileVars,
                 placeVars>>

io_fails ==
  /\ \/ \E at \in {"tail", "tail_copy", "open", "chunk", "truncate", "copy",
                   "entries", "unlink", "rename"} : Fail(at, -1)
     \/ \E at \in {"entries", "marker"} : Fail(at, 1)
  /\ UNCHANGED <<repo, op, action, msg_offset, copied, sqn, fileVars,
                 placeVars>>

-----------------------------------------------------------------------------
(* tailOffset() and prune_file_inplace()                                    *)

(* Seeded fault: pruning starts without a copy. *)
tail_open_NoCopy ==
  /\ Goto("tail", "idx")
  /\ UNCHANGED <<repo, op, action, msg_offset, copied, sqn, fileVars,
                 placeVars, overall_rc, io_error>>

tail_open ==
  /\ Goto("tail", "tail_copy")
  /\ backup' = "partial"
  /\ UNCHANGED <<repo, op, action, msg_offset, copied, sqn, cache, tmp,
                 tmp_size, placeVars, overall_rc, io_error>>

(* The copy to DIR; a read error looks like the end of the file, and what   *)
(* fclose() fails to flush is lost: neither is noticed.                     *)
CopyToDir ==
  backup' \in {"full"} \cup (IF "silent" \in Faults THEN {"partial"} ELSE {})

tail_copy ==
  /\ Goto("tail_copy", "idx")
  /\ CopyToDir
  /\ UNCHANGED <<repo, op, action, msg_offset, copied, sqn, cache, tmp,
                 tmp_size, placeVars, overall_rc, io_error>>

(* moveCacheFileIdx(): a failure is only a warning. *)
move_idx ==
  /\ pc = "idx" \/ pc = "filter"
  /\ pc' = IF pc = "idx" THEN "open" ELSE "filter_open"
  /\ \/ idx_at = "place" /\ idx_at' = "dir"
     \/ ("io" \in Faults \/ idx_at # "place") /\ UNCHANGED idx_at
  /\ UNCHANGED <<repo, op, action, msg_offset, copied, sqn, fileVars,
                 cache_at, state_at, overall_rc, io_error>>

prune_open ==
  /\ Goto("open", "chunk")
  /\ msg_offset <= repo.size /\ end_of_record <= repo.size
  /\ remaining > 0
  /\ copied' = 0
  /\ UNCHANGED <<repo, op, action, msg_offset, sqn, fileVars, placeVars,
                 overall_rc, io_error>>

prune_bails ==
  /\ Goto("open", "exited")
  /\ msg_offset > repo.size \/ end_of_record > repo.size \/ remaining <= 0
  /\ overall_rc' = 1 /\ io_error' = TRUE
  /\ UNCHANGED <<repo, op, action, msg_offset, copied, sqn, fileVars,
                 placeVars>>

(* One round of the copy loop, to_copy cells.  The last round clears the    *)
(* marker's start offset in the buffer: cells of it that an earlier round   *)
(* has written are out of its reach (the code writes before the buffer).    *)
to_copy == Smaller(BufSize, remaining - copied)
LastChunk == copied + to_copy = remaining
Cleared(o) == LastChunk /\ remaining > MarkerSz /\ o >= remaining - OffsetSz

(* Seeded fault: the loop does not advance. *)
copy_chunk_Stuck ==
  /\ pc = "chunk" /\ copied < remaining
  /\ UNCHANGED vars
copy_chunk ==
  /\ pc = "chunk" /\ copied < remaining
  /\ cache' = [o \in DOMAIN cache |->
                 IF o \in copied .. copied + to_copy - 1
                 THEN IF Cleared(o) THEN Zero ELSE cache[msg_offset + o]
                 ELSE cache[o]]
  /\ copied' = copied + to_copy
  /\ UNCHANGED <<repo, op, pc, action, msg_offset, sqn, tmp, tmp_size, backup,
                 placeVars, overall_rc, io_error>>

chunks_done ==
  /\ Goto("chunk", "truncate") /\ copied >= remaining
  /\ UNCHANGED <<repo, op, action, msg_offset, copied, sqn, fileVars,
                 placeVars, overall_rc, io_error>>

truncate ==
  /\ Goto("truncate", "exited")
  /\ cache' = [o \in 0 .. remaining - 1 |-> cache[o]]
  /\ UNCHANGED <<repo, op, action, msg_offset, copied, sqn, tmp, tmp_size,
                 backup, placeVars, overall_rc, io_error>>

-----------------------------------------------------------------------------
(* The filter of prune_execute()                                            *)

(* fopen of the cache, of the copy ("wb" empties it) and of the temporary   *)
(* file: the first to fail ends the prune.                                  *)
filter_open ==
  /\ pc = "filter_open"
  /\ \/ pc' = "copy" /\ backup' = "partial" /\ UNCHANGED <<overall_rc, io_error>>
     \/ Fail("filter_open", -1) /\ backup' \in {backup, "partial"}
  /\ UNCHANGED <<repo, op, action, msg_offset, copied, sqn, cache, tmp,
                 tmp_size, placeVars>>

filter_copy ==
  /\ Goto("copy", "entries")
  /\ CopyToDir
  /\ sqn' = repo.low_sqn
  /\ UNCHANGED <<repo, op, action, msg_offset, copied, cache, tmp, tmp_size,
                 placeVars, overall_rc, io_error>>

(* Seeded fault: the timestamps are compared the wrong way round. *)
Keep_Reversed(s) == Readable(s) /\ ~IsEmpty(s) /\ (Old(s) \/ s = repo.high_sqn)

(* filter_msg_t.keep *)
Keep(s) == Readable(s) /\ ~IsEmpty(s) /\ (~Old(s) \/ s = repo.high_sqn)

Append(cells, n) ==
  /\ tmp' = [o \in 0 .. tmp_size + n - 1 |->
               IF o < tmp_size THEN tmp[o] ELSE cells[o - tmp_size]]
  /\ tmp_size' = tmp_size + n

(* An entry that was lost, could not be read, is empty or is not kept is    *)
(* passed over, with a line of output but no error.                         *)
Written(s) == Readable(s) /\ ~IsEmpty(s) /\ Keep(s)

write_entry ==
  /\ pc = "entries" /\ sqn <= repo.high_sqn
  /\ IF Written(sqn)
     THEN Append([i \in 0 .. Record(repo, sqn) - 1 |->
                    cache[Message(sqn).disk_offset + i]],
                 Record(repo, sqn))
     ELSE UNCHANGED <<tmp, tmp_size>>
  /\ sqn' = sqn + 1
  /\ UNCHANGED <<repo, op, pc, action, msg_offset, copied, cache, backup,
                 placeVars, overall_rc, io_error>>

entries_done ==
  /\ Goto("entries", "marker") /\ sqn > repo.high_sqn
  /\ UNCHANGED <<repo, op, action, msg_offset, copied, sqn, fileVars,
                 placeVars, overall_rc, io_error>>

write_marker ==
  /\ Goto("marker", "close")
  /\ Append([i \in 0 .. MarkerSz - 1 |->
               IF i >= MarkerSz - OffsetSz THEN Zero
                                           ELSE cache[repo.end_offset + i]],
            MarkerSz)
  /\ UNCHANGED <<repo, op, action, msg_offset, copied, sqn, cache, backup,
                 placeVars, overall_rc, io_error>>

(* fclose() may lose the temporary file's contents, again unnoticed. *)
close_tmp ==
  /\ Goto("close", "unlink")
  /\ \E n \in {tmp_size} \cup (IF "silent" \in Faults THEN {0} ELSE {}) :
       tmp' = [o \in 0 .. n - 1 |-> tmp[o]] /\ tmp_size' = n
  /\ UNCHANGED <<repo, op, action, msg_offset, copied, sqn, cache, backup,
                 placeVars, overall_rc, io_error>>

(* replace_file(): unlink, then rename *)
unlink_cache ==
  /\ Goto("unlink", "rename")
  /\ cache_at' = "gone"
  /\ UNCHANGED <<repo, op, action, msg_offset, copied, sqn, fileVars,
                 state_at, idx_at, overall_rc, io_error>>

rename_tmp ==
  /\ Goto("rename", "exited")
  /\ cache' = tmp /\ cache_at' = "place"
  /\ tmp' = [o \in {} |-> Zero] /\ tmp_size' = 0
  /\ UNCHANGED <<repo, op, action, msg_offset, copied, sqn, backup, state_at,
                 idx_at, overall_rc, io_error>>

-----------------------------------------------------------------------------
(* move_repo_timestamp() and moveFilesToDirectory(); both return nothing    *)
(* that main() looks at                                                     *)

Idle == \/ repo.num_msgs = 0
        \/ /\ repo.num_msgs > 0
           /\ Readable(repo.low_sqn) /\ Readable(repo.high_sqn)
           /\ Threshold > Message(repo.high_sqn).tsp

Moving(from, to) ==
  /\ Goto(from, to)
  /\ UNCHANGED <<repo, op, action, msg_offset, copied, sqn, fileVars,
                 overall_rc, io_error>>

skip_repo ==
  /\ Moving("move", "exited")
  /\ ~(repo.valid /\ Idle)
  /\ UNCHANGED placeVars

(* Seeded fault: the cache goes before the state. *)
move_state_Last ==
  /\ Moving("move", "move_cache")
  /\ repo.valid /\ Idle
  /\ cache_at' = "dir"
  /\ UNCHANGED <<state_at, idx_at>>

move_state ==
  /\ Moving("move", "move_cache")
  /\ repo.valid /\ Idle
  /\ state_at' = "dir"
  /\ UNCHANGED <<cache_at, idx_at>>

move_cache ==
  /\ Moving("move_cache", "move_idx")
  /\ cache_at' = "dir"
  /\ UNCHANGED <<state_at, idx_at>>

move_fails ==
  /\ "io" \in Faults
  /\ Moving("move", "exited") \/ Moving("move_cache", "exited")
  /\ repo.valid /\ Idle
  /\ UNCHANGED placeVars

move_its_idx ==
  /\ Moving("move_idx", "exited")
  /\ \/ idx_at = "place" /\ idx_at' = "dir"
     \/ ("io" \in Faults \/ idx_at # "place") /\ UNCHANGED idx_at
  /\ UNCHANGED <<cache_at, state_at>>

-----------------------------------------------------------------------------
killed ==
  /\ "kill" \in Faults
  /\ pc \notin {"exited", "killed"}
  /\ pc' = "killed"
  /\ UNCHANGED <<repo, op, action, msg_offset, copied, sqn, fileVars,
                 placeVars, overall_rc, io_error>>

Program ==
  \/ locked \/ examine
  \/ collect_error \/ collect_nothing \/ collect_last \/ collect_tail
  \/ collect_filter
  \/ tail_open \/ tail_copy \/ move_idx \/ prune_open \/ prune_bails
  \/ copy_chunk \/ chunks_done \/ truncate
  \/ filter_open \/ filter_copy \/ write_entry \/ entries_done \/ write_marker
  \/ close_tmp \/ unlink_cache \/ rename_tmp
  \/ skip_repo \/ move_state \/ move_cache \/ move_its_idx

Next == Program \/ io_fails \/ move_fails \/ killed

Spec == Init /\ [][Next]_vars

(* umesnaprepo runs on its own, the library and the file system answer; no  *)
(* call has to fail.                                                        *)
FairSpec == Spec /\ WF_vars(Program)

-----------------------------------------------------------------------------
(* Properties                                                               *)

(* The file holds the record of message s, whole and in one place. *)
Holds(file, s) ==
  \E o \in DOMAIN file :
    \A i \in 0 .. Record(repo, s) - 1 :
      /\ o + i \in DOMAIN file
      /\ file[o + i] = repo.bytes[Message(s).disk_offset + i]

Untouched == cache_at = "place" /\ cache = Original

(* -P "copy original cache file to DIR directory": the cache file is not    *)
(* altered, and not removed, before its copy is complete.                   *)
CopyBeforeDamage == op = "prune" /\ ~Untouched => backup = "full"

Pruned == pc = "exited" /\ action # "none" /\ overall_rc = 0 /\ ~io_error
TimeOrdered == \A s, t \in Sqns(repo) : s <= t => Message(s).tsp <= Message(t).tsp

(* The filter writes no record of an empty message, whatever its age; the   *)
(* cut at the front of the file spares it as it does any other.             *)
PassedOver(s) == action = "filter" /\ IsEmpty(s)

(* A prune that reports success has kept the newest message whatever its    *)
(* age and, if the messages are in the order of their timestamps, every     *)
(* message newer than the threshold, in whichever case it was dealt with -  *)
(* but for an empty message of a wrapped cache.                             *)
KeepsNewer ==
  \A s \in Sqns(repo) :
    /\ Readable(s) /\ ~PassedOver(s)
    /\ s = repo.high_sqn \/ (TimeOrdered /\ Message(s).tsp > Threshold)
    => Holds(cache, s)
NewerKept == Pruned => KeepsNewer

(* The marker ends the file it is in, right after the newest message unless *)
(* the filter has passed that over, and its start offset says 0 - if the    *)
(* last round of the in-place copy covers all of that offset.               *)
MarkerWithin(size) ==
  /\ \A i \in 1 .. MarkerSz - OffsetSz :
       cache[size - MarkerSz + i - 1] = repo.bytes[repo.end_offset + i - 1]
  /\ ~PassedOver(repo.high_sqn) =>
       /\ size > MarkerSz
       /\ cache[size - MarkerSz - 1] = repo.bytes[To(repo, repo.high_sqn) - 1]
StartsAtZero(size) == \A i \in 1 .. OffsetSz : cache[size - i] = Zero
InOneChunk == remaining % BufSize \notin 1 .. OffsetSz - 1
EndsWithMarker ==
  \E size \in MarkerSz .. repo.size :
    /\ DOMAIN cache = 0 .. size - 1
    /\ MarkerWithin(size)
    /\ (action = "filter" \/ InOneChunk) => StartsAtZero(size)
MarkerAtEnd == Pruned => EndsWithMarker

(* prune_file_inplace: "On the last chunk, zero the end-marker's            *)
(* start_offset so LBM knows the first valid message is now at offset 0".   *)
StartOffsetCleared ==
  Pruned =>
    \E size \in MarkerSz + 1 .. repo.size :
      DOMAIN cache = 0 .. size - 1 /\ StartsAtZero(size)

(* Wherever the program stops, with whichever exit status, what it leaves   *)
(* is a result the contract allows: no altered cache without a full copy,   *)
(* and no status 0 for one that is neither as it was nor properly pruned,   *)
(* although not every failure reaches the status.                           *)
CacheForm ==
  IF Untouched THEN "whole"
  ELSE IF action # "none" /\ cache_at = "place"
            /\ KeepsNewer /\ EndsWithMarker THEN "pruned"
  ELSE "damaged"
KeepsContract ==
  op = "prune" /\ pc \in {"exited", "killed"} =>
    [rc |-> IF pc = "killed" THEN 1 ELSE overall_rc,
     form |-> CacheForm, copy |-> backup] \in PruneResults

(* -m never takes a cache file from under a state file that stays. *)
CacheFollowsState == cache_at = "dir" => state_at = "dir"

(* The loops end: umesnaprepo always exits. *)
Exits == <>(pc \in {"exited", "killed"})
=============================================================================
