------------------------------ MODULE EfWrite ------------------------------
(***************************************************************************)
(* The write path of evio/ef_file.c for one file opened read-write: from   *)
(* ef_write through the accumulation buffer, the request queue of the      *)
(* write action and the file_writer thread to the disk pool, with ef_sync, *)
(* ef_close and the slow_sync thread that flushes every open file.         *)
(*                                                                         *)
(* The bytes of the file are numbered in the order ef_write accepts them.  *)
(* The file starts empty.  All ev_queues are FIFOs (module EvQueue), the   *)
(* disk pool starts its tasks in order (module ThreadPool); file_writer's  *)
(* wait for an event is the wait of that pool and is one step here.        *)
(*                                                                         *)
(* A thread that reaches for the write fields of _action when the action   *)
(* has been freed, or replaced by one of another kind, has gone wrong in a *)
(* way the C code does not define: fault names it and nothing moves after. *)
(***************************************************************************)
EXTENDS Integers, Sequences, FiniteSets, SequencesExt

CONSTANTS Disk,       \* the threads of the disk pool
          PageSize,   \* sg_page_size
          MaxBytes,   \* bound: bytes the user writes
          MaxSyncs    \* bound: rounds of slow_sync

ASSUME EfAssumption ==
    /\ PageSize \in Nat \ {0}
    /\ MaxBytes \in Nat
    /\ MaxSyncs \in Nat
    /\ {"user", "slow_sync", "file_writer"} \cap Disk = {}

User   == "user"
Slow   == "slow_sync"
Writer == "file_writer"
Procs  == {User, Slow, Writer} \cup Disk

VARIABLES
    file,     \* "open", "closed" (the OS file) or "freed" (the EF_FILE too)
    act,      \* *_action; cmd "none" stands for a NULL pointer
    pam,      \* _prevent_action_mutation
    ws,       \* _write_suspended
    htfa,     \* sg_handle_to_file_action[fd]
    events,   \* sg_file_writer_queue
    jobs,     \* tasks of the disk pool for this file
    page,     \* [index, data, dirty]: _buf and the bytes of it in use
    disk,     \* the bytes of the OS file
    pc,       \* per thread: where it stands
    stack,    \* per thread: labels to return to
    cur,      \* user and slow_sync: the write_task_s being enqueued
    todo,     \* disk threads: the tasks of _b_w_list still to do
    cleared,  \* file_writer: compl_count
    sent,     \* number of bytes accepted
    left,     \* user: bytes of the current ef_write still to copy
    rounds,   \* rounds slow_sync has started
    fault     \* "none" or the thread that went wrong

vars == <<file, act, pam, ws, htfa, events, jobs, page, disk, pc, stack, cur,
          todo, cleared, sent, left, rounds, fault>>

NoAction  == [cmd |-> "none", status |-> "none", accum |-> <<>>, wqueue |-> <<>>,
              batch |-> <<>>, totreq |-> 0, req |-> 0, cmpl |-> 0]
NoTask    == [cmd |-> "none", data |-> <<>>]

(* ef_file_open has just opened the file and nobody has asked for its      *)
(* status: the open action is complete and still there.                    *)
Init ==
    /\ file = "open"
    /\ act = [NoAction EXCEPT !.cmd = "open", !.status = "complete"]
    /\ pam = 0
    /\ ws = 0
    /\ htfa = 0
    /\ events = <<>>
    /\ jobs = <<>>
    /\ page = [index |-> 0, data |-> <<>>, dirty |-> FALSE]
    /\ disk = <<>>
    /\ pc = [p \in Procs |-> "idle"]
    /\ stack = [p \in Procs |-> <<>>]
    /\ cur = [p \in {User, Slow} |-> NoTask]
    /\ todo = [d \in Disk |-> <<>>]
    /\ cleared = 0
    /\ sent = 0
    /\ left = 0
    /\ rounds = 0
    /\ fault = "none"

At(p, label)   == fault = "none" /\ pc[p] = label
Goto(p, label) == pc' = [pc EXCEPT ![p] = label]
Jump(p, label) == Goto(p, label) /\ UNCHANGED stack
Call(p, label, back) == /\ Goto(p, label)
                        /\ stack' = [stack EXCEPT ![p] = <<back>> \o @]
Return(p) == /\ Goto(p, Head(stack[p]))
             /\ stack' = [stack EXCEPT ![p] = Tail(@)]

Live      == act.cmd # "none" /\ file # "freed"
LiveWrite == act.cmd = "write" /\ file # "freed"

(* The variables the disk side changes, the user's own, the three spin     *)
(* locks, and what the threads keep for themselves.                        *)
diskVars == <<jobs, page, disk, todo>>
userVars == <<sent, left>>
locks    == <<pam, ws, htfa>>
private  == <<cur, cleared, userVars, rounds, fault>>

-----------------------------------------------------------------------------
(* free_file_action and alloc_file_action.  Their spin loop does not reset *)
(* the expected value: the first attempt that fails leaves pam == 1 there, *)
(* and the next one succeeds on a lock that is held.                       *)

LockMutation(p) ==
    /\ \/ /\ At(p, "free_lock")
          /\ IF pam = 0 THEN pam' = 1 /\ Goto(p, "free")
             ELSE Goto(p, "free_relock") /\ UNCHANGED pam
       \/ /\ At(p, "alloc_lock")
          /\ IF pam = 0 THEN pam' = 1 /\ Goto(p, "alloc")
             ELSE Goto(p, "alloc_relock") /\ UNCHANGED pam
    /\ UNCHANGED <<file, act, ws, htfa, events, diskVars, stack, private>>

RelockMutation(p) ==
    /\ \/ /\ At(p, "free_relock")
          /\ Goto(p, IF pam = 1 THEN "free" ELSE "free_lock")
       \/ /\ At(p, "alloc_relock")
          /\ Goto(p, IF pam = 1 THEN "alloc" ELSE "alloc_lock")
    /\ UNCHANGED <<file, act, locks, events, diskVars, stack, private>>

FreeAction(p) ==
    /\ At(p, "free")
    /\ act' = NoAction
    /\ Jump(p, "unlock")
    /\ UNCHANGED <<file, locks, events, diskVars, private>>

AllocAction(p) ==
    /\ At(p, "alloc")
    /\ act' = [NoAction EXCEPT !.cmd = IF Head(stack[p]) = "close" THEN "close"
                                       ELSE "write",
                               !.status = "initiated"]
    /\ Jump(p, "unlock")
    /\ UNCHANGED <<file, locks, events, diskVars, private>>

UnlockMutation(p) ==
    /\ At(p, "unlock")
    /\ pam' = 0
    /\ Return(p)
    /\ UNCHANGED <<file, act, ws, htfa, events, diskVars, private>>

action_mutation(p) == \/ LockMutation(p) \/ RelockMutation(p) \/ FreeAction(p)
                      \/ AllocAction(p) \/ UnlockMutation(p)

-----------------------------------------------------------------------------
(* write_buffer_sync, and the same steps for the fsync request of          *)
(* sync_file_writes: count the request, enqueue it, post an event.         *)

(* Mutant: the accumulation buffer is not emptied when it is sent off.     *)
CountRequest_KeepsBuffer(p, task) ==
    /\ LiveWrite
    /\ cur' = [cur EXCEPT ![p] = task]
    /\ act' = [act EXCEPT !.totreq = @ + 1]
    /\ Jump(p, "enqueue")
    /\ UNCHANGED <<file, locks, events, diskVars, cleared, userVars, rounds,
                   fault>>

CountRequest(p, task) ==
    /\ LiveWrite
    /\ cur' = [cur EXCEPT ![p] = task]
    /\ act' = [act EXCEPT !.totreq = @ + 1,
                          !.accum = IF task.cmd = "write" THEN <<>> ELSE @]
    /\ Jump(p, "enqueue")
    /\ UNCHANGED <<file, locks, events, diskVars, cleared, userVars, rounds,
                   fault>>

CountWrite(p) == At(p, "flush") /\ CountRequest(p, [cmd |-> "write", data |-> act.accum])
CountFsync(p) == At(p, "fsync") /\ CountRequest(p, [cmd |-> "fsync", data |-> <<>>])

EnqueueRequest(p) ==
    /\ At(p, "enqueue")
    /\ LiveWrite
    /\ act' = [act EXCEPT !.wqueue = Append(@, cur[p])]
    /\ cur' = [cur EXCEPT ![p] = NoTask]
    /\ Jump(p, "post")
    /\ UNCHANGED <<file, locks, events, diskVars, cleared, userVars, rounds,
                   fault>>

PostRequest(p) ==
    /\ At(p, "post")
    /\ LiveWrite
    /\ act' = [act EXCEPT !.status = "initiated"]
    /\ events' = Append(events, "req")
    /\ Return(p)
    /\ UNCHANGED <<file, locks, diskVars, private>>

write_request(p) == CountWrite(p) \/ CountFsync(p) \/ EnqueueRequest(p) \/ PostRequest(p)

-----------------------------------------------------------------------------
(* sync_file_writes, run by slow_sync and by ef_close                      *)

SyncLockFile(p) ==
    /\ At(p, "sync")
    /\ htfa = 0
    /\ htfa' = 1
    /\ Jump(p, "sync_file")
    /\ UNCHANGED <<file, act, pam, ws, events, diskVars, private>>

SyncCheckFile(p) ==
    /\ At(p, "sync_file")
    /\ Jump(p, IF file = "open" THEN "sync_pam" ELSE "sync_out")
    /\ UNCHANGED <<file, act, locks, events, diskVars, private>>

SyncLockMutation(p) ==
    /\ At(p, "sync_pam")
    /\ pam = 0
    /\ pam' = 1
    /\ Jump(p, "sync_ws")
    /\ UNCHANGED <<file, act, ws, htfa, events, diskVars, private>>

SyncSuspendWrites(p) ==
    /\ At(p, "sync_ws")
    /\ ws = 0
    /\ ws' = 1
    /\ Jump(p, "sync_wait")
    /\ UNCHANGED <<file, act, pam, htfa, events, diskVars, private>>

(* The three places that test _action for NULL and then look inside it.    *)
SyncTestAction(p) ==
    /\ \/ /\ At(p, "sync_wait")
          /\ Jump(p, IF act.cmd = "none" THEN "sync_flush" ELSE "sync_wait_use")
       \/ /\ At(p, "sync_flush")
          /\ Jump(p, IF act.cmd = "none" THEN "sync_fsync" ELSE "sync_flush_use")
       \/ /\ At(p, "sync_fsync")
          /\ Jump(p, IF act.cmd = "none" THEN "sync_resume" ELSE "sync_fsync_use")
    /\ UNCHANGED <<file, act, locks, events, diskVars, private>>

(* An action that is not a write is waited for.                            *)
SyncAwaitAction(p) ==
    /\ At(p, "sync_wait_use")
    /\ Live
    /\ act.cmd = "write" \/ act.status = "complete"
    /\ Jump(p, "sync_flush")
    /\ UNCHANGED <<file, act, locks, events, diskVars, private>>

(* low_ef_sync: what ef_write has accumulated becomes a request.           *)
SyncFlush(p) ==
    /\ At(p, "sync_flush_use")
    /\ Live
    /\ IF act.cmd = "write" /\ act.accum # <<>>
       THEN Call(p, "flush", "sync_fsync")
       ELSE Jump(p, "sync_fsync")
    /\ UNCHANGED <<file, act, locks, events, diskVars, private>>

(* Mutant: no fsync is requested behind the last write.                    *)
SyncFsync_Skipped(p) ==
    /\ At(p, "sync_fsync_use")
    /\ Live
    /\ Jump(p, "sync_resume")
    /\ UNCHANGED <<file, act, locks, events, diskVars, private>>

SyncFsync(p) ==
    /\ At(p, "sync_fsync_use")
    /\ Live
    /\ IF act.cmd = "write" /\ act.status # "complete"
       THEN Call(p, "fsync", "sync_resume")
       ELSE Jump(p, "sync_resume")
    /\ UNCHANGED <<file, act, locks, events, diskVars, private>>

(* Mutant: the hold on writes is not given back.                           *)
SyncResumeWrites_KeepsHold(p) ==
    /\ At(p, "sync_resume")
    /\ Jump(p, "sync_unpam")
    /\ UNCHANGED <<file, act, locks, events, diskVars, private>>

SyncResumeWrites(p) ==
    /\ At(p, "sync_resume")
    /\ ws' = IF ws = 1 THEN 0 ELSE ws
    /\ Jump(p, "sync_unpam")
    /\ UNCHANGED <<file, act, pam, htfa, events, diskVars, private>>

SyncUnlockMutation(p) ==
    /\ At(p, "sync_unpam")
    /\ pam' = 0
    /\ Jump(p, "sync_out")
    /\ UNCHANGED <<file, act, ws, htfa, events, diskVars, private>>

SyncUnlockFile(p) ==
    /\ At(p, "sync_out")
    /\ htfa' = 0
    /\ Return(p)
    /\ UNCHANGED <<file, act, pam, ws, events, diskVars, private>>

sync_file_writes(p) ==
    \/ SyncLockFile(p) \/ SyncCheckFile(p) \/ SyncLockMutation(p)
    \/ SyncSuspendWrites(p) \/ SyncTestAction(p) \/ SyncAwaitAction(p)
    \/ SyncFlush(p) \/ SyncFsync(p) \/ SyncResumeWrites(p)
    \/ SyncUnlockMutation(p) \/ SyncUnlockFile(p)

(* One round of slow_sync over a table that holds this file.               *)
SlowRound ==
    /\ At(Slow, "idle")
    /\ file # "freed"
    /\ rounds < MaxSyncs
    /\ rounds' = rounds + 1
    /\ Call(Slow, "sync", "idle")
    /\ UNCHANGED <<file, act, locks, events, diskVars, cur, cleared, userVars,
                   fault>>

slow_sync == SlowRound \/ sync_file_writes(Slow) \/ write_request(Slow)

-----------------------------------------------------------------------------
(* The user's thread                                                       *)

OpenStatus ==
    /\ At(User, "idle")
    /\ file = "open"
    /\ act.cmd = "open"
    /\ Call(User, "free_lock", "idle")
    /\ UNCHANGED <<file, act, locks, events, diskVars, private>>

WriteCall(n) ==
    /\ At(User, "idle")
    /\ file = "open"
    /\ sent + n <= MaxBytes
    /\ left' = n
    /\ Jump(User, "write_ws")
    /\ UNCHANGED <<file, act, locks, events, diskVars, cur, cleared, sent,
                   rounds, fault>>

WriteHold ==
    /\ At(User, "write_ws")
    /\ ws = 0
    /\ ws' = -1
    /\ Jump(User, "write_check")
    /\ UNCHANGED <<file, act, pam, htfa, events, diskVars, private>>

(* A finished action is freed first; one of another kind would be EBUSY,   *)
(* which cannot be met on a file that is only written.                     *)
WriteCheckAction ==
    /\ At(User, "write_check")
    /\ IF Live /\ act.status = "complete"
       THEN Call(User, "free_lock", "write_alloc")
       ELSE Jump(User, "write_alloc")
    /\ UNCHANGED <<file, act, locks, events, diskVars, private>>

WriteAllocAction ==
    /\ At(User, "write_alloc")
    /\ IF act.cmd = "none"
       THEN Call(User, "alloc_lock", "write_copy")
       ELSE Jump(User, "write_copy")
    /\ UNCHANGED <<file, act, locks, events, diskVars, private>>

(* Fill the accumulation buffer; a full page becomes a request.            *)
WriteCopy ==
    /\ At(User, "write_copy")
    /\ left > 0
    /\ LiveWrite
    /\ LET room == PageSize - Len(act.accum)
           n    == IF left > room THEN room ELSE left
       IN  /\ act' = [act EXCEPT !.accum = @ \o [i \in 1..n |-> sent + i]]
           /\ sent' = sent + n
           /\ left' = left - n
           /\ IF n = room THEN Call(User, "flush", "write_copy")
              ELSE Jump(User, "write_copy")
    /\ UNCHANGED <<file, locks, events, diskVars, cur, cleared, rounds, fault>>

(* ef_write and ef_sync release _write_suspended and abort when it is not  *)
(* what they set ("This is an impossible condition").                      *)
Release(label, held, next) ==
    /\ At(User, label)
    /\ IF ws = held
       THEN ws' = 0 /\ Jump(User, next) /\ UNCHANGED fault
       ELSE fault' = "impossible" /\ UNCHANGED <<ws, pc, stack>>
    /\ UNCHANGED <<file, act, pam, htfa, events, diskVars, cur, cleared,
                   userVars, rounds>>

WriteReturn == left = 0 /\ Release("write_copy", -1, "idle")

ef_write == \/ \E n \in 1..MaxBytes : WriteCall(n)
            \/ WriteHold \/ WriteCheckAction \/ WriteAllocAction \/ WriteCopy
            \/ WriteReturn

SyncCall ==
    /\ At(User, "idle")
    /\ file = "open"
    /\ act.cmd # "none"
    /\ IF act.status = "complete"
       THEN Call(User, "free_lock", "idle")
       ELSE Jump(User, "efsync_ws")
    /\ UNCHANGED <<file, act, locks, events, diskVars, private>>

SyncHold ==
    /\ At(User, "efsync_ws")
    /\ ws = 0
    /\ ws' = -2
    /\ IF LiveWrite /\ act.accum # <<>>
       THEN Call(User, "flush", "efsync_release")
       ELSE Jump(User, "efsync_release")
    /\ UNCHANGED <<file, act, pam, htfa, events, diskVars, private>>

SyncRelease == Release("efsync_release", -2, "efsync_done")

SyncReturn ==
    /\ At(User, "efsync_done")
    /\ Jump(User, "idle")
    /\ UNCHANGED <<file, act, locks, events, diskVars, private>>

ef_sync == SyncCall \/ SyncHold \/ SyncRelease \/ SyncReturn

(* ef_close_api: free a finished action, flush, wait until every request   *)
(* is complete, replace the write action by a close action.                *)
CloseCall ==
    /\ At(User, "idle")
    /\ file = "open"
    /\ act.cmd # "close"
    /\ IF Live /\ act.status = "complete"
       THEN Call(User, "free_lock", "close_sync")
       ELSE Jump(User, "close_sync")
    /\ UNCHANGED <<file, act, locks, events, diskVars, private>>

CloseSync ==
    /\ At(User, "close_sync")
    /\ Call(User, "sync", "close_compare")
    /\ UNCHANGED <<file, act, locks, events, diskVars, private>>

(* SET_WRITE_ACTION_STATUS: compare the counts, then store the status.     *)
CloseCompare ==
    /\ At(User, "close_compare")
    /\ \/ act.cmd = "write" /\ act.totreq = act.cmpl /\ Jump(User, "close_set")
       \/ act.cmd = "write" /\ act.totreq # act.cmpl /\ Jump(User, "close_test")
       \/ act.cmd # "write" /\ Jump(User, "close_test")
    /\ UNCHANGED <<file, act, locks, events, diskVars, private>>

CloseSetComplete ==
    /\ At(User, "close_set")
    /\ act' = [act EXCEPT !.status = "complete"]
    /\ Jump(User, "close_test")
    /\ UNCHANGED <<file, locks, events, diskVars, private>>

CloseTest ==
    /\ At(User, "close_test")
    /\ \/ act.cmd = "none" /\ Call(User, "alloc_lock", "close")
       \/ act.cmd # "none" /\ act.status = "complete" /\ Call(User, "free_lock", "close_alloc")
       \/ act.cmd # "none" /\ act.status # "complete" /\ Jump(User, "close_compare")
    /\ UNCHANGED <<file, act, locks, events, diskVars, private>>

CloseAlloc ==
    /\ At(User, "close_alloc")
    /\ Call(User, "alloc_lock", "close")
    /\ UNCHANGED <<file, act, locks, events, diskVars, private>>

(* ef_close leaves ef_file_close to the pool, ef_close_immediate runs it.  *)
CloseHandOver ==
    /\ At(User, "close")
    /\ \/ Jump(User, "file_close") /\ UNCHANGED jobs
       \/ Jump(User, "done") /\ jobs' = Append(jobs, "close")
    /\ UNCHANGED <<file, act, locks, events, page, disk, private, todo>>

ef_close == \/ CloseCall \/ CloseSync \/ CloseCompare \/ CloseSetComplete
            \/ CloseTest \/ CloseAlloc \/ CloseHandOver

-----------------------------------------------------------------------------
(* ef_file_close and the ef_close_status it ends with, by the user or by   *)
(* a thread of the disk pool.  When close(2) fails ef_close_status frees   *)
(* the action and leaves the EF_FILE in the table.                         *)

Finished(p) == IF p = User THEN "done" ELSE "idle"

FileClose(p) ==
    /\ At(p, "file_close")
    /\ file' = "closed"
    /\ act' = [act EXCEPT !.status = "complete"]
    /\ page' = [page EXCEPT !.data = <<>>]
    /\ \/ Jump(p, "close_lock")
       \/ Call(p, "free_lock", Finished(p))
    /\ UNCHANGED <<locks, events, jobs, disk, private, todo>>

CloseStatusLock(p) ==
    /\ At(p, "close_lock")
    /\ htfa = 0
    /\ htfa' = 1
    /\ Jump(p, "close_cleanup")
    /\ UNCHANGED <<file, act, pam, ws, events, diskVars, private>>

(* EF_FILE_CLEANUP; under htfa nobody else is in sync_file_writes, so its  *)
(* free_file_action meets no contention and is part of the step.           *)
CloseStatusCleanup(p) ==
    /\ At(p, "close_cleanup")
    /\ file' = "freed"
    /\ act' = NoAction
    /\ htfa' = 0
    /\ Jump(p, Finished(p))
    /\ UNCHANGED <<pam, ws, events, diskVars, private>>

file_close(p) == FileClose(p) \/ CloseStatusLock(p) \/ CloseStatusCleanup(p)

-----------------------------------------------------------------------------
(* file_writer                                                             *)

WriterTakeEvent ==
    /\ At(Writer, "idle")
    /\ events # <<>>
    /\ events' = Tail(events)
    /\ Jump(Writer, Head(events))
    /\ UNCHANGED <<file, act, locks, diskVars, private>>

(* Everything queued becomes the next batch, given to the pool.  The loop  *)
(* of dequeues ends at the one that finds the queue empty: that instant is *)
(* this step.                                                              *)
TakeBatch(a) == [a EXCEPT !.batch = a.wqueue, !.wqueue = <<>>,
                          !.req = @ + Len(a.wqueue)]

StartBatch == jobs' = IF act.wqueue = <<>> THEN jobs ELSE Append(jobs, "write")

(* fw_write_cmpl_evt: free the finished batch ...                          *)
WriterClear ==
    /\ At(Writer, "cmpl")
    /\ LiveWrite
    /\ cleared' = Len(act.batch)
    /\ act' = [act EXCEPT !.batch = <<>>]
    /\ Jump(Writer, "next")
    /\ UNCHANGED <<file, locks, events, diskVars, cur, userVars, rounds, fault>>

(* Mutant: what was queued while the batch was out is left where it is.    *)
WriterNextBatch_Skipped ==
    /\ At(Writer, "next")
    /\ LiveWrite
    /\ Jump(Writer, "count")
    /\ UNCHANGED <<file, act, locks, events, diskVars, private>>

(* ... start the next one ...                                              *)
WriterNextBatch ==
    /\ At(Writer, "next")
    /\ LiveWrite
    /\ act' = TakeBatch(act)
    /\ StartBatch
    /\ Jump(Writer, "count")
    /\ UNCHANGED <<file, locks, events, page, disk, private, todo>>

(* Mutant: a batch counts as one request.                                  *)
WriterCount_One ==
    /\ At(Writer, "count")
    /\ LiveWrite
    /\ act' = [act EXCEPT !.cmpl = @ + 1]
    /\ cleared' = 0
    /\ Jump(Writer, "idle")
    /\ UNCHANGED <<file, locks, events, diskVars, cur, userVars, rounds, fault>>

(* ... and only then count what was finished.                              *)
WriterCount ==
    /\ At(Writer, "count")
    /\ LiveWrite
    /\ act' = [act EXCEPT !.cmpl = @ + cleared]
    /\ cleared' = 0
    /\ Jump(Writer, "idle")
    /\ UNCHANGED <<file, locks, events, diskVars, cur, userVars, rounds, fault>>

(* fw_write_req_evt: nothing to do while a batch is out; its completion    *)
(* event will pick up what was queued meanwhile.                           *)
WriterRequest ==
    /\ At(Writer, "req")
    /\ LiveWrite
    /\ IF act.req # act.cmpl
       THEN UNCHANGED <<act, jobs>>
       ELSE act' = TakeBatch(act) /\ StartBatch
    /\ Jump(Writer, "idle")
    /\ UNCHANGED <<file, locks, events, page, disk, private, todo>>

file_writer == \/ WriterTakeEvent \/ WriterClear \/ WriterNextBatch
               \/ WriterCount \/ WriterRequest

-----------------------------------------------------------------------------
(* The disk pool: ef_file_write and ef_file_close                          *)

DiskTakeJob(d) ==
    /\ At(d, "idle")
    /\ jobs # <<>>
    /\ jobs' = Tail(jobs)
    /\ Jump(d, IF Head(jobs) = "write" THEN "start" ELSE "file_close")
    /\ UNCHANGED <<file, act, locks, events, page, disk, private, todo>>

DiskStart(d) ==
    /\ At(d, "start")
    /\ LiveWrite
    /\ todo' = [todo EXCEPT ![d] = act.batch]
    /\ act' = [act EXCEPT !.status = "progress"]
    /\ Jump(d, "io")
    /\ UNCHANGED <<file, locks, events, jobs, page, disk, private>>

(* The bytes of the file before the page buffer.                           *)
Below(pg) == SubSeq(disk, 1, pg.index * PageSize)

(* ef_one_single_write: the bytes go through the page buffer, every page   *)
(* that fills up is written.                                               *)
DiskWrite(d) ==
    /\ At(d, "io")
    /\ LiveWrite
    /\ todo[d] # <<>>
    /\ Head(todo[d]).cmd = "write"
    /\ LET bytes == page.data \o Head(todo[d]).data
           pages == Len(bytes) \div PageSize
           full  == pages * PageSize
       IN  /\ disk' = IF pages = 0 THEN disk
                      ELSE Below(page) \o SubSeq(bytes, 1, full)
           /\ page' = [index |-> page.index + pages,
                       data  |-> SubSeq(bytes, full + 1, Len(bytes)),
                       dirty |-> Len(bytes) > full]
    /\ todo' = [todo EXCEPT ![d] = Tail(@)]
    /\ UNCHANGED <<file, act, locks, events, jobs, pc, stack, private>>

(* ef_file_fsync: a page that is partly filled is written as it is.        *)
DiskFsync(d) ==
    /\ At(d, "io")
    /\ LiveWrite
    /\ todo[d] # <<>>
    /\ Head(todo[d]).cmd = "fsync"
    /\ disk' = IF page.dirty THEN Below(page) \o page.data ELSE disk
    /\ page' = [page EXCEPT !.dirty = FALSE]
    /\ todo' = [todo EXCEPT ![d] = Tail(@)]
    /\ UNCHANGED <<file, act, locks, events, jobs, pc, stack, private>>

DiskDone(d) ==
    /\ At(d, "io")
    /\ todo[d] = <<>>
    /\ LiveWrite
    /\ events' = Append(events, "cmpl")
    /\ Jump(d, "idle")
    /\ UNCHANGED <<file, act, locks, diskVars, private>>

disk_pool(d) == \/ DiskTakeJob(d) \/ DiskStart(d) \/ DiskWrite(d)
                \/ DiskFsync(d) \/ DiskDone(d) \/ file_close(d) \/ action_mutation(d)

-----------------------------------------------------------------------------
(* The steps that use the write fields of the action, and the steps of     *)
(* sync_file_writes that use the action it has tested for NULL.            *)
NeedsWriteAction(p) ==
    pc[p] \in {"flush", "fsync", "enqueue", "post", "cmpl", "next", "count",
               "req", "start", "io"}
NeedsAction(p) == pc[p] \in {"sync_wait_use", "sync_flush_use", "sync_fsync_use"}

UseFreedAction(p) ==
    /\ fault = "none"
    /\ \/ NeedsWriteAction(p) /\ ~LiveWrite
       \/ NeedsAction(p) /\ ~Live
    /\ fault' = IF p \in Disk THEN "disk" ELSE p
    /\ UNCHANGED <<file, act, locks, events, diskVars, pc, stack, cur, cleared,
                   userVars, rounds>>

user == \/ OpenStatus \/ ef_write \/ ef_sync \/ ef_close
        \/ action_mutation(User) \/ write_request(User)
        \/ sync_file_writes(User) \/ file_close(User)

(* The file is closed and its last action is gone.                         *)
Closed == file # "open" /\ act.cmd = "none"

(* The file is closed and nothing is under way, or the program went wrong. *)
Over ==
    /\ fault # "none" \/ (Closed /\ \A p \in Procs : pc[p] \in {"idle", "done"})
    /\ UNCHANGED vars

Next ==
    \/ user \/ slow_sync \/ file_writer
    \/ \E d \in Disk : disk_pool(d)
    \/ \E p \in Procs : UseFreedAction(p)
    \/ Over

(* Every thread that is in the middle of something is scheduled; the user  *)
(* need not call anything.                                                 *)
Fairness ==
    /\ WF_vars(user /\ pc[User] # "idle")
    /\ WF_vars(slow_sync)
    /\ WF_vars(file_writer)
    /\ \A d \in Disk : WF_vars(disk_pool(d))
    /\ \A p \in Procs : WF_vars(UseFreedAction(p))

Spec     == Init /\ [][Next]_vars
FairSpec == Spec /\ Fairness

-----------------------------------------------------------------------------
(* Where the bytes and the requests are                                    *)

(* The bytes after the first a and up to the b-th.                         *)
Span(a, b) == [i \in 1..(b - a) |-> a + i]

(* The tasks hold the bytes after the first a and up to the b-th, in that  *)
(* order: cut[k] bytes end with the k-th task.  An fsync holds none.       *)
InOrder(tasks, a, b) ==
    \E cut \in [0..Len(tasks) -> a..b] :
        /\ cut[0] = a /\ cut[Len(tasks)] = b
        /\ \A j, k \in 0..Len(tasks) : j <= k => cut[j] <= cut[k]
        /\ \A k \in 1..Len(tasks) :
              /\ tasks[k].data = Span(cut[k - 1], cut[k])
              /\ tasks[k].cmd = "fsync" => tasks[k].data = <<>>

Busy == {d \in Disk : pc[d] \in {"start", "io"}}

(* The bytes ef_one_single_write has taken over.                           *)
Content == Below(page) \o page.data

(* The tasks of the current batch that are not done yet.                   *)
Outstanding ==
    IF \E d \in Disk : pc[d] = "io" THEN todo[CHOOSE d \in Disk : pc[d] = "io"]
    ELSE IF Busy # {} \/ "write" \in ToSet(jobs) THEN act.batch
    ELSE <<>>

(* Requests counted in totreq and not yet in the queue.                    *)
Enqueuing == {p \in {User, Slow} : pc[p] = "enqueue"}

Hand == IF Enqueuing = {} THEN <<>> ELSE <<cur[CHOOSE p \in Enqueuing : TRUE]>>

(* Everything requested and not done, in the order it will be done.        *)
Pending == Outstanding \o act.wqueue \o Hand

(* The number of bytes that have been made requests.                       *)
Requested == sent - Len(act.accum)

-----------------------------------------------------------------------------
Labels ==
    {"idle", "done", "free_lock", "free_relock", "free", "alloc_lock",
     "alloc_relock", "alloc", "unlock", "flush", "fsync", "enqueue", "post",
     "sync", "sync_file", "sync_pam", "sync_ws", "sync_wait", "sync_wait_use",
     "sync_flush", "sync_flush_use", "sync_fsync", "sync_fsync_use",
     "sync_resume", "sync_unpam", "sync_out", "write_ws", "write_check",
     "write_alloc", "write_copy", "efsync_ws", "efsync_release", "efsync_done",
     "close_sync", "close_compare", "close_set", "close_test", "close_alloc",
     "close", "file_close", "close_lock", "close_cleanup", "cmpl", "req",
     "next", "count", "start", "io"}

(* The three counters of the write action agree with the requests there    *)
(* are, so totreq = cmpl means that nothing is left to be done.            *)
CountersAgree ==
    LiveWrite =>
        /\ act.req = act.cmpl + cleared + Len(act.batch)
        /\ act.totreq = act.req + Len(act.wqueue) + Cardinality(Enqueuing)

(* No byte is lost, doubled or overtaken between ef_write and the file:    *)
(* what the file holds, then what is in the batch, in the queue, in the    *)
(* hand of the thread that enqueues and in the accumulation buffer is what *)
(* ef_write has accepted, in that order.  Two flushers, the user and       *)
(* slow_sync, share the buffer.                                            *)
BytesInOrder ==
    /\ Content = Span(0, Len(Content))
    /\ LiveWrite => /\ InOrder(Pending, Len(Content), Requested)
                    /\ act.accum = Span(Requested, sent)
    /\ ~LiveWrite /\ file = "open" => Len(Content) = sent

(* What is on disk is a prefix of what was accepted, and a file that was   *)
(* closed has everything on disk.                                          *)
CloseIsDurable ==
    /\ IsPrefix(disk, Span(0, sent))
    /\ file # "open" => disk = Span(0, sent)

(* A call of ef_close comes to its end: every request is completed and     *)
(* nobody waits for ever on the three spin locks (unless an action was     *)
(* used after it was freed).                                               *)
CloseReturns == pc[User] = "close_sync" ~> (Closed \/ fault # "none")

(* Requests are not left behind in the queue: file_writer catches up with  *)
(* what was counted, again and again.                                      *)
RequestsComplete ==
    (LiveWrite /\ act.totreq # act.cmpl)
        ~> (~LiveWrite \/ act.totreq = act.cmpl \/ fault # "none")

=============================================================================
