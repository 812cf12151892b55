------------------------------- MODULE EfFile -------------------------------
(***************************************************************************)
(* The content of one file of evio/ef_file.c, from ef_open to ef_close:    *)
(* the page buffer that reads and writes share, the sizes and offsets the  *)
(* library keeps for itself, appending, and the switching between direct   *)
(* whole-page writes and unaligned ones.                                   *)
(*                                                                         *)
(* One user calls ef_read, ef_write, ef_sync and ef_close; slow_sync and   *)
(* the disk thread run beside it.  EfWrite shows how requests reach the    *)
(* disk thread (one batch at a time, in order), so here they are two       *)
(* sequences, and ef_write and sync_file_writes, which exclude each other  *)
(* by _write_suspended, are one step each.  A chunk of a write (one turn   *)
(* of the loop of ef_one_single_write) is one step.                        *)
(*                                                                         *)
(* Bytes are numbers: 1..MaxSize are the bytes the file has when it is     *)
(* opened, larger ones are written by the user, Uninit is memory or disk   *)
(* nobody has written.                                                     *)
(***************************************************************************)
EXTENDS Integers, Sequences, FiniteSets, FiniteSetsExt

CONSTANTS PageSize,   \* sg_page_size
          MaxSize,    \* bound: bytes of the file when it is opened
          MaxBytes,   \* bound: bytes the user writes
          MaxRounds,  \* bound: rounds of slow_sync
          MaxOwed     \* bound: requests not yet completed

ASSUME FileAssumption == /\ PageSize \in Nat \ {0}
                         /\ {MaxSize, MaxBytes, MaxRounds, MaxOwed} \subseteq Nat

VARIABLES
    disk,     \* the bytes of the file
    oflag,    \* _oflag: access mode, append, create
    f,        \* the EF_FILE
    act,      \* _action: command, status, return value
    accum,    \* _w_accum: bytes accepted and not yet in a request
    queued,   \* _w_queue: requests not yet in a batch
    batch,    \* the rest of the batch the disk thread works on
    took,     \* number of requests in that batch
    wb,       \* wb_pos: bytes of the first request of batch already moved
    owed,     \* _write_totreq_count - _write_cmpl_count
    job,      \* what the disk thread does for this file
    pc,       \* where the user stands
    seen,     \* local page_offset of low_ef_read
    answer,   \* position and bytes of the last successful ef_read; at is -1
              \* as long as none has returned
    want,     \* the bytes of the file as read(2) and write(2) would have them
    pos,      \* the position in it
    rounds,   \* rounds of slow_sync
    fault,    \* a pread has failed, or a read went on with a stale offset
    aborted   \* EV_ABORT was called

request == <<accum, queued, owed>>
user    == <<pc, seen, answer, want, pos>>
vars    == <<disk, oflag, f, act, request, batch, took, wb, job, user, rounds,
             fault, aborted>>

Uninit == 0
NoBuf  == <<>>
NoAct  == [cmd |-> "none", status |-> "complete", ret |-> 0]

NewAct(cmd) == [cmd |-> cmd, status |-> "initiated", ret |-> -100]

OpenFlags == [access : {"rdonly", "wronly", "rdwr"}, append : BOOLEAN,
              create : BOOLEAN]

(* The flags ef_open does not refuse. *)
Accepted(o) ==
    /\ ~(o.access = "rdonly" /\ o.append /\ ~o.create)
    /\ o.access = "wronly" => o.append \/ o.create

MayWrite == oflag.access \in {"wronly", "rdwr"}

(* chk_read_conditions: O_DIRECT is taken out before the comparison with   *)
(* O_RDONLY, O_CREAT and O_APPEND are not.                                 *)
MayRead == \/ oflag.access = "rdwr"
           \/ oflag.access = "rdonly" /\ ~oflag.append /\ ~oflag.create

FileInit == [status |-> "attempted", offset |-> 0, index |-> 0, buf |-> NoBuf,
             dirty |-> FALSE, curr |-> 0, running |-> 0, unaligned |-> FALSE,
             direct |-> FALSE]

Init ==
    /\ \E n \in 0..MaxSize : disk = [i \in 1..n |-> i] /\ want = disk
    /\ oflag \in {o \in OpenFlags : Accepted(o)}
    /\ f = FileInit
    /\ act = NewAct("open")
    /\ accum = <<>> /\ queued = <<>> /\ batch = <<>>
    /\ took = 0 /\ wb = 0 /\ owed = 0 /\ pos = 0 /\ rounds = 0 /\ seen = 0
    /\ job = "open" /\ pc = "idle"
    /\ answer = [at |-> -1, data |-> <<>>]
    /\ fault = "none" /\ aborted = FALSE

(***************************************************************************)
(* The kernel, as this code uses it.                                       *)
(***************************************************************************)
Overwrite(s, at, d) ==
    [k \in 1..Max({Len(s), at + Len(d)}) |->
        IF k \in (at + 1)..(at + Len(d)) THEN d[k - at]
        ELSE IF k <= Len(s) THEN s[k] ELSE Uninit]

(* Linux appends what pwrite is given when the file is O_APPEND, and       *)
(* refuses a direct write to a place that is not aligned.                  *)
pwrite(g, s, d, at) ==
    IF ~oflag.append THEN Overwrite(s, at, d)
    ELSE IF g.direct /\ Len(s) % PageSize # 0 THEN s
    ELSE s \o d

ftruncate(s, n) == [k \in 1..n |-> IF k <= Len(s) THEN s[k] ELSE Uninit]

(* pread of page i into a buffer that keeps what the file does not fill.   *)
pread(s, i, buf) ==
    [k \in 1..PageSize |->
        IF i * PageSize + k <= Len(s) THEN s[i * PageSize + k]
        ELSE IF buf = NoBuf THEN Uninit ELSE buf[k]]

(***************************************************************************)
(* The disk thread opens the file.                                         *)
(***************************************************************************)
ef_file_open ==
    LET size == Len(disk)
        ends == oflag.append /\ MayWrite
        at   == IF oflag.append /\ oflag.access = "wronly" THEN size ELSE 0
        dir  == oflag.access = "rdonly" /\ ~oflag.append
    IN  /\ job = "open"
        /\ f' = [FileInit EXCEPT
                   !.status = "open", !.curr = size, !.running = size,
                   !.offset = at, !.index = at \div PageSize,
                   !.unaligned = ends /\ size % PageSize # 0,
                   !.direct = dir \/ (ends /\ size % PageSize = 0)]
        /\ act' = [act EXCEPT !.status = "complete"]
        /\ job' = "none"
        /\ UNCHANGED <<disk, oflag, request, batch, took, wb, user, rounds, fault, aborted>>

(***************************************************************************)
(* The page buffer and the disk.                                           *)
(***************************************************************************)
sync_buf_from_file(g, s) ==
    [g EXCEPT !.dirty = FALSE,
              !.buf = IF g.index * PageSize < g.curr /\ oflag.access = "rdwr"
                      THEN pread(s, g.index, g.buf)
                      ELSE pread(<<>>, g.index, g.buf)]

(* The content of the disk afterwards; the result of pwrite is ignored.    *)
sync_buf_to_file(g, s) ==
    IF g.dirty THEN ftruncate(pwrite(g, s, g.buf, g.index * PageSize), g.running)
    ELSE s

page_offset(g) == g.offset - g.index * PageSize

(* With O_APPEND a write that finds nothing unwritten in the buffer moves  *)
(* to the end of the file.                                                 *)
AppendSeek(g, s) ==
    IF ~oflag.append \/ g.dirty THEN g
    ELSE LET i == Len(s) \div PageSize
         IN  [g EXCEPT !.offset = Len(s), !.index = i,
                       !.buf = IF i = g.index THEN @ ELSE NoBuf]

(* Unaligned: the bytes go to the end of the file, past the buffer.        *)
UnalignedChunk(g, s, d, n) ==
    LET s1 == pwrite(g, s, SubSeq(d, 1, n), g.curr)
        g1 == [g EXCEPT !.offset = @ + n, !.curr = @ + n, !.running = @ + n]
        g2 == [g1 EXCEPT !.unaligned = FALSE, !.direct = TRUE, !.index = @ + 1]
    IN  IF page_offset(g1) < PageSize THEN [f |-> g1, disk |-> s1]
        ELSE [f |-> sync_buf_from_file(g2, s1), disk |-> s1]

(* Mutant: the next page is not read in before it is written to.           *)
AlignedChunk_NoReload(g, s, d, n) ==
    LET end == g.offset + n
        g1 == [g EXCEPT !.dirty = TRUE, !.offset = end,
                        !.buf = Overwrite(@, page_offset(g), SubSeq(d, wb + 1, wb + n)),
                        !.running = Max({@, end})]
        g2 == [g1 EXCEPT !.dirty = FALSE, !.index = @ + 1,
                         !.curr = Max({@, (g1.index + 1) * PageSize})]
    IN  IF page_offset(g1) < PageSize THEN [f |-> g1, disk |-> s]
        ELSE [f |-> g2, disk |-> sync_buf_to_file(g1, s)]

(* Aligned: the bytes go into the buffer, a full page goes to the disk.    *)
AlignedChunk(g, s, d, n) ==
    LET end   == g.offset + n
        grows == g.offset \div PageSize = g.running \div PageSize
        g1 == [g EXCEPT !.dirty = TRUE, !.offset = end,
                        !.buf = Overwrite(@, page_offset(g), SubSeq(d, wb + 1, wb + n)),
                        !.running = IF grows THEN Max({@, end}) ELSE @]
        s1 == sync_buf_to_file(g1, s)
        g2 == [g1 EXCEPT !.dirty = FALSE, !.index = @ + 1,
                         !.curr = Max({@, (g1.index + 1) * PageSize})]
    IN  IF page_offset(g1) < PageSize THEN [f |-> g1, disk |-> s]
        ELSE [f |-> sync_buf_from_file(g2, s1), disk |-> s1]

(***************************************************************************)
(* file_writer and the disk thread: requests in batches.                   *)
(***************************************************************************)
StartBatch ==
    /\ job = "none" /\ queued # <<>>
    /\ job' = "write"
    /\ batch' = queued /\ took' = Len(queued) /\ queued' = <<>>
    /\ act' = [act EXCEPT !.status = "progress"]
    /\ UNCHANGED <<disk, oflag, f, accum, owed, wb, user, rounds, fault, aborted>>

ef_one_single_write ==
    LET d   == Head(batch).data
        g0  == IF wb = 0 THEN AppendSeek(f, disk) ELSE f
        g   == IF g0.buf = NoBuf /\ ~g0.dirty THEN sync_buf_from_file(g0, disk) ELSE g0
        n   == Min({Len(d) - wb, PageSize - page_offset(g)})
        out == IF g.unaligned THEN UnalignedChunk(g, disk, d, n)
               ELSE AlignedChunk(g, disk, d, n)
    IN  /\ job = "write" /\ batch # <<>> /\ Head(batch).cmd = "write"
        /\ f' = out.f /\ disk' = out.disk
        /\ wb' = IF wb + n = Len(d) THEN 0 ELSE wb + n
        /\ batch' = IF wb + n = Len(d) THEN Tail(batch) ELSE batch
        /\ aborted' = \/ aborted
                      \/ /\ oflag.append /\ f.dirty /\ wb = 0
                         /\ f.index # f.curr \div PageSize
                      \/ g.unaligned /\ (g.direct \/ (~oflag.append /\ oflag.access = "rdwr"))
                      \/ page_offset(g) \notin 0..(PageSize - 1)
        /\ UNCHANGED <<oflag, act, request, took, job, user, rounds, fault>>

(* Mutant: O_DIRECT stays on after a partial page was written.             *)
ef_file_fsync_StaysDirect ==
    /\ job = "write" /\ batch # <<>> /\ Head(batch).cmd = "fsync"
    /\ disk' = sync_buf_to_file(f, disk)
    /\ f' = [f EXCEPT !.dirty = FALSE, !.curr = f.running, !.unaligned = @ \/ oflag.append]
    /\ batch' = Tail(batch)
    /\ UNCHANGED <<oflag, act, request, took, wb, job, user, rounds, fault, aborted>>

ef_file_fsync ==
    /\ job = "write" /\ batch # <<>> /\ Head(batch).cmd = "fsync"
    /\ disk' = sync_buf_to_file(f, disk)
    /\ LET g == [f EXCEPT !.dirty = FALSE, !.curr = f.running]
       IN  f' = IF page_offset(f) = PageSize
                THEN [g EXCEPT !.buf = NoBuf, !.index = @ + 1]
                ELSE [g EXCEPT !.unaligned = @ \/ oflag.append,
                               !.direct = @ /\ ~oflag.append]
    /\ batch' = Tail(batch)
    /\ UNCHANGED <<oflag, act, request, took, wb, job, user, rounds, fault, aborted>>

(* The completion event: file_writer counts the batch. *)
BatchDone ==
    /\ job = "write" /\ batch = <<>>
    /\ job' = "none" /\ took' = 0
    /\ owed' = owed - took
    /\ UNCHANGED <<disk, oflag, f, act, accum, queued, batch, wb, user, rounds,
                   fault, aborted>>

(***************************************************************************)
(* Requests.                                                               *)
(***************************************************************************)
WriteTask(d) == [cmd |-> "write", data |-> d]
FsyncTask    == [cmd |-> "fsync", data |-> <<>>]

Request(tasks) == /\ queued' = queued \o tasks
                  /\ owed' = owed + Len(tasks)
                  /\ owed' <= MaxOwed

FlushTask == IF accum = <<>> THEN <<>> ELSE <<WriteTask(accum)>>

(* sync_file_writes waits for an action other than a write to complete;    *)
(* for a write it asks for what is accumulated and for an fsync.           *)
sync_file_writes ==
    LET tasks == IF act.status = "complete" /\ accum = <<>> THEN <<>>
                 ELSE Append(FlushTask, FsyncTask)
    IN  IF MayWrite /\ act.cmd = "write"
        THEN /\ Request(tasks)
             /\ accum' = <<>>
             /\ act' = IF tasks = <<>> THEN act ELSE NewAct("write")
        ELSE /\ MayWrite => act.cmd = "none" \/ act.status = "complete"
             /\ UNCHANGED <<act, request>>

slow_sync ==
    /\ f.status = "open" /\ rounds < MaxRounds
    /\ rounds' = rounds + 1
    /\ sync_file_writes
    /\ UNCHANGED <<disk, oflag, f, batch, took, wb, job, user, fault, aborted>>

(***************************************************************************)
(* The user.  A call that only reports an error (EAGAIN, EBUSY, EBADF)     *)
(* changes nothing and is no step.                                         *)
(***************************************************************************)
Calls == pc = "idle" /\ f.status = "open" /\ ~aborted /\ fault # "stale"

ef_open_status ==
    /\ Calls
    /\ act.cmd = "open" /\ act.status = "complete"
    /\ act' = NoAct
    /\ UNCHANGED <<disk, oflag, f, request, batch, took, wb, job, user, rounds,
                   fault, aborted>>

(* How many bytes the user has written so far. *)
Written == Cardinality({i \in DOMAIN want : want[i] > MaxSize})

(* ef_write: full pages become requests, the rest stays in accum. *)
ef_write(n) ==
    LET keeps == act.cmd = "write" /\ act.status # "complete"
        at    == IF oflag.append THEN Len(want) ELSE pos
        bytes == [k \in 1..n |-> MaxSize + at + k]
        all   == IF keeps THEN accum \o bytes ELSE bytes
        pages == Len(all) \div PageSize
        tasks == [k \in 1..pages |->
                    WriteTask(SubSeq(all, (k - 1) * PageSize + 1, k * PageSize))]
    IN  /\ Calls /\ MayWrite /\ Written + n <= MaxBytes
        /\ act.cmd \in {"none", "write"} \/ act.status = "complete"
        /\ accum' = SubSeq(all, pages * PageSize + 1, Len(all))
        /\ Request(tasks)
        /\ act' = IF keeps /\ tasks = <<>> THEN act ELSE NewAct("write")
        /\ want' = Overwrite(want, at, bytes)
        /\ pos' = at + n
        /\ UNCHANGED <<disk, oflag, f, batch, took, wb, job, pc, seen, answer, rounds,
                       fault, aborted>>

(* ef_sync: what is accumulated becomes a request; an action that is       *)
(* complete is freed instead.                                              *)
ef_sync ==
    /\ Calls /\ act.cmd # "none"
    /\ \/ /\ act.status = "complete"
          /\ act' = NoAct
          /\ UNCHANGED request
       \/ /\ act.status # "complete" /\ act.cmd = "write" /\ accum # <<>>
          /\ Request(FlushTask) /\ accum' = <<>>
          /\ act' = NewAct("write")
    /\ UNCHANGED <<disk, oflag, f, batch, took, wb, job, user, rounds, fault, aborted>>

(* The part of low_ef_read that all its paths end in: without a buffer a   *)
(* read is fired, which aborts inside a page; with one the bytes are taken *)
(* from it, at the page offset computed when the call began.               *)
FireRead ==
    /\ f.buf = NoBuf
    /\ act' = NewAct("read") /\ job' = "read"
    /\ aborted' = (page_offset(f) # 0)
    /\ UNCHANGED <<f, answer, pos, fault>>

(* Mutants: the action is not freed; the end of the file is not regarded.  *)
CopyOut_KeepsAction(n, from) ==
    LET t == Min({n, PageSize - from, f.curr - f.offset})
    IN  /\ f.buf # NoBuf
        /\ answer' = [at |-> pos, data |-> SubSeq(f.buf, from + 1, from + t)]
        /\ pos' = pos + t
        /\ f' = IF from + t < PageSize THEN [f EXCEPT !.offset = @ + t]
                ELSE [f EXCEPT !.offset = @ + t, !.index = @ + 1, !.buf = NoBuf]
        /\ UNCHANGED <<act, job, fault, aborted>>

CopyOut_PastEnd(n, from) ==
    LET t == Min({n, PageSize - from})
    IN  /\ f.buf # NoBuf
        /\ act' = NoAct
        /\ answer' = [at |-> pos, data |-> SubSeq(f.buf, from + 1, from + t)]
        /\ pos' = pos + t
        /\ f' = IF from + t < PageSize THEN [f EXCEPT !.offset = @ + t]
                ELSE [f EXCEPT !.offset = @ + t, !.index = @ + 1, !.buf = NoBuf]
        /\ UNCHANGED <<job, fault, aborted>>

CopyOut(n, from) ==
    LET t == Min({n, PageSize - from, f.curr - f.offset})
    IN  /\ f.buf # NoBuf
        /\ act' = NoAct
        /\ answer' = [at |-> pos, data |-> SubSeq(f.buf, from + 1, from + t)]
        /\ pos' = pos + t
        /\ f' = IF from + t < PageSize THEN [f EXCEPT !.offset = @ + t]
                ELSE [f EXCEPT !.offset = @ + t, !.index = @ + 1, !.buf = NoBuf]
        /\ fault' = IF from = page_offset(f) THEN fault ELSE "stale"
        /\ UNCHANGED <<job, aborted>>

AtEnd == f.offset >= f.curr

(* A read came back with an error or nothing; a read came back with bytes. *)
ReadEnded   == act.cmd = "read" /\ act.status = "complete" /\ act.ret \in {-1, 0}
ReadHasData == act.cmd = "read" /\ act.status = "complete" /\ act.ret > 0

(* low_ef_read up to the point where it has dealt with the last action.    *)
ef_read(n) ==
    /\ Calls
    /\ \/ /\ AtEnd
          /\ answer' = [at |-> pos, data |-> <<>>]
          /\ UNCHANGED <<f, act, job, pc, seen, pos, request, fault, aborted>>
       \/ /\ ~AtEnd /\ MayRead
          /\ act.cmd # "write" /\ act.status = "complete" /\ ~ReadEnded
          /\ FireRead \/ CopyOut(n, page_offset(f))
          /\ UNCHANGED <<pc, seen, request>>
       \/ /\ ~AtEnd /\ MayRead
          /\ ReadEnded
          /\ act' = NoAct
          /\ answer' = IF act.ret = 0 THEN [at |-> pos, data |-> <<>>] ELSE answer
          /\ UNCHANGED <<f, job, pc, seen, pos, request, fault, aborted>>
       \/ /\ ~AtEnd /\ MayRead
          /\ act.cmd = "write"
          /\ sync_file_writes
          /\ pc' = "read_synced" /\ seen' = page_offset(f)
          /\ UNCHANGED <<f, job, answer, pos, fault, aborted>>
    /\ UNCHANGED <<disk, oflag, batch, took, wb, want, rounds>>

(* After a write: go on if all requests are completed, else EBUSY. *)
ReadAfterSync(n) ==
    /\ pc = "read_synced"
    /\ pc' = "idle" /\ seen' = 0
    /\ \/ owed = 0 /\ (FireRead \/ CopyOut(n, seen))
       \/ owed # 0 /\ UNCHANGED <<f, act, job, answer, pos, fault, aborted>>
    /\ UNCHANGED <<disk, oflag, request, batch, took, wb, want, rounds>>

(* The disk thread fills the buffer; the read may fail. *)
ef_file_read ==
    /\ job = "read"
    /\ job' = "none"
    /\ \/ /\ f' = [f EXCEPT !.buf = pread(disk, f.index, @)]
          /\ act' = [act EXCEPT !.status = "complete",
                        !.ret = Min({PageSize, Len(disk) - f.index * PageSize})]
          /\ UNCHANGED fault
       \/ /\ fault = "none"
          /\ f' = [f EXCEPT !.buf = pread(<<>>, f.index, @)]
          /\ act' = [act EXCEPT !.status = "complete", !.ret = -1]
          /\ fault' = "pread"
    /\ UNCHANGED <<disk, oflag, request, batch, took, wb, user, rounds, aborted>>

(* ef_close: sync, wait for the requests, hand the file to the disk thread *)
ef_close ==
    /\ Calls
    /\ act.cmd \in {"none", "write"} \/ act.status = "complete"
    /\ pc' = "closing"
    /\ act' = IF act.status = "complete" THEN NoAct ELSE act
    /\ UNCHANGED <<disk, oflag, f, request, batch, took, wb, job, seen, answer, want, pos,
                   rounds, fault, aborted>>

CloseSync ==
    /\ pc = "closing"
    /\ sync_file_writes
    /\ pc' = "close_wait"
    /\ UNCHANGED <<disk, oflag, f, batch, took, wb, job, seen, answer, want, pos, rounds,
                   fault, aborted>>

CloseHandOver ==
    /\ pc = "close_wait"
    /\ act.cmd = "none" \/ owed = 0
    /\ act' = NewAct("close") /\ job' = "close"
    /\ pc' = "closed"
    /\ UNCHANGED <<disk, oflag, f, request, batch, took, wb, seen, answer, want, pos, rounds,
                   fault, aborted>>

ef_file_close ==
    /\ job = "close"
    /\ f' = [f EXCEPT !.buf = NoBuf, !.status = "closed"]
    /\ act' = NoAct
    /\ job' = "none"
    /\ UNCHANGED <<disk, oflag, request, batch, took, wb, user, rounds, fault, aborted>>

Next ==
    \/ ef_file_open \/ StartBatch \/ ef_one_single_write \/ ef_file_fsync \/ BatchDone
    \/ slow_sync
    \/ ef_open_status \/ ef_sync
    \/ \E n \in 1..(PageSize + 1) : ef_write(n)
    \/ \E n \in 1..PageSize : ef_read(n) \/ ReadAfterSync(n)
    \/ ef_file_read
    \/ ef_close \/ CloseSync \/ CloseHandOver \/ ef_file_close

Spec == Init /\ [][Next]_vars

(***************************************************************************)
(* The answer of ef_file_ready_for_read: data is there.                    *)
(***************************************************************************)
ef_file_ready_for_read == (AtEnd \/ MayRead) /\ ReadHasData
-----------------------------------------------------------------------------
(***************************************************************************)
(* Properties.                                                             *)
(***************************************************************************)

(* The answer of an ef_read that returns is what read(2) would return at   *)
(* the same place; it is empty only at the end of the file.                *)
SameAsRead ==
    /\ pos + Len(answer'.data) <= Len(want)
    /\ answer'.data = SubSeq(want, pos + 1, pos + Len(answer'.data))
    /\ answer'.data = <<>> => pos >= Len(want)

(* ef_io.h calls ef_read "the same as the read system call".  It is, if    *)
(* its offset was not stale (low_ef_read computes the offset in the page   *)
(* before it syncs pending writes and uses it after they have moved the    *)
(* position) and no pread has failed (a failed one leaves an unfilled      *)
(* buffer, which the next ef_read takes for the page): it returns the      *)
(* bytes of the file in order, whatever reads, writes and syncs did to the *)
(* shared page buffer, and 0 only at the end of the file.  The claim is    *)
(* about files opened with read access, O_RDONLY | O_CREAT included, for   *)
(* which only the answer 0 is possible.  A file opened O_WRONLY has no     *)
(* read(2) answer to agree with: chk_read_conditions looks for the end of  *)
(* the file before it looks at the access mode, so that ef_read returns 0  *)
(* there, with O_APPEND from the start, where read(2) gives EBADF.         *)
SettledReads ==
    [][/\ answer' # answer
       /\ fault' = "none"
       /\ oflag.access # "wronly"
       => SameAsRead]_vars

(* Once the file is closed the disk holds what the user wrote, at its      *)
(* place, and the old bytes around it, in every mode and for every         *)
(* alignment of size and writes (ef_one_single_write, ef_file_fsync,       *)
(* sync_buf_to_file).  In a write-only file that is not appended to the    *)
(* page is never read before it is written back, so old bytes are lost     *)
(* there; written ones are not.  And a page whose pread failed is written  *)
(* back unfilled by the next ef_write, so no claim is made after that.     *)
ClosedFileIsWhole ==
    f.status = "closed" /\ fault = "none" =>
        /\ Len(disk) = Len(want)
        /\ \A i \in DOMAIN disk :
              \/ disk[i] = want[i]
              \/ want[i] <= MaxSize /\ oflag.access = "wronly" /\ ~oflag.append

(* The aborts of ef_one_single_write are not reached: no unaligned write   *)
(* to a direct or non-append file, no unwritten page elsewhere when        *)
(* appending, no offset outside the page.                                  *)
NoAbort == ~aborted

(* When ef_file_ready_for_read says that data is there, the next ef_read   *)
(* returns data: it neither finds the end nor has to fire a read.          *)
ReadyMeansData == ef_file_ready_for_read /\ pc = "idle" => ~AtEnd /\ f.buf # NoBuf
=============================================================================
