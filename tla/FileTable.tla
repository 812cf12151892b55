----------------------------- MODULE FileTable ------------------------------
(***************************************************************************)
(* ef_file.c's table of open files: which slot is free, which EF_FILE an   *)
(* entry of sg_open_files points to and who may free it.  The threads are  *)
(* the users, the two threads of sg_disk_io_thr_pool, which run            *)
(* ef_file_open and ef_file_close, and slow_sync, which walks over the     *)
(* table once a second.  What an open file reads and writes is EfWrite's   *)
(* and EfFile's; here a file has its _status and its _action.              *)
(*                                                                         *)
(* sg_handle_to_file_action is a lock per slot.  _prevent_action_mutation  *)
(* is left out: free_file_action and alloc_file_action wait for it with a  *)
(* CAS whose expected value is not reset, so that they go on after one     *)
(* failed attempt and it keeps nobody out.                                 *)
(*                                                                         *)
(* A thread that follows a pointer to an EF_FILE or an action that is not  *)
(* there has undefined behaviour: fault names the case and the model stops.*)
(***************************************************************************)
EXTENDS Integers, Sequences, FiniteSets

CONSTANTS Slots,       \* 0 .. EF_MAX_FILES - 1
          Users, Disk, Walker,  \* threads
          Null,
          MaxOpens     \* bound: calls of ef_open that get a slot

ASSUME TableAssumption ==
    /\ Slots \subseteq Int /\ IsFiniteSet(Slots)
    /\ MaxOpens \in Nat
    /\ Null \notin 1..MaxOpens
    /\ Walker \notin Users \cup Disk

VARIABLES sg_fd_queue, sg_open_files, sg_handle_to_file_action,
          file,        \* the EF_FILEs, one for each ef_open
          live,        \* those allocated
          opens,       \* calls of ef_open that got a slot
          tasks,       \* the queue of sg_disk_io_thr_pool
          notify,      \* ef_set_cb_func has been called
          t,           \* per thread: its program counter and locals
          polled,      \* history: a user has called ef_close_status
          fault        \* "none", or what was touched

table == <<sg_fd_queue, sg_open_files, sg_handle_to_file_action>>
vars  == <<table, file, live, opens, tasks, notify, t, polled, fault>>

Threads == Users \cup Disk \cup {Walker}
Files   == 1 .. MaxOpens

NoAction == [cmd |-> "none", status |-> "none", ret |-> "none"]
Initiated(cmd) == [cmd |-> cmd, status |-> "INITIATED", ret |-> "unknown"]
EF_FILE_INIT == [init |-> TRUE, status |-> "NOT_OPEN", writable |-> FALSE, action |-> NoAction]

(* What malloc returns may look like an open file or not.                  *)
Malloced == {[EF_FILE_INIT EXCEPT !.init = FALSE, !.status = s, !.writable = TRUE]
               : s \in {"OPEN", "NOT_OPEN"}}

Idle == [pc |-> "idle", fd |-> Null, f |-> Null]

(* ef_init and setup_fd_slots.                                             *)
Init ==
    /\ sg_fd_queue \in {s \in [1 .. Cardinality(Slots) -> Slots] :
                          \A i, j \in DOMAIN s : i < j => s[i] < s[j]}
    /\ sg_open_files = [s \in Slots |-> Null]
    /\ sg_handle_to_file_action = [s \in Slots |-> FALSE]
    /\ file = [f \in Files |-> EF_FILE_INIT]
    /\ live = {}
    /\ opens = 0
    /\ tasks = <<>>
    /\ notify \in BOOLEAN
    /\ t = [c \in Threads |-> Idle]
    /\ polled = FALSE
    /\ fault = "none"

-----------------------------------------------------------------------------

At(c, label) == fault = "none" /\ t[c].pc = label
Goto(c, label) == t' = [t EXCEPT ![c].pc = label]
GoOn(c, label, fd, f) == t' = [t EXCEPT ![c] = [pc |-> label, fd |-> fd, f |-> f]]
Return(c) == t' = [t EXCEPT ![c] = Idle]

(* The entry of the slot c works on.                                       *)
Entry(c) == sg_open_files[t[c].fd]

(* c goes on with EF_FILE f unless that has been freed.                    *)
Touch(c, f, step) ==
    IF f \in live THEN step ELSE fault' = "freed" /\ UNCHANGED <<t, file>>

lock(c, next) ==
    /\ ~sg_handle_to_file_action[t[c].fd]
    /\ sg_handle_to_file_action' = [sg_handle_to_file_action EXCEPT ![t[c].fd] = TRUE]
    /\ Goto(c, next)
    /\ UNCHANGED <<sg_fd_queue, sg_open_files, file, live, opens, tasks, notify, polled, fault>>

unlock(c, next) ==
    /\ sg_handle_to_file_action' = [sg_handle_to_file_action EXCEPT ![t[c].fd] = FALSE]
    /\ next
    /\ UNCHANGED <<sg_fd_queue, sg_open_files, file, live, opens, tasks, notify, polled, fault>>

-----------------------------------------------------------------------------

(* ef_open.  Without a slot it returns EMFILE and changes nothing.         *)
st_dequeue_sg_fd_queue(u) ==
    /\ At(u, "idle") /\ opens < MaxOpens
    /\ sg_fd_queue # <<>>
    /\ sg_fd_queue' = Tail(sg_fd_queue)
    /\ opens' = opens + 1
    /\ GoOn(u, "o_lock", Head(sg_fd_queue), opens + 1)
    /\ UNCHANGED <<sg_open_files, sg_handle_to_file_action, file, live, tasks, notify,
                   polled, fault>>

OpenLock(u) == At(u, "o_lock") /\ lock(u, "o_malloc")

(* The new EF_FILE is in the table before it is initialised.               *)
OpenMalloc(u) ==
    /\ At(u, "o_malloc")
    /\ \E m \in Malloced : file' = [file EXCEPT ![t[u].f] = m]
    /\ live' = live \cup {t[u].f}
    /\ sg_open_files' = [sg_open_files EXCEPT ![t[u].fd] = t[u].f]
    /\ Goto(u, "o_unlock")
    /\ UNCHANGED <<sg_fd_queue, sg_handle_to_file_action, opens, tasks, notify, polled, fault>>

OpenUnlock(u) == At(u, "o_unlock") /\ unlock(u, Goto(u, "o_init"))

OpenInit(u) ==
    /\ At(u, "o_init")
    /\ file' = [file EXCEPT ![t[u].f] = EF_FILE_INIT]
    /\ Goto(u, "o_submit")
    /\ UNCHANGED <<table, live, opens, tasks, notify, polled, fault>>

OpenSubmit(u) ==
    /\ At(u, "o_submit")
    /\ file' = [file EXCEPT ![t[u].f].action = Initiated("open"), ![t[u].f].status = "ATTEMPTED"]
    /\ tasks' = Append(tasks, [run |-> "t_open", f |-> t[u].f])
    /\ Goto(u, "opening")
    /\ UNCHANGED <<table, live, opens, notify, polled, fault>>

ef_open(u) == \/ st_dequeue_sg_fd_queue(u) \/ OpenLock(u) \/ OpenMalloc(u)
              \/ OpenUnlock(u) \/ OpenInit(u) \/ OpenSubmit(u)

(* Mutant: the cleanup does not wait for the slot's lock.                  *)
CleanupLock_None(c) ==
    /\ At(c, "f_lock") /\ Goto(c, "f_clean")
    /\ UNCHANGED <<table, file, live, opens, tasks, notify, polled, fault>>

CleanupLock(c) == At(c, "f_lock") /\ lock(c, "f_clean")

(* EF_FILE_CLEANUP under the slot's lock, then the slot is free.  An entry *)
(* that another thread cleaned up meanwhile is NULL, or another file.  The *)
(* record of a freed file is never read again and put back to one value.   *)
EF_FILE_CLEANUP(c) ==
    /\ At(c, "f_clean")
    /\ \/ /\ Entry(c) = t[c].f
          /\ live' = live \ {Entry(c)}
          /\ sg_open_files' = [sg_open_files EXCEPT ![t[c].fd] = Null]
          /\ file' = [file EXCEPT ![Entry(c)] = EF_FILE_INIT]
          /\ Goto(c, "f_unlock")
          /\ UNCHANGED fault
       \/ /\ Entry(c) # t[c].f
          /\ fault' = "freed"
          /\ UNCHANGED <<live, sg_open_files, file, t>>
    /\ UNCHANGED <<sg_fd_queue, sg_handle_to_file_action, opens, tasks, notify, polled>>

CleanupUnlock(c) == At(c, "f_unlock") /\ unlock(c, Goto(c, "f_put"))

(* Mutant: the slot is not given back.                                     *)
st_enqueue_sg_fd_queue_Forgotten(c) ==
    /\ At(c, "f_put")
    /\ Return(c)
    /\ UNCHANGED <<table, file, live, opens, tasks, notify, polled, fault>>

st_enqueue_sg_fd_queue(c) ==
    /\ At(c, "f_put")
    /\ sg_fd_queue' = Append(sg_fd_queue, t[c].fd)
    /\ Return(c)
    /\ UNCHANGED <<sg_open_files, sg_handle_to_file_action, file, live, opens, tasks, notify,
                   polled, fault>>

ReleaseSlot(c) == \/ CleanupLock(c) \/ EF_FILE_CLEANUP(c)
                  \/ CleanupUnlock(c) \/ st_enqueue_sg_fd_queue(c)

(* ef_open_status, once the open is no longer attempted: a file that could *)
(* not be opened is cleaned up, else the action is freed.                  *)
ef_open_status(u) ==
    /\ At(u, "opening")
    /\ LET f == Entry(u) IN
       Touch(u, f, /\ file[f].status # "ATTEMPTED" /\ file[f].action.status = "COMPLETE"
                   /\ UNCHANGED fault
                   /\ \/ /\ file[f].action.ret = "failed"
                         /\ Goto(u, "f_lock") /\ UNCHANGED file
                      \/ /\ file[f].action.ret = "ok"
                         /\ file' = [file EXCEPT ![f].action = NoAction]
                         /\ Goto(u, "open"))
    /\ UNCHANGED <<table, live, opens, tasks, notify, polled>>

-----------------------------------------------------------------------------

(* ef_file_open: the call of open(2), the action's status, the file's, and *)
(* the callback, which is given the _ef_fd of the file.                    *)
OpenFile(k) ==
    /\ At(k, "t_open")
    /\ \E r \in {"ok", "failed"}, w \in BOOLEAN :
          file' = [file EXCEPT ![t[k].f].action = [cmd |-> "open", status |-> "IN_PROGRESS", ret |-> r],
                               ![t[k].f].writable = w]
    /\ Goto(k, "t_opened")
    /\ UNCHANGED <<table, live, opens, tasks, notify, polled, fault>>

OpenComplete(k) ==
    /\ At(k, "t_opened")
    /\ file' = [file EXCEPT ![t[k].f].action.status = "COMPLETE"]
    /\ Goto(k, "t_status")
    /\ UNCHANGED <<table, live, opens, tasks, notify, polled, fault>>

OpenStatus(k) ==
    /\ At(k, "t_status")
    /\ file' = [file EXCEPT ![t[k].f].status =
                   IF file[t[k].f].action.ret = "failed" THEN "NOT_OPEN" ELSE "OPEN"]
    /\ Goto(k, "t_notify")
    /\ UNCHANGED <<table, live, opens, tasks, notify, polled, fault>>

OpenNotify(k) ==
    /\ At(k, "t_notify")
    /\ IF notify THEN Touch(k, t[k].f, Return(k) /\ UNCHANGED <<file, fault>>)
                 ELSE Return(k) /\ UNCHANGED <<file, fault>>
    /\ UNCHANGED <<table, live, opens, tasks, notify, polled>>

ef_file_open(k) == OpenFile(k) \/ OpenComplete(k) \/ OpenStatus(k) \/ OpenNotify(k)

-----------------------------------------------------------------------------

(* sync_file_writes, by ef_close and by slow_sync, up to and after the     *)
(* writes EfWrite is about.  A file that is not open for writing is passed *)
(* over; an action that is no write is waited for, with the slot's lock    *)
(* held.  c goes back to where it was called from.                         *)
SyncLock(c) == At(c, "s_lock") /\ lock(c, "s_look")

SyncLook(c) ==
    /\ At(c, "s_look")
    /\ LET f == Entry(c)
           open == file[f].status = "OPEN" /\ file[f].writable IN
       IF f = Null THEN Goto(c, "s_unlock") /\ UNCHANGED <<file, fault>>
       ELSE Touch(c, f, /\ \/ /\ open /\ ~file[f].init
                              /\ fault' = "uninit" /\ UNCHANGED t
                           \/ /\ open /\ file[f].init
                              /\ GoOn(c, "s_test", t[c].fd, f)
                              /\ UNCHANGED fault
                           \/ /\ ~open
                              /\ Goto(c, "s_unlock") /\ UNCHANGED fault
                        /\ UNCHANGED file)
    /\ UNCHANGED <<table, live, opens, tasks, notify, polled>>

SyncTest(c) ==
    /\ At(c, "s_test")
    /\ Touch(c, t[c].f, /\ Goto(c, IF file[t[c].f].action = NoAction THEN "s_unlock" ELSE "s_wait")
                        /\ UNCHANGED <<file, fault>>)
    /\ UNCHANGED <<table, live, opens, tasks, notify, polled>>

SyncWait(c) ==
    /\ At(c, "s_wait")
    /\ Touch(c, t[c].f, /\ \/ /\ file[t[c].f].action.status = "COMPLETE"
                              /\ Goto(c, "s_unlock") /\ UNCHANGED fault
                           \/ /\ file[t[c].f].action = NoAction
                              /\ fault' = "action" /\ UNCHANGED t
                        /\ UNCHANGED file)
    /\ UNCHANGED <<table, live, opens, tasks, notify, polled>>

SyncUnlock(c) ==
    /\ At(c, "s_unlock")
    /\ unlock(c, IF c = Walker THEN Return(c) ELSE Goto(c, "c_submit"))

sync_file_writes(c) == \/ SyncLock(c) \/ SyncLook(c) \/ SyncTest(c)
                       \/ SyncWait(c) \/ SyncUnlock(c)

(* slow_sync looks at an entry and syncs the file if there is one.         *)
slow_sync ==
    /\ At(Walker, "idle")
    /\ \E s \in Slots : /\ sg_open_files[s] # Null
                        /\ GoOn(Walker, "s_lock", s, Null)
    /\ UNCHANGED <<table, file, live, opens, tasks, notify, polled, fault>>

-----------------------------------------------------------------------------

(* ef_close and ef_close_immediate, with or without ef_open_status before. *)
(* The action of the open, complete, is freed.                             *)
ef_close(u) ==
    /\ At(u, "open") \/ At(u, "opening")
    /\ LET f == Entry(u) IN
       Touch(u, f, /\ file[f].status = "OPEN"
                   /\ file[f].action = NoAction \/ file[f].action.status = "COMPLETE"
                   /\ file' = [file EXCEPT ![f].action = NoAction]
                   /\ Goto(u, "s_lock")
                   /\ UNCHANGED fault)
    /\ UNCHANGED <<table, live, opens, tasks, notify, polled>>

(* The action of the close; then ef_file_close as a task, or here and now. *)
CloseSubmit(u) ==
    /\ At(u, "c_submit")
    /\ LET f == Entry(u) IN
       /\ file' = [file EXCEPT ![f].action = Initiated("close")]
       /\ \/ /\ tasks' = Append(tasks, [run |-> "c_close", f |-> f])
             /\ GoOn(u, "closing", t[u].fd, Null)
          \/ /\ GoOn(u, "c_close", Null, f)
             /\ UNCHANGED tasks
    /\ UNCHANGED <<table, live, opens, notify, polled, fault>>

ef_close_api(u) == ef_close(u) \/ CloseSubmit(u)

(* ef_file_close: close(2) and the file's status, the action's status, and *)
(* then, from the _ef_fd of the file, ef_close_status.                     *)
CloseFile(c) ==
    /\ At(c, "c_close")
    /\ \E r \in {"ok", "failed"} :
          file' = [file EXCEPT ![t[c].f].action = [cmd |-> "close", status |-> "IN_PROGRESS", ret |-> r],
                               ![t[c].f].status = "NOT_OPEN"]
    /\ Goto(c, "c_done")
    /\ UNCHANGED <<table, live, opens, tasks, notify, polled, fault>>

CloseComplete(c) ==
    /\ At(c, "c_done")
    /\ file' = [file EXCEPT ![t[c].f].action.status = "COMPLETE"]
    /\ Goto(c, "c_index")
    /\ UNCHANGED <<table, live, opens, tasks, notify, polled, fault>>

(* Mutant: cleaning up is left to the user's ef_close_status.              *)
CloseIndex_LeavesIt(c) ==
    /\ At(c, "c_index")
    /\ Return(c)
    /\ UNCHANGED <<table, file, live, opens, tasks, notify, polled, fault>>

CloseIndex(c) ==
    /\ At(c, "c_index")
    /\ Touch(c, t[c].f,
             /\ \E s \in Slots : /\ sg_open_files[s] = t[c].f
                                 /\ GoOn(c, "cs_entry", s, t[c].f)
             /\ UNCHANGED <<file, fault>>)
    /\ UNCHANGED <<table, live, opens, tasks, notify, polled>>

ef_file_close(c) == CloseFile(c) \/ CloseComplete(c) \/ CloseIndex(c)

(* ef_close_status: called by the task for itself, and by a user after     *)
(* ef_close.                                                               *)
StatusEntry(c) ==
    /\ At(c, "cs_entry")
    /\ IF Entry(c) = Null THEN Return(c) ELSE Goto(c, "cs_look")
    /\ UNCHANGED <<table, file, live, opens, tasks, notify, polled, fault>>

(* A close that failed frees its action and leaves the entry; one that is  *)
(* not complete is EAGAIN, upon which a user, who came here without a file *)
(* of its own at hand, may ask again; any other action is EINVAL.          *)
StatusLook(c) ==
    /\ At(c, "cs_look")
    /\ LET f == Entry(c)
           a == file[f].action IN
       Touch(c, f, /\ UNCHANGED fault
                   /\ \/ /\ a.cmd # "close"
                         /\ Return(c) /\ UNCHANGED file
                      \/ /\ a.cmd = "close" /\ a.status # "COMPLETE"
                         /\ IF t[c].f = Null THEN Goto(c, "closing") ELSE Return(c)
                         /\ UNCHANGED file
                      \/ /\ a.cmd = "close" /\ a.status = "COMPLETE" /\ a.ret = "failed"
                         /\ file' = [file EXCEPT ![f].action = NoAction]
                         /\ Return(c)
                      \/ /\ a.cmd = "close" /\ a.status = "COMPLETE" /\ a.ret = "ok"
                         /\ GoOn(c, "f_lock", t[c].fd, f)
                         /\ UNCHANGED file)
    /\ UNCHANGED <<table, live, opens, tasks, notify, polled>>

ef_close_status(c) == StatusEntry(c) \/ StatusLook(c)

(* After ef_close a user asks how it ended, or does not.                   *)
AskStatus(u) ==
    /\ At(u, "closing")
    /\ Goto(u, "cs_entry")
    /\ polled' = TRUE
    /\ UNCHANGED <<table, file, live, opens, tasks, notify, fault>>

LeaveIt(u) ==
    /\ At(u, "closing")
    /\ Return(u)
    /\ UNCHANGED <<table, file, live, opens, tasks, notify, polled, fault>>

(* A thread of the disk pool takes the next task.                          *)
TakeTask(k) ==
    /\ At(k, "idle")
    /\ tasks # <<>>
    /\ GoOn(k, Head(tasks).run, Null, Head(tasks).f)
    /\ tasks' = Tail(tasks)
    /\ UNCHANGED <<table, file, live, opens, notify, polled, fault>>

-----------------------------------------------------------------------------

(* What a thread does once it has begun: a task, a call, a sync.           *)
Step(c) == \/ ReleaseSlot(c) \/ sync_file_writes(c)
           \/ ef_file_close(c) \/ ef_close_status(c)

UserStep(u) == \/ ef_open(u) \/ ef_open_status(u) \/ ef_close_api(u)
               \/ AskStatus(u) \/ LeaveIt(u) \/ Step(u)
DiskStep(k) == TakeTask(k) \/ ef_file_open(k) \/ Step(k)
WalkStep    == slow_sync \/ sync_file_writes(Walker)

Undefined == fault # "none" /\ UNCHANGED vars
AllClosed == opens = MaxOpens /\ (\A c \in Threads : t[c].pc = "idle") /\ UNCHANGED vars

Next == \/ \E u \in Users : UserStep(u)
        \/ \E k \in Disk : DiskStep(k)
        \/ WalkStep
        \/ Undefined
        \/ AllClosed

Spec == Init /\ [][Next]_vars

(* The pool's threads run tasks and every call is carried on with.  A      *)
(* thread that spins on a slot's lock gets it while slow_sync sleeps for   *)
(* its second, hence strong fairness for the lock.                         *)
FairSpec ==
    /\ Spec
    /\ WF_vars(WalkStep)
    /\ \A k \in Disk : WF_vars(DiskStep(k))
    /\ \A u \in Users : WF_vars(Step(u) \/ CloseSubmit(u))
    /\ \A c \in Users \cup Disk : SF_vars(CleanupLock(c))

-----------------------------------------------------------------------------

(* The threads that hold a slot that is neither free nor in the table.     *)
Holders(s) == {c \in Threads : t[c].fd = s /\ t[c].pc \in {"o_lock", "o_malloc", "f_unlock", "f_put"}}

(* No slot is lost and none is given out twice: it is in the queue of free *)
(* slots, in the table, or in the hands of one thread, and only once; and  *)
(* the files of the table are those allocated.                             *)
SlotsConserved ==
    fault = "none" =>
      /\ \A s \in Slots :
            Cardinality({i \in DOMAIN sg_fd_queue : sg_fd_queue[i] = s})
              + Cardinality(Holders(s)) + (IF sg_open_files[s] = Null THEN 0 ELSE 1) = 1
      /\ live = {sg_open_files[s] : s \in Slots} \ {Null}

(* Left to itself the library never touches an EF_FILE it has freed: that  *)
(* takes a user's ef_close_status next to the close task's own, or the     *)
(* callback of an open that failed next to ef_open_status.  slow_sync,     *)
(* ef_close and the tasks are kept apart by the lock of the slot.          *)
FreedOnlyByStatusCalls == fault = "freed" => polled \/ notify

(* A file whose close(2) succeeded gives its slot back, and the lock that  *)
(* slow_sync holds while it waits for the close does not prevent it.       *)
SlotComesBack ==
    \A s \in Slots :
       (/\ sg_open_files[s] # Null
        /\ file[sg_open_files[s]].action.cmd = "close"
        /\ file[sg_open_files[s]].action.ret = "ok")
         ~> (fault # "none" \/ \E i \in DOMAIN sg_fd_queue : sg_fd_queue[i] = s)
=============================================================================
