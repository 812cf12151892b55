# Verification of efio

TLA+ models, TLC runs and TLAPS proofs for efio (Tekenlight/efio): its
lock-free containers, its locks, the thread pool, the byte streams and the
buffered asynchronous file library built on them.  The source is the
reference; `PROJECT.json` lists under `map`, for every definition that models
code, the lines it stands for, and under `hazards` what can go wrong at which
line and which property would catch it.

## The system

| part | source | state | operations |
|---|---|---|---|
| ev_queue | evds/ev_queue.c | `head` (low bit = claim mark), `tail`, nodes with `next`, `inflight`, `magic` | enqueue, dequeue, try_dequeue, destroy, queue_empty, peek |
| ev_stack | evds/ev_stack.c | `head` with a mark, nodes | push, pop, destroy |
| ev_pqueue, ev_paqueue | evds/ | an array of lock-free lists; ticket counters and guards (p), two counters (pa) | enqueue, dequeue |
| ev_mpiqueue, ev_piqueue, ev_spiqueue | evds/ | an array of lists under a mutex, of ev_queues, of lists under an ev_spin_lock; two static indices | enqueue, dequeue |
| memory_buffer_list, chunked_memory_stream, ev_buffered_stream | evds/*.cpp | a list of byte buffers with a position; get and put areas of a streambuf | add_node, get_head, pop_head; push, read, erase, copy, transfer; underflow, overflow, sync |
| thread_pool | evthrpool/thread_pool.c | task queue, `_shutdown`, mutex and condition variable, threads | create, enqueue_task, enqueue_task_function, destroy |
| ef_file | evio/ef_file.c, ef_internals.h | per file: `_action` with accumulation buffer, queue and counters, `_prevent_action_mutation`, `_write_suspended`, page buffer, offset and sizes; global: file table, free slots, `sg_handle_to_file_action`, file_writer's event queue | open, read, write, sync, close and their status calls; threads slow_sync, file_writer, disk pool |
| ev_spin_lock, ev_rwlock, ev_mcs_lock | evsync/ | one or two words; a linked line of nodes | lock, try_lock, unlock |
| core_utils | core_utils/ | none | base64, hex, trigraph, compression, float limits |

How they interact.  `thread_pool` keeps its tasks in an `ev_queue`.  `ef_file`
keeps write requests in one `ev_queue` per write action, posts events to the
thread `file_writer` through another, and has `file_writer` hand batches to a
`thread_pool` for disk I/O.  `slow_sync`, a thread of its own, walks the table
of open files every second and flushes what `ef_write` has accumulated, beside
the user's thread.  Users, slow_sync, file_writer and disk threads share one
`EF_FILE` through three spin locks written inline, and the table through one
lock per slot.  `ev_piqueue` is built from `ev_queue`s, `ev_spiqueue` uses
`ev_spin_lock`.  The streams are fed by one thread and read by another.

What is hard.  Lock-free code where a step of another thread falls between two
atomic accesses, with addresses that malloc hands out again; wakeups that may
be lost; shutdown racing tasks; an action or a file freed by one thread while
another uses it; request and completion events in any order; one page buffer
that serves reads, writes and appends around page boundaries; loops that must
end.

## Modules

| module | models | role |
|---|---|---|
| `FifoQueue` | what a queue promises | abstract specification |
| `EvQueue` | evds/ev_queue.c | one action per atomic access; `head`, `tail`, `mem` and the set `heap` of allocated nodes; `crash` names the abort() that ended the process, `uaf` records an access to a freed node |
| `ArrayQueues` | ev_pqueue, ev_paqueue, ev_mpiqueue, ev_piqueue | the four queues over an array of lists, one of them (`kind`) per behaviour; `uaf` as above, `wild` an index past the array |
| `BufferStream` | memory_buffer_list, chunked_memory_stream, ev_buffered_stream | the list with its pusher `p` and its worker `w`; the reading stream `s` and the writing stream `o` |
| `ThreadPool` | evthrpool/thread_pool.c, mutex build | `thread_loop` action by action, enqueue_task and its signal, destroy_thread_pool |
| `EfWrite` | requests and threads of ef_file.c's write path | one file; user, slow_sync, file_writer, disk threads and the three spin locks |
| `EfFile` | content of one file of ef_file.c | page buffer, offsets, sizes, O_APPEND, O_DIRECT, reading; byte by byte against `want`, the file as read(2) and write(2) would have it |
| `FileTable` | table of open files of ef_file.c | slots, the EF_FILEs they point to, who frees them; users, disk threads, slow_sync |
| `SpinLock`, `RwLock` | evsync/ev_spin_lock.c, ev_rwlock.c | one action per atomic access |
| `TicketLine`, `McsLock` | what a fair lock promises; evsync/ev_mcs_lock.c | abstract specification and the line of nodes that are allocated and freed |
| `LifoStack`, `EvStack` | what a stack promises; evds/ev_stack.c | abstract specification and push and pop, marks included |
| `EvQueueProofs`, `EvStackProofs`, `McsLockProofs`, `RwLockProofs`, `ThreadPoolProofs`, `FileTableProofs`, `EfWriteProofs`, `ArrayQueuesProofs` | | inductive invariants and theorems, one module per component |
| `MCEvQueue` | | symmetry set for TLC; the other runs take their module as it is |

How the modules stand on each other.  `EvQueue` shows that the queue is a FIFO
(until it aborts), so `ThreadPool` and `EfWrite` use queues as sequences and an
enqueue or a dequeue as one step, and `ArrayQueues` takes the ev_queues inside
ev_piqueue for sequences with a mark on the head.  `ThreadPool` shows that
tasks run once and in queue order, so `EfWrite` and `FileTable` start disk jobs
in order.  `EfWrite` shows that requests reach the disk in order and one batch
at a time, so `EfFile` has them as two sequences and looks at what the page
arithmetic makes of the bytes.

Definitions whose name ends in `_Something` after the name of an action
(`DeqCasTail_Blind`, `RdRecheck_Skipped`, ...) are mutants: the action with a
plausible bug.  No specification uses them; putting one in the place of its
action makes the property it is paired with fail (`PROJECT.json`, `mutants`).

### Notes on the correspondence

* A wait in a spin loop (a load that finds the lock taken, a compare and swap
  that fails and is tried again with the same expected value) is a guard: the
  turns that find nothing change nothing.  Where a failed compare and swap does
  change something - the expected value - it is an action of its own:
  `RelockMutation` in `EfWrite`, `UnlockCas` in `SpinLock`, `PushCas` in
  `EvStack`.
* Atomic operations are sequentially consistent in the models.  The code uses
  seq_cst for its read-modify-write operations and acquire or release for loads
  and stores; reorderings that weaker order would allow are not modelled.
* `EvQueue`: `EnqSwapTail` is where an item enters the queue, `DeqMarkHead`
  where it leaves.  The nodes between the two are `line`, a history variable no
  action reads: a node joins it at the exchange of tail, linked or not, and
  leaves it when a dequeuer clears tail or moves head past it.  `dequeue` and `try_dequeue` share their actions and differ in
  `RetryOrReturn`, the inflight and magic checks and the answer to a zero tail.
* `ArrayQueues`: `SwapTail`, `LinkNode`, `AwaitNext` and `FreeNode` are the
  steps that ev_pqueue and ev_paqueue share; the `P...` actions are the
  tickets, permits and guards of the first, the `Pa...` actions the slots and
  marks of the second, the `Index...` and `List...` actions the plain static
  indices and the lists of the other two.  `line` is a history variable as in
  `EvQueue`, one per list.  N is the least power of 2 an int holds that is not
  below the argument of create (`Powers`), which is therefore at most 2^30.
* `BufferStream`: bytes are numbered in the order they are pushed.  A message
  read through a stream may be limited by max_len; what lies behind it in the
  list belongs to the next message.  The writing half has a list of its own,
  and a framed (chunked) mode.
* `ThreadPool`: pthread_cond_wait releases the mutex and blocks in one step
  (`CondWait`), may return unsignalled (`SpuriousWakeup`) and takes the mutex
  again (`CondReturn`).  Lock, signal, unlock of `wake_any_one_thread` is one
  step, possible when the mutex is free.  A client does not call enqueue_task
  once destroy_thread_pool has been called; a running task may.
* `EfWrite`: bytes are numbered in the order `ef_write` accepts them.  The file
  is new, opened read-write, its open action complete.  `fault` names the
  thread that used the write fields of an action which was freed or replaced;
  from there on C promises nothing and the model stops.  pwrite and fsync
  succeed; close(2) may fail.
* `EfFile`: opened in every combination of access mode, O_APPEND and O_CREAT
  that ef_open accepts, on a file of any size up to the bound.  The page buffer
  holds a page or nothing; a byte nobody has written is `Uninit`.  pwrite to an
  O_APPEND file appends, as on Linux, and a direct write to an unaligned end
  writes nothing, which the code does not notice.  One pread may fail.
  `answer` starts at a value no ef_read gives (position -1), so that the first
  answer is a change like every later one, the end of the file at position 0
  included.
* `FileTable`: a slot's lock is `sg_handle_to_file_action`.  An EF_FILE is
  known by the ef_open that allocated it; `live` are those not freed.  open(2)
  and close(2) succeed or fail as they like.  `_prevent_action_mutation` is
  left out, because its compare and swap is not reset in free_file_action and
  alloc_file_action and keeps nobody out after one failed try.
* `McsLock`: a node is freed by mcs_relinquish and its address may be returned
  by the next malloc.  `line` is a history variable: the threads in the order of
  their exchanges of tail.
* `EvStack`: the code never frees a node, so addresses are not reused and a
  node stands for its item.  `stack` is a history variable: what was pushed and
  not popped, changed at the compare and swap that succeeds.

## Runs

Bounds are constants of the cfg files: number of threads, node addresses, calls
per thread, bytes, pages.

| run | bounds | shows |
|---|---|---|
| `EvQueue_dequeue` | 2 enqueuers x 2 calls, 2 dequeuers, 3 addresses | refinement of `FifoQueue`; no use after free |
| `EvQueue_try` | 2 enqueuers x 2, 1 dequeuer, 1 try_dequeuer, 2 addresses | the same refinement with try_dequeue; calls return, the queue drains |
| `ArrayQueues` | 2 enqueuers, 2 dequeuers, 2 lists, 2 addresses, 3 items (2 for mpi and pi) | every list keeps its items in order; no use after free; an undisturbed dequeue says NULL only if all lists are empty; ev_pqueue refines `FifoQueue`; dequeuers that keep calling get every item |
| `BufferStream` | 3 addresses, 4 bytes in pushes of 1 or 2, max_len 3 or none | bytes once and in order, exact copies; no use after free; nothing is taken of the next message; output is framed, whole and owned once; calls return |
| `ThreadPool` | 2 threads, 1 client, 3 tasks | run at most once, shutdown loses no accepted task, no NULL element, no lost wakeup; accepted tasks run, destroy returns |
| `EfWrite` | page of 2 bytes, 2 bytes, 2 disk threads, 1 slow_sync round | bytes in order, counters agree, close is durable; close returns, requests complete |
| `EfFile` | page of 2 bytes, file of 0 to 3 bytes, 3 bytes written, 1 slow_sync round, 4 requests out | closed file is what write(2) would have made, reads are what read(2) would return, no abort, ready means data |
| `FileTable` | 1 slot, 2 users, 2 disk threads, 2 opens | slots neither lost nor doubled; only a status call or a callback can meet a freed file; a closed file's slot comes back |
| `RwLock` | 4 threads | exclusion; a writer is not starved by readers |
| `McsLock` | 3 threads, 3 addresses | no use after free, refinement of `TicketLine` (one at a time, in order); everybody enters |
| `EvStack` | 2 pushers x 2, 2 poppers | refinement of `LifoStack`; the stack drains |
| `SpinLock_exclusion` | 3 threads | the disagreement below |

Why the bounds are enough for the interesting cases.  Three node addresses and
four enqueues make malloc return an address another dequeuer still holds; two
enqueuers meet on one tail; the queue becomes empty and non-empty again under a
dequeuer.  Two lists and three items make the array of `ArrayQueues` wrap, and
two dequeuers race for one list while another is empty.  Four bytes in three
nodes make `BufferStream` read, erase and copy across a buffer boundary and
reuse a node while its pusher still holds the address.  `EfWrite` is about the
interleavings of the four kinds of thread, for which one or two requests, full
or partial, are enough; the arithmetic over full pages and remainders is
`EfFile`'s, where files of 0, 1, 2 and 3 bytes end at, before and after a page
boundary and writes start at each of these places.  In `FileTable` everything
that can go wrong does so on one slot that is closed and opened again: two
slots only interleave independent copies of it.  Two poppers and two pushers
bring the same head back between the two compare and swaps of a pop.  Two pool
threads, a client and three tasks have signals that meet nobody waiting, two
threads after one element, and a task that submits a task during the shutdown;
the theorems then cover every number of threads.

Symmetry is used in `EvQueue_dequeue` only, which checks no liveness, over sets
of threads and addresses that are model values.  Deadlock is not checked in
`EfFile`, where the file is closed in the end and nothing is left to do; in the
other runs it is.

### Where the code disagrees with its comments

`SpinLock_exclusion`: ev_spin_lock.h says that no other thread can lock while
one has locked.  ev_spin_unlock repeats its release as long as it sees the lock
taken, and so releases a lock that another thread has just taken; TLC shows two
threads inside.

### What the models reach and stop at

Some of the hazards are real: the model reaches them, marks them and stops, or
excludes them in a property that says so.  The passing runs show that nothing
else goes wrong before that point.

* `EvQueue`: the compare and swap of head that ev_queue.c:313 calls impossible
  to fail does fail when an enqueue finds tail already 0 and stores head first
  (`crash` = "head_CAS"); a dequeuer that sees the link of line 394 before the
  flag is cleared at 396 aborts ("inflight"), and try_dequeue frees such a node
  without that check, so `NoUseAfterFree` is not claimed when there are
  try_dequeuers.
* `EfWrite`: free_file_action and alloc_file_action enter over the lock that
  slow_sync holds, since their spin does not reset the expected value
  (ef_file.c:955, 971, against the comment at 1008); file_writer handles a late
  request event of an action ef_close has freed (1155).  ef_sync returns when
  the accumulated bytes are queued, where its comment says "synchronously".
* `EfFile`: low_ef_read computes the offset in the page before it syncs pending
  writes and copies with it after they have moved the position (773); a pread
  that fails leaves an unfilled buffer for the next read or write (398); a
  write-only file that exists is written back by whole pages that were never
  read (1191).  chk_read_conditions tests for the end of the file (618) before
  it tests the access mode (626): ef_read of a file opened O_WRONLY returns 0
  once the offset has reached the size, and with O_APPEND it has from the start
  (168), where read(2) gives EBADF and ef_io.h:191 reserves 0 for "all the data
  in the file is read and EOF is reached".  `SettledReads` therefore speaks of
  files opened with read access.  A file opened O_RDONLY|O_CREAT cannot be read, because the flags
  are compared with O_RDONLY as a whole, and ef_read after ef_write answers
  EBUSY and queues a new fsync on every call until all requests are completed.
* `FileTable`: slow_sync may look at an EF_FILE that ef_open has published and
  not yet initialised (1582, "uninit"); the close task's own ef_close_status
  and the user's free the same file (249, against the comment above 1582),
  and the open task's callback reads the slot number of a failed file the user
  has already cleaned up (204, "freed"); an action is freed under slow_sync
  ("action").  After a failed close(2) the slot stays taken.
* `ArrayQueues`: the plain static index can be bumped between the remainder and
  the use of another thread, which reads the array at N (ev_mpiqueue.c:190,
  ev_piqueue.c:178, `wild`); and with a list busy under another call a dequeue
  answers NULL although items remain, hence "undisturbed" in `EmptyWhenAlone`.
* `BufferStream`: a flush that max_len cuts short hands the put area to the list
  and keeps using it (ev_buffered_stream.cpp:245), so single ownership is
  claimed up to max_len; a stream dropped before the end of its message leaves
  the bytes it has lent, but not returned, to be delivered again.

### Fairness

The threads are scheduled by the operating system: each thread that is inside a
call, or runs a loop of the library, is weakly fair as a whole.  Callers need
not call.  A contended mutex or spin lock need not be granted fairly - only a
step that stays possible is taken.  One exception: in `FileTable` a thread that
spins on a slot's lock is strongly fair, because slow_sync, the only thread
that takes the lock again and again, sleeps for a second between its rounds.
In the queue and stack runs the takers call for ever, which is what the threads
of the pool and file_writer do.

## Proofs

Eight modules prove their component for every value of the constants, each from
the one assumption its model declares (`QueueAssumption`, `TableAssumption`,
`EfAssumption`, ...: threads of different kinds are different, Null is no
address, bounds are numbers).  They have the same shape: an inductive
invariant, a conjunction of named parts; one lemma per action, or per group of
actions that disturb the same parts, that the action keeps it; a lemma that
every step does; the theorem `Spec => []Inv`; and the properties of the runs
from it.  Before it was proved each invariant was checked with TLC on the
configurations of the runs.

`EvQueueProofs`.  `QueueInv` says how head, tail and the links spell out `line`
(`LineInv`, `HeadInv`), and for each thread what the addresses it holds mean: an
enqueuer has a node nobody knows (`SwapInv`), two neighbours of the line that are
not linked (`LinkInv`) or the first of a line without a head (`StartInv`); a
taker has a node of its own, the first of the line until it has taken it off
(`ClaimInv`, `ReadInv`).  That a freed address comes back is harmless because a
new node differs from every address in these roles.  From it:

* `IsFifo`: the queue implements `FifoQueue`, with try_dequeue too.  The
  exchange of tail is the put, the mark on head the take; every other step
  leaves the items of the unclaimed nodes and every caller's outcome alone
  (`EnqueuePuts`, `DequeueTakes`).
* `NothingFreedIsUsed`: without callers of try_dequeue (`TryDequeuers = {}`, as in
  the run `EvQueue_dequeue`) no freed node is touched.  This needs `UseInv` on
  top: a writer's flag is up from its first write to its last but one, and a
  node goes to free() only after its flag was seen down.  try_dequeue does not
  look at the flag, and there TLC finds the use after free.
* `SoundChecks`: the assert on tail and the two checks of the magic word never
  fail.  The other two aborts do happen (see above).

`EvStackProofs`.  `StackInv`: head and next spell out `stack`, and the next of a
node never changes once it was pushed, so a popper whose head has gone and come
back swaps in the right successor.  `IsLifo`: the stack implements `LifoStack`.

`McsLockProofs`.  `McsInv`: tail, next and locked spell out `line`; neighbours are
linked or the one behind is about to link; all but the first wait with locked
set.  `NodesAlive`: no freed node is touched - the only node a releasing thread
reaches is that of the thread behind, which cannot have left.  `InOrder`: the
lock implements `TicketLine`, one thread at a time in the order of the line.

`RwLockProofs`.  `RwInvariant`: for every finite set of threads `rd_lock` is the
number of threads between their increment and decrement, and `wr_lock` says how
far the one announced writer is.  From it `RwExclusion` and `RwAsserts`.  The
cardinality argument (one thread enters or leaves the counted set) is in the
lemmas `CountIn`, `CountOut` and `CountSame`.

`ThreadPoolProofs`.  `PoolInv` is TypeOK and five parts.  `ControlInv` ties mutex,
waiting, held element and copy of `_shutdown` to where a thread stands.
`OnceInv` says where a task is: queued at one place, held by one thread or done.
`AcceptInv` says that in the queue accepted tasks are ahead of all poisons, and
that no thread has met a poison or left while one is queued.  `WakeInv` says
that nobody sleeps after the broadcast.  `NoLostWakeup` is part of the induction.
From it `TypeCorrect`, `TasksRunAtMostOnce`, `DestroyLosesNoTask`,
`NullElementNeverMet` and `WakeupsAreNotLost`.  None of these is inductive alone:
that shutdown loses no task needs the order of the queue, which needs the fact
that poisons come only after `_shutdown`, which needs the control state.

`FileTableProofs`.  `TableInv`: a slot is free, in one thread's hand or in the
table (`SlotInv`), the entries of the table are the EF_FILEs allocated
(`FileInv`), between lock and unlock of a slot a thread is alone (`LockInv`), and
while no user has polled a close and no callback is set every EF_FILE has one
owner, a user's call or a task, which alone frees it (`OwnInv`).  From it
`Conserved` (no slot lost or given out twice) and `FreedByStatusOnly`.

`EfWriteProofs`.  `WriteInv`: where each of the four kinds of thread is and what
it returns to (`PlaceInv`), which action a file has at which point of its life
(`LifeInv`), the counters (`CountInv`) and who holds `_write_suspended`
(`HoldInv`).  The parts need each other: the counters are only those of a write
action as long as nobody but ef_close frees it, and that depends on where the
user is.  From it `Counters`, `EqualMeansDone` (when ef_close reads
totreq = cmpl nothing is queued, out or about to be queued) and
`ImpossibleCondition` (that abort of ef_write and ef_sync is never reached).
`WriteInv` makes no use of `_prevent_action_mutation`, which excludes nobody; the
theorems hold up to the step at which the model stops with a fault.

The bytes need a second inductive invariant, `BytesInv`, that is proved on top
of `WriteInv`.  A request is described by where its bytes begin and end, so
that no fold over a queue is needed: `InOrder` says that there are cuts between
the bytes taken over and the bytes requested, one per pending task, and every
step appends one cut or drops the first.  `PageInv` is the page buffer: file and
buffer are consecutive spans of the byte numbers, and a buffer that is not dirty
is on disk.  `BatchInv`: at most one batch is out, and its traces are in one
place, a job, a disk thread, a completion event or file_writer's hand, which is
why requests of two batches cannot overtake each other.  `OrderInv` is the
property itself.  `CloseInv` follows ef_close: past the flush the accumulation
buffer stays empty, past the fsync request the last pending task is an fsync,
past the comparison of the counters only fsyncs are pending and the page is
clean; `FreshInv` and `EndInv` are the states before and after the write action.
From it:

* `InOrderAlways`: no byte is lost, doubled or overtaken between ef_write and
  the file, with the user and slow_sync flushing the same buffer.
* `DurableAtClose`: the file on disk is a prefix of what was accepted, and is
  all of it when the file is closed.  That the wait in ef_close is enough needs
  `EqualMeansDone`.

`ArrayQueuesProofs`.  `ArrayInv` has the parts of `QueueInv`, one line per list,
and says besides that no head, line or node in a thread's hand belongs to two
lists.  What makes a dequeuer the only one at its list differs: in ev_paqueue
it is the mark on the head, in ev_pqueue that a ticket is drawn once and the
guard of a list names the ticket before the one whose turn it is (`TicketInv`).
`ItemsInv` ties lines to history: the items in a line are the last ones put, and
those before them are the ones taken, plus one while a dequeuer has passed its
node and not yet taken it off.  `SharedInv` is the same for the sequences of
ev_mpiqueue and ev_piqueue, and `TookInv` compares taken with put position by
position.  From it:

* `ItemsInOrder`: each list gives out what was put, once and in order.
* `NoFreedNodeUsed`: no freed node is touched by ev_pqueue or ev_paqueue.  The
  link an enqueuer owes is always to a node of a line, and a dequeuer frees a
  node only when it has left its line.
* `EmptyIsTrueAlone`: a dequeue that runs alone answers NULL only when all lists
  are empty.  This needs `DrainInv` on top: a mutex or a mark is held by a
  thread that is about to release it (`LockInv`), a call that is alone has the
  others idle (`AloneInv`), and the lists behind it in this round of the circle
  are drained (`WalkInv`, with the arithmetic of the circle in the lemma
  `Round`).  For ev_paqueue it also shows that the way out on a zero tail under
  a marked head (ev_paqueue.c:168) is not taken.

Only model-checked:

* all liveness properties: fairness and ENABLED are out of the prover's reach;
* `BytesInOrder` of `BufferStream`: it speaks of the concatenation of all
  buffers, and what a fold over a sequence of any length computes is an
  induction over data, which this prover does not do;
* `ImplementsFifo` of `ArrayQueues`: the refinement mapping reads the items of
  enqueuers between ticket and exchange, and needs the ticket order of enqueuers
  as well as of dequeuers;
* the properties of `EfFile` and `BufferStream`, for which no inductive
  invariant has been worked out yet.

## Not modelled

* ef_file: the read-ahead functions (nothing calls them: the one call is
  commented out, with the reason), ef_poll and ef_file_state, which only look,
  ef_set_thrpool, and a callback that is set or unset while tasks run; errors
  and short counts of pwrite, which sync_buf_to_file ignores;
* the semaphore build of the thread pool, the statistics of its threads, and
  two threads that destroy one pool;
* ev_spiqueue: ev_mpiqueue under ev_spin_lock, which does not exclude, so that
  none of the properties of `ArrayQueues` would hold;
* low_readch, transfer, get_tail and set_mode of the streams, and the
  destructors of the list and of the chunked stream;
* the destroy functions of the containers, which dequeue until NULL when nobody
  else uses the container, and peek and debug functions;
* counters that wrap after 2^31 calls (ev_paqueue, ev_pqueue);
* core_utils: base64, hex and trigraph are tables and shifts that their unit
  tests cover; compression wraps zlib; float limits and core are tables and
  one-line wrappers; evglobals: flags and macros;
* try/, cutest/ and the test suites; code under `#ifdef NEVER`.

## Plan

Done: the queue, the pool, the three locks and the stack, the queues over
arrays, the streams, and of ef_file the write path, the page buffer with
reading and appending, and the file table; the proofs of queue, stack, MCS and
readers-writer lock, pool, file table, write path (control and bytes) and queues
over arrays.

Left, in this order:

1. Proofs: `ImplementsFifo` of `ArrayQueues`; `NoAbort` and `ReadyMeansData` of
   `EfFile`.
2. `FileTable` with a callback that is set while tasks run.
3. The semaphore build of the pool, and transfer and low_readch of the streams.
4. base64 and hex as functions with their round trip over bounded inputs.
