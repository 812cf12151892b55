---------------------------- MODULE ThreadPool ----------------------------
(***************************************************************************)
(* The thread pool of evthrpool/thread_pool.c in its default, mutex based  *)
(* build.  The task queue is an ev_queue; it is used here as the FIFO it   *)
(* implements (module EvQueue), so that enqueue and dequeue are one step.  *)
(* A task may itself submit a task to the pool it runs on, as the          *)
(* callbacks of evio/ do.  pthread_cond_wait may return without a signal.  *)
(***************************************************************************)
EXTENDS Naturals, Sequences, FiniteSets

CONSTANTS Threads,    \* the threads of the pool
          Clients,    \* other threads that call enqueue_task
          Tasks,      \* the tasks that may be submitted, each once
          Poison,     \* an element whose task function is NULL
          NoTask,     \* dequeue found the queue empty (qe == NULL)
          Nobody      \* the mutex is free

ASSUME PoolAssumption ==
    /\ Threads # {} /\ IsFiniteSet(Threads)
    /\ Threads \cap Clients = {}
    /\ Nobody \notin Threads
    /\ Poison \notin Tasks /\ NoTask \notin Tasks /\ Poison # NoTask

NumThreads == Cardinality(Threads)

VARIABLES
    queue,      \* _task_queue
    shutdown,   \* _shutdown
    mutex,      \* the thread that holds _mutex, or Nobody
    waiting,    \* threads blocked on _cond
    pc,         \* per thread and client: where it stands
    s,          \* per thread: its copy of _shutdown
    qe,         \* per thread: the element it holds
    destroyer,  \* where the caller of destroy_thread_pool stands
    poisons,    \* elements wake_all_threads has enqueued
    submitted,  \* tasks handed to enqueue_task
    accepted,   \* those whose enqueue came before _shutdown was set
    runs        \* per task: how often its function was called

vars == <<queue, shutdown, mutex, waiting, pc, s, qe, destroyer, poisons,
          submitted, accepted, runs>>

ThreadPCs == {"top", "deq1", "lock", "recheck", "deq2", "wait", "waiting",
              "woken", "deq3", "reload", "post", "run", "busy", "signal",
              "exit", "abort"}

Init ==
    /\ queue = <<>>
    /\ shutdown = 0
    /\ mutex = Nobody
    /\ waiting = {}
    /\ pc = [p \in Threads \cup Clients |-> IF p \in Threads THEN "top" ELSE "idle"]
    /\ s = [t \in Threads |-> 0]
    /\ qe = [t \in Threads |-> NoTask]
    /\ destroyer = "none"
    /\ poisons = 0
    /\ submitted = {}
    /\ accepted = {}
    /\ runs = [k \in Tasks |-> 0]

-----------------------------------------------------------------------------
(* thread_loop                                                             *)

Goto(p, label) == pc' = [pc EXCEPT ![p] = label]

(* Mutant: the head of the queue is read and left there.                   *)
Dequeue_Peeks(t, got, empty) ==
    /\ UNCHANGED queue
    /\ IF queue = <<>>
       THEN Goto(t, empty) /\ UNCHANGED qe
       ELSE Goto(t, got) /\ qe' = [qe EXCEPT ![t] = Head(queue)]

(* dequeue of the task queue into qe; got and empty are the places to go.  *)
Dequeue(t, got, empty) ==
    IF queue = <<>>
    THEN /\ Goto(t, empty)
         /\ UNCHANGED <<queue, qe>>
    ELSE /\ qe' = [qe EXCEPT ![t] = Head(queue)]
         /\ queue' = Tail(queue)
         /\ Goto(t, got)

(* The head of the outer loop.                                             *)
LoadShutdown(t) ==
    /\ pc[t] = "top"
    /\ s' = [s EXCEPT ![t] = shutdown]
    /\ qe' = [qe EXCEPT ![t] = NoTask]
    /\ Goto(t, IF shutdown = 0 THEN "deq1" ELSE "post")
    /\ UNCHANGED <<queue, shutdown, mutex, waiting, destroyer, poisons,
                   submitted, accepted, runs>>

FirstDequeue(t) ==
    /\ pc[t] = "deq1"
    /\ Dequeue(t, "post", "lock")
    /\ UNCHANGED <<shutdown, mutex, waiting, s, destroyer, poisons,
                   submitted, accepted, runs>>

LockMutex(t) ==
    /\ pc[t] = "lock"
    /\ mutex = Nobody
    /\ mutex' = t
    /\ Goto(t, "recheck")
    /\ UNCHANGED <<queue, shutdown, waiting, s, qe, destroyer, poisons,
                   submitted, accepted, runs>>

(* Mutant: no second look at the queue under the mutex.                    *)
RecheckShutdown_NoDequeue(t) ==
    /\ pc[t] = "recheck"
    /\ s' = [s EXCEPT ![t] = shutdown]
    /\ IF shutdown = 0
       THEN Goto(t, "wait") /\ UNCHANGED mutex
       ELSE Goto(t, "post") /\ mutex' = Nobody
    /\ UNCHANGED <<queue, shutdown, waiting, qe, destroyer, poisons,
                   submitted, accepted, runs>>

(* Under the mutex: leave the inner loop, unlocking, when shutdown is set. *)
RecheckShutdown(t) ==
    /\ pc[t] = "recheck"
    /\ s' = [s EXCEPT ![t] = shutdown]
    /\ IF shutdown = 0
       THEN Goto(t, "deq2") /\ UNCHANGED mutex
       ELSE Goto(t, "post") /\ mutex' = Nobody
    /\ UNCHANGED <<queue, shutdown, waiting, qe, destroyer, poisons,
                   submitted, accepted, runs>>

(* Under the mutex: an element found ends the inner loop, unlocking.       *)
LockedDequeue(t) ==
    /\ pc[t] = "deq2"
    /\ Dequeue(t, "post", "wait")
    /\ mutex' = IF queue = <<>> THEN mutex ELSE Nobody
    /\ UNCHANGED <<shutdown, waiting, s, destroyer, poisons,
                   submitted, accepted, runs>>

(* pthread_cond_wait: release the mutex and block, in one step.            *)
CondWait(t) ==
    /\ pc[t] = "wait"
    /\ mutex' = Nobody
    /\ waiting' = waiting \cup {t}
    /\ Goto(t, "waiting")
    /\ UNCHANGED <<queue, shutdown, s, qe, destroyer, poisons,
                   submitted, accepted, runs>>

(* A wakeup nobody signalled.                                              *)
SpuriousWakeup(t) ==
    /\ t \in waiting
    /\ waiting' = waiting \ {t}
    /\ UNCHANGED <<queue, shutdown, mutex, pc, s, qe, destroyer, poisons,
                   submitted, accepted, runs>>

(* pthread_cond_wait returns with the mutex held.                          *)
CondReturn(t) ==
    /\ pc[t] = "waiting"
    /\ t \notin waiting
    /\ mutex = Nobody
    /\ mutex' = t
    /\ Goto(t, "woken")
    /\ UNCHANGED <<queue, shutdown, waiting, s, qe, destroyer, poisons,
                   submitted, accepted, runs>>

UnlockMutex(t) ==
    /\ pc[t] = "woken"
    /\ mutex' = Nobody
    /\ Goto(t, "deq3")
    /\ UNCHANGED <<queue, shutdown, waiting, s, qe, destroyer, poisons,
                   submitted, accepted, runs>>

ThirdDequeue(t) ==
    /\ pc[t] = "deq3"
    /\ Dequeue(t, "post", "reload")
    /\ UNCHANGED <<shutdown, mutex, waiting, s, destroyer, poisons,
                   submitted, accepted, runs>>

(* Mutant: the inner loop is left after one turn.                          *)
ReloadShutdown_OneTurn(t) ==
    /\ pc[t] = "reload"
    /\ s' = [s EXCEPT ![t] = shutdown]
    /\ Goto(t, "post")
    /\ UNCHANGED <<queue, shutdown, mutex, waiting, qe, destroyer, poisons,
                   submitted, accepted, runs>>

ReloadShutdown(t) ==
    /\ pc[t] = "reload"
    /\ s' = [s EXCEPT ![t] = shutdown]
    /\ Goto(t, IF shutdown = 0 THEN "deq1" ELSE "post")
    /\ UNCHANGED <<queue, shutdown, mutex, waiting, qe, destroyer, poisons,
                   submitted, accepted, runs>>

(* Holding an element: a NULL function ends the thread, a task is run.     *)
Dispatch(t) ==
    /\ pc[t] = "post"
    /\ qe[t] # NoTask
    /\ Goto(t, IF qe[t] = Poison THEN "exit" ELSE "run")
    /\ qe' = [qe EXCEPT ![t] = IF @ = Poison THEN NoTask ELSE @]
    /\ UNCHANGED <<queue, shutdown, mutex, waiting, s, destroyer, poisons,
                   submitted, accepted, runs>>

(* Mutant: after a shutdown the thread leaves without a last dequeue.      *)
DrainOrExit_NoDrain(t) ==
    /\ pc[t] = "post"
    /\ qe[t] = NoTask
    /\ Goto(t, IF s[t] = 0 THEN "abort" ELSE "exit")
    /\ UNCHANGED <<queue, shutdown, mutex, waiting, s, qe, destroyer, poisons,
                   submitted, accepted, runs>>

(* Holding nothing: after a shutdown one more dequeue, and the thread ends *)
(* unless it finds a task; otherwise                                       *)
(* EV_ABORT("Dequeued element cannot be NULL. ").                          *)
DrainOrExit(t) ==
    /\ pc[t] = "post"
    /\ qe[t] = NoTask
    /\ IF s[t] = 0
       THEN Goto(t, "abort") /\ UNCHANGED <<queue, qe>>
       ELSE IF queue # <<>> /\ Head(queue) # Poison
       THEN Dequeue(t, "run", "exit")
       ELSE /\ queue' = IF queue = <<>> THEN queue ELSE Tail(queue)
            /\ Goto(t, "exit")
            /\ UNCHANGED qe
    /\ UNCHANGED <<shutdown, mutex, waiting, s, destroyer, poisons,
                   submitted, accepted, runs>>

CallTask(t) ==
    /\ pc[t] = "run"
    /\ runs' = [runs EXCEPT ![qe[t]] = @ + 1]
    /\ Goto(t, "busy")
    /\ UNCHANGED <<queue, shutdown, mutex, waiting, s, qe, destroyer, poisons,
                   submitted, accepted>>

(* The task function returns; its element is freed.                        *)
FinishTask(t) ==
    /\ pc[t] = "busy"
    /\ qe' = [qe EXCEPT ![t] = NoTask]
    /\ Goto(t, "top")
    /\ UNCHANGED <<queue, shutdown, mutex, waiting, s, destroyer, poisons,
                   submitted, accepted, runs>>

-----------------------------------------------------------------------------
(* enqueue_task, called by a client before the pool is destroyed or by a   *)
(* task of the pool: the element first, the wakeup after it.               *)

EnqueueTask(p, k) ==
    /\ \/ p \in Clients /\ pc[p] = "idle" /\ destroyer = "none"
       \/ p \in Threads /\ pc[p] = "busy"
    /\ k \notin submitted
    /\ queue' = Append(queue, k)
    /\ submitted' = submitted \cup {k}
    /\ accepted' = IF shutdown = 0 THEN accepted \cup {k} ELSE accepted
    /\ Goto(p, "signal")
    /\ UNCHANGED <<shutdown, mutex, waiting, s, qe, destroyer, poisons, runs>>

(* Mutant: nobody is signalled.                                            *)
WakeAnyOneThread_NoSignal(p) ==
    /\ pc[p] = "signal"
    /\ Goto(p, IF p \in Threads THEN "busy" ELSE "idle")
    /\ UNCHANGED <<queue, shutdown, mutex, waiting, s, qe, destroyer, poisons,
                   submitted, accepted, runs>>

(* Lock, pthread_cond_signal, unlock: at least one waiter, if there is     *)
(* one, stops waiting.                                                     *)
WakeAnyOneThread(p) ==
    /\ pc[p] = "signal"
    /\ mutex = Nobody
    /\ IF waiting = {} THEN UNCHANGED waiting
       ELSE \E t \in waiting : waiting' = waiting \ {t}
    /\ Goto(p, IF p \in Threads THEN "busy" ELSE "idle")
    /\ UNCHANGED <<queue, shutdown, mutex, s, qe, destroyer, poisons,
                   submitted, accepted, runs>>

-----------------------------------------------------------------------------
(* destroy_thread_pool, called by one thread when no client is inside      *)
(* enqueue_task.                                                           *)

DestroyCall ==
    /\ destroyer = "none"
    /\ \A c \in Clients : pc[c] = "idle"
    /\ shutdown = 0
    /\ destroyer' = "store"
    /\ UNCHANGED <<queue, shutdown, mutex, waiting, pc, s, qe, poisons,
                   submitted, accepted, runs>>

StoreShutdown ==
    /\ destroyer = "store"
    /\ shutdown' = 1
    /\ destroyer' = "poison"
    /\ UNCHANGED <<queue, mutex, waiting, pc, s, qe, poisons,
                   submitted, accepted, runs>>

(* wake_all_threads, its loop: one poison per thread of the pool.          *)
EnqueuePoison ==
    /\ destroyer = "poison"
    /\ poisons < NumThreads
    /\ queue' = Append(queue, Poison)
    /\ poisons' = poisons + 1
    /\ UNCHANGED <<shutdown, mutex, waiting, pc, s, qe, destroyer,
                   submitted, accepted, runs>>

(* Mutant: one waiter is signalled, not all.                               *)
Broadcast_One ==
    /\ destroyer = "poison"
    /\ poisons = NumThreads
    /\ mutex = Nobody
    /\ IF waiting = {} THEN UNCHANGED waiting
       ELSE \E t \in waiting : waiting' = waiting \ {t}
    /\ destroyer' = "join"
    /\ UNCHANGED <<queue, shutdown, mutex, pc, s, qe, poisons,
                   submitted, accepted, runs>>

(* wake_all_threads, its end: lock, broadcast, unlock.                     *)
Broadcast ==
    /\ destroyer = "poison"
    /\ poisons = NumThreads
    /\ mutex = Nobody
    /\ waiting' = {}
    /\ destroyer' = "join"
    /\ UNCHANGED <<queue, shutdown, mutex, pc, s, qe, poisons,
                   submitted, accepted, runs>>

(* pthread_join of every thread, then free_thread_pool, which throws away  *)
(* what is still queued.                                                   *)
JoinAndFree ==
    /\ destroyer = "join"
    /\ \A t \in Threads : pc[t] = "exit"
    /\ queue' = <<>>
    /\ destroyer' = "freed"
    /\ UNCHANGED <<shutdown, mutex, waiting, pc, s, qe, poisons,
                   submitted, accepted, runs>>

-----------------------------------------------------------------------------
thread_loop(t) ==
    \/ LoadShutdown(t) \/ FirstDequeue(t) \/ LockMutex(t) \/ RecheckShutdown(t)
    \/ LockedDequeue(t) \/ CondWait(t) \/ CondReturn(t) \/ UnlockMutex(t)
    \/ ThirdDequeue(t) \/ ReloadShutdown(t) \/ Dispatch(t) \/ DrainOrExit(t)
    \/ CallTask(t) \/ FinishTask(t)

destroy_thread_pool ==
    \/ DestroyCall \/ StoreShutdown \/ EnqueuePoison \/ Broadcast \/ JoinAndFree

(* The pool is gone.                                                       *)
Gone == destroyer = "freed" /\ UNCHANGED vars

Next ==
    \/ \E t \in Threads : thread_loop(t) \/ SpuriousWakeup(t)
    \/ \E p \in Threads \cup Clients :
          (\E k \in Tasks : EnqueueTask(p, k)) \/ WakeAnyOneThread(p)
    \/ destroy_thread_pool
    \/ Gone

(* Threads are scheduled and a destroy that was called goes on; a mutex    *)
(* that stays free is granted.  Nobody has to submit a task, to wake up    *)
(* spuriously or to destroy the pool, and a contended mutex need not be    *)
(* fair.                                                                   *)
Fairness ==
    /\ \A t \in Threads : WF_vars(thread_loop(t))
    /\ \A p \in Threads \cup Clients : WF_vars(WakeAnyOneThread(p))
    /\ WF_vars(StoreShutdown \/ EnqueuePoison \/ Broadcast \/ JoinAndFree)

Spec     == Init /\ [][Next]_vars
FairSpec == Spec /\ Fairness

-----------------------------------------------------------------------------
Queued  == {queue[i] : i \in DOMAIN queue}
Held    == {qe[t] : t \in Threads}

(* Every variable has its type.                                            *)
TypeOK ==
    /\ queue \in Seq(Tasks \cup {Poison})
    /\ shutdown \in {0, 1}
    /\ mutex \in Threads \cup {Nobody}
    /\ waiting \subseteq Threads
    /\ pc \in [Threads \cup Clients -> ThreadPCs \cup {"idle"}]
    /\ s \in [Threads -> {0, 1}]
    /\ qe \in [Threads -> Tasks \cup {Poison, NoTask}]
    /\ destroyer \in {"none", "store", "poison", "join", "freed"}
    /\ poisons \in 0..NumThreads
    /\ submitted \subseteq Tasks
    /\ accepted \subseteq submitted
    /\ runs \in [Tasks -> Nat]

(* Who holds the mutex, who waits, who holds an element, and what s says:  *)
(* the control state of thread_loop, thread by thread.                     *)
Locked == {"recheck", "deq2", "wait", "woken"}

ControlInv ==
    /\ \A c \in Clients : pc[c] \in {"idle", "signal"}
    /\ \A t \in Threads :
        /\ pc[t] \notin {"idle", "abort"}
        /\ pc[t] \in Locked <=> mutex = t
        /\ t \in waiting => pc[t] = "waiting"
        /\ qe[t] # NoTask => pc[t] \in {"post", "run", "busy", "signal"}
        /\ pc[t] \in {"run", "busy", "signal"} => qe[t] \in Tasks
        /\ pc[t] = "post" /\ qe[t] = NoTask => s[t] = 1
        /\ s[t] = 1 => shutdown = 1

(* Where a task is: never submitted, queued once, held by one thread, or   *)
(* done (or dropped with the queue when the pool is freed).                *)
OnceInv ==
    /\ \A i, j \in DOMAIN queue :
          queue[i] \in Tasks /\ queue[i] = queue[j] => i = j
    /\ \A i \in DOMAIN queue :
          queue[i] \in Tasks => /\ queue[i] \in submitted
                                /\ runs[queue[i]] = 0
                                /\ \A t \in Threads : qe[t] # queue[i]
    /\ \A t, u \in Threads : qe[t] \in Tasks /\ qe[t] = qe[u] => t = u
    /\ \A t \in Threads :
          qe[t] \in Tasks =>
             /\ qe[t] \in submitted
             /\ runs[qe[t]] = IF pc[t] \in {"busy", "signal"} THEN 1 ELSE 0
    /\ \A k \in Tasks : /\ runs[k] <= 1
                        /\ k \notin submitted => runs[k] = 0

(* An accepted task is done, held or queued; in the queue it is ahead of   *)
(* every poison, and no thread has met a poison or left before it.         *)
AcceptInv ==
    /\ shutdown = 0 <=> destroyer \in {"none", "store"}
    /\ shutdown = 0 => /\ \A i \in DOMAIN queue : queue[i] # Poison
                       /\ \A t \in Threads : pc[t] # "exit" /\ qe[t] # Poison
    /\ \A i, j \in DOMAIN queue :
          i < j /\ queue[i] = Poison => queue[j] \notin accepted
    /\ \A t \in Threads : pc[t] = "exit" \/ qe[t] = Poison =>
          \A i \in DOMAIN queue : queue[i] \notin accepted
    /\ \A k \in accepted : \/ runs[k] = 1
                           \/ \E i \in DOMAIN queue : queue[i] = k
                           \/ \E t \in Threads : qe[t] = k
    /\ destroyer = "freed" => queue = <<>> /\ \A t \in Threads : pc[t] = "exit"

(* After the broadcast nobody sleeps and nobody is on the way to sleep.    *)
WakeInv ==
    destroyer \in {"join", "freed"} =>
        /\ waiting = {}
        /\ \A t \in Threads : pc[t] \notin {"deq2", "wait"}

(* A task is never run twice, however many threads race for it with        *)
(* shutdown, spurious wakeups and the three dequeues of thread_loop.       *)
RunAtMostOnce == \A k \in Tasks : runs[k] <= 1

(* destroy_thread_pool returns only when every task enqueued before it     *)
(* set _shutdown has been run: no thread leaves on a poison, or on an      *)
(* empty queue, ahead of such a task.                                      *)
DestroyRunsAccepted == destroyer = "freed" => \A k \in accepted : runs[k] = 1

(* The branch that aborts with "Dequeued element cannot be NULL" is never  *)
(* taken, and a thread leaves the loop only after a shutdown.              *)
NoNullElement ==
    \A t \in Threads : /\ pc[t] # "abort"
                       /\ pc[t] = "exit" => shutdown = 1

(* t will look at the queue before it sleeps.                              *)
Awake(t) == \/ pc[t] \notin {"wait", "waiting", "exit"}
            \/ pc[t] = "waiting" /\ t \notin waiting

(* No lost wakeup: while something is queued, a thread is awake and will   *)
(* look at the queue before it can sleep, or somebody is about to signal   *)
(* or broadcast, or every thread has left.                                 *)
NoLostWakeup ==
    queue # <<>> =>
        \/ \E p \in Threads \cup Clients : pc[p] = "signal"
        \/ destroyer = "poison"
        \/ \E t \in Threads : Awake(t)
        \/ \A t \in Threads : pc[t] = "exit"

(* The inductive invariant behind the safety properties.                   *)
PoolInv == TypeOK /\ ControlInv /\ OnceInv /\ AcceptInv /\ WakeInv /\ NoLostWakeup

(* Every task enqueued before the shutdown is run in the end.              *)
AcceptedRuns == \A k \in Tasks : (k \in accepted) ~> (runs[k] = 1)

(* A call of destroy_thread_pool returns.                                  *)
DestroyReturns == (destroyer # "none") ~> (destroyer = "freed")

=============================================================================
