-------------------------- MODULE ThreadPoolProofs --------------------------
(***************************************************************************)
(* PoolInv is an inductive invariant of the thread pool, for any number of *)
(* threads, clients and tasks; the safety properties follow from it.       *)
(***************************************************************************)
EXTENDS ThreadPool, FiniteSetTheorems, TLAPS

-----------------------------------------------------------------------------
(* Facts about the constants and about sequences                           *)

(* The number of threads is a number: Threads is finite.                   *)
LEMMA NumThreadsType == NumThreads \in Nat
  BY PoolAssumption, FS_CardinalityType DEF NumThreads

(* What Head and Tail make of a queue that is not empty.                   *)
LEMMA HeadTail ==
    ASSUME NEW S, NEW q \in Seq(S), q # <<>>
    PROVE  /\ Head(q) = q[1] /\ Head(q) \in S
           /\ 1 \in DOMAIN q
           /\ Tail(q) \in Seq(S)
           /\ \A i \in DOMAIN Tail(q) : /\ i \in Nat \ {0} /\ i + 1 \in DOMAIN q
                                         /\ Tail(q)[i] = q[i + 1]
           /\ \A i \in DOMAIN q : i # 1 => i - 1 \in DOMAIN Tail(q) /\ Tail(q)[i - 1] = q[i]
<1>1. Len(q) \in Nat /\ Len(q) > 0 /\ DOMAIN q = 1..Len(q)
    OBVIOUS
<1>2. Tail(q) \in Seq(S) /\ DOMAIN Tail(q) = 1..(Len(q) - 1)
    BY <1>1
<1>3. \A i \in DOMAIN Tail(q) : Tail(q)[i] = q[i + 1]
    BY <1>1, <1>2
<1> QED  BY <1>1, <1>2, <1>3

(* What Append makes of a queue.                                           *)
LEMMA AppendElements ==
    ASSUME NEW S, NEW q \in Seq(S), NEW e \in S
    PROVE  /\ Append(q, e) \in Seq(S)
           /\ DOMAIN q = 1..Len(q) /\ Len(q) \in Nat
           /\ DOMAIN Append(q, e) = 1..(Len(q) + 1)
           /\ \A i \in DOMAIN q : Append(q, e)[i] = q[i]
           /\ Append(q, e)[Len(q) + 1] = e
  OBVIOUS

-----------------------------------------------------------------------------
(* Taking the head of the queue                                            *)

(* The part of a dequeue that found an element which concerns the data: a  *)
(* thread that held nothing now holds the head of the queue.               *)
TakesHead(t, got) ==
    /\ qe[t] = NoTask
    /\ queue # <<>>
    /\ qe' = [qe EXCEPT ![t] = Head(queue)]
    /\ queue' = Tail(queue)
    /\ got \in {"post", "run"}
    /\ pc' = [pc EXCEPT ![t] = got]
    /\ UNCHANGED <<shutdown, destroyer, submitted, accepted, runs>>

(* A task that moves from the queue to one thread is still in one place.   *)
LEMMA TakesHeadOnce ==
    ASSUME PoolInv, NEW t \in Threads, NEW got, TakesHead(t, got),
           pc[t] \notin {"busy", "signal"}
    PROVE  OnceInv'
<1> USE DEF PoolInv, TakesHead
<1>1. /\ Head(queue) = queue[1] /\ 1 \in DOMAIN queue
      /\ \A i \in DOMAIN queue' : i \in Nat \ {0} /\ i + 1 \in DOMAIN queue /\ queue'[i] = queue[i + 1]
    BY HeadTail DEF TypeOK
<1>2. /\ qe'[t] = queue[1]
      /\ \A u \in Threads : u # t => qe'[u] = qe[u] /\ pc'[u] = pc[u]
      /\ pc'[t] = got
    BY <1>1 DEF TypeOK
<1> HIDE DEF TakesHead
<1>3. \A i, j \in DOMAIN queue' :
          queue'[i] \in Tasks /\ queue'[i] = queue'[j] => i = j
    BY <1>1 DEF OnceInv
<1>4. \A i \in DOMAIN queue' :
          queue'[i] \in Tasks => /\ queue'[i] \in submitted
                                 /\ runs[queue'[i]] = 0
                                 /\ \A u \in Threads : qe'[u] # queue'[i]
  <2> TAKE i \in DOMAIN queue'
  <2> HAVE queue'[i] \in Tasks
  <2>1. queue'[i] = queue[i + 1] /\ i + 1 \in DOMAIN queue /\ i + 1 # 1
      BY <1>1
  <2>2. queue[1] # queue[i + 1]
      BY <2>1, <1>1 DEF OnceInv
  <2> QED  BY <2>1, <2>2, <1>2 DEF OnceInv
<1>5. \A u, v \in Threads : qe'[u] \in Tasks /\ qe'[u] = qe'[v] => u = v
    BY <1>1, <1>2 DEF OnceInv
<1>6. \A u \in Threads :
          qe'[u] \in Tasks =>
             /\ qe'[u] \in submitted
             /\ runs[qe'[u]] = IF pc'[u] \in {"busy", "signal"} THEN 1 ELSE 0
    BY <1>1, <1>2 DEF OnceInv, TakesHead
<1> QED  BY <1>3, <1>4, <1>5, <1>6 DEF OnceInv, TakesHead

(* An accepted task is still queued, held or done, and still ahead of      *)
(* every poison.                                                           *)
LEMMA TakesHeadAccept ==
    ASSUME PoolInv, NEW t \in Threads, NEW got, TakesHead(t, got), pc[t] # "exit"
    PROVE  AcceptInv'
<1> USE DEF PoolInv, TakesHead
<1>1. /\ Head(queue) = queue[1] /\ 1 \in DOMAIN queue
      /\ \A i \in DOMAIN queue' : i \in Nat \ {0} /\ i + 1 \in DOMAIN queue /\ queue'[i] = queue[i + 1]
      /\ \A i \in DOMAIN queue : i # 1 => i - 1 \in DOMAIN queue' /\ queue'[i - 1] = queue[i]
      /\ \A i \in DOMAIN queue : i \in Nat
    BY HeadTail DEF TypeOK
<1>2. /\ qe'[t] = queue[1]
      /\ \A u \in Threads : u # t => qe'[u] = qe[u] /\ pc'[u] = pc[u]
      /\ pc'[t] = got /\ got # "exit"
      /\ NoTask \notin accepted
    BY <1>1, PoolAssumption DEF TypeOK
<1>3. UNCHANGED <<shutdown, destroyer, accepted, runs>>
    OBVIOUS
<1>4. destroyer # "freed"
    BY DEF AcceptInv
<1>5. qe[t] = NoTask
    OBVIOUS
<1> HIDE DEF TakesHead
<1>6. shutdown = 0 => /\ \A i \in DOMAIN queue' : queue'[i] # Poison
                      /\ \A u \in Threads : pc'[u] # "exit" /\ qe'[u] # Poison
    BY <1>1, <1>2 DEF AcceptInv
<1>7. \A i, j \in DOMAIN queue' :
          i < j /\ queue'[i] = Poison => queue'[j] \notin accepted
  <2> TAKE i, j \in DOMAIN queue'
  <2> HAVE i < j /\ queue'[i] = Poison
  <2>1. /\ i + 1 \in DOMAIN queue /\ j + 1 \in DOMAIN queue /\ i + 1 < j + 1
        /\ queue[i + 1] = Poison /\ queue'[j] = queue[j + 1]
      BY <1>1
  <2> QED  BY <2>1 DEF AcceptInv
<1>8. \A u \in Threads : pc'[u] = "exit" \/ qe'[u] = Poison =>
          \A i \in DOMAIN queue' : queue'[i] \notin accepted
  <2> TAKE u \in Threads
  <2> HAVE pc'[u] = "exit" \/ qe'[u] = Poison
  <2> TAKE i \in DOMAIN queue'
  <2>1. i + 1 \in DOMAIN queue /\ queue'[i] = queue[i + 1] /\ 1 < i + 1
      BY <1>1
  <2>2. CASE u = t
      BY <2>1, <2>2, <1>1, <1>2 DEF AcceptInv
  <2>3. CASE u # t
      BY <2>1, <2>3, <1>2 DEF AcceptInv
  <2> QED  BY <2>2, <2>3
<1>9. \A k \in accepted : \/ runs[k] = 1
                          \/ \E i \in DOMAIN queue' : queue'[i] = k
                          \/ \E u \in Threads : qe'[u] = k
  <2> TAKE k \in accepted
  <2>1. \/ runs[k] = 1
        \/ \E i \in DOMAIN queue : queue[i] = k
        \/ \E u \in Threads : qe[u] = k
      BY DEF AcceptInv
  <2>2. ASSUME NEW i \in DOMAIN queue, queue[i] = k
        PROVE  \/ \E j \in DOMAIN queue' : queue'[j] = k
               \/ \E u \in Threads : qe'[u] = k
      BY <2>2, <1>1, <1>2
  <2>3. ASSUME NEW u \in Threads, qe[u] = k
        PROVE  \E v \in Threads : qe'[v] = k
      BY <2>3, <1>2, <1>5
  <2> QED  BY <2>1, <2>2, <2>3
<1> QED  BY <1>3, <1>4, <1>6, <1>7, <1>8, <1>9 DEF AcceptInv

(* The head of the loop.                                                   *)
LEMMA LoadShutdownKeeps ==
    ASSUME PoolInv, NEW t \in Threads, LoadShutdown(t)
    PROVE  PoolInv'
<1> USE PoolAssumption, NumThreadsType DEF PoolInv, LoadShutdown, Goto
<1>1. TypeOK'
    BY DEF TypeOK, ControlInv, ThreadPCs
<1>2. ControlInv'
    BY DEF TypeOK, ControlInv, AcceptInv, Locked
<1>3. OnceInv'
    BY DEF TypeOK, ControlInv, OnceInv
<1>4. AcceptInv'
  <2>1. qe' = qe
      BY DEF TypeOK, ControlInv
  <2> QED  BY <2>1 DEF TypeOK, AcceptInv
<1>5. WakeInv'
    BY DEF TypeOK, ControlInv, AcceptInv, WakeInv, Locked
<1>6. NoLostWakeup'
    BY DEF TypeOK, ControlInv, AcceptInv, WakeInv, NoLostWakeup, Awake, Locked
<1> QED  BY <1>1, <1>2, <1>3, <1>4, <1>5, <1>6 DEF PoolInv

(* The dequeue outside the mutex.                                          *)
LEMMA FirstDequeueKeeps ==
    ASSUME PoolInv, NEW t \in Threads, FirstDequeue(t)
    PROVE  PoolInv'
<1> USE PoolAssumption DEF PoolInv
<1>a. pc[t] = "deq1" /\ qe[t] = NoTask
    BY DEF ControlInv, FirstDequeue
<1>b. \/ TakesHead(t, "post")
      \/ UNCHANGED <<queue, qe>> /\ pc'[t] # "exit"
    BY <1>a DEF FirstDequeue, Dequeue, Goto, TakesHead, TypeOK
<1>1. TypeOK'
  <2>1. queue # <<>> => /\ Head(queue) \in Tasks \cup {Poison}
                         /\ Tail(queue) \in Seq(Tasks \cup {Poison})
      BY HeadTail DEF TypeOK
  <2>2. queue' \in Seq(Tasks \cup {Poison})
      BY <2>1, <1>b DEF TypeOK, TakesHead
  <2>3. qe' \in [Threads -> Tasks \cup {Poison, NoTask}]
      BY <2>1, <1>b DEF TypeOK, TakesHead
  <2>4. /\ pc' \in [Threads \cup Clients -> ThreadPCs \cup {"idle"}]
        /\ mutex' \in Threads \cup {Nobody}
      BY DEF TypeOK, ThreadPCs, FirstDequeue, Dequeue, Goto
  <2> QED  BY <2>2, <2>3, <2>4 DEF TypeOK, FirstDequeue
<1>2. ControlInv'
    BY DEF TypeOK, ControlInv, AcceptInv, Locked, FirstDequeue, Goto, Dequeue
<1>3. OnceInv'
  <2>1. CASE TakesHead(t, "post")
      BY <2>1, <1>a, TakesHeadOnce
  <2>2. CASE UNCHANGED <<queue, qe>>
      BY <2>2, <1>a DEF TypeOK, OnceInv, FirstDequeue, Dequeue, Goto
  <2> QED  BY <1>b, <2>1, <2>2
<1>4. AcceptInv'
  <2>1. CASE TakesHead(t, "post")
      BY <2>1, <1>a, TakesHeadAccept
  <2>2. CASE UNCHANGED <<queue, qe>> /\ pc'[t] # "exit"
      BY <2>2, <1>a DEF TypeOK, AcceptInv, FirstDequeue, Dequeue, Goto
  <2> QED  BY <1>b, <2>1, <2>2
<1>5. WakeInv'
    BY DEF TypeOK, ControlInv, AcceptInv, WakeInv, Locked, FirstDequeue, Goto, Dequeue
<1>6. NoLostWakeup'
    BY DEF TypeOK, ControlInv, AcceptInv, WakeInv, NoLostWakeup, Awake, Locked, FirstDequeue, Goto, Dequeue
<1> QED  BY <1>1, <1>2, <1>3, <1>4, <1>5, <1>6 DEF PoolInv

(* Taking the mutex.                                                       *)
LEMMA LockMutexKeeps ==
    ASSUME PoolInv, NEW t \in Threads, LockMutex(t)
    PROVE  PoolInv'
<1> USE PoolAssumption, NumThreadsType DEF PoolInv, LockMutex, Goto
<1>1. TypeOK'
    BY DEF TypeOK, ControlInv, ThreadPCs
<1>2. ControlInv'
    BY DEF TypeOK, ControlInv, AcceptInv, Locked
<1>3. OnceInv'
    BY DEF TypeOK, ControlInv, OnceInv
<1>4. AcceptInv'
    BY DEF TypeOK, ControlInv, OnceInv, AcceptInv
<1>5. WakeInv'
    BY DEF TypeOK, ControlInv, AcceptInv, WakeInv, Locked
<1>6. NoLostWakeup'
    BY DEF TypeOK, ControlInv, AcceptInv, WakeInv, NoLostWakeup, Awake, Locked
<1> QED  BY <1>1, <1>2, <1>3, <1>4, <1>5, <1>6 DEF PoolInv

(* Looking at _shutdown again, under the mutex.                            *)
LEMMA RecheckShutdownKeeps ==
    ASSUME PoolInv, NEW t \in Threads, RecheckShutdown(t)
    PROVE  PoolInv'
<1> USE PoolAssumption, NumThreadsType DEF PoolInv, RecheckShutdown, Goto
<1>1. TypeOK'
    BY DEF TypeOK, ControlInv, ThreadPCs
<1>2. ControlInv'
    BY DEF TypeOK, ControlInv, AcceptInv, Locked
<1>3. OnceInv'
    BY DEF TypeOK, ControlInv, OnceInv
<1>4. AcceptInv'
    BY DEF TypeOK, ControlInv, OnceInv, AcceptInv
<1>5. WakeInv'
    BY DEF TypeOK, ControlInv, AcceptInv, WakeInv, Locked
<1>6. NoLostWakeup'
    BY DEF TypeOK, ControlInv, AcceptInv, WakeInv, NoLostWakeup, Awake, Locked
<1> QED  BY <1>1, <1>2, <1>3, <1>4, <1>5, <1>6 DEF PoolInv

(* The dequeue under the mutex: it sleeps only when the queue is empty.    *)
LEMMA LockedDequeueKeeps ==
    ASSUME PoolInv, NEW t \in Threads, LockedDequeue(t)
    PROVE  PoolInv'
<1> USE PoolAssumption DEF PoolInv
<1>a. pc[t] = "deq2" /\ qe[t] = NoTask
    BY DEF ControlInv, LockedDequeue
<1>b. \/ TakesHead(t, "post")
      \/ UNCHANGED <<queue, qe>> /\ pc'[t] # "exit"
    BY <1>a DEF LockedDequeue, Dequeue, Goto, TakesHead, TypeOK
<1>1. TypeOK'
  <2>1. queue # <<>> => /\ Head(queue) \in Tasks \cup {Poison}
                         /\ Tail(queue) \in Seq(Tasks \cup {Poison})
      BY HeadTail DEF TypeOK
  <2>2. queue' \in Seq(Tasks \cup {Poison})
      BY <2>1, <1>b DEF TypeOK, TakesHead
  <2>3. qe' \in [Threads -> Tasks \cup {Poison, NoTask}]
      BY <2>1, <1>b DEF TypeOK, TakesHead
  <2>4. /\ pc' \in [Threads \cup Clients -> ThreadPCs \cup {"idle"}]
        /\ mutex' \in Threads \cup {Nobody}
      BY DEF TypeOK, ThreadPCs, LockedDequeue, Dequeue, Goto
  <2> QED  BY <2>2, <2>3, <2>4 DEF TypeOK, LockedDequeue
<1>2. ControlInv'
    BY DEF TypeOK, ControlInv, AcceptInv, Locked, LockedDequeue, Goto, Dequeue
<1>3. OnceInv'
  <2>1. CASE TakesHead(t, "post")
      BY <2>1, <1>a, TakesHeadOnce
  <2>2. CASE UNCHANGED <<queue, qe>>
      BY <2>2, <1>a DEF TypeOK, OnceInv, LockedDequeue, Dequeue, Goto
  <2> QED  BY <1>b, <2>1, <2>2
<1>4. AcceptInv'
  <2>1. CASE TakesHead(t, "post")
      BY <2>1, <1>a, TakesHeadAccept
  <2>2. CASE UNCHANGED <<queue, qe>> /\ pc'[t] # "exit"
      BY <2>2, <1>a DEF TypeOK, AcceptInv, LockedDequeue, Dequeue, Goto
  <2> QED  BY <1>b, <2>1, <2>2
<1>5. WakeInv'
    BY DEF TypeOK, ControlInv, AcceptInv, WakeInv, Locked, LockedDequeue, Goto, Dequeue
<1>6. NoLostWakeup'
    BY DEF TypeOK, ControlInv, AcceptInv, WakeInv, NoLostWakeup, Awake, Locked, LockedDequeue, Goto, Dequeue
<1> QED  BY <1>1, <1>2, <1>3, <1>4, <1>5, <1>6 DEF PoolInv

(* Going to sleep.                                                         *)
LEMMA CondWaitKeeps ==
    ASSUME PoolInv, NEW t \in Threads, CondWait(t)
    PROVE  PoolInv'
<1> USE PoolAssumption, NumThreadsType DEF PoolInv, CondWait, Goto
<1>1. TypeOK'
    BY DEF TypeOK, ControlInv, ThreadPCs
<1>2. ControlInv'
    BY DEF TypeOK, ControlInv, AcceptInv, Locked
<1>3. OnceInv'
    BY DEF TypeOK, ControlInv, OnceInv
<1>4. AcceptInv'
    BY DEF TypeOK, ControlInv, OnceInv, AcceptInv
<1>5. WakeInv'
    BY DEF TypeOK, ControlInv, AcceptInv, WakeInv, Locked
<1>6. NoLostWakeup'
    BY DEF TypeOK, ControlInv, AcceptInv, WakeInv, NoLostWakeup, Awake, Locked
<1> QED  BY <1>1, <1>2, <1>3, <1>4, <1>5, <1>6 DEF PoolInv

(* Waking up without a signal.                                             *)
LEMMA SpuriousWakeupKeeps ==
    ASSUME PoolInv, NEW t \in Threads, SpuriousWakeup(t)
    PROVE  PoolInv'
<1> USE PoolAssumption, NumThreadsType DEF PoolInv, SpuriousWakeup, Goto
<1>1. TypeOK'
    BY DEF TypeOK, ControlInv, ThreadPCs
<1>2. ControlInv'
    BY DEF TypeOK, ControlInv, AcceptInv, Locked
<1>3. OnceInv'
    BY DEF TypeOK, ControlInv, OnceInv
<1>4. AcceptInv'
    BY DEF TypeOK, ControlInv, OnceInv, AcceptInv
<1>5. WakeInv'
    BY DEF TypeOK, ControlInv, AcceptInv, WakeInv, Locked
<1>6. NoLostWakeup'
    BY DEF TypeOK, ControlInv, AcceptInv, WakeInv, NoLostWakeup, Awake, Locked
<1> QED  BY <1>1, <1>2, <1>3, <1>4, <1>5, <1>6 DEF PoolInv

(* Waking up takes the mutex back.                                         *)
LEMMA CondReturnKeeps ==
    ASSUME PoolInv, NEW t \in Threads, CondReturn(t)
    PROVE  PoolInv'
<1> USE PoolAssumption, NumThreadsType DEF PoolInv, CondReturn, Goto
<1>1. TypeOK'
    BY DEF TypeOK, ControlInv, ThreadPCs
<1>2. ControlInv'
    BY DEF TypeOK, ControlInv, AcceptInv, Locked
<1>3. OnceInv'
    BY DEF TypeOK, ControlInv, OnceInv
<1>4. AcceptInv'
    BY DEF TypeOK, ControlInv, OnceInv, AcceptInv
<1>5. WakeInv'
    BY DEF TypeOK, ControlInv, AcceptInv, WakeInv, Locked
<1>6. NoLostWakeup'
    BY DEF TypeOK, ControlInv, AcceptInv, WakeInv, NoLostWakeup, Awake, Locked
<1> QED  BY <1>1, <1>2, <1>3, <1>4, <1>5, <1>6 DEF PoolInv

(* And gives it up.                                                        *)
LEMMA UnlockMutexKeeps ==
    ASSUME PoolInv, NEW t \in Threads, UnlockMutex(t)
    PROVE  PoolInv'
<1> USE PoolAssumption, NumThreadsType DEF PoolInv, UnlockMutex, Goto
<1>1. TypeOK'
    BY DEF TypeOK, ControlInv, ThreadPCs
<1>2. ControlInv'
    BY DEF TypeOK, ControlInv, AcceptInv, Locked
<1>3. OnceInv'
    BY DEF TypeOK, ControlInv, OnceInv
<1>4. AcceptInv'
    BY DEF TypeOK, ControlInv, OnceInv, AcceptInv
<1>5. WakeInv'
    BY DEF TypeOK, ControlInv, AcceptInv, WakeInv, Locked
<1>6. NoLostWakeup'
    BY DEF TypeOK, ControlInv, AcceptInv, WakeInv, NoLostWakeup, Awake, Locked
<1> QED  BY <1>1, <1>2, <1>3, <1>4, <1>5, <1>6 DEF PoolInv

(* The dequeue after a wakeup.                                             *)
LEMMA ThirdDequeueKeeps ==
    ASSUME PoolInv, NEW t \in Threads, ThirdDequeue(t)
    PROVE  PoolInv'
<1> USE PoolAssumption DEF PoolInv
<1>a. pc[t] = "deq3" /\ qe[t] = NoTask
    BY DEF ControlInv, ThirdDequeue
<1>b. \/ TakesHead(t, "post")
      \/ UNCHANGED <<queue, qe>> /\ pc'[t] # "exit"
    BY <1>a DEF ThirdDequeue, Dequeue, Goto, TakesHead, TypeOK
<1>1. TypeOK'
  <2>1. queue # <<>> => /\ Head(queue) \in Tasks \cup {Poison}
                         /\ Tail(queue) \in Seq(Tasks \cup {Poison})
      BY HeadTail DEF TypeOK
  <2>2. queue' \in Seq(Tasks \cup {Poison})
      BY <2>1, <1>b DEF TypeOK, TakesHead
  <2>3. qe' \in [Threads -> Tasks \cup {Poison, NoTask}]
      BY <2>1, <1>b DEF TypeOK, TakesHead
  <2>4. /\ pc' \in [Threads \cup Clients -> ThreadPCs \cup {"idle"}]
        /\ mutex' \in Threads \cup {Nobody}
      BY DEF TypeOK, ThreadPCs, ThirdDequeue, Dequeue, Goto
  <2> QED  BY <2>2, <2>3, <2>4 DEF TypeOK, ThirdDequeue
<1>2. ControlInv'
    BY DEF TypeOK, ControlInv, AcceptInv, Locked, ThirdDequeue, Goto, Dequeue
<1>3. OnceInv'
  <2>1. CASE TakesHead(t, "post")
      BY <2>1, <1>a, TakesHeadOnce
  <2>2. CASE UNCHANGED <<queue, qe>>
      BY <2>2, <1>a DEF TypeOK, OnceInv, ThirdDequeue, Dequeue, Goto
  <2> QED  BY <1>b, <2>1, <2>2
<1>4. AcceptInv'
  <2>1. CASE TakesHead(t, "post")
      BY <2>1, <1>a, TakesHeadAccept
  <2>2. CASE UNCHANGED <<queue, qe>> /\ pc'[t] # "exit"
      BY <2>2, <1>a DEF TypeOK, AcceptInv, ThirdDequeue, Dequeue, Goto
  <2> QED  BY <1>b, <2>1, <2>2
<1>5. WakeInv'
    BY DEF TypeOK, ControlInv, AcceptInv, WakeInv, Locked, ThirdDequeue, Goto, Dequeue
<1>6. NoLostWakeup'
    BY DEF TypeOK, ControlInv, AcceptInv, WakeInv, NoLostWakeup, Awake, Locked, ThirdDequeue, Goto, Dequeue
<1> QED  BY <1>1, <1>2, <1>3, <1>4, <1>5, <1>6 DEF PoolInv

(* The test at the end of the inner loop.                                  *)
LEMMA ReloadShutdownKeeps ==
    ASSUME PoolInv, NEW t \in Threads, ReloadShutdown(t)
    PROVE  PoolInv'
<1> USE PoolAssumption, NumThreadsType DEF PoolInv, ReloadShutdown, Goto
<1>1. TypeOK'
    BY DEF TypeOK, ControlInv, ThreadPCs
<1>2. ControlInv'
    BY DEF TypeOK, ControlInv, AcceptInv, Locked
<1>3. OnceInv'
    BY DEF TypeOK, ControlInv, OnceInv
<1>4. AcceptInv'
    BY DEF TypeOK, ControlInv, OnceInv, AcceptInv
<1>5. WakeInv'
    BY DEF TypeOK, ControlInv, AcceptInv, WakeInv, Locked
<1>6. NoLostWakeup'
    BY DEF TypeOK, ControlInv, AcceptInv, WakeInv, NoLostWakeup, Awake, Locked
<1> QED  BY <1>1, <1>2, <1>3, <1>4, <1>5, <1>6 DEF PoolInv

(* An element is run, or ends the thread.                                  *)
LEMMA DispatchKeeps ==
    ASSUME PoolInv, NEW t \in Threads, Dispatch(t)
    PROVE  PoolInv'
<1> USE PoolAssumption, NumThreadsType DEF PoolInv, Dispatch, Goto
<1>1. TypeOK'
    BY DEF TypeOK, ControlInv, ThreadPCs
<1>2. ControlInv'
    BY DEF TypeOK, ControlInv, AcceptInv, Locked
<1>3. OnceInv'
    BY DEF TypeOK, ControlInv, OnceInv
<1>4. AcceptInv'
    BY DEF TypeOK, ControlInv, OnceInv, AcceptInv
<1>5. WakeInv'
    BY DEF TypeOK, ControlInv, AcceptInv, WakeInv, Locked
<1>6. NoLostWakeup'
    BY DEF TypeOK, ControlInv, AcceptInv, WakeInv, NoLostWakeup, Awake, Locked
<1> QED  BY <1>1, <1>2, <1>3, <1>4, <1>5, <1>6 DEF PoolInv

(* The last dequeue after a shutdown.                                      *)
LEMMA DrainOrExitKeeps ==
    ASSUME PoolInv, NEW t \in Threads, DrainOrExit(t)
    PROVE  PoolInv'
<1> USE PoolAssumption DEF PoolInv
<1>a. pc[t] = "post" /\ qe[t] = NoTask /\ s[t] = 1 /\ shutdown = 1
    BY DEF ControlInv, DrainOrExit
<1>b. \/ TakesHead(t, "run")
      \/ queue = <<>> /\ UNCHANGED <<queue, qe>>
      \/ queue # <<>> /\ Head(queue) = Poison /\ queue' = Tail(queue) /\ UNCHANGED qe
    BY <1>a DEF DrainOrExit, Dequeue, Goto, TakesHead
<1>1. TypeOK'
  <2>1. queue # <<>> => /\ Head(queue) \in Tasks \cup {Poison}
                         /\ Tail(queue) \in Seq(Tasks \cup {Poison})
      BY HeadTail DEF TypeOK
  <2>2. queue' \in Seq(Tasks \cup {Poison})
      BY <2>1, <1>b DEF TypeOK, TakesHead
  <2>3. qe' \in [Threads -> Tasks \cup {Poison, NoTask}]
      BY <2>1, <1>b DEF TypeOK, TakesHead
  <2>4. /\ pc' \in [Threads \cup Clients -> ThreadPCs \cup {"idle"}]
        /\ mutex' \in Threads \cup {Nobody}
      BY DEF TypeOK, ThreadPCs, DrainOrExit, Dequeue, Goto
  <2> QED  BY <2>2, <2>3, <2>4 DEF TypeOK, DrainOrExit
<1>2. ControlInv'
    BY DEF TypeOK, ControlInv, AcceptInv, Locked, DrainOrExit, Goto, Dequeue
<1>3. OnceInv'
  <2>1. CASE TakesHead(t, "run")
      BY <2>1, <1>a, TakesHeadOnce
  <2>2. CASE UNCHANGED <<queue, qe>>
      BY <2>2, <1>a DEF TypeOK, OnceInv, DrainOrExit, Dequeue, Goto
  <2>3. CASE queue # <<>> /\ queue' = Tail(queue) /\ UNCHANGED qe
    <3>1. \A i \in DOMAIN queue' : i \in Nat /\ i + 1 \in DOMAIN queue /\ queue'[i] = queue[i + 1]
        BY <2>3, HeadTail DEF TypeOK
    <3>2. \A u \in Threads : qe[u] \in Tasks => pc'[u] = pc[u]
        BY <1>a DEF TypeOK, DrainOrExit, Dequeue, Goto
    <3>3. UNCHANGED <<submitted, runs>>
        BY DEF DrainOrExit
    <3> QED  BY <2>3, <3>1, <3>2, <3>3 DEF OnceInv
  <2> QED  BY <1>b, <2>1, <2>2, <2>3
<1>4. AcceptInv'
  <2>1. CASE TakesHead(t, "run")
      BY <2>1, <1>a, TakesHeadAccept
  <2>2. CASE queue = <<>> /\ UNCHANGED <<queue, qe>>
      BY <2>2, <1>a DEF TypeOK, AcceptInv, DrainOrExit, Dequeue, Goto
  <2>3. CASE queue # <<>> /\ Head(queue) = Poison /\ queue' = Tail(queue) /\ UNCHANGED qe
    <3>1. /\ queue[1] = Poison /\ 1 \in DOMAIN queue
          /\ \A i \in DOMAIN queue' : /\ i \in Nat \ {0} /\ i + 1 \in DOMAIN queue
                                      /\ queue'[i] = queue[i + 1]
          /\ \A i \in DOMAIN queue : i # 1 => /\ i - 1 \in DOMAIN queue'
                                              /\ queue'[i - 1] = queue[i]
        BY <2>3, HeadTail DEF TypeOK
    <3>2. /\ UNCHANGED <<shutdown, destroyer, accepted, runs>>
          /\ destroyer # "freed" /\ Poison \notin accepted
        BY <1>a DEF TypeOK, AcceptInv, DrainOrExit
    <3>3. \A i \in DOMAIN queue' : queue'[i] \notin accepted
        BY <3>1 DEF AcceptInv
    <3>4. \A k \in accepted : \/ runs[k] = 1
                              \/ \E i \in DOMAIN queue' : queue'[i] = k
                              \/ \E u \in Threads : qe[u] = k
        BY <3>1, <3>2 DEF AcceptInv
    <3> QED  BY <2>3, <1>a, <3>2, <3>3, <3>4 DEF AcceptInv
  <2> QED  BY <1>b, <2>1, <2>2, <2>3
<1>5. WakeInv'
    BY DEF TypeOK, ControlInv, AcceptInv, WakeInv, Locked, DrainOrExit, Goto, Dequeue
<1>6. NoLostWakeup'
    BY DEF TypeOK, ControlInv, AcceptInv, WakeInv, NoLostWakeup, Awake, Locked, DrainOrExit, Goto, Dequeue
<1> QED  BY <1>1, <1>2, <1>3, <1>4, <1>5, <1>6 DEF PoolInv

(* The task function is called once.                                       *)
LEMMA CallTaskKeeps ==
    ASSUME PoolInv, NEW t \in Threads, CallTask(t)
    PROVE  PoolInv'
<1> USE PoolAssumption, NumThreadsType DEF PoolInv, CallTask, Goto
<1>1. TypeOK'
    BY DEF TypeOK, ControlInv, ThreadPCs
<1>2. ControlInv'
    BY DEF TypeOK, ControlInv, AcceptInv, Locked
<1>3. OnceInv'
    BY DEF TypeOK, ControlInv, OnceInv
<1>4. AcceptInv'
  <2>1. \A k \in Tasks : runs'[k] = IF k = qe[t] THEN 1 ELSE runs[k]
      BY DEF TypeOK, ControlInv, OnceInv
  <2>2. \A k \in accepted : \/ runs'[k] = 1
                            \/ \E i \in DOMAIN queue : queue[i] = k
                            \/ \E u \in Threads : qe[u] = k
      BY <2>1 DEF TypeOK, AcceptInv
  <2> QED  BY <2>2 DEF TypeOK, AcceptInv
<1>5. WakeInv'
    BY DEF TypeOK, ControlInv, AcceptInv, WakeInv, Locked
<1>6. NoLostWakeup'
    BY DEF TypeOK, ControlInv, AcceptInv, WakeInv, NoLostWakeup, Awake, Locked
<1> QED  BY <1>1, <1>2, <1>3, <1>4, <1>5, <1>6 DEF PoolInv

(* The element is freed.                                                   *)
LEMMA FinishTaskKeeps ==
    ASSUME PoolInv, NEW t \in Threads, FinishTask(t)
    PROVE  PoolInv'
<1> USE PoolAssumption, NumThreadsType DEF PoolInv, FinishTask, Goto
<1>1. TypeOK'
    BY DEF TypeOK, ControlInv, ThreadPCs
<1>2. ControlInv'
    BY DEF TypeOK, ControlInv, AcceptInv, Locked
<1>3. OnceInv'
    BY DEF TypeOK, ControlInv, OnceInv
<1>4. AcceptInv'
    BY DEF TypeOK, ControlInv, OnceInv, AcceptInv
<1>5. WakeInv'
    BY DEF TypeOK, ControlInv, AcceptInv, WakeInv, Locked
<1>6. NoLostWakeup'
    BY DEF TypeOK, ControlInv, AcceptInv, WakeInv, NoLostWakeup, Awake, Locked
<1> QED  BY <1>1, <1>2, <1>3, <1>4, <1>5, <1>6 DEF PoolInv

(* A new task is behind everything that is queued.                         *)
LEMMA EnqueueTaskKeeps ==
    ASSUME PoolInv, NEW p \in Threads \cup Clients, NEW k \in Tasks,
           EnqueueTask(p, k)
    PROVE  PoolInv'
<1> USE PoolAssumption, NumThreadsType DEF PoolInv, EnqueueTask, Goto
<1>1. TypeOK'
    BY DEF TypeOK, ControlInv, ThreadPCs
<1>2. ControlInv'
    BY DEF TypeOK, ControlInv, AcceptInv, Locked
<1>3. OnceInv'
    BY DEF TypeOK, ControlInv, OnceInv
<1>4. AcceptInv'
  <2>1. /\ DOMAIN queue = 1..Len(queue) /\ Len(queue) \in Nat
        /\ DOMAIN queue' = 1..(Len(queue) + 1)
        /\ \A i \in DOMAIN queue : queue'[i] = queue[i]
        /\ queue'[Len(queue) + 1] = k
      BY AppendElements DEF TypeOK
  <2>2. /\ k # Poison /\ k \notin accepted
        /\ shutdown # 0 => accepted' = accepted
        /\ accepted' \subseteq accepted \cup {k}
        /\ \A i \in DOMAIN queue : queue[i] # k
        /\ \A t \in Threads : pc'[t] = "exit" => pc[t] = "exit"
      BY DEF TypeOK, OnceInv
  <2>3. destroyer # "freed"
      BY DEF AcceptInv, ControlInv
  <2>4. shutdown = 0 => /\ \A i \in DOMAIN queue' : queue'[i] # Poison
                        /\ \A t \in Threads : pc'[t] # "exit" /\ qe[t] # Poison
      BY <2>1, <2>2 DEF AcceptInv
  <2>5. \A i, j \in DOMAIN queue' :
            i < j /\ queue'[i] = Poison => queue'[j] \notin accepted'
    <3>1. CASE shutdown = 0
        BY <3>1, <2>4
    <3>2. CASE shutdown # 0
        BY <3>2, <2>1, <2>2 DEF AcceptInv
    <3> QED  BY <3>1, <3>2
  <2>6. \A t \in Threads : pc'[t] = "exit" \/ qe[t] = Poison =>
            \A i \in DOMAIN queue' : queue'[i] \notin accepted'
    <3>1. CASE shutdown = 0
        BY <3>1, <2>4
    <3>2. CASE shutdown # 0
        BY <3>2, <2>1, <2>2 DEF AcceptInv
    <3> QED  BY <3>1, <3>2
  <2>7. \A j \in accepted' : \/ runs[j] = 1
                             \/ \E i \in DOMAIN queue' : queue'[i] = j
                             \/ \E t \in Threads : qe[t] = j
      BY <2>1, <2>2 DEF AcceptInv
  <2> QED  BY <2>3, <2>4, <2>5, <2>6, <2>7 DEF AcceptInv
<1>5. WakeInv'
    BY DEF TypeOK, ControlInv, AcceptInv, WakeInv, Locked
<1>6. NoLostWakeup'
    BY DEF TypeOK, ControlInv, AcceptInv, WakeInv, NoLostWakeup, Awake, Locked
<1> QED  BY <1>1, <1>2, <1>3, <1>4, <1>5, <1>6 DEF PoolInv

(* The signal that follows finds a sleeper, or nobody sleeps.              *)
LEMMA WakeAnyOneThreadKeeps ==
    ASSUME PoolInv, NEW p \in Threads \cup Clients, WakeAnyOneThread(p)
    PROVE  PoolInv'
<1> USE PoolAssumption, NumThreadsType DEF PoolInv, WakeAnyOneThread, Goto
<1>1. TypeOK'
    BY DEF TypeOK, ControlInv, ThreadPCs
<1>2. ControlInv'
    BY DEF TypeOK, ControlInv, AcceptInv, Locked
<1>3. OnceInv'
    BY DEF TypeOK, ControlInv, OnceInv
<1>4. AcceptInv'
    BY DEF TypeOK, ControlInv, OnceInv, AcceptInv
<1>5. WakeInv'
    BY DEF TypeOK, ControlInv, AcceptInv, WakeInv, Locked
<1>6. NoLostWakeup'
    BY DEF TypeOK, ControlInv, AcceptInv, WakeInv, NoLostWakeup, Awake, Locked
<1> QED  BY <1>1, <1>2, <1>3, <1>4, <1>5, <1>6 DEF PoolInv

(* destroy_thread_pool is entered.                                         *)
LEMMA DestroyCallKeeps ==
    ASSUME PoolInv, DestroyCall
    PROVE  PoolInv'
<1> USE PoolAssumption, NumThreadsType DEF PoolInv, DestroyCall
<1>1. TypeOK'
    BY DEF TypeOK, ControlInv, ThreadPCs
<1>2. ControlInv'
    BY DEF TypeOK, ControlInv, AcceptInv, Locked
<1>3. OnceInv'
    BY DEF TypeOK, ControlInv, OnceInv
<1>4. AcceptInv'
    BY DEF TypeOK, ControlInv, OnceInv, AcceptInv
<1>5. WakeInv'
    BY DEF TypeOK, ControlInv, AcceptInv, WakeInv, Locked
<1>6. NoLostWakeup'
    BY DEF TypeOK, ControlInv, AcceptInv, WakeInv, NoLostWakeup, Awake, Locked
<1> QED  BY <1>1, <1>2, <1>3, <1>4, <1>5, <1>6 DEF PoolInv

(* _shutdown is set before the first poison.                               *)
LEMMA StoreShutdownKeeps ==
    ASSUME PoolInv, StoreShutdown
    PROVE  PoolInv'
<1> USE PoolAssumption, NumThreadsType DEF PoolInv, StoreShutdown
<1>1. TypeOK'
    BY DEF TypeOK, ControlInv, ThreadPCs
<1>2. ControlInv'
    BY DEF TypeOK, ControlInv, AcceptInv, Locked
<1>3. OnceInv'
    BY DEF TypeOK, ControlInv, OnceInv
<1>4. AcceptInv'
    BY DEF TypeOK, ControlInv, OnceInv, AcceptInv
<1>5. WakeInv'
    BY DEF TypeOK, ControlInv, AcceptInv, WakeInv, Locked
<1>6. NoLostWakeup'
    BY DEF TypeOK, ControlInv, AcceptInv, WakeInv, NoLostWakeup, Awake, Locked
<1> QED  BY <1>1, <1>2, <1>3, <1>4, <1>5, <1>6 DEF PoolInv

(* A poison is behind every accepted task.                                 *)
LEMMA EnqueuePoisonKeeps ==
    ASSUME PoolInv, EnqueuePoison
    PROVE  PoolInv'
<1> USE PoolAssumption, NumThreadsType DEF PoolInv, EnqueuePoison
<1>1. TypeOK'
    BY DEF TypeOK, ControlInv, ThreadPCs
<1>2. ControlInv'
    BY DEF TypeOK, ControlInv, AcceptInv, Locked
<1>3. OnceInv'
    BY DEF TypeOK, ControlInv, OnceInv
<1>4. AcceptInv'
  <2>1. /\ DOMAIN queue = 1..Len(queue) /\ Len(queue) \in Nat
        /\ DOMAIN queue' = 1..(Len(queue) + 1)
        /\ \A i \in DOMAIN queue : queue'[i] = queue[i]
        /\ queue'[Len(queue) + 1] = Poison
      BY AppendElements DEF TypeOK
  <2>2. Poison \notin accepted /\ shutdown # 0 /\ destroyer # "freed"
      BY DEF TypeOK, AcceptInv
  <2>3. \A i, j \in DOMAIN queue' :
            i < j /\ queue'[i] = Poison => queue'[j] \notin accepted
      BY <2>1, <2>2 DEF AcceptInv
  <2>4. \A t \in Threads : pc[t] = "exit" \/ qe[t] = Poison =>
            \A i \in DOMAIN queue' : queue'[i] \notin accepted
      BY <2>1, <2>2 DEF AcceptInv
  <2>5. \A k \in accepted : \/ runs[k] = 1
                            \/ \E i \in DOMAIN queue' : queue'[i] = k
                            \/ \E t \in Threads : qe[t] = k
      BY <2>1 DEF AcceptInv
  <2> QED  BY <2>2, <2>3, <2>4, <2>5 DEF AcceptInv
<1>5. WakeInv'
    BY DEF TypeOK, ControlInv, AcceptInv, WakeInv, Locked
<1>6. NoLostWakeup'
    BY DEF TypeOK, ControlInv, AcceptInv, WakeInv, NoLostWakeup, Awake, Locked
<1> QED  BY <1>1, <1>2, <1>3, <1>4, <1>5, <1>6 DEF PoolInv

(* Nobody can be between its last look at the queue and its sleep here.    *)
LEMMA BroadcastKeeps ==
    ASSUME PoolInv, Broadcast
    PROVE  PoolInv'
<1> USE PoolAssumption, NumThreadsType DEF PoolInv, Broadcast
<1>1. TypeOK'
    BY DEF TypeOK, ControlInv, ThreadPCs
<1>2. ControlInv'
    BY DEF TypeOK, ControlInv, AcceptInv, Locked
<1>3. OnceInv'
    BY DEF TypeOK, ControlInv, OnceInv
<1>4. AcceptInv'
    BY DEF TypeOK, ControlInv, OnceInv, AcceptInv
<1>5. WakeInv'
    BY DEF TypeOK, ControlInv, AcceptInv, WakeInv, Locked
<1>6. NoLostWakeup'
    BY DEF TypeOK, ControlInv, AcceptInv, WakeInv, NoLostWakeup, Awake, Locked
<1> QED  BY <1>1, <1>2, <1>3, <1>4, <1>5, <1>6 DEF PoolInv

(* Every thread has left, so no accepted task is queued any more.          *)
LEMMA JoinAndFreeKeeps ==
    ASSUME PoolInv, JoinAndFree
    PROVE  PoolInv'
<1> USE PoolAssumption, NumThreadsType DEF PoolInv, JoinAndFree
<1>1. TypeOK'
    BY DEF TypeOK, ControlInv, ThreadPCs
<1>2. ControlInv'
    BY DEF TypeOK, ControlInv, AcceptInv, Locked
<1>3. OnceInv'
    BY DEF TypeOK, ControlInv, OnceInv
<1>4. AcceptInv'
    BY DEF TypeOK, ControlInv, OnceInv, AcceptInv
<1>5. WakeInv'
    BY DEF TypeOK, ControlInv, AcceptInv, WakeInv, Locked
<1>6. NoLostWakeup'
    BY DEF TypeOK, ControlInv, AcceptInv, WakeInv, NoLostWakeup, Awake, Locked
<1> QED  BY <1>1, <1>2, <1>3, <1>4, <1>5, <1>6 DEF PoolInv

-----------------------------------------------------------------------------
(* The invariant                                                           *)

(* The pool that init_thread_pool returns satisfies the invariant.         *)
LEMMA InitPoolInv == Init => PoolInv
<1> SUFFICES ASSUME Init PROVE PoolInv
    OBVIOUS
<1> USE PoolAssumption, NumThreadsType DEF Init
<1>1. TypeOK
    BY DEF TypeOK, ThreadPCs
<1>2. ControlInv
    BY DEF ControlInv, Locked
<1>3. OnceInv
    BY DEF OnceInv
<1>4. AcceptInv
    BY DEF AcceptInv
<1>5. WakeInv /\ NoLostWakeup
    BY DEF WakeInv, NoLostWakeup
<1> QED  BY <1>1, <1>2, <1>3, <1>4, <1>5 DEF PoolInv

(* A step that changes nothing keeps it.                                   *)
LEMMA StutterKeeps == ASSUME PoolInv, UNCHANGED vars PROVE PoolInv'
  BY DEF PoolInv, TypeOK, ControlInv, OnceInv, AcceptInv, WakeInv,
         NoLostWakeup, Awake, vars

(* Every step of a thread, a client or the destroyer keeps it.             *)
LEMMA NextPoolInv == PoolInv /\ [Next]_vars => PoolInv'
<1> SUFFICES ASSUME PoolInv, [Next]_vars PROVE PoolInv'
    OBVIOUS
<1>1. ASSUME NEW t \in Threads, thread_loop(t) \/ SpuriousWakeup(t)
      PROVE  PoolInv'
    BY <1>1, LoadShutdownKeeps, FirstDequeueKeeps, LockMutexKeeps,
       RecheckShutdownKeeps, LockedDequeueKeeps, CondWaitKeeps,
       SpuriousWakeupKeeps, CondReturnKeeps, UnlockMutexKeeps,
       ThirdDequeueKeeps, ReloadShutdownKeeps, DispatchKeeps,
       DrainOrExitKeeps, CallTaskKeeps, FinishTaskKeeps DEF thread_loop
<1>2. ASSUME NEW p \in Threads \cup Clients,
             (\E k \in Tasks : EnqueueTask(p, k)) \/ WakeAnyOneThread(p)
      PROVE  PoolInv'
    BY <1>2, EnqueueTaskKeeps, WakeAnyOneThreadKeeps
<1>3. CASE destroy_thread_pool
    BY <1>3, DestroyCallKeeps, StoreShutdownKeeps, EnqueuePoisonKeeps,
       BroadcastKeeps, JoinAndFreeKeeps DEF destroy_thread_pool
<1>4. CASE Gone \/ UNCHANGED vars
    BY <1>4, StutterKeeps DEF Gone
<1> QED  BY <1>1, <1>2, <1>3, <1>4 DEF Next

(* PoolInv holds in every reachable state of thread_pool.c, whatever the   *)
(* number of threads, clients and tasks.                                   *)
THEOREM PoolInvariant == Spec => []PoolInv
<1>1. Init => PoolInv
    BY InitPoolInv
<1>2. PoolInv /\ [Next]_vars => PoolInv'
    BY NextPoolInv
<1> QED  BY <1>1, <1>2, PTL DEF Spec

(* Every variable of the pool keeps its type.                              *)
THEOREM TypeCorrect == Spec => []TypeOK
<1>1. PoolInv => TypeOK
    BY DEF PoolInv
<1> QED  BY <1>1, PoolInvariant, PTL

(* thread_loop never runs a task twice.                                    *)
THEOREM TasksRunAtMostOnce == Spec => []RunAtMostOnce
<1>1. PoolInv => RunAtMostOnce
    BY DEF PoolInv, OnceInv, RunAtMostOnce
<1> QED  BY <1>1, PoolInvariant, PTL

(* When destroy_thread_pool has freed the pool every task enqueued before  *)
(* _shutdown was set has been run.                                         *)
THEOREM DestroyLosesNoTask == Spec => []DestroyRunsAccepted
<1>1. PoolInv => DestroyRunsAccepted
  <2> SUFFICES ASSUME PoolInv, destroyer = "freed", NEW k \in accepted
               PROVE  runs[k] = 1
      BY DEF DestroyRunsAccepted
  <2>1. queue = <<>> /\ \A t \in Threads : pc[t] = "exit"
      BY DEF PoolInv, AcceptInv
  <2>2. \A t \in Threads : qe[t] = NoTask
      BY <2>1 DEF PoolInv, ControlInv
  <2> QED  BY <2>1, <2>2, PoolAssumption DEF PoolInv, AcceptInv, TypeOK
<1> QED  BY <1>1, PoolInvariant, PTL

(* EV_ABORT("Dequeued element cannot be NULL. ") is never reached, and no  *)
(* thread leaves the loop before the shutdown.                             *)
THEOREM NullElementNeverMet == Spec => []NoNullElement
<1>1. PoolInv => NoNullElement
    BY DEF PoolInv, TypeOK, ControlInv, AcceptInv, NoNullElement
<1> QED  BY <1>1, PoolInvariant, PTL

(* With a task in the queue the pool never sleeps as a whole: the mutex    *)
(* makes the last dequeue before the sleep and the signal after an enqueue *)
(* exclude each other.                                                     *)
THEOREM WakeupsAreNotLost == Spec => []NoLostWakeup
<1>1. PoolInv => NoLostWakeup
    BY DEF PoolInv
<1> QED  BY <1>1, PoolInvariant, PTL

=============================================================================
