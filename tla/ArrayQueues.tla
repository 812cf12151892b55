---------------------------- MODULE ArrayQueues -----------------------------
(***************************************************************************)
(* The queues of evds/ that spread their items over an array of N lists:   *)
(*   "p"   ev_pqueue: tickets; the k-th enqueue and the k-th dequeue meet  *)
(*         in list k % N, guards keep the calls on a list in ticket order; *)
(*   "pa"  ev_paqueue: lists as in ev_queue, a dequeue takes from the next *)
(*         list that is not empty;                                         *)
(*   "mpi" ev_mpiqueue: lists under a mutex that is only ever tried;       *)
(*   "pi"  ev_piqueue: lists that are ev_queues, taken with try_dequeue.   *)
(* A behaviour is about one of them, named by kind.  A step is one atomic  *)
(* access, one access to a shared plain variable, or one critical section. *)
(* The lists of mpi and pi are sequences; lock[i] is mpi's mutex and the   *)
(* mark a try_dequeue of pi has on the list's head (see EvQueue).          *)
(***************************************************************************)
EXTENDS Integers, Sequences, FiniteSets

CONSTANTS Kinds,       \* the queues to check
          Lists,       \* the argument n of create
          Enqueuers, Dequeuers,  \* threads
          Nodes, Null, \* addresses of list nodes
          None, Empty, \* a dequeue's answer while it runs, and NULL
          MaxItems,    \* bound: enqueues, of p and pa
          MaxShared,   \* bound: enqueues, of mpi and pi
          MaxIndex     \* bound: how far st_index may run ahead of its wrap

ASSUME ArrayAssumption ==
    /\ Kinds \subseteq {"p", "pa", "mpi", "pi"}
    /\ Lists \in Int /\ Lists <= 1073741824
    /\ Enqueuers \cap Dequeuers = {}
    /\ Null \notin Nodes
    /\ None # Empty /\ {None, Empty} \cap Nat = {}
    /\ {MaxItems, MaxShared, MaxIndex} \subseteq Nat

VARIABLES kind,
          head, mark, tail,  \* per list: head, its low bit, tail
          node, heap,        \* list nodes and those allocated
          q, lock,           \* per list of mpi and pi
          enq_counter, deq_counter, ub_count, lb_count, e_guard, d_guard,
          st_index, st_dindex,   \* the static counters of mpi and pi
          t,           \* per thread: its program counter and locals
          made,        \* items given to enqueue so far
          put, took,   \* history, per list: items put and taken, in order
          given,       \* history: items returned by a dequeue
          line,        \* history, per list of p and pa: the nodes from the one that is,
                       \* or is about to be, head to the one that is tail
          uaf, wild    \* a freed node was used; gl_array[N] was used

lists == <<head, mark, tail, node, heap, line>>
slots == <<q, lock, st_index, st_dindex>>
cnts  == <<enq_counter, deq_counter, ub_count, lb_count, e_guard, d_guard>>
hist  == <<made, put, took, given, uaf, wild>>
vars  == <<kind, lists, slots, cnts, t, hist>>

Threads == Enqueuers \cup Dequeuers

(* The powers of 2 that an int holds.                                      *)
Powers == {1, 2, 4, 8, 16, 32, 64, 128, 256, 512, 1024, 2048, 4096, 8192, 16384, 32768,
           65536, 131072, 262144, 524288, 1048576, 2097152, 4194304, 8388608, 16777216,
           33554432, 67108864, 134217728, 268435456, 536870912, 1073741824}

(* get_nearest_power_of_2                                                  *)
N == CHOOSE k \in Powers : k >= Lists /\ \A j \in Powers : j >= Lists => k <= j
Index == 0 .. N - 1

Idle == [pc |-> "idle", idx |-> 0, cnt |-> 0, item |-> 0, n |-> Null, next |-> Null,
         tries |-> 0, res |-> None, alone |-> FALSE]

Init ==
    /\ kind \in Kinds
    /\ head = [i \in Index |-> Null]
    /\ mark = [i \in Index |-> FALSE]
    /\ tail = [i \in Index |-> Null]
    /\ node = [n \in Nodes |-> [next |-> Null, item |-> 0]]
    /\ heap = {}
    /\ q = [i \in Index |-> <<>>]
    /\ lock = [i \in Index |-> FALSE]
    /\ enq_counter = 0 /\ deq_counter = 0 /\ ub_count = 0 /\ lb_count = 0
    /\ e_guard = [i \in Index |-> i - N]
    /\ d_guard = [i \in Index |-> i - N]
    /\ st_index = 0 /\ st_dindex = 0
    /\ t = [c \in Threads |-> Idle]
    /\ made = 0
    /\ put = [i \in Index |-> <<>>]
    /\ took = [i \in Index |-> <<>>]
    /\ given = {}
    /\ line = [i \in Index |-> <<>>]
    /\ uaf = FALSE /\ wild = FALSE

At(c, label) == ~wild /\ t[c].pc = label
I(c)         == t[c].idx
Touch(n)     == uaf' = (uaf \/ n \notin heap)
Set(c, r)    == t' = [t EXCEPT ![c] = r]
(* History: the first node leaves its list.                                *)
TakenOff(c) == line' = [line EXCEPT ![I(c)] = Tail(@)]
Goto(c, label) == Set(c, [t[c] EXCEPT !.pc = label])

(* A call begins.  History: alone says that no other call ran during this  *)
(* one (ImplementsFifo says more for ev_pqueue).                           *)
Enter(c, r) ==
    t' = [b \in Threads |->
            IF b = c
            THEN [r EXCEPT !.alone = kind # "p" /\ \A a \in Threads \ {c} : t[a].pc = "idle"]
            ELSE [t[b] EXCEPT !.alone = FALSE]]

(* A dequeue returns; the model keeps its answer where a property asks.    *)
Answer(c, r) == LET keep == kind = "p" \/ (r = Empty /\ t[c].alone)
                IN  Set(c, [Idle EXCEPT !.res = IF keep THEN r ELSE None,
                                        !.alone = keep /\ t[c].alone])

-----------------------------------------------------------------------------
(* What ev_pqueue and ev_paqueue have in common: nodes behind a tail.      *)

SwapTail(c, label) ==
    /\ At(c, "swap")
    /\ tail' = [tail EXCEPT ![I(c)] = t[c].n]
    /\ put' = [put EXCEPT ![I(c)] = Append(@, t[c].item)]
    /\ line' = [line EXCEPT ![I(c)] = Append(@, t[c].n)]
    /\ Set(c, [t[c] EXCEPT !.next = tail[I(c)], !.pc = label])
    /\ UNCHANGED <<kind, head, mark, node, heap, slots, cnts, made, took, given, uaf, wild>>

LinkNode(c) ==
    /\ At(c, "link")
    /\ IF t[c].next # Null
       THEN /\ node' = [node EXCEPT ![t[c].next].next = t[c].n]
            /\ Touch(t[c].next)
            /\ UNCHANGED <<head, mark>>
       ELSE /\ head' = [head EXCEPT ![I(c)] = t[c].n]
            /\ mark' = [mark EXCEPT ![I(c)] = FALSE]
            /\ UNCHANGED <<node, uaf>>
    /\ Set(c, Idle)
    /\ UNCHANGED <<kind, tail, heap, line, slots, cnts, made, put, took, given, wild>>

(* The taken node's data is read and the node freed.                       *)
FreeNode(c) ==
    /\ At(c, "free")
    /\ Touch(t[c].n)
    /\ heap' = heap \ {t[c].n}
    /\ Answer(c, node[t[c].n].item)
    /\ given' = given \cup {node[t[c].n].item}
    /\ UNCHANGED <<kind, head, mark, tail, node, line, slots, cnts, made, put, took, wild>>

(* The node's successor is awaited when a concurrent enqueue owes the link.*)
AwaitNext(c, label) ==
    /\ At(c, "await")
    /\ node[t[c].n].next # Null
    /\ Touch(t[c].n)
    /\ Set(c, [t[c] EXCEPT !.next = node[t[c].n].next, !.pc = label])
    /\ UNCHANGED <<kind, lists, slots, cnts, made, put, took, given, wild>>

Took(c) == took' = [took EXCEPT ![I(c)] = Append(@, node[t[c].n].item)]

-----------------------------------------------------------------------------
(* ev_pqueue                                                               *)

PEnqAnnounce(c) ==
    /\ kind = "p" /\ At(c, "idle") /\ made < MaxItems
    /\ made' = made + 1
    /\ ub_count' = ub_count + 1
    /\ Enter(c, [Idle EXCEPT !.pc = "ticket", !.item = made + 1])
    /\ UNCHANGED <<kind, lists, slots, enq_counter, deq_counter, lb_count, e_guard, d_guard,
                   put, took, given, uaf, wild>>

PEnqTicket(c) ==
    /\ At(c, "ticket")
    /\ enq_counter' = enq_counter + 1
    /\ Set(c, [t[c] EXCEPT !.pc = "permit", !.cnt = enq_counter, !.idx = enq_counter % N])
    /\ UNCHANGED <<kind, lists, slots, deq_counter, ub_count, lb_count, e_guard, d_guard, hist>>

PEnqPermit(c) ==
    /\ At(c, "permit")
    /\ lb_count' = lb_count + 1
    /\ \E n \in Nodes \ heap :
          /\ heap' = heap \cup {n}
          /\ node' = [node EXCEPT ![n] = [next |-> Null, item |-> t[c].item]]
          /\ Set(c, [t[c] EXCEPT !.pc = "e_enter", !.n = n])
    /\ UNCHANGED <<kind, head, mark, tail, line, slots, enq_counter, deq_counter, ub_count,
                   e_guard, d_guard, hist>>

(* Mutant: a list's enqueues do not wait for their turn.                   *)
FIFO_enter_NoWait(c) ==
    /\ At(c, "e_enter")
    /\ Goto(c, "swap")
    /\ UNCHANGED <<kind, lists, slots, cnts, hist>>

FIFO_enter(c) ==
    /\ At(c, "e_enter")
    /\ e_guard[I(c)] = t[c].cnt - N
    /\ Goto(c, "swap")
    /\ UNCHANGED <<kind, lists, slots, cnts, hist>>

FIFO_exit(c) ==
    /\ At(c, "e_exit")
    /\ e_guard' = [e_guard EXCEPT ![I(c)] = t[c].cnt]
    /\ Goto(c, "link")
    /\ UNCHANGED <<kind, lists, slots, enq_counter, deq_counter, ub_count, lb_count, d_guard, hist>>

enqueue_ev_pqueue(c) ==
    \/ PEnqAnnounce(c) \/ PEnqTicket(c) \/ PEnqPermit(c) \/ FIFO_enter(c)
    \/ kind = "p" /\ SwapTail(c, "e_exit")
    \/ FIFO_exit(c)
    \/ kind = "p" /\ LinkNode(c)

PDeqCall(c) ==
    /\ kind = "p" /\ At(c, "idle")
    /\ Enter(c, [Idle EXCEPT !.pc = "test"])
    /\ UNCHANGED <<kind, lists, slots, cnts, hist>>

(* test_dec_retest of lb_count: load, decrement, and undo if it was gone.  *)
PTestPermits(c) ==
    /\ At(c, "test")
    /\ Goto(c, IF lb_count > 0 THEN "dec" ELSE "ub")
    /\ UNCHANGED <<kind, lists, slots, cnts, hist>>

(* Mutant: the count before the decrement is taken for the one after it.   *)
PTakePermit_OffByOne(c) ==
    /\ At(c, "dec")
    /\ lb_count' = lb_count - 1
    /\ Goto(c, IF lb_count <= 1 THEN "undo" ELSE "d_ticket")
    /\ UNCHANGED <<kind, lists, slots, enq_counter, deq_counter, ub_count, e_guard, d_guard, hist>>

PTakePermit(c) ==
    /\ At(c, "dec")
    /\ lb_count' = lb_count - 1
    /\ Goto(c, IF lb_count <= 0 THEN "undo" ELSE "d_ticket")
    /\ UNCHANGED <<kind, lists, slots, enq_counter, deq_counter, ub_count, e_guard, d_guard, hist>>

PUndoPermit(c) ==
    /\ At(c, "undo")
    /\ lb_count' = lb_count + 1
    /\ Goto(c, "ub")
    /\ UNCHANGED <<kind, lists, slots, enq_counter, deq_counter, ub_count, e_guard, d_guard, hist>>

(* ev_pqueue_is_empty says so only when no item is announced.              *)
PTestAnnounced(c) ==
    /\ At(c, "ub")
    /\ IF ub_count > 0 THEN Goto(c, "test") ELSE Answer(c, Empty)
    /\ UNCHANGED <<kind, lists, slots, cnts, hist>>

PDeqTicket(c) ==
    /\ At(c, "d_ticket")
    /\ deq_counter' = deq_counter + 1
    /\ Set(c, [t[c] EXCEPT !.pc = "less", !.cnt = deq_counter, !.idx = deq_counter % N])
    /\ UNCHANGED <<kind, lists, slots, enq_counter, ub_count, lb_count, e_guard, d_guard, hist>>

PDeqLess(c) ==
    /\ At(c, "less")
    /\ ub_count' = ub_count - 1
    /\ Goto(c, "d_enter")
    /\ UNCHANGED <<kind, lists, slots, enq_counter, deq_counter, lb_count, e_guard, d_guard, hist>>

dequeue_FIFO_enter(c) ==
    /\ At(c, "d_enter")
    /\ d_guard[I(c)] = t[c].cnt - N
    /\ Goto(c, "d_head")
    /\ UNCHANGED <<kind, lists, slots, cnts, hist>>

PDeqHead(c) ==
    /\ At(c, "d_head")
    /\ head[I(c)] # Null
    /\ Set(c, [t[c] EXCEPT !.pc = "d_next", !.n = head[I(c)]])
    /\ UNCHANGED <<kind, lists, slots, cnts, hist>>

PDeqNext(c) ==
    /\ At(c, "d_next")
    /\ Touch(t[c].n)
    /\ Set(c, [t[c] EXCEPT !.pc = "d_set", !.next = node[t[c].n].next])
    /\ UNCHANGED <<kind, lists, slots, cnts, made, put, took, given, wild>>

PDeqSetHead(c) ==
    /\ At(c, "d_set")
    /\ head' = [head EXCEPT ![I(c)] = t[c].next]
    /\ Took(c)
    /\ IF t[c].next = Null THEN Goto(c, "d_cas") /\ UNCHANGED line
                           ELSE Goto(c, "d_exit") /\ TakenOff(c)
    /\ UNCHANGED <<kind, mark, tail, node, heap, slots, cnts, made, put, given, uaf, wild>>

PDeqCasTail(c) ==
    /\ At(c, "d_cas")
    /\ tail' = [tail EXCEPT ![I(c)] = IF @ = t[c].n THEN Null ELSE @]
    /\ IF tail[I(c)] = t[c].n THEN Goto(c, "d_exit") /\ TakenOff(c)
                              ELSE Goto(c, "await") /\ UNCHANGED line
    /\ UNCHANGED <<kind, head, mark, node, heap, slots, cnts, hist>>

PDeqResetHead(c) ==
    /\ At(c, "d_reset")
    /\ head' = [head EXCEPT ![I(c)] = t[c].next]
    /\ TakenOff(c)
    /\ Goto(c, "d_exit")
    /\ UNCHANGED <<kind, mark, tail, node, heap, slots, cnts, hist>>

dequeue_FIFO_exit(c) ==
    /\ At(c, "d_exit")
    /\ d_guard' = [d_guard EXCEPT ![I(c)] = t[c].cnt]
    /\ Goto(c, "free")
    /\ UNCHANGED <<kind, lists, slots, enq_counter, deq_counter, ub_count, lb_count, e_guard, hist>>

dequeue_ev_pqueue(c) ==
    \/ PDeqCall(c) \/ PTestPermits(c) \/ PTakePermit(c) \/ PUndoPermit(c) \/ PTestAnnounced(c)
    \/ PDeqTicket(c) \/ PDeqLess(c) \/ dequeue_FIFO_enter(c)
    \/ PDeqHead(c) \/ PDeqNext(c) \/ PDeqSetHead(c) \/ PDeqCasTail(c)
    \/ kind = "p" /\ AwaitNext(c, "d_reset")
    \/ PDeqResetHead(c) \/ dequeue_FIFO_exit(c)
    \/ kind = "p" /\ FreeNode(c)

-----------------------------------------------------------------------------
(* ev_paqueue                                                              *)

PaEnqSlot(c) ==
    /\ kind = "pa" /\ At(c, "idle") /\ made < MaxItems
    /\ made' = made + 1
    /\ enq_counter' = enq_counter + 1
    /\ \E n \in Nodes \ heap :
          /\ heap' = heap \cup {n}
          /\ node' = [node EXCEPT ![n] = [next |-> Null, item |-> made + 1]]
          /\ Enter(c, [Idle EXCEPT !.pc = "swap", !.item = made + 1, !.n = n,
                                   !.idx = enq_counter % N])
    /\ UNCHANGED <<kind, head, mark, tail, line, slots, deq_counter, ub_count, lb_count, e_guard,
                   d_guard, put, took, given, uaf, wild>>

enqueue_evpaq(c) == \/ PaEnqSlot(c)
                    \/ kind = "pa" /\ SwapTail(c, "link")
                    \/ kind = "pa" /\ LinkNode(c)

PaDeqSlot(c) ==
    /\ kind = "pa" /\ At(c, "idle")
    /\ deq_counter' = (deq_counter + 1) % N
    /\ Enter(c, [Idle EXCEPT !.pc = "tail", !.idx = deq_counter % N])
    /\ UNCHANGED <<kind, lists, slots, enq_counter, ub_count, lb_count, e_guard, d_guard, hist>>

(* The loop goes on with the next list.                                    *)
NextList(c, tries) == [t[c] EXCEPT !.pc = "tail", !.n = Null, !.tries = tries,
                                   !.idx = (@ + 1) % N]

(* Mutant: the search gives up one list early.                             *)
PaLoadTail_OneLess(c) ==
    /\ At(c, "tail")
    /\ IF tail[I(c)] # Null
       THEN Set(c, [t[c] EXCEPT !.pc = "head", !.tries = 0])
       ELSE IF t[c].tries + 1 < N - 1
            THEN Set(c, NextList(c, t[c].tries + 1))
            ELSE Answer(c, Empty)
    /\ UNCHANGED <<kind, lists, slots, cnts, hist>>

PaLoadTail(c) ==
    /\ At(c, "tail")
    /\ IF tail[I(c)] # Null
       THEN Set(c, [t[c] EXCEPT !.pc = "head", !.tries = 0])
       ELSE IF t[c].tries + 1 < N
            THEN Set(c, NextList(c, t[c].tries + 1))
            ELSE Answer(c, Empty)
    /\ UNCHANGED <<kind, lists, slots, cnts, hist>>

PaLoadHead(c) ==
    /\ At(c, "head")
    /\ Set(c, IF head[I(c)] # Null /\ ~mark[I(c)]
              THEN [t[c] EXCEPT !.pc = "mark", !.n = head[I(c)]]
              ELSE NextList(c, 0))
    /\ UNCHANGED <<kind, lists, slots, cnts, hist>>

PaMarkHead(c) ==
    /\ At(c, "mark")
    /\ IF head[I(c)] = t[c].n /\ ~mark[I(c)]
       THEN mark' = [mark EXCEPT ![I(c)] = TRUE] /\ Goto(c, "next") /\ Took(c)
       ELSE Set(c, NextList(c, 0)) /\ UNCHANGED <<mark, took>>
    /\ UNCHANGED <<kind, head, tail, node, heap, line, slots, cnts, made, put, given, uaf, wild>>

PaLoadNext(c) ==
    /\ At(c, "next")
    /\ Touch(t[c].n)
    /\ Set(c, [t[c] EXCEPT !.pc = "check", !.next = node[t[c].n].next])
    /\ UNCHANGED <<kind, lists, slots, cnts, made, put, took, given, wild>>

(* With no tail the call returns NULL and leaves the head marked.          *)
PaCheckTail(c) ==
    /\ At(c, "check")
    /\ IF tail[I(c)] = Null THEN Answer(c, Empty)
       ELSE Goto(c, IF t[c].next = Null THEN "cas" ELSE "move")
    /\ UNCHANGED <<kind, lists, slots, cnts, hist>>

(* Mutant: the dequeuer does not wait for the link it found missing.       *)
PaCasTail_NoWait(c) ==
    /\ At(c, "cas")
    /\ tail' = [tail EXCEPT ![I(c)] = IF @ = t[c].n THEN Null ELSE @]
    /\ IF tail[I(c)] = t[c].n THEN TakenOff(c) ELSE UNCHANGED line
    /\ Goto(c, "move")
    /\ UNCHANGED <<kind, head, mark, node, heap, slots, cnts, hist>>

PaCasTail(c) ==
    /\ At(c, "cas")
    /\ tail' = [tail EXCEPT ![I(c)] = IF @ = t[c].n THEN Null ELSE @]
    /\ IF tail[I(c)] = t[c].n THEN Goto(c, "move") /\ TakenOff(c)
                              ELSE Goto(c, "await") /\ UNCHANGED line
    /\ UNCHANGED <<kind, head, mark, node, heap, slots, cnts, hist>>

(* Fails, without harm, when an enqueue has already stored a new head.     *)
PaMoveHead(c) ==
    /\ At(c, "move")
    /\ IF head[I(c)] = t[c].n /\ mark[I(c)]
       THEN /\ head' = [head EXCEPT ![I(c)] = t[c].next]
            /\ mark' = [mark EXCEPT ![I(c)] = FALSE]
            /\ IF t[c].next # Null THEN TakenOff(c) ELSE UNCHANGED line
       ELSE UNCHANGED <<head, mark, line>>
    /\ Goto(c, "free")
    /\ UNCHANGED <<kind, tail, node, heap, slots, cnts, hist>>

dequeue_evpaq(c) ==
    \/ PaDeqSlot(c) \/ PaLoadTail(c) \/ PaLoadHead(c) \/ PaMarkHead(c)
    \/ PaLoadNext(c) \/ PaCheckTail(c) \/ PaCasTail(c)
    \/ kind = "pa" /\ AwaitNext(c, "move")
    \/ PaMoveHead(c)
    \/ kind = "pa" /\ FreeNode(c)

-----------------------------------------------------------------------------
(* ev_mpiqueue and ev_piqueue choose the list with the plain static        *)
(* variable st_index, which several threads read and write.                *)

IndexCall(c) ==
    /\ kind \in {"mpi", "pi"} /\ At(c, "idle") /\ made < MaxShared
    /\ made' = made + 1
    /\ Enter(c, [Idle EXCEPT !.pc = IF kind = "mpi" THEN "wrap" ELSE "index",
                             !.item = made + 1])
    /\ UNCHANGED <<kind, lists, slots, cnts, put, took, given, uaf, wild>>

(* st_index = st_index % N: a load and a store.                            *)
IndexWrap(c) ==
    /\ At(c, "wrap")
    /\ Set(c, [t[c] EXCEPT !.pc = "store", !.cnt = st_index % N])
    /\ UNCHANGED <<kind, lists, slots, cnts, hist>>

IndexStore(c) ==
    /\ At(c, "store")
    /\ st_index' = t[c].cnt
    /\ Set(c, IF kind = "pi" THEN Idle ELSE [t[c] EXCEPT !.pc = "index", !.cnt = 0])
    /\ UNCHANGED <<kind, lists, q, lock, st_dindex, cnts, hist>>

(* gl_array[st_index]: another thread may have left N there for a moment.  *)
IndexLoad(c) ==
    /\ At(c, "index")
    /\ wild' = (st_index \notin Index)
    /\ Set(c, [t[c] EXCEPT !.pc = IF kind = "mpi" THEN "trylock" ELSE "append",
                           !.idx = st_index])
    /\ UNCHANGED <<kind, lists, slots, cnts, made, put, took, given, uaf>>

(* st_index++: a load and a store.                                         *)
IndexNext(c) ==
    /\ At(c, "bump") /\ st_index < MaxIndex
    /\ Set(c, [t[c] EXCEPT !.pc = "bumped", !.cnt = st_index + 1])
    /\ UNCHANGED <<kind, lists, slots, cnts, hist>>

IndexBumped(c) ==
    /\ At(c, "bumped")
    /\ st_index' = t[c].cnt
    /\ Set(c, [t[c] EXCEPT !.pc = "wrap", !.cnt = 0, !.idx = 0])
    /\ UNCHANGED <<kind, lists, q, lock, st_dindex, cnts, hist>>

Appended(c) == /\ q' = [q EXCEPT ![I(c)] = Append(@, t[c].item)]
               /\ put' = [put EXCEPT ![I(c)] = Append(@, t[c].item)]

(* basic_enqueue of mpi: the mutex is tried, never waited for.             *)
MpiTryLock(c) ==
    /\ At(c, "trylock")
    /\ lock' = [lock EXCEPT ![I(c)] = TRUE]
    /\ Goto(c, IF lock[I(c)] THEN "bump" ELSE "append")
    /\ UNCHANGED <<kind, lists, q, st_index, st_dindex, cnts, hist>>

MpiAppend(c) ==
    /\ kind = "mpi" /\ At(c, "append")
    /\ Appended(c)
    /\ lock' = [lock EXCEPT ![I(c)] = FALSE]
    /\ Set(c, Idle)
    /\ UNCHANGED <<kind, lists, st_index, st_dindex, cnts, made, took, given, uaf, wild>>

enqueue_ev_mpiqueue(c) == MpiTryLock(c) \/ MpiAppend(c)

(* enqueue of an ev_queue: one step, as FifoQueue has it.                  *)
PiAppend(c) ==
    /\ kind = "pi" /\ At(c, "append")
    /\ Appended(c)
    /\ Goto(c, "bump")
    /\ UNCHANGED <<kind, lists, lock, st_index, st_dindex, cnts, made, took, given, uaf, wild>>

IndexSteps(c) == \/ IndexCall(c) \/ IndexWrap(c) \/ IndexStore(c)
                 \/ IndexLoad(c) \/ IndexNext(c) \/ IndexBumped(c)

(* A dequeue looks at list after list; i counts the empty ones.            *)
MpiDeqCall(c) ==
    /\ kind = "mpi" /\ At(c, "idle")
    /\ Enter(c, [Idle EXCEPT !.pc = "try"])
    /\ UNCHANGED <<kind, lists, slots, cnts, hist>>

(* st_dindex++ is a load and a store, and only its remainder is used.      *)
PiDeqCall(c) ==
    /\ kind = "pi" /\ At(c, "idle")
    /\ Enter(c, [Idle EXCEPT !.pc = "d_bump", !.idx = st_dindex])
    /\ UNCHANGED <<kind, lists, slots, cnts, hist>>

PiDeqBump(c) ==
    /\ At(c, "d_bump")
    /\ \E v \in {st_dindex, I(c)} : st_dindex' = (v + 1) % N
    /\ Goto(c, "try")
    /\ UNCHANGED <<kind, lists, q, lock, st_index, cnts, hist>>

Advance(c, tries) ==
    IF tries = N THEN Answer(c, Empty)
    ELSE Set(c, [t[c] EXCEPT !.pc = "try", !.tries = tries, !.idx = (@ + 1) % N])

(* What a busy list does to i: nothing in mpi, restart the round in pi.    *)
ListBusy(c) == Advance(c, IF kind = "mpi" THEN t[c].tries ELSE 1)

(* pthread_mutex_trylock, or the marking of the list's head.               *)
TryList(c) ==
    /\ At(c, "try")
    /\ \/ /\ lock[I(c)]
          /\ ListBusy(c)
          /\ UNCHANGED lock
       \/ /\ ~lock[I(c)] /\ (kind = "pi" => q[I(c)] # <<>>)
          /\ lock' = [lock EXCEPT ![I(c)] = TRUE]
          /\ Goto(c, "take")
       \/ /\ ~lock[I(c)] /\ kind = "pi" /\ q[I(c)] = <<>>
          /\ Advance(c, t[c].tries + 1)
          /\ UNCHANGED lock
    /\ UNCHANGED <<kind, lists, q, st_index, st_dindex, cnts, hist>>

(* Mutant: the item is copied out but stays in the list.                   *)
TakeFromList_Keeps(c) ==
    /\ At(c, "take")
    /\ lock' = [lock EXCEPT ![I(c)] = FALSE]
    /\ IF q[I(c)] = <<>>
       THEN Advance(c, t[c].tries + 1) /\ UNCHANGED <<took, given>>
       ELSE /\ took' = [took EXCEPT ![I(c)] = Append(@, Head(q[I(c)]))]
            /\ Answer(c, Head(q[I(c)]))
            /\ given' = given \cup {Head(q[I(c)])}
    /\ UNCHANGED <<kind, lists, q, st_index, st_dindex, cnts, made, put, uaf, wild>>

TakeFromList(c) ==
    /\ At(c, "take")
    /\ lock' = [lock EXCEPT ![I(c)] = FALSE]
    /\ IF q[I(c)] = <<>>
       THEN Advance(c, t[c].tries + 1) /\ UNCHANGED <<q, took, given>>
       ELSE /\ q' = [q EXCEPT ![I(c)] = Tail(@)]
            /\ took' = [took EXCEPT ![I(c)] = Append(@, Head(q[I(c)]))]
            /\ Answer(c, Head(q[I(c)]))
            /\ given' = given \cup {Head(q[I(c)])}
    /\ UNCHANGED <<kind, lists, st_index, st_dindex, cnts, made, put, uaf, wild>>

ListSteps(c) == \/ MpiDeqCall(c) \/ PiDeqCall(c) \/ PiDeqBump(c)
                \/ TryList(c) \/ TakeFromList(c)

-----------------------------------------------------------------------------

Enqueue(c) == \/ enqueue_ev_pqueue(c) \/ enqueue_evpaq(c)
              \/ IndexSteps(c) \/ enqueue_ev_mpiqueue(c) \/ PiAppend(c)

Dequeue(c) == dequeue_ev_pqueue(c) \/ dequeue_evpaq(c) \/ ListSteps(c)

(* An array index out of bounds ends what the model can say.               *)
Lost == wild /\ UNCHANGED vars

Next == \/ \E c \in Enqueuers : Enqueue(c)
        \/ \E c \in Dequeuers : Dequeue(c)
        \/ Lost

Spec == Init /\ [][Next]_vars

(* A call that has begun is carried on with, and dequeuers call again and  *)
(* again.                                                                  *)
FairSpec == /\ Spec
            /\ \A c \in Enqueuers : WF_vars(t[c].pc # "idle" /\ Enqueue(c))
            /\ \A c \in Dequeuers : WF_vars(Dequeue(c))

-----------------------------------------------------------------------------

(* Each list gives out the items put into it once each and in their order, *)
(* whoever puts and takes meanwhile: none is lost, doubled or overtaken.   *)
ListsInOrder == \A i \in Index : /\ Len(took[i]) <= Len(put[i])
                                 /\ took[i] = SubSeq(put[i], 1, Len(took[i]))

(* No node is touched after it was freed: a dequeuer frees its node only   *)
(* when no enqueuer still owes it a link.                                  *)
NoUseAfterFree == ~uaf

(* A dequeue that ran with no other call in progress answers NULL only     *)
(* when every list is empty; callers that drain a queue rely on it.        *)
EmptyWhenAlone ==
    \A c \in Dequeuers :
       t[c].res = Empty /\ t[c].alone /\ (\A b \in Threads : t[b].pc = "idle")
         => \A i \in Index : Len(took[i]) = Len(put[i])

(* The items of ev_pqueue whose ticket is drawn and not yet called for, in *)
(* ticket order.                                                           *)
Drawn(k) == {c \in Enqueuers : t[c].cnt = k /\ t[c].pc \in {"permit", "e_enter", "swap"}}
Held(k) == IF Drawn(k) # {} THEN t[CHOOSE c \in Drawn(k) : TRUE].item
           ELSE IF k \div N < Len(put[k % N]) THEN put[k % N][k \div N + 1] ELSE 0
Waiting == IF kind # "p" THEN <<>>
           ELSE [j \in 1 .. enq_counter - deq_counter |-> Held(deq_counter + j - 1)]

(* A dequeue's answer is settled when it draws its ticket.                 *)
Settled(c) == IF kind # "p" \/ t[c].pc \in {"test", "dec", "undo", "ub", "d_ticket"} THEN None
              ELSE IF t[c].pc = "idle" THEN t[c].res
              ELSE Held(t[c].cnt)

Fifo == INSTANCE FifoQueue WITH Takers <- Dequeuers, TryTakers <- {}, Items <- 1 .. MaxItems,
                                Busy <- None, items <- Waiting,
                                taken <- [c \in Dequeuers |-> Settled(c)]

(* ev_pqueue as a whole is a FIFO queue: the k-th enqueue and the k-th     *)
(* dequeue meet, and NULL is answered only when the queue is empty.        *)
ImplementsFifo == Fifo!Spec

(* Every item put is returned in the end, if dequeuers keep calling: no guard,*)
(* mark, count or lock stays behind that would stop them.                  *)
ItemsAreTaken ==
    []<>(wild \/ \A i \in Index : \A j \in 1 .. Len(put[i]) : put[i][j] \in given)
=============================================================================
