------------------------------ MODULE EvQueue ------------------------------
(***************************************************************************)
(* The lock-free linked-list queue of evds/ev_queue.c, one action per      *)
(* atomic access to shared memory.  Nodes are addresses of the allocator:  *)
(* a freed node may be handed out again, so a stale address can come back  *)
(* to life.  An abort() or a failed assert() ends the process: crash then  *)
(* names the line that ended it and nothing moves any more.                *)
(***************************************************************************)
EXTENDS Naturals, Sequences

CONSTANTS Enqueuers,      \* threads that call enqueue
          Dequeuers,      \* threads that call dequeue, for ever
          TryDequeuers,   \* threads that call try_dequeue, for ever
          Nodes,          \* addresses malloc can return (bounds the heap)
          MaxEnqueues,    \* bound: enqueue calls made by each enqueuer
          Null,           \* the address 0
          None, Empty, Busy  \* outcomes of a dequeue that is no item

Takers == Dequeuers \cup TryDequeuers
Procs  == Enqueuers \cup Takers
Items  == Enqueuers \X (1..MaxEnqueues)

ASSUME QueueAssumption ==
    /\ Enqueuers \cap Takers = {}
    /\ Dequeuers \cap TryDequeuers = {}
    /\ Null \notin Nodes
    /\ MaxEnqueues \in Nat

VARIABLES
    head,     \* [node, marked]: the low bit of the address is the claim mark
    tail,     \* the last node, Null when the queue is empty
    mem,      \* contents of every node
    heap,     \* the nodes that are allocated
    pc,       \* per thread: the next access, "idle" between calls
    ptr,      \* enqueue: the new node; dequeue: the node claimed (old_h)
    other,    \* enqueue: old_tail; dequeue: next
    count,    \* per enqueuer: calls made
    result,   \* per taker: outcome of the current or last call
    crash,    \* "none" or the check that called abort()
    uaf,      \* an access hit a node that was not allocated
    line      \* history: the nodes from the one that is, or is about to be,
              \* head to the one that is tail, linked already or not

vars == <<head, tail, mem, heap, pc, ptr, other, count, result, crash, uaf,
          line>>

Init ==
    /\ head = [node |-> Null, marked |-> FALSE]
    /\ tail = Null
    /\ mem = [n \in Nodes |->
                [data |-> Null, next |-> Null, inflight |-> 0, magic |-> "FREED"]]
    /\ heap = {}
    /\ pc = [p \in Procs |-> "idle"]
    /\ ptr = [p \in Procs |-> Null]
    /\ other = [p \in Procs |-> Null]
    /\ count = [p \in Enqueuers |-> 0]
    /\ result = [p \in Takers |-> None]
    /\ crash = "none"
    /\ uaf = FALSE
    /\ line = <<>>

At(p, label)   == crash = "none" /\ pc[p] = label
Goto(p, label) == pc' = [pc EXCEPT ![p] = label]
Touch(n)       == uaf' = (uaf \/ n \notin heap)
Abort(why)     == crash' = why

-----------------------------------------------------------------------------
(* enqueue                                                                 *)

EnqAlloc(p) ==
    /\ At(p, "idle")
    /\ count[p] < MaxEnqueues
    /\ \E n \in Nodes \ heap :
          /\ heap' = heap \cup {n}
          /\ ptr' = [ptr EXCEPT ![p] = n]
          /\ mem' = [mem EXCEPT ![n] = [data |-> <<p, count[p] + 1>>, next |-> Null,
                                        inflight |-> 0, magic |-> "LIVE"]]
    /\ count' = [count EXCEPT ![p] = @ + 1]
    /\ Goto(p, "swap")
    /\ UNCHANGED <<head, tail, other, result, crash, uaf, line>>

EnqSwapTail(p) ==
    /\ At(p, "swap")
    /\ other' = [other EXCEPT ![p] = tail]
    /\ tail' = ptr[p]
    /\ line' = Append(line, ptr[p])
    /\ Goto(p, IF tail = Null THEN "sethead" ELSE "inflight")
    /\ UNCHANGED <<head, mem, heap, ptr, count, result, crash, uaf>>

EnqSetInflight(p) ==
    /\ At(p, "inflight")
    /\ mem' = [mem EXCEPT ![other[p]].inflight = 1]
    /\ Touch(other[p])
    /\ Goto(p, "magic")
    /\ UNCHANGED <<head, tail, heap, ptr, other, count, result, crash, line>>

EnqCheckMagic(p) ==
    /\ At(p, "magic")
    /\ Touch(other[p])
    /\ IF mem[other[p]].magic = "LIVE"
       THEN Goto(p, "link") /\ UNCHANGED crash
       ELSE Abort("enqueue_magic") /\ UNCHANGED pc
    /\ UNCHANGED <<head, tail, mem, heap, ptr, other, count, result, line>>

EnqLink(p) ==
    /\ At(p, "link")
    /\ mem' = [mem EXCEPT ![other[p]].next = ptr[p]]
    /\ Touch(other[p])
    /\ Goto(p, "clear")
    /\ UNCHANGED <<head, tail, heap, ptr, other, count, result, crash, line>>

EnqClearInflight(p) ==
    /\ At(p, "clear")
    /\ mem' = [mem EXCEPT ![other[p]].inflight = 0]
    /\ Touch(other[p])
    /\ Goto(p, "idle")
    /\ ptr' = [ptr EXCEPT ![p] = Null]
    /\ other' = [other EXCEPT ![p] = Null]
    /\ UNCHANGED <<head, tail, heap, count, result, crash, line>>

EnqSetHead(p) ==
    /\ At(p, "sethead")
    /\ head' = [node |-> ptr[p], marked |-> FALSE]
    /\ Goto(p, "idle")
    /\ ptr' = [ptr EXCEPT ![p] = Null]
    /\ UNCHANGED <<tail, mem, heap, other, count, result, crash, uaf, line>>

enqueue(p) == \/ EnqAlloc(p)
              \/ EnqSwapTail(p)
              \/ EnqSetInflight(p)
              \/ EnqCheckMagic(p)
              \/ EnqLink(p)
              \/ EnqClearInflight(p)
              \/ EnqSetHead(p)

-----------------------------------------------------------------------------
(* dequeue and try_dequeue                                                 *)

Return(p, r) == /\ result' = [result EXCEPT ![p] = r]
                /\ Goto(p, "idle")
                /\ ptr' = [ptr EXCEPT ![p] = Null]
                /\ other' = [other EXCEPT ![p] = Null]

(* What an attempt that got nowhere does: dequeue starts over, try_dequeue *)
(* gives up with r.                                                        *)
RetryOrReturn(p, r) ==
    IF p \in TryDequeuers
    THEN Return(p, r)
    ELSE Goto(p, "tail") /\ UNCHANGED <<result, ptr, other>>

DeqCall(p) ==
    /\ At(p, "idle")
    /\ result' = [result EXCEPT ![p] = None]
    /\ Goto(p, "tail")
    /\ UNCHANGED <<head, tail, mem, heap, ptr, other, count, crash, uaf, line>>

DeqLoadTail(p) ==
    /\ At(p, "tail")
    /\ IF tail = Null
       THEN Return(p, Empty)
       ELSE Goto(p, "head") /\ UNCHANGED <<result, ptr, other>>
    /\ UNCHANGED <<head, tail, mem, heap, count, crash, uaf, line>>

DeqLoadHead(p) ==
    /\ At(p, "head")
    /\ \/ /\ head.node = Null
          /\ RetryOrReturn(p, Empty)
       \/ /\ head.node # Null /\ head.marked
          /\ RetryOrReturn(p, Busy)
       \/ /\ head.node # Null /\ ~head.marked
          /\ ptr' = [ptr EXCEPT ![p] = head.node]
          /\ Goto(p, "mark")
          /\ UNCHANGED <<other, result>>
    /\ UNCHANGED <<head, tail, mem, heap, count, crash, uaf, line>>

DeqMarkHead(p) ==
    /\ At(p, "mark")
    /\ IF head = [node |-> ptr[p], marked |-> FALSE]
       THEN /\ head' = [head EXCEPT !.marked = TRUE]
            /\ Goto(p, "next")
            /\ UNCHANGED <<ptr, other, result>>
       ELSE /\ RetryOrReturn(p, Busy)
            /\ UNCHANGED head
    /\ UNCHANGED <<tail, mem, heap, count, crash, uaf, line>>

DeqLoadNext(p) ==
    /\ At(p, "next")
    /\ other' = [other EXCEPT ![p] = mem[ptr[p]].next]
    /\ Touch(ptr[p])
    /\ Goto(p, "asserttail")
    /\ UNCHANGED <<head, tail, mem, heap, ptr, count, result, crash, line>>

DeqAssertTail(p) ==
    /\ At(p, "asserttail")
    /\ IF tail = Null
       THEN IF p \in TryDequeuers
            THEN Return(p, Empty) /\ UNCHANGED crash
            ELSE Abort("assert_tail") /\ UNCHANGED <<pc, ptr, other, result>>
       ELSE /\ Goto(p, IF other[p] = Null THEN "castail" ELSE "cashead")
            /\ UNCHANGED <<ptr, other, result, crash>>
    /\ UNCHANGED <<head, tail, mem, heap, count, uaf, line>>

DeqCasTail(p) ==
    /\ At(p, "castail")
    /\ IF tail = ptr[p]
       THEN tail' = Null /\ line' = Tail(line) /\ Goto(p, "cashead")
       ELSE Goto(p, "spin") /\ UNCHANGED <<tail, line>>
    /\ UNCHANGED <<head, mem, heap, ptr, other, count, result, crash, uaf>>

(* Mutant: next is not waited for.                                         *)
DeqSpinNext_NoWait(p) ==
    /\ At(p, "spin")
    /\ other' = [other EXCEPT ![p] = mem[ptr[p]].next]
    /\ Touch(ptr[p])
    /\ Goto(p, "cashead")
    /\ UNCHANGED <<head, tail, mem, heap, ptr, count, result, crash, line>>

(* The loop that waits for the enqueuer behind this node to link itself;   *)
(* the turns that find next still 0 change nothing.                        *)
DeqSpinNext(p) ==
    /\ At(p, "spin")
    /\ mem[ptr[p]].next # Null
    /\ other' = [other EXCEPT ![p] = mem[ptr[p]].next]
    /\ Touch(ptr[p])
    /\ Goto(p, "cashead")
    /\ UNCHANGED <<head, tail, mem, heap, ptr, count, result, crash, line>>

(* Mutant: the mark is carried over to the new head.                       *)
DeqCasHead_KeepsMark(p) ==
    /\ At(p, "cashead")
    /\ IF head = [node |-> ptr[p], marked |-> TRUE]
       THEN /\ head' = [node |-> other[p], marked |-> TRUE]
            /\ line' = IF other[p] = Null THEN line ELSE Tail(line)
            /\ Goto(p, IF p \in TryDequeuers THEN "free" ELSE "checkinflight")
            /\ UNCHANGED crash
       ELSE Abort("head_CAS") /\ UNCHANGED <<head, line, pc>>
    /\ UNCHANGED <<tail, mem, heap, ptr, other, count, result, uaf>>

DeqCasHead(p) ==
    /\ At(p, "cashead")
    /\ IF head = [node |-> ptr[p], marked |-> TRUE]
       THEN /\ head' = [node |-> other[p], marked |-> FALSE]
            /\ line' = IF other[p] = Null THEN line ELSE Tail(line)
            /\ Goto(p, IF p \in TryDequeuers THEN "free" ELSE "checkinflight")
            /\ UNCHANGED crash
       ELSE Abort("head_CAS") /\ UNCHANGED <<head, line, pc>>
    /\ UNCHANGED <<tail, mem, heap, ptr, other, count, result, uaf>>

(* Mutant: the node is freed whether or not an enqueuer is still in it.    *)
DeqCheckInflight_Skipped(p) ==
    /\ At(p, "checkinflight")
    /\ Goto(p, "free")
    /\ UNCHANGED <<head, tail, mem, heap, ptr, other, count, result, crash, uaf, line>>

DeqCheckInflight(p) ==
    /\ At(p, "checkinflight")
    /\ Touch(ptr[p])
    /\ IF mem[ptr[p]].inflight = 0
       THEN Goto(p, "free") /\ UNCHANGED crash
       ELSE Abort("inflight") /\ UNCHANGED pc
    /\ UNCHANGED <<head, tail, mem, heap, ptr, other, count, result, line>>

(* dequeue checks the magic word and overwrites the node before free;      *)
(* try_dequeue frees it as it is.  Only the thread that unlinked a node    *)
(* still reads its data, so reading it is part of this step.               *)
DeqFree(p) ==
    /\ At(p, "free")
    /\ Touch(ptr[p])
    /\ IF p \in Dequeuers /\ mem[ptr[p]].magic # "LIVE"
       THEN /\ Abort("dequeue_magic")
            /\ UNCHANGED <<mem, heap, pc, ptr, other, result>>
       ELSE /\ heap' = heap \ {ptr[p]}
            /\ mem' = IF p \in TryDequeuers THEN mem
                      ELSE [mem EXCEPT ![ptr[p]].magic = "FREED"]
            /\ Return(p, mem[ptr[p]].data)
            /\ UNCHANGED crash
    /\ UNCHANGED <<head, tail, count, line>>

dequeue(p) == \/ DeqCall(p)
              \/ DeqLoadTail(p)
              \/ DeqLoadHead(p)
              \/ DeqMarkHead(p)
              \/ DeqLoadNext(p)
              \/ DeqAssertTail(p)
              \/ DeqCasTail(p)
              \/ DeqSpinNext(p)
              \/ DeqCasHead(p)
              \/ DeqCheckInflight(p)
              \/ DeqFree(p)

Crashed == crash # "none" /\ UNCHANGED vars

Next == \/ \E p \in Enqueuers : enqueue(p)
        \/ \E p \in Takers : dequeue(p)
        \/ Crashed

(* The scheduler runs every thread that is inside a call.                  *)
Fairness == /\ \A p \in Enqueuers : WF_vars(enqueue(p))
            /\ \A p \in Takers : WF_vars(dequeue(p))

Spec     == Init /\ [][Next]_vars
FairSpec == Spec /\ Fairness

-----------------------------------------------------------------------------
(* The queue as its callers see it                                         *)

ClaimPCs == {"next", "asserttail", "castail", "spin", "cashead",
             "checkinflight", "free"}

(* The nodes of the line nobody has claimed: all of them, or all but the   *)
(* first when it is the head and marked.                                   *)
QueuedNodes ==
    IF head.marked /\ line # <<>> /\ line[1] = head.node THEN Tail(line) ELSE line

QueuedItems == [i \in DOMAIN QueuedNodes |-> mem[QueuedNodes[i]].data]

Outcome == [p \in Takers |->
              IF pc[p] \in ClaimPCs THEN mem[ptr[p]].data ELSE result[p]]

Fifo == INSTANCE FifoQueue WITH Takers <- Dequeuers, TryTakers <- TryDequeuers,
                                items <- QueuedItems, taken <- Outcome

-----------------------------------------------------------------------------
(* enqueue and dequeue behave as a FIFO queue whose put is the exchange of *)
(* tail in enqueue and whose take is the CAS that marks head: no item is   *)
(* lost, doubled or overtaken, and dequeue answers NULL only when the      *)
(* queue was empty at its load of tail, even when addresses are reused.    *)
ImplementsFifo == Fifo!Spec

(* No thread reads or writes a node after it was freed: the inflight check *)
(* in dequeue is what keeps free() behind the enqueuer that still writes   *)
(* to its predecessor.                                                     *)
NoUseAfterFree == ~uaf

(* Every dequeue and try_dequeue returns, or the process aborts: nobody    *)
(* spins for ever on a mark, a zero head or a zero next.                   *)
CallsReturn ==
    \A p \in Takers : pc[p] # "idle" ~> (pc[p] = "idle" \/ crash # "none")

(* Every item that entered the queue is taken, or the process aborts.      *)
QueueDrains == QueuedNodes # <<>> ~> (QueuedNodes = <<>> \/ crash # "none")

=============================================================================
