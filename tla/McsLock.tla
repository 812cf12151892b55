------------------------------ MODULE McsLock ------------------------------
(***************************************************************************)
(* The queue lock of evsync/ev_mcs_lock.c, one action per atomic access.   *)
(* Nodes are addresses of the allocator: a freed one may come back as the  *)
(* node of another thread.                                                 *)
(***************************************************************************)
EXTENDS Naturals, Sequences, FiniteSets

CONSTANTS Procs,   \* the threads that share the lock
          Nodes,   \* addresses malloc can return (bounds the heap)
          Null     \* the address 0

ASSUME McsAssumption == Null \notin Nodes

VARIABLES tail,    \* *tail
          next,    \* per node
          locked,  \* per node
          heap,    \* the nodes that are allocated
          pc,      \* per thread: the next access; "inside" holds the lock
          ptr,     \* per thread: its node, the access ticket
          pred,    \* per thread: the node it found at the tail
          uaf,     \* an access hit a node that was not allocated
          line     \* history: the threads that hold or wait for the lock, in
                   \* the order of their exchanges of tail

vars == <<tail, next, locked, heap, pc, ptr, pred, uaf, line>>

(* mcs_init.                                                               *)
Init ==
    /\ tail = Null
    /\ next = [n \in Nodes |-> Null]
    /\ locked = [n \in Nodes |-> 0]
    /\ heap = {}
    /\ pc = [p \in Procs |-> "idle"]
    /\ ptr = [p \in Procs |-> Null]
    /\ pred = [p \in Procs |-> Null]
    /\ uaf = FALSE
    /\ line = <<>>

Goto(p, label) == pc' = [pc EXCEPT ![p] = label]
Touch(n)       == uaf' = (uaf \/ n \notin heap)

-----------------------------------------------------------------------------
(* mcs_get_access                                                          *)

Alloc(p) ==
    /\ pc[p] = "idle"
    /\ \E n \in Nodes \ heap :
          /\ heap' = heap \cup {n}
          /\ ptr' = [ptr EXCEPT ![p] = n]
          /\ next' = [next EXCEPT ![n] = Null]
          /\ locked' = [locked EXCEPT ![n] = 0]
    /\ Goto(p, "swap")
    /\ UNCHANGED <<tail, pred, uaf, line>>

SwapTail(p) ==
    /\ pc[p] = "swap"
    /\ pred' = [pred EXCEPT ![p] = tail]
    /\ tail' = ptr[p]
    /\ Goto(p, IF tail = Null THEN "inside" ELSE "set_locked")
    /\ line' = Append(line, p)
    /\ UNCHANGED <<next, locked, heap, ptr, uaf>>

(* Mutant: the node is linked before it is marked as locked.               *)
SetLocked_Skipped(p) ==
    /\ pc[p] = "set_locked"
    /\ Goto(p, "link")
    /\ UNCHANGED <<tail, next, locked, heap, ptr, pred, uaf, line>>

SetLocked(p) ==
    /\ pc[p] = "set_locked"
    /\ locked' = [locked EXCEPT ![ptr[p]] = 1]
    /\ Touch(ptr[p])
    /\ Goto(p, "link")
    /\ UNCHANGED <<tail, next, heap, ptr, pred, line>>

Link(p) ==
    /\ pc[p] = "link"
    /\ next' = [next EXCEPT ![pred[p]] = ptr[p]]
    /\ Touch(pred[p])
    /\ Goto(p, "wait")
    /\ UNCHANGED <<tail, locked, heap, ptr, pred, line>>

(* The loads that find the node locked change nothing.                     *)
WaitUnlocked(p) ==
    /\ pc[p] = "wait"
    /\ locked[ptr[p]] = 0
    /\ Touch(ptr[p])
    /\ Goto(p, "inside")
    /\ UNCHANGED <<tail, next, locked, heap, ptr, pred, line>>

mcs_get_access(p) == \/ Alloc(p) \/ SwapTail(p) \/ SetLocked(p) \/ Link(p)
                     \/ WaitUnlocked(p)

-----------------------------------------------------------------------------
(* mcs_relinquish                                                          *)

LoadNext(p) ==
    /\ pc[p] = "inside"
    /\ Touch(ptr[p])
    /\ Goto(p, IF next[ptr[p]] = Null THEN "cas_tail" ELSE "wait_next")
    /\ UNCHANGED <<tail, next, locked, heap, ptr, pred, line>>

(* Mutant: a node without successor is freed whatever tail says.           *)
CasTail_Blind(p) ==
    /\ pc[p] = "cas_tail"
    /\ tail' = IF tail = ptr[p] THEN Null ELSE tail
    /\ Goto(p, "free")
    /\ line' = Tail(line)
    /\ UNCHANGED <<next, locked, heap, ptr, pred, uaf>>

CasTail(p) ==
    /\ pc[p] = "cas_tail"
    /\ IF tail = ptr[p]
       THEN tail' = Null /\ line' = Tail(line) /\ Goto(p, "free")
       ELSE Goto(p, "wait_next") /\ UNCHANGED <<tail, line>>
    /\ UNCHANGED <<next, locked, heap, ptr, pred, uaf>>

(* The loads that find next still 0 change nothing.                        *)
WaitNext(p) ==
    /\ pc[p] = "wait_next"
    /\ next[ptr[p]] # Null
    /\ Touch(ptr[p])
    /\ Goto(p, "hand_over")
    /\ UNCHANGED <<tail, next, locked, heap, ptr, pred, line>>

(* Mutant: the thread unlocks its own node.                                *)
HandOver_Self(p) ==
    /\ pc[p] = "hand_over"
    /\ locked' = [locked EXCEPT ![ptr[p]] = 0]
    /\ Touch(ptr[p])
    /\ Goto(p, "free")
    /\ line' = Tail(line)
    /\ UNCHANGED <<tail, next, heap, ptr, pred>>

HandOver(p) ==
    /\ pc[p] = "hand_over"
    /\ locked' = [locked EXCEPT ![next[ptr[p]]] = 0]
    /\ uaf' = (uaf \/ {ptr[p], next[ptr[p]]} \cap heap # {ptr[p], next[ptr[p]]})
    /\ Goto(p, "free")
    /\ line' = Tail(line)
    /\ UNCHANGED <<tail, next, heap, ptr, pred>>

Free(p) ==
    /\ pc[p] = "free"
    /\ heap' = heap \ {ptr[p]}
    /\ ptr' = [ptr EXCEPT ![p] = Null]
    /\ pred' = [pred EXCEPT ![p] = Null]
    /\ Touch(ptr[p])
    /\ Goto(p, "idle")
    /\ UNCHANGED <<tail, next, locked, line>>

mcs_relinquish(p) == \/ LoadNext(p) \/ CasTail(p) \/ WaitNext(p)
                     \/ HandOver(p) \/ Free(p)

Next == \E p \in Procs : mcs_get_access(p) \/ mcs_relinquish(p)

(* A thread inside a call, or holding the lock, goes on; nobody has to ask *)
(* for the lock.                                                           *)
Fairness == \A p \in Procs :
    WF_vars((mcs_get_access(p) /\ pc[p] # "idle") \/ mcs_relinquish(p))

Spec     == Init /\ [][Next]_vars
FairSpec == Spec /\ Fairness

-----------------------------------------------------------------------------
Holding == {p \in Procs : pc[p] \in {"inside", "cas_tail", "wait_next", "hand_over"}}

Ticket == INSTANCE TicketLine WITH inside <- Holding

-----------------------------------------------------------------------------
(* A node is freed only when no other thread will write to it: not the     *)
(* successor that links itself, not the predecessor that unlocks it.       *)
NoUseAfterFree == ~uaf

(* The lock is given in the order of the exchanges of tail: nobody is      *)
(* overtaken.                                                              *)
ServesInOrder == Ticket!Spec

(* Every thread that asks for the lock gets it.                            *)
EveryoneEnters == \A p \in Procs : pc[p] = "swap" ~> pc[p] = "inside"

=============================================================================
