----------------------------- MODULE FifoQueue -----------------------------
(***************************************************************************)
(* What a queue of evds/ promises its callers: items leave in the order    *)
(* they came in, each exactly once.  A caller in TryTakers uses the        *)
(* non-blocking form, which may come back with nothing (Empty or           *)
(* Busy)   although items are present; a caller in Takers is told Empty    *)
(* only when the queue is empty.                                           *)
(***************************************************************************)
EXTENDS Sequences

CONSTANTS Takers,     \* callers of the blocking form
          TryTakers,  \* callers of the non-blocking form
          Items,      \* what may be put into the queue
          None, Empty, Busy  \* outcomes of a call that is no item

VARIABLES items,      \* the items put and not yet taken, oldest first
          taken       \* per taker: the outcome of its current or last call

vars == <<items, taken>>

Callers == Takers \cup TryTakers

Init == /\ items = <<>>
        /\ taken = [c \in Callers |-> None]

Put(i) == /\ items' = Append(items, i)
          /\ UNCHANGED taken

Call(c) == /\ taken' = [taken EXCEPT ![c] = None]
           /\ UNCHANGED items

Take(c) == /\ taken[c] = None
           /\ items # <<>>
           /\ taken' = [taken EXCEPT ![c] = Head(items)]
           /\ items' = Tail(items)

FindEmpty(c) == /\ taken[c] = None
                /\ items = <<>> \/ c \in TryTakers
                /\ taken' = [taken EXCEPT ![c] = Empty]
                /\ UNCHANGED items

FindBusy(c) == /\ taken[c] = None
               /\ c \in TryTakers
               /\ taken' = [taken EXCEPT ![c] = Busy]
               /\ UNCHANGED items

Next == \/ \E i \in Items : Put(i)
        \/ \E c \in Callers : \/ Call(c)
                              \/ Take(c)
                              \/ FindEmpty(c)
                              \/ FindBusy(c)

Spec == Init /\ [][Next]_vars
=============================================================================
