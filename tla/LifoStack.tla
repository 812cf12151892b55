----------------------------- MODULE LifoStack -----------------------------
(***************************************************************************)
(* What a stack promises its callers: an item goes on top, a pop takes the *)
(* item on top or finds the stack empty, each in one step.                 *)
(***************************************************************************)
EXTENDS Sequences

CONSTANTS Poppers,      \* threads that pop
          Items,        \* what may be pushed, each once
          None, Empty   \* a pop under way, a pop that found nothing

VARIABLES stack,   \* the items, the top first
          popped   \* per popper: outcome of the current or last call

Init == stack = <<>> /\ popped = [p \in Poppers |-> None]

Push(x) ==
    /\ stack' = <<x>> \o stack
    /\ UNCHANGED popped

Call(p) ==
    /\ popped' = [popped EXCEPT ![p] = None]
    /\ UNCHANGED stack

Pop(p) ==
    /\ popped[p] = None
    /\ stack # <<>>
    /\ popped' = [popped EXCEPT ![p] = Head(stack)]
    /\ stack' = Tail(stack)

FindEmpty(p) ==
    /\ popped[p] = None
    /\ stack = <<>>
    /\ popped' = [popped EXCEPT ![p] = Empty]
    /\ UNCHANGED stack

Next == \/ \E x \in Items : Push(x)
        \/ \E p \in Poppers : Call(p) \/ Pop(p) \/ FindEmpty(p)

Spec == Init /\ [][Next]_<<stack, popped>>
=============================================================================
