------------------------------ MODULE EvStack ------------------------------
(***************************************************************************)
(* The lock-free stack of evds/ev_stack.c, one action per atomic access.   *)
(* pop marks the head by setting the low bit of the address, so that no    *)
(* other pop goes near it, and takes it off with a second compare and      *)
(* swap; a push may come between the two and clears the mark.  Nodes are   *)
(* never freed, so every push has a node of its own and a node stands for  *)
(* the item it carries.                                                    *)
(***************************************************************************)
EXTENDS Naturals, Sequences, FiniteSets

CONSTANTS Pushers, Poppers,   \* threads that call push, and pop for ever
          MaxPushes,          \* bound: calls made by each pusher
          Null,               \* the address 0
          None, Empty         \* outcomes of a pop that is no item

ASSUME StackAssumption ==
    /\ Pushers \cap Poppers = {}
    /\ MaxPushes \in Nat
    /\ Null \notin Pushers \X (1..MaxPushes)

Nodes == Pushers \X (1..MaxPushes)

VARIABLES head,    \* [node, marked]
          next,    \* per node
          pc,      \* per thread: the next access; "idle" between calls
          old,     \* per thread: old_h, [node, marked]
          new,     \* per popper: new_h
          count,   \* per pusher: calls made
          result,  \* per popper: outcome of the current or last call
          stack    \* history: the nodes whose push has taken effect and whose
                   \* pop has not, the latest first

vars == <<head, next, pc, old, new, count, result, stack>>

Ref(n) == [node |-> n, marked |-> FALSE]

(* create_ev_stack.                                                        *)
Init ==
    /\ head = Ref(Null)
    /\ next = [n \in Nodes |-> Null]
    /\ pc = [p \in Pushers \cup Poppers |-> "idle"]
    /\ old = [p \in Pushers \cup Poppers |-> Ref(Null)]
    /\ new = [p \in Poppers |-> Null]
    /\ count = [p \in Pushers |-> 0]
    /\ result = [p \in Poppers |-> None]
    /\ stack = <<>>

Goto(p, label) == pc' = [pc EXCEPT ![p] = label]

-----------------------------------------------------------------------------
(* push                                                                    *)

MyNode(p) == <<p, count[p]>>

PushLoad(p) ==
    /\ pc[p] = "idle"
    /\ count[p] < MaxPushes
    /\ old' = [old EXCEPT ![p] = head]
    /\ next' = [next EXCEPT ![<<p, count[p] + 1>>] = head.node]
    /\ count' = [count EXCEPT ![p] = @ + 1]
    /\ Goto(p, "push")
    /\ UNCHANGED <<head, new, result, stack>>

(* Mutant: next is not brought up to date when the head has changed.       *)
PushCas_StaleNext(p) ==
    /\ pc[p] = "push"
    /\ IF head = old[p]
       THEN /\ head' = Ref(MyNode(p))
            /\ stack' = <<MyNode(p)>> \o stack
            /\ Goto(p, "idle")
            /\ UNCHANGED old
       ELSE old' = [old EXCEPT ![p] = head] /\ UNCHANGED <<head, pc, stack>>
    /\ UNCHANGED <<next, new, count, result>>

(* The compare and swap that fails stores the head it found in old_h; next *)
(* follows it, without the mark.                                           *)
PushCas(p) ==
    /\ pc[p] = "push"
    /\ IF head = old[p]
       THEN /\ head' = Ref(MyNode(p))
            /\ stack' = <<MyNode(p)>> \o stack
            /\ Goto(p, "idle")
            /\ UNCHANGED <<old, next>>
       ELSE /\ old' = [old EXCEPT ![p] = head]
            /\ next' = [next EXCEPT ![MyNode(p)] = head.node]
            /\ UNCHANGED <<head, pc, stack>>
    /\ UNCHANGED <<new, count, result>>

push(p) == PushLoad(p) \/ PushCas(p)

-----------------------------------------------------------------------------
(* pop                                                                     *)

PopCall(p) ==
    /\ pc[p] = "idle"
    /\ result' = [result EXCEPT ![p] = None]
    /\ Goto(p, "load")
    /\ UNCHANGED <<head, next, old, new, count, stack>>

(* The loads that find the head marked change nothing.                     *)
PopLoad(p) ==
    /\ pc[p] = "load"
    /\ \/ /\ head = Ref(Null)
          /\ result' = [result EXCEPT ![p] = Empty]
          /\ Goto(p, "idle")
          /\ UNCHANGED old
       \/ /\ head.node # Null /\ ~head.marked
          /\ old' = [old EXCEPT ![p] = head]
          /\ Goto(p, "mark")
          /\ UNCHANGED result
    /\ UNCHANGED <<head, next, new, count, stack>>

PopMark(p) ==
    /\ pc[p] = "mark"
    /\ IF head = old[p]
       THEN head' = [head EXCEPT !.marked = TRUE] /\ Goto(p, "next")
       ELSE Goto(p, "load") /\ UNCHANGED head
    /\ UNCHANGED <<next, old, new, count, result, stack>>

PopNext(p) ==
    /\ pc[p] = "next"
    /\ new' = [new EXCEPT ![p] = next[old[p].node]]
    /\ Goto(p, "take")
    /\ UNCHANGED <<head, next, old, count, result, stack>>

(* Mutant: the mark stays on the address stored as the new head.           *)
PopTake_KeepsMark(p) ==
    /\ pc[p] = "take"
    /\ IF head = [node |-> old[p].node, marked |-> TRUE]
       THEN /\ head' = [head EXCEPT !.node = new[p]]
            /\ stack' = Tail(stack)
            /\ result' = [result EXCEPT ![p] = old[p].node]
            /\ Goto(p, "idle")
       ELSE /\ Goto(p, "load")
            /\ UNCHANGED <<head, result, stack>>
    /\ UNCHANGED <<next, old, new, count>>

PopTake(p) ==
    /\ pc[p] = "take"
    /\ IF head = [node |-> old[p].node, marked |-> TRUE]
       THEN /\ head' = Ref(new[p])
            /\ stack' = Tail(stack)
            /\ result' = [result EXCEPT ![p] = old[p].node]
            /\ Goto(p, "idle")
       ELSE /\ Goto(p, "load")
            /\ UNCHANGED <<head, result, stack>>
    /\ UNCHANGED <<next, old, new, count>>

pop(p) == PopCall(p) \/ PopLoad(p) \/ PopMark(p) \/ PopNext(p) \/ PopTake(p)

Next == \/ \E p \in Pushers : push(p)
        \/ \E p \in Poppers : pop(p)

(* A thread inside a call goes on.                                         *)
Fairness == /\ \A p \in Pushers : WF_vars(PushCas(p))
            /\ \A p \in Poppers : WF_vars(pop(p))

Spec     == Init /\ [][Next]_vars
FairSpec == Spec /\ Fairness

-----------------------------------------------------------------------------
Lifo == INSTANCE LifoStack WITH Items <- Nodes, popped <- result

(* push and pop behave as a stack whose push is the compare and swap of    *)
(* the new head and whose pop is the one that takes the marked head off:   *)
(* no item is lost, popped twice or popped out of order, even when a push, *)
(* a pop and another pop fall between the two compare and swaps of a pop   *)
(* and bring the same head back.                                           *)
ImplementsLifo == Lifo!Spec

(* Once nothing more is pushed the poppers empty the stack.                *)
StackDrains == head.node # Null ~> head.node = Null

=============================================================================
