--------------------------- MODULE EvStackProofs ---------------------------
(***************************************************************************)
(* The lock-free stack implements the stack of its callers, for any number *)
(* of pushers, poppers and pushes.  The heart of StackInv is that the next *)
(* of a node never changes once its push has taken effect: a popper may    *)
(* find the same head again after others have pushed and popped, and what  *)
(* it read from the node is still what is below it.                        *)
(***************************************************************************)
EXTENDS EvStack, SequenceTheorems, TLAPS

Address == Nodes \cup {Null}
Refs    == [node : Address, marked : BOOLEAN]

TypeOK ==
    /\ head \in Refs
    /\ next \in [Nodes -> Address]
    /\ pc \in [Pushers \cup Poppers -> {"idle", "push", "load", "mark", "next", "take"}]
    /\ old \in [Pushers \cup Poppers -> Refs]
    /\ new \in [Poppers -> Address]
    /\ count \in [Pushers -> 0..MaxPushes]
    /\ result \in [Poppers -> Nodes \cup {None, Empty}]
    /\ stack \in Seq(Nodes)

(* The nodes whose compare and swap in push has succeeded.                 *)
Pushed == {n \in Nodes : /\ n[2] <= count[n[1]]
                         /\ pc[n[1]] = "push" => n[2] # count[n[1]]}

(* head and next spell out the stack.                                      *)
ShapeInv ==
    /\ \A i \in 1..Len(stack) : stack[i] \in Pushed
    /\ head.node = IF stack = <<>> THEN Null ELSE stack[1]
    /\ \A i \in 1..Len(stack) :
          next[stack[i]] = IF i = Len(stack) THEN Null ELSE stack[i + 1]

(* A push has set the next of its node to the head it compares with.       *)
PushInv == \A p \in Pushers : pc[p] = "push" =>
               count[p] \in 1..MaxPushes /\ next[MyNode(p)] = old[p].node

(* A pop works on a node that was pushed, and new_h is the node below it.  *)
PopInv ==
    /\ \A p \in Poppers : pc[p] \in {"mark", "next", "take"} =>
          old[p].node \in Pushed /\ ~old[p].marked
    /\ \A p \in Poppers : pc[p] = "take" => new[p] = next[old[p].node]
    /\ \A p \in Poppers : pc[p] \in {"load", "mark", "next", "take"} => result[p] = None

StackInv == TypeOK /\ ShapeInv /\ PushInv /\ PopInv

-----------------------------------------------------------------------------
(* A node is put on top of the stack.                                      *)
LEMMA Prepend ==
    ASSUME NEW S, NEW s \in Seq(S), NEW x \in S
    PROVE  /\ <<x>> \o s \in Seq(S) /\ <<x>> \o s # <<>>
           /\ Len(s) \in Nat /\ Len(<<x>> \o s) = Len(s) + 1
           /\ (<<x>> \o s)[1] = x
           /\ \A i \in 1..Len(s) : (<<x>> \o s)[i + 1] = s[i]
           /\ s = <<>> <=> Len(s) = 0
<1>1. <<x>> \in Seq(S) /\ Len(<<x>>) = 1 /\ <<x>>[1] = x /\ Len(s) \in Nat
    OBVIOUS
<1>2. /\ <<x>> \o s \in Seq(S)
      /\ Len(<<x>> \o s) = 1 + Len(s)
      /\ \A i \in 1..(1 + Len(s)) : (<<x>> \o s)[i] = IF i <= 1 THEN <<x>>[i] ELSE s[i - 1]
    BY <1>1, ConcatProperties
<1>3. \A i \in 1..Len(s) : (<<x>> \o s)[i + 1] = s[i]
    BY <1>1, <1>2
<1>4. <<x>> \o s # <<>>
    BY <1>1, <1>2
<1> QED  BY <1>1, <1>2, <1>3, <1>4

(* The node on top is taken off.                                           *)
LEMMA TakeTop ==
    ASSUME NEW S, NEW s \in Seq(S), s # <<>>
    PROVE  /\ Tail(s) \in Seq(S)
           /\ Len(s) \in Nat /\ Len(s) > 0
           /\ Len(Tail(s)) = Len(s) - 1
           /\ \A i \in 1..(Len(s) - 1) : Tail(s)[i] = s[i + 1]
           /\ Tail(s) = <<>> <=> Len(s) = 1
           /\ Head(s) = s[1]
<1>1. Len(s) \in Nat /\ Len(s) > 0 /\ Head(s) = s[1]
    OBVIOUS
<1>2. /\ Tail(s) \in Seq(S) /\ Len(Tail(s)) = Len(s) - 1
      /\ \A i \in 1..Len(Tail(s)) : Tail(s)[i] = s[i + 1]
    BY HeadTailProperties
<1>3. Tail(s) = <<>> <=> Len(Tail(s)) = 0
    BY <1>2
<1> QED  BY <1>1, <1>2, <1>3

(* The parts of a head value.                                              *)
LEMMA RefFields ==
    /\ \A r \in Refs : r.node \in Address /\ r.marked \in BOOLEAN
    /\ \A n \in Address : Ref(n) \in Refs /\ Ref(n).node = n /\ Ref(n).marked = FALSE
    /\ \A n \in Address : [node |-> n, marked |-> TRUE] \in Refs
  BY DEF Refs, Ref

(* A pusher's node is a node, and not pushed while the push is under way.  *)
LEMMA MyNodeUnpushed ==
    ASSUME StackInv, NEW p \in Pushers, pc[p] = "push"
    PROVE  MyNode(p) \in Nodes \ Pushed
  BY DEF StackInv, TypeOK, PushInv, MyNode, Nodes, Pushed

(* push reads the head and points its new node to it.                      *)
LEMMA PushLoadKeeps ==
    ASSUME StackInv, NEW p \in Pushers, PushLoad(p)
    PROVE  StackInv'
<1> DEFINE n == <<p, count[p] + 1>>
<1>0. TypeOK /\ ShapeInv /\ PushInv /\ PopInv
    BY DEF StackInv
<1>1. n \in Nodes \ Pushed /\ MyNode(p)' = n /\ count[p] + 1 \in 1..MaxPushes
    BY <1>0, StackAssumption DEF TypeOK, PushLoad, Nodes, Pushed, MyNode
<1>2. Pushed' = Pushed
    BY <1>0, StackAssumption DEF TypeOK, PushLoad, Goto, Nodes, Pushed
<1>3. \A m \in Nodes : m # n => next'[m] = next[m]
    BY <1>0, <1>1 DEF TypeOK, PushLoad
<1>4. next'[n] = head.node /\ old'[p] = head
    BY <1>0, <1>1 DEF TypeOK, PushLoad
<1>5. TypeOK'
    BY <1>0, <1>1, RefFields DEF TypeOK, PushLoad, Goto
<1>6. ShapeInv'
    BY <1>0, <1>1, <1>2, <1>3 DEF ShapeInv, PushLoad, Pushed
<1>7. PushInv'
  <2> SUFFICES ASSUME NEW q \in Pushers, pc'[q] = "push"
               PROVE  count'[q] \in 1..MaxPushes /\ next'[MyNode(q)'] = old'[q].node
      BY DEF PushInv
  <2>1. CASE q = p
      BY <1>0, <1>1, <1>4, <2>1 DEF PushLoad, TypeOK
  <2>2. CASE q # p
    <3>1. pc[q] = "push" /\ old'[q] = old[q] /\ count'[q] = count[q]
        BY <2>2, <1>0 DEF PushLoad, Goto, TypeOK
    <3>2. MyNode(q)' = MyNode(q) /\ MyNode(q) # n /\ MyNode(q) \in Nodes
        BY <2>2, <3>1, MyNodeUnpushed DEF MyNode
    <3> QED  BY <3>1, <3>2, <1>0, <1>3 DEF PushInv
  <2> QED  BY <2>1, <2>2
<1>8. PopInv'
    BY <1>0, <1>1, <1>2, <1>3, StackAssumption DEF PopInv, TypeOK, PushLoad, Goto, Pushed
<1> QED  BY <1>5, <1>6, <1>7, <1>8 DEF StackInv

(* The compare and swap of push: the node goes on top, or follows the head *)
(* that has changed.                                                       *)
LEMMA PushCasKeeps ==
    ASSUME StackInv, NEW p \in Pushers, PushCas(p)
    PROVE  StackInv'
<1> DEFINE n == MyNode(p)
<1>0. TypeOK /\ ShapeInv /\ PushInv /\ PopInv
    BY DEF StackInv
<1>1. n \in Nodes \ Pushed /\ n \in Address
    BY MyNodeUnpushed DEF PushCas, Address
<1>2. /\ \A q \in Pushers : q # p => MyNode(q) # n
      /\ \A q \in Pushers : MyNode(q)' = MyNode(q)
    BY DEF MyNode, PushCas
<1>3. CASE head = old[p]
  <2>0. /\ stack' = <<n>> \o stack /\ head' = Ref(n)
        /\ next' = next /\ old' = old /\ count' = count /\ pc' = [pc EXCEPT ![p] = "idle"]
      BY <1>3 DEF PushCas, Goto
  <2>1. /\ Len(stack) \in Nat /\ Len(stack') = Len(stack) + 1 /\ stack'[1] = n
        /\ \A i \in 1..Len(stack) : stack'[i + 1] = stack[i]
        /\ stack' \in Seq(Nodes) /\ stack' # <<>>
        /\ stack = <<>> <=> Len(stack) = 0
    <3>1. stack \in Seq(Nodes) /\ n \in Nodes
        BY <1>0, <1>1 DEF TypeOK
    <3> HIDE DEF n
    <3> QED  BY <2>0, <3>1, Prepend
  <2>2. Pushed' = Pushed \cup {n}
      BY <1>0, <1>1, <2>0, StackAssumption
      DEF Pushed, Nodes, MyNode, PushInv, TypeOK, PushCas
  <2>3. next[n] = head.node
      BY <1>0, <1>3 DEF PushInv, PushCas
  <2>4. TypeOK'
      BY <1>0, <1>1, <2>0, <2>1, RefFields DEF TypeOK, PushCas
  <2> HIDE DEF n
  <2>5. ShapeInv'
    <3>1. ASSUME NEW i \in 1..Len(stack'), i # 1
          PROVE  i - 1 \in 1..Len(stack) /\ stack'[i] = stack[i - 1]
      <4>1. i - 1 \in 1..Len(stack) /\ (i - 1) + 1 = i
          BY <2>1, <3>1
      <4> QED  BY <2>1, <4>1
    <3>2. \A i \in 1..Len(stack') : stack'[i] \in Pushed'
        BY <1>0, <2>1, <2>2, <3>1 DEF ShapeInv
    <3>3. head'.node = stack'[1]
        BY <1>1, <2>0, <2>1, RefFields
    <3>4. ASSUME NEW i \in 1..Len(stack')
          PROVE  next[stack'[i]] = IF i = Len(stack') THEN Null ELSE stack'[i + 1]
      <4>1. CASE i = 1
        <5>1. stack # <<>> => stack'[1 + 1] = stack[1] /\ Len(stack') # 1
            BY <2>1
        <5> QED  BY <1>0, <4>1, <5>1, <2>1, <2>3 DEF ShapeInv
      <4>2. CASE i # 1
        <5>1. i - 1 \in 1..Len(stack) /\ stack'[i] = stack[i - 1]
            BY <3>1, <4>2
        <5>2. i = Len(stack') <=> i - 1 = Len(stack)
            BY <2>1
        <5>3. i # Len(stack') => stack'[i + 1] = stack[(i - 1) + 1]
            BY <2>1, <5>1
        <5> QED  BY <1>0, <5>1, <5>2, <5>3 DEF ShapeInv
      <4> QED  BY <4>1, <4>2
    <3> QED  BY <2>0, <2>1, <3>2, <3>3, <3>4 DEF ShapeInv
  <2>6. PushInv'
      BY <1>0, <1>2, <2>0 DEF PushInv, TypeOK
  <2>7. PopInv'
      BY <1>0, <2>0, <2>2, StackAssumption DEF PopInv, TypeOK, PushCas
  <2> QED  BY <2>4, <2>5, <2>6, <2>7 DEF StackInv
<1>4. CASE head # old[p]
  <2>0. /\ UNCHANGED <<head, pc, count, new, result, stack>>
        /\ old' = [old EXCEPT ![p] = head] /\ next' = [next EXCEPT ![n] = head.node]
      BY <1>4 DEF PushCas
  <2>1. Pushed' = Pushed /\ \A m \in Nodes : m # n => next'[m] = next[m]
      BY <1>0, <1>1, <2>0 DEF Pushed, Nodes, TypeOK
  <2>2. TypeOK'
      BY <1>0, <1>1, <2>0, RefFields DEF TypeOK
  <2> HIDE DEF n
  <2>3. ShapeInv'
      BY <1>0, <1>1, <2>0, <2>1 DEF ShapeInv, Pushed
  <2>4. PushInv'
    <3> SUFFICES ASSUME NEW q \in Pushers, pc[q] = "push"
                 PROVE  count[q] \in 1..MaxPushes /\ next'[MyNode(q)] = old'[q].node
        BY <1>2, <2>0 DEF PushInv
    <3>1. CASE q = p
        BY <1>0, <1>1, <2>0, <3>1 DEF PushInv, TypeOK, n
    <3>2. CASE q # p
      <4>1. MyNode(q) \in Nodes /\ MyNode(q) # n
          BY <1>2, <3>2, MyNodeUnpushed
      <4> QED  BY <1>0, <2>0, <2>1, <3>2, <4>1 DEF PushInv, TypeOK
    <3> QED  BY <3>1, <3>2
  <2>5. PopInv'
      BY <1>0, <1>1, <2>0, <2>1, StackAssumption DEF PopInv, TypeOK, Pushed
  <2> QED  BY <2>2, <2>3, <2>4, <2>5 DEF StackInv
<1> QED  BY <1>3, <1>4

(* A popper's pc has no part in what is pushed.                            *)
LEMMA PopperMoves ==
    ASSUME StackInv, NEW p \in Poppers, pop(p)
    PROVE  /\ Pushed' = Pushed /\ next' = next /\ count' = count
           /\ \A q \in Pushers : pc'[q] = pc[q] /\ old'[q] = old[q] /\ MyNode(q)' = MyNode(q)
<1>1. /\ next' = next /\ count' = count
      /\ \A q \in Pushers : pc'[q] = pc[q] /\ old'[q] = old[q]
    BY StackAssumption
    DEF StackInv, TypeOK, pop, PopCall, PopLoad, PopMark, PopNext, PopTake, Goto
<1>2. Pushed' = Pushed
    BY <1>1 DEF Pushed, Nodes
<1> QED  BY <1>1, <1>2 DEF MyNode

(* The accesses of pop: only the second compare and swap changes the       *)
(* stack, and it puts back what is below the node it takes.                *)
LEMMA PopKeeps ==
    ASSUME StackInv, NEW p \in Poppers, pop(p)
    PROVE  StackInv'
<1>0. TypeOK /\ ShapeInv /\ PushInv /\ PopInv
    BY DEF StackInv
<1>1. /\ Pushed' = Pushed /\ next' = next /\ count' = count
      /\ \A q \in Pushers : pc'[q] = pc[q] /\ old'[q] = old[q] /\ MyNode(q)' = MyNode(q)
    BY PopperMoves
<1>2. PushInv'
    BY <1>0, <1>1 DEF PushInv
<1>3. Pushed \subseteq Nodes
    BY DEF Pushed
<1>4. CASE PopCall(p)
  <2>1. TypeOK'
      BY <1>0, <1>4 DEF PopCall, TypeOK, Goto
  <2>2. ShapeInv'
      BY <1>0, <1>1, <1>4 DEF PopCall, ShapeInv
  <2>3. PopInv'
      BY <1>0, <1>1, <1>4 DEF PopCall, PopInv, TypeOK, Goto
  <2> QED  BY <2>1, <2>2, <2>3, <1>2 DEF StackInv
<1>5. CASE PopLoad(p)
  <2>1. TypeOK'
    <3>1. result' \in [Poppers -> Nodes \cup {None, Empty}] /\ old' \in [Pushers \cup Poppers -> Refs]
        BY <1>0, <1>5 DEF PopLoad, TypeOK
    <3>2. pc' \in [Pushers \cup Poppers -> {"idle", "push", "load", "mark", "next", "take"}]
        BY <1>0, <1>5 DEF PopLoad, TypeOK, Goto
    <3> QED  BY <1>0, <1>5, <3>1, <3>2 DEF PopLoad, TypeOK
  <2>2. ShapeInv'
      BY <1>0, <1>1, <1>5 DEF PopLoad, ShapeInv
  <2>3. head.node # Null => head.node \in Pushed
      BY <1>0 DEF ShapeInv, TypeOK
  <2>4. PopInv'
      BY <1>0, <1>1, <1>5, <2>3 DEF PopLoad, PopInv, TypeOK, Goto
  <2> QED  BY <2>1, <2>2, <2>4, <1>2 DEF StackInv
<1>6. CASE PopMark(p)
  <2>0. head' \in Refs /\ head'.node = head.node
      BY <1>0, <1>6 DEF PopMark, TypeOK, Refs
  <2>1. TypeOK'
      BY <1>0, <1>6, <2>0 DEF PopMark, TypeOK, Goto
  <2>2. ShapeInv'
      BY <1>0, <1>1, <1>6, <2>0 DEF PopMark, ShapeInv
  <2>3. PopInv'
      BY <1>0, <1>1, <1>6 DEF PopMark, PopInv, TypeOK, Goto
  <2> QED  BY <2>1, <2>2, <2>3, <1>2 DEF StackInv
<1>7. CASE PopNext(p)
  <2>1. TypeOK'
      BY <1>0, <1>3, <1>7 DEF PopNext, PopInv, TypeOK, Goto
  <2>2. ShapeInv'
      BY <1>0, <1>1, <1>7 DEF PopNext, ShapeInv, TypeOK, Goto
  <2>3. PopInv'
      BY <1>0, <1>1, <1>7 DEF PopNext, PopInv, TypeOK, Goto
  <2> QED  BY <2>1, <2>2, <2>3, <1>2 DEF StackInv
<1>8. CASE PopTake(p)
  <2>1. CASE head # [node |-> old[p].node, marked |-> TRUE]
    <3>1. TypeOK'
        BY <1>0, <1>8, <2>1 DEF PopTake, TypeOK, Goto
    <3>2. ShapeInv'
        BY <1>0, <1>1, <1>8, <2>1 DEF PopTake, ShapeInv, TypeOK, Goto
    <3>3. PopInv'
        BY <1>0, <1>1, <1>8, <2>1 DEF PopTake, PopInv, TypeOK, Goto
    <3> QED  BY <3>1, <3>2, <3>3, <1>2 DEF StackInv
  <2>2. CASE head = [node |-> old[p].node, marked |-> TRUE]
    <3>1. old[p].node \in Pushed /\ old[p].node \in Nodes /\ new[p] = next[old[p].node]
        BY <1>0, <1>3, <1>8 DEF PopTake, PopInv, TypeOK, Goto
    <3>2. head.node = old[p].node /\ stack # <<>>
      <4>1. head.node = old[p].node /\ old[p].node # Null
          BY <2>2, <3>1, StackAssumption DEF Nodes
      <4> QED  BY <1>0, <4>1 DEF ShapeInv
    <3>3. /\ stack' \in Seq(Nodes) /\ Len(stack) \in Nat /\ Len(stack) > 0
          /\ Len(stack') = Len(stack) - 1
          /\ \A i \in 1..(Len(stack) - 1) : stack'[i] = stack[i + 1]
          /\ stack' = <<>> <=> Len(stack) = 1
      <4>1. stack' = Tail(stack) /\ stack \in Seq(Nodes)
          BY <1>0, <1>8, <2>2 DEF PopTake, TypeOK, Goto
      <4> QED  BY <3>2, <4>1, TakeTop
    <3>4. stack[1] = old[p].node /\ head' = Ref(new[p])
        BY <1>0, <1>8, <2>2, <3>2 DEF PopTake, ShapeInv, TypeOK, Goto
    <3>5. TypeOK'
        BY <1>0, <1>8, <2>2, <3>1, <3>3, RefFields DEF PopTake, TypeOK, Goto
    <3>6. ShapeInv'
      <4>1. head'.node = IF stack' = <<>> THEN Null ELSE stack'[1]
          BY <1>0, <3>1, <3>3, <3>4, RefFields DEF ShapeInv, TypeOK
      <4>2. ASSUME NEW i \in 1..Len(stack')
            PROVE  /\ stack'[i] \in Pushed
                   /\ next[stack'[i]] = IF i = Len(stack') THEN Null ELSE stack'[i + 1]
        <5>1. i + 1 \in 1..Len(stack) /\ stack'[i] = stack[i + 1]
            BY <3>3
        <5>2. i # Len(stack') => stack'[i + 1] = stack[(i + 1) + 1]
            BY <3>3
        <5>3. i = Len(stack') <=> i + 1 = Len(stack)
            BY <3>3
        <5> QED  BY <5>1, <5>2, <5>3, <1>0 DEF ShapeInv
      <4> QED  BY <1>1, <4>1, <4>2 DEF ShapeInv
    <3>7. PopInv'
        BY <1>0, <1>1, <1>8, <2>2 DEF PopTake, PopInv, TypeOK, Goto
    <3> QED  BY <3>5, <3>6, <3>7, <1>2 DEF StackInv
  <2> QED  BY <2>1, <2>2
<1> QED  BY <1>4, <1>5, <1>6, <1>7, <1>8 DEF pop

-----------------------------------------------------------------------------
(* The stack of create_ev_stack is empty.                                  *)
LEMMA InitInv == Init => StackInv
<1> SUFFICES ASSUME Init PROVE StackInv
    OBVIOUS
<1>1. stack \in Seq(Nodes) /\ Len(stack) = 0
    BY DEF Init
<1>2. TypeOK
    BY <1>1, StackAssumption DEF Init, TypeOK, Refs, Address, Ref
<1>3. ShapeInv /\ PushInv /\ PopInv
    BY <1>1, StackAssumption DEF Init, ShapeInv, PushInv, PopInv, Ref
<1> QED  BY <1>2, <1>3 DEF StackInv

(* Every access of push and pop keeps the invariant.                       *)
LEMMA NextInv == StackInv /\ [Next]_vars => StackInv'
<1> SUFFICES ASSUME StackInv, [Next]_vars PROVE StackInv'
    OBVIOUS
<1>1. CASE UNCHANGED vars
    BY <1>1 DEF vars, StackInv, TypeOK, Pushed, ShapeInv, PushInv, PopInv, MyNode
<1>2. ASSUME NEW p \in Pushers, push(p) PROVE StackInv'
    BY <1>2, PushLoadKeeps, PushCasKeeps DEF push
<1>3. ASSUME NEW p \in Poppers, pop(p) PROVE StackInv'
    BY <1>3, PopKeeps
<1> QED  BY <1>1, <1>2, <1>3 DEF Next

(* The nodes spell out the stack in every state.                           *)
THEOREM Invariant == Spec => []StackInv
  BY InitInv, NextInv, PTL DEF Spec

(* Each access is a step of the stack, or nothing its callers see.         *)
LEMMA StepIsLifo ==
    ASSUME StackInv, [Next]_vars
    PROVE  [Lifo!Next]_<<stack, result>>
<1>1. CASE UNCHANGED vars
    BY <1>1 DEF vars
<1>2. ASSUME NEW p \in Pushers, push(p)
      PROVE  (\E x \in Nodes : Lifo!Push(x)) \/ UNCHANGED <<stack, result>>
    BY <1>2, MyNodeUnpushed DEF push, PushLoad, PushCas, Lifo!Push
<1>3. ASSUME NEW p \in Poppers, pop(p)
      PROVE  Lifo!Call(p) \/ Lifo!Pop(p) \/ Lifo!FindEmpty(p) \/ UNCHANGED <<stack, result>>
  <2>1. CASE PopCall(p)
      BY <2>1 DEF PopCall, Lifo!Call
  <2>2. CASE PopLoad(p)
    <3>1. head = Ref(Null) => stack = <<>>
        BY StackAssumption DEF StackInv, TypeOK, ShapeInv, Ref, Pushed, Nodes
    <3> QED  BY <2>2, <3>1 DEF PopLoad, Lifo!FindEmpty, StackInv, PopInv
  <2>3. CASE PopMark(p) \/ PopNext(p)
      BY <2>3 DEF PopMark, PopNext
  <2>4. CASE PopTake(p)
    <3>1. CASE head # [node |-> old[p].node, marked |-> TRUE]
        BY <2>4, <3>1 DEF PopTake
    <3>2. CASE head = [node |-> old[p].node, marked |-> TRUE]
      <4>1. old[p].node \in Nodes /\ result[p] = None
          BY <2>4 DEF PopTake, StackInv, PopInv, Pushed
      <4>2. stack # <<>> /\ stack[1] = old[p].node
          BY <3>2, <4>1, StackAssumption DEF StackInv, ShapeInv, Nodes
      <4>3. Head(stack) = old[p].node
          BY <4>2, TakeTop DEF StackInv, TypeOK
      <4> QED  BY <2>4, <3>2, <4>1, <4>2, <4>3 DEF PopTake, Lifo!Pop
    <3> QED  BY <3>1, <3>2
  <2> QED  BY <1>3, <2>1, <2>2, <2>3, <2>4 DEF pop
<1> QED  BY <1>1, <1>2, <1>3 DEF Next, Lifo!Next

(* push and pop implement a stack: no item is lost, popped twice or popped *)
(* out of order, also when the head a pop has marked is taken off and      *)
(* comes back before its second compare and swap.                          *)
THEOREM IsLifo == Spec => ImplementsLifo
<1>1. Init => Lifo!Init
    BY DEF Init, Lifo!Init
<1>2. StackInv /\ [Next]_vars => [Lifo!Next]_<<stack, result>>
    BY StepIsLifo
<1> QED  BY <1>1, <1>2, Invariant, PTL DEF Spec, ImplementsLifo, Lifo!Spec

============================================================================
