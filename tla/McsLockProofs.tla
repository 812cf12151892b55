--------------------------- MODULE McsLockProofs ---------------------------
(***************************************************************************)
(* The MCS lock never touches a freed node and serves the threads in the   *)
(* order of their exchanges of tail, for any number of threads and nodes.  *)
(* McsInv is the inductive invariant: it says how the nodes and the pc of  *)
(* the threads spell out the line, so that the only node a releasing       *)
(* thread can reach through next is that of the thread behind it, which    *)
(* has set locked and cannot have gone away.                               *)
(***************************************************************************)
EXTENDS McsLock, SequenceTheorems, TLAPS

(* The threads between the exchange of tail and the hand-over.             *)
InLine == {p \in Procs : pc[p] \in {"set_locked", "link", "wait", "inside",
                                     "cas_tail", "wait_next", "hand_over"}}

Address == Nodes \cup {Null}

TypeOK ==
    /\ tail \in Address
    /\ next \in [Nodes -> Address]
    /\ locked \in [Nodes -> {0, 1}]
    /\ heap \subseteq Nodes
    /\ pc \in [Procs -> {"idle", "swap", "set_locked", "link", "wait", "inside",
                          "cas_tail", "wait_next", "hand_over", "free"}]
    /\ ptr \in [Procs -> Address]
    /\ pred \in [Procs -> Address]
    /\ uaf \in BOOLEAN
    /\ line \in Seq(Procs)

(* A thread inside a call or holding the lock has a node of its own.       *)
OwnInv ==
    /\ \A p \in Procs : pc[p] # "idle" => ptr[p] \in heap
    /\ \A p, q \in Procs : pc[p] # "idle" /\ pc[q] # "idle" /\ p # q
                            => ptr[p] # ptr[q]

(* The line holds the threads of InLine, each of them once.                *)
LineInv ==
    /\ \A i \in 1..Len(line) : line[i] \in InLine
    /\ \A p \in InLine : \E i \in 1..Len(line) : line[i] = p
    /\ \A i, j \in 1..Len(line) : line[i] = line[j] => i = j

(* tail points to the node of the last thread, which has no successor.     *)
TailInv ==
    /\ line = <<>> => tail = Null
    /\ line # <<>> => /\ tail = ptr[line[Len(line)]]
                      /\ next[ptr[line[Len(line)]]] = Null
    /\ \A p \in Procs : pc[p] = "swap" => next[ptr[p]] = Null

(* Neighbours in the line are linked, or the one behind is about to link.  *)
LinkInv ==
    \A i, j \in 1..Len(line) : j = i + 1 =>
        IF pc[line[j]] \in {"set_locked", "link"}
        THEN pred[line[j]] = ptr[line[i]] /\ next[ptr[line[i]]] = Null
        ELSE next[ptr[line[i]]] = ptr[line[j]]

(* All but the first wait with locked set; the first has the lock or finds *)
(* its node unlocked.                                                      *)
LockInv ==
    \A i \in 1..Len(line) :
        /\ i > 1 => pc[line[i]] \in {"set_locked", "link", "wait"}
        /\ i > 1 /\ pc[line[i]] \in {"link", "wait"} => locked[ptr[line[i]]] = 1
        /\ i = 1 => pc[line[i]] \notin {"set_locked", "link"}
        /\ i = 1 /\ pc[line[i]] = "wait" => locked[ptr[line[i]]] = 0
        /\ pc[line[i]] = "hand_over" => next[ptr[line[i]]] # Null

McsInv == /\ TypeOK /\ OwnInv /\ LineInv /\ TailInv /\ LinkInv /\ LockInv
          /\ NoUseAfterFree

-----------------------------------------------------------------------------
(* The thread at the head of the line goes and the others move up.         *)
LEMMA TailLine ==
    ASSUME NEW S, NEW s \in Seq(S), s # <<>>
    PROVE  /\ Tail(s) \in Seq(S)
           /\ Len(s) \in Nat /\ Len(s) > 0
           /\ Len(Tail(s)) = Len(s) - 1
           /\ \A i \in 1..(Len(s) - 1) : Tail(s)[i] = s[i + 1]
           /\ Tail(s) = <<>> <=> Len(s) = 1
           /\ Head(s) = s[1]
<1>1. Len(s) \in Nat /\ Len(s) > 0 /\ Head(s) = s[1]
    OBVIOUS
<1>2. /\ Tail(s) \in Seq(S) /\ Len(Tail(s)) = Len(s) - 1
      /\ \A i \in 1..Len(Tail(s)) : Tail(s)[i] = s[i + 1]
    BY HeadTailProperties
<1>3. Tail(s) = <<>> <=> Len(Tail(s)) = 0
    BY <1>2
<1> QED  BY <1>1, <1>2, <1>3

(* A thread that has the lock, or is giving it up, is first of the line.   *)
LEMMA HolderFirst ==
    ASSUME McsInv, NEW p \in Holding
    PROVE  /\ Len(line) \in Nat /\ Len(line) > 0 /\ line # <<>>
           /\ line[1] = p /\ p \in Procs /\ ptr[p] \in heap /\ ptr[p] \in Nodes
<1>1. PICK i \in 1..Len(line) : line[i] = p
    BY DEF McsInv, LineInv, Holding, InLine
<1>2. i = 1
    BY <1>1 DEF McsInv, LockInv, Holding
<1>3. Len(line) \in Nat /\ Len(line) > 0 /\ line # <<>>
    BY <1>1 DEF McsInv, TypeOK
<1> QED  BY <1>1, <1>2, <1>3 DEF McsInv, OwnInv, TypeOK, Holding

(* malloc returns a node no thread has.                                    *)
LEMMA AllocKeeps ==
    ASSUME McsInv, NEW p \in Procs, Alloc(p)
    PROVE  McsInv'
<1> USE McsAssumption DEF McsInv, TypeOK, Address, OwnInv, InLine, Goto, Touch, NoUseAfterFree
<1>1. TypeOK'
    BY DEF Alloc
<1>2. OwnInv'
    BY DEF Alloc
<1>3. LineInv'
    BY DEF Alloc, LineInv
<1>4. TailInv'
    BY DEF Alloc, TailInv, LineInv
<1>5. \A i \in 1..Len(line) :
         /\ line[i] \in Procs /\ pc'[line[i]] = pc[line[i]] /\ pred'[line[i]] = pred[line[i]]
         /\ ptr'[line[i]] = ptr[line[i]]
         /\ next'[ptr[line[i]]] = next[ptr[line[i]]] /\ locked'[ptr[line[i]]] = locked[ptr[line[i]]]
  <2>1. \A i \in 1..Len(line) : line[i] \in Procs /\ line[i] # p /\ ptr[line[i]] \in heap
      BY DEF Alloc, LineInv
  <2> QED  BY <2>1 DEF Alloc
<1>6. LinkInv /\ LockInv /\ line' = line
    BY DEF Alloc
<1> HIDE McsAssumption DEF McsInv, TypeOK, OwnInv, InLine, Goto
<1>7. LinkInv'
    BY <1>5, <1>6 DEF LinkInv
<1>8. LockInv'
    BY <1>5, <1>6 DEF LockInv
<1>9. NoUseAfterFree'
    BY DEF Alloc, McsInv
<1> QED  BY <1>1, <1>2, <1>3, <1>4, <1>7, <1>8, <1>9 DEF McsInv

(* The exchange of tail puts the thread at the end of the line.            *)
LEMMA SwapTailKeeps ==
    ASSUME McsInv, NEW p \in Procs, SwapTail(p)
    PROVE  McsInv'
<1> USE McsAssumption DEF McsInv, TypeOK, Address, OwnInv, InLine, Goto, SwapTail, NoUseAfterFree
<1>0. /\ Len(line) \in Nat /\ Len(line') = Len(line) + 1
      /\ \A i \in 1..Len(line) : line'[i] = line[i]
      /\ line'[Len(line) + 1] = p /\ line' \in Seq(Procs) /\ line' # <<>>
      /\ line = <<>> <=> Len(line) = 0
    BY AppendProperties
<1>1. \A i \in 1..Len(line) : line[i] \in Procs /\ line[i] # p
    BY DEF LineInv
<1>2. /\ ptr' = ptr /\ next' = next /\ tail' = ptr[p]
      /\ \A q \in Procs : q # p => pc'[q] = pc[q] /\ pred'[q] = pred[q]
      /\ pred'[p] = tail /\ ptr[p] # Null
      /\ pc'[p] = IF line = <<>> THEN "inside" ELSE "set_locked"
  <2>1. tail = Null <=> line = <<>>
    <3>1. line # <<>> => Len(line) \in 1..Len(line) /\ line[Len(line)] \in InLine
        BY <1>0 DEF LineInv
    <3> QED  BY <3>1 DEF TailInv
  <2> QED  BY <2>1
<1>3. TypeOK'
    BY <1>0
<1>4. OwnInv'
    OBVIOUS
<1>5. LineInv'
  <2>1. \A i \in 1..Len(line') : line'[i] \in InLine'
      BY <1>0, <1>1, <1>2 DEF LineInv
  <2>2. \A q \in InLine' : \E i \in 1..Len(line') : line'[i] = q
      BY <1>0, <1>2 DEF LineInv
  <2>3. \A i, j \in 1..Len(line') : line'[i] = line'[j] => i = j
      BY <1>0, <1>1 DEF LineInv
  <2> QED  BY <2>1, <2>2, <2>3 DEF LineInv
<1>6. TailInv'
    BY <1>0, <1>2 DEF TailInv
<1>7. LinkInv'
  <2> SUFFICES ASSUME NEW i \in 1..Len(line'), NEW j \in 1..Len(line'), j = i + 1
               PROVE  IF pc'[line'[j]] \in {"set_locked", "link"}
                      THEN pred'[line'[j]] = ptr[line'[i]] /\ next[ptr[line'[i]]] = Null
                      ELSE next[ptr[line'[i]]] = ptr[line'[j]]
      BY <1>2 DEF LinkInv
  <2>1. CASE j \in 1..Len(line)
      BY <2>1, <1>0, <1>1, <1>2 DEF LinkInv
  <2>2. CASE j = Len(line) + 1
      BY <2>2, <1>0, <1>1, <1>2 DEF TailInv
  <2> QED  BY <2>1, <2>2, <1>0
<1>8. LockInv'
    BY <1>0, <1>1, <1>2 DEF LockInv
<1>9. NoUseAfterFree'
    OBVIOUS
<1> QED  BY <1>3, <1>4, <1>5, <1>6, <1>7, <1>8, <1>9

(* The thread sets locked in its own node, which nobody clears before the  *)
(* link.                                                                   *)
LEMMA SetLockedKeeps ==
    ASSUME McsInv, NEW p \in Procs, SetLocked(p)
    PROVE  McsInv'
<1> USE McsAssumption DEF McsInv, TypeOK, Address, OwnInv, InLine, Goto, Touch, NoUseAfterFree
<1>1. TypeOK'
    BY DEF SetLocked
<1>2. OwnInv'
    BY DEF SetLocked
<1>3. LineInv'
    BY DEF SetLocked, LineInv
<1>4. TailInv'
    BY DEF SetLocked, TailInv, LineInv
<1>5. LinkInv'
    BY DEF SetLocked, LinkInv, LineInv, TailInv
<1>6. LockInv'
    BY DEF SetLocked, LockInv, LineInv, LinkInv, TailInv
<1>7. NoUseAfterFree'
    BY DEF SetLocked
<1> QED  BY <1>1, <1>2, <1>3, <1>4, <1>5, <1>6, <1>7

(* The node in front belongs to a thread that cannot leave before the      *)
(* link.                                                                   *)
LEMMA LinkKeeps ==
    ASSUME McsInv, NEW p \in Procs, Link(p)
    PROVE  McsInv'
<1> USE McsAssumption DEF McsInv, TypeOK, Address, OwnInv, InLine, Goto, Touch, Link
<1>0. PICK k \in 1..Len(line) : line[k] = p /\ k > 1
    BY DEF LineInv, LockInv
<1>1. /\ Len(line) \in Nat /\ k - 1 \in 1..Len(line)
      /\ line[k - 1] \in Procs /\ line[k - 1] \in InLine
    BY <1>0 DEF LineInv
<1>2. pred[p] = ptr[line[k - 1]] /\ ptr[line[k - 1]] \in heap
    BY <1>0, <1>1 DEF LinkInv
<1>3. TypeOK'
    BY <1>2
<1>4. OwnInv'
    OBVIOUS
<1>5. LineInv'
    BY DEF LineInv
<1>6. TailInv'
  <2>1. \A q \in Procs : pc[q] # "idle" /\ q # line[k - 1] => next'[ptr[q]] = next[ptr[q]]
      BY <1>1, <1>2
  <2>2. line[Len(line)] # line[k - 1] /\ line[Len(line)] \in InLine
      BY <1>0, <1>1 DEF LineInv
  <2> QED  BY <1>1, <2>1, <2>2 DEF TailInv
<1>7. LinkInv'
  <2> SUFFICES ASSUME NEW i \in 1..Len(line), NEW j \in 1..Len(line), j = i + 1
               PROVE  IF pc'[line[j]] \in {"set_locked", "link"}
                      THEN pred[line[j]] = ptr[line[i]] /\ next'[ptr[line[i]]] = Null
                      ELSE next'[ptr[line[i]]] = ptr[line[j]]
      BY DEF LinkInv
  <2>0. line[i] \in InLine /\ line[j] \in InLine
      BY DEF LineInv
  <2>1. CASE j = k
      BY <2>0, <2>1, <1>0, <1>1, <1>2
  <2>2. CASE j # k
    <3>1. line[j] # p /\ line[i] # line[k - 1]
      <4>1. i # k - 1
          BY <2>2, <1>1
      <4>2. \A m, n \in 1..Len(line) : line[m] = line[n] => m = n
          BY DEF LineInv
      <4> HIDE DEF McsInv
      <4> QED  BY <2>2, <1>0, <1>1, <4>1, <4>2
    <3>2. next'[ptr[line[i]]] = next[ptr[line[i]]] /\ pc'[line[j]] = pc[line[j]]
        BY <3>1, <2>0, <1>1, <1>2
    <3> QED  BY <3>2 DEF LinkInv
  <2> QED  BY <2>1, <2>2
<1>8. LockInv'
    BY <1>0 DEF LockInv, LineInv
<1>9. NoUseAfterFree'
    BY <1>2 DEF NoUseAfterFree
<1> QED  BY <1>3, <1>4, <1>5, <1>6, <1>7, <1>8, <1>9

(* Only the first of the line finds its node unlocked.                     *)
LEMMA WaitUnlockedKeeps ==
    ASSUME McsInv, NEW p \in Procs, WaitUnlocked(p)
    PROVE  McsInv'
<1> USE McsAssumption DEF McsInv, TypeOK, Address, OwnInv, InLine, Goto, Touch, NoUseAfterFree
<1>1. TypeOK'
    BY DEF WaitUnlocked
<1>2. OwnInv'
    BY DEF WaitUnlocked
<1>3. LineInv'
    BY DEF WaitUnlocked, LineInv
<1>4. TailInv'
    BY DEF WaitUnlocked, TailInv, LineInv
<1>5. LinkInv'
    BY DEF WaitUnlocked, LinkInv, LineInv, TailInv
<1>6. LockInv'
    BY DEF WaitUnlocked, LockInv, LineInv, LinkInv, TailInv
<1>7. NoUseAfterFree'
    BY DEF WaitUnlocked
<1> QED  BY <1>1, <1>2, <1>3, <1>4, <1>5, <1>6, <1>7

(* The thread that holds the lock reads its own node.                      *)
LEMMA LoadNextKeeps ==
    ASSUME McsInv, NEW p \in Procs, LoadNext(p)
    PROVE  McsInv'
<1> USE McsAssumption DEF McsInv, TypeOK, Address, OwnInv, InLine, Goto, Touch, NoUseAfterFree
<1>1. TypeOK'
    BY DEF LoadNext
<1>2. OwnInv'
    BY DEF LoadNext
<1>3. LineInv'
    BY DEF LoadNext, LineInv
<1>4. TailInv'
    BY DEF LoadNext, TailInv, LineInv
<1>5. LinkInv'
    BY DEF LoadNext, LinkInv, LineInv, TailInv
<1>6. LockInv'
    BY DEF LoadNext, LockInv, LineInv, LinkInv, TailInv
<1>7. NoUseAfterFree'
    BY DEF LoadNext
<1> QED  BY <1>1, <1>2, <1>3, <1>4, <1>5, <1>6, <1>7

(* The compare-exchange succeeds only for the last thread of the line.     *)
LEMMA CasTailKeeps ==
    ASSUME McsInv, NEW p \in Procs, CasTail(p)
    PROVE  McsInv'
<1> USE McsAssumption DEF McsInv, TypeOK, Address, OwnInv, InLine, Goto, CasTail, NoUseAfterFree
<1>0. Len(line) \in Nat /\ Len(line) > 0 /\ line # <<>> /\ line[1] = p /\ ptr[p] \in heap
    BY HolderFirst DEF Holding
<1>1. CASE tail # ptr[p]
  <2>1. TypeOK' /\ OwnInv' /\ NoUseAfterFree'
      BY <1>1
  <2>2. LineInv'
      BY <1>1 DEF LineInv
  <2>3. TailInv'
      BY <1>1 DEF TailInv
  <2>4. LinkInv'
      BY <1>1 DEF LinkInv, LineInv
  <2>5. LockInv'
      BY <1>1 DEF LockInv, LineInv
  <2> QED  BY <2>1, <2>2, <2>3, <2>4, <2>5
<1>2. CASE tail = ptr[p]
  <2>1. Len(line) = 1
    <3>1. Len(line) \in 1..Len(line) /\ 1 \in 1..Len(line) /\ line[Len(line)] \in InLine
        BY <1>0 DEF LineInv
    <3>2. line[Len(line)] = p
        BY <1>0, <1>2, <3>1 DEF TailInv
    <3>3. \A i, j \in 1..Len(line) : line[i] = line[j] => i = j
        BY DEF LineInv
    <3> HIDE DEF McsInv
    <3> QED  BY <3>1, <3>2, <3>3, <1>0
  <2>2. line' = <<>> /\ line' \in Seq(Procs) /\ Len(line') = 0
      BY <1>2, <2>1, <1>0, TailLine
  <2>3. \A q \in InLine : q = p
      BY <2>1, <1>0 DEF LineInv
  <2>4. TypeOK' /\ OwnInv' /\ NoUseAfterFree'
      BY <1>2, <2>2
  <2>5. LineInv'
      BY <1>2, <2>2, <2>3 DEF LineInv
  <2>6. TailInv'
      BY <1>2, <2>2 DEF TailInv
  <2>7. LinkInv' /\ LockInv'
      BY <2>2 DEF LinkInv, LockInv
  <2> QED  BY <2>4, <2>5, <2>6, <2>7
<1> QED  BY <1>1, <1>2

(* The thread that holds the lock waits for the one behind to link.        *)
LEMMA WaitNextKeeps ==
    ASSUME McsInv, NEW p \in Procs, WaitNext(p)
    PROVE  McsInv'
<1> USE McsAssumption DEF McsInv, TypeOK, Address, OwnInv, InLine, Goto, Touch, NoUseAfterFree
<1>1. TypeOK'
    BY DEF WaitNext
<1>2. OwnInv'
    BY DEF WaitNext
<1>3. LineInv'
    BY DEF WaitNext, LineInv
<1>4. TailInv'
    BY DEF WaitNext, TailInv, LineInv
<1>5. LinkInv'
    BY DEF WaitNext, LinkInv, LineInv, TailInv
<1>6. LockInv'
    BY DEF WaitNext, LockInv, LineInv, LinkInv, TailInv
<1>7. NoUseAfterFree'
    BY DEF WaitNext
<1> QED  BY <1>1, <1>2, <1>3, <1>4, <1>5, <1>6, <1>7

(* The node unlocked is that of the thread behind.                         *)
LEMMA HandOverKeeps ==
    ASSUME McsInv, NEW p \in Procs, HandOver(p)
    PROVE  McsInv'
<1> USE McsAssumption DEF McsInv, TypeOK, Address, OwnInv, InLine, Goto, HandOver
<1>0. /\ Len(line) \in Nat /\ Len(line) > 0 /\ line # <<>> /\ line[1] = p
      /\ ptr[p] \in heap /\ next[ptr[p]] # Null
  <2>1. p \in Holding /\ pc[p] = "hand_over"
      BY DEF Holding
  <2>2. /\ Len(line) \in Nat /\ Len(line) > 0 /\ line # <<>> /\ line[1] = p
        /\ ptr[p] \in heap
      BY <2>1, HolderFirst
  <2> QED  BY <2>1, <2>2 DEF LockInv
<1> DEFINE q == line[2]
<1>1. Len(line) > 1
    BY <1>0 DEF TailInv
<1>2. q \in InLine /\ q # p
    BY <1>0, <1>1 DEF LineInv
<1>3. next[ptr[p]] = ptr[q] /\ pc[q] = "wait" /\ ptr[q] \in heap
    BY <1>0, <1>1, <1>2 DEF LinkInv, LockInv
<1>4. /\ line' \in Seq(Procs) /\ Len(line') = Len(line) - 1 /\ line' # <<>>
      /\ \A i \in 1..(Len(line) - 1) : line'[i] = line[i + 1]
    BY <1>0, <1>1, TailLine
<1> HIDE DEF q
<1>5. TypeOK'
    BY <1>3, <1>4
<1>6. OwnInv'
    OBVIOUS
<1>7. /\ \A i \in 1..Len(line') : i + 1 \in 1..Len(line) /\ line'[i] = line[i + 1]
      /\ \A i \in 1..Len(line') : line'[i] \in InLine /\ line'[i] # p
      /\ \A i \in 1..Len(line') : pc'[line'[i]] = pc[line[i + 1]]
    BY <1>0, <1>4 DEF LineInv
<1>8. LineInv'
  <2>1. \A i \in 1..Len(line') : line'[i] \in InLine'
      BY <1>7
  <2>2. \A r \in InLine' : \E i \in 1..Len(line') : line'[i] = r
    <3> SUFFICES ASSUME NEW r \in InLine' PROVE \E i \in 1..Len(line') : line'[i] = r
        OBVIOUS
    <3>1. r \in InLine /\ r # p
        OBVIOUS
    <3>2. PICK i \in 1..Len(line) : line[i] = r
        BY <3>1 DEF LineInv
    <3>3. i - 1 \in 1..Len(line') /\ line'[i - 1] = r
        BY <3>1, <3>2, <1>0, <1>4
    <3> QED  BY <3>3
  <2>3. \A i, j \in 1..Len(line') : line'[i] = line'[j] => i = j
    <3> SUFFICES ASSUME NEW i \in 1..Len(line'), NEW j \in 1..Len(line'), line'[i] = line'[j]
                 PROVE  i = j
        OBVIOUS
    <3>1. i + 1 = j + 1
        BY <1>7 DEF LineInv
    <3> QED  BY <3>1
  <2> QED  BY <2>1, <2>2, <2>3 DEF LineInv
<1>9. TailInv'
  <2>1. line'[Len(line')] = line[Len(line)]
      BY <1>0, <1>1, <1>4
  <2> QED  BY <2>1, <1>0, <1>4 DEF TailInv
<1>10. LinkInv'
  <2> SUFFICES ASSUME NEW i \in 1..Len(line'), NEW j \in 1..Len(line'), j = i + 1
               PROVE  IF pc'[line'[j]] \in {"set_locked", "link"}
                      THEN pred[line'[j]] = ptr[line'[i]] /\ next[ptr[line'[i]]] = Null
                      ELSE next[ptr[line'[i]]] = ptr[line'[j]]
      BY DEF LinkInv
  <2>1. j + 1 = (i + 1) + 1 /\ i + 1 \in 1..Len(line) /\ j + 1 \in 1..Len(line)
      BY <1>7
  <2> QED  BY <1>7, <2>1 DEF LinkInv
<1>11. LockInv'
  <2> SUFFICES ASSUME NEW i \in 1..Len(line')
               PROVE  /\ i > 1 => pc[line[i + 1]] \in {"set_locked", "link", "wait"}
                      /\ i > 1 /\ pc[line[i + 1]] \in {"link", "wait"} => locked'[ptr[line[i + 1]]] = 1
                      /\ i = 1 => pc[line[i + 1]] \notin {"set_locked", "link"}
                      /\ i = 1 /\ pc[line[i + 1]] = "wait" => locked'[ptr[line[i + 1]]] = 0
                      /\ pc[line[i + 1]] = "hand_over" => next[ptr[line[i + 1]]] # Null
      BY <1>7 DEF LockInv
  <2>1. CASE i = 1
      BY <2>1, <1>3, <1>5 DEF q
  <2>2. CASE i > 1
    <3>1. i + 1 \in 1..Len(line) /\ line[i + 1] \in InLine /\ line[i + 1] # q
        BY <2>2, <1>1, <1>4, <1>7 DEF q, LineInv
    <3>2. locked'[ptr[line[i + 1]]] = locked[ptr[line[i + 1]]]
        BY <3>1, <1>2, <1>3
    <3> QED  BY <2>2, <3>1, <3>2 DEF LockInv
  <2> QED  BY <2>1, <2>2
<1>12. NoUseAfterFree'
    BY <1>0, <1>3 DEF NoUseAfterFree
<1> QED  BY <1>5, <1>6, <1>8, <1>9, <1>10, <1>11, <1>12

(* A thread that has left the line is the only one to know its node.       *)
LEMMA FreeKeeps ==
    ASSUME McsInv, NEW p \in Procs, Free(p)
    PROVE  McsInv'
<1> USE McsAssumption DEF McsInv, TypeOK, Address, OwnInv, InLine, Goto, Touch, NoUseAfterFree
<1>1. TypeOK'
    BY DEF Free
<1>2. OwnInv'
    BY DEF Free
<1>3. LineInv'
    BY DEF Free, LineInv
<1>4. TailInv'
    BY DEF Free, TailInv, LineInv
<1>5. LinkInv'
  <2>1. \A i \in 1..Len(line) : line[i] \in Procs /\ line[i] # p
      BY DEF Free, LineInv
  <2>2. \A i \in 1..Len(line) : /\ ptr'[line[i]] = ptr[line[i]] /\ pred'[line[i]] = pred[line[i]]
                                 /\ pc'[line[i]] = pc[line[i]]
      BY <2>1 DEF Free
  <2> QED  BY <2>2 DEF Free, LinkInv
<1>6. LockInv'
    BY DEF Free, LockInv, LineInv, LinkInv, TailInv
<1>7. NoUseAfterFree'
    BY DEF Free
<1> QED  BY <1>1, <1>2, <1>3, <1>4, <1>5, <1>6, <1>7

-----------------------------------------------------------------------------
(* Nobody waits in the lock of mcs_init.                                   *)
LEMMA InitInv == Init => McsInv
<1> SUFFICES ASSUME Init PROVE McsInv
    OBVIOUS
<1>1. line = <<>> /\ Len(line) = 0 /\ line \in Seq(Procs)
    BY DEF Init
<1>2. TypeOK /\ OwnInv /\ NoUseAfterFree
    BY <1>1 DEF Init, TypeOK, Address, OwnInv, NoUseAfterFree
<1>3. LineInv /\ TailInv /\ LinkInv /\ LockInv
    BY <1>1 DEF Init, LineInv, InLine, TailInv, LinkInv, LockInv
<1> QED  BY <1>2, <1>3 DEF McsInv

(* Every access keeps the line as the nodes show it.                       *)
LEMMA NextInv == McsInv /\ [Next]_vars => McsInv'
<1> SUFFICES ASSUME McsInv, [Next]_vars PROVE McsInv'
    OBVIOUS
<1>1. CASE UNCHANGED vars
    BY <1>1 DEF vars, McsInv, TypeOK, Address, OwnInv, LineInv, InLine, TailInv, LinkInv,
                LockInv, NoUseAfterFree
<1>2. ASSUME NEW p \in Procs, mcs_get_access(p) PROVE McsInv'
    BY <1>2, AllocKeeps, SwapTailKeeps, SetLockedKeeps, LinkKeeps, WaitUnlockedKeeps
    DEF mcs_get_access
<1>3. ASSUME NEW p \in Procs, mcs_relinquish(p) PROVE McsInv'
    BY <1>3, LoadNextKeeps, CasTailKeeps, WaitNextKeeps, HandOverKeeps, FreeKeeps
    DEF mcs_relinquish
<1> QED  BY <1>1, <1>2, <1>3 DEF Next

(* The inductive invariant holds in every state of the lock.               *)
THEOREM Invariant == Spec => []McsInv
  BY InitInv, NextInv, PTL DEF Spec

(* No access of mcs_get_access or mcs_relinquish hits a node that has been *)
(* freed: neither the link written into the predecessor's node, nor the    *)
(* unlock written into the successor's.                                    *)
THEOREM NodesAlive == Spec => []NoUseAfterFree
<1>1. McsInv => NoUseAfterFree
    BY DEF McsInv
<1> QED  BY <1>1, Invariant, PTL

-----------------------------------------------------------------------------
(* Each access is a step of the fair line, or changes nothing there.       *)
LEMMA StepInOrder ==
    ASSUME McsInv, [Next]_vars
    PROVE  [Ticket!Next]_<<line, Holding>>
<1> USE DEF Holding, Goto
<1>1. CASE UNCHANGED vars
    BY <1>1 DEF vars
<1>2. ASSUME NEW p \in Procs,
             \/ Alloc(p) \/ SetLocked(p) \/ Link(p) \/ LoadNext(p) \/ WaitNext(p) \/ Free(p)
      PROVE  UNCHANGED <<line, Holding>>
    BY <1>2 DEF McsInv, TypeOK, Alloc, SetLocked, Link, LoadNext, WaitNext, Free
<1>3. ASSUME NEW p \in Procs, SwapTail(p)
      PROVE  Ticket!Join(p) \/ Ticket!JoinAndEnter(p)
  <2>1. tail = Null <=> line = <<>>
    <3>1. line # <<>> => Len(line) \in 1..Len(line)
        BY DEF McsInv, TypeOK
    <3>2. line # <<>> => line[Len(line)] \in InLine
        BY <3>1 DEF McsInv, LineInv
    <3> QED  BY <3>2, McsAssumption DEF McsInv, TailInv, OwnInv, TypeOK, InLine
  <2>2. CASE line = <<>>
    <3>1. Holding = {}
        BY <2>2, HolderFirst
    <3>2. Holding' = {p}
        BY <1>3, <2>1, <2>2, <3>1 DEF SwapTail, McsInv, TypeOK
    <3>3. line' = <<p>>
        BY <1>3, <2>2 DEF SwapTail
    <3> QED  BY <2>2, <3>1, <3>2, <3>3 DEF Ticket!JoinAndEnter
  <2>3. CASE line # <<>>
    <3>1. \A i \in DOMAIN line : line[i] # p
        BY <1>3 DEF SwapTail, McsInv, TypeOK, LineInv, InLine
    <3>2. Holding' = Holding
        BY <1>3, <2>1, <2>3 DEF SwapTail, McsInv, TypeOK
    <3> QED  BY <1>3, <3>1, <3>2 DEF SwapTail, Ticket!Join
  <2> QED  BY <2>2, <2>3
<1>4. ASSUME NEW p \in Procs, WaitUnlocked(p)
      PROVE  Ticket!Enter(p)
  <2>1. PICK i \in 1..Len(line) : line[i] = p
      BY <1>4 DEF WaitUnlocked, McsInv, LineInv, InLine
  <2>2. i = 1 /\ line # <<>>
      BY <1>4, <2>1 DEF WaitUnlocked, McsInv, LockInv, TypeOK
  <2>3. Head(line) = p
      BY <2>1, <2>2, TailLine DEF McsInv, TypeOK
  <2>4. Holding' = Holding \cup {p}
      BY <1>4 DEF WaitUnlocked, McsInv, TypeOK
  <2> QED  BY <1>4, <2>2, <2>3, <2>4 DEF WaitUnlocked, Ticket!Enter
<1>5. ASSUME NEW p \in Procs, CasTail(p)
      PROVE  Ticket!Leave(p) \/ UNCHANGED <<line, Holding>>
  <2>1. CASE tail = ptr[p]
    <3>1. p \in Holding /\ Holding' = Holding \ {p} /\ line' = Tail(line)
        BY <1>5, <2>1 DEF CasTail, McsInv, TypeOK
    <3> QED  BY <3>1 DEF Ticket!Leave
  <2>2. CASE tail # ptr[p]
      BY <1>5, <2>2 DEF CasTail, McsInv, TypeOK
  <2> QED  BY <2>1, <2>2
<1>6. ASSUME NEW p \in Procs, HandOver(p)
      PROVE  Ticket!Leave(p)
  <2>1. p \in Holding /\ Holding' = Holding \ {p} /\ line' = Tail(line)
      BY <1>6 DEF HandOver, McsInv, TypeOK
  <2> QED  BY <2>1 DEF Ticket!Leave
<1> QED
    BY <1>1, <1>2, <1>3, <1>4, <1>5, <1>6
    DEF Next, mcs_get_access, mcs_relinquish, Ticket!Next

(* The lock is given in the order of the exchanges of tail, to one thread  *)
(* at a time: the accesses of mcs_get_access and mcs_relinquish implement  *)
(* the fair line.                                                          *)
THEOREM InOrder == Spec => ServesInOrder
<1>1. Init => Ticket!Init
    BY DEF Init, Ticket!Init, Holding
<1>2. McsInv /\ [Next]_vars => [Ticket!Next]_<<line, Holding>>
    BY StepInOrder
<1> QED  BY <1>1, <1>2, Invariant, PTL DEF Spec, ServesInOrder, Ticket!Spec

=============================================================================
