--------------------------- MODULE EvQueueProofs ---------------------------
(***************************************************************************)
(* The lock-free queue implements the queue of its callers, for any number *)
(* of threads, addresses and calls, and as long as nobody uses try_dequeue *)
(* no freed node is touched.                                               *)
(*                                                                         *)
(* QueueInv says how head, tail and the links spell out the line, and for  *)
(* each thread what the addresses it holds mean.  A dequeuer that has      *)
(* cleared tail no longer has a claim on the line: an enqueue may then     *)
(* store head before the dequeuer does, and the dequeuer aborts.           *)
(***************************************************************************)
EXTENDS EvQueue, SequenceTheorems, TLAPS

Address == Nodes \cup {Null}
Cells   == [data : Items \cup {Null}, next : Address, inflight : {0, 1},
            magic : {"LIVE", "FREED"}]
Refs    == [node : Address, marked : BOOLEAN]

(* Where an enqueuer writes to the old tail, and where it has not linked.  *)
WritePCs == {"inflight", "magic", "link", "clear"}
LinkPCs  == {"inflight", "magic", "link"}

EnqueuePCs == {"idle", "swap", "sethead"} \cup WritePCs
DequeuePCs == {"idle", "tail", "head", "mark"} \cup ClaimPCs

(* The types, and the only two checks that can end the process.            *)
TypeOK ==
    /\ head \in Refs
    /\ tail \in Address
    /\ mem \in [Nodes -> Cells]
    /\ heap \subseteq Nodes
    /\ pc \in [Procs -> EnqueuePCs \cup DequeuePCs]
    /\ \A e \in Enqueuers : pc[e] \in EnqueuePCs
    /\ \A t \in Takers : pc[t] \in DequeuePCs
    /\ ptr \in [Procs -> Address]
    /\ other \in [Procs -> Address]
    /\ count \in [Enqueuers -> 0..MaxEnqueues]
    /\ result \in [Takers -> Items \cup {Null, None, Empty, Busy}]
    /\ crash \in {"none", "head_CAS", "inflight"}
    /\ uaf \in BOOLEAN
    /\ line \in Seq(Nodes)

(* The line is what tail and the links say, and all of it is allocated.    *)
LineInv ==
    /\ \A i \in 1..Len(line) : line[i] \in heap
    /\ \A i, j \in 1..Len(line) : line[i] = line[j] => i = j
    /\ tail = IF line = <<>> THEN Null ELSE line[Len(line)]
    /\ \A i \in 1..Len(line) :
          \/ mem[line[i]].next = Null
          \/ i < Len(line) /\ mem[line[i]].next = line[i + 1]
    /\ \A n \in heap : mem[n].magic = "LIVE" /\ mem[n].data \in Items

InLine(n) == \E i \in 1..Len(line) : line[i] = n

(* An unmarked head is the first of the line.                              *)
HeadInv ==
    /\ head.node \in heap \cup {Null}
    /\ head.node = Null => ~head.marked
    /\ head.node # Null /\ ~head.marked => line # <<>> /\ line[1] = head.node

(* An enqueuer before the exchange of tail has a new node nobody knows.    *)
SwapInv ==
    /\ \A e \in Enqueuers : pc[e] = "swap" =>
          /\ ptr[e] \in heap /\ mem[ptr[e]].next = Null
          /\ ptr[e] # head.node /\ ~InLine(ptr[e])
    /\ \A e, f \in Enqueuers : pc[e] = "swap" /\ pc[f] = "swap" /\ ptr[e] = ptr[f] => e = f

(* After it, it has a node of the line and the one behind, not yet linked. *)
LinkInv ==
    /\ \A e \in Enqueuers : pc[e] \in LinkPCs =>
          /\ mem[other[e]].next = Null
          /\ \E i \in 1..Len(line) :
                i < Len(line) /\ other[e] = line[i] /\ ptr[e] = line[i + 1]
    /\ \A e, f \in Enqueuers :
          pc[e] \in LinkPCs /\ pc[f] \in LinkPCs /\ other[e] = other[f] => e = f

(* Or it has the first of a line that has no head.                         *)
StartInv ==
    /\ \A e \in Enqueuers : pc[e] = "sethead" =>
          line # <<>> /\ ptr[e] = line[1] /\ head.node # line[1]
    /\ \A e, f \in Enqueuers : pc[e] = "sethead" /\ pc[f] = "sethead" => e = f

(* Taker t has marked the head and it is the first of the line.            *)
Holds(t) == \/ pc[t] \in {"next", "asserttail", "castail", "spin"}
            \/ pc[t] = "cashead" /\ other[t] # Null

(* What a taker holds: a node of its own, first of the line until it has   *)
(* taken it off.                                                           *)
ClaimInv ==
    /\ \A t \in Takers : pc[t] \in ClaimPCs =>
          /\ ptr[t] \in heap
          /\ Holds(t) => line # <<>> /\ line[1] = ptr[t]
                            /\ head = [node |-> ptr[t], marked |-> TRUE]
          /\ ~Holds(t) => ~InLine(ptr[t])
    /\ \A t \in Takers : pc[t] \in {"checkinflight", "free"} => head.node # ptr[t]
    /\ \A t, u \in Takers :
          pc[t] \in ClaimPCs /\ pc[u] \in ClaimPCs /\ ptr[t] = ptr[u] => t = u
    /\ \A t \in Takers, e \in Enqueuers :
          pc[t] \in ClaimPCs /\ pc[e] = "swap" => ptr[t] # ptr[e]

(* What it has read.                                                       *)
ReadInv ==
    /\ \A t \in Takers : pc[t] # "idle" => result[t] = None
    /\ \A t \in Takers : pc[t] = "mark" => ptr[t] # Null
    /\ \A t \in Takers : pc[t] \in {"asserttail", "cashead"} =>
          other[t] \in {Null, mem[ptr[t]].next}
    /\ \A t \in Takers : pc[t] = "castail" => other[t] = Null

(* Without try_dequeue: nobody but the enqueuer that found it at the tail  *)
(* writes to a node, which is allocated, ...                               *)
WriteInv ==
    /\ \A e \in Enqueuers : pc[e] \in WritePCs => other[e] \in heap /\ other[e] # tail
    /\ \A e, f \in Enqueuers :
          pc[e] \in WritePCs /\ pc[f] = "swap" => other[e] # ptr[f]
    /\ \A e, f \in Enqueuers :
          pc[e] \in WritePCs /\ pc[f] \in WritePCs /\ other[e] = other[f] => e = f

(* ... its flag is up meanwhile, and it is freed after the flag was seen   *)
(* down.                                                                   *)
FlagInv ==
    /\ \A e \in Enqueuers :
          pc[e] \in {"magic", "link", "clear"} => mem[other[e]].inflight = 1
    /\ \A t \in Takers, e \in Enqueuers :
          pc[t] = "free" /\ pc[e] \in WritePCs => other[e] # ptr[t]

UseInv == ~uaf /\ WriteInv /\ FlagInv

QueueInv == TypeOK /\ LineInv /\ HeadInv /\ SwapInv /\ LinkInv /\ StartInv
               /\ ClaimInv /\ ReadInv

-----------------------------------------------------------------------------
(* Enqueuers and takers are different threads.                             *)
LEMMA Names ==
    /\ Enqueuers \subseteq Procs /\ Takers \subseteq Procs
    /\ \A e \in Enqueuers, t \in Takers : e # t
    /\ \A n \in Nodes : n # Null
BY QueueAssumption DEF Procs

(* A node joins the line at its end.                                       *)
LEMMA Joined ==
    ASSUME NEW S, NEW s \in Seq(S), NEW x \in S
    PROVE  /\ Append(s, x) \in Seq(S) /\ Append(s, x) # <<>>
           /\ Len(s) \in Nat /\ Len(Append(s, x)) = Len(s) + 1
           /\ Append(s, x)[Len(s) + 1] = x
           /\ \A i \in 1..Len(s) : Append(s, x)[i] = s[i]
           /\ s = <<>> <=> Len(s) = 0
<1>1. /\ Append(s, x) \in Seq(S) /\ Len(Append(s, x)) = Len(s) + 1
      /\ \A i \in 1..Len(s) : Append(s, x)[i] = s[i]
      /\ Append(s, x)[Len(s) + 1] = x
  BY AppendProperties
<1>2. Len(s) \in Nat /\ (s = <<>> <=> Len(s) = 0)
  OBVIOUS
<1>3. Append(s, x) # <<>>
  BY <1>1, <1>2
<1> QED BY <1>1, <1>2, <1>3

(* The first node leaves the line.                                         *)
LEMMA Left ==
    ASSUME NEW S, NEW s \in Seq(S), s # <<>>
    PROVE  /\ Tail(s) \in Seq(S) /\ Len(s) \in Nat /\ Len(s) > 0
           /\ Len(Tail(s)) = Len(s) - 1
           /\ \A i \in 1..(Len(s) - 1) : Tail(s)[i] = s[i + 1]
           /\ Tail(s) = <<>> <=> Len(s) = 1
           /\ Head(s) = s[1] /\ s[1] \in S
<1>1. Len(s) \in Nat /\ Len(s) > 0 /\ Head(s) = s[1] /\ s[1] \in S
  OBVIOUS
<1>2. /\ Tail(s) \in Seq(S) /\ Len(Tail(s)) = Len(s) - 1
      /\ \A i \in 1..Len(Tail(s)) : Tail(s)[i] = s[i + 1]
  BY HeadTailProperties
<1>3. Tail(s) = <<>> <=> Len(Tail(s)) = 0
  BY <1>2
<1> QED BY <1>1, <1>2, <1>3

(* And one that joins a line is still there when the first has left.       *)
LEMMA TailOfAppend ==
    ASSUME NEW S, NEW s \in Seq(S), s # <<>>, NEW x \in S
    PROVE  Tail(Append(s, x)) = Append(Tail(s), x)
<1> DEFINE t == Append(s, x)
<1>1. /\ t \in Seq(S) /\ t # <<>> /\ Len(t) = Len(s) + 1 /\ t[Len(s) + 1] = x
      /\ \A i \in 1..Len(s) : t[i] = s[i]
  BY Joined
<1>2. /\ Tail(s) \in Seq(S) /\ Len(s) \in Nat /\ Len(s) > 0
      /\ Len(Tail(s)) = Len(s) - 1
      /\ \A i \in 1..(Len(s) - 1) : Tail(s)[i] = s[i + 1]
  BY Left
<1> HIDE DEF t
<1>3. /\ Tail(t) \in Seq(S) /\ Len(Tail(t)) = Len(s)
      /\ \A i \in 1..Len(s) : Tail(t)[i] = t[i + 1]
  BY <1>1, <1>2, HeadTailProperties
<1>4. /\ Append(Tail(s), x) \in Seq(S) /\ Len(Append(Tail(s), x)) = Len(s)
      /\ \A i \in 1..(Len(s) - 1) : Append(Tail(s), x)[i] = s[i + 1]
      /\ Append(Tail(s), x)[Len(s)] = x
  BY <1>2, AppendProperties
<1>5. ASSUME NEW i \in 1..Len(Tail(t)) PROVE Tail(t)[i] = Append(Tail(s), x)[i]
  <2>1. CASE i = Len(s)
    BY <1>1, <1>2, <1>3, <1>4, <2>1
  <2>2. CASE i \in 1..(Len(s) - 1)
    <3>1. i + 1 \in 1..Len(s)
      BY <1>2, <2>2
    <3> QED BY <1>1, <1>3, <1>4, <2>2, <3>1
  <2>3. i \in 1..Len(s)
    BY <1>3
  <2>4. \A n \in Nat : \A k \in 1..n : k = n \/ k \in 1..(n - 1)
    OBVIOUS
  <2>5. i = Len(s) \/ i \in 1..(Len(s) - 1)
    BY <1>2, <2>3, <2>4, Zenon
  <2> QED BY <2>1, <2>2, <2>5
<1> QED BY <1>3, <1>4, <1>5, SeqEqual DEF t

(* The length of the line, and its ends when it is not empty.              *)
LEMMA LineLength ==
    ASSUME TypeOK
    PROVE  /\ Len(line) \in Nat /\ line \in Seq(Nodes)
           /\ line = <<>> <=> Len(line) = 0
           /\ line # <<>> => 1 \in 1..Len(line) /\ Len(line) \in 1..Len(line)
           /\ \A i \in 1..Len(line) : line[i] \in Nodes
BY DEF TypeOK

(* Thread p has gone to label l with the addresses x and y; the others     *)
(* have not moved.                                                         *)
Moved(p, l, x, y) ==
    /\ pc' \in [Procs -> EnqueuePCs \cup DequeuePCs]
    /\ ptr' \in [Procs -> Address] /\ other' \in [Procs -> Address]
    /\ pc'[p] = l /\ ptr'[p] = x /\ other'[p] = y
    /\ \A q \in Procs : q # p =>
          pc'[q] = pc[q] /\ ptr'[q] = ptr[q] /\ other'[q] = other[q]

(* What the assignments of a step make of pc, ptr and other.               *)
LEMMA Moves ==
    ASSUME TypeOK, NEW p \in Procs, NEW l \in EnqueuePCs \cup DequeuePCs,
           NEW x \in Address, NEW y \in Address, Goto(p, l),
           (ptr' = ptr /\ x = ptr[p]) \/ ptr' = [ptr EXCEPT ![p] = x],
           (other' = other /\ y = other[p]) \/ other' = [other EXCEPT ![p] = y]
    PROVE  Moved(p, l, x, y)
BY DEF TypeOK, Goto, Moved

(* The nodes an enqueuer works on before it has linked them.               *)
LEMMA Linker ==
    ASSUME TypeOK, LineInv, LinkInv, NEW e \in Enqueuers, pc[e] \in LinkPCs
    PROVE  /\ other[e] \in heap /\ other[e] \in Nodes /\ other[e] # Null
           /\ ptr[e] \in heap /\ ptr[e] \in Nodes /\ line # <<>>
           /\ InLine(other[e]) /\ other[e] # tail
<1>1. PICK i \in 1..Len(line) : i < Len(line) /\ other[e] = line[i] /\ ptr[e] = line[i + 1]
  BY DEF LinkInv
<1>2. i + 1 \in 1..Len(line) /\ line # <<>>
  BY <1>1, LineLength
<1> QED BY <1>1, <1>2, LineLength, Names DEF LineInv, TypeOK, InLine

(* Steps that neither touch the line nor link leave the linkers alone.     *)
LEMMA LinkKept ==
    ASSUME TypeOK, LineInv, LinkInv, line' = line,
           \A n \in heap : mem'[n].next = mem[n].next,
           \A e \in Enqueuers : pc'[e] \in LinkPCs =>
              pc[e] \in LinkPCs /\ other'[e] = other[e] /\ ptr'[e] = ptr[e]
    PROVE  LinkInv'
<1>1. ASSUME NEW e \in Enqueuers, pc'[e] \in LinkPCs
      PROVE  mem'[other'[e]].next = Null
  BY <1>1, Linker DEF LinkInv
<1> QED BY <1>1 DEF LinkInv

(* Nobody has linked, claimed or queued a node that malloc returns.        *)
LEMMA AllocKeeps ==
    ASSUME QueueInv, NEW p \in Enqueuers, EnqAlloc(p)
    PROVE  QueueInv' /\ (UseInv => UseInv')
<1>0. /\ TypeOK /\ LineInv /\ HeadInv /\ SwapInv /\ LinkInv /\ StartInv
      /\ ClaimInv /\ ReadInv
  BY DEF QueueInv
<1>1. PICK n \in Nodes \ heap :
         /\ heap' = heap \cup {n} /\ ptr' = [ptr EXCEPT ![p] = n]
         /\ mem' = [mem EXCEPT ![n] = [data |-> <<p, count[p] + 1>>, next |-> Null,
                                       inflight |-> 0, magic |-> "LIVE"]]
  BY DEF EnqAlloc
<1>2. pc[p] = "idle" /\ Moved(p, "swap", n, other[p])
  <2>1. n \in Address /\ other[p] \in Address /\ p \in Procs
    BY <1>0, Names DEF TypeOK, Address
  <2> QED BY <1>0, <1>1, <2>1, Moves DEF EnqAlloc, At, EnqueuePCs
<1>3. <<p, count[p] + 1>> \in Items /\ count' \in [Enqueuers -> 0..MaxEnqueues]
  BY <1>0, QueueAssumption DEF TypeOK, EnqAlloc, Items
<1>4. /\ mem' \in [Nodes -> Cells]
      /\ mem'[n].next = Null /\ mem'[n].magic = "LIVE" /\ mem'[n].data \in Items
      /\ \A m \in Nodes : m # n => mem'[m] = mem[m]
  BY <1>0, <1>1, <1>3 DEF TypeOK, Cells, Address
<1>5. /\ head' = head /\ tail' = tail /\ result' = result /\ crash' = crash
      /\ uaf' = uaf /\ line' = line
  BY DEF EnqAlloc
<1>6. TypeOK'
  BY <1>0, <1>1, <1>2, <1>3, <1>4, <1>5, Names DEF TypeOK, Moved, EnqueuePCs
<1>7. LineInv'
  BY <1>0, <1>1, <1>4, <1>5, LineLength DEF LineInv, TypeOK
<1>8. HeadInv'
  BY <1>0, <1>1, <1>5 DEF HeadInv
<1>9. SwapInv'
  <2>1. \A m : InLine(m)' <=> InLine(m)
    BY <1>5 DEF InLine
  <2>2. ~InLine(n) /\ n # head.node
    BY <1>0, <1>1, Names DEF InLine, LineInv, HeadInv
  <2> QED BY <1>0, <1>1, <1>2, <1>4, <1>5, <2>1, <2>2, Names DEF SwapInv, Moved, TypeOK
<1>10. LinkInv' /\ StartInv'
  <2>0. \A m \in heap : mem'[m].next = mem[m].next
    BY <1>0, <1>1, <1>4 DEF TypeOK
  <2>1. \A e \in Enqueuers : pc'[e] \in LinkPCs =>
           pc[e] \in LinkPCs /\ other'[e] = other[e] /\ ptr'[e] = ptr[e]
    BY <1>2, Names DEF LinkPCs, Moved
  <2>2. LinkInv'
    BY <1>0, <1>5, <2>0, <2>1, LinkKept
  <2>3. StartInv'
    BY <1>0, <1>2, <1>5, Names DEF StartInv, Moved
  <2> QED BY <2>2, <2>3
<1>11. ClaimInv' /\ ReadInv'
  BY <1>0, <1>1, <1>2, <1>4, <1>5, Names, LineLength
  DEF ClaimInv, ReadInv, InLine, Holds, Moved, TypeOK, ClaimPCs
<1>12. ASSUME UseInv PROVE UseInv'
  <2>1. WriteInv /\ FlagInv /\ ~uaf
    BY <1>12 DEF UseInv
  <2>2. WriteInv'
    BY <1>0, <1>1, <1>2, <1>5, <2>1, Names DEF WriteInv, Moved, WritePCs
  <2>3. FlagInv'
    BY <1>0, <1>1, <1>2, <1>4, <1>5, <2>1, Names DEF WriteInv, FlagInv, Moved, WritePCs, TypeOK
  <2> QED BY <2>1, <2>2, <2>3, <1>5 DEF UseInv
<1> QED BY <1>6, <1>7, <1>8, <1>9, <1>10, <1>11, <1>12 DEF QueueInv

(* The exchange of tail: the new node joins the line.                      *)
LEMMA SwapKeeps ==
    ASSUME QueueInv, NEW p \in Enqueuers, EnqSwapTail(p)
    PROVE  QueueInv' /\ (UseInv => UseInv')
<1> DEFINE n == ptr[p]
           l == IF tail = Null THEN "sethead" ELSE "inflight"
<1>0. /\ TypeOK /\ LineInv /\ HeadInv /\ SwapInv /\ LinkInv /\ StartInv
      /\ ClaimInv /\ ReadInv
  BY DEF QueueInv
<1>1. pc[p] = "swap" /\ Moved(p, l, n, tail)
  <2>1. /\ n \in Address /\ tail \in Address /\ p \in Procs
        /\ l \in EnqueuePCs \cup DequeuePCs
    BY <1>0, Names DEF TypeOK, EnqueuePCs, WritePCs
  <2> QED BY <1>0, <2>1, Moves DEF EnqSwapTail, At
<1>2. /\ n \in heap /\ n \in Nodes /\ mem[n].next = Null /\ n # head.node /\ ~InLine(n)
  BY <1>0, <1>1 DEF SwapInv, TypeOK
<1>3. /\ head' = head /\ tail' = n /\ mem' = mem /\ heap' = heap /\ count' = count
      /\ result' = result /\ crash' = crash /\ uaf' = uaf /\ line' = Append(line, n)
  BY DEF EnqSwapTail
<1>4. /\ line' \in Seq(Nodes) /\ line' # <<>> /\ Len(line) \in Nat
      /\ Len(line') = Len(line) + 1 /\ line'[Len(line) + 1] = n
      /\ \A i \in 1..Len(line) : line'[i] = line[i]
      /\ line = <<>> <=> Len(line) = 0
  <2>1. line \in Seq(Nodes) /\ n \in Nodes
    BY <1>0, <1>2 DEF TypeOK
  <2> HIDE DEF n
  <2> QED BY <1>3, <2>1, Joined
<1>5. /\ \A i \in 1..Len(line') : i \in 1..Len(line) \/ (i = Len(line) + 1 /\ line'[i] = n)
      /\ \A i \in 1..Len(line) : line[i] # n /\ line[i] \in Nodes /\ line[i] \in heap
      /\ \A m : InLine(m)' <=> InLine(m) \/ m = n
  <2>0. \A i \in 1..Len(line') : i \in 1..Len(line) \/ i = Len(line) + 1
    BY <1>4
  <2>1. \A i \in 1..Len(line') : i \in 1..Len(line) \/ (i = Len(line) + 1 /\ line'[i] = n)
    BY <1>4, <2>0
  <2>2. \A i \in 1..Len(line) : line[i] # n /\ line[i] \in Nodes /\ line[i] \in heap
    BY <1>0, <1>2 DEF InLine, LineInv, TypeOK
  <2>3. \A i \in 1..Len(line) : i \in 1..Len(line')
    BY <1>4
  <2>4. Len(line) + 1 \in 1..Len(line')
    BY <1>4
  <2> QED BY <1>4, <2>1, <2>2, <2>3, <2>4 DEF InLine
<1>6. tail = Null <=> line = <<>>
  BY <1>0, <1>4, <1>5, Names DEF LineInv, TypeOK
<1> HIDE DEF n
<1>7. TypeOK'
  BY <1>0, <1>1, <1>2, <1>3, <1>4, Names DEF TypeOK, Moved, EnqueuePCs, WritePCs, Address
<1>8. LineInv'
  <2>1. \A i \in 1..Len(line') : line'[i] \in heap'
    BY <1>2, <1>3, <1>4, <1>5
  <2>2. \A i, j \in 1..Len(line') : line'[i] = line'[j] => i = j
    BY <1>0, <1>4, <1>5 DEF LineInv
  <2>3. ASSUME NEW i \in 1..Len(line')
        PROVE  \/ mem'[line'[i]].next = Null
               \/ i < Len(line') /\ mem'[line'[i]].next = line'[i + 1]
    <3>1. CASE i \in 1..Len(line)
      <4>1. i < Len(line) => i + 1 \in 1..Len(line)
        BY <1>4, <3>1
      <4> QED BY <1>0, <1>3, <1>4, <3>1, <4>1 DEF LineInv
    <3>2. CASE line'[i] = n
      BY <1>2, <1>3, <3>2
    <3> QED BY <1>5, <3>1, <3>2
  <2> QED BY <1>0, <1>3, <1>4, <2>1, <2>2, <2>3 DEF LineInv
<1>9. line # <<>> => line'[1] = line[1]
  BY <1>4
<1>10. HeadInv'
  BY <1>0, <1>3, <1>4, <1>9 DEF HeadInv
<1>11. SwapInv'
  BY <1>0, <1>1, <1>3, <1>5, Names DEF SwapInv, Moved, n, l
<1>12. LinkInv'
  <2>1. ASSUME NEW e \in Enqueuers, pc'[e] \in LinkPCs
        PROVE  /\ mem'[other'[e]].next = Null
               /\ \E i \in 1..Len(line') :
                     i < Len(line') /\ other'[e] = line'[i] /\ ptr'[e] = line'[i + 1]
    <3>1. CASE e = p
      <4>1. line # <<>> /\ other'[p] = tail /\ ptr'[p] = n
        BY <1>1, <1>6, <2>1, <3>1 DEF Moved, l, LinkPCs
      <4>2. Len(line) \in 1..Len(line) /\ Len(line) \in 1..Len(line') /\ Len(line) < Len(line')
        BY <1>4, <4>1
      <4>3. tail = line[Len(line)] /\ line'[Len(line)] = tail
        BY <1>0, <1>4, <4>1, <4>2 DEF LineInv
      <4>4. mem[tail].next = Null
        BY <1>0, <4>2, <4>3 DEF LineInv
      <4> QED BY <1>3, <1>4, <3>1, <4>1, <4>2, <4>3, <4>4
    <3>2. CASE e # p
      <4>1. pc[e] \in LinkPCs /\ other'[e] = other[e] /\ ptr'[e] = ptr[e]
        BY <1>1, <2>1, <3>2, Names DEF Moved
      <4>2. PICK i \in 1..Len(line) :
               i < Len(line) /\ other[e] = line[i] /\ ptr[e] = line[i + 1]
        BY <1>0, <4>1 DEF LinkInv
      <4>3. /\ i \in 1..Len(line') /\ i < Len(line')
            /\ line'[i] = line[i] /\ line'[i + 1] = line[i + 1]
        BY <1>4, <4>2
      <4> QED BY <1>0, <1>3, <4>1, <4>2, <4>3 DEF LinkInv
    <3> QED BY <3>1, <3>2
  <2>2. ASSUME NEW e \in Enqueuers, NEW f \in Enqueuers, pc'[e] \in LinkPCs,
               pc'[f] \in LinkPCs, other'[e] = other'[f]
        PROVE  e = f
    <3>1. \A q \in Enqueuers : q # p /\ pc'[q] \in LinkPCs =>
             pc[q] \in LinkPCs /\ other'[q] = other[q] /\ other[q] # tail
      BY <1>0, <1>1, Names, Linker DEF Moved
    <3>2. other'[p] = tail
      BY <1>1 DEF Moved
    <3> QED BY <1>0, <2>2, <3>1, <3>2 DEF LinkInv
  <2> QED BY <2>1, <2>2 DEF LinkInv
<1>13. StartInv'
  <2>1. \A e \in Enqueuers : e # p => pc'[e] = pc[e] /\ ptr'[e] = ptr[e]
    BY <1>1, Names DEF Moved
  <2>2. pc'[p] = "sethead" => line = <<>> /\ line'[1] = n /\ ptr'[p] = n
    BY <1>1, <1>4, <1>6 DEF Moved, l
  <2> QED BY <1>0, <1>2, <1>3, <1>4, <1>9, <2>1, <2>2 DEF StartInv
<1>14. ClaimInv' /\ ReadInv'
  <2>1. \A t \in Takers : /\ pc'[t] = pc[t] /\ ptr'[t] = ptr[t] /\ other'[t] = other[t]
                          /\ pc[t] \in ClaimPCs => ptr[t] # n
                          /\ Holds(t)' <=> Holds(t)
    BY <1>0, <1>1, Names DEF Moved, ClaimInv, Holds, n
  <2>2. \A e \in Enqueuers : pc'[e] = "swap" => pc[e] = "swap" /\ ptr'[e] = ptr[e]
    BY <1>1, Names DEF Moved, l
  <2>3. ClaimInv'
    BY <1>0, <1>3, <1>4, <1>5, <1>9, <2>1, <2>2 DEF ClaimInv
  <2>4. ReadInv'
    BY <1>0, <1>3, <2>1 DEF ReadInv
  <2> QED BY <2>3, <2>4
<1>15. ASSUME UseInv PROVE UseInv'
  <2>1. WriteInv /\ FlagInv /\ ~uaf
    BY <1>15 DEF UseInv
  <2>2. \A e \in Enqueuers : e # p => pc'[e] = pc[e] /\ ptr'[e] = ptr[e] /\ other'[e] = other[e]
    BY <1>1, Names DEF Moved
  <2>3. pc'[p] \in WritePCs => pc'[p] = "inflight" /\ other'[p] = tail /\ InLine(tail)
    <3>1. line # <<>> => tail = line[Len(line)] /\ Len(line) \in 1..Len(line)
      BY <1>0, <1>4 DEF LineInv
    <3> QED BY <1>1, <1>6, <3>1 DEF Moved, l, WritePCs, InLine
  <2>4. InLine(tail) => tail \in heap /\ tail # n
    BY <1>0, <1>2, <1>5 DEF InLine
  <2>5. pc'[p] # "swap" /\ \A f \in Enqueuers : f # p /\ pc'[f] = "swap" => ~InLine(ptr[f])
    BY <1>0, <1>1, <2>2 DEF Moved, l, SwapInv
  <2>6. WriteInv'
    <3>1. \A e \in Enqueuers : e # p /\ pc[e] \in WritePCs => other[e] # n
      BY <1>1, <2>1 DEF WriteInv, n
    <3>2. \A e \in Enqueuers : pc'[e] \in WritePCs => other'[e] \in heap' /\ other'[e] # tail'
      BY <1>3, <2>1, <2>2, <2>3, <2>4, <3>1 DEF WriteInv
    <3>3. \A e, f \in Enqueuers :
             pc'[e] \in WritePCs /\ pc'[f] = "swap" => other'[e] # ptr'[f]
      BY <2>1, <2>2, <2>3, <2>5 DEF WriteInv
    <3>4. \A e, f \in Enqueuers :
             pc'[e] \in WritePCs /\ pc'[f] \in WritePCs /\ other'[e] = other'[f] => e = f
      BY <2>1, <2>2, <2>3 DEF WriteInv
    <3> QED BY <3>2, <3>3, <3>4 DEF WriteInv
  <2>7. FlagInv'
    <3>1. \A t \in Takers : pc'[t] = pc[t] /\ ptr'[t] = ptr[t]
      BY <1>1, Names DEF Moved
    <3>2. \A t \in Takers : pc[t] = "free" => ~InLine(ptr[t])
      BY <1>0 DEF ClaimInv, ClaimPCs, Holds
    <3>3. \A e \in Enqueuers :
             pc'[e] \in {"magic", "link", "clear"} => mem'[other'[e]].inflight = 1
      BY <1>3, <2>1, <2>2, <2>3 DEF FlagInv, WritePCs
    <3>4. \A t \in Takers, e \in Enqueuers :
             pc'[t] = "free" /\ pc'[e] \in WritePCs => other'[e] # ptr'[t]
      BY <2>1, <2>2, <2>3, <3>1, <3>2 DEF FlagInv
    <3> QED BY <3>3, <3>4 DEF FlagInv
  <2> QED BY <1>3, <2>1, <2>6, <2>7 DEF UseInv
<1> QED BY <1>7, <1>8, <1>10, <1>11, <1>12, <1>13, <1>14, <1>15 DEF QueueInv

(* An enqueuer between its exchange of tail and its return changes only    *)
(* the flag of a node.                                                     *)
LEMMA WriterMoves ==
    ASSUME QueueInv, NEW p \in Enqueuers, NEW l \in WritePCs \cup {"idle"},
           NEW x, NEW y, Moved(p, l, x, y),
           l \in LinkPCs => pc[p] \in LinkPCs /\ x = ptr[p] /\ y = other[p],
           head' = head, tail' = tail, heap' = heap, line' = line, count' = count,
           result' = result, crash' = crash, uaf' \in BOOLEAN, mem' \in [Nodes -> Cells],
           \A n \in Nodes : /\ mem'[n].next = mem[n].next /\ mem'[n].data = mem[n].data
                            /\ mem'[n].magic = mem[n].magic
    PROVE  QueueInv'
<1>0. /\ TypeOK /\ LineInv /\ HeadInv /\ SwapInv /\ LinkInv /\ StartInv
      /\ ClaimInv /\ ReadInv
  BY DEF QueueInv
<1>1. /\ \A e \in Enqueuers : e # p => pc'[e] = pc[e] /\ ptr'[e] = ptr[e] /\ other'[e] = other[e]
      /\ \A t \in Takers : /\ pc'[t] = pc[t] /\ ptr'[t] = ptr[t] /\ other'[t] = other[t]
                           /\ Holds(t)' <=> Holds(t)
      /\ pc'[p] = l /\ l \notin {"swap", "sethead"} /\ l \in EnqueuePCs
      /\ \A m : InLine(m)' <=> InLine(m)
  BY Names DEF Moved, WritePCs, EnqueuePCs, Holds, InLine
<1>2. TypeOK'
  BY <1>0, <1>1 DEF TypeOK, Moved
<1>3. LineInv'
  BY <1>0, LineLength DEF LineInv, TypeOK
<1>4. HeadInv'
  BY <1>0 DEF HeadInv
<1>5. SwapInv' /\ StartInv'
  <2>1. \A e \in Enqueuers : pc'[e] \in {"swap", "sethead"} => e # p
    BY <1>1
  <2>2. \A n \in heap : mem'[n].next = mem[n].next
    BY <1>0 DEF TypeOK
  <2>3. SwapInv'
    BY <1>0, <1>1, <2>1, <2>2 DEF SwapInv
  <2>4. StartInv'
    BY <1>0, <1>1, <2>1 DEF StartInv
  <2> QED BY <2>3, <2>4
<1>6. LinkInv'
  <2>1. \A n \in heap : mem'[n].next = mem[n].next
    BY <1>0 DEF TypeOK
  <2>2. \A e \in Enqueuers : pc'[e] \in LinkPCs =>
           pc[e] \in LinkPCs /\ other'[e] = other[e] /\ ptr'[e] = ptr[e]
    BY <1>1 DEF Moved
  <2> QED BY <1>0, <2>1, <2>2, LinkKept
<1>7. ClaimInv'
  BY <1>0, <1>1 DEF ClaimInv
<1>8. ReadInv'
  <2>1. \A t \in Takers : pc[t] \in {"asserttail", "cashead"} => mem'[ptr[t]].next = mem[ptr[t]].next
    BY <1>0 DEF ClaimInv, ClaimPCs, TypeOK
  <2> QED BY <1>0, <1>1, <2>1 DEF ReadInv
<1> QED BY <1>2, <1>3, <1>4, <1>5, <1>6, <1>7, <1>8 DEF QueueInv

(* enqueue raises the flag of the old tail.                                *)
LEMMA SetInflightKeeps ==
    ASSUME QueueInv, NEW p \in Enqueuers, EnqSetInflight(p)
    PROVE  QueueInv' /\ (UseInv => UseInv')
<1>0. /\ TypeOK /\ LineInv /\ LinkInv
  BY DEF QueueInv
<1>1. pc[p] = "inflight" /\ Moved(p, "magic", ptr[p], other[p])
  BY <1>0, Names, Moves DEF EnqSetInflight, At, TypeOK, EnqueuePCs, WritePCs
<1>2. /\ head' = head /\ tail' = tail /\ heap' = heap /\ count' = count /\ line' = line
      /\ result' = result /\ crash' = crash /\ uaf' = (uaf \/ other[p] \notin heap)
      /\ mem' = [mem EXCEPT ![other[p]].inflight = 1]
  BY DEF EnqSetInflight, Touch
<1>3. other[p] \in heap /\ other[p] \in Nodes
  BY <1>0, <1>1, Linker DEF LinkPCs
<1>4. /\ mem' \in [Nodes -> Cells]
      /\ \A n \in Nodes : /\ mem'[n].next = mem[n].next /\ mem'[n].data = mem[n].data
                          /\ mem'[n].magic = mem[n].magic
                          /\ mem'[n].inflight = IF n = other[p] THEN 1 ELSE mem[n].inflight
  BY <1>0, <1>2, <1>3 DEF TypeOK, Cells
<1>5. QueueInv'
  BY <1>0, <1>1, <1>2, <1>3, <1>4, WriterMoves DEF WritePCs, LinkPCs, TypeOK
<1>6. ASSUME UseInv PROVE UseInv'
  <2>1. WriteInv'
    BY <1>1, <1>2, <1>6, Names DEF UseInv, WriteInv, Moved, WritePCs
  <2>2. FlagInv'
    <3>1. \A e \in Enqueuers :
             pc'[e] \in {"magic", "link", "clear"} => mem'[other'[e]].inflight = 1
      <4>1. \A e \in Enqueuers : pc'[e] \in {"magic", "link", "clear"} =>
               /\ other'[e] = other[e] /\ other[e] \in Nodes
               /\ e # p => mem[other[e]].inflight = 1
        BY <1>0, <1>1, <1>3, <1>6, Names DEF UseInv, WriteInv, FlagInv, Moved, WritePCs, TypeOK
      <4> QED BY <1>1, <1>4, <4>1 DEF Moved
    <3>2. \A t \in Takers, e \in Enqueuers :
             pc'[t] = "free" /\ pc'[e] \in WritePCs => other'[e] # ptr'[t]
      BY <1>1, <1>6, Names DEF UseInv, FlagInv, Moved, WritePCs
    <3> QED BY <3>1, <3>2 DEF FlagInv
  <2> QED BY <1>2, <1>3, <1>6, <2>1, <2>2 DEF UseInv
<1> QED BY <1>5, <1>6

(* The old tail is allocated, so its magic word is good.                   *)
LEMMA CheckMagicKeeps ==
    ASSUME QueueInv, NEW p \in Enqueuers, EnqCheckMagic(p)
    PROVE  QueueInv' /\ (UseInv => UseInv')
<1>0. /\ TypeOK /\ LineInv /\ LinkInv
  BY DEF QueueInv
<1>1. pc[p] = "magic"
  BY DEF EnqCheckMagic, At
<1>2. other[p] \in heap /\ mem[other[p]].magic = "LIVE"
  BY <1>0, <1>1, Linker DEF LinkPCs, LineInv
<1>3. /\ head' = head /\ tail' = tail /\ heap' = heap /\ count' = count /\ line' = line
      /\ result' = result /\ crash' = crash /\ mem' = mem /\ uaf' = (uaf \/ other[p] \notin heap)
  BY <1>2 DEF EnqCheckMagic, Touch
<1>4. Moved(p, "link", ptr[p], other[p])
  BY <1>0, <1>2, Names, Moves DEF EnqCheckMagic, TypeOK, EnqueuePCs, WritePCs
<1>5. QueueInv'
  BY <1>0, <1>1, <1>2, <1>3, <1>4, WriterMoves DEF WritePCs, LinkPCs, TypeOK
<1>6. ASSUME UseInv PROVE UseInv'
  <2>1. WriteInv'
    BY <1>1, <1>3, <1>4, <1>6, Names DEF UseInv, WriteInv, Moved, WritePCs
  <2>2. FlagInv'
    BY <1>1, <1>3, <1>4, <1>6, Names DEF UseInv, FlagInv, Moved, WritePCs
  <2> QED BY <1>2, <1>3, <1>6, <2>1, <2>2 DEF UseInv
<1> QED BY <1>5, <1>6

(* enqueue lowers the flag, perhaps of a node that try_dequeue has freed.  *)
LEMMA ClearInflightKeeps ==
    ASSUME QueueInv, NEW p \in Enqueuers, EnqClearInflight(p)
    PROVE  QueueInv' /\ (UseInv => UseInv')
<1>0. TypeOK
  BY DEF QueueInv
<1>1. pc[p] = "clear" /\ Moved(p, "idle", Null, Null)
  BY <1>0, Names, Moves DEF EnqClearInflight, At, EnqueuePCs, Address
<1>2. /\ head' = head /\ tail' = tail /\ heap' = heap /\ count' = count /\ line' = line
      /\ result' = result /\ crash' = crash /\ uaf' = (uaf \/ other[p] \notin heap)
      /\ mem' = [mem EXCEPT ![other[p]].inflight = 0]
  BY DEF EnqClearInflight, Touch
<1>3. /\ mem' \in [Nodes -> Cells]
      /\ \A n \in Nodes : /\ mem'[n].next = mem[n].next /\ mem'[n].data = mem[n].data
                          /\ mem'[n].magic = mem[n].magic
                          /\ n # other[p] => mem'[n].inflight = mem[n].inflight
  BY <1>0, <1>2 DEF TypeOK, Cells
<1>4. QueueInv'
  BY <1>0, <1>1, <1>2, <1>3, WriterMoves DEF WritePCs, LinkPCs, TypeOK
<1>5. ASSUME UseInv PROVE UseInv'
  <2>1. WriteInv'
    BY <1>1, <1>2, <1>5, Names DEF UseInv, WriteInv, Moved, WritePCs
  <2>2. FlagInv'
    BY <1>0, <1>1, <1>2, <1>3, <1>5, Names DEF UseInv, WriteInv, FlagInv, Moved, WritePCs, TypeOK
  <2>3. other[p] \in heap
    BY <1>1, <1>5 DEF UseInv, WriteInv, WritePCs
  <2> QED BY <1>2, <1>5, <2>1, <2>2, <2>3 DEF UseInv
<1> QED BY <1>4, <1>5

(* enqueue links its node behind the old tail.                             *)
LEMMA LinkKeeps ==
    ASSUME QueueInv, NEW p \in Enqueuers, EnqLink(p)
    PROVE  QueueInv' /\ (UseInv => UseInv')
<1> DEFINE m == other[p]
<1>0. /\ TypeOK /\ LineInv /\ HeadInv /\ SwapInv /\ LinkInv /\ StartInv
      /\ ClaimInv /\ ReadInv
  BY DEF QueueInv
<1>1. pc[p] = "link" /\ Moved(p, "clear", ptr[p], m)
  BY <1>0, Names, Moves DEF EnqLink, At, TypeOK, EnqueuePCs, WritePCs
<1>2. /\ head' = head /\ tail' = tail /\ heap' = heap /\ count' = count /\ line' = line
      /\ result' = result /\ crash' = crash /\ uaf' = (uaf \/ m \notin heap)
      /\ mem' = [mem EXCEPT ![m].next = ptr[p]]
  BY DEF EnqLink, Touch
<1>3. m \in heap /\ m \in Nodes /\ ptr[p] \in Nodes /\ InLine(m) /\ mem[m].next = Null
  BY <1>0, <1>1, Linker DEF LinkPCs, LinkInv
<1>4. /\ mem' \in [Nodes -> Cells]
      /\ mem'[m].next = ptr[p]
      /\ \A n \in Nodes : /\ mem'[n].inflight = mem[n].inflight /\ mem'[n].data = mem[n].data
                          /\ mem'[n].magic = mem[n].magic
                          /\ n # m => mem'[n].next = mem[n].next
  BY <1>0, <1>2, <1>3 DEF TypeOK, Cells, Address
<1>5. /\ \A e \in Enqueuers : e # p => pc'[e] = pc[e] /\ ptr'[e] = ptr[e] /\ other'[e] = other[e]
      /\ \A t \in Takers : /\ pc'[t] = pc[t] /\ ptr'[t] = ptr[t] /\ other'[t] = other[t]
                           /\ Holds(t)' <=> Holds(t)
      /\ pc'[p] = "clear" /\ \A n : InLine(n)' <=> InLine(n)
  BY <1>1, <1>2, Names DEF Moved, Holds, InLine
<1> HIDE DEF m
<1>6. TypeOK'
  BY <1>0, <1>1, <1>2, <1>4, <1>5 DEF TypeOK, Moved, EnqueuePCs, WritePCs
<1>7. LineInv'
  <2>1. ASSUME NEW i \in 1..Len(line)
        PROVE  \/ mem'[line[i]].next = Null
               \/ i < Len(line) /\ mem'[line[i]].next = line[i + 1]
    <3>1. PICK k \in 1..Len(line) : k < Len(line) /\ m = line[k] /\ ptr[p] = line[k + 1]
      BY <1>0, <1>1 DEF LinkInv, LinkPCs, m
    <3>2. CASE line[i] = m
      <4>1. i = k
        BY <1>0, <3>1, <3>2 DEF LineInv
      <4> QED BY <1>4, <3>1, <4>1
    <3>3. CASE line[i] # m
      <4>1. line[i] \in Nodes
        BY <1>0, LineLength
      <4> QED BY <1>0, <1>4, <3>3, <4>1 DEF LineInv
    <3> QED BY <3>2, <3>3
  <2>2. \A n \in heap : mem'[n].magic = "LIVE" /\ mem'[n].data \in Items
    BY <1>0, <1>4 DEF LineInv, TypeOK
  <2> QED BY <1>0, <1>2, <2>1, <2>2 DEF LineInv
<1>8. HeadInv' /\ StartInv'
  BY <1>0, <1>2, <1>5 DEF HeadInv, StartInv
<1>9. SwapInv'
  <2>1. \A e \in Enqueuers : pc'[e] = "swap" => e # p /\ ptr[e] \in Nodes /\ ptr[e] # m
    BY <1>0, <1>3, <1>5 DEF SwapInv, TypeOK
  <2> QED BY <1>0, <1>2, <1>4, <1>5, <2>1 DEF SwapInv
<1>10. LinkInv'
  <2>1. ASSUME NEW e \in Enqueuers, pc'[e] \in LinkPCs
        PROVE  /\ pc[e] \in LinkPCs /\ other'[e] = other[e] /\ ptr'[e] = ptr[e]
               /\ mem'[other[e]].next = mem[other[e]].next
    <3>1. e # p
      BY <1>5, <2>1 DEF LinkPCs
    <3>2. pc[e] \in LinkPCs /\ other'[e] = other[e] /\ ptr'[e] = ptr[e]
      BY <1>5, <2>1, <3>1
    <3>3. other[e] # m /\ other[e] \in Nodes
      BY <1>0, <1>1, <3>1, <3>2, Linker DEF LinkInv, LinkPCs, m
    <3> QED BY <1>4, <3>2, <3>3
  <2> QED BY <1>0, <1>2, <2>1 DEF LinkInv
<1>11. ClaimInv'
  BY <1>0, <1>2, <1>5 DEF ClaimInv
<1>12. ReadInv'
  <2>1. ASSUME NEW t \in Takers, pc[t] \in {"asserttail", "cashead"}
        PROVE  other[t] \in {Null, mem'[ptr[t]].next}
    <3>1. ptr[t] \in Nodes
      BY <1>0, <2>1 DEF ClaimInv, ClaimPCs, TypeOK
    <3>2. other[t] \in {Null, mem[ptr[t]].next}
      BY <1>0, <2>1 DEF ReadInv
    <3> QED BY <1>3, <1>4, <3>1, <3>2
  <2> QED BY <1>0, <1>2, <1>5, <2>1 DEF ReadInv
<1>13. ASSUME UseInv PROVE UseInv'
  <2>1. pc[p] \in WritePCs /\ pc'[p] \in WritePCs /\ other'[p] = other[p]
    BY <1>1 DEF WritePCs, Moved, m
  <2>2. WriteInv'
    BY <1>2, <1>5, <1>13, <2>1 DEF UseInv, WriteInv
  <2>3. \A e \in Enqueuers :
           pc'[e] \in {"magic", "link", "clear"} => mem'[other'[e]].inflight = 1
    <3>1. \A e \in Enqueuers : pc'[e] \in {"magic", "link", "clear"} =>
             /\ other'[e] = other[e] /\ other[e] \in Nodes
             /\ mem[other[e]].inflight = 1
      BY <1>0, <1>1, <1>5, <1>13, <2>1 DEF UseInv, WriteInv, FlagInv, WritePCs, TypeOK
    <3> QED BY <1>4, <3>1
  <2>4. \A t \in Takers, e \in Enqueuers :
           pc'[t] = "free" /\ pc'[e] \in WritePCs => other'[e] # ptr'[t]
    BY <1>5, <1>13, <2>1 DEF UseInv, FlagInv
  <2> QED BY <1>2, <1>3, <1>13, <2>2, <2>3, <2>4 DEF UseInv, FlagInv
<1> QED BY <1>6, <1>7, <1>8, <1>9, <1>10, <1>11, <1>12, <1>13 DEF QueueInv

(* enqueue to an empty queue stores head: the line has one again, and a    *)
(* dequeuer that has not stored head yet has lost its claim.               *)
LEMMA SetHeadKeeps ==
    ASSUME QueueInv, NEW p \in Enqueuers, EnqSetHead(p)
    PROVE  QueueInv' /\ (UseInv => UseInv')
<1>0. /\ TypeOK /\ LineInv /\ HeadInv /\ SwapInv /\ LinkInv /\ StartInv
      /\ ClaimInv /\ ReadInv
  BY DEF QueueInv
<1>1. pc[p] = "sethead" /\ Moved(p, "idle", Null, other[p])
  BY <1>0, Names, Moves DEF EnqSetHead, At, TypeOK, EnqueuePCs, Address
<1>2. /\ head' = [node |-> ptr[p], marked |-> FALSE] /\ tail' = tail /\ heap' = heap
      /\ count' = count /\ line' = line /\ result' = result /\ crash' = crash
      /\ uaf' = uaf /\ mem' = mem
  BY DEF EnqSetHead
<1>3. /\ line # <<>> /\ ptr[p] = line[1] /\ head.node # line[1]
      /\ ptr[p] \in heap /\ ptr[p] \in Nodes /\ InLine(ptr[p])
  <2>1. line # <<>> /\ ptr[p] = line[1] /\ head.node # line[1]
    BY <1>0, <1>1 DEF StartInv
  <2>2. 1 \in 1..Len(line)
    BY <1>0, <2>1, LineLength
  <2> QED BY <1>0, <2>1, <2>2 DEF LineInv, TypeOK, InLine
<1>4. head' \in Refs /\ head'.node = ptr[p] /\ ~head'.marked
  BY <1>2, <1>3 DEF Refs, Address
<1>5. /\ \A e \in Enqueuers : e # p => pc'[e] = pc[e] /\ ptr'[e] = ptr[e] /\ other'[e] = other[e]
      /\ \A t \in Takers : /\ pc'[t] = pc[t] /\ ptr'[t] = ptr[t] /\ other'[t] = other[t]
                           /\ Holds(t)' <=> Holds(t)
      /\ pc'[p] = "idle" /\ \A n : InLine(n)' <=> InLine(n)
  BY <1>1, <1>2, Names DEF Moved, Holds, InLine
<1>6. TypeOK'
  BY <1>0, <1>1, <1>2, <1>4, <1>5 DEF TypeOK, Moved, EnqueuePCs
<1>7. LineInv' /\ HeadInv'
  BY <1>0, <1>2, <1>3, <1>4, Names DEF LineInv, HeadInv
<1>8. SwapInv'
  BY <1>0, <1>2, <1>3, <1>4, <1>5 DEF SwapInv
<1>9. StartInv'
  BY <1>0, <1>1, <1>5 DEF StartInv
<1>10. LinkInv'
  <2>1. \A e \in Enqueuers : pc'[e] \in LinkPCs =>
           pc[e] \in LinkPCs /\ other'[e] = other[e] /\ ptr'[e] = ptr[e]
    BY <1>5 DEF LinkPCs
  <2> QED BY <1>0, <1>2, <2>1 DEF LinkInv
<1>11. ClaimInv'
  <2>1. \A t \in Takers : pc[t] \in ClaimPCs => ~Holds(t) /\ ~InLine(ptr[t])
    BY <1>0, <1>3 DEF ClaimInv
  <2>2. \A t \in Takers : pc[t] \in {"checkinflight", "free"} => pc[t] \in ClaimPCs
    BY DEF ClaimPCs
  <2>3. \A e \in Enqueuers : pc'[e] = "swap" => pc[e] = "swap" /\ ptr'[e] = ptr[e]
    BY <1>5
  <2> QED BY <1>0, <1>2, <1>3, <1>4, <1>5, <2>1, <2>2, <2>3 DEF ClaimInv
<1>12. ReadInv'
  BY <1>0, <1>2, <1>5 DEF ReadInv
<1>13. ASSUME UseInv PROVE UseInv'
  <2>1. \A e \in Enqueuers : pc'[e] \in WritePCs \cup {"swap"} => e # p
    BY <1>5 DEF WritePCs
  <2>2. WriteInv'
    BY <1>2, <1>5, <1>13, <2>1 DEF UseInv, WriteInv
  <2>3. FlagInv'
    BY <1>2, <1>5, <1>13, <2>1 DEF UseInv, FlagInv, WritePCs
  <2> QED BY <1>2, <1>13, <2>2, <2>3 DEF UseInv
<1> QED BY <1>6, <1>7, <1>8, <1>9, <1>10, <1>11, <1>12, <1>13 DEF QueueInv

(* The steps of a taker that leave the queue as it is.                     *)
LEMMA TakerMoves ==
    ASSUME QueueInv, NEW p \in Takers, NEW l \in DequeuePCs, NEW x, NEW y, Moved(p, l, x, y),
           head' = head, tail' = tail, mem' = mem, heap' = heap, line' = line,
           count' = count, crash' \in {"none", "head_CAS", "inflight"}, uaf' \in BOOLEAN,
           result' \in [Takers -> Items \cup {Null, None, Empty, Busy}],
           \A t \in Takers : t # p => result'[t] = result[t],
           l # "idle" => result'[p] = None,
           l = "mark" => x # Null,
           l \in ClaimPCs => /\ pc[p] \in ClaimPCs /\ x = ptr[p]
                             /\ l \in {"checkinflight", "free"} => pc[p] \in {"checkinflight", "free"}
                             /\ Holds(p)' <=> Holds(p),
           l \in {"asserttail", "cashead"} => y \in {Null, mem[x].next},
           l = "castail" => y = Null
    PROVE  QueueInv'
<1>0. /\ TypeOK /\ LineInv /\ HeadInv /\ SwapInv /\ LinkInv /\ StartInv
      /\ ClaimInv /\ ReadInv
  BY DEF QueueInv
<1>1. /\ \A e \in Enqueuers : pc'[e] = pc[e] /\ ptr'[e] = ptr[e] /\ other'[e] = other[e]
      /\ \A t \in Takers : t # p => /\ pc'[t] = pc[t] /\ ptr'[t] = ptr[t] /\ other'[t] = other[t]
                                    /\ Holds(t)' <=> Holds(t)
      /\ pc'[p] = l /\ ptr'[p] = x /\ other'[p] = y /\ \A n : InLine(n)' <=> InLine(n)
  BY Names DEF Moved, Holds, InLine
<1>2. TypeOK'
  BY <1>0, <1>1 DEF TypeOK, Moved
<1>3. LineInv' /\ HeadInv'
  BY <1>0 DEF LineInv, HeadInv
<1>4. SwapInv' /\ LinkInv' /\ StartInv'
  BY <1>0, <1>1 DEF SwapInv, LinkInv, StartInv
<1>5. ClaimInv'
  <2>1. \A t \in Takers : pc'[t] \in ClaimPCs =>
           /\ pc[t] \in ClaimPCs /\ ptr'[t] = ptr[t]
           /\ pc'[t] \in {"checkinflight", "free"} => pc[t] \in {"checkinflight", "free"}
           /\ Holds(t)' <=> Holds(t)
    BY <1>1
  <2>2. \A t \in Takers : pc'[t] \in {"checkinflight", "free"} => pc'[t] \in ClaimPCs
    BY DEF ClaimPCs
  <2> QED BY <1>0, <1>1, <2>1, <2>2 DEF ClaimInv
<1>6. ReadInv'
  BY <1>0, <1>1 DEF ReadInv
<1> QED BY <1>2, <1>3, <1>4, <1>5, <1>6 DEF QueueInv

(* They leave the writers alone as well, unless one frees a node.          *)
LEMMA TakerWrites ==
    ASSUME UseInv, NEW p \in Takers, NEW l, NEW x, NEW y, Moved(p, l, x, y),
           tail' = tail, mem' = mem, heap' = heap, uaf' = uaf,
           l = "free" => \A e \in Enqueuers : pc[e] \in WritePCs => other[e] # x
    PROVE  UseInv'
<1>1. /\ \A e \in Enqueuers : pc'[e] = pc[e] /\ ptr'[e] = ptr[e] /\ other'[e] = other[e]
      /\ \A t \in Takers : t # p => pc'[t] = pc[t] /\ ptr'[t] = ptr[t]
      /\ pc'[p] = l /\ ptr'[p] = x
  BY Names DEF Moved
<1>2. WriteInv'
  BY <1>1 DEF UseInv, WriteInv
<1>3. FlagInv'
  BY <1>1 DEF UseInv, FlagInv
<1> QED BY <1>2, <1>3 DEF UseInv

(* The end of a call, and an attempt that got nowhere.                     *)
LEMMA Returned ==
    ASSUME TypeOK, NEW p \in Takers, NEW r \in Items \cup {Null, None, Empty, Busy}, Return(p, r)
    PROVE  /\ Moved(p, "idle", Null, Null)
           /\ result' \in [Takers -> Items \cup {Null, None, Empty, Busy}]
           /\ \A t \in Takers : t # p => result'[t] = result[t]
           /\ result'[p] = r
<1>1. "idle" \in EnqueuePCs \cup DequeuePCs /\ Null \in Address /\ p \in Procs
  BY Names DEF EnqueuePCs, Address
<1>2. Moved(p, "idle", Null, Null)
  BY <1>1, Moves DEF Return
<1> QED BY <1>2 DEF TypeOK, Return

(* A call that returns, or starts over, with the queue as it was.          *)
LEMMA GivesUp ==
    ASSUME QueueInv, NEW p \in Takers, pc[p] # "idle", NEW r \in {None, Empty, Busy},
           Return(p, r) \/ RetryOrReturn(p, r),
           head' = head, tail' = tail, mem' = mem, heap' = heap, line' = line,
           count' = count, crash' = crash, uaf' = uaf
    PROVE  QueueInv' /\ (UseInv => UseInv')
<1>0. TypeOK /\ ReadInv
  BY DEF QueueInv
<1>1. CASE Return(p, r)
  <2>1. /\ Moved(p, "idle", Null, Null)
        /\ result' \in [Takers -> Items \cup {Null, None, Empty, Busy}]
        /\ \A t \in Takers : t # p => result'[t] = result[t]
    BY <1>0, <1>1, Returned
  <2>2. "idle" \in DequeuePCs /\ "idle" \notin ClaimPCs
    BY DEF DequeuePCs, ClaimPCs
  <2> QED BY <1>0, <2>1, <2>2, TakerMoves, TakerWrites DEF TypeOK
<1>2. CASE Goto(p, "tail") /\ UNCHANGED <<result, ptr, other>>
  <2>1. Moved(p, "tail", ptr[p], other[p])
    BY <1>0, <1>2, Moves, Names DEF TypeOK, DequeuePCs
  <2>2. "tail" \in DequeuePCs /\ "tail" \notin ClaimPCs
    BY DEF DequeuePCs, ClaimPCs
  <2>3. result' = result /\ result[p] = None
    BY <1>0, <1>2 DEF ReadInv
  <2> QED BY <1>0, <2>1, <2>2, <2>3, TakerMoves, TakerWrites DEF TypeOK
<1> QED BY <1>1, <1>2 DEF RetryOrReturn

(* dequeue before it has marked the head.                                  *)
LEMMA LookKeeps ==
    ASSUME QueueInv, NEW p \in Takers, DeqCall(p) \/ DeqLoadTail(p) \/ DeqLoadHead(p)
    PROVE  QueueInv' /\ (UseInv => UseInv')
<1>0. TypeOK /\ ReadInv /\ HeadInv
  BY DEF QueueInv
<1>1. /\ head' = head /\ tail' = tail /\ mem' = mem /\ heap' = heap /\ line' = line
      /\ count' = count /\ crash' = crash /\ uaf' = uaf
  BY DEF DeqCall, DeqLoadTail, DeqLoadHead
<1>2. /\ {"tail", "head", "mark"} \subseteq DequeuePCs \ ClaimPCs
      /\ ptr[p] \in Address /\ other[p] \in Address /\ head.node \in Address /\ p \in Procs
  BY <1>0, Names DEF DequeuePCs, ClaimPCs, TypeOK, Refs
<1>3. CASE DeqCall(p)
  <2>1. Moved(p, "tail", ptr[p], other[p])
    BY <1>0, <1>2, <1>3, Moves DEF DeqCall
  <2>2. /\ result' \in [Takers -> Items \cup {Null, None, Empty, Busy}]
        /\ \A t \in Takers : t # p => result'[t] = result[t]
        /\ result'[p] = None
    BY <1>0, <1>3 DEF DeqCall, TypeOK
  <2> QED BY <1>0, <1>1, <1>2, <2>1, <2>2, TakerMoves, TakerWrites DEF TypeOK
<1>4. CASE DeqLoadTail(p)
  <2>1. CASE tail = Null
    BY <1>1, <1>4, <2>1, GivesUp DEF DeqLoadTail, At
  <2>2. CASE tail # Null
    <3>1. Moved(p, "head", ptr[p], other[p])
      BY <1>0, <1>2, <1>4, <2>2, Moves DEF DeqLoadTail
    <3>2. result' = result /\ result[p] = None
      BY <1>0, <1>4, <2>2 DEF DeqLoadTail, At, ReadInv
    <3> QED BY <1>0, <1>1, <1>2, <3>1, <3>2, TakerMoves, TakerWrites DEF TypeOK
  <2> QED BY <2>1, <2>2
<1>5. CASE DeqLoadHead(p)
  <2>1. CASE RetryOrReturn(p, Empty) \/ RetryOrReturn(p, Busy)
    BY <1>1, <1>5, <2>1, GivesUp DEF DeqLoadHead, At
  <2>2. CASE head.node # Null /\ ptr' = [ptr EXCEPT ![p] = head.node] /\ Goto(p, "mark")
             /\ UNCHANGED <<other, result>>
    <3>1. Moved(p, "mark", head.node, other[p])
      BY <1>0, <1>2, <2>2, Moves
    <3>2. result' = result /\ result[p] = None
      BY <1>0, <1>5, <2>2 DEF DeqLoadHead, At, ReadInv
    <3> QED BY <1>0, <1>1, <1>2, <2>2, <3>1, <3>2, TakerMoves, TakerWrites DEF TypeOK
  <2> QED BY <1>5, <2>1, <2>2 DEF DeqLoadHead
<1> QED BY <1>3, <1>4, <1>5

(* The compare and swap that claims the head.                              *)
LEMMA MarkKeeps ==
    ASSUME QueueInv, NEW p \in Takers, DeqMarkHead(p)
    PROVE  QueueInv' /\ (UseInv => UseInv')
<1>0. /\ TypeOK /\ LineInv /\ HeadInv /\ SwapInv /\ LinkInv /\ StartInv
      /\ ClaimInv /\ ReadInv
  BY DEF QueueInv
<1>1. /\ pc[p] = "mark" /\ ptr[p] # Null /\ result[p] = None
      /\ tail' = tail /\ mem' = mem /\ heap' = heap /\ line' = line
      /\ count' = count /\ crash' = crash /\ uaf' = uaf
  BY <1>0 DEF DeqMarkHead, At, ReadInv
<1>2. CASE head # [node |-> ptr[p], marked |-> FALSE]
  BY <1>1, <1>2, GivesUp DEF DeqMarkHead
<1>3. CASE head = [node |-> ptr[p], marked |-> FALSE]
  <2>1. /\ Moved(p, "next", ptr[p], other[p]) /\ result' = result
        /\ head' = [node |-> ptr[p], marked |-> TRUE]
    <3>1. "next" \in EnqueuePCs \cup DequeuePCs /\ p \in Procs
      BY Names DEF DequeuePCs, ClaimPCs
    <3>2. head' = [node |-> ptr[p], marked |-> TRUE]
      BY <1>3 DEF DeqMarkHead
    <3> QED BY <1>0, <1>3, <3>1, <3>2, Moves DEF DeqMarkHead, TypeOK
  <2>2. head.node = ptr[p] /\ ~head.marked /\ head'.node = ptr[p] /\ head'.marked
    BY <1>3, <2>1
  <2>3. line # <<>> /\ line[1] = ptr[p] /\ ptr[p] \in heap /\ InLine(ptr[p])
    <3>1. line # <<>> /\ line[1] = ptr[p] /\ ptr[p] \in heap
      BY <1>0, <1>1, <2>2 DEF HeadInv
    <3> QED BY <1>0, <3>1, LineLength DEF InLine
  <2>4. /\ \A e \in Enqueuers : pc'[e] = pc[e] /\ ptr'[e] = ptr[e] /\ other'[e] = other[e]
        /\ \A t \in Takers : t # p => /\ pc'[t] = pc[t] /\ ptr'[t] = ptr[t]
                                      /\ other'[t] = other[t] /\ (Holds(t)' <=> Holds(t))
        /\ pc'[p] = "next" /\ ptr'[p] = ptr[p] /\ Holds(p)'
        /\ \A n : InLine(n)' <=> InLine(n)
    BY <1>1, <2>1, Names DEF Moved, Holds, InLine
  <2>5. TypeOK'
    <3>0. ptr[p] \in Address
      BY <1>0, Names DEF TypeOK
    <3>1. head' \in Refs
      BY <2>1, <3>0 DEF Refs
    <3> QED BY <1>0, <1>1, <2>1, <2>4, <3>1 DEF TypeOK, Moved, DequeuePCs, ClaimPCs
  <2>6. LineInv' /\ HeadInv'
    BY <1>0, <1>1, <2>2 DEF LineInv, HeadInv
  <2>7. SwapInv' /\ LinkInv' /\ StartInv'
    BY <1>0, <1>1, <2>2, <2>4 DEF SwapInv, LinkInv, StartInv
  <2>8. ClaimInv'
    <3>1. \A t \in Takers : pc[t] \in ClaimPCs => ~Holds(t) /\ ptr[t] # ptr[p]
      BY <1>0, <2>2, <2>3 DEF ClaimInv
    <3>2. \A e \in Enqueuers : pc[e] = "swap" => ptr[e] # ptr[p]
      BY <1>0, <2>3 DEF SwapInv
    <3>3. \A t \in Takers : pc'[t] \in {"checkinflight", "free"} =>
             t # p /\ pc[t] \in {"checkinflight", "free"} /\ ptr[t] # ptr[p]
      BY <2>4, <3>1 DEF ClaimPCs
    <3>4. \A t \in Takers : pc'[t] \in ClaimPCs =>
             /\ ptr'[t] \in heap'
             /\ Holds(t)' => line' # <<>> /\ line'[1] = ptr'[t]
                               /\ head' = [node |-> ptr'[t], marked |-> TRUE]
             /\ ~Holds(t)' => ~(InLine(ptr[t])')
      <4>1. SUFFICES ASSUME NEW t \in Takers, pc'[t] \in ClaimPCs
                     PROVE  /\ ptr'[t] \in heap'
                            /\ Holds(t)' => line' # <<>> /\ line'[1] = ptr'[t]
                                              /\ head' = [node |-> ptr'[t], marked |-> TRUE]
                            /\ ~Holds(t)' => ~(InLine(ptr[t])')
        OBVIOUS
      <4>2. CASE t = p
        BY <1>1, <2>1, <2>3, <2>4, <4>2
      <4>3. CASE t # p
        <5>1. pc[t] \in ClaimPCs /\ ptr'[t] = ptr[t] /\ ~Holds(t) /\ ~Holds(t)'
          BY <2>4, <3>1, <4>1, <4>3
        <5>2. ptr[t] \in heap /\ ~InLine(ptr[t])
          BY <1>0, <5>1 DEF ClaimInv
        <5>3. ~InLine(ptr'[t])
          BY <5>1, <5>2
        <5> QED BY <1>1, <2>4, <5>1, <5>2, <5>3 DEF InLine
      <4> QED BY <4>2, <4>3
    <3>5. \A t, u \in Takers :
             pc'[t] \in ClaimPCs /\ pc'[u] \in ClaimPCs /\ ptr'[t] = ptr'[u] => t = u
      BY <1>0, <2>4, <3>1 DEF ClaimInv
    <3>6. \A t \in Takers, e \in Enqueuers :
             pc'[t] \in ClaimPCs /\ pc'[e] = "swap" => ptr'[t] # ptr'[e]
      BY <1>0, <2>4, <3>2 DEF ClaimInv
    <3> QED BY <2>2, <2>4, <3>3, <3>4, <3>5, <3>6 DEF ClaimInv
  <2>9. ReadInv'
    <3>1. \A t \in Takers : pc'[t] # "idle" => result'[t] = None
      BY <1>0, <1>1, <2>1, <2>4 DEF ReadInv
    <3>2. \A t \in Takers : pc'[t] \in {"mark", "asserttail", "cashead", "castail"} =>
             t # p /\ pc'[t] = pc[t] /\ ptr'[t] = ptr[t] /\ other'[t] = other[t]
      BY <2>4
    <3> QED BY <1>0, <1>1, <3>1, <3>2 DEF ReadInv
  <2>10. UseInv => UseInv'
    BY <1>1, <2>1, TakerWrites
  <2> QED BY <2>5, <2>6, <2>7, <2>8, <2>9, <2>10 DEF QueueInv
<1> QED BY <1>2, <1>3

(* A taker with a claim on the first of the line reads what is behind it.  *)
LEMMA ReadKeeps ==
    ASSUME QueueInv, NEW p \in Takers,
           DeqLoadNext(p) \/ DeqAssertTail(p) \/ DeqSpinNext(p)
    PROVE  QueueInv' /\ (UseInv => UseInv')
<1>0. TypeOK /\ LineInv /\ ClaimInv /\ ReadInv
  BY DEF QueueInv
<1>1. pc[p] \in {"next", "asserttail", "spin"}
  BY DEF DeqLoadNext, DeqAssertTail, DeqSpinNext, At
<1>2. /\ ptr[p] \in heap /\ ptr[p] \in Nodes /\ line # <<>> /\ tail # Null /\ Holds(p)
      /\ mem[ptr[p]].next \in Address /\ result[p] = None /\ pc[p] \in ClaimPCs
      /\ p \in Procs /\ ptr[p] \in Address /\ other[p] \in Address
  <2>1. Holds(p) /\ pc[p] \in ClaimPCs /\ result[p] = None
    BY <1>0, <1>1 DEF Holds, ClaimPCs, ReadInv
  <2>2. ptr[p] \in heap /\ ptr[p] \in Nodes /\ line # <<>>
    BY <1>0, <2>1 DEF ClaimInv, TypeOK
  <2>3. tail # Null
    BY <1>0, <2>2, LineLength, Names DEF LineInv
  <2>4. mem[ptr[p]] \in Cells
    BY <1>0, <2>2 DEF TypeOK
  <2> QED BY <1>0, <2>1, <2>2, <2>3, <2>4, Names DEF Cells, TypeOK
<1>3. /\ head' = head /\ tail' = tail /\ mem' = mem /\ heap' = heap /\ line' = line
      /\ count' = count /\ crash' = crash /\ result' = result /\ uaf' = uaf
  BY <1>0, <1>2 DEF DeqLoadNext, DeqAssertTail, DeqSpinNext, Touch, TypeOK
<1>4. {"asserttail", "castail", "cashead"} \subseteq DequeuePCs \cap ClaimPCs
  BY DEF DequeuePCs, ClaimPCs
<1>5. \E l \in {"asserttail", "castail", "cashead"} :
        \E y \in {Null, mem[ptr[p]].next} :
           Moved(p, l, ptr[p], y) /\ (l = "castail" => y = Null) /\ (l = "cashead" => y # Null)
  <2>1. CASE DeqLoadNext(p)
    <3>1. Moved(p, "asserttail", ptr[p], mem[ptr[p]].next)
      BY <1>0, <1>2, <1>4, <2>1, Moves DEF DeqLoadNext
    <3> QED BY <3>1
  <2>2. CASE DeqSpinNext(p)
    <3>1. Moved(p, "cashead", ptr[p], mem[ptr[p]].next) /\ mem[ptr[p]].next # Null
      BY <1>0, <1>2, <1>4, <2>2, Moves DEF DeqSpinNext
    <3> QED BY <3>1
  <2>3. CASE DeqAssertTail(p)
    <3>1. other[p] \in {Null, mem[ptr[p]].next}
      BY <1>0, <2>3 DEF DeqAssertTail, At, ReadInv
    <3>2. ptr' = ptr /\ other' = other /\ Goto(p, IF other[p] = Null THEN "castail" ELSE "cashead")
      BY <1>2, <2>3 DEF DeqAssertTail
    <3>3. CASE other[p] = Null
      <4>1. Moved(p, "castail", ptr[p], other[p])
        BY <1>0, <1>2, <1>4, <3>2, <3>3, Moves
      <4> QED BY <3>3, <4>1
    <3>4. CASE other[p] # Null
      <4>1. Moved(p, "cashead", ptr[p], other[p])
        BY <1>0, <1>2, <1>4, <3>2, <3>4, Moves
      <4> QED BY <3>1, <3>4, <4>1
    <3> QED BY <3>3, <3>4
  <2> QED BY <2>1, <2>2, <2>3
<1>6. PICK l \in {"asserttail", "castail", "cashead"}, y \in {Null, mem[ptr[p]].next} :
         Moved(p, l, ptr[p], y) /\ (l = "castail" => y = Null) /\ (l = "cashead" => y # Null)
  BY <1>5
<1>7. Holds(p)'
  BY <1>6 DEF Holds, Moved
<1>8. QueueInv'
  BY <1>0, <1>2, <1>3, <1>4, <1>6, <1>7, TakerMoves DEF TypeOK
<1>9. UseInv => UseInv'
  BY <1>3, <1>6, TakerWrites
<1> QED BY <1>8, <1>9

(* The compare and swap of tail: the node was the last and the line is     *)
(* empty, or somebody is behind it.                                        *)
LEMMA CasTailKeeps ==
    ASSUME QueueInv, NEW p \in Takers, DeqCasTail(p)
    PROVE  QueueInv' /\ (UseInv => UseInv')
<1>0. /\ TypeOK /\ LineInv /\ HeadInv /\ SwapInv /\ LinkInv /\ StartInv
      /\ ClaimInv /\ ReadInv
  BY DEF QueueInv
<1>1. /\ pc[p] = "castail" /\ other[p] = Null /\ result[p] = None
      /\ head' = head /\ mem' = mem /\ heap' = heap /\ count' = count
      /\ crash' = crash /\ uaf' = uaf /\ result' = result /\ ptr' = ptr /\ other' = other
  BY <1>0 DEF DeqCasTail, At, ReadInv
<1>2. /\ Holds(p) /\ pc[p] \in ClaimPCs /\ ptr[p] \in heap /\ ptr[p] \in Nodes /\ line # <<>>
      /\ line[1] = ptr[p] /\ head = [node |-> ptr[p], marked |-> TRUE] /\ p \in Procs
  BY <1>0, <1>1, Names DEF Holds, ClaimPCs, ClaimInv, TypeOK
<1>3. {"spin", "cashead"} \subseteq DequeuePCs \cap ClaimPCs
  BY DEF DequeuePCs, ClaimPCs
<1>4. CASE tail # ptr[p]
  <2>1. tail' = tail /\ line' = line /\ Moved(p, "spin", ptr[p], other[p])
    BY <1>0, <1>1, <1>2, <1>3, <1>4, Moves DEF DeqCasTail, TypeOK
  <2>2. Holds(p)'
    BY <2>1 DEF Holds, Moved
  <2>3. QueueInv'
    BY <1>0, <1>1, <1>2, <1>3, <2>1, <2>2, TakerMoves DEF TypeOK
  <2>4. UseInv => UseInv'
    BY <1>1, <2>1, TakerWrites
  <2> QED BY <2>3, <2>4
<1>5. CASE tail = ptr[p]
  <2>1. tail' = Null /\ line' = Tail(line) /\ Moved(p, "cashead", ptr[p], other[p])
    BY <1>0, <1>1, <1>2, <1>3, <1>5, Moves DEF DeqCasTail, TypeOK
  <2>2. Len(line) = 1 /\ line' = <<>> /\ Len(line') = 0 /\ line' \in Seq(Nodes)
    <3>1. Len(line) = 1
      BY <1>0, <1>2, <1>5, LineLength DEF LineInv
    <3> QED BY <1>0, <1>2, <2>1, <3>1, Left DEF TypeOK
  <2>3. /\ \A e \in Enqueuers : pc'[e] = pc[e] /\ ptr'[e] = ptr[e] /\ other'[e] = other[e]
        /\ \A t \in Takers : t # p => /\ pc'[t] = pc[t] /\ ptr'[t] = ptr[t]
                                      /\ other'[t] = other[t] /\ (Holds(t)' <=> Holds(t))
        /\ pc'[p] = "cashead" /\ ptr'[p] = ptr[p] /\ other'[p] = Null /\ ~Holds(p)'
        /\ \A n : ~InLine(n)'
    <3>1. \A n : ~InLine(n)'
      BY <2>2 DEF InLine
    <3> QED BY <1>1, <2>1, <3>1, Names DEF Moved, Holds
  <2>4. TypeOK'
    BY <1>0, <1>1, <1>3, <2>1, <2>2, <2>3 DEF TypeOK, Moved, Address
  <2>5. LineInv' /\ HeadInv'
    <3>1. LineInv'
      <4>1. \A i \in 1..Len(line') : FALSE
        BY <2>2
      <4> QED BY <1>0, <1>1, <2>1, <2>2, <4>1 DEF LineInv
    <3>2. HeadInv'
      BY <1>0, <1>1, <1>2 DEF HeadInv
    <3> QED BY <3>1, <3>2
  <2>6. SwapInv'
    BY <1>0, <1>1, <2>3 DEF SwapInv
  <2>7. LinkInv' /\ StartInv'
    <3>1. \A e \in Enqueuers : pc[e] \notin LinkPCs /\ pc[e] # "sethead"
      BY <1>0, <1>2, <2>2 DEF LinkInv, StartInv
    <3> QED BY <2>3, <3>1 DEF LinkInv, StartInv
  <2>8. ClaimInv'
    <3>1. \A t \in Takers : t # p /\ pc[t] \in ClaimPCs => ~Holds(t)
      BY <1>0, <1>2 DEF ClaimInv
    <3>2. \A t \in Takers : pc'[t] \in ClaimPCs =>
             pc[t] \in ClaimPCs /\ ptr'[t] = ptr[t] /\ ~Holds(t)'
      BY <1>2, <2>3, <3>1
    <3>3. \A t \in Takers : pc'[t] \in {"checkinflight", "free"} =>
             pc[t] \in {"checkinflight", "free"} /\ ptr'[t] = ptr[t]
      BY <2>3
    <3> QED BY <1>0, <1>1, <2>3, <3>2, <3>3 DEF ClaimInv
  <2>9. ReadInv'
    BY <1>0, <1>1, <2>3 DEF ReadInv
  <2>10. ASSUME UseInv PROVE UseInv'
    <3>1. WriteInv'
      BY <1>0, <1>1, <2>1, <2>3, <2>10, Names DEF UseInv, WriteInv, TypeOK
    <3>2. FlagInv'
      BY <1>1, <2>3, <2>10 DEF UseInv, FlagInv
    <3> QED BY <1>1, <2>10, <3>1, <3>2 DEF UseInv
  <2> QED BY <2>4, <2>5, <2>6, <2>7, <2>8, <2>9, <2>10 DEF QueueInv
<1> QED BY <1>4, <1>5

(* The compare and swap of head: the node behind becomes the head, or none *)
(* does, or an enqueuer was faster and the process ends.  try_dequeue goes *)
(* on to free the node without looking at the flag of the writer.          *)
LEMMA CasHeadKeeps ==
    ASSUME QueueInv, NEW p \in Takers, DeqCasHead(p)
    PROVE  QueueInv' /\ (UseInv /\ TryDequeuers = {} => UseInv')
<1> DEFINE l == IF p \in TryDequeuers THEN "free" ELSE "checkinflight"
<1>0. /\ TypeOK /\ LineInv /\ HeadInv /\ SwapInv /\ LinkInv /\ StartInv
      /\ ClaimInv /\ ReadInv
  BY DEF QueueInv
<1>1. /\ pc[p] = "cashead" /\ pc[p] \in ClaimPCs /\ result[p] = None /\ p \in Procs
      /\ tail' = tail /\ mem' = mem /\ heap' = heap /\ count' = count
      /\ uaf' = uaf /\ result' = result /\ ptr' = ptr /\ other' = other
      /\ other[p] \in {Null, mem[ptr[p]].next} /\ ptr[p] \in heap /\ ptr[p] \in Nodes
  <2>1. pc[p] = "cashead" /\ pc[p] \in ClaimPCs /\ p \in Procs
    BY Names DEF DeqCasHead, At, ClaimPCs
  <2> QED BY <1>0, <2>1 DEF DeqCasHead, ReadInv, ClaimInv, TypeOK
<1>2. CASE head # [node |-> ptr[p], marked |-> TRUE]
  <2>1. head' = head /\ line' = line /\ pc' = pc /\ crash' = "head_CAS"
    BY <1>2 DEF DeqCasHead, Abort
  <2>2. Moved(p, "cashead", ptr[p], other[p]) /\ (Holds(p)' <=> Holds(p))
    BY <1>0, <1>1, <2>1 DEF Moved, Holds, TypeOK
  <2>3. "cashead" \in DequeuePCs
    BY DEF DequeuePCs, ClaimPCs
  <2>4. QueueInv'
    BY <1>0, <1>1, <2>1, <2>2, <2>3, TakerMoves DEF TypeOK
  <2>5. UseInv => UseInv'
    BY <1>1, <2>2, TakerWrites
  <2> QED BY <2>4, <2>5
<1>3. CASE head = [node |-> ptr[p], marked |-> TRUE]
  <2>1. /\ head' = [node |-> other[p], marked |-> FALSE] /\ crash' = crash
        /\ line' = IF other[p] = Null THEN line ELSE Tail(line)
        /\ Moved(p, l, ptr[p], other[p])
    <3>1. l \in EnqueuePCs \cup DequeuePCs
      BY DEF DequeuePCs, ClaimPCs
    <3>2. Goto(p, l) /\ ptr[p] \in Address /\ other[p] \in Address
      BY <1>0, <1>1, <1>3 DEF DeqCasHead, TypeOK
    <3> HIDE DEF l
    <3>3. Moved(p, l, ptr[p], other[p])
      BY <1>0, <1>1, <3>1, <3>2, Moves
    <3> QED BY <1>3, <3>3 DEF DeqCasHead
  <2>2. l \in {"checkinflight", "free"}
    OBVIOUS
  <2>3. /\ \A e \in Enqueuers : pc'[e] = pc[e] /\ ptr'[e] = ptr[e] /\ other'[e] = other[e]
        /\ \A t \in Takers : t # p => /\ pc'[t] = pc[t] /\ ptr'[t] = ptr[t]
                                      /\ other'[t] = other[t] /\ (Holds(t)' <=> Holds(t))
        /\ pc'[p] = l /\ ptr'[p] = ptr[p] /\ other'[p] = other[p] /\ ~Holds(p)'
    BY <2>1, <2>2, Names DEF Moved, Holds
  <2>4. UseInv /\ TryDequeuers = {} => UseInv'
    BY <1>1, <2>1, TakerWrites
  <2> HIDE DEF l
  <2>5. \A t \in Takers : t # p /\ pc[t] \in ClaimPCs => ~Holds(t) /\ ptr[t] # ptr[p]
    BY <1>0, <1>1, <1>3 DEF ClaimInv
  <2>6. \A t \in Takers : pc'[t] \in ClaimPCs =>
           pc[t] \in ClaimPCs /\ ptr'[t] = ptr[t] /\ ~Holds(t)'
    BY <1>1, <2>3, <2>5
  <2>7. head.node = ptr[p] /\ head'.node = other[p] /\ ~head'.marked
    BY <1>3, <2>1
  <2>8. ReadInv'
    <3>1. \A t \in Takers : pc'[t] # "idle" => result'[t] = None
      BY <1>0, <1>1, <2>3 DEF ReadInv
    <3>2. \A t \in Takers : pc'[t] \in {"mark", "asserttail", "cashead", "castail"} =>
             t # p /\ pc'[t] = pc[t] /\ ptr'[t] = ptr[t] /\ other'[t] = other[t]
      BY <2>2, <2>3
    <3> QED BY <1>0, <1>1, <3>1, <3>2 DEF ReadInv
  <2>9. CASE other[p] = Null
    <3>1. line' = line /\ \A n : InLine(n)' <=> InLine(n)
      BY <2>1, <2>9 DEF InLine
    <3>2. TypeOK'
      BY <1>0, <1>1, <2>1, <2>2, <2>3, <2>9, <3>1
      DEF TypeOK, Moved, Address, Refs, DequeuePCs, ClaimPCs
    <3>3. LineInv' /\ HeadInv'
      BY <1>0, <1>1, <2>7, <2>9, <3>1 DEF LineInv, HeadInv
    <3>4. SwapInv' /\ LinkInv' /\ StartInv'
      <4>1. SwapInv'
        BY <1>0, <1>1, <2>3, <2>7, <2>9, <3>1, Names DEF SwapInv, TypeOK
      <4>2. LinkInv'
        BY <1>0, <1>1, <2>3, <3>1 DEF LinkInv
      <4>3. StartInv'
        BY <1>0, <2>3, <2>7, <2>9, <3>1, Names, LineLength DEF StartInv
      <4> QED BY <4>1, <4>2, <4>3
    <3>5. ClaimInv'
      <4>1. \A t \in Takers : pc'[t] \in ClaimPCs => ~(InLine(ptr[t])')
        <5>1. ~InLine(ptr[p])
          BY <1>0, <1>1, <2>9 DEF ClaimInv, Holds
        <5>2. \A t \in Takers : pc'[t] \in ClaimPCs => ~InLine(ptr'[t])
          BY <1>0, <2>5, <2>6, <5>1 DEF ClaimInv
        <5> QED BY <3>1, <5>2 DEF InLine
      <4>2. \A t \in Takers : pc'[t] \in ClaimPCs => ptr'[t] \in heap' /\ ptr'[t] # Null
        BY <1>0, <1>1, <2>6, Names DEF ClaimInv, TypeOK
      <4>3. \A t \in Takers : pc'[t] \in {"checkinflight", "free"} => pc'[t] \in ClaimPCs
        BY DEF ClaimPCs
      <4> QED BY <1>0, <2>3, <2>6, <2>7, <2>9, <4>1, <4>2, <4>3 DEF ClaimInv
    <3> QED BY <2>4, <2>8, <3>2, <3>3, <3>4, <3>5 DEF QueueInv
  <2>10. CASE other[p] # Null
    <3>0. Holds(p) /\ line # <<>> /\ line[1] = ptr[p] /\ mem[ptr[p]].next = other[p]
      BY <1>0, <1>1, <2>10 DEF ClaimInv, Holds
    <3>1. /\ line' = Tail(line) /\ line' \in Seq(Nodes) /\ Len(line) \in Nat
          /\ Len(line') = Len(line) - 1 /\ Len(line) >= 2
          /\ \A i \in 1..Len(line') : line'[i] = line[i + 1] /\ i + 1 \in 1..Len(line)
          /\ line' # <<>> /\ line'[1] = other[p] /\ line[2] = other[p]
      <4>1. Len(line) \in Nat /\ Len(line) >= 2 /\ line[2] = other[p]
        BY <1>0, <2>10, <3>0, LineLength DEF LineInv
      <4>2. /\ line' = Tail(line) /\ line' \in Seq(Nodes) /\ Len(line') = Len(line) - 1
            /\ \A i \in 1..(Len(line) - 1) : line'[i] = line[i + 1]
            /\ line' = <<>> <=> Len(line) = 1
        BY <1>0, <2>1, <2>10, <3>0, Left DEF TypeOK
      <4>3. line' # <<>> /\ line'[1] = other[p]
        BY <4>1, <4>2
      <4> QED BY <4>1, <4>2, <4>3
    <3>2. /\ \A n : InLine(n)' => InLine(n)
          /\ InLine(other[p]) /\ other[p] # ptr[p]
      <4>1. \A n : InLine(n)' => InLine(n)
        BY <3>1 DEF InLine
      <4>2. 1 \in 1..Len(line) /\ 2 \in 1..Len(line)
        BY <3>1
      <4>3. InLine(other[p]) /\ other[p] # ptr[p]
        BY <1>0, <3>0, <3>1, <4>2 DEF InLine, LineInv
      <4> QED BY <4>1, <4>3
    <3>3. TypeOK'
      <4>1. head' \in Refs
        BY <1>0, <1>1, <2>1 DEF TypeOK, Refs
      <4> QED BY <1>0, <1>1, <2>1, <2>2, <2>3, <3>1, <4>1 DEF TypeOK, Moved, DequeuePCs, ClaimPCs
    <3>4. LineInv'
      <4>1. tail' = line'[Len(line')]
        <5>1. Len(line') \in 1..Len(line') /\ Len(line') + 1 = Len(line)
          BY <3>1
        <5> QED BY <1>0, <1>1, <3>0, <3>1, <5>1 DEF LineInv
      <4>2. \A i \in 1..Len(line') : line'[i] \in heap'
        BY <1>0, <1>1, <3>1 DEF LineInv
      <4>3. \A i, j \in 1..Len(line') : line'[i] = line'[j] => i = j
        <5>1. SUFFICES ASSUME NEW i \in 1..Len(line'), NEW j \in 1..Len(line'), line'[i] = line'[j]
                       PROVE  i = j
          OBVIOUS
        <5>2. i + 1 = j + 1
          BY <1>0, <3>1, <5>1 DEF LineInv
        <5> QED BY <3>1, <5>2
      <4>4. \A i \in 1..Len(line') :
               \/ mem'[line'[i]].next = Null
               \/ i < Len(line') /\ mem'[line'[i]].next = line'[i + 1]
        <5>1. SUFFICES ASSUME NEW i \in 1..Len(line'), mem'[line'[i]].next # Null
                       PROVE  i < Len(line') /\ mem'[line'[i]].next = line'[i + 1]
          OBVIOUS
        <5>2. line'[i] = line[i + 1] /\ i + 1 \in 1..Len(line)
          BY <3>1
        <5>3. i + 1 < Len(line) /\ mem[line[i + 1]].next = line[(i + 1) + 1]
          BY <1>0, <1>1, <5>1, <5>2 DEF LineInv
        <5>4. i < Len(line') /\ i + 1 \in 1..Len(line')
          BY <3>1, <5>3
        <5> QED BY <1>1, <3>1, <5>2, <5>3, <5>4
      <4> QED BY <1>0, <1>1, <3>1, <4>1, <4>2, <4>3, <4>4 DEF LineInv
    <3>5. HeadInv'
      <4>1. other[p] \in heap
        BY <1>0, <3>2 DEF InLine, LineInv
      <4> QED BY <1>1, <2>7, <2>10, <3>1, <4>1 DEF HeadInv
    <3>6. SwapInv'
      BY <1>0, <1>1, <2>3, <2>7, <3>2 DEF SwapInv
    <3>7. LinkInv'
      <4>1. ASSUME NEW e \in Enqueuers, pc'[e] \in LinkPCs
            PROVE  \E i \in 1..Len(line') :
                      i < Len(line') /\ other'[e] = line'[i] /\ ptr'[e] = line'[i + 1]
        <5>1. mem[other[e]].next = Null
          BY <1>0, <2>3, <4>1 DEF LinkInv
        <5>2. PICK i \in 1..Len(line) :
                 i < Len(line) /\ other[e] = line[i] /\ ptr[e] = line[i + 1]
          BY <1>0, <2>3, <4>1 DEF LinkInv
        <5>3. i # 1
          BY <2>10, <3>0, <5>1, <5>2
        <5>4. /\ i - 1 \in 1..Len(line') /\ i - 1 < Len(line') /\ (i - 1) + 1 \in 1..Len(line')
              /\ (i - 1) + 1 = i
          BY <3>1, <5>2, <5>3
        <5> QED BY <2>3, <3>1, <5>2, <5>4
      <4> QED BY <1>0, <1>1, <2>3, <4>1 DEF LinkInv
    <3>8. StartInv'
      <4>1. \A e \in Enqueuers : pc[e] # "sethead"
        BY <1>0, <2>7, <3>0 DEF StartInv
      <4> QED BY <2>3, <4>1 DEF StartInv
    <3>9. ClaimInv'
      <4>1. ~InLine(ptr[p])'
        <5>1. \A i \in 1..Len(line') : line'[i] # line[1]
          <6>1. SUFFICES ASSUME NEW i \in 1..Len(line') PROVE line[i + 1] # line[1]
            BY <3>1
          <6>2. i + 1 \in 1..Len(line) /\ 1 \in 1..Len(line) /\ i + 1 # 1
            BY <3>1
          <6> QED BY <1>0, <6>2 DEF LineInv
        <5> QED BY <1>1, <3>0, <5>1 DEF InLine
      <4>2. \A t \in Takers : t # p /\ pc'[t] \in ClaimPCs => ~InLine(ptr[t]) /\ ~(InLine(ptr[t])')
        BY <1>0, <1>1, <2>5, <2>6, <3>2 DEF ClaimInv, InLine
      <4>3. \A t \in Takers : pc'[t] \in ClaimPCs => ptr'[t] \in heap' /\ ptr'[t] # other[p]
        BY <1>0, <1>1, <2>6, <3>2, <4>2 DEF ClaimInv
      <4>4. \A t \in Takers : pc'[t] \in {"checkinflight", "free"} => pc'[t] \in ClaimPCs
        BY DEF ClaimPCs
      <4> QED BY <1>0, <2>3, <2>6, <2>7, <4>1, <4>2, <4>3, <4>4 DEF ClaimInv
    <3> QED BY <2>4, <2>8, <3>3, <3>4, <3>5, <3>6, <3>7, <3>8, <3>9 DEF QueueInv
  <2> QED BY <2>9, <2>10
<1> QED BY <1>2, <1>3

(* A flag that is down means the enqueuer behind has linked and left.      *)
LEMMA CheckInflightKeeps ==
    ASSUME QueueInv, NEW p \in Takers, DeqCheckInflight(p)
    PROVE  QueueInv' /\ (UseInv => UseInv')
<1>0. TypeOK /\ LineInv /\ LinkInv /\ ClaimInv /\ ReadInv
  BY DEF QueueInv
<1>1. /\ pc[p] = "checkinflight" /\ pc[p] \in ClaimPCs /\ ~Holds(p) /\ result[p] = None
      /\ p \in Procs /\ ptr[p] \in heap /\ ~InLine(ptr[p])
  <2>1. pc[p] = "checkinflight" /\ pc[p] \in ClaimPCs /\ ~Holds(p) /\ p \in Procs
    BY Names DEF DeqCheckInflight, At, ClaimPCs, Holds
  <2> QED BY <1>0, <2>1 DEF ClaimInv, ReadInv
<1>2. /\ head' = head /\ tail' = tail /\ mem' = mem /\ heap' = heap /\ line' = line
      /\ count' = count /\ result' = result /\ ptr' = ptr /\ other' = other /\ uaf' = uaf
  BY <1>0, <1>1 DEF DeqCheckInflight, Touch, TypeOK
<1>3. {"checkinflight", "free"} \subseteq DequeuePCs
  BY DEF DequeuePCs, ClaimPCs
<1>4. CASE mem[ptr[p]].inflight = 0
  <2>1. Moved(p, "free", ptr[p], other[p]) /\ crash' = crash
    BY <1>0, <1>1, <1>2, <1>3, <1>4, Moves DEF DeqCheckInflight, TypeOK
  <2>2. ~Holds(p)'
    BY <2>1 DEF Holds, Moved
  <2>3. QueueInv'
    BY <1>0, <1>1, <1>2, <1>3, <2>1, <2>2, TakerMoves DEF TypeOK
  <2>4. ASSUME UseInv PROVE UseInv'
    <3>1. ASSUME NEW e \in Enqueuers, pc[e] \in WritePCs, other[e] = ptr[p] PROVE FALSE
      <4>1. CASE pc[e] = "inflight"
        BY <1>0, <1>1, <3>1, <4>1, Linker DEF LinkPCs
      <4>2. CASE pc[e] \in {"magic", "link", "clear"}
        BY <1>4, <2>4, <3>1, <4>2 DEF UseInv, FlagInv
      <4> QED BY <3>1, <4>1, <4>2 DEF WritePCs
    <3> QED BY <1>2, <2>1, <2>4, <3>1, TakerWrites
  <2> QED BY <2>3, <2>4
<1>5. CASE mem[ptr[p]].inflight # 0
  <2>1. pc' = pc /\ crash' = "inflight"
    BY <1>5 DEF DeqCheckInflight, Abort
  <2>2. Moved(p, "checkinflight", ptr[p], other[p]) /\ ~Holds(p)'
    BY <1>0, <1>1, <1>2, <2>1 DEF Moved, Holds, TypeOK
  <2>3. QueueInv'
    BY <1>0, <1>1, <1>2, <1>3, <2>1, <2>2, TakerMoves DEF TypeOK
  <2>4. UseInv => UseInv'
    BY <1>2, <2>2, TakerWrites
  <2> QED BY <2>3, <2>4
<1> QED BY <1>4, <1>5

(* The node a taker frees is nobody else's.                                *)
LEMMA FreeKeeps ==
    ASSUME QueueInv, NEW p \in Takers, DeqFree(p)
    PROVE  QueueInv' /\ (UseInv => UseInv')
<1>0. /\ TypeOK /\ LineInv /\ HeadInv /\ SwapInv /\ LinkInv /\ StartInv
      /\ ClaimInv /\ ReadInv
  BY DEF QueueInv
<1>1. /\ pc[p] = "free" /\ pc[p] \in ClaimPCs /\ ~Holds(p)
      /\ p \in Procs /\ ptr[p] \in heap /\ ~InLine(ptr[p]) /\ head.node # ptr[p]
  <2>1. pc[p] = "free" /\ pc[p] \in ClaimPCs /\ ~Holds(p) /\ p \in Procs
    BY Names DEF DeqFree, At, ClaimPCs, Holds
  <2> QED BY <1>0, <2>1 DEF ClaimInv
<1>2. mem[ptr[p]].magic = "LIVE" /\ mem[ptr[p]].data \in Items /\ ptr[p] \in Nodes
  BY <1>0, <1>1 DEF LineInv, TypeOK
<1>3. /\ head' = head /\ tail' = tail /\ line' = line /\ count' = count /\ uaf' = uaf
      /\ crash' = crash /\ heap' = heap \ {ptr[p]} /\ Return(p, mem[ptr[p]].data)
  BY <1>0, <1>1, <1>2 DEF DeqFree, Touch, TypeOK
<1>4. /\ mem' \in [Nodes -> Cells]
      /\ \A n \in Nodes : /\ n # ptr[p] => mem'[n] = mem[n]
                          /\ mem'[n].next = mem[n].next
                          /\ mem'[n].inflight = mem[n].inflight
  <2>1. mem' = mem \/ mem' = [mem EXCEPT ![ptr[p]].magic = "FREED"]
    BY <1>2 DEF DeqFree
  <2>2. mem \in [Nodes -> Cells]
    BY <1>0 DEF TypeOK
  <2> QED BY <1>2, <2>1, <2>2 DEF Cells
<1>5. /\ Moved(p, "idle", Null, Null)
      /\ result' \in [Takers -> Items \cup {Null, None, Empty, Busy}]
      /\ \A t \in Takers : t # p => result'[t] = result[t]
  BY <1>0, <1>2, <1>3, Returned
<1>6. /\ \A e \in Enqueuers : pc'[e] = pc[e] /\ ptr'[e] = ptr[e] /\ other'[e] = other[e]
      /\ \A t \in Takers : t # p => /\ pc'[t] = pc[t] /\ ptr'[t] = ptr[t]
                                    /\ other'[t] = other[t] /\ (Holds(t)' <=> Holds(t))
      /\ pc'[p] = "idle"
      /\ \A n : InLine(n)' <=> InLine(n)
  BY <1>3, <1>5, Names DEF Moved, Holds, InLine
<1>7. TypeOK'
  BY <1>0, <1>3, <1>4, <1>5, <1>6 DEF TypeOK, Moved, DequeuePCs
<1>8. LineInv'
  <2>1. \A i \in 1..Len(line) : line[i] \in heap' /\ line[i] \in Nodes
    BY <1>0, <1>1, <1>3, LineLength DEF LineInv, InLine
  <2>2. \A n \in heap' : mem'[n] = mem[n] /\ n \in heap
    BY <1>0, <1>3, <1>4 DEF TypeOK
  <2> QED BY <1>0, <1>3, <2>1, <2>2 DEF LineInv
<1>9. HeadInv'
  BY <1>0, <1>1, <1>3 DEF HeadInv
<1>10. SwapInv'
  <2>1. \A e \in Enqueuers : pc'[e] = "swap" =>
           /\ pc[e] = "swap" /\ ptr'[e] = ptr[e] /\ ptr[e] # ptr[p]
           /\ ptr[e] \in heap' /\ mem'[ptr[e]].next = Null
    BY <1>0, <1>1, <1>3, <1>4, <1>6 DEF SwapInv, ClaimInv, TypeOK
  <2>2. \A e \in Enqueuers : pc'[e] = "swap" => ~(InLine(ptr[e])')
    BY <1>0, <1>6, <2>1 DEF SwapInv
  <2> QED BY <1>0, <1>3, <2>1, <2>2 DEF SwapInv
<1>11. LinkInv' /\ StartInv'
  <2>1. \A n \in heap : mem'[n].next = mem[n].next
    BY <1>0, <1>4 DEF TypeOK
  <2>2. LinkInv'
    BY <1>0, <1>3, <1>6, <2>1, LinkKept
  <2>3. StartInv'
    BY <1>0, <1>3, <1>6 DEF StartInv
  <2> QED BY <2>2, <2>3
<1>12. ClaimInv'
  <2>1. \A t \in Takers : pc'[t] \in ClaimPCs \cup {"checkinflight", "free"} =>
           /\ t # p /\ pc'[t] = pc[t] /\ ptr'[t] = ptr[t] /\ (Holds(t)' <=> Holds(t))
           /\ pc[t] \in ClaimPCs
    BY <1>6 DEF ClaimPCs
  <2>2. \A t \in Takers : pc'[t] \in ClaimPCs => ptr'[t] # ptr[p] /\ ptr'[t] \in heap'
    BY <1>0, <1>1, <1>3, <2>1 DEF ClaimInv
  <2>3. \A t \in Takers : pc'[t] \in ClaimPCs /\ ~Holds(t)' => ~(InLine(ptr[t])')
    BY <1>0, <1>6, <2>1 DEF ClaimInv
  <2>4. \A t, u \in Takers :
           pc'[t] \in ClaimPCs /\ pc'[u] \in ClaimPCs /\ ptr'[t] = ptr'[u] => t = u
    BY <1>0, <2>1 DEF ClaimInv
  <2>5. \A t \in Takers, e \in Enqueuers :
           pc'[t] \in ClaimPCs /\ pc'[e] = "swap" => ptr'[t] # ptr'[e]
    BY <1>0, <1>6, <2>1 DEF ClaimInv
  <2> QED BY <1>0, <1>3, <2>1, <2>2, <2>3, <2>4, <2>5 DEF ClaimInv
<1>13. ReadInv'
  <2>1. \A t \in Takers : pc'[t] # "idle" =>
           t # p /\ pc'[t] = pc[t] /\ ptr'[t] = ptr[t] /\ other'[t] = other[t]
    BY <1>6
  <2>2. \A t \in Takers : pc[t] \in {"asserttail", "cashead"} => ptr[t] \in Nodes
    BY <1>0 DEF ClaimInv, ClaimPCs, TypeOK
  <2> QED BY <1>0, <1>4, <1>5, <2>1, <2>2 DEF ReadInv
<1>14. ASSUME UseInv PROVE UseInv'
  <2>1. WriteInv'
    BY <1>0, <1>1, <1>3, <1>6, <1>14 DEF UseInv, WriteInv, FlagInv
  <2>2. FlagInv'
    <3>1. \A e \in Enqueuers : pc[e] \in WritePCs => other[e] \in Nodes
      BY <1>0, <1>14 DEF UseInv, WriteInv, TypeOK
    <3>2. {"magic", "link", "clear"} \subseteq WritePCs
      BY DEF WritePCs
    <3> QED BY <1>4, <1>6, <1>14, <3>1, <3>2 DEF UseInv, FlagInv
  <2> QED BY <1>3, <1>14, <2>1, <2>2 DEF UseInv
<1> QED BY <1>7, <1>8, <1>9, <1>10, <1>11, <1>12, <1>13, <1>14 DEF QueueInv

-----------------------------------------------------------------------------
(* The empty queue nobody has called.                                      *)
LEMMA InitOK == Init => QueueInv /\ UseInv
<1> SUFFICES ASSUME Init PROVE QueueInv /\ UseInv
  OBVIOUS
<1>1. /\ \A e \in Enqueuers : pc[e] = "idle"
      /\ \A t \in Takers : pc[t] = "idle"
      /\ line = <<>> /\ Len(line) = 0 /\ heap = {} /\ ~uaf /\ tail = Null
      /\ head.node = Null /\ ~head.marked
  BY Names DEF Init
<1>2. TypeOK
  <2>1. mem \in [Nodes -> Cells]
    BY DEF Init, Cells, Address
  <2>2. head \in Refs /\ tail \in Address /\ heap \subseteq Nodes /\ line \in Seq(Nodes)
    BY DEF Init, Refs, Address
  <2>3. /\ pc \in [Procs -> EnqueuePCs \cup DequeuePCs]
        /\ ptr \in [Procs -> Address] /\ other \in [Procs -> Address]
        /\ count \in [Enqueuers -> 0..MaxEnqueues]
        /\ result \in [Takers -> Items \cup {Null, None, Empty, Busy}]
    BY QueueAssumption DEF Init, EnqueuePCs, Address
  <2>4. crash = "none" /\ uaf \in BOOLEAN
    BY DEF Init
  <2> QED BY <1>1, <2>1, <2>2, <2>3, <2>4 DEF TypeOK, EnqueuePCs, DequeuePCs
<1>3. LineInv /\ HeadInv
  BY <1>1 DEF LineInv, HeadInv
<1>4. SwapInv /\ LinkInv /\ StartInv
  BY <1>1 DEF SwapInv, LinkInv, StartInv, LinkPCs
<1>5. ClaimInv /\ ReadInv
  BY <1>1 DEF ClaimInv, ReadInv, ClaimPCs
<1>6. UseInv
  BY <1>1 DEF UseInv, WriteInv, FlagInv, WritePCs
<1> QED BY <1>2, <1>3, <1>4, <1>5, <1>6 DEF QueueInv

(* Nothing moves any more after an abort, nor when nobody does.            *)
LEMMA StutterKeeps ==
    ASSUME QueueInv, UNCHANGED vars
    PROVE  QueueInv' /\ (UseInv => UseInv')
<1>1. TypeOK' /\ LineInv' /\ HeadInv' /\ SwapInv' /\ LinkInv' /\ StartInv'
  BY DEF QueueInv, TypeOK, LineInv, HeadInv, SwapInv, LinkInv, StartInv, InLine, vars
<1>2. ClaimInv' /\ ReadInv'
  BY DEF QueueInv, ClaimInv, ReadInv, Holds, InLine, vars
<1>3. UseInv => UseInv'
  BY DEF UseInv, WriteInv, FlagInv, vars
<1> QED BY <1>1, <1>2, <1>3 DEF QueueInv

(* Every step keeps the invariant.                                         *)
LEMMA NextStep ==
    ASSUME QueueInv, [Next]_vars
    PROVE  QueueInv' /\ (UseInv /\ TryDequeuers = {} => UseInv')
<1>1. ASSUME NEW p \in Enqueuers, enqueue(p)
      PROVE  QueueInv' /\ (UseInv => UseInv')
  BY <1>1, AllocKeeps, SwapKeeps, SetInflightKeeps, CheckMagicKeeps, LinkKeeps,
     ClearInflightKeeps, SetHeadKeeps DEF enqueue
<1>2. ASSUME NEW p \in Takers, dequeue(p)
      PROVE  QueueInv' /\ (UseInv /\ TryDequeuers = {} => UseInv')
  BY <1>2, LookKeeps, MarkKeeps, ReadKeeps, CasTailKeeps, CasHeadKeeps,
     CheckInflightKeeps, FreeKeeps DEF dequeue
<1>3. CASE UNCHANGED vars \/ Crashed
  BY <1>3, StutterKeeps DEF Crashed
<1> QED BY <1>1, <1>2, <1>3 DEF Next

(* The line invariant holds in every behaviour of the queue.               *)
THEOREM Invariant == Spec => []QueueInv
<1>1. Init => QueueInv
  BY InitOK
<1>2. QueueInv /\ [Next]_vars => QueueInv'
  BY NextStep
<1> QED BY <1>1, <1>2, PTL DEF Spec

(* When nobody calls try_dequeue no thread reads or writes a freed node:   *)
(* dequeue frees a node after the flag of the enqueuer behind was down.    *)
THEOREM NothingFreedIsUsed ==
    ASSUME TryDequeuers = {} PROVE Spec => []NoUseAfterFree
<1>1. Init => QueueInv /\ UseInv
  BY InitOK
<1>2. (QueueInv /\ UseInv) /\ [Next]_vars => (QueueInv /\ UseInv)'
  BY NextStep
<1>3. QueueInv /\ UseInv => NoUseAfterFree
  BY DEF UseInv, NoUseAfterFree
<1> QED BY <1>1, <1>2, <1>3, PTL DEF Spec

(* Of the five checks that end the process three never fail: the assert    *)
(* on tail and the magic word in dequeue, and the magic word in enqueue.   *)
THEOREM SoundChecks ==
    Spec => [](crash \notin {"assert_tail", "enqueue_magic", "dequeue_magic"})
<1>1. QueueInv => crash \notin {"assert_tail", "enqueue_magic", "dequeue_magic"}
  BY DEF QueueInv, TypeOK
<1> QED BY <1>1, Invariant, PTL

-----------------------------------------------------------------------------
(* The items in the nodes of a sequence.                                   *)
ItemsOf(s) == [i \in DOMAIN s |-> mem[s[i]].data]

(* They are as many as the nodes.                                          *)
LEMMA Spelled ==
    ASSUME TypeOK, NEW s \in Seq(Nodes)
    PROVE  /\ ItemsOf(s) \in Seq(Items \cup {Null}) /\ Len(ItemsOf(s)) = Len(s)
           /\ \A i \in 1..Len(s) : ItemsOf(s)[i] = mem[s[i]].data
           /\ Len(s) \in Nat /\ DOMAIN s = 1..Len(s)
           /\ \A i \in 1..Len(s) : s[i] \in Nodes
<1>1. /\ Len(s) \in Nat /\ DOMAIN s = 1..Len(s)
      /\ \A i \in 1..Len(s) : s[i] \in Nodes
  BY LenProperties
<1>2. \A i \in 1..Len(s) : mem[s[i]].data \in Items \cup {Null}
  BY <1>1 DEF TypeOK, Cells
<1>3. ItemsOf(s) \in [1..Len(s) -> Items \cup {Null}]
  BY <1>1, <1>2 DEF ItemsOf
<1>4. \A f \in [1..Len(s) -> Items \cup {Null}] : f \in Seq(Items \cup {Null}) /\ Len(f) = Len(s)
  BY <1>1
<1> QED BY <1>1, <1>3, <1>4 DEF ItemsOf

(* A node at the end of the sequence is an item at the end.                *)
LEMMA SpelledLonger ==
    ASSUME TypeOK, NEW s \in Seq(Nodes), NEW n \in Nodes
    PROVE  ItemsOf(Append(s, n)) = Append(ItemsOf(s), mem[n].data)
<1> DEFINE S == Items \cup {Null}
           a == ItemsOf(Append(s, n))
           b == Append(ItemsOf(s), mem[n].data)
<1>1. /\ Append(s, n) \in Seq(Nodes) /\ Len(Append(s, n)) = Len(s) + 1
      /\ \A i \in 1..Len(s) : Append(s, n)[i] = s[i]
      /\ Append(s, n)[Len(s) + 1] = n
  BY AppendProperties
<1>2. /\ ItemsOf(s) \in Seq(S) /\ Len(ItemsOf(s)) = Len(s) /\ Len(s) \in Nat
      /\ \A i \in 1..Len(s) : ItemsOf(s)[i] = mem[s[i]].data
  BY Spelled
<1>3. mem[n].data \in S
  BY DEF TypeOK, Cells
<1>4. /\ a \in Seq(S) /\ Len(a) = Len(s) + 1
      /\ \A i \in 1..(Len(s) + 1) : a[i] = mem[Append(s, n)[i]].data
  BY <1>1, Spelled
<1>5. /\ b \in Seq(S) /\ Len(b) = Len(s) + 1
      /\ \A i \in 1..Len(s) : b[i] = mem[s[i]].data
      /\ b[Len(s) + 1] = mem[n].data
  <2> HIDE DEF S
  <2> QED BY <1>2, <1>3, AppendProperties
<1> HIDE DEF S, a, b
<1>6. ASSUME NEW i \in 1..Len(a) PROVE a[i] = b[i]
  <2>1. i \in 1..Len(s) \/ i = Len(s) + 1
    BY <1>2, <1>4
  <2> QED BY <1>1, <1>2, <1>4, <1>5, <2>1
<1>7. a = b
  BY <1>4, <1>5, <1>6, SeqEqual
<1> QED BY <1>7 DEF a, b

(* Without its first node it is the items without the first.               *)
LEMMA SpelledShorter ==
    ASSUME TypeOK, NEW s \in Seq(Nodes), s # <<>>
    PROVE  /\ ItemsOf(Tail(s)) = Tail(ItemsOf(s)) /\ ItemsOf(s) # <<>>
           /\ Head(ItemsOf(s)) = mem[s[1]].data
<1> DEFINE S == Items \cup {Null}
           a == ItemsOf(Tail(s))
           c == ItemsOf(s)
           b == Tail(c)
<1>1. /\ Tail(s) \in Seq(Nodes) /\ Len(s) \in Nat /\ Len(s) > 0
      /\ Len(Tail(s)) = Len(s) - 1
      /\ \A i \in 1..(Len(s) - 1) : Tail(s)[i] = s[i + 1]
  BY Left
<1>2. /\ c \in Seq(S) /\ Len(c) = Len(s)
      /\ \A i \in 1..Len(s) : c[i] = mem[s[i]].data
  BY Spelled
<1>3. /\ a \in Seq(S) /\ Len(a) = Len(s) - 1
      /\ \A i \in 1..(Len(s) - 1) : a[i] = mem[Tail(s)[i]].data
  BY <1>1, Spelled
<1> HIDE DEF S, a, c
<1>4. c # <<>>
  BY <1>1, <1>2
<1>5. /\ b \in Seq(S) /\ Len(b) = Len(s) - 1 /\ Head(c) = c[1]
      /\ \A i \in 1..(Len(s) - 1) : b[i] = c[i + 1]
  BY <1>1, <1>2, <1>4, Left
<1> HIDE DEF b
<1>6. ASSUME NEW i \in 1..Len(a) PROVE a[i] = b[i]
  <2>1. i \in 1..(Len(s) - 1) /\ i + 1 \in 1..Len(s)
    BY <1>1, <1>3
  <2> QED BY <1>1, <1>2, <1>3, <1>5, <2>1
<1>7. a = b
  BY <1>3, <1>5, <1>6, SeqEqual
<1>8. Head(c) = mem[s[1]].data
  BY <1>1, <1>2, <1>5
<1> QED BY <1>4, <1>7, <1>8 DEF a, b, c

(* The unclaimed nodes: the line, or the line without its marked head.     *)
LEMMA Unclaimed ==
    ASSUME QueueInv
    PROVE  /\ QueuedNodes \in Seq(Nodes) /\ QueuedItems = ItemsOf(QueuedNodes)
           /\ \A i \in 1..Len(QueuedNodes) : QueuedNodes[i] \in heap
<1>0. TypeOK /\ LineInv /\ line \in Seq(Nodes)
  BY DEF QueueInv, TypeOK
<1>1. CASE QueuedNodes = line
  BY <1>0, <1>1 DEF LineInv, QueuedItems, ItemsOf
<1>2. CASE line # <<>> /\ QueuedNodes = Tail(line)
  <2>1. /\ Tail(line) \in Seq(Nodes) /\ Len(line) \in Nat /\ Len(Tail(line)) = Len(line) - 1
        /\ \A i \in 1..(Len(line) - 1) : Tail(line)[i] = line[i + 1]
    BY <1>0, <1>2, Left
  <2>2. \A i \in 1..(Len(line) - 1) : i + 1 \in 1..Len(line)
    BY <2>1
  <2> QED BY <1>0, <1>2, <2>1, <2>2 DEF LineInv, QueuedItems, ItemsOf
<1> QED BY <1>1, <1>2 DEF QueuedNodes

(* Steps that leave the unclaimed nodes and all data alone.                *)
LEMMA SameItems ==
    ASSUME QueueInv, QueuedNodes' = QueuedNodes, \A n \in heap : mem'[n].data = mem[n].data
    PROVE  QueuedItems' = QueuedItems
<1>1. DOMAIN QueuedNodes = 1..Len(QueuedNodes)
  BY Unclaimed, LenProperties
<1>2. \A i \in DOMAIN QueuedNodes : mem'[QueuedNodes[i]].data = mem[QueuedNodes[i]].data
  BY <1>1, Unclaimed
<1> QED BY <1>2 DEF QueuedItems

(* Steps no taker sees.                                                    *)
LEMMA SameOutcome ==
    ASSUME QueueInv, \A n \in heap : mem'[n].data = mem[n].data,
           \A t \in Takers :
              \/ pc[t] \in ClaimPCs /\ pc'[t] \in ClaimPCs /\ ptr'[t] = ptr[t]
              \/ pc[t] \notin ClaimPCs /\ pc'[t] \notin ClaimPCs /\ result'[t] = result[t]
    PROVE  Outcome' = Outcome
<1>1. \A t \in Takers : pc[t] \in ClaimPCs => mem'[ptr[t]].data = mem[ptr[t]].data
  BY DEF QueueInv, ClaimInv
<1> QED BY <1>1 DEF Outcome

(* Steps that decide the outcome of one taker.                             *)
LEMMA NewOutcome ==
    ASSUME QueueInv, NEW p \in Takers, NEW v, \A n \in heap : mem'[n].data = mem[n].data,
           \A t \in Takers : t # p => pc'[t] = pc[t] /\ ptr'[t] = ptr[t] /\ result'[t] = result[t],
           IF pc'[p] \in ClaimPCs THEN mem'[ptr'[p]].data = v ELSE result'[p] = v
    PROVE  Outcome' = [Outcome EXCEPT ![p] = v]
<1>1. \A t \in Takers : pc[t] \in ClaimPCs => mem'[ptr[t]].data = mem[ptr[t]].data
  BY DEF QueueInv, ClaimInv
<1> QED BY <1>1 DEF Outcome

(* What a call that starts, or an attempt that gets nowhere, is to its     *)
(* caller.                                                                 *)
LEMMA Answers ==
    ASSUME QueueInv, NEW p \in Takers, NEW r \in {Empty, Busy}, Return(p, r),
           pc[p] \notin ClaimPCs, QueuedNodes' = QueuedNodes, mem' = mem
    PROVE  /\ Outcome' = [Outcome EXCEPT ![p] = r]
           /\ QueuedItems' = QueuedItems
           /\ pc[p] # "idle" => Outcome[p] = None
<1>1. TypeOK /\ ReadInv
  BY DEF QueueInv
<1>2. /\ \A t \in Takers : t # p => pc'[t] = pc[t] /\ ptr'[t] = ptr[t] /\ result'[t] = result[t]
      /\ pc'[p] = "idle" /\ result'[p] = r
  BY <1>1, Returned, Names DEF Moved
<1>3. pc'[p] \notin ClaimPCs
  BY <1>2 DEF ClaimPCs
<1>4. Outcome' = [Outcome EXCEPT ![p] = r]
  BY <1>2, <1>3, NewOutcome
<1>5. pc[p] # "idle" => Outcome[p] = None
  BY <1>1 DEF Outcome, ReadInv
<1> QED BY <1>4, <1>5, SameItems

(* Where the unclaimed nodes stay when head and line do.                   *)
LEMMA SameNodes ==
    ASSUME head' = head, line' = line PROVE QueuedNodes' = QueuedNodes
BY DEF QueuedNodes

(* An enqueuer puts its item with its exchange of tail, and not otherwise. *)
LEMMA EnqueuePuts ==
    ASSUME QueueInv, NEW p \in Enqueuers, enqueue(p)
    PROVE  (\E i \in Items : Fifo!Put(i)) \/ UNCHANGED <<QueuedItems, Outcome>>
<1>0. /\ TypeOK /\ LineInv /\ SwapInv /\ StartInv /\ QueueInv'
  BY AllocKeeps, SwapKeeps, SetInflightKeeps, CheckMagicKeeps, LinkKeeps,
     ClearInflightKeeps, SetHeadKeeps DEF enqueue, QueueInv
<1>1. \A n \in heap : mem'[n].data = mem[n].data
  <2>1. mem \in [Nodes -> Cells] /\ heap \subseteq Nodes
    BY <1>0 DEF TypeOK
  <2>2. CASE EnqAlloc(p)
    BY <2>1, <2>2 DEF EnqAlloc
  <2>3. CASE EnqSetInflight(p)
    BY <2>1, <2>3 DEF EnqSetInflight, Cells
  <2>4. CASE EnqLink(p)
    BY <2>1, <2>4 DEF EnqLink, Cells
  <2>5. CASE EnqClearInflight(p)
    BY <2>1, <2>5 DEF EnqClearInflight, Cells
  <2>6. CASE EnqSwapTail(p) \/ EnqCheckMagic(p) \/ EnqSetHead(p)
    BY <2>6 DEF EnqSwapTail, EnqCheckMagic, EnqSetHead
  <2> QED BY <2>2, <2>3, <2>4, <2>5, <2>6 DEF enqueue
<1>2. /\ \A t \in Takers : pc'[t] = pc[t] /\ ptr'[t] = ptr[t]
      /\ result' = result
  <2>1. \A t \in Takers : t # p /\ t \in Procs
    BY Names
  <2>2. CASE EnqAlloc(p)
    BY <1>0, <2>1, <2>2 DEF EnqAlloc, Goto, TypeOK
  <2>3. CASE EnqSwapTail(p) \/ EnqSetInflight(p) \/ EnqLink(p)
    BY <1>0, <2>1, <2>3 DEF EnqSwapTail, EnqSetInflight, EnqLink, Goto, TypeOK
  <2>4. CASE EnqCheckMagic(p)
    BY <1>0, <2>1, <2>4 DEF EnqCheckMagic, Goto, TypeOK
  <2>5. CASE EnqClearInflight(p) \/ EnqSetHead(p)
    BY <1>0, <2>1, <2>5 DEF EnqClearInflight, EnqSetHead, Goto, TypeOK
  <2> QED BY <2>2, <2>3, <2>4, <2>5 DEF enqueue
<1>3. Outcome' = Outcome
  BY <1>1, <1>2, SameOutcome
<1>4. CASE EnqSwapTail(p)
  <2>1. /\ ptr[p] \in heap /\ ptr[p] \in Nodes /\ ptr[p] # head.node
        /\ mem' = mem /\ head' = head /\ line' = Append(line, ptr[p])
    BY <1>0, <1>4 DEF EnqSwapTail, At, SwapInv, TypeOK
  <2>2. /\ line \in Seq(Nodes) /\ line' \in Seq(Nodes) /\ line' # <<>> /\ Len(line) \in Nat
        /\ Len(line') = Len(line) + 1 /\ line'[Len(line) + 1] = ptr[p]
        /\ \A i \in 1..Len(line) : line'[i] = line[i]
        /\ line = <<>> <=> Len(line) = 0
    <3>1. line \in Seq(Nodes) /\ ptr[p] \in Nodes
      BY <1>0, <2>1 DEF TypeOK
    <3> QED BY <2>1, <3>1, Joined
  <2>3. QueuedNodes' = Append(QueuedNodes, ptr[p])
    <3>1. CASE line = <<>>
      BY <2>1, <2>2, <3>1 DEF QueuedNodes
    <3>2. CASE line # <<>>
      <4>1. line'[1] = line[1]
        BY <2>2, <3>2
      <4>2. Tail(Append(line, ptr[p])) = Append(Tail(line), ptr[p])
        BY <2>1, <2>2, <3>2, TailOfAppend
      <4> QED BY <2>1, <2>2, <3>2, <4>1, <4>2 DEF QueuedNodes
    <3> QED BY <3>1, <3>2
  <2>4. QueuedItems' = ItemsOf(QueuedNodes')
    BY <2>1 DEF QueuedItems, ItemsOf
  <2>5. QueuedItems' = Append(QueuedItems, mem[ptr[p]].data)
    BY <1>0, <2>1, <2>3, <2>4, Unclaimed, SpelledLonger
  <2>6. mem[ptr[p]].data \in Items
    BY <1>0, <2>1 DEF LineInv
  <2> QED BY <1>3, <2>5, <2>6 DEF Fifo!Put
<1>5. CASE EnqSetHead(p)
  <2>1. /\ line # <<>> /\ head.node # line[1] /\ line' = line /\ ~head'.marked
    BY <1>0, <1>5 DEF EnqSetHead, At, StartInv
  <2>2. QueuedNodes' = QueuedNodes
    BY <2>1 DEF QueuedNodes
  <2> QED BY <1>1, <1>3, <2>2, SameItems
<1>6. CASE \/ EnqAlloc(p) \/ EnqSetInflight(p) \/ EnqCheckMagic(p) \/ EnqLink(p)
           \/ EnqClearInflight(p)
  <2>1. head' = head /\ line' = line
    BY <1>6 DEF EnqAlloc, EnqSetInflight, EnqCheckMagic, EnqLink, EnqClearInflight
  <2> QED BY <1>1, <1>3, <2>1, SameNodes, SameItems
<1> QED BY <1>4, <1>5, <1>6 DEF enqueue

(* A taker takes with the mark it sets on head; the steps after it neither *)
(* change the unclaimed nodes nor what the taker will return.              *)
LEMMA DequeueTakes ==
    ASSUME QueueInv, NEW p \in Takers, dequeue(p)
    PROVE  \/ Fifo!Call(p) \/ Fifo!Take(p) \/ Fifo!FindEmpty(p) \/ Fifo!FindBusy(p)
           \/ UNCHANGED <<QueuedItems, Outcome>>
<1>0. /\ TypeOK /\ LineInv /\ HeadInv /\ ClaimInv /\ ReadInv /\ line \in Seq(Nodes) /\ p \in Procs
  BY Names DEF QueueInv, TypeOK
<1>1. /\ \A t \in Takers : t # p => pc'[t] = pc[t] /\ ptr'[t] = ptr[t] /\ result'[t] = result[t]
      /\ \A n \in heap : mem'[n].data = mem[n].data
  <2>1. \A t \in Takers : t \in Procs
    BY Names
  <2>2. mem \in [Nodes -> Cells] /\ heap \subseteq Nodes /\ pc \in [Procs -> EnqueuePCs \cup DequeuePCs]
        /\ ptr \in [Procs -> Address] /\ result \in [Takers -> Items \cup {Null, None, Empty, Busy}]
    BY <1>0 DEF TypeOK
  <2>3. CASE DeqCall(p) \/ DeqLoadTail(p)
    BY <2>1, <2>2, <2>3 DEF DeqCall, DeqLoadTail, Goto, Return
  <2>4. CASE DeqLoadHead(p) \/ DeqMarkHead(p)
    BY <2>1, <2>2, <2>4 DEF DeqLoadHead, DeqMarkHead, Goto, Return, RetryOrReturn
  <2>5. CASE DeqLoadNext(p) \/ DeqAssertTail(p) \/ DeqSpinNext(p)
    BY <2>1, <2>2, <2>5 DEF DeqLoadNext, DeqAssertTail, DeqSpinNext, Goto, Return
  <2>6. CASE DeqCasTail(p) \/ DeqCasHead(p) \/ DeqCheckInflight(p)
    BY <2>1, <2>2, <2>6 DEF DeqCasTail, DeqCasHead, DeqCheckInflight, Goto
  <2>7. CASE DeqFree(p)
    BY <2>1, <2>2, <2>7 DEF DeqFree, Return, Goto, Cells
  <2> QED BY <2>3, <2>4, <2>5, <2>6, <2>7, <1>0 DEF dequeue
<1>2. \A t \in Takers : pc[t] \notin ClaimPCs => Outcome[t] = result[t]
  BY DEF Outcome
<1>3. {"idle", "tail", "head", "mark"} \cap ClaimPCs = {}
  BY DEF ClaimPCs
<1>4. CASE DeqCall(p)
  <2>1. /\ pc[p] = "idle" /\ pc'[p] = "tail" /\ result'[p] = None
        /\ head' = head /\ line' = line
    BY <1>0, <1>4 DEF DeqCall, At, Goto, TypeOK
  <2>2. Outcome' = [Outcome EXCEPT ![p] = None]
    BY <1>1, <1>3, <2>1, NewOutcome
  <2> QED BY <1>1, <2>1, <2>2, SameNodes, SameItems DEF Fifo!Call
<1>5. ASSUME pc[p] \notin ClaimPCs, pc'[p] \notin ClaimPCs, result' = result,
             head' = head, line' = line
      PROVE  UNCHANGED <<QueuedItems, Outcome>>
  <2>1. Outcome' = Outcome
    BY <1>1, <1>5, SameOutcome
  <2> QED BY <1>1, <1>5, <2>1, SameNodes, SameItems
<1>6. ASSUME NEW r \in {Empty, Busy}, RetryOrReturn(p, r),
             pc[p] \in {"head", "mark"}, head' = head, line' = line, mem' = mem
      PROVE  Fifo!FindEmpty(p) \/ Fifo!FindBusy(p) \/ UNCHANGED <<QueuedItems, Outcome>>
  <2>1. pc[p] \notin ClaimPCs /\ pc[p] # "idle"
    BY <1>3, <1>6
  <2>2. CASE p \in TryDequeuers
    <3>1. /\ Outcome' = [Outcome EXCEPT ![p] = r] /\ QueuedItems' = QueuedItems
          /\ Outcome[p] = None
      BY <1>6, <2>1, <2>2, SameNodes, Answers DEF RetryOrReturn
    <3> QED BY <1>6, <2>2, <3>1 DEF Fifo!FindEmpty, Fifo!FindBusy
  <2>3. CASE p \notin TryDequeuers
    <3>1. pc'[p] = "tail" /\ result' = result
      BY <1>0, <1>6, <2>3 DEF RetryOrReturn, Goto, TypeOK
    <3>2. pc'[p] \notin ClaimPCs
      BY <1>3, <3>1
    <3> QED BY <1>5, <1>6, <2>1, <3>1, <3>2
  <2> QED BY <2>2, <2>3
<1>7. CASE DeqLoadTail(p)
  <2>1. /\ pc[p] = "tail" /\ pc[p] \notin ClaimPCs /\ pc[p] # "idle"
        /\ head' = head /\ line' = line /\ mem' = mem
    BY <1>3, <1>7 DEF DeqLoadTail, At
  <2>2. CASE tail = Null
    <3>1. QueuedItems = <<>>
      <4>1. line = <<>>
        BY <1>0, <2>2, LineLength, Names DEF LineInv
      <4>2. QueuedNodes = <<>>
        BY <4>1 DEF QueuedNodes
      <4>3. Len(QueuedItems) = 0 /\ QueuedItems \in Seq(Items \cup {Null})
        BY <1>0, <4>2, Unclaimed, Spelled
      <4> QED BY <4>3
    <3>2. /\ Outcome' = [Outcome EXCEPT ![p] = Empty] /\ QueuedItems' = QueuedItems
          /\ Outcome[p] = None
      BY <1>7, <2>1, <2>2, SameNodes, Answers DEF DeqLoadTail
    <3> QED BY <3>1, <3>2 DEF Fifo!FindEmpty
  <2>3. CASE tail # Null
    <3>1. pc'[p] = "head" /\ result' = result
      BY <1>0, <1>7, <2>3 DEF DeqLoadTail, Goto, TypeOK
    <3> QED BY <1>3, <1>5, <2>1, <3>1
  <2> QED BY <2>2, <2>3
<1>8. CASE DeqLoadHead(p)
  <2>1. pc[p] = "head" /\ head' = head /\ line' = line /\ mem' = mem
    BY <1>8 DEF DeqLoadHead, At
  <2>2. CASE RetryOrReturn(p, Empty) \/ RetryOrReturn(p, Busy)
    BY <1>6, <2>1, <2>2
  <2>3. CASE Goto(p, "mark") /\ UNCHANGED result
    <3>1. pc'[p] = "mark"
      BY <1>0, <2>3 DEF Goto, TypeOK
    <3> QED BY <1>3, <1>5, <2>1, <2>3, <3>1
  <2> QED BY <1>8, <2>2, <2>3 DEF DeqLoadHead
<1>9. CASE DeqMarkHead(p)
  <2>1. /\ pc[p] = "mark" /\ line' = line /\ mem' = mem /\ ptr[p] # Null
        /\ pc[p] \notin ClaimPCs /\ result[p] = None
    BY <1>0, <1>3, <1>9 DEF DeqMarkHead, At, ReadInv
  <2>2. CASE head # [node |-> ptr[p], marked |-> FALSE]
    BY <1>6, <1>9, <2>1, <2>2 DEF DeqMarkHead
  <2>3. CASE head = [node |-> ptr[p], marked |-> FALSE]
    <3>1. /\ head' = [node |-> ptr[p], marked |-> TRUE] /\ ptr' = ptr
          /\ pc'[p] = "next" /\ pc'[p] \in ClaimPCs
      BY <1>0, <1>9, <2>3 DEF DeqMarkHead, Goto, TypeOK, ClaimPCs
    <3>2. line # <<>> /\ line[1] = ptr[p]
      BY <1>0, <2>1, <2>3 DEF HeadInv
    <3>3. QueuedNodes = line /\ QueuedNodes' = Tail(line)
      BY <2>1, <2>3, <3>1, <3>2 DEF QueuedNodes
    <3>4. QueuedItems = ItemsOf(line) /\ QueuedItems' = ItemsOf(Tail(line))
      BY <2>1, <3>3 DEF QueuedItems, ItemsOf
    <3>5. /\ QueuedItems' = Tail(QueuedItems) /\ QueuedItems # <<>>
          /\ Head(QueuedItems) = mem[ptr[p]].data
      BY <1>0, <3>2, <3>4, SpelledShorter
    <3>6. Outcome' = [Outcome EXCEPT ![p] = Head(QueuedItems)]
      BY <1>1, <2>1, <3>1, <3>5, NewOutcome
    <3>7. Outcome[p] = None
      BY <1>2, <2>1
    <3> QED BY <3>5, <3>6, <3>7 DEF Fifo!Take
  <2> QED BY <2>2, <2>3
<1>10. ASSUME pc[p] \in ClaimPCs, pc'[p] \in ClaimPCs, ptr'[p] = ptr[p], QueuedNodes' = QueuedNodes
       PROVE  UNCHANGED <<QueuedItems, Outcome>>
  <2>1. Outcome' = [Outcome EXCEPT ![p] = mem[ptr[p]].data]
    <3>1. mem'[ptr'[p]].data = mem[ptr[p]].data
      BY <1>0, <1>1, <1>10 DEF ClaimInv
    <3> QED BY <1>1, <1>10, <3>1, NewOutcome
  <2>2. [Outcome EXCEPT ![p] = mem[ptr[p]].data] = Outcome
    BY <1>10 DEF Outcome
  <2> QED BY <1>1, <1>10, <2>1, <2>2, SameItems
<1>11. CASE DeqLoadNext(p) \/ DeqAssertTail(p) \/ DeqSpinNext(p)
  <2>1. pc[p] \in {"next", "asserttail", "spin"} /\ pc[p] \in ClaimPCs /\ Holds(p)
        /\ head' = head /\ line' = line
    BY <1>11 DEF DeqLoadNext, DeqAssertTail, DeqSpinNext, At, ClaimPCs, Holds
  <2>2. line # <<>> /\ tail # Null
    BY <1>0, <2>1, LineLength, Names DEF ClaimInv, LineInv
  <2>3. pc'[p] \in {"asserttail", "castail", "cashead"} /\ ptr' = ptr
    BY <1>0, <1>11, <2>2 DEF DeqLoadNext, DeqAssertTail, DeqSpinNext, Goto, TypeOK
  <2>4. pc'[p] \in ClaimPCs
    BY <2>3 DEF ClaimPCs
  <2> QED BY <1>10, <2>1, <2>3, <2>4, SameNodes
<1>12. CASE DeqCasTail(p) \/ DeqCasHead(p) \/ DeqCheckInflight(p)
  <2>1. /\ pc[p] \in {"castail", "cashead", "checkinflight"} /\ pc[p] \in ClaimPCs /\ ptr' = ptr
        /\ pc'[p] \in {"castail", "cashead", "spin", "checkinflight", "free"}
    BY <1>0, <1>12 DEF DeqCasTail, DeqCasHead, DeqCheckInflight, At, Goto, TypeOK, ClaimPCs
  <2>2. pc'[p] \in ClaimPCs
    BY <2>1 DEF ClaimPCs
  <2>3. QueuedNodes' = QueuedNodes
    <3>1. CASE DeqCasTail(p)
      <4>1. /\ head' = head /\ head.marked /\ line # <<>> /\ line[1] = head.node /\ head.node = ptr[p]
        BY <1>0, <3>1, <2>1 DEF DeqCasTail, At, ClaimInv, Holds
      <4>2. CASE tail = ptr[p]
        <5>1. Len(line) = 1
          BY <1>0, <4>1, <4>2, LineLength DEF LineInv
        <5>2. line' = Tail(line) /\ Tail(line) = <<>>
          BY <1>0, <3>1, <4>1, <4>2, <5>1, Left DEF DeqCasTail
        <5> QED BY <4>1, <5>2 DEF QueuedNodes
      <4>3. CASE tail # ptr[p]
        BY <3>1, <4>1, <4>3, SameNodes DEF DeqCasTail
      <4> QED BY <4>2, <4>3
    <3>2. CASE DeqCasHead(p) /\ head = [node |-> ptr[p], marked |-> TRUE]
      <4>1. /\ ~head'.marked /\ head.marked /\ head.node = ptr[p] /\ pc[p] = "cashead"
            /\ line' = IF other[p] = Null THEN line ELSE Tail(line)
        BY <3>2 DEF DeqCasHead, At
      <4>2. CASE other[p] = Null
        <5>1. line # <<>> => line[1] # ptr[p]
          BY <1>0, <2>1, <4>1, <4>2, LineLength DEF ClaimInv, Holds, InLine
        <5> QED BY <4>1, <4>2, <5>1 DEF QueuedNodes
      <4>3. CASE other[p] # Null
        <5>1. line # <<>> /\ line[1] = ptr[p]
          BY <1>0, <2>1, <4>1, <4>3 DEF ClaimInv, Holds
        <5> QED BY <4>1, <4>3, <5>1 DEF QueuedNodes
      <4> QED BY <4>2, <4>3
    <3>3. CASE DeqCasHead(p) /\ head # [node |-> ptr[p], marked |-> TRUE]
      BY <3>3, SameNodes DEF DeqCasHead
    <3>4. CASE DeqCheckInflight(p)
      BY <3>4, SameNodes DEF DeqCheckInflight
    <3> QED BY <1>12, <3>1, <3>2, <3>3, <3>4
  <2> QED BY <1>10, <2>1, <2>2, <2>3
<1>13. CASE DeqFree(p)
  <2>1. /\ pc[p] = "free" /\ pc[p] \in ClaimPCs /\ ptr[p] \in heap /\ mem[ptr[p]].magic = "LIVE"
        /\ mem[ptr[p]].data \in Items /\ head' = head /\ line' = line
    <3>1. pc[p] = "free" /\ pc[p] \in ClaimPCs /\ head' = head /\ line' = line
      BY <1>13 DEF DeqFree, At, ClaimPCs
    <3> QED BY <1>0, <3>1 DEF ClaimInv, LineInv
  <2>2. pc'[p] = "idle" /\ result'[p] = mem[ptr[p]].data
    <3>1. Return(p, mem[ptr[p]].data)
      BY <1>13, <2>1 DEF DeqFree
    <3> QED BY <1>0, <2>1, <3>1, Returned DEF Moved
  <2>3. Outcome' = [Outcome EXCEPT ![p] = mem[ptr[p]].data]
    BY <1>1, <1>3, <2>2, NewOutcome
  <2>4. [Outcome EXCEPT ![p] = mem[ptr[p]].data] = Outcome
    BY <2>1 DEF Outcome
  <2> QED BY <1>1, <2>1, <2>3, <2>4, SameNodes, SameItems
<1> QED BY <1>4, <1>7, <1>8, <1>9, <1>11, <1>12, <1>13 DEF dequeue

(* Every step of the queue is a step of the FIFO queue or invisible to its *)
(* callers.                                                                *)
LEMMA StepIsFifo ==
    ASSUME QueueInv, [Next]_vars
    PROVE  [Fifo!Next]_<<QueuedItems, Outcome>>
<1>1. CASE UNCHANGED vars
  BY <1>1 DEF vars, QueuedItems, QueuedNodes, Outcome
<1>2. CASE Crashed
  BY <1>2 DEF Crashed, vars, QueuedItems, QueuedNodes, Outcome
<1>3. ASSUME NEW p \in Enqueuers, enqueue(p)
      PROVE  [Fifo!Next]_<<QueuedItems, Outcome>>
  BY <1>3, EnqueuePuts DEF Fifo!Next
<1>4. ASSUME NEW p \in Takers, dequeue(p)
      PROVE  [Fifo!Next]_<<QueuedItems, Outcome>>
  BY <1>4, DequeueTakes DEF Fifo!Next, Fifo!Callers, Takers
<1> QED BY <1>1, <1>2, <1>3, <1>4 DEF Next

(* enqueue, dequeue and try_dequeue implement a FIFO queue: no item is     *)
(* lost, doubled or overtaken and dequeue reports an empty queue only when *)
(* it was empty, whatever addresses malloc hands out again and also in the *)
(* behaviours that end in an abort.                                        *)
THEOREM IsFifo == Spec => ImplementsFifo
<1>1. Init => Fifo!Init
  <2> SUFFICES ASSUME Init PROVE Fifo!Init
    OBVIOUS
  <2>1. QueueInv /\ QueuedNodes = <<>>
    BY InitOK DEF Init, QueuedNodes
  <2>2. Len(QueuedItems) = 0 /\ QueuedItems \in Seq(Items \cup {Null})
    BY <2>1, Unclaimed, Spelled DEF QueueInv
  <2>3. QueuedItems = <<>>
    BY <2>2
  <2>4. Outcome = [t \in Takers |-> None]
    BY Names DEF Init, Outcome, ClaimPCs
  <2> QED BY <2>3, <2>4 DEF Fifo!Init, Fifo!Callers, Takers
<1>2. QueueInv /\ [Next]_vars => [Fifo!Next]_<<QueuedItems, Outcome>>
  BY StepIsFifo
<1> QED BY <1>1, <1>2, Invariant, PTL DEF Spec, ImplementsFifo, Fifo!Spec, Fifo!vars

=============================================================================
