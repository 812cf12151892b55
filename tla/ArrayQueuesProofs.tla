-------------------------- MODULE ArrayQueuesProofs --------------------------
(***************************************************************************)
(* The four queues over an array of lists, for any number of lists,        *)
(* threads, addresses and calls: every list gives its items out in order,  *)
(* no freed node is touched, and a dequeue that runs alone answers NULL    *)
(* only when every list is empty.                                          *)
(*                                                                         *)
(* ArrayInv says how heads, tails and links spell out the lines, and for   *)
(* each thread what the addresses it holds mean.  In ev_pqueue a dequeuer  *)
(* owns a list because its ticket's turn has come (TicketInv); in          *)
(* ev_paqueue because it has marked the head.                              *)
(***************************************************************************)
EXTENDS ArrayQueues, SequenceTheorems, TLAPS

Address == Nodes \cup {Null}

(* Where an enqueuer has a new node, and where it owes a link.             *)
SwapPCs == {"e_enter", "swap"}
LinkPCs == {"e_exit", "link"}

(* Where a dequeuer of ev_pqueue has drawn a ticket and where it is its    *)
(* turn.                                                                   *)
TurnPCs   == {"d_head", "d_next", "d_set", "d_cas", "await", "d_reset", "d_exit"}
TicketPCs == {"less", "d_enter"} \cup TurnPCs

(* Where a dequeuer has a node of its own.                                 *)
ClaimPCs == {"d_next", "d_set", "d_cas", "await", "d_reset", "d_exit",
             "next", "check", "cas", "move", "free"}

EnqueuePCs(k) ==
    IF k = "p" THEN {"idle", "ticket", "permit"} \cup SwapPCs \cup LinkPCs
    ELSE IF k = "pa" THEN {"idle", "swap", "link"}
    ELSE {"idle", "wrap", "store", "index", "append", "bump", "bumped"}
            \cup (IF k = "mpi" THEN {"trylock"} ELSE {})

DequeuePCs(k) ==
    IF k = "p" THEN {"idle", "test", "dec", "undo", "ub", "d_ticket", "free"} \cup TicketPCs
    ELSE IF k = "pa" THEN {"idle", "tail", "head", "mark", "next", "check", "cas",
                           "await", "move", "free"}
    ELSE {"idle", "d_bump", "try", "take"}

Labels == EnqueuePCs("p") \cup EnqueuePCs("pa") \cup EnqueuePCs("mpi")
             \cup DequeuePCs("p") \cup DequeuePCs("pa") \cup DequeuePCs("mpi")

Answers == Nat \cup {None, Empty}
Locals  == [pc : Labels, idx : Nat, cnt : Nat, item : Nat, n : Address, next : Address,
            tries : Nat, res : Answers, alone : BOOLEAN]
Cells   == [next : Address, item : Nat]

(* The types, where each kind's threads can be, and that only the shared   *)
(* index of mpi and pi can leave the array.                                *)
DataOK ==
    /\ kind \in {"p", "pa", "mpi", "pi"}
    /\ head \in [Index -> Address] /\ tail \in [Index -> Address]
    /\ mark \in [Index -> BOOLEAN] /\ lock \in [Index -> BOOLEAN]
    /\ node \in [Nodes -> Cells] /\ heap \subseteq Nodes
    /\ q \in [Index -> Seq(Nat)]
    /\ enq_counter \in Nat /\ deq_counter \in Nat /\ made \in Nat
    /\ ub_count \in Int /\ lb_count \in Int
    /\ e_guard \in [Index -> Int] /\ d_guard \in [Index -> Int]
    /\ st_index \in Nat /\ st_dindex \in Index
    /\ put \in [Index -> Seq(Nat)] /\ took \in [Index -> Seq(Nat)]
    /\ line \in [Index -> Seq(Nodes)]
    /\ uaf \in BOOLEAN /\ wild \in BOOLEAN

ThreadOK ==
    /\ t \in [Threads -> Locals]
    /\ \A c \in Enqueuers : t[c].pc \in EnqueuePCs(kind)
    /\ \A c \in Dequeuers : t[c].pc \in DequeuePCs(kind)
    /\ \A c \in Dequeuers : t[c].idx \in Index
    /\ \A c \in Enqueuers : ~wild \/ kind = "p" \/ kind = "pa" => t[c].idx \in Index

TypeOK == DataOK /\ ThreadOK

(* The lines are what tails and links say, and all of them is allocated.   *)
LineInv ==
    /\ \A i \in Index : \A k \in 1..Len(line[i]) : line[i][k] \in heap
    /\ \A i, j \in Index : \A k \in 1..Len(line[i]), l \in 1..Len(line[j]) :
          line[i][k] = line[j][l] => i = j /\ k = l
    /\ \A i \in Index :
          tail[i] = IF line[i] = <<>> THEN Null ELSE line[i][Len(line[i])]
    /\ \A i \in Index : \A k \in 1..Len(line[i]) :
          \/ node[line[i][k]].next = Null
          \/ k < Len(line[i]) /\ node[line[i][k]].next = line[i][k + 1]

InLine(n, i) == \E k \in 1..Len(line[i]) : line[i][k] = n

(* An unmarked head is the first of its line, and no head belongs to       *)
(* another list.                                                           *)
HeadInv ==
    /\ \A i \in Index :
          /\ head[i] \in heap \cup {Null}
          /\ mark[i] => kind = "pa" /\ head[i] # Null
          /\ head[i] # Null /\ ~mark[i] => line[i] # <<>> /\ line[i][1] = head[i]
    /\ \A i, j \in Index : i # j =>
          /\ ~InLine(head[i], j)
          /\ head[i] # Null => head[i] # head[j]

(* An enqueuer before the exchange of tail has a new node nobody knows.    *)
SwapInv ==
    /\ \A c \in Enqueuers : t[c].pc \in SwapPCs =>
          /\ t[c].n \in heap /\ node[t[c].n] = [next |-> Null, item |-> t[c].item]
          /\ \A i \in Index : t[c].n # head[i] /\ ~InLine(t[c].n, i)
    /\ \A c, b \in Enqueuers :
          t[c].pc \in SwapPCs /\ t[b].pc \in SwapPCs /\ t[c].n = t[b].n => c = b

(* After it, it owes a node of the line the link to the one behind, ...    *)
Linking(c) == t[c].pc \in LinkPCs /\ t[c].next # Null

LinkInv ==
    /\ \A c \in Enqueuers : Linking(c) =>
          /\ node[t[c].next].next = Null
          /\ \E k \in 1..Len(line[I(c)]) :
                /\ k < Len(line[I(c)])
                /\ t[c].next = line[I(c)][k] /\ t[c].n = line[I(c)][k + 1]
    /\ \A c, b \in Enqueuers :
          Linking(c) /\ Linking(b) /\ t[c].next = t[b].next => c = b

(* A dequeuer's own node is still the first of its line, and, with Past,   *)
(* its item is already counted as taken.                                   *)
Holds(c) == \/ t[c].pc \in {"d_next", "d_set", "d_cas", "await", "d_reset",
                            "next", "check", "cas"}
            \/ t[c].pc = "move" /\ t[c].next # Null
Past(c) == Holds(c) /\ t[c].pc \notin {"d_next", "d_set"}

(* ... or it has the first of a line that has no head and no owner.        *)
Starting(c) == t[c].pc \in LinkPCs /\ t[c].next = Null

StartInv ==
    /\ \A c \in Enqueuers : Starting(c) =>
          /\ line[I(c)] # <<>> /\ t[c].n = line[I(c)][1] /\ head[I(c)] # t[c].n
          /\ \A d \in Dequeuers : Holds(d) => I(d) # I(c)
    /\ \A c, b \in Enqueuers : Starting(c) /\ Starting(b) /\ I(c) = I(b) => c = b

(* What a dequeuer has: a node of its own, first of the line until it has  *)
(* taken it off.                                                           *)
ClaimInv ==
    /\ \A c \in Dequeuers : t[c].pc \in ClaimPCs =>
          /\ t[c].n \in heap
          /\ \A i \in Index : i # I(c) => head[i] # t[c].n /\ ~InLine(t[c].n, i)
          /\ Holds(c) => /\ line[I(c)] # <<>> /\ line[I(c)][1] = t[c].n
                         /\ head[I(c)] = IF kind = "p" /\ Past(c) THEN Null ELSE t[c].n
                         /\ mark[I(c)] <=> kind = "pa"
          /\ ~Holds(c) => ~InLine(t[c].n, I(c))
          /\ t[c].pc = "free" => head[I(c)] # t[c].n
    /\ \A c, b \in Dequeuers :
          t[c].pc \in ClaimPCs /\ t[b].pc \in ClaimPCs /\ t[c].n = t[b].n => c = b
    /\ \A c \in Dequeuers, b \in Enqueuers :
          t[c].pc \in ClaimPCs /\ t[b].pc \in SwapPCs => t[c].n # t[b].n

(* What it has read of its node's link.                                    *)
ReadInv ==
    \A c \in Dequeuers :
       /\ t[c].pc \in {"d_set", "check", "d_reset", "move"} =>
             t[c].next = Null \/ t[c].next = node[t[c].n].next
       /\ t[c].pc = "d_reset" => t[c].next # Null
       /\ t[c].pc = "cas" => t[c].next = Null
       /\ t[c].pc = "mark" => t[c].n # Null

(* The items of a line's nodes are the last ones put into the list, and    *)
(* the ones before them have been taken.                                   *)
Offset(i) == Len(put[i]) - Len(line[i])
Passed(i) == \E c \in Dequeuers : Past(c) /\ I(c) = i

ItemsInv == kind \in {"p", "pa"} => \A i \in Index :
    /\ Offset(i) \in Nat
    /\ \A k \in 1..Len(line[i]) : node[line[i][k]].item = put[i][Offset(i) + k]
    /\ Len(took[i]) = Offset(i) + (IF Passed(i) THEN 1 ELSE 0)

(* The same for the lists of mpi and pi.                                   *)
SharedInv == kind \in {"mpi", "pi"} => \A i \in Index :
    /\ Len(put[i]) = Len(took[i]) + Len(q[i])
    /\ \A k \in 1..Len(q[i]) : q[i][k] = put[i][Len(took[i]) + k]

(* What has been taken is what was put, position for position.             *)
TookInv == \A i \in Index : /\ Len(took[i]) <= Len(put[i])
                            /\ \A k \in 1..Len(took[i]) : took[i][k] = put[i][k]

(* A ticket is drawn once, and the guard of a list holds the one before    *)
(* the ticket whose turn it is.                                            *)
TicketInv ==
    /\ \A c \in Dequeuers : t[c].pc \in TicketPCs /\ kind = "p" => t[c].cnt < deq_counter
    /\ \A c, b \in Dequeuers :
          /\ kind = "p" /\ t[c].pc \in TicketPCs /\ t[b].pc \in TicketPCs
          /\ t[c].cnt = t[b].cnt
          => c = b
    /\ \A c \in Dequeuers :
          kind = "p" /\ t[c].pc \in TurnPCs => d_guard[I(c)] = t[c].cnt - N

NodeInv == LineInv /\ HeadInv /\ SwapInv /\ LinkInv /\ StartInv /\ ClaimInv /\ ReadInv

ArrayInv == TypeOK /\ NodeInv /\ ItemsInv /\ SharedInv /\ TookInv /\ TicketInv /\ ~uaf

-----------------------------------------------------------------------------
(* The number of lists is positive, and a remainder is the index of one.   *)
LEMMA Size ==
    /\ N \in Nat /\ N > 0
    /\ 0 \in Index /\ \A i \in Index : i \in Nat
    /\ \A x \in Nat : x % N \in Index
<1> DEFINE P(k) == k >= Lists
<1>1. \E k \in Powers : P(k) /\ \A j \in Powers : P(j) => k <= j
  <2>1. P(1073741824)
    BY ArrayAssumption
  <2> HIDE DEF P
  <2> QED BY <2>1 DEF Powers
<1>2. N \in Powers
  BY <1>1 DEF N
<1>3. N \in Nat /\ N > 0
  BY <1>2 DEF Powers
<1> HIDE DEF P
<1>4. \A x \in Nat : x % N \in 0 .. N - 1
  BY <1>3
<1> QED BY <1>3, <1>4 DEF Index

(* The next list in the circle.                                            *)
LEMMA NextIndex ==
    ASSUME NEW i \in Index
    PROVE  /\ (i + 1) % N \in Index
           /\ (i + 1) % N = IF i = N - 1 THEN 0 ELSE i + 1
<1>1. N \in Nat /\ N > 0 /\ i \in 0 .. N - 1 /\ i + 1 \in Nat
  BY Size DEF Index
<1>2. CASE i = N - 1
  <2>1. (i + 1) % N = N % N
    BY <1>1, <1>2
  <2>2. N % N = 0
    BY <1>1
  <2> QED BY <1>1, <1>2, <2>1, <2>2, Size
<1>3. CASE i # N - 1
  <2>1. i + 1 \in 0 .. N - 1
    BY <1>1, <1>3
  <2>2. (i + 1) % N = i + 1
    BY <1>1, <2>1
  <2> QED BY <1>1, <1>3, <2>1, <2>2 DEF Index
<1> QED BY <1>2, <1>3

(* Enqueuers and dequeuers are different threads.                          *)
LEMMA Names ==
    /\ Enqueuers \subseteq Threads /\ Dequeuers \subseteq Threads
    /\ \A c \in Threads : c \in Enqueuers \/ c \in Dequeuers
    /\ \A c \in Enqueuers, d \in Dequeuers : c # d
    /\ Null \notin Nodes /\ None # Empty /\ None \notin Nat /\ Empty \notin Nat
BY ArrayAssumption DEF Threads

(* Two records of a thread that differ at most in alone.                   *)
Alike(x, y) == /\ x.pc = y.pc /\ x.idx = y.idx /\ x.cnt = y.cnt /\ x.item = y.item
               /\ x.n = y.n /\ x.next = y.next /\ x.tries = y.tries /\ x.res = y.res

(* Thread c now has the locals r; the others have not moved.               *)
Moved(c, r) ==
    /\ t' \in [Threads -> Locals]
    /\ Alike(t'[c], r)
    /\ \A b \in Threads : b # c => Alike(t'[b], t[b])

(* What an assignment to t makes of the threads.                           *)
LEMMA ThreadMoves ==
    ASSUME TypeOK, NEW c \in Threads, NEW r \in Locals, Set(c, r) \/ Enter(c, r),
           kind' = kind, ~wild,
           c \in Enqueuers => r.pc \in EnqueuePCs(kind),
           c \in Dequeuers => r.pc \in DequeuePCs(kind) /\ r.idx \in Index,
           c \in Enqueuers /\ (~wild' \/ kind = "p" \/ kind = "pa") => r.idx \in Index
    PROVE  Moved(c, r) /\ ThreadOK'
<1>1. t \in [Threads -> Locals]
  BY DEF TypeOK, ThreadOK
<1>2. Moved(c, r)
  <2>1. CASE Set(c, r)
    BY <1>1, <2>1 DEF Set, Moved, Alike
  <2>2. CASE Enter(c, r)
    <3>1. ASSUME NEW b \in Threads, b # c
          PROVE  Alike(t'[b], t[b]) /\ t'[b] \in Locals
      <4>1. t[b] \in Locals /\ t'[b] = [t[b] EXCEPT !.alone = FALSE]
        BY <1>1, <2>2, <3>1 DEF Enter
      <4> QED BY <4>1 DEF Locals, Alike
    <3>2. \A b \in Threads : b # c => Alike(t'[b], t[b]) /\ t'[b] \in Locals
      BY <3>1
    <3>3. \E x \in BOOLEAN : t'[c] = [r EXCEPT !.alone = x]
      BY <2>2 DEF Enter
    <3>4. Alike(t'[c], r) /\ t'[c] \in Locals
      BY <3>3 DEF Locals, Alike
    <3>5. \E f : t' = [b \in Threads |-> f[b]]
      <4>1. t' = [b \in Threads |-> t'[b]]
        BY <2>2 DEF Enter
      <4> QED BY <4>1
    <3>6. t' \in [Threads -> Locals]
      BY <3>2, <3>4, <3>5
    <3> QED BY <3>2, <3>4, <3>6 DEF Moved
  <2> QED BY <2>1, <2>2
<1>3. \A b \in Threads : b # c => t'[b].pc = t[b].pc /\ t'[b].idx = t[b].idx
  BY <1>2 DEF Moved, Alike
<1>4. t'[c].pc = r.pc /\ t'[c].idx = r.idx
  BY <1>2 DEF Moved, Alike
<1> QED BY <1>2, <1>3, <1>4, Names DEF TypeOK, ThreadOK, Moved

(* The locals of a thread, of an idle one, and of one that goes on.        *)
LEMMA LocalsOf ==
    ASSUME TypeOK, NEW c \in Threads
    PROVE  /\ t[c] \in Locals /\ Idle \in Locals
           /\ \A l \in Labels : [t[c] EXCEPT !.pc = l] \in Locals
           /\ /\ Idle.pc = "idle" /\ Idle.idx = 0 /\ Idle.cnt = 0 /\ Idle.item = 0
              /\ Idle.n = Null /\ Idle.next = Null /\ Idle.tries = 0 /\ Idle.res = None
              /\ Idle.alone = FALSE
<1>1. t[c] \in Locals
  BY DEF TypeOK, ThreadOK
<1>2. Idle \in Locals
  <2>1. Null \in Address /\ None \in Answers /\ 0 \in Nat /\ "idle" \in Labels /\ FALSE \in BOOLEAN
    BY DEF Address, Answers, Labels, EnqueuePCs
  <2> QED BY <2>1 DEF Locals, Idle
<1>3. ASSUME NEW l \in Labels PROVE [t[c] EXCEPT !.pc = l] \in Locals
  BY <1>1 DEF Locals
<1> QED BY <1>1, <1>2, <1>3 DEF Idle

(* An element joins a sequence at its end.                                 *)
LEMMA Joined ==
    ASSUME NEW S, NEW s \in Seq(S), NEW x \in S
    PROVE  /\ Append(s, x) \in Seq(S) /\ Append(s, x) # <<>>
           /\ Len(s) \in Nat /\ Len(Append(s, x)) = Len(s) + 1
           /\ Append(s, x)[Len(s) + 1] = x
           /\ \A i \in 1..Len(s) : Append(s, x)[i] = s[i]
           /\ s = <<>> <=> Len(s) = 0
<1>1. /\ Append(s, x) \in Seq(S) /\ Len(Append(s, x)) = Len(s) + 1
      /\ \A i \in 1..Len(s) : Append(s, x)[i] = s[i]
      /\ Append(s, x)[Len(s) + 1] = x
  BY AppendProperties
<1>2. Len(s) \in Nat /\ (s = <<>> <=> Len(s) = 0)
  OBVIOUS
<1>3. Append(s, x) # <<>>
  BY <1>1, <1>2
<1> QED BY <1>1, <1>2, <1>3

(* The first one leaves.                                                   *)
LEMMA Left ==
    ASSUME NEW S, NEW s \in Seq(S), s # <<>>
    PROVE  /\ Tail(s) \in Seq(S) /\ Len(s) \in Nat /\ Len(s) > 0
           /\ Len(Tail(s)) = Len(s) - 1
           /\ \A i \in 1..(Len(s) - 1) : Tail(s)[i] = s[i + 1]
           /\ Tail(s) = <<>> <=> Len(s) = 1
           /\ Head(s) = s[1] /\ s[1] \in S
<1>1. Len(s) \in Nat /\ Len(s) > 0 /\ Head(s) = s[1] /\ s[1] \in S
  OBVIOUS
<1>2. /\ Tail(s) \in Seq(S) /\ Len(Tail(s)) = Len(s) - 1
      /\ \A i \in 1..Len(Tail(s)) : Tail(s)[i] = s[i + 1]
  BY HeadTailProperties
<1>3. Tail(s) = <<>> <=> Len(Tail(s)) = 0
  BY <1>2
<1> QED BY <1>1, <1>2, <1>3

(* The length of a line, and its ends when it is not empty.                *)
LEMMA LineLength ==
    ASSUME TypeOK, NEW i \in Index
    PROVE  /\ Len(line[i]) \in Nat /\ line[i] \in Seq(Nodes)
           /\ line[i] = <<>> <=> Len(line[i]) = 0
           /\ line[i] # <<>> => 1 \in 1..Len(line[i]) /\ Len(line[i]) \in 1..Len(line[i])
           /\ \A k \in 1..Len(line[i]) : line[i][k] \in Nodes
<1>1. line[i] \in Seq(Nodes)
  BY DEF TypeOK, DataOK
<1> QED BY <1>1

(* The lists and what came in and went out are as they were.               *)
SameLists == /\ UNCHANGED <<kind, head, mark, tail, heap, line, put, took>>
             /\ node' = node

(* What a thread is to its list has not changed, or is nothing any more.   *)
Kept(b) ==
    /\ t'[b].pc \in SwapPCs =>
          t[b].pc \in SwapPCs /\ t'[b].n = t[b].n /\ t'[b].item = t[b].item
    /\ t'[b].pc \in LinkPCs =>
          /\ t[b].pc \in LinkPCs /\ t'[b].n = t[b].n /\ t'[b].next = t[b].next
          /\ t'[b].idx = t[b].idx
    /\ t'[b].pc \in ClaimPCs =>
          /\ t[b].pc \in ClaimPCs /\ t'[b].n = t[b].n /\ t'[b].idx = t[b].idx
          /\ Holds(b)' <=> Holds(b)
          /\ Past(b)' <=> Past(b)
          /\ t'[b].pc = "free" => \/ t[b].pc = "free"
                                  \/ kind = "p" /\ t[b].pc = "d_exit"
                                  \/ head[I(b)] # t[b].n
    /\ Past(b) => Past(b)'

ReadOK(c) ==
    /\ t[c].pc \in {"d_set", "check", "d_reset", "move"} =>
          t[c].next = Null \/ t[c].next = node[t[c].n].next
    /\ t[c].pc = "d_reset" => t[c].next # Null
    /\ t[c].pc = "cas" => t[c].next = Null
    /\ t[c].pc = "mark" => t[c].n # Null

(* A thread that has not moved.                                            *)
LEMMA StillKept ==
    ASSUME NEW b, Alike(t'[b], t[b])
    PROVE  Kept(b)
BY DEF Kept, Alike, Holds, Past

(* Threads that only go on leave every part of the invariant alone.        *)
LEMMA NodesKept ==
    ASSUME TypeOK, NodeInv, ItemsInv, SameLists,
           \A b \in Threads : Kept(b), \A c \in Dequeuers : ReadOK(c)'
    PROVE  NodeInv' /\ ItemsInv'
<1>0. /\ LineInv /\ HeadInv /\ SwapInv /\ LinkInv /\ StartInv /\ ClaimInv /\ ReadInv
      /\ UNCHANGED <<kind, head, mark, tail, heap, line, put, took>> /\ node' = node
  BY DEF NodeInv, SameLists
<1>1. \A n, i : InLine(n, i)' <=> InLine(n, i)
  BY <1>0 DEF InLine
<1>2. LineInv' /\ HeadInv'
  BY <1>0, <1>1 DEF LineInv, HeadInv
<1>3. SwapInv'
  BY <1>0, <1>1, Names DEF SwapInv, Kept
<1>4. \A c \in Enqueuers :
         /\ Linking(c)' => Linking(c) /\ t'[c].next = t[c].next /\ t'[c].n = t[c].n
                              /\ I(c)' = I(c)
         /\ Starting(c)' => Starting(c) /\ t'[c].n = t[c].n /\ I(c)' = I(c)
  BY Names DEF Linking, Starting, Kept, I
<1>5. LinkInv'
  BY <1>0, <1>4 DEF LinkInv
<1>6. \A c \in Dequeuers : t'[c].pc \in ClaimPCs =>
         /\ t[c].pc \in ClaimPCs /\ t'[c].n = t[c].n /\ I(c)' = I(c)
         /\ Holds(c)' <=> Holds(c)
         /\ Past(c)' <=> Past(c)
         /\ t'[c].pc = "free" => \/ t[c].pc = "free"
                                 \/ kind = "p" /\ t[c].pc = "d_exit"
                                 \/ head[I(c)] # t[c].n
  BY Names DEF Kept, I
<1>7. \A c \in Dequeuers : Holds(c)' => t'[c].pc \in ClaimPCs
  BY DEF Holds, ClaimPCs
<1>8. StartInv'
  BY <1>0, <1>4, <1>6, <1>7 DEF StartInv
<1>9. ASSUME NEW c \in Dequeuers, t'[c].pc = "free" PROVE head[I(c)] # t[c].n
  <2>1. /\ t[c].pc \in ClaimPCs
        /\ \/ t[c].pc = "free"
           \/ kind = "p" /\ t[c].pc = "d_exit"
           \/ head[I(c)] # t[c].n
    BY <1>6, <1>9 DEF ClaimPCs
  <2>2. CASE t[c].pc = "free"
    BY <1>0, <2>1, <2>2 DEF ClaimInv
  <2>3. CASE kind = "p" /\ t[c].pc = "d_exit"
    <3>1. t[c].n \in heap /\ ~InLine(t[c].n, I(c)) /\ I(c) \in Index
      BY <1>0, <2>1, <2>3 DEF ClaimInv, Holds, TypeOK, ThreadOK, I
    <3>2. ~mark[I(c)] /\ t[c].n # Null
      BY <1>0, <2>3, <3>1, Names DEF HeadInv, TypeOK, DataOK
    <3>3. head[I(c)] # Null => InLine(head[I(c)], I(c))
      BY <1>0, <3>1, <3>2, LineLength DEF HeadInv, InLine
    <3> QED BY <3>1, <3>2, <3>3
  <2> QED BY <2>1, <2>2, <2>3
<1>10. ClaimInv'
  <2>1. ASSUME NEW c \in Dequeuers, t'[c].pc \in ClaimPCs
        PROVE  /\ t'[c].n \in heap'
               /\ \A i \in Index : i # I(c)' => head'[i] # t'[c].n /\ ~InLine(t[c].n, i)'
               /\ Holds(c)' => /\ line'[I(c)'] # <<>> /\ line'[I(c)'][1] = t'[c].n
                               /\ head'[I(c)'] = IF kind' = "p" /\ Past(c)' THEN Null ELSE t'[c].n
                               /\ mark'[I(c)'] <=> kind' = "pa"
               /\ ~Holds(c)' => ~InLine(t[c].n, I(c))'
               /\ t'[c].pc = "free" => head'[I(c)'] # t'[c].n
    <3>1. /\ t[c].pc \in ClaimPCs /\ t'[c].n = t[c].n /\ I(c)' = I(c)
          /\ Holds(c)' <=> Holds(c)
          /\ Past(c)' <=> Past(c)
      BY <1>6, <2>1
    <3> QED BY <1>0, <1>1, <1>9, <3>1 DEF ClaimInv
  <2>2. \A c \in Enqueuers : t'[c].pc \in SwapPCs => t[c].pc \in SwapPCs /\ t'[c].n = t[c].n
    BY Names DEF Kept
  <2> QED BY <1>0, <1>6, <2>1, <2>2 DEF ClaimInv
<1>11. ReadInv'
  BY DEF ReadInv, ReadOK
<1>12. ItemsInv'
  <2>1. \A c \in Dequeuers : Past(c)' <=> Past(c)
    BY <1>6, Names DEF Past, Kept, Holds, ClaimPCs
  <2>2. \A c \in Dequeuers : Past(c)' => I(c)' = I(c)
    BY <1>6, <1>7 DEF Past
  <2>3. \A i : Passed(i)' <=> Passed(i)
    BY <2>1, <2>2 DEF Passed
  <2> QED BY <1>0, <2>3 DEF ItemsInv, Offset
<1> QED BY <1>2, <1>3, <1>5, <1>8, <1>10, <1>11, <1>12 DEF NodeInv

(* Steps that neither draw a ticket nor change whose turn it is.           *)
LEMMA TicketKept ==
    ASSUME TicketInv, NEW c \in Threads, NEW r, Moved(c, r), kind' = kind,
           kind = "p" => deq_counter' = deq_counter /\ d_guard' = d_guard,
           kind = "p" /\ r.pc \in TicketPCs => t[c].pc \in TicketPCs /\ r.cnt = t[c].cnt,
           kind = "p" /\ r.pc \in TurnPCs => t[c].pc \in TurnPCs /\ r.idx = t[c].idx
    PROVE  TicketInv'
<1>1. ASSUME NEW b \in Dequeuers, kind = "p", t'[b].pc \in TicketPCs
      PROVE  t[b].pc \in TicketPCs /\ t'[b].cnt = t[b].cnt
  BY <1>1, Names DEF Moved, Alike
<1>2. ASSUME NEW b \in Dequeuers, kind = "p", t'[b].pc \in TurnPCs
      PROVE  t[b].pc \in TurnPCs /\ t'[b].cnt = t[b].cnt /\ I(b)' = I(b)
  <2>1. t'[b].pc \in TicketPCs
    BY <1>2 DEF TicketPCs
  <2> QED BY <1>1, <1>2, <2>1, Names DEF Moved, Alike, I
<1> QED BY <1>1, <1>2 DEF TicketInv

(* A thread that has only moved on leaves those alone that have not.       *)
LEMMA OnlyOneMoves ==
    ASSUME TypeOK, NodeInv, SameLists, NEW c \in Threads, NEW r, Moved(c, r), Kept(c),
           c \in Dequeuers => ReadOK(c)'
    PROVE  /\ \A b \in Threads : Kept(b)
           /\ \A b \in Dequeuers : ReadOK(b)'
<1>1. \A b \in Threads : b # c => Kept(b)
  BY StillKept DEF Moved
<1>2. ASSUME NEW b \in Dequeuers, b # c PROVE ReadOK(b)'
  <2>1. ReadOK(b) /\ Alike(t'[b], t[b]) /\ node' = node
    BY <1>2, Names DEF NodeInv, ReadInv, ReadOK, Moved, SameLists
  <2> QED BY <2>1 DEF ReadOK, Alike
<1> QED BY <1>1, <1>2

(* A step of thread c that leaves the lists alone and what c is to them.   *)
LEMMA QuietKeeps ==
    ASSUME ArrayInv, NEW c \in Threads, NEW r, Moved(c, r), ThreadOK', DataOK',
           SameLists, q' = q, uaf' = uaf,
           Kept(c), c \in Dequeuers => ReadOK(c)', TicketInv'
    PROVE  ArrayInv'
<1>1. NodeInv' /\ ItemsInv'
  BY OnlyOneMoves, NodesKept DEF ArrayInv
<1>2. SharedInv' /\ TookInv'
  BY DEF ArrayInv, SameLists, SharedInv, TookInv
<1> QED BY <1>1, <1>2 DEF ArrayInv, TypeOK

(* A step outside of the lists altogether.                                 *)
OuterPCs == {"idle", "ticket", "permit", "test", "dec", "undo", "ub", "d_ticket", "less",
             "d_enter", "d_head", "tail", "head", "mark",
             "wrap", "store", "index", "trylock", "append", "bump", "bumped",
             "d_bump", "try", "take"}

LEMMA OuterKeeps ==
    ASSUME ArrayInv, NEW c \in Threads, NEW r \in Locals, Set(c, r) \/ Enter(c, r),
           SameLists, q' = q, uaf' = uaf, ~wild, DataOK',
           t[c].pc \in OuterPCs, r.pc \in OuterPCs, r.pc = "mark" => r.n # Null,
           c \in Enqueuers => r.pc \in EnqueuePCs(kind),
           c \in Dequeuers => r.pc \in DequeuePCs(kind) /\ r.idx \in Index,
           c \in Enqueuers /\ (~wild' \/ kind = "p" \/ kind = "pa") => r.idx \in Index,
           Moved(c, r) => TicketInv'
    PROVE  ArrayInv'
<1>1. kind' = kind
  BY DEF SameLists
<1>2. Moved(c, r) /\ ThreadOK'
  BY <1>1, ThreadMoves DEF ArrayInv
<1>3. t'[c].pc = r.pc /\ t'[c].n = r.n
  BY <1>2 DEF Moved, Alike
<1>4. Kept(c) /\ ReadOK(c)'
  BY <1>3 DEF Kept, ReadOK, OuterPCs, SwapPCs, LinkPCs, ClaimPCs, Past, Holds
<1> QED BY <1>2, <1>4, QuietKeeps

(* The same for a step that has nothing to do with tickets, ...            *)
LEMMA StepKeeps ==
    ASSUME ArrayInv, NEW c \in Threads, NEW r \in Locals, Set(c, r) \/ Enter(c, r),
           SameLists, q' = q, uaf' = uaf, ~wild, DataOK',
           t[c].pc \in OuterPCs, r.pc \in OuterPCs, r.pc = "mark" => r.n # Null,
           c \in Enqueuers => r.pc \in EnqueuePCs(kind),
           c \in Dequeuers => r.pc \in DequeuePCs(kind) /\ r.idx \in Index,
           c \in Enqueuers /\ (~wild' \/ kind = "p" \/ kind = "pa") => r.idx \in Index,
           kind = "p" =>
              /\ deq_counter' = deq_counter /\ d_guard' = d_guard
              /\ r.pc \in TicketPCs => t[c].pc \in TicketPCs /\ r.cnt = t[c].cnt
              /\ r.pc \in TurnPCs => t[c].pc \in TurnPCs /\ r.idx = t[c].idx
    PROVE  ArrayInv'
<1>1. Moved(c, r) => TicketInv'
  BY TicketKept DEF ArrayInv, SameLists
<1> QED BY <1>1, OuterKeeps

(* ... for one that only goes on, ...                                      *)
LEMMA GotoKeeps ==
    ASSUME ArrayInv, NEW c \in Threads, NEW l \in OuterPCs \ {"mark", "d_head"}, Goto(c, l),
           SameLists, q' = q, uaf' = uaf, ~wild, wild' = wild, DataOK', t[c].pc \in OuterPCs,
           c \in Enqueuers => l \in EnqueuePCs(kind),
           c \in Dequeuers => l \in DequeuePCs(kind),
           deq_counter' = deq_counter, d_guard' = d_guard,
           l \in {"less", "d_enter"} => t[c].pc = "less"
    PROVE  ArrayInv'
<1> DEFINE r == [t[c] EXCEPT !.pc = l]
<1>1. TypeOK /\ t[c] \in Locals /\ c \in Enqueuers \cup Dequeuers
  BY LocalsOf DEF ArrayInv, Threads
<1>2. l \in Labels
  BY <1>1 DEF Labels, OuterPCs, EnqueuePCs, DequeuePCs, TicketPCs, TurnPCs
<1>3. r \in Locals
  BY <1>1, <1>2, LocalsOf
<1>4. r.pc = l /\ r.idx = t[c].idx /\ r.cnt = t[c].cnt /\ r.n = t[c].n
  BY <1>1 DEF Locals
<1>5. Set(c, r)
  BY DEF Goto
<1>6. /\ c \in Dequeuers => r.idx \in Index
      /\ c \in Enqueuers => r.idx \in Index
  BY <1>1, <1>4 DEF TypeOK, ThreadOK
<1>7. /\ r.pc \in TicketPCs => t[c].pc \in TicketPCs
      /\ r.pc \notin TurnPCs
  BY <1>4 DEF TicketPCs, TurnPCs, OuterPCs
<1> HIDE DEF r
<1> QED BY <1>3, <1>4, <1>5, <1>6, <1>7, StepKeeps

(* ... and for the return of a dequeue.                                    *)
LEMMA AnswerIs ==
    ASSUME TypeOK, NEW c \in Threads, NEW x \in Answers, Answer(c, x)
    PROVE  \E r \in Locals : /\ Set(c, r) /\ r.pc = "idle" /\ r.idx = 0 /\ r.tries = 0
                             /\ r.res \in {None, x}
<1> DEFINE keep == kind = "p" \/ (x = Empty /\ t[c].alone)
           y == IF keep THEN x ELSE None
           z == keep /\ t[c].alone
           r == [Idle EXCEPT !.res = y, !.alone = z]
<1>1. t[c] \in Locals /\ Idle \in Locals
      /\ Idle.pc = "idle" /\ Idle.idx = 0 /\ Idle.tries = 0
  BY LocalsOf
<1>2. y \in Answers /\ y \in {None, x} /\ z \in BOOLEAN
  BY <1>1 DEF Answers
<1>3. Set(c, r)
  BY DEF Answer
<1> HIDE DEF y, z
<1>4. r \in Locals /\ r.pc = "idle" /\ r.idx = 0 /\ r.tries = 0 /\ r.res = y
  BY <1>1, <1>2 DEF Locals
<1> QED BY <1>2, <1>3, <1>4

LEMMA AnswerKeeps ==
    ASSUME ArrayInv, NEW c \in Dequeuers, NEW x \in Answers, Answer(c, x),
           SameLists, q' = q, uaf' = uaf, ~wild, DataOK', t[c].pc \in OuterPCs,
           deq_counter' = deq_counter, d_guard' = d_guard
    PROVE  ArrayInv'
<1>1. TypeOK /\ c \in Threads /\ kind \in {"p", "pa", "mpi", "pi"} /\ c \notin Enqueuers
  BY Names DEF ArrayInv, TypeOK, DataOK
<1>2. PICK r \in Locals : Set(c, r) /\ r.pc = "idle" /\ r.idx = 0
  BY <1>1, AnswerIs
<1>3. /\ r.pc \in OuterPCs /\ r.pc \in DequeuePCs(kind) /\ r.idx \in Index
      /\ r.pc \notin TicketPCs /\ r.pc \notin TurnPCs /\ r.pc # "mark"
  BY <1>1, <1>2, Size DEF OuterPCs, DequeuePCs, TicketPCs, TurnPCs
<1> QED BY <1>1, <1>2, <1>3, StepKeeps

-----------------------------------------------------------------------------
(* ev_pqueue: the counts, the tickets and the guards.                      *)

(* Which queues, and which threads, have a label: most steps ask only for  *)
(* the label.                                                              *)
LEMMA PKind ==
    ASSUME TypeOK, NEW c \in Threads
    PROVE  /\ t[c].pc \in {"ticket", "permit", "e_enter", "e_exit"} =>
                 kind = "p" /\ c \in Enqueuers /\ c \notin Dequeuers
           /\ t[c].pc \in {"test", "dec", "undo", "ub", "d_ticket", "less", "d_enter", "d_head",
                           "d_next", "d_set", "d_cas", "d_reset", "d_exit"} =>
                 kind = "p" /\ c \in Dequeuers /\ c \notin Enqueuers
           /\ t[c].pc \in {"tail", "head", "mark", "next", "check", "cas", "move"} =>
                 kind = "pa" /\ c \in Dequeuers /\ c \notin Enqueuers
           /\ t[c].pc \in {"swap", "link"} =>
                 kind \in {"p", "pa"} /\ c \in Enqueuers /\ c \notin Dequeuers
           /\ t[c].pc \in {"await", "free"} =>
                 kind \in {"p", "pa"} /\ c \in Dequeuers /\ c \notin Enqueuers
           /\ t[c].pc \in {"wrap", "store", "index", "trylock", "append", "bump", "bumped"} =>
                 kind \in {"mpi", "pi"} /\ c \in Enqueuers /\ c \notin Dequeuers
           /\ t[c].pc = "trylock" => kind = "mpi"
           /\ t[c].pc \in {"d_bump", "try", "take"} =>
                 kind \in {"mpi", "pi"} /\ c \in Dequeuers /\ c \notin Enqueuers
<1>1. /\ c \in Enqueuers => t[c].pc \in EnqueuePCs(kind) /\ c \notin Dequeuers
      /\ c \in Dequeuers => t[c].pc \in DequeuePCs(kind) /\ c \notin Enqueuers
      /\ c \in Enqueuers \/ c \in Dequeuers
      /\ kind \in {"p", "pa", "mpi", "pi"}
  BY Names DEF TypeOK, ThreadOK, DataOK
<1>2. CASE kind = "p"
  BY <1>1, <1>2 DEF EnqueuePCs, DequeuePCs, SwapPCs, LinkPCs, TicketPCs, TurnPCs
<1>3. CASE kind = "pa"
  BY <1>1, <1>3 DEF EnqueuePCs, DequeuePCs
<1>4. CASE kind \in {"mpi", "pi"}
  BY <1>1, <1>4 DEF EnqueuePCs, DequeuePCs
<1> QED BY <1>1, <1>2, <1>3, <1>4

(* An enqueue is announced, and draws its ticket.                          *)
LEMMA PTicketKeeps ==
    ASSUME ArrayInv, NEW c \in Enqueuers, PEnqAnnounce(c) \/ PEnqTicket(c)
    PROVE  ArrayInv'
<1>0. /\ TypeOK /\ DataOK /\ made \in Nat /\ enq_counter \in Nat /\ ub_count \in Int
      /\ c \in Threads /\ c \notin Dequeuers
  BY Names DEF ArrayInv, TypeOK, DataOK
<1>1. /\ t[c] \in Locals /\ Idle \in Locals /\ 0 \in Index /\ Idle.idx = 0
      /\ enq_counter % N \in Index /\ enq_counter % N \in Nat
  BY <1>0, LocalsOf, Size
<1>2. {"ticket", "permit"} \subseteq Labels \cap OuterPCs /\ "idle" \in OuterPCs
  BY DEF Labels, EnqueuePCs, OuterPCs
<1>3. CASE PEnqAnnounce(c)
  <2> DEFINE r == [Idle EXCEPT !.pc = "ticket", !.item = made + 1]
  <2>1. DataOK'
    BY <1>0, <1>3 DEF DataOK, PEnqAnnounce, lists, slots
  <2>2. /\ Enter(c, r) /\ SameLists /\ q' = q /\ uaf' = uaf /\ ~wild /\ kind = "p"
        /\ t[c].pc = "idle" /\ deq_counter' = deq_counter /\ d_guard' = d_guard
    BY <1>3 DEF PEnqAnnounce, SameLists, lists, slots, At
  <2>3. made + 1 \in Nat
    BY <1>0
  <2>4. r \in Locals
    BY <1>1, <1>2, <2>3 DEF Locals
  <2>5. r.pc = "ticket" /\ r.idx = 0
    BY <1>1 DEF Locals
  <2> HIDE DEF r
  <2>6. r.pc \in EnqueuePCs(kind) /\ r.pc \notin TicketPCs /\ r.pc \notin TurnPCs
    BY <2>2, <2>5 DEF EnqueuePCs, TicketPCs, TurnPCs
  <2> QED BY <1>0, <1>1, <1>2, <2>1, <2>2, <2>4, <2>5, <2>6, StepKeeps
<1>4. CASE PEnqTicket(c)
  <2> DEFINE r == [t[c] EXCEPT !.pc = "permit", !.cnt = enq_counter, !.idx = enq_counter % N]
  <2>1. DataOK'
    BY <1>0, <1>4 DEF DataOK, PEnqTicket, lists, slots, hist
  <2>2. /\ Set(c, r) /\ SameLists /\ q' = q /\ uaf' = uaf /\ ~wild
        /\ t[c].pc = "ticket" /\ deq_counter' = deq_counter /\ d_guard' = d_guard
    BY <1>4 DEF PEnqTicket, SameLists, lists, slots, hist, At
  <2>3. r \in Locals
    BY <1>0, <1>1, <1>2 DEF Locals
  <2>4. r.pc = "permit" /\ r.idx = enq_counter % N
    BY <1>1 DEF Locals
  <2> HIDE DEF r
  <2>5. kind = "p" /\ t[c].pc \in OuterPCs
    BY <1>0, <2>2, PKind DEF OuterPCs
  <2>6. r.pc \in EnqueuePCs(kind) /\ r.pc \notin TicketPCs /\ r.pc \notin TurnPCs
    BY <2>4, <2>5 DEF EnqueuePCs, TicketPCs, TurnPCs
  <2> QED BY <1>0, <1>1, <1>2, <2>1, <2>2, <2>3, <2>4, <2>5, <2>6, StepKeeps
<1> QED BY <1>3, <1>4

(* A dequeue that looks for a permit.                                      *)
LEMMA PPermitKeeps ==
    ASSUME ArrayInv, NEW c \in Dequeuers,
           \/ PDeqCall(c) \/ PTestPermits(c) \/ PTakePermit(c)
           \/ PUndoPermit(c) \/ PTestAnnounced(c) \/ PDeqLess(c)
    PROVE  ArrayInv'
<1>0. /\ TypeOK /\ DataOK /\ ub_count \in Int /\ lb_count \in Int
      /\ c \in Threads /\ c \notin Enqueuers
  BY Names DEF ArrayInv, TypeOK, DataOK
<1>1. CASE PDeqCall(c)
  <2> DEFINE r == [Idle EXCEPT !.pc = "test"]
  <2>0. Idle \in Locals /\ 0 \in Index /\ Idle.idx = 0
    BY <1>0, LocalsOf, Size
  <2>1. DataOK'
    BY <1>0, <1>1 DEF DataOK, PDeqCall, lists, slots, cnts, hist
  <2>2. /\ Enter(c, r) /\ SameLists /\ q' = q /\ uaf' = uaf /\ ~wild /\ kind = "p"
        /\ t[c].pc = "idle" /\ deq_counter' = deq_counter /\ d_guard' = d_guard
    BY <1>1 DEF PDeqCall, SameLists, lists, slots, cnts, hist, At
  <2>3. "test" \in Labels
    BY DEF Labels, DequeuePCs
  <2>4. r \in Locals
    BY <2>0, <2>3 DEF Locals
  <2>5. r.pc = "test" /\ r.idx = 0
    BY <2>0 DEF Locals
  <2> HIDE DEF r
  <2>6. /\ r.pc \in DequeuePCs(kind) /\ r.pc \notin TicketPCs /\ r.pc \notin TurnPCs
        /\ r.pc \in OuterPCs /\ t[c].pc \in OuterPCs
    BY <2>2, <2>5 DEF DequeuePCs, TicketPCs, TurnPCs, OuterPCs
  <2> QED BY <1>0, <2>0, <2>1, <2>2, <2>4, <2>5, <2>6, StepKeeps
<1>2. ASSUME \/ PTestPermits(c) \/ PTakePermit(c) \/ PUndoPermit(c) \/ PDeqLess(c)
             \/ PTestAnnounced(c)
      PROVE  /\ t[c].pc \in {"test", "dec", "undo", "ub", "less"}
             /\ SameLists /\ q' = q /\ uaf' = uaf /\ ~wild /\ wild' = wild /\ DataOK'
             /\ deq_counter' = deq_counter /\ d_guard' = d_guard
  <2>1. t[c].pc \in {"test", "dec", "undo", "ub", "less"} /\ ~wild
    BY <1>2 DEF PTestPermits, PTakePermit, PUndoPermit, PDeqLess, PTestAnnounced, At
  <2>2. /\ UNCHANGED <<kind, lists, slots, enq_counter, deq_counter, e_guard, d_guard, hist>>
        /\ ub_count' \in Int /\ lb_count' \in Int
    BY <1>0, <1>2 DEF PTestPermits, PTakePermit, PUndoPermit, PDeqLess, PTestAnnounced, cnts
  <2>3. DataOK'
    BY <1>0, <2>2 DEF DataOK, lists, slots, hist
  <2> QED BY <2>1, <2>2, <2>3 DEF SameLists, lists, slots, hist
<1>3. ASSUME NEW l \in {"dec", "ub", "undo", "d_ticket", "test", "d_enter"}, Goto(c, l),
             \/ PTestPermits(c) \/ PTakePermit(c) \/ PUndoPermit(c) \/ PDeqLess(c)
             \/ PTestAnnounced(c),
             l = "d_enter" => PDeqLess(c)
      PROVE  ArrayInv'
  <2>1. /\ t[c].pc \in {"test", "dec", "undo", "ub", "less"}
        /\ SameLists /\ q' = q /\ uaf' = uaf /\ ~wild /\ wild' = wild /\ DataOK'
        /\ deq_counter' = deq_counter /\ d_guard' = d_guard
    BY <1>2, <1>3
  <2>2. kind = "p" /\ t[c].pc \in OuterPCs /\ l \in OuterPCs \ {"mark", "d_head"}
        /\ l \in DequeuePCs(kind)
    BY <1>0, <2>1, PKind DEF OuterPCs, DequeuePCs, TicketPCs
  <2>3. l = "d_enter" => t[c].pc = "less"
    BY <1>3 DEF PDeqLess, At
  <2> QED BY <1>0, <1>3, <2>1, <2>2, <2>3, GotoKeeps
<1>4. CASE PTestPermits(c) \/ PTakePermit(c) \/ PUndoPermit(c) \/ PDeqLess(c)
  BY <1>3, <1>4 DEF PTestPermits, PTakePermit, PUndoPermit, PDeqLess
<1>5. CASE PTestAnnounced(c)
  <2>1. CASE ub_count > 0
    BY <1>3, <1>5, <2>1 DEF PTestAnnounced
  <2>2. CASE ~(ub_count > 0)
    <3>1. Answer(c, Empty) /\ Empty \in Answers
      BY <1>5, <2>2 DEF PTestAnnounced, Answers
    <3>2. t[c].pc \in OuterPCs
      BY <1>2, <1>5 DEF OuterPCs
    <3> QED BY <1>2, <1>5, <3>1, <3>2, AnswerKeeps
  <2> QED BY <2>1, <2>2
<1> QED BY <1>1, <1>4, <1>5

(* Only one dequeuer has the turn of a list.                               *)
LEMMA OneTurn ==
    ASSUME TypeOK, TicketInv, kind = "p", NEW c \in Dequeuers, NEW b \in Dequeuers,
           t[c].pc \in TurnPCs, t[b].pc \in TurnPCs, I(c) = I(b)
    PROVE  c = b
<1>1. t[c].cnt - N = t[b].cnt - N
  BY DEF TicketInv
<1>2. t[c].cnt \in Nat /\ t[b].cnt \in Nat /\ N \in Nat
  BY Size, Names DEF TypeOK, ThreadOK, Locals
<1>3. t[c].cnt = t[b].cnt
  BY <1>1, <1>2
<1>4. t[c].pc \in TicketPCs /\ t[b].pc \in TicketPCs
  BY DEF TicketPCs
<1> QED BY <1>3, <1>4 DEF TicketInv

(* A ticket is drawn.                                                      *)
LEMMA PDeqTicketKeeps ==
    ASSUME ArrayInv, NEW c \in Dequeuers, PDeqTicket(c)
    PROVE  ArrayInv'
<1> DEFINE r == [t[c] EXCEPT !.pc = "less", !.cnt = deq_counter, !.idx = deq_counter % N]
<1>0. /\ TypeOK /\ DataOK /\ TicketInv /\ deq_counter \in Nat
      /\ c \in Threads /\ c \notin Enqueuers
      /\ \A b \in Threads : t[b].cnt \in Nat
  BY Names DEF ArrayInv, TypeOK, DataOK, ThreadOK, Locals
<1>1. /\ t[c] \in Locals /\ deq_counter % N \in Index /\ deq_counter % N \in Nat
  BY <1>0, LocalsOf, Size
<1>2. DataOK'
  BY <1>0 DEF DataOK, PDeqTicket, lists, slots, hist
<1>3. /\ Set(c, r) /\ SameLists /\ q' = q /\ uaf' = uaf /\ ~wild
      /\ t[c].pc = "d_ticket" /\ deq_counter' = deq_counter + 1 /\ d_guard' = d_guard
  BY DEF PDeqTicket, SameLists, lists, slots, hist, At
<1>4. r \in Locals
  <2>1. "less" \in Labels
    BY DEF Labels, DequeuePCs, TicketPCs
  <2> QED BY <1>0, <1>1, <2>1 DEF Locals
<1>5. r.pc = "less" /\ r.idx = deq_counter % N /\ r.cnt = deq_counter
  BY <1>1 DEF Locals
<1> HIDE DEF r
<1>6. kind = "p" /\ t[c].pc \in OuterPCs /\ r.pc \in OuterPCs /\ r.pc \in DequeuePCs(kind)
  BY <1>0, <1>3, <1>5, PKind DEF OuterPCs, DequeuePCs, TicketPCs
<1>7. ASSUME Moved(c, r) PROVE TicketInv'
  <2>1. /\ \A b \in Dequeuers : b # c =>
              t'[b].pc = t[b].pc /\ t'[b].cnt = t[b].cnt /\ I(b)' = I(b)
        /\ t'[c].pc = "less" /\ t'[c].cnt = deq_counter
    BY <1>5, <1>7, Names DEF Moved, Alike, I
  <2>2. \A b \in Dequeuers : b # c /\ t[b].pc \in TicketPCs =>
           /\ t[b].cnt # deq_counter /\ t[b].cnt < deq_counter + 1
    BY <1>0, <1>6, Names DEF TicketInv
  <2>3. deq_counter < deq_counter + 1 /\ "less" \notin TurnPCs
    BY <1>0 DEF TurnPCs
  <2> QED BY <1>0, <1>3, <1>6, <2>1, <2>2, <2>3 DEF TicketInv, SameLists
<1> QED BY <1>0, <1>1, <1>2, <1>3, <1>4, <1>5, <1>6, <1>7, OuterKeeps

(* The turn of a ticket has come.                                          *)
LEMMA PDeqEnterKeeps ==
    ASSUME ArrayInv, NEW c \in Dequeuers, dequeue_FIFO_enter(c)
    PROVE  ArrayInv'
<1> DEFINE r == [t[c] EXCEPT !.pc = "d_head"]
<1>0. TypeOK /\ DataOK /\ TicketInv /\ c \in Threads /\ c \notin Enqueuers
  BY Names DEF ArrayInv, TypeOK
<1>1. t[c] \in Locals /\ t[c].idx \in Index
  BY <1>0, LocalsOf DEF TypeOK, ThreadOK
<1>2. DataOK'
  BY <1>0 DEF DataOK, dequeue_FIFO_enter, lists, slots, cnts, hist
<1>3. /\ Set(c, r) /\ SameLists /\ q' = q /\ uaf' = uaf /\ ~wild
      /\ t[c].pc = "d_enter" /\ deq_counter' = deq_counter /\ d_guard' = d_guard
      /\ d_guard[t[c].idx] = t[c].cnt - N
  BY DEF dequeue_FIFO_enter, SameLists, lists, slots, cnts, hist, At, Goto, I
<1>4. r \in Locals
  <2>1. "d_head" \in Labels
    BY DEF Labels, DequeuePCs, TicketPCs, TurnPCs
  <2> QED BY <1>1, <2>1 DEF Locals
<1>5. r.pc = "d_head" /\ r.idx = t[c].idx /\ r.cnt = t[c].cnt
  BY <1>1 DEF Locals
<1> HIDE DEF r
<1>6. kind = "p" /\ t[c].pc \in OuterPCs /\ r.pc \in OuterPCs /\ r.pc \in DequeuePCs(kind)
  BY <1>0, <1>3, <1>5, PKind DEF OuterPCs, DequeuePCs, TicketPCs, TurnPCs
<1>7. ASSUME Moved(c, r) PROVE TicketInv'
  <2>1. /\ \A b \in Dequeuers : b # c =>
              t'[b].pc = t[b].pc /\ t'[b].cnt = t[b].cnt /\ t'[b].idx = t[b].idx
        /\ t'[c].pc = "d_head" /\ t'[c].cnt = t[c].cnt /\ t'[c].idx = t[c].idx
    BY <1>5, <1>7, Names DEF Moved, Alike
  <2>2. t[c].pc \in TicketPCs
    BY <1>3 DEF TicketPCs
  <2>3. \A b \in Dequeuers : /\ t'[b].pc \in TicketPCs => t[b].pc \in TicketPCs
                             /\ t'[b].cnt = t[b].cnt /\ t'[b].idx = t[b].idx
                             /\ t'[b].pc \in TurnPCs => t[b].pc \in TurnPCs \/ b = c
    BY <2>1, <2>2
  <2> QED BY <1>0, <1>3, <1>6, <2>3 DEF TicketInv, SameLists, I
<1> QED BY <1>0, <1>1, <1>2, <1>3, <1>4, <1>5, <1>6, <1>7, OuterKeeps

(* The guard of a list moves on to the next ticket.                        *)
LEMMA PDeqExitKeeps ==
    ASSUME ArrayInv, NEW c \in Dequeuers, dequeue_FIFO_exit(c)
    PROVE  ArrayInv'
<1> DEFINE r == [t[c] EXCEPT !.pc = "free"]
<1>0. TypeOK /\ DataOK /\ TicketInv /\ c \in Threads /\ c \notin Enqueuers
      /\ d_guard \in [Index -> Int]
  BY Names DEF ArrayInv, TypeOK, DataOK
<1>1. t[c] \in Locals /\ t[c].idx \in Index /\ t[c].cnt \in Nat
  BY <1>0, LocalsOf DEF TypeOK, ThreadOK, Locals
<1>2. d_guard' = [d_guard EXCEPT ![t[c].idx] = t[c].cnt]
  BY DEF dequeue_FIFO_exit, I
<1>3. /\ Set(c, r) /\ SameLists /\ q' = q /\ uaf' = uaf /\ ~wild /\ wild' = wild
      /\ t[c].pc = "d_exit" /\ deq_counter' = deq_counter
  BY DEF dequeue_FIFO_exit, SameLists, lists, slots, hist, At, Goto
<1>4. DataOK'
  <2>1. d_guard' \in [Index -> Int]
    BY <1>0, <1>1, <1>2
  <2> QED BY <1>0, <2>1 DEF DataOK, dequeue_FIFO_exit, lists, slots, hist
<1>5. r \in Locals
  <2>1. "free" \in Labels
    BY DEF Labels, DequeuePCs
  <2> QED BY <1>1, <2>1 DEF Locals
<1>6. r.pc = "free" /\ r.idx = t[c].idx /\ r.n = t[c].n
  BY <1>1 DEF Locals
<1> HIDE DEF r
<1>7. kind = "p" /\ kind' = kind /\ r.pc \in DequeuePCs(kind)
  BY <1>0, <1>3, <1>6, PKind DEF DequeuePCs, SameLists
<1>8. Moved(c, r) /\ ThreadOK'
  BY <1>0, <1>1, <1>3, <1>5, <1>6, <1>7, ThreadMoves
<1>9. /\ \A b \in Dequeuers : b # c =>
            t'[b].pc = t[b].pc /\ t'[b].cnt = t[b].cnt /\ I(b)' = I(b)
      /\ t'[c].pc = "free" /\ t'[c].n = t[c].n /\ I(c)' = I(c)
      /\ \A b \in Dequeuers : I(b) \in Index
  BY <1>0, <1>6, <1>8, Names DEF Moved, Alike, I, TypeOK, ThreadOK
<1>10. TicketInv'
  <2>1. "free" \notin TicketPCs /\ "free" \notin TurnPCs /\ t[c].pc \in TurnPCs
    BY <1>3 DEF TicketPCs, TurnPCs
  <2>2. \A b \in Dequeuers : b # c /\ t[b].pc \in TurnPCs => d_guard'[I(b)] = d_guard[I(b)]
    BY <1>0, <1>2, <1>7, <1>9, <2>1, OneTurn DEF I
  <2> QED BY <1>0, <1>3, <1>7, <1>9, <2>1, <2>2 DEF TicketInv
<1>11. Kept(c) /\ ReadOK(c)'
  <2>1. ~Holds(c) /\ ~Holds(c)'
    BY <1>3, <1>9 DEF Holds
  <2>2. t[c].pc \in ClaimPCs /\ t'[c].pc \notin SwapPCs /\ t'[c].pc \notin LinkPCs
        /\ t'[c].idx = t[c].idx
    BY <1>3, <1>9 DEF ClaimPCs, SwapPCs, LinkPCs, I
  <2>3. Kept(c)
    BY <1>3, <1>7, <1>9, <2>1, <2>2 DEF Kept, Past
  <2> QED BY <1>9, <2>3 DEF ReadOK
<1> QED BY <1>0, <1>3, <1>4, <1>8, <1>10, <1>11, QuietKeeps

(* An enqueue waits for its turn, and lets the next one have it.           *)
LEMMA PEnqGuardKeeps ==
    ASSUME ArrayInv, NEW c \in Enqueuers, FIFO_enter(c) \/ FIFO_exit(c)
    PROVE  ArrayInv'
<1>0. TypeOK /\ DataOK /\ TicketInv /\ c \in Threads /\ c \notin Dequeuers
      /\ e_guard \in [Index -> Int]
  BY Names DEF ArrayInv, TypeOK, DataOK
<1>1. t[c] \in Locals /\ t[c].cnt \in Nat
  BY <1>0, LocalsOf DEF Locals
<1>2. PICK l \in {"swap", "link"} :
         /\ Goto(c, l) /\ ~wild
         /\ (t[c].pc = "e_enter" /\ l = "swap") \/ (t[c].pc = "e_exit" /\ l = "link")
  BY DEF FIFO_enter, FIFO_exit, At
<1>3. /\ SameLists /\ q' = q /\ uaf' = uaf /\ wild' = wild
      /\ deq_counter' = deq_counter /\ d_guard' = d_guard
  BY DEF FIFO_enter, FIFO_exit, SameLists, lists, slots, cnts, hist
<1>4. kind = "p" /\ kind' = kind
  BY <1>0, <1>2, <1>3, PKind DEF SameLists
<1>5. DataOK'
  <2>1. e_guard' \in [Index -> Int]
    BY <1>0, <1>1 DEF FIFO_enter, FIFO_exit, cnts
  <2> QED BY <1>0, <2>1 DEF DataOK, FIFO_enter, FIFO_exit, lists, slots, cnts, hist
<1> DEFINE r == [t[c] EXCEPT !.pc = l]
<1>6. r \in Locals /\ Set(c, r)
  <2>1. l \in Labels
    BY DEF Labels, EnqueuePCs, SwapPCs, LinkPCs
  <2> QED BY <1>0, <1>2, <2>1, LocalsOf DEF Goto
<1>7. /\ r.pc = l /\ r.idx = t[c].idx /\ r.cnt = t[c].cnt /\ r.n = t[c].n
      /\ r.next = t[c].next /\ r.item = t[c].item
  BY <1>1 DEF Locals
<1> HIDE DEF r
<1>8. r.pc \in EnqueuePCs(kind) /\ r.idx \in Index /\ r.pc \notin TicketPCs /\ r.pc \notin TurnPCs
  BY <1>0, <1>4, <1>7 DEF EnqueuePCs, SwapPCs, LinkPCs, TypeOK, ThreadOK, TicketPCs, TurnPCs
<1>9. Moved(c, r) /\ ThreadOK'
  BY <1>0, <1>2, <1>4, <1>6, <1>8, ThreadMoves
<1>10. TicketInv'
  BY <1>0, <1>3, <1>4, <1>8, <1>9, TicketKept
<1>11. Kept(c)
  BY <1>2, <1>7, <1>9 DEF Moved, Alike, Kept, SwapPCs, LinkPCs, ClaimPCs, Past, Holds
<1> QED BY <1>0, <1>3, <1>5, <1>9, <1>10, <1>11, QuietKeeps

-----------------------------------------------------------------------------
(* Dequeuers that have a node.                                             *)

(* The node is allocated, and first in its line as long as it is held.     *)
LEMMA Claimed ==
    ASSUME TypeOK, NodeInv, NEW c \in Dequeuers, t[c].pc \in ClaimPCs
    PROVE  /\ t[c].n \in heap /\ t[c].n \in Nodes /\ t[c].n # Null /\ I(c) \in Index
           /\ Holds(c) => /\ line[I(c)] # <<>> /\ line[I(c)][1] = t[c].n
                          /\ 1 \in 1..Len(line[I(c)])
                          /\ tail[I(c)] # Null /\ tail[I(c)] = line[I(c)][Len(line[I(c)])]
<1>1. t[c].n \in heap /\ heap \subseteq Nodes /\ I(c) \in Index
  BY DEF NodeInv, ClaimInv, TypeOK, ThreadOK, DataOK, I
<1>2. Holds(c) => line[I(c)] # <<>> /\ line[I(c)][1] = t[c].n
  BY DEF NodeInv, ClaimInv
<1>3. line[I(c)] # <<>> =>
         /\ 1 \in 1..Len(line[I(c)]) /\ Len(line[I(c)]) \in 1..Len(line[I(c)])
         /\ tail[I(c)] = line[I(c)][Len(line[I(c)])]
         /\ line[I(c)][Len(line[I(c)])] \in Nodes
  BY <1>1, LineLength DEF NodeInv, LineInv
<1> QED BY <1>1, <1>2, <1>3, Names

(* A thread is not a claimant, or reads and goes on.                       *)
LEMMA ReaderKeeps ==
    ASSUME ArrayInv, NEW c \in Dequeuers, NEW r \in Locals, Set(c, r), ~wild, wild' = wild,
           SameLists, q' = q, uaf' = uaf \/ uaf' = (uaf \/ t[c].n \notin heap), DataOK',
           deq_counter' = deq_counter, d_guard' = d_guard,
           t[c].pc \in {"d_next", "await", "next", "check"},
           r.pc \in {"d_set", "d_reset", "check", "cas", "move"},
           r.pc \in DequeuePCs(kind),
           r.pc = "d_set" <=> t[c].pc = "d_next",
           r.n = t[c].n, r.idx = t[c].idx, r.cnt = t[c].cnt,
           r.next = Null \/ r.next = node[t[c].n].next,
           r.pc \in {"move", "d_reset"} => r.next # Null,
           r.pc = "cas" => r.next = Null
    PROVE  ArrayInv'
<1>0. TypeOK /\ NodeInv /\ TicketInv /\ kind' = kind /\ c \in Threads /\ c \notin Enqueuers
      /\ I(c) \in Index
  BY Names DEF ArrayInv, SameLists, TypeOK, ThreadOK, I
<1>1. t[c].pc \in ClaimPCs
  BY DEF ClaimPCs
<1>2. uaf' = uaf
  <2>1. t[c].n \in heap /\ uaf \in BOOLEAN
    BY <1>0, <1>1, Claimed DEF TypeOK, DataOK
  <2>2. (uaf \/ t[c].n \notin heap) = uaf
    BY <2>1
  <2> QED BY <2>2
<1>3. Moved(c, r) /\ ThreadOK'
  BY <1>0, ThreadMoves DEF I
<1>4. TicketInv'
  <2>1. t[c].pc \in {"d_next", "await"} => t[c].pc \in TicketPCs /\ t[c].pc \in TurnPCs
    BY DEF TicketPCs, TurnPCs
  <2>2. kind = "p" => t[c].pc \in {"d_next", "await"}
    BY <1>0, PKind
  <2> QED BY <1>0, <1>3, <2>1, <2>2, TicketKept
<1>5. /\ t'[c].pc = r.pc /\ t'[c].n = r.n /\ t'[c].idx = r.idx /\ t'[c].next = r.next
  BY <1>3 DEF Moved, Alike
<1>6. /\ Holds(c) /\ Holds(c)'
      /\ Past(c)' <=> Past(c)
  <2>1. Holds(c)
    BY DEF Holds
  <2>2. Holds(c)'
    BY <1>5 DEF Holds
  <2>3. t[c].pc \in {"d_next", "d_set"} <=> t'[c].pc \in {"d_next", "d_set"}
    BY <1>5
  <2> QED BY <2>1, <2>2, <2>3 DEF Past
<1>7. Kept(c)
  <2>1. t'[c].pc \notin SwapPCs /\ t'[c].pc \notin LinkPCs /\ t'[c].pc # "free"
    BY <1>5 DEF SwapPCs, LinkPCs
  <2> QED BY <1>1, <1>5, <1>6, <2>1 DEF Kept
<1>8. ReadOK(c)'
  <2>1. node' = node
    BY DEF SameLists
  <2> QED BY <1>5, <2>1 DEF ReadOK
<1> QED BY <1>0, <1>2, <1>3, <1>4, <1>7, <1>8, QuietKeeps

(* What the steps that only read leave alone.                              *)
LEMMA ReadsOnly ==
    ASSUME ArrayInv, UNCHANGED <<kind, lists, slots, cnts, made, put, took, given, wild>>,
           uaf' \in BOOLEAN
    PROVE  /\ SameLists /\ q' = q /\ DataOK' /\ wild' = wild
           /\ deq_counter' = deq_counter /\ d_guard' = d_guard
<1>1. DataOK
  BY DEF ArrayInv, TypeOK
<1> QED BY <1>1 DEF DataOK, SameLists, lists, slots, cnts

(* A dequeue reads the link of its node, or waits for it.                  *)
LEMMA ReadNextKeeps ==
    ASSUME ArrayInv, NEW c \in Dequeuers,
           \/ PDeqNext(c) \/ PaLoadNext(c)
           \/ kind = "p" /\ AwaitNext(c, "d_reset")
           \/ kind = "pa" /\ AwaitNext(c, "move")
    PROVE  ArrayInv'
<1>0. TypeOK /\ NodeInv /\ c \in Threads /\ uaf \in BOOLEAN /\ node \in [Nodes -> Cells]
  BY Names DEF ArrayInv, TypeOK, DataOK
<1>1. PICK l \in {"d_set", "check", "d_reset", "move"} :
         /\ Set(c, [t[c] EXCEPT !.next = node[t[c].n].next, !.pc = l]) /\ ~wild /\ Touch(t[c].n)
         /\ \/ t[c].pc = "d_next" /\ l = "d_set"
            \/ t[c].pc = "next" /\ l = "check"
            \/ t[c].pc = "await" /\ l = "d_reset" /\ kind = "p"
            \/ t[c].pc = "await" /\ l = "move" /\ kind = "pa"
         /\ l \in {"d_reset", "move"} => node[t[c].n].next # Null
         /\ UNCHANGED <<kind, lists, slots, cnts, made, put, took, given, wild>>
  <2>1. CASE PDeqNext(c)
    <3>1. [t[c] EXCEPT !.next = node[t[c].n].next, !.pc = "d_set"]
             = [t[c] EXCEPT !.pc = "d_set", !.next = node[t[c].n].next]
      BY <1>0, LocalsOf DEF Locals
    <3> QED BY <2>1, <3>1 DEF PDeqNext, At
  <2>2. CASE PaLoadNext(c)
    <3>1. [t[c] EXCEPT !.next = node[t[c].n].next, !.pc = "check"]
             = [t[c] EXCEPT !.pc = "check", !.next = node[t[c].n].next]
      BY <1>0, LocalsOf DEF Locals
    <3> QED BY <2>2, <3>1 DEF PaLoadNext, At
  <2>3. CASE kind = "p" /\ AwaitNext(c, "d_reset")
    BY <2>3 DEF AwaitNext, At
  <2>4. CASE kind = "pa" /\ AwaitNext(c, "move")
    BY <2>4 DEF AwaitNext, At
  <2> QED BY <2>1, <2>2, <2>3, <2>4
<1> DEFINE r == [t[c] EXCEPT !.next = node[t[c].n].next, !.pc = l]
<1>2. t[c].pc \in ClaimPCs
  BY <1>1 DEF ClaimPCs
<1>3. t[c].n \in Nodes /\ t[c] \in Locals /\ node[t[c].n].next \in Address
  BY <1>0, <1>2, Claimed, LocalsOf DEF Cells
<1>4. r \in Locals
  <2>1. l \in Labels
    BY DEF Labels, DequeuePCs, TicketPCs, TurnPCs
  <2> QED BY <1>3, <2>1 DEF Locals
<1>5. /\ r.pc = l /\ r.n = t[c].n /\ r.idx = t[c].idx /\ r.cnt = t[c].cnt
      /\ r.next = node[t[c].n].next
  BY <1>3 DEF Locals
<1>6. Set(c, r)
  BY <1>1
<1> HIDE DEF r
<1>7. uaf' = (uaf \/ t[c].n \notin heap)
  BY <1>1 DEF Touch
<1>8. kind = "p" => l \in {"d_set", "d_reset"}
  BY <1>0, <1>1, PKind
<1>9. kind # "p" => kind = "pa" /\ l \in {"check", "move"}
  BY <1>0, <1>1, PKind
<1>10. l \in DequeuePCs(kind)
  BY <1>8, <1>9 DEF DequeuePCs, TicketPCs, TurnPCs
<1>11. /\ SameLists /\ q' = q /\ DataOK' /\ wild' = wild
       /\ deq_counter' = deq_counter /\ d_guard' = d_guard
  BY <1>1, <1>7, ReadsOnly
<1> QED BY <1>1, <1>4, <1>5, <1>6, <1>7, <1>10, <1>11, ReaderKeeps

(* The tail of a list whose first node is held is not Null.                *)
LEMMA PaCheckTailKeeps ==
    ASSUME ArrayInv, NEW c \in Dequeuers, PaCheckTail(c)
    PROVE  ArrayInv'
<1>0. TypeOK /\ NodeInv /\ c \in Threads /\ uaf \in BOOLEAN
  BY Names DEF ArrayInv, TypeOK, DataOK
<1>1. t[c].pc = "check" /\ ~wild /\ UNCHANGED <<kind, lists, slots, cnts, hist>>
  BY DEF PaCheckTail, At
<1>2. t[c].pc \in ClaimPCs /\ Holds(c)
  BY <1>1 DEF ClaimPCs, Holds
<1>3. tail[I(c)] # Null
  BY <1>0, <1>2, Claimed
<1> DEFINE l == IF t[c].next = Null THEN "cas" ELSE "move"
           r == [t[c] EXCEPT !.pc = l]
<1>4. Set(c, r)
  BY <1>3 DEF PaCheckTail, Goto
<1>5. t[c] \in Locals /\ l \in Labels
  BY <1>0, LocalsOf DEF Labels, DequeuePCs
<1>6. /\ r \in Locals /\ r.pc = l /\ r.n = t[c].n /\ r.idx = t[c].idx
      /\ r.cnt = t[c].cnt /\ r.next = t[c].next
  BY <1>5 DEF Locals
<1>7. t[c].next = Null \/ t[c].next = node[t[c].n].next
  BY <1>0, <1>1 DEF NodeInv, ReadInv
<1>8. kind = "pa" /\ l \in DequeuePCs(kind)
  BY <1>0, <1>1, PKind DEF DequeuePCs
<1>9. l \in {"cas", "move"} /\ (l = "move" => t[c].next # Null)
      /\ (l = "cas" => t[c].next = Null)
  OBVIOUS
<1> HIDE DEF r, l
<1>10. UNCHANGED <<kind, lists, slots, cnts, made, put, took, given, wild>> /\ uaf' = uaf
  BY <1>1 DEF hist
<1>11. /\ SameLists /\ q' = q /\ DataOK' /\ wild' = wild
       /\ deq_counter' = deq_counter /\ d_guard' = d_guard
  BY <1>0, <1>10, ReadsOnly
<1> QED BY <1>1, <1>4, <1>6, <1>7, <1>8, <1>9, <1>10, <1>11, ReaderKeeps

-----------------------------------------------------------------------------
(* Nodes that come, join a line, are linked, leave it and go.              *)

(* The threads that do not move keep their part.                           *)
LEMMA Others ==
    ASSUME NEW c, NEW r, Moved(c, r)
    PROVE  \A b \in Threads : b # c =>
              /\ t'[b].pc = t[b].pc /\ t'[b].n = t[b].n /\ t'[b].next = t[b].next
              /\ t'[b].item = t[b].item /\ I(b)' = I(b) /\ t'[b].idx = t[b].idx
              /\ Holds(b)' <=> Holds(b)
              /\ Past(b)' <=> Past(b)
              /\ Linking(b)' <=> Linking(b)
              /\ Starting(b)' <=> Starting(b)
BY DEF Moved, Alike, Holds, Past, Linking, Starting, I

(* Nobody knows a node that malloc returns.                                *)
LEMMA NewNode ==
    ASSUME TypeOK, NodeInv, ItemsInv, NEW c \in Enqueuers, NEW n \in Nodes \ heap, NEW x \in Nat,
           heap' = heap \cup {n}, node' = [node EXCEPT ![n] = [next |-> Null, item |-> x]],
           UNCHANGED <<kind, head, mark, tail, line, put, took>>,
           NEW r, Moved(c, r), r.pc \in SwapPCs, r.n = n, r.item = x
    PROVE  NodeInv' /\ ItemsInv'
<1>0. /\ LineInv /\ HeadInv /\ SwapInv /\ LinkInv /\ StartInv /\ ClaimInv /\ ReadInv
      /\ kind' = kind /\ head' = head /\ mark' = mark /\ tail' = tail /\ line' = line
      /\ put' = put /\ took' = took /\ c \in Threads /\ c \notin Dequeuers
      /\ \A i \in Index : line[i] \in Seq(Nodes)
      /\ node \in [Nodes -> Cells] /\ heap \subseteq Nodes
      /\ \A b \in Dequeuers : I(b) \in Index
  BY Names DEF NodeInv, TypeOK, DataOK, ThreadOK, I
<1>1. /\ node'[n] = [next |-> Null, item |-> x]
      /\ \A m \in heap : node'[m] = node[m] /\ m # n /\ m \in Nodes
  BY <1>0
<1>2. /\ \A m, i : InLine(m, i)' <=> InLine(m, i)
      /\ \A i \in Index : \A k \in 1..Len(line[i]) : line[i][k] \in heap /\ line[i][k] # n
      /\ \A i \in Index : ~InLine(n, i) /\ head[i] # n
  BY <1>0, <1>1, Names DEF InLine, LineInv, HeadInv
<1>3. /\ \A b \in Threads : b # c =>
            /\ t'[b].pc = t[b].pc /\ t'[b].n = t[b].n /\ t'[b].next = t[b].next
            /\ t'[b].item = t[b].item /\ I(b)' = I(b)
            /\ Holds(b)' <=> Holds(b)
            /\ Past(b)' <=> Past(b)
            /\ Linking(b)' <=> Linking(b)
            /\ Starting(b)' <=> Starting(b)
      /\ t'[c].pc \in SwapPCs /\ t'[c].n = n /\ t'[c].item = x
      /\ ~Linking(c)' /\ ~Starting(c)'
  <2>1. t'[c].pc = r.pc /\ t'[c].n = n /\ t'[c].item = x
    BY DEF Moved, Alike
  <2>2. ~Linking(c)' /\ ~Starting(c)'
    BY <2>1 DEF Linking, Starting, SwapPCs, LinkPCs
  <2> QED BY <2>1, <2>2, Others
<1>4. LineInv'
  BY <1>0, <1>1, <1>2 DEF LineInv
<1>5. HeadInv'
  BY <1>0, <1>2 DEF HeadInv
<1>6. SwapInv'
  <2>1. \A b \in Enqueuers : b # c /\ t'[b].pc \in SwapPCs =>
           t[b].pc \in SwapPCs /\ t[b].n \in heap /\ t'[b].n = t[b].n /\ t'[b].item = t[b].item
    BY <1>0, <1>3, Names DEF SwapInv
  <2> QED BY <1>0, <1>1, <1>2, <1>3, <2>1 DEF SwapInv
<1>7. LinkInv'
  <2>1. ASSUME NEW b \in Enqueuers, Linking(b)'
        PROVE  /\ Linking(b) /\ t'[b].next = t[b].next /\ t'[b].n = t[b].n /\ I(b)' = I(b)
    BY <1>3, <2>1, Names
  <2>2. ASSUME NEW b \in Enqueuers, Linking(b)' PROVE t[b].next \in heap
    <3>1. PICK k \in 1..Len(line[I(b)]) : t[b].next = line[I(b)][k]
      BY <1>0, <2>1, <2>2 DEF LinkInv
    <3>2. I(b) \in Index
      <4>1. t[b].pc \in LinkPCs
        BY <2>1, <2>2 DEF Linking
      <4>2. kind = "p" \/ kind = "pa"
        BY <4>1, PKind, Names DEF LinkPCs
      <4> QED BY <4>2 DEF I, TypeOK, ThreadOK
    <3> QED BY <1>2, <3>1, <3>2
  <2> QED BY <1>0, <1>1, <2>1, <2>2 DEF LinkInv
<1>8. StartInv'
  <2>1. \A d \in Dequeuers : (Holds(d)' <=> Holds(d)) /\ I(d)' = I(d)
    BY <1>0, <1>3, Names
  <2>2. \A b \in Enqueuers : Starting(b)' => Starting(b) /\ t'[b].n = t[b].n /\ I(b)' = I(b)
    BY <1>3, Names
  <2> QED BY <1>0, <2>1, <2>2 DEF StartInv
<1>9. ClaimInv'
  <2>1. \A b \in Dequeuers : /\ t'[b].pc = t[b].pc /\ t'[b].n = t[b].n /\ I(b)' = I(b)
                             /\ Holds(b)' <=> Holds(b)
                             /\ Past(b)' <=> Past(b)
                             /\ t[b].pc \in ClaimPCs => t[b].n # n
    BY <1>0, <1>3, Names DEF ClaimInv
  <2>2. \A b \in Enqueuers : t'[b].pc \in SwapPCs =>
           b = c \/ (t[b].pc \in SwapPCs /\ t'[b].n = t[b].n)
    BY <1>3, Names
  <2> QED BY <1>0, <1>2, <1>3, <2>1, <2>2 DEF ClaimInv
<1>10. ReadInv'
  <2>1. \A b \in Dequeuers : t[b].pc \in {"d_set", "check", "d_reset", "move"} =>
           node'[t[b].n] = node[t[b].n]
    BY <1>0, <1>1 DEF ClaimInv, ClaimPCs
  <2> QED BY <1>0, <1>3, <2>1, Names DEF ReadInv
<1>11. ItemsInv'
  <2>1. \A i : Passed(i)' <=> Passed(i)
    BY <1>0, <1>3, Names DEF Passed
  <2>2. \A i \in Index : /\ Offset(i)' = Offset(i)
                         /\ \A k \in 1..Len(line[i]) : node'[line[i][k]] = node[line[i][k]]
    BY <1>0, <1>1, <1>2 DEF Offset
  <2> QED BY <1>0, <2>1, <2>2 DEF ItemsInv
<1> QED BY <1>4, <1>5, <1>6, <1>7, <1>8, <1>9, <1>10, <1>11 DEF NodeInv

(* What follows for the rest of the invariant from a step that changes     *)
(* nodes and lines only.                                                   *)
LEMMA StepOf ==
    ASSUME ArrayInv, NodeInv', ItemsInv', DataOK', ThreadOK', TicketInv', SharedInv', TookInv',
           uaf' = uaf
    PROVE  ArrayInv'
BY DEF ArrayInv, TypeOK

(* An enqueue allocates its node.                                          *)
LEMMA AllocKeeps ==
    ASSUME ArrayInv, NEW c \in Enqueuers, PEnqPermit(c) \/ PaEnqSlot(c)
    PROVE  ArrayInv'
<1>0. /\ TypeOK /\ DataOK /\ NodeInv /\ ItemsInv /\ TicketInv /\ c \in Threads /\ c \notin Dequeuers
      /\ SharedInv /\ TookInv /\ made \in Nat /\ enq_counter \in Nat
  BY Names DEF ArrayInv, TypeOK, DataOK
<1>1. /\ t[c] \in Locals /\ Idle \in Locals /\ t[c].item \in Nat /\ made + 1 \in Nat
      /\ enq_counter % N \in Index /\ enq_counter % N \in Nat
      /\ "e_enter" \in Labels /\ "swap" \in Labels
  <2>1. t[c] \in Locals /\ Idle \in Locals /\ made + 1 \in Nat
        /\ enq_counter % N \in Index /\ enq_counter % N \in Nat
    <3>1. made + 1 \in Nat
      BY <1>0
    <3> QED BY <1>0, <3>1, LocalsOf, Size
  <2>2. "e_enter" \in Labels /\ "swap" \in Labels
    BY DEF Labels, EnqueuePCs, SwapPCs
  <2> QED BY <2>1, <2>2 DEF Locals
<1>2. PICK n \in Nodes \ heap, x \in Nat, r \in Locals :
         /\ heap' = heap \cup {n} /\ node' = [node EXCEPT ![n] = [next |-> Null, item |-> x]]
         /\ Set(c, r) \/ Enter(c, r)
         /\ r.pc \in SwapPCs /\ r.n = n /\ r.item = x /\ r.idx \in Index
         /\ r.pc \in EnqueuePCs(kind)
  <2>1. CASE PEnqPermit(c)
    <3>1. PICK n \in Nodes \ heap :
             /\ heap' = heap \cup {n}
             /\ node' = [node EXCEPT ![n] = [next |-> Null, item |-> t[c].item]]
             /\ Set(c, [t[c] EXCEPT !.pc = "e_enter", !.n = n])
      BY <2>1 DEF PEnqPermit
    <3> DEFINE r == [t[c] EXCEPT !.pc = "e_enter", !.n = n]
    <3>2. n \in Address
      BY DEF Address
    <3>3. r \in Locals
      BY <1>1, <3>2 DEF Locals
    <3>4. r.pc = "e_enter" /\ r.n = n /\ r.item = t[c].item /\ r.idx = t[c].idx
      BY <1>1 DEF Locals
    <3>5. Set(c, r)
      BY <3>1
    <3> HIDE DEF r
    <3>6. kind = "p"
      BY <1>0, <2>1, PKind DEF PEnqPermit, At
    <3>7. t[c].idx \in Index /\ "e_enter" \in SwapPCs /\ "e_enter" \in EnqueuePCs(kind)
      BY <1>0, <3>6 DEF TypeOK, ThreadOK, SwapPCs, EnqueuePCs
    <3> QED BY <1>1, <3>1, <3>3, <3>4, <3>5, <3>7
  <2>2. CASE PaEnqSlot(c)
    <3>1. PICK n \in Nodes \ heap :
             /\ heap' = heap \cup {n}
             /\ node' = [node EXCEPT ![n] = [next |-> Null, item |-> made + 1]]
             /\ Enter(c, [Idle EXCEPT !.pc = "swap", !.item = made + 1, !.n = n,
                                      !.idx = enq_counter % N])
      BY <2>2 DEF PaEnqSlot
    <3> DEFINE r == [Idle EXCEPT !.pc = "swap", !.item = made + 1, !.n = n,
                                 !.idx = enq_counter % N]
    <3>2. n \in Address
      BY DEF Address
    <3>3. r \in Locals
      BY <1>1, <3>2 DEF Locals
    <3>4. r.pc = "swap" /\ r.n = n /\ r.item = made + 1 /\ r.idx = enq_counter % N
      BY <1>1 DEF Locals
    <3>5. Enter(c, r)
      BY <3>1
    <3> HIDE DEF r
    <3>6. "swap" \in SwapPCs /\ "swap" \in EnqueuePCs(kind)
      BY <2>2 DEF PaEnqSlot, SwapPCs, EnqueuePCs
    <3> QED BY <1>1, <3>1, <3>3, <3>4, <3>5, <3>6
  <2> QED BY <2>1, <2>2
<1>3. /\ UNCHANGED <<kind, head, mark, tail, line, q, lock, st_index, st_dindex, e_guard, d_guard,
                     deq_counter, put, took, given, uaf, wild>>
      /\ ~wild /\ enq_counter' \in Nat /\ made' \in Nat /\ lb_count' \in Int /\ ub_count' = ub_count
  <2>0. lb_count \in Int /\ lb_count + 1 \in Int /\ made + 1 \in Nat /\ enq_counter + 1 \in Nat
    BY <1>0 DEF DataOK
  <2>1. CASE PEnqPermit(c)
    BY <1>0, <2>0, <2>1 DEF PEnqPermit, slots, hist, At
  <2>2. CASE PaEnqSlot(c)
    BY <1>0, <2>0, <2>2 DEF PaEnqSlot, slots, At
  <2> QED BY <2>1, <2>2
<1>4. DataOK'
  <2>1. node' \in [Nodes -> Cells] /\ heap' \subseteq Nodes
    BY <1>0, <1>2 DEF DataOK, Cells, Address
  <2> QED BY <1>0, <1>3, <2>1 DEF DataOK
<1>5. Moved(c, r) /\ ThreadOK'
  BY <1>0, <1>2, <1>3, ThreadMoves
<1>6. NodeInv' /\ ItemsInv'
  BY <1>0, <1>2, <1>3, <1>5, NewNode
<1>7. TicketInv'
  <2>1. r.pc \notin TicketPCs /\ r.pc \notin TurnPCs
    BY <1>2 DEF SwapPCs, TicketPCs, TurnPCs
  <2> QED BY <1>0, <1>3, <1>5, <2>1, TicketKept
<1>8. SharedInv' /\ TookInv'
  BY <1>0, <1>3 DEF SharedInv, TookInv
<1> QED BY <1>3, <1>4, <1>5, <1>6, <1>7, <1>8, StepOf

(* The exchange of tail: the new node joins the line.                      *)
LEMMA NodeJoins ==
    ASSUME TypeOK, NodeInv, ItemsInv, NEW c \in Enqueuers, t[c].pc = "swap",
           NEW i, i = I(c), NEW n, n = t[c].n,
           tail' = [tail EXCEPT ![i] = n],
           line' = [line EXCEPT ![i] = Append(@, n)],
           put' = [put EXCEPT ![i] = Append(@, t[c].item)],
           UNCHANGED <<kind, head, mark, node, heap, took>>,
           NEW r, Moved(c, r), r.pc \in LinkPCs, r.next = tail[i], r.n = n, r.idx = i
    PROVE  NodeInv' /\ ItemsInv'
<1>0. /\ LineInv /\ HeadInv /\ SwapInv /\ LinkInv /\ StartInv /\ ClaimInv /\ ReadInv
      /\ kind' = kind /\ head' = head /\ mark' = mark /\ node' = node /\ heap' = heap
      /\ took' = took /\ c \in Threads /\ c \notin Dequeuers
      /\ kind \in {"p", "pa"}
  BY Names, PKind DEF NodeInv
<1>1. /\ i \in Index /\ line[i] \in Seq(Nodes) /\ put[i] \in Seq(Nat) /\ t[c].item \in Nat
      /\ \A b \in Threads : I(b) \in Index
      /\ line \in [Index -> Seq(Nodes)] /\ tail \in [Index -> Address]
      /\ put \in [Index -> Seq(Nat)]
  BY <1>0, Names DEF TypeOK, DataOK, ThreadOK, Locals, I
<1>2. /\ n \in heap /\ n \in Nodes /\ node[n] = [next |-> Null, item |-> t[c].item]
      /\ \A j \in Index : n # head[j] /\ ~InLine(n, j)
  BY <1>0 DEF SwapInv, SwapPCs, TypeOK, DataOK
<1>3. /\ line'[i] \in Seq(Nodes) /\ line'[i] # <<>> /\ Len(line[i]) \in Nat
      /\ Len(line'[i]) = Len(line[i]) + 1 /\ line'[i][Len(line[i]) + 1] = n
      /\ \A k \in 1..Len(line[i]) : line'[i][k] = line[i][k]
      /\ line[i] = <<>> <=> Len(line[i]) = 0
      /\ tail'[i] = n
      /\ \A j \in Index : j # i => line'[j] = line[j] /\ tail'[j] = tail[j] /\ put'[j] = put[j]
  <2>1. line'[i] = Append(line[i], n)
    BY <1>1
  <2>2. /\ Append(line[i], n) \in Seq(Nodes) /\ Append(line[i], n) # <<>> /\ Len(line[i]) \in Nat
        /\ Len(Append(line[i], n)) = Len(line[i]) + 1 /\ Append(line[i], n)[Len(line[i]) + 1] = n
        /\ \A k \in 1..Len(line[i]) : Append(line[i], n)[k] = line[i][k]
        /\ line[i] = <<>> <=> Len(line[i]) = 0
    <3>1. \A u \in Seq(Nodes), x \in Nodes :
             /\ Append(u, x) \in Seq(Nodes) /\ Append(u, x) # <<>> /\ Len(u) \in Nat
             /\ Len(Append(u, x)) = Len(u) + 1 /\ Append(u, x)[Len(u) + 1] = x
             /\ \A k \in 1..Len(u) : Append(u, x)[k] = u[k]
             /\ u = <<>> <=> Len(u) = 0
      BY Joined
    <3> QED BY <1>1, <1>2, <3>1
  <2> QED BY <1>1, <2>1, <2>2
<1>4. /\ Len(put'[i]) = Len(put[i]) + 1 /\ Len(put[i]) \in Nat
      /\ put'[i][Len(put[i]) + 1] = t[c].item
      /\ \A k \in 1..Len(put[i]) : put'[i][k] = put[i][k]
  <2>1. put'[i] = Append(put[i], t[c].item)
    BY <1>1
  <2>2. \A S : \A u \in Seq(S), x \in S :
           /\ Len(Append(u, x)) = Len(u) + 1 /\ Len(u) \in Nat /\ Append(u, x)[Len(u) + 1] = x
           /\ \A k \in 1..Len(u) : Append(u, x)[k] = u[k]
    BY Joined
  <2> QED BY <1>1, <2>1, <2>2
<1>5. /\ \A k \in 1..Len(line'[i]) : k \in 1..Len(line[i]) \/ (k = Len(line[i]) + 1 /\ line'[i][k] = n)
      /\ \A j \in Index : \A k \in 1..Len(line[j]) :
            line[j][k] # n /\ line[j][k] \in Nodes /\ line[j][k] \in heap
      /\ \A m, j : j \in Index => (InLine(m, j)' <=> InLine(m, j) \/ (j = i /\ m = n))
  <2>1. \A k \in 1..Len(line'[i]) : k \in 1..Len(line[i]) \/ k = Len(line[i]) + 1
    BY <1>3
  <2>2. \A j \in Index : \A k \in 1..Len(line[j]) :
           line[j][k] # n /\ line[j][k] \in Nodes /\ line[j][k] \in heap
    BY <1>0, <1>2, LineLength DEF InLine, LineInv
  <2>3. \A k \in 1..Len(line[i]) : k \in 1..Len(line'[i])
    BY <1>3
  <2>4. Len(line[i]) + 1 \in 1..Len(line'[i])
    BY <1>3
  <2>5. \A m : InLine(m, i)' <=> InLine(m, i) \/ m = n
    BY <1>3, <2>1, <2>3, <2>4 DEF InLine
  <2>6. \A m, j : j \in Index /\ j # i => (InLine(m, j)' <=> InLine(m, j))
    BY <1>3 DEF InLine
  <2> QED BY <1>3, <2>1, <2>2, <2>5, <2>6
<1>6. tail[i] = Null <=> line[i] = <<>>
  BY <1>0, <1>1, <1>3, <1>5, LineLength, Names DEF LineInv
<1>7. /\ \A b \in Threads : b # c =>
            /\ t'[b].pc = t[b].pc /\ t'[b].n = t[b].n /\ t'[b].next = t[b].next
            /\ t'[b].item = t[b].item /\ I(b)' = I(b)
            /\ Holds(b)' <=> Holds(b)
            /\ Past(b)' <=> Past(b)
            /\ Linking(b)' <=> Linking(b)
            /\ Starting(b)' <=> Starting(b)
      /\ t'[c].pc \in LinkPCs /\ t'[c].n = n /\ t'[c].next = tail[i] /\ I(c)' = i
      /\ t'[c].pc \notin SwapPCs
      /\ Linking(c)' => line[i] # <<>>
      /\ Starting(c)' => line[i] = <<>>
  <2>1. t'[c].pc = r.pc /\ t'[c].n = n /\ t'[c].next = tail[i] /\ I(c)' = i
    BY DEF Moved, Alike, I
  <2>2. t'[c].pc \notin SwapPCs
    BY <2>1 DEF SwapPCs, LinkPCs
  <2>3. /\ Linking(c)' => line[i] # <<>>
        /\ Starting(c)' => line[i] = <<>>
    BY <1>6, <2>1 DEF Linking, Starting
  <2> QED BY <2>1, <2>2, <2>3, Others
<1>8. LineInv'
  <2>1. \A j \in Index : \A k \in 1..Len(line'[j]) : line'[j][k] \in heap'
    BY <1>0, <1>2, <1>3, <1>5
  <2>2. ASSUME NEW j \in Index, NEW g \in Index, NEW k \in 1..Len(line'[j]),
               NEW l \in 1..Len(line'[g]), line'[j][k] = line'[g][l]
        PROVE  j = g /\ k = l
    <3>1. /\ j = i => (k \in 1..Len(line[i]) /\ line'[i][k] = line[i][k]) \/ (k = Len(line[i]) + 1 /\ line'[i][k] = n)
          /\ g = i => (l \in 1..Len(line[i]) /\ line'[i][l] = line[i][l]) \/ (l = Len(line[i]) + 1 /\ line'[i][l] = n)
      BY <1>3, <1>5
    <3>2. CASE j # i /\ g # i
      BY <1>0, <1>3, <2>2, <3>2 DEF LineInv
    <3>3. CASE j = i /\ g # i
      BY <1>0, <1>3, <1>5, <2>2, <3>1, <3>3 DEF LineInv
    <3>4. CASE j # i /\ g = i
      BY <1>0, <1>3, <1>5, <2>2, <3>1, <3>4 DEF LineInv
    <3>5. CASE j = i /\ g = i
      BY <1>0, <1>3, <1>5, <2>2, <3>1, <3>5 DEF LineInv
    <3> QED BY <3>2, <3>3, <3>4, <3>5
  <2>3. ASSUME NEW j \in Index, NEW k \in 1..Len(line'[j])
        PROVE  \/ node'[line'[j][k]].next = Null
               \/ k < Len(line'[j]) /\ node'[line'[j][k]].next = line'[j][k + 1]
    <3>1. CASE j # i
      BY <1>0, <1>3, <3>1 DEF LineInv
    <3>2. CASE j = i /\ k \in 1..Len(line[i])
      <4>1. k < Len(line[i]) => k + 1 \in 1..Len(line[i])
        BY <1>3, <3>2
      <4>2. k < Len(line'[i])
        BY <1>3, <3>2
      <4> QED BY <1>0, <1>1, <1>3, <3>2, <4>1, <4>2 DEF LineInv
    <3>3. CASE j = i /\ line'[i][k] = n
      BY <1>0, <1>2, <3>3
    <3> QED BY <1>5, <3>1, <3>2, <3>3
  <2>4. \A j \in Index :
           tail'[j] = IF line'[j] = <<>> THEN Null ELSE line'[j][Len(line'[j])]
    BY <1>0, <1>3 DEF LineInv
  <2> QED BY <2>1, <2>2, <2>3, <2>4 DEF LineInv
<1>9. line[i] # <<>> => line'[i][1] = line[i][1]
  BY <1>3
<1>10. HeadInv'
  <2>1. ASSUME NEW j \in Index
        PROVE  /\ head'[j] \in heap' \cup {Null}
               /\ mark'[j] => kind' = "pa" /\ head'[j] # Null
               /\ head'[j] # Null /\ ~mark'[j] => line'[j] # <<>> /\ line'[j][1] = head'[j]
    <3>1. line[j] # <<>> => line'[j] # <<>> /\ line'[j][1] = line[j][1]
      BY <1>3, <1>9
    <3> QED BY <1>0, <3>1 DEF HeadInv
  <2>2. ASSUME NEW j \in Index, NEW g \in Index, j # g
        PROVE  /\ ~InLine(head[j], g)'
               /\ head'[j] # Null => head'[j] # head'[g]
    BY <1>0, <1>2, <1>5, <2>2 DEF HeadInv
  <2> QED BY <2>1, <2>2 DEF HeadInv
<1>11. SwapInv'
  <2>1. \A b \in Enqueuers : t'[b].pc \in SwapPCs =>
           b # c /\ t[b].pc \in SwapPCs /\ t'[b].n = t[b].n /\ t'[b].item = t[b].item /\ t[b].n # n
    BY <1>0, <1>7, Names DEF SwapInv, SwapPCs
  <2> QED BY <1>0, <1>5, <2>1 DEF SwapInv
<1>12. LinkInv'
  <2>1. ASSUME NEW b \in Enqueuers, Linking(b)'
        PROVE  /\ node'[t'[b].next].next = Null
               /\ \E k \in 1..Len(line'[I(b)']) :
                     /\ k < Len(line'[I(b)'])
                     /\ t'[b].next = line'[I(b)'][k] /\ t'[b].n = line'[I(b)'][k + 1]
    <3>1. CASE b = c
      <4>1. line[i] # <<>> /\ t'[c].next = tail[i] /\ t'[c].n = n /\ I(c)' = i
        BY <1>7, <2>1, <3>1
      <4>2. Len(line[i]) \in 1..Len(line[i]) /\ Len(line[i]) \in 1..Len(line'[i]) /\ Len(line[i]) < Len(line'[i])
        BY <1>3, <4>1
      <4>3. tail[i] = line[i][Len(line[i])] /\ line'[i][Len(line[i])] = tail[i]
        BY <1>0, <1>1, <1>3, <4>1, <4>2 DEF LineInv
      <4>4. node[tail[i]].next = Null
        BY <1>0, <1>1, <4>2, <4>3 DEF LineInv
      <4> QED BY <1>0, <1>3, <3>1, <4>1, <4>2, <4>3, <4>4
    <3>2. CASE b # c
      <4>1. Linking(b) /\ t'[b].next = t[b].next /\ t'[b].n = t[b].n /\ I(b)' = I(b)
            /\ I(b) \in Index
        BY <1>1, <1>7, <2>1, <3>2, Names
      <4>2. PICK k \in 1..Len(line[I(b)]) :
               /\ k < Len(line[I(b)])
               /\ t[b].next = line[I(b)][k] /\ t[b].n = line[I(b)][k + 1]
        BY <1>0, <4>1 DEF LinkInv
      <4>3. /\ k \in 1..Len(line'[I(b)]) /\ k < Len(line'[I(b)])
            /\ line'[I(b)][k] = line[I(b)][k] /\ line'[I(b)][k + 1] = line[I(b)][k + 1]
        <5>1. CASE I(b) = i
          <6>1. k + 1 \in 1..Len(line[i]) /\ k \in 1..Len(line[i])
            BY <1>3, <4>2, <5>1
          <6> QED BY <1>3, <4>2, <5>1, <6>1
        <5>2. CASE I(b) # i
          BY <1>3, <4>1, <4>2, <5>2
        <5> QED BY <5>1, <5>2
      <4> QED BY <1>0, <4>1, <4>2, <4>3 DEF LinkInv
    <3> QED BY <3>1, <3>2
  <2>2. ASSUME NEW b \in Enqueuers, NEW d \in Enqueuers, Linking(b)', Linking(d)',
               t'[b].next = t'[d].next
        PROVE  b = d
    <3>1. ASSUME NEW e \in Enqueuers, e # c, Linking(e)'
          PROVE  Linking(e) /\ t'[e].next = t[e].next /\ t[e].next # tail[i]
      <4>1. Linking(e) /\ t'[e].next = t[e].next /\ I(e) \in Index
        BY <1>1, <1>7, <3>1, Names
      <4>2. PICK k \in 1..Len(line[I(e)]) : k < Len(line[I(e)]) /\ t[e].next = line[I(e)][k]
        BY <1>0, <4>1 DEF LinkInv
      <4>3. ASSUME t[e].next = tail[i] PROVE FALSE
        <5>1. line[i] # <<>>
          BY <1>6, <4>1, <4>3 DEF Linking
        <5>2. Len(line[i]) \in 1..Len(line[i]) /\ tail[i] = line[i][Len(line[i])]
          BY <1>0, <1>1, <1>3, <5>1 DEF LineInv
        <5>3. I(e) = i /\ k = Len(line[i])
          <6>1. line[I(e)][k] = line[i][Len(line[i])] /\ I(e) \in Index
            BY <4>1, <4>2, <4>3, <5>2
          <6>2. \A j, g \in Index : \A a \in 1..Len(line[j]), l \in 1..Len(line[g]) :
                   line[j][a] = line[g][l] => j = g /\ a = l
            BY <1>0 DEF LineInv
          <6>3. k \in 1..Len(line[I(e)]) /\ Len(line[i]) \in 1..Len(line[i]) /\ i \in Index
            BY <1>1, <5>2
          <6> QED BY <6>1, <6>2, <6>3
        <5> QED BY <4>2, <5>3
      <4> QED BY <4>1, <4>3
    <3>2. Linking(c)' => t'[c].next = tail[i]
      BY <1>7
    <3> QED BY <1>0, <2>2, <3>1, <3>2 DEF LinkInv
  <2> QED BY <2>1, <2>2 DEF LinkInv
<1>13. StartInv'
  <2>1. ASSUME NEW b \in Enqueuers, Starting(b)'
        PROVE  /\ line'[I(b)'] # <<>> /\ t'[b].n = line'[I(b)'][1] /\ head'[I(b)'] # t'[b].n
               /\ \A d \in Dequeuers : Holds(d)' => I(d)' # I(b)'
               /\ b # c => Starting(b) /\ I(b)' = I(b) /\ line[I(b)] # <<>>
               /\ b = c => I(b)' = i /\ line[i] = <<>>
    <3>1. CASE b = c
      <4>1. line[i] = <<>> /\ I(c)' = i /\ t'[c].n = n
        BY <1>7, <2>1, <3>1
      <4>2. \A d \in Dequeuers : Holds(d)' => I(d)' = I(d) /\ I(d) # i
        BY <1>0, <1>7, <4>1, Names DEF ClaimInv, Holds, ClaimPCs
      <4>3. line'[i][1] = n
        BY <1>3, <4>1
      <4> QED BY <1>0, <1>1, <1>2, <1>3, <3>1, <4>1, <4>2, <4>3
    <3>2. CASE b # c
      <4>1. Starting(b) /\ t'[b].n = t[b].n /\ I(b)' = I(b) /\ I(b) \in Index
        BY <1>1, <1>7, <2>1, <3>2, Names
      <4>2. line[I(b)] # <<>> /\ t[b].n = line[I(b)][1] /\ head[I(b)] # t[b].n
            /\ \A d \in Dequeuers : Holds(d) => I(d) # I(b)
        BY <1>0, <4>1 DEF StartInv
      <4>3. line'[I(b)] # <<>> /\ line'[I(b)][1] = line[I(b)][1]
        BY <1>3, <1>9, <4>1, <4>2
      <4>4. \A d \in Dequeuers : (Holds(d)' <=> Holds(d)) /\ I(d)' = I(d)
        BY <1>0, <1>7, Names
      <4> QED BY <1>0, <3>2, <4>1, <4>2, <4>3, <4>4
    <3> QED BY <3>1, <3>2
  <2>2. ASSUME NEW b \in Enqueuers, NEW d \in Enqueuers, Starting(b)', Starting(d)',
               I(b)' = I(d)'
        PROVE  b = d
    <3>1. CASE b # c /\ d # c
      BY <1>0, <2>1, <2>2, <3>1 DEF StartInv
    <3>2. CASE b = c \/ d = c
      BY <2>1, <2>2, <3>2
    <3> QED BY <3>1, <3>2
  <2> QED BY <2>1, <2>2 DEF StartInv
<1>14. \A b \in Dequeuers : /\ t'[b].pc = t[b].pc /\ t'[b].n = t[b].n /\ I(b)' = I(b)
                            /\ t'[b].next = t[b].next /\ I(b) \in Index
                            /\ Holds(b)' <=> Holds(b)
                            /\ Past(b)' <=> Past(b)
                            /\ t[b].pc \in ClaimPCs => t[b].n # n
  BY <1>0, <1>1, <1>7, Names DEF ClaimInv, SwapPCs
<1>15. ClaimInv'
  <2>1. ASSUME NEW b \in Dequeuers, t'[b].pc \in ClaimPCs
        PROVE  /\ t'[b].n \in heap'
               /\ \A j \in Index : j # I(b)' => head'[j] # t'[b].n /\ ~InLine(t[b].n, j)'
               /\ Holds(b)' => /\ line'[I(b)'] # <<>> /\ line'[I(b)'][1] = t'[b].n
                               /\ head'[I(b)'] = IF kind' = "p" /\ Past(b)' THEN Null ELSE t'[b].n
                               /\ mark'[I(b)'] <=> kind' = "pa"
               /\ ~Holds(b)' => ~InLine(t[b].n, I(b))'
               /\ t'[b].pc = "free" => head'[I(b)'] # t'[b].n
    <3>1. /\ t[b].n \in heap
          /\ \A j \in Index : j # I(b) => head[j] # t[b].n /\ ~InLine(t[b].n, j)
          /\ Holds(b) => /\ line[I(b)] # <<>> /\ line[I(b)][1] = t[b].n
                         /\ head[I(b)] = IF kind = "p" /\ Past(b) THEN Null ELSE t[b].n
                         /\ mark[I(b)] <=> kind = "pa"
          /\ ~Holds(b) => ~InLine(t[b].n, I(b))
          /\ t[b].pc = "free" => head[I(b)] # t[b].n
      BY <1>0, <1>14, <2>1 DEF ClaimInv
    <3>2. line[I(b)] # <<>> => line'[I(b)] # <<>> /\ line'[I(b)][1] = line[I(b)][1]
      BY <1>3, <1>9, <1>14
    <3>3. \A j \in Index : InLine(t[b].n, j)' <=> InLine(t[b].n, j)
      <4>1. t'[b].n = t[b].n /\ t[b].n # n
        BY <1>14, <2>1
      <4> QED BY <1>3, <1>5, <4>1 DEF InLine
    <3> QED BY <1>0, <1>14, <2>1, <3>1, <3>2, <3>3
  <2>2. \A b \in Enqueuers : t'[b].pc \in SwapPCs =>
           t[b].pc \in SwapPCs /\ t'[b].n = t[b].n
    BY <1>7, Names
  <2> QED BY <1>0, <1>14, <2>1, <2>2 DEF ClaimInv
<1>16. ReadInv'
  BY <1>0, <1>14 DEF ReadInv
<1>17. ItemsInv'
  <2>1. \A j : Passed(j)' <=> Passed(j)
    BY <1>14 DEF Passed
  <2>2. ASSUME NEW j \in Index
        PROVE  /\ Offset(j)' = Offset(j) /\ Offset(j) \in Nat
               /\ \A k \in 1..Len(line'[j]) :
                     node'[line'[j][k]].item = put'[j][Offset(j) + k]
    <3>1. /\ Offset(j) \in Nat
          /\ \A k \in 1..Len(line[j]) : node[line[j][k]].item = put[j][Offset(j) + k]
      BY <1>0 DEF ItemsInv
    <3>2. CASE j # i
      BY <1>0, <1>3, <3>1, <3>2 DEF Offset
    <3>3. CASE j = i
      <4>1. Offset(i)' = Offset(i) /\ Offset(i) = Len(put[i]) - Len(line[i])
        <5>1. Offset(i)' = Len(put'[i]) - Len(line'[i]) /\ Offset(i) = Len(put[i]) - Len(line[i])
          BY DEF Offset
        <5>2. Len(put'[i]) = Len(put[i]) + 1 /\ Len(line'[i]) = Len(line[i]) + 1
              /\ Len(put[i]) \in Nat /\ Len(line[i]) \in Nat
          BY <1>3, <1>4
        <5>3. \A a, b \in Nat : (a + 1) - (b + 1) = a - b
          OBVIOUS
        <5> QED BY <5>1, <5>2, <5>3
      <4>2. ASSUME NEW k \in 1..Len(line'[i])
            PROVE  node'[line'[i][k]].item = put'[i][Offset(i) + k]
        <5>1. CASE k \in 1..Len(line[i])
          <6>1. Offset(i) + k \in 1..Len(put[i])
            <7>1. \A a, b \in Nat : \A x \in 1..b : a - b \in Nat => (a - b) + x \in 1..a
              OBVIOUS
            <7> QED BY <1>3, <1>4, <3>1, <3>3, <4>1, <5>1, <7>1
          <6>2. node[line[i][k]].item = put[i][Offset(i) + k]
            BY <3>1, <3>3, <5>1
          <6> QED BY <1>0, <1>3, <1>4, <5>1, <6>1, <6>2
        <5>2. CASE k = Len(line[i]) + 1 /\ line'[i][k] = n
          <6>1. Offset(i) + k = Len(put[i]) + 1
            <7>1. \A a, b \in Nat : (a - b) + (b + 1) = a + 1
              OBVIOUS
            <7>2. Len(put[i]) \in Nat /\ Len(line[i]) \in Nat
              BY <1>3, <1>4
            <7>3. Offset(i) = Len(put[i]) - Len(line[i]) /\ k = Len(line[i]) + 1
              BY <4>1, <5>2
            <7> QED BY <7>1, <7>2, <7>3
          <6> QED BY <1>0, <1>2, <1>4, <5>2, <6>1
        <5> QED BY <1>5, <5>1, <5>2
      <4> QED BY <3>1, <3>3, <4>1, <4>2
    <3> QED BY <3>2, <3>3
  <2> QED BY <1>0, <2>1, <2>2 DEF ItemsInv
<1> QED BY <1>8, <1>10, <1>11, <1>12, <1>13, <1>15, <1>16, <1>17 DEF NodeInv

(* Putting more into a list does not change what was taken from it.        *)
LEMMA PutMore ==
    ASSUME TypeOK, TookInv, NEW i \in Index, NEW x \in Nat,
           put' = [put EXCEPT ![i] = Append(@, x)], took' = took
    PROVE  TookInv' /\ put' \in [Index -> Seq(Nat)]
<1>1. /\ put \in [Index -> Seq(Nat)] /\ took \in [Index -> Seq(Nat)]
  BY DEF TypeOK, DataOK
<1>2. ASSUME NEW j \in Index
      PROVE  /\ put'[j] \in Seq(Nat) /\ Len(took[j]) <= Len(put'[j])
             /\ \A k \in 1..Len(took[j]) : took[j][k] = put'[j][k]
  <2>1. /\ Len(took[j]) <= Len(put[j]) /\ Len(took[j]) \in Nat /\ Len(put[j]) \in Nat
        /\ \A k \in 1..Len(took[j]) : took[j][k] = put[j][k]
    BY <1>1 DEF TookInv
  <2>2. CASE j # i
    BY <1>1, <2>1, <2>2
  <2>3. CASE j = i
    <3>1. put'[i] = Append(put[i], x) /\ put[i] \in Seq(Nat)
      BY <1>1
    <3>2. /\ put'[i] \in Seq(Nat) /\ Len(put'[i]) = Len(put[i]) + 1
          /\ \A k \in 1..Len(put[i]) : put'[i][k] = put[i][k]
      BY <3>1, Joined
    <3>3. \A k \in 1..Len(took[i]) : k \in 1..Len(put[i])
      BY <2>1, <2>3
    <3> QED BY <2>1, <2>3, <3>2, <3>3
  <2> QED BY <2>2, <2>3
<1> QED BY <1>1, <1>2 DEF TookInv

(* An enqueue exchanges the tail.                                          *)
LEMMA SwapKeeps ==
    ASSUME ArrayInv, NEW c \in Enqueuers,
           \/ kind = "p" /\ SwapTail(c, "e_exit")
           \/ kind = "pa" /\ SwapTail(c, "link")
    PROVE  ArrayInv'
<1> DEFINE i == I(c)
           n == t[c].n
<1>1. PICK l \in {"e_exit", "link"} :
         /\ SwapTail(c, l)
         /\ \/ kind = "p" /\ l = "e_exit"
            \/ kind = "pa" /\ l = "link"
  <2>1. CASE kind = "p" /\ SwapTail(c, "e_exit")
    BY <2>1
  <2>2. CASE kind = "pa" /\ SwapTail(c, "link")
    BY <2>2
  <2> QED BY <2>1, <2>2
<1>2. /\ TypeOK /\ DataOK /\ NodeInv /\ ItemsInv /\ TicketInv /\ TookInv
      /\ c \in Threads /\ c \notin Dequeuers /\ kind \in {"p", "pa"}
  BY <1>1, Names DEF ArrayInv, TypeOK
<1>3. /\ t[c] \in Locals /\ t[c].item \in Nat /\ i \in Index /\ t[c].pc = "swap" /\ ~wild
      /\ tail[i] \in Address
  <2>1. t[c] \in Locals /\ i \in Index
    BY <1>2, LocalsOf DEF I, TypeOK, ThreadOK
  <2> QED BY <1>1, <1>2, <2>1 DEF SwapTail, At, Locals, DataOK
<1>4. n \in heap /\ n \in Nodes
  BY <1>2, <1>3 DEF NodeInv, SwapInv, SwapPCs, DataOK
<1> DEFINE r == [t[c] EXCEPT !.next = tail[i], !.pc = l]
<1>5. l \in Labels /\ l \in LinkPCs /\ l \in EnqueuePCs(kind) /\ l \notin TicketPCs
      /\ l \notin TurnPCs
  BY <1>1 DEF Labels, EnqueuePCs, LinkPCs, TicketPCs, TurnPCs
<1>6. r \in Locals
  BY <1>3, <1>5 DEF Locals
<1>7. r.pc = l /\ r.next = tail[i] /\ r.n = n /\ r.idx = i
  BY <1>3 DEF Locals, I
<1>8. Set(c, r)
  BY <1>1 DEF SwapTail
<1>9. /\ tail' = [tail EXCEPT ![i] = n]
      /\ line' = [line EXCEPT ![i] = Append(@, n)]
      /\ put' = [put EXCEPT ![i] = Append(@, t[c].item)]
      /\ UNCHANGED <<kind, head, mark, node, heap, took>> /\ uaf' = uaf /\ wild' = wild
      /\ UNCHANGED <<slots, cnts, made, given>>
  BY <1>1 DEF SwapTail
<1> HIDE DEF r, i, n
<1>10. Moved(c, r) /\ ThreadOK'
  BY <1>2, <1>3, <1>5, <1>6, <1>7, <1>8, <1>9, ThreadMoves
<1>11. NodeInv' /\ ItemsInv'
  BY <1>2, <1>3, <1>5, <1>7, <1>9, <1>10, NodeJoins DEF i, n
<1>12. TicketInv'
  BY <1>2, <1>5, <1>7, <1>9, <1>10, TicketKept DEF cnts
<1>13. TookInv' /\ put' \in [Index -> Seq(Nat)]
  BY <1>2, <1>3, <1>9, PutMore
<1>14. SharedInv'
  BY <1>2, <1>9 DEF SharedInv
<1>15. DataOK'
  <2>1. tail' \in [Index -> Address]
    BY <1>2, <1>3, <1>4, <1>9 DEF DataOK, Address
  <2>2. line' \in [Index -> Seq(Nodes)]
    <3>1. line \in [Index -> Seq(Nodes)]
      BY <1>2 DEF DataOK
    <3>2. line[i] \in Seq(Nodes)
      BY <1>3, <3>1
    <3>3. Append(line[i], n) \in Seq(Nodes)
      BY <1>4, <3>2, Joined
    <3> QED BY <1>9, <3>1, <3>3
  <2> QED BY <1>2, <1>9, <1>13, <2>1, <2>2 DEF DataOK, slots, cnts
<1> QED BY <1>9, <1>10, <1>11, <1>12, <1>13, <1>14, <1>15, StepOf

(* An enqueue that is over leaves the others where they are.               *)
LEMMA EnqueueOver ==
    ASSUME NEW c \in Enqueuers, NEW r, Moved(c, r), r.pc = "idle"
    PROVE  /\ \A b \in Dequeuers :
                 /\ t'[b].pc = t[b].pc /\ t'[b].n = t[b].n /\ t'[b].next = t[b].next
                 /\ I(b)' = I(b)
                 /\ Holds(b)' <=> Holds(b)
                 /\ Past(b)' <=> Past(b)
           /\ \A b \in Enqueuers :
                 /\ t'[b].pc \in SwapPCs =>
                       b # c /\ t[b].pc \in SwapPCs /\ t'[b].n = t[b].n /\ t'[b].item = t[b].item
                 /\ Linking(b)' =>
                       b # c /\ Linking(b) /\ t'[b].n = t[b].n /\ t'[b].next = t[b].next
                       /\ I(b)' = I(b)
                 /\ Starting(b)' => b # c /\ Starting(b) /\ t'[b].n = t[b].n /\ I(b)' = I(b)
           /\ \A i : Passed(i)' <=> Passed(i)
<1>1. /\ c \in Threads /\ c \notin Dequeuers
      /\ \A b \in Dequeuers : b \in Threads /\ b # c
      /\ \A b \in Enqueuers : b \in Threads
  BY Names
<1>2. t'[c].pc = "idle"
  BY DEF Moved, Alike
<1>3. t'[c].pc \notin SwapPCs /\ ~Linking(c)' /\ ~Starting(c)'
  BY <1>2 DEF SwapPCs, LinkPCs, Linking, Starting
<1>4. \A b \in Threads : b # c =>
         /\ t'[b].pc = t[b].pc /\ t'[b].n = t[b].n /\ t'[b].next = t[b].next
         /\ t'[b].item = t[b].item /\ I(b)' = I(b)
         /\ Holds(b)' <=> Holds(b)
         /\ Past(b)' <=> Past(b)
         /\ Linking(b)' <=> Linking(b)
         /\ Starting(b)' <=> Starting(b)
  BY Others
<1>5. \A b \in Dequeuers : (Past(b)' <=> Past(b)) /\ I(b)' = I(b)
  BY <1>1, <1>4
<1>6. \A i : Passed(i)' <=> Passed(i)
  BY <1>5 DEF Passed
<1> QED BY <1>1, <1>3, <1>4, <1>6

(* The owed link is stored: the line's order is now readable there.        *)
LEMMA NodeLinked ==
    ASSUME TypeOK, NodeInv, ItemsInv, NEW c \in Enqueuers, t[c].pc = "link",
           NEW n, n = t[c].n, NEW m, m = t[c].next, m # Null,
           node' = [node EXCEPT ![m].next = n],
           UNCHANGED <<kind, head, mark, tail, heap, line, put, took>>,
           NEW r, Moved(c, r), r.pc = "idle"
    PROVE  NodeInv' /\ ItemsInv' /\ m \in heap /\ node' \in [Nodes -> Cells]
<1>0. /\ LineInv /\ HeadInv /\ SwapInv /\ LinkInv /\ StartInv /\ ClaimInv /\ ReadInv
      /\ kind' = kind /\ head' = head /\ mark' = mark /\ tail' = tail /\ heap' = heap
      /\ line' = line /\ put' = put /\ took' = took
      /\ node \in [Nodes -> Cells] /\ heap \subseteq Nodes
      /\ \A j \in Index : line[j] \in Seq(Nodes)
  BY DEF NodeInv, TypeOK, DataOK
<1> DEFINE i == I(c)
<1>1. i \in Index /\ Linking(c) /\ n \in Address
  <2>1. kind \in {"p", "pa"} /\ c \in Threads
    BY PKind, Names
  <2>2. t[c].n \in Address /\ Linking(c)
    BY <2>1 DEF TypeOK, ThreadOK, Locals, Linking, LinkPCs
  <2> QED BY <2>1, <2>2 DEF TypeOK, ThreadOK, I
<1>2. /\ node[m].next = Null
      /\ \E k \in 1..Len(line[i]) :
            k < Len(line[i]) /\ m = line[i][k] /\ n = line[i][k + 1]
  BY <1>0, <1>1 DEF LinkInv
<1>3. PICK k \in 1..Len(line[i]) :
         k < Len(line[i]) /\ m = line[i][k] /\ n = line[i][k + 1]
  BY <1>2
<1> HIDE DEF i
<1>4. m \in heap /\ m \in Nodes /\ InLine(m, i)
  BY <1>0, <1>1, <1>3 DEF LineInv, InLine
<1>5. /\ \A x \in Nodes : x # m => node'[x] = node[x]
      /\ node'[m].next = n
      /\ \A x \in Nodes : node'[x].item = node[x].item
      /\ node' \in [Nodes -> Cells]
  BY <1>0, <1>1, <1>4 DEF Cells
<1>6. \A x, j : InLine(x, j)' <=> InLine(x, j)
  BY <1>0 DEF InLine
<1>7. \A j \in Index : \A l \in 1..Len(line[j]) :
         line[j][l] \in Nodes /\ (line[j][l] = m => j = i /\ l = k)
  BY <1>0, <1>1, <1>3 DEF LineInv
<1>8. LineInv'
  <2>1. ASSUME NEW j \in Index, NEW l \in 1..Len(line[j])
        PROVE  \/ node'[line[j][l]].next = Null
               \/ l < Len(line[j]) /\ node'[line[j][l]].next = line[j][l + 1]
    <3>1. CASE line[j][l] = m
      BY <1>3, <1>5, <1>7, <3>1
    <3>2. CASE line[j][l] # m
      <4>1. node'[line[j][l]] = node[line[j][l]]
        BY <1>5, <1>7, <3>2
      <4>2. \/ node[line[j][l]].next = Null
            \/ l < Len(line[j]) /\ node[line[j][l]].next = line[j][l + 1]
        BY <1>0 DEF LineInv
      <4> QED BY <4>1, <4>2
    <3> QED BY <3>1, <3>2
  <2> QED BY <1>0, <2>1 DEF LineInv
<1>9. HeadInv'
  BY <1>0, <1>6 DEF HeadInv
<1>10. SwapInv'
  <2>1. \A b \in Enqueuers : t[b].pc \in SwapPCs => t[b].n \in Nodes /\ t[b].n # m
    BY <1>0, <1>1, <1>4 DEF SwapInv
  <2>2. \A b \in Enqueuers : t'[b].pc \in SwapPCs =>
           /\ t[b].pc \in SwapPCs /\ t'[b].n = t[b].n /\ t'[b].item = t[b].item
           /\ node'[t[b].n] = node[t[b].n]
    BY <1>5, <2>1, EnqueueOver
  <2> QED BY <1>0, <1>6, <2>2 DEF SwapInv
<1>11. LinkInv'
  <2>1. \A b \in Enqueuers : Linking(b)' =>
           /\ Linking(b) /\ t'[b].n = t[b].n /\ t'[b].next = t[b].next /\ I(b)' = I(b)
           /\ b # c
    BY EnqueueOver
  <2>2. \A b \in Enqueuers : Linking(b)' => t[b].next # m /\ t[b].next \in Nodes
    <3>1. ASSUME NEW b \in Enqueuers, Linking(b)' PROVE t[b].next # m /\ t[b].next \in Nodes
      <4>1. Linking(b) /\ b # c
        BY <2>1, <3>1
      <4>2. t[b].next # m
        BY <1>0, <1>1, <4>1 DEF LinkInv
      <4>3. t[b].next \in Address /\ t[b].next # Null
        BY <4>1, Names DEF TypeOK, ThreadOK, Locals, Linking
      <4> QED BY <4>2, <4>3 DEF Address
    <3> QED BY <3>1
  <2>3. \A b \in Enqueuers : Linking(b)' => node'[t[b].next] = node[t[b].next]
    BY <1>5, <2>2
  <2>4. ASSUME NEW b \in Enqueuers, Linking(b)'
        PROVE  /\ node'[t'[b].next].next = Null
               /\ \E l \in 1..Len(line'[I(b)']) :
                     /\ l < Len(line'[I(b)'])
                     /\ t'[b].next = line'[I(b)'][l] /\ t'[b].n = line'[I(b)'][l + 1]
    <3>1. /\ node[t[b].next].next = Null
          /\ \E l \in 1..Len(line[I(b)]) :
                /\ l < Len(line[I(b)])
                /\ t[b].next = line[I(b)][l] /\ t[b].n = line[I(b)][l + 1]
      BY <1>0, <2>1, <2>4 DEF LinkInv
    <3>2. node'[t[b].next] = node[t[b].next]
      BY <2>3, <2>4
    <3> QED BY <1>0, <2>1, <2>4, <3>1, <3>2
  <2>5. \A b, d \in Enqueuers :
           Linking(b)' /\ Linking(d)' /\ t'[b].next = t'[d].next => b = d
    BY <1>0, <2>1 DEF LinkInv
  <2> QED BY <2>4, <2>5 DEF LinkInv
<1>12. StartInv'
  <2>1. \A b \in Enqueuers : Starting(b)' => Starting(b) /\ t'[b].n = t[b].n /\ I(b)' = I(b)
    BY EnqueueOver
  <2>2. \A d \in Dequeuers : (Holds(d)' <=> Holds(d)) /\ I(d)' = I(d)
    BY EnqueueOver
  <2> QED BY <1>0, <2>1, <2>2 DEF StartInv
<1>13. \A d \in Dequeuers : /\ t'[d].pc = t[d].pc /\ t'[d].n = t[d].n /\ t'[d].next = t[d].next
                            /\ I(d)' = I(d)
                            /\ Holds(d)' <=> Holds(d)
                            /\ Past(d)' <=> Past(d)
  BY EnqueueOver
<1>14. ClaimInv'
  <2>1. \A b \in Enqueuers : t'[b].pc \in SwapPCs => t[b].pc \in SwapPCs /\ t'[b].n = t[b].n
    BY EnqueueOver
  <2> QED BY <1>0, <1>6, <1>13, <2>1 DEF ClaimInv
<1>15. ReadInv'
  <2>1. ASSUME NEW d \in Dequeuers, t[d].pc \in {"d_set", "check", "d_reset", "move"}
        PROVE  t[d].next = Null \/ t[d].next = node'[t[d].n].next
    <3>1. t[d].n \in Nodes
      BY <1>0, <2>1 DEF ClaimInv, ClaimPCs
    <3>2. t[d].next = Null \/ t[d].next = node[t[d].n].next
      BY <1>0, <2>1 DEF ReadInv
    <3> QED BY <1>2, <1>5, <3>1, <3>2
  <2> QED BY <1>0, <1>13, <2>1 DEF ReadInv
<1>16. ItemsInv'
  <2>1. \A j : Passed(j)' <=> Passed(j)
    BY EnqueueOver
  <2>2. \A j \in Index : /\ Offset(j)' = Offset(j)
                         /\ \A l \in 1..Len(line[j]) : node'[line[j][l]].item = node[line[j][l]].item
    BY <1>0, <1>5, <1>7 DEF Offset
  <2> QED BY <1>0, <2>1, <2>2 DEF ItemsInv
<1> QED BY <1>4, <1>5, <1>8, <1>9, <1>10, <1>11, <1>12, <1>14, <1>15, <1>16 DEF NodeInv

(* The first of a line becomes its head.                                   *)
LEMMA HeadStored ==
    ASSUME TypeOK, NodeInv, ItemsInv, NEW c \in Enqueuers, t[c].pc = "link",
           NEW n, n = t[c].n, NEW i, i = I(c), t[c].next = Null,
           head' = [head EXCEPT ![i] = n], mark' = [mark EXCEPT ![i] = FALSE],
           UNCHANGED <<kind, node, tail, heap, line, put, took>>,
           NEW r, Moved(c, r), r.pc = "idle"
    PROVE  NodeInv' /\ ItemsInv' /\ head' \in [Index -> Address] /\ mark' \in [Index -> BOOLEAN]
<1>0. /\ LineInv /\ HeadInv /\ SwapInv /\ LinkInv /\ StartInv /\ ClaimInv /\ ReadInv
      /\ kind' = kind /\ node' = node /\ tail' = tail /\ heap' = heap
      /\ line' = line /\ put' = put /\ took' = took
      /\ head \in [Index -> Address] /\ mark \in [Index -> BOOLEAN]
      /\ \A j \in Index : line[j] \in Seq(Nodes)
      /\ \A d \in Dequeuers : I(d) \in Index
  BY DEF NodeInv, TypeOK, DataOK, ThreadOK, I
<1>1. i \in Index /\ Starting(c)
  <2>1. kind \in {"p", "pa"} /\ c \in Threads
    BY PKind, Names
  <2> QED BY <2>1 DEF TypeOK, ThreadOK, I, Starting, LinkPCs
<1>2. /\ line[i] # <<>> /\ n = line[i][1] /\ head[i] # n
      /\ \A d \in Dequeuers : Holds(d) => I(d) # i
      /\ \A b \in Enqueuers : b # c /\ Starting(b) => I(b) # i
  BY <1>0, <1>1 DEF StartInv
<1>3. 1 \in 1..Len(line[i]) /\ InLine(n, i) /\ n \in heap /\ n # Null
      /\ \A j \in Index : j # i => ~InLine(n, j)
  <2>1. 1 \in 1..Len(line[i])
    BY <1>0, <1>1, <1>2
  <2>2. \A j \in Index : \A k \in 1..Len(line[j]) : line[j][k] = line[i][1] => j = i
    BY <1>0, <1>1, <2>1 DEF LineInv
  <2> QED BY <1>0, <1>1, <1>2, <2>1, <2>2, Names DEF InLine, LineInv, TypeOK, DataOK
<1>4. \A x, j : InLine(x, j)' <=> InLine(x, j)
  BY <1>0 DEF InLine
<1>5. /\ head'[i] = n /\ ~mark'[i]
      /\ \A j \in Index : j # i => head'[j] = head[j] /\ mark'[j] = mark[j]
  BY <1>0, <1>1
<1>6. LineInv'
  BY <1>0 DEF LineInv
<1>7. HeadInv'
  <2>1. \A j \in Index : j # i => head[j] # n
    BY <1>0, <1>1, <1>3 DEF HeadInv
  <2>2. ASSUME NEW j \in Index
        PROVE  /\ head'[j] \in heap' \cup {Null}
               /\ mark'[j] => kind' = "pa" /\ head'[j] # Null
               /\ head'[j] # Null /\ ~mark'[j] => line'[j] # <<>> /\ line'[j][1] = head'[j]
    BY <1>0, <1>2, <1>3, <1>5 DEF HeadInv
  <2>3. ASSUME NEW j \in Index, NEW g \in Index, j # g
        PROVE  /\ ~InLine(head'[j], g)
               /\ head'[j] # Null => head'[j] # head'[g]
    BY <1>0, <1>3, <1>5, <2>1, <2>3 DEF HeadInv
  <2>4. \A j, g \in Index : InLine(head[j], g)' <=> InLine(head'[j], g)
    BY <1>0 DEF InLine
  <2> QED BY <2>2, <2>3, <2>4 DEF HeadInv
<1>8. SwapInv'
  <2>1. \A b \in Enqueuers : t'[b].pc \in SwapPCs =>
           /\ t[b].pc \in SwapPCs /\ t'[b].n = t[b].n /\ t'[b].item = t[b].item
    BY EnqueueOver
  <2>2. \A b \in Enqueuers : t[b].pc \in SwapPCs => t[b].n # n
    BY <1>0, <1>1, <1>3 DEF SwapInv
  <2>3. \A b \in Enqueuers, j \in Index : t[b].pc \in SwapPCs => t[b].n # head'[j]
    BY <1>0, <1>5, <2>2 DEF SwapInv
  <2> QED BY <1>0, <1>4, <2>1, <2>3 DEF SwapInv
<1>9. LinkInv'
  <2>1. \A b \in Enqueuers : Linking(b)' =>
           Linking(b) /\ t'[b].n = t[b].n /\ t'[b].next = t[b].next /\ I(b)' = I(b)
    BY EnqueueOver
  <2> QED BY <1>0, <2>1 DEF LinkInv
<1>10. \A d \in Dequeuers : /\ t'[d].pc = t[d].pc /\ t'[d].n = t[d].n /\ t'[d].next = t[d].next
                            /\ I(d)' = I(d)
                            /\ Holds(d)' <=> Holds(d)
                            /\ Past(d)' <=> Past(d)
  BY EnqueueOver
<1>11. StartInv'
  <2>1. \A b \in Enqueuers : Starting(b)' =>
           /\ Starting(b) /\ t'[b].n = t[b].n /\ I(b)' = I(b) /\ I(b) # i /\ I(b) \in Index
    <3>1. ASSUME NEW b \in Enqueuers, Starting(b)'
          PROVE  Starting(b) /\ t'[b].n = t[b].n /\ I(b)' = I(b) /\ I(b) # i /\ I(b) \in Index
      <4>1. Starting(b) /\ t'[b].n = t[b].n /\ I(b)' = I(b) /\ b # c
        BY <3>1, EnqueueOver
      <4>2. kind \in {"p", "pa"}
        BY PKind, Names
      <4> QED BY <1>2, <4>1, <4>2 DEF TypeOK, ThreadOK, I
    <3> QED BY <3>1
  <2> QED BY <1>0, <1>5, <1>10, <2>1 DEF StartInv
<1>12. ClaimInv'
  <2>1. ASSUME NEW d \in Dequeuers, t[d].pc \in ClaimPCs
        PROVE  /\ \A j \in Index : j # I(d) => head'[j] # t[d].n
               /\ Holds(d) => head'[I(d)] = head[I(d)] /\ mark'[I(d)] = mark[I(d)]
               /\ t[d].pc = "free" => head'[I(d)] # t[d].n
    <3>1. /\ \A j \in Index : j # I(d) => head[j] # t[d].n /\ ~InLine(t[d].n, j)
          /\ ~Holds(d) => ~InLine(t[d].n, I(d))
          /\ t[d].pc = "free" => head[I(d)] # t[d].n
      BY <1>0, <2>1 DEF ClaimInv
    <3>2. t[d].pc = "free" => ~Holds(d)
      BY DEF Holds
    <3> QED BY <1>0, <1>2, <1>3, <1>5, <2>1, <3>1, <3>2
  <2>2. \A b \in Enqueuers : t'[b].pc \in SwapPCs => t[b].pc \in SwapPCs /\ t'[b].n = t[b].n
    BY EnqueueOver
  <2>3. ASSUME NEW d \in Dequeuers, t'[d].pc \in ClaimPCs
        PROVE  /\ t'[d].n \in heap'
               /\ \A j \in Index : j # I(d)' => head'[j] # t'[d].n /\ ~InLine(t[d].n, j)'
               /\ Holds(d)' => /\ line'[I(d)'] # <<>> /\ line'[I(d)'][1] = t'[d].n
                               /\ head'[I(d)'] = IF kind' = "p" /\ Past(d)' THEN Null ELSE t'[d].n
                               /\ mark'[I(d)'] <=> kind' = "pa"
               /\ ~Holds(d)' => ~InLine(t[d].n, I(d))'
               /\ t'[d].pc = "free" => head'[I(d)'] # t'[d].n
    <3>1. /\ t[d].pc \in ClaimPCs /\ t'[d].pc = t[d].pc /\ t'[d].n = t[d].n /\ I(d)' = I(d)
          /\ Holds(d)' <=> Holds(d)
          /\ Past(d)' <=> Past(d)
      BY <1>10, <2>3
    <3>2. /\ t[d].n \in heap
          /\ \A j \in Index : j # I(d) => ~InLine(t[d].n, j)
          /\ Holds(d) => /\ line[I(d)] # <<>> /\ line[I(d)][1] = t[d].n
                         /\ head[I(d)] = IF kind = "p" /\ Past(d) THEN Null ELSE t[d].n
                         /\ mark[I(d)] <=> kind = "pa"
          /\ ~Holds(d) => ~InLine(t[d].n, I(d))
      BY <1>0, <3>1 DEF ClaimInv
    <3>3. \A j \in Index : InLine(t[d].n, j)' <=> InLine(t[d].n, j)
      BY <1>0, <3>1 DEF InLine
    <3>4. /\ \A j \in Index : j # I(d) => head'[j] # t[d].n
          /\ Holds(d) => head'[I(d)] = head[I(d)] /\ mark'[I(d)] = mark[I(d)]
          /\ t[d].pc = "free" => head'[I(d)] # t[d].n
      BY <2>1, <3>1
    <3>5. \A j \in Index : j # I(d)' => head'[j] # t'[d].n /\ ~InLine(t[d].n, j)'
      BY <3>1, <3>2, <3>3, <3>4
    <3>6. ~Holds(d)' => ~InLine(t[d].n, I(d))'
      BY <1>0, <3>1, <3>2, <3>3
    <3> QED BY <1>0, <3>1, <3>2, <3>4, <3>5, <3>6
  <2> QED BY <1>0, <1>10, <2>2, <2>3 DEF ClaimInv
<1>13. ReadInv'
  BY <1>0, <1>10 DEF ReadInv
<1>14. ItemsInv'
  <2>1. \A j : Passed(j)' <=> Passed(j)
    BY EnqueueOver
  <2> QED BY <1>0, <2>1 DEF ItemsInv, Offset
<1>15. head' \in [Index -> Address] /\ mark' \in [Index -> BOOLEAN]
  <2>1. n \in Address
    BY <1>3 DEF Address, TypeOK, DataOK
  <2> QED BY <1>0, <2>1
<1> QED BY <1>6, <1>7, <1>8, <1>9, <1>11, <1>12, <1>13, <1>14, <1>15 DEF NodeInv

(* An enqueue stores the link it owes, or the head.                        *)
LEMMA LinkKeeps ==
    ASSUME ArrayInv, NEW c \in Enqueuers, LinkNode(c)
    PROVE  ArrayInv'
<1>0. /\ TypeOK /\ DataOK /\ NodeInv /\ ItemsInv /\ TicketInv /\ SharedInv /\ TookInv
      /\ c \in Threads /\ c \notin Dequeuers /\ uaf \in BOOLEAN
  BY Names DEF ArrayInv, TypeOK, DataOK
<1>1. t[c].pc = "link" /\ ~wild /\ Set(c, Idle)
      /\ UNCHANGED <<kind, tail, heap, line, slots, cnts, made, put, took, given, wild>>
  BY DEF LinkNode, At
<1>2. Idle \in Locals /\ Idle.pc = "idle" /\ Idle.idx = 0 /\ 0 \in Index
      /\ "idle" \in EnqueuePCs(kind) /\ "idle" \notin TicketPCs /\ "idle" \notin TurnPCs
  BY <1>0, LocalsOf, Size DEF EnqueuePCs, TicketPCs, TurnPCs
<1>3. Moved(c, Idle) /\ ThreadOK'
  BY <1>0, <1>1, <1>2, ThreadMoves
<1>4. TicketInv'
  BY <1>0, <1>1, <1>2, <1>3, TicketKept DEF cnts
<1>5. SharedInv' /\ TookInv'
  BY <1>0, <1>1 DEF SharedInv, TookInv, slots
<1>6. CASE t[c].next # Null
  <2>1. /\ node' = [node EXCEPT ![t[c].next].next = t[c].n]
        /\ uaf' = (uaf \/ t[c].next \notin heap)
        /\ head' = head /\ mark' = mark
    BY <1>6 DEF LinkNode, Touch
  <2>2. NodeInv' /\ ItemsInv' /\ t[c].next \in heap /\ node' \in [Nodes -> Cells]
    BY <1>0, <1>1, <1>2, <1>3, <1>6, <2>1, NodeLinked
  <2>3. uaf' = uaf
    <3>1. (uaf \/ t[c].next \notin heap) = uaf
      BY <1>0, <2>2
    <3> QED BY <2>1, <3>1
  <2>4. DataOK'
    BY <1>0, <1>1, <2>1, <2>2, <2>3 DEF DataOK, slots, cnts
  <2> QED BY <1>3, <1>4, <1>5, <2>2, <2>3, <2>4, StepOf
<1>7. CASE t[c].next = Null
  <2>1. /\ head' = [head EXCEPT ![I(c)] = t[c].n]
        /\ mark' = [mark EXCEPT ![I(c)] = FALSE]
        /\ node' = node /\ uaf' = uaf
    BY <1>7 DEF LinkNode
  <2>2. NodeInv' /\ ItemsInv' /\ head' \in [Index -> Address] /\ mark' \in [Index -> BOOLEAN]
    BY <1>0, <1>1, <1>2, <1>3, <1>7, <2>1, HeadStored
  <2>3. DataOK'
    BY <1>0, <1>1, <2>1, <2>2 DEF DataOK, slots, cnts
  <2> QED BY <1>3, <1>4, <1>5, <2>1, <2>2, <2>3, StepOf
<1> QED BY <1>6, <1>7

(* A step of a dequeuer leaves the enqueuers where they are.               *)
LEMMA DequeuerMoves ==
    ASSUME NEW c \in Dequeuers, NEW r, Moved(c, r)
    PROVE  /\ \A b \in Enqueuers :
                 /\ t'[b].pc = t[b].pc /\ t'[b].n = t[b].n /\ t'[b].next = t[b].next
                 /\ t'[b].item = t[b].item /\ I(b)' = I(b)
                 /\ Linking(b)' <=> Linking(b)
                 /\ Starting(b)' <=> Starting(b)
           /\ \A d \in Dequeuers : d # c =>
                 /\ t'[d].pc = t[d].pc /\ t'[d].n = t[d].n /\ t'[d].next = t[d].next
                 /\ I(d)' = I(d)
                 /\ Holds(d)' <=> Holds(d)
                 /\ Past(d)' <=> Past(d)
           /\ t'[c].pc = r.pc /\ t'[c].n = r.n /\ t'[c].next = r.next /\ I(c)' = r.idx
<1>1. /\ c \in Threads /\ c \notin Enqueuers
      /\ \A b \in Dequeuers : b \in Threads
      /\ \A b \in Enqueuers : b \in Threads /\ b # c
  BY Names
<1>2. t'[c].pc = r.pc /\ t'[c].n = r.n /\ t'[c].next = r.next /\ I(c)' = r.idx
  BY DEF Moved, Alike, I
<1> QED BY <1>1, <1>2, Others

(* No two hold the first node of a list.                                   *)
LEMMA SoleHolder ==
    ASSUME NodeInv, NEW c \in Dequeuers, NEW d \in Dequeuers, Holds(c), Holds(d), I(c) = I(d)
    PROVE  c = d
<1>1. t[c].pc \in ClaimPCs /\ t[d].pc \in ClaimPCs
  BY DEF Holds, ClaimPCs
<1> QED BY <1>1 DEF NodeInv, ClaimInv

(* The item of a line's first node is the next one to be taken.            *)
LEMMA TookMore ==
    ASSUME TypeOK, ItemsInv, TookInv, kind \in {"p", "pa"}, NEW i \in Index,
           line[i] # <<>>, ~Passed(i),
           took' = [took EXCEPT ![i] = Append(@, node[line[i][1]].item)], put' = put
    PROVE  /\ TookInv' /\ took' \in [Index -> Seq(Nat)]
           /\ Len(took'[i]) = Offset(i) + 1
           /\ \A j \in Index : j # i => took'[j] = took[j]
<1>1. /\ put \in [Index -> Seq(Nat)] /\ took \in [Index -> Seq(Nat)]
      /\ took[i] \in Seq(Nat) /\ put[i] \in Seq(Nat)
      /\ Len(took[i]) \in Nat /\ Len(put[i]) \in Nat /\ Len(line[i]) \in Nat /\ Len(line[i]) > 0
      /\ 1 \in 1..Len(line[i]) /\ line[i][1] \in Nodes /\ node \in [Nodes -> Cells]
  BY LineLength DEF TypeOK, DataOK
<1> DEFINE x == node[line[i][1]].item
<1>2. x \in Nat
  BY <1>1 DEF Cells
<1>3. /\ Offset(i) \in Nat /\ Len(took[i]) = Offset(i) /\ x = put[i][Offset(i) + 1]
      /\ Offset(i) = Len(put[i]) - Len(line[i])
  <2>1. /\ Offset(i) \in Nat /\ Len(took[i]) = Offset(i) + 0
        /\ x = put[i][Offset(i) + 1]
    BY <1>1 DEF ItemsInv
  <2>2. Offset(i) = Len(put[i]) - Len(line[i])
    BY DEF Offset
  <2> QED BY <2>1, <2>2
<1>4. took'[i] = Append(took[i], x)
  BY <1>1
<1>5. \A j \in Index : j # i => took'[j] = took[j]
  BY <1>1
<1> HIDE DEF x
<1>6. /\ took'[i] \in Seq(Nat) /\ Len(took'[i]) = Len(took[i]) + 1
      /\ took'[i][Len(took[i]) + 1] = x
      /\ \A k \in 1..Len(took[i]) : took'[i][k] = took[i][k]
  BY <1>1, <1>2, <1>4, Joined
<1>7. Len(took[i]) + 1 <= Len(put[i])
  BY <1>1, <1>3
<1>8. TookInv'
  <2>1. ASSUME NEW j \in Index
        PROVE  /\ Len(took'[j]) <= Len(put[j])
               /\ \A k \in 1..Len(took'[j]) : took'[j][k] = put[j][k]
    <3>1. CASE j # i
      BY <1>5, <3>1 DEF TookInv
    <3>2. CASE j = i
      <4>1. \A k \in 1..Len(took'[i]) : k \in 1..Len(took[i]) \/ k = Len(took[i]) + 1
        BY <1>1, <1>6
      <4>2. \A k \in 1..Len(took[i]) : took[i][k] = put[i][k]
        BY DEF TookInv
      <4> QED BY <1>3, <1>6, <1>7, <3>2, <4>1, <4>2
    <3> QED BY <3>1, <3>2
  <2> QED BY <2>1 DEF TookInv
<1>9. took' \in [Index -> Seq(Nat)]
  BY <1>1, <1>2, <1>6
<1> QED BY <1>3, <1>5, <1>6, <1>8, <1>9

(* A dequeuer makes the head its own.                                      *)
LEMMA NodeClaimed ==
    ASSUME TypeOK, NodeInv, NEW c \in Dequeuers, kind \in {"p", "pa"},
           NEW i, i = I(c), NEW n, n = head[i], n # Null, ~mark[i],
           \A d \in Dequeuers : Holds(d) => I(d) # i,
           mark' = [mark EXCEPT ![i] = (kind = "pa")],
           UNCHANGED <<kind, head, tail, node, heap, line>>,
           NEW r, Moved(c, r), r.pc = IF kind = "p" THEN "d_next" ELSE "next",
           r.n = n, r.idx = i
    PROVE  /\ NodeInv' /\ line[i] # <<>> /\ line[i][1] = n
           /\ mark' \in [Index -> BOOLEAN]
<1>0. /\ LineInv /\ HeadInv /\ SwapInv /\ LinkInv /\ StartInv /\ ClaimInv /\ ReadInv
      /\ kind' = kind /\ node' = node /\ tail' = tail /\ heap' = heap
      /\ line' = line /\ head' = head
      /\ mark \in [Index -> BOOLEAN] /\ heap \subseteq Nodes
      /\ \A j \in Index : line[j] \in Seq(Nodes)
      /\ \A d \in Dequeuers : I(d) \in Index
  BY DEF NodeInv, TypeOK, DataOK, ThreadOK, I
<1>1. i \in Index
  BY <1>0
<1>2. /\ n \in heap /\ line[i] # <<>> /\ line[i][1] = n /\ 1 \in 1..Len(line[i])
      /\ InLine(n, i)
      /\ \A j \in Index : j # i => ~InLine(n, j) /\ head[j] # n
  <2>1. n \in heap /\ line[i] # <<>> /\ line[i][1] = n
    BY <1>0, <1>1 DEF HeadInv
  <2>2. 1 \in 1..Len(line[i])
    BY <1>0, <1>1, <2>1
  <2> QED BY <1>0, <1>1, <2>1, <2>2 DEF HeadInv, InLine
<1>3. \A x, j : InLine(x, j)' <=> InLine(x, j)
  BY <1>0 DEF InLine
<1>4. /\ mark'[i] <=> kind = "pa"
      /\ \A j \in Index : j # i => mark'[j] = mark[j]
      /\ mark' \in [Index -> BOOLEAN]
  BY <1>0, <1>1
<1>5. /\ t'[c].pc \in {"d_next", "next"} /\ t'[c].n = n /\ I(c)' = i
      /\ kind = "p" => t'[c].pc = "d_next"
      /\ Holds(c)' /\ t'[c].pc \in ClaimPCs
      /\ Past(c)' <=> kind = "pa"
  <2>1. /\ t'[c].pc \in {"d_next", "next"} /\ t'[c].n = n /\ I(c)' = i
        /\ kind = "p" => t'[c].pc = "d_next"
        /\ kind # "p" => t'[c].pc = "next"
    BY DequeuerMoves
  <2> QED BY <2>1 DEF Holds, Past, ClaimPCs
<1>6. LineInv'
  BY <1>0 DEF LineInv
<1>7. HeadInv'
  BY <1>0, <1>2, <1>3, <1>4 DEF HeadInv
<1>8. SwapInv'
  <2>1. \A b \in Enqueuers :
           t'[b].pc = t[b].pc /\ t'[b].n = t[b].n /\ t'[b].item = t[b].item
    BY DequeuerMoves
  <2> QED BY <1>0, <1>3, <2>1 DEF SwapInv
<1>9. LinkInv'
  BY <1>0, DequeuerMoves DEF LinkInv
<1>10. StartInv'
  <2>1. \A b \in Enqueuers : Starting(b) => I(b) # i
    BY <1>0, <1>2 DEF StartInv
  <2>2. \A d \in Dequeuers : d # c => ((Holds(d)' <=> Holds(d)) /\ I(d)' = I(d))
    BY DequeuerMoves
  <2>3. \A b \in Enqueuers :
           (Starting(b)' <=> Starting(b)) /\ t'[b].n = t[b].n /\ I(b)' = I(b)
    BY DequeuerMoves
  <2> QED BY <1>0, <1>5, <2>1, <2>2, <2>3 DEF StartInv
<1>11. ClaimInv'
  <2>1. ASSUME NEW d \in Dequeuers, d # c, t'[d].pc \in ClaimPCs
        PROVE  /\ t'[d].n \in heap'
               /\ \A j \in Index : j # I(d)' => head'[j] # t'[d].n /\ ~InLine(t[d].n, j)'
               /\ Holds(d)' => /\ line'[I(d)'] # <<>> /\ line'[I(d)'][1] = t'[d].n
                               /\ head'[I(d)'] = IF kind' = "p" /\ Past(d)' THEN Null ELSE t'[d].n
                               /\ mark'[I(d)'] <=> kind' = "pa"
               /\ ~Holds(d)' => ~InLine(t[d].n, I(d))'
               /\ t'[d].pc = "free" => head'[I(d)'] # t'[d].n
               /\ t[d].pc \in ClaimPCs /\ t'[d].n = t[d].n /\ t[d].n # n
    <3>1. /\ t[d].pc \in ClaimPCs /\ t'[d].pc = t[d].pc /\ t'[d].n = t[d].n /\ I(d)' = I(d)
          /\ Holds(d)' <=> Holds(d)
          /\ Past(d)' <=> Past(d)
      BY <2>1, DequeuerMoves
    <3>2. /\ t[d].n \in heap
          /\ \A j \in Index : j # I(d) => head[j] # t[d].n /\ ~InLine(t[d].n, j)
          /\ Holds(d) => /\ line[I(d)] # <<>> /\ line[I(d)][1] = t[d].n
                         /\ head[I(d)] = IF kind = "p" /\ Past(d) THEN Null ELSE t[d].n
                         /\ mark[I(d)] <=> kind = "pa"
          /\ ~Holds(d) => ~InLine(t[d].n, I(d))
          /\ t[d].pc = "free" => head[I(d)] # t[d].n
      BY <1>0, <3>1 DEF ClaimInv
    <3>3. Holds(d) => mark'[I(d)] = mark[I(d)] /\ I(d) # i
      BY <1>0, <1>4
    <3>4. t[d].n # n
      BY <1>0, <1>1, <1>2, <3>2, <3>3
    <3>5. \A j \in Index : j # I(d)' => head'[j] # t'[d].n /\ ~InLine(t[d].n, j)'
      BY <1>0, <1>3, <3>1, <3>2
    <3>6. ~Holds(d)' => ~InLine(t[d].n, I(d))'
      BY <1>0, <1>3, <3>1, <3>2
    <3> QED BY <1>0, <3>1, <3>2, <3>3, <3>4, <3>5, <3>6
  <2>2. /\ t'[c].n \in heap'
        /\ \A j \in Index : j # I(c)' => head'[j] # t'[c].n /\ ~InLine(t[c].n, j)'
        /\ /\ line'[I(c)'] # <<>> /\ line'[I(c)'][1] = t'[c].n
           /\ head'[I(c)'] = IF kind' = "p" /\ Past(c)' THEN Null ELSE t'[c].n
           /\ mark'[I(c)'] <=> kind' = "pa"
        /\ Holds(c)' /\ t'[c].pc # "free"
    <3>1. \A j \in Index : j # I(c)' => ~InLine(t[c].n, j)'
      BY <1>2, <1>3, <1>5
    <3> QED BY <1>0, <1>2, <1>4, <1>5, <3>1
  <2>3. \A b \in Enqueuers : t'[b].pc = t[b].pc /\ t'[b].n = t[b].n
    BY DequeuerMoves
  <2>4. \A b \in Enqueuers : t[b].pc \in SwapPCs => t[b].n # n
    BY <1>0, <1>1 DEF SwapInv
  <2>5. ASSUME NEW d \in Dequeuers, NEW b \in Enqueuers, t'[d].pc \in ClaimPCs,
               t'[b].pc \in SwapPCs
        PROVE  t'[d].n # t'[b].n
    BY <1>0, <1>5, <2>1, <2>3, <2>4, <2>5 DEF ClaimInv
  <2>6. ASSUME NEW d \in Dequeuers, NEW e \in Dequeuers, t'[d].pc \in ClaimPCs,
               t'[e].pc \in ClaimPCs, t'[d].n = t'[e].n
        PROVE  d = e
    BY <1>0, <1>5, <2>1, <2>6 DEF ClaimInv
  <2>7. ASSUME NEW d \in Dequeuers, t'[d].pc \in ClaimPCs
        PROVE  /\ t'[d].n \in heap'
               /\ \A j \in Index : j # I(d)' => head'[j] # t'[d].n /\ ~InLine(t[d].n, j)'
               /\ Holds(d)' => /\ line'[I(d)'] # <<>> /\ line'[I(d)'][1] = t'[d].n
                               /\ head'[I(d)'] = IF kind' = "p" /\ Past(d)' THEN Null ELSE t'[d].n
                               /\ mark'[I(d)'] <=> kind' = "pa"
               /\ ~Holds(d)' => ~InLine(t[d].n, I(d))'
               /\ t'[d].pc = "free" => head'[I(d)'] # t'[d].n
    <3>1. CASE d = c
      BY <2>2, <3>1
    <3>2. CASE d # c
      BY <2>1, <2>7, <3>2
    <3> QED BY <3>1, <3>2
  <2> QED BY <2>5, <2>6, <2>7 DEF ClaimInv
<1>12. ReadInv'
  <2>1. \A d \in Dequeuers : d # c =>
           t'[d].pc = t[d].pc /\ t'[d].n = t[d].n /\ t'[d].next = t[d].next
    BY DequeuerMoves
  <2> QED BY <1>0, <1>5, <2>1 DEF ReadInv
<1> QED BY <1>2, <1>4, <1>6, <1>7, <1>8, <1>9, <1>10, <1>11, <1>12 DEF NodeInv

(* Which lists have an owner whose item is counted as taken.               *)
LEMMA PassedMoves ==
    ASSUME NEW c \in Dequeuers, NEW r, Moved(c, r), NEW i, i = I(c), r.idx = i
    PROVE  /\ \A j : j # i => (Passed(j)' <=> Passed(j))
           /\ Past(c)' => Passed(i)'
           /\ ~Past(c)' /\ (\A d \in Dequeuers : d # c /\ Past(d) => I(d) # i) => ~Passed(i)'
<1>1. \A d \in Dequeuers : d # c => (Past(d)' <=> Past(d)) /\ I(d)' = I(d)
  BY DequeuerMoves
<1>2. I(c)' = i
  BY DequeuerMoves
<1>3. ASSUME NEW j, j # i PROVE Passed(j)' <=> Passed(j)
  BY <1>1, <1>2, <1>3 DEF Passed
<1>4. Past(c)' => Passed(i)'
  BY <1>2 DEF Passed
<1>5. ASSUME ~Past(c)', \A d \in Dequeuers : d # c /\ Past(d) => I(d) # i
      PROVE  ~Passed(i)'
  BY <1>1, <1>5 DEF Passed
<1> QED BY <1>3, <1>4, <1>5

(* A step on list i that leaves lines and items alone.                     *)
LEMMA ItemsKept ==
    ASSUME ItemsInv, UNCHANGED <<kind, line, node, put>>, NEW i \in Index,
           \A j \in Index : j # i => took'[j] = took[j] /\ (Passed(j)' <=> Passed(j)),
           kind \in {"p", "pa"} => Len(took'[i]) = Offset(i) + (IF Passed(i)' THEN 1 ELSE 0)
    PROVE  ItemsInv'
<1>1. \A j : Offset(j)' = Offset(j)
  BY DEF Offset
<1>2. ASSUME NEW j \in Index, kind \in {"p", "pa"}
      PROVE  /\ Offset(j) \in Nat
             /\ \A k \in 1..Len(line[j]) : node[line[j][k]].item = put[j][Offset(j) + k]
             /\ Len(took[j]) = Offset(j) + (IF Passed(j) THEN 1 ELSE 0)
  BY <1>2 DEF ItemsInv
<1>3. ASSUME NEW j \in Index, kind \in {"p", "pa"}
      PROVE  Len(took'[j]) = Offset(j) + (IF Passed(j)' THEN 1 ELSE 0)
  BY <1>2, <1>3
<1>4. kind' = kind /\ line' = line /\ node' = node /\ put' = put
  OBVIOUS
<1> QED BY <1>1, <1>2, <1>3, <1>4 DEF ItemsInv

(* A dequeue of ev_pqueue sees the head of the list whose turn it has.     *)
LEMMA PDeqHeadKeeps ==
    ASSUME ArrayInv, NEW c \in Dequeuers, PDeqHead(c)
    PROVE  ArrayInv'
<1>q. PICK i, n : i = I(c) /\ n = head[i]
  OBVIOUS
<1> DEFINE r == [t[c] EXCEPT !.pc = "d_next", !.n = n]
<1>0. /\ TypeOK /\ DataOK /\ NodeInv /\ ItemsInv /\ TicketInv /\ TookInv /\ SharedInv
      /\ c \in Threads /\ c \notin Enqueuers
  BY Names DEF ArrayInv, TypeOK
<1>1. /\ t[c].pc = "d_head" /\ ~wild /\ n # Null /\ Set(c, r)
      /\ UNCHANGED <<kind, lists, slots, cnts, hist>>
  BY <1>q DEF PDeqHead, At
<1>2. kind = "p" /\ i \in Index /\ t[c] \in Locals /\ n \in Address /\ mark \in [Index -> BOOLEAN]
  <2>1. i \in Index
    BY <1>0, <1>q DEF TypeOK, ThreadOK, I
  <2> QED BY <1>0, <1>1, <1>q, <2>1, PKind, LocalsOf DEF DataOK
<1>3. "d_next" \in Labels /\ "d_next" \in DequeuePCs("p")
      /\ "d_next" \in TicketPCs /\ "d_next" \in TurnPCs /\ "d_head" \in TicketPCs
      /\ "d_head" \in TurnPCs
  BY DEF Labels, DequeuePCs, TicketPCs, TurnPCs
<1>4. r \in Locals
  BY <1>2, <1>3 DEF Locals
<1>5. r.pc = "d_next" /\ r.n = n /\ r.idx = i /\ r.cnt = t[c].cnt /\ r.idx = t[c].idx
  BY <1>2, <1>q DEF Locals, I
<1>6. ASSUME NEW d \in Dequeuers, Holds(d) PROVE I(d) # i
  <2>1. t[d].pc \in TurnPCs
    <3>1. t[d].pc \in DequeuePCs("p")
      BY <1>0, <1>2 DEF TypeOK, ThreadOK
    <3> QED BY <1>6, <3>1 DEF Holds, TurnPCs, DequeuePCs, TicketPCs
  <2>2. ~Holds(c)
    BY <1>1 DEF Holds
  <2> QED BY <1>0, <1>1, <1>2, <1>3, <1>6, <1>q, <2>1, <2>2, OneTurn
<1> HIDE DEF r
<1>7. /\ kind' = kind /\ wild' = wild /\ uaf' = uaf
      /\ UNCHANGED <<head, tail, node, heap, line, put, took, mark>>
      /\ q' = q /\ deq_counter' = deq_counter /\ d_guard' = d_guard
  BY <1>1 DEF lists, hist, slots, cnts
<1>8. Moved(c, r) /\ ThreadOK'
  BY <1>0, <1>1, <1>2, <1>3, <1>4, <1>5, <1>7, ThreadMoves
<1>9. NodeInv'
  <2>1. mark[i] = FALSE
    BY <1>0, <1>2 DEF NodeInv, HeadInv
  <2>2. mark' = [mark EXCEPT ![i] = (kind = "pa")]
    BY <1>2, <1>7, <2>1
  <2> QED BY <1>0, <1>1, <1>2, <1>5, <1>6, <1>7, <1>8, <1>q, <2>1, <2>2, NodeClaimed
<1>10. ItemsInv'
  <2>1. ~Past(c)' /\ ~Past(c)
    BY <1>1, <1>5, <1>8, DequeuerMoves DEF Past, Holds
  <2>2. \A d \in Dequeuers : Past(d) => I(d) # i
    BY <1>6 DEF Past
  <2>3. /\ \A j : j # i => (Passed(j)' <=> Passed(j))
        /\ ~Passed(i)' /\ ~Passed(i)
    <3>1. /\ \A j : j # i => (Passed(j)' <=> Passed(j))
          /\ ~Passed(i)'
      BY <1>5, <1>8, <2>1, <2>2, <1>q, PassedMoves
    <3>2. ~Passed(i)
      BY <2>2 DEF Passed
    <3> QED BY <3>1, <3>2
  <2>4. Len(took'[i]) = Offset(i) + 0
    BY <1>0, <1>2, <1>7, <2>3 DEF ItemsInv
  <2> QED BY <1>0, <1>2, <1>7, <2>3, <2>4, ItemsKept
<1>11. TicketInv'
  BY <1>0, <1>1, <1>3, <1>5, <1>7, <1>8, TicketKept
<1>12. SharedInv' /\ TookInv'
  BY <1>0, <1>7 DEF SharedInv, TookInv
<1>13. DataOK'
  BY <1>0, <1>1 DEF DataOK, lists, slots, cnts, hist
<1> QED BY <1>7, <1>8, <1>9, <1>10, <1>11, <1>12, <1>13, StepOf

(* The next list.                                                          *)
LEMMA NextListIs ==
    ASSUME TypeOK, NEW c \in Dequeuers, NEW x \in Nat
    PROVE  /\ NextList(c, x) \in Locals
           /\ /\ NextList(c, x).pc = "tail" /\ NextList(c, x).tries = x
              /\ NextList(c, x).idx = (t[c].idx + 1) % N
              /\ NextList(c, x).idx \in Index
              /\ NextList(c, x).res = t[c].res /\ NextList(c, x).alone = t[c].alone
<1>1. t[c] \in Locals /\ t[c].idx \in Index
  BY LocalsOf, Names DEF TypeOK, ThreadOK
<1>2. (t[c].idx + 1) % N \in Index /\ (t[c].idx + 1) % N \in Nat
  BY <1>1, NextIndex, Size
<1>3. "tail" \in Labels /\ Null \in Address
  BY DEF Labels, DequeuePCs, Address
<1> QED BY <1>1, <1>2, <1>3 DEF Locals, NextList

(* A dequeue of ev_paqueue marks the head, if it is still the one it read. *)
LEMMA PaMarkHeadKeeps ==
    ASSUME ArrayInv, NEW c \in Dequeuers, PaMarkHead(c)
    PROVE  ArrayInv'
<1>q. PICK i, n : i = I(c) /\ n = t[c].n
  OBVIOUS
<1>0. /\ TypeOK /\ DataOK /\ NodeInv /\ ItemsInv /\ TicketInv /\ TookInv /\ SharedInv
      /\ c \in Threads /\ c \notin Enqueuers
  BY Names DEF ArrayInv, TypeOK
<1>1. /\ t[c].pc = "mark" /\ ~wild
      /\ UNCHANGED <<kind, head, tail, node, heap, line, slots, cnts, made, put, given, uaf, wild>>
  BY DEF PaMarkHead, At
<1>2. kind = "pa" /\ i \in Index /\ t[c] \in Locals /\ n \in Address /\ n # Null
  <2>1. i \in Index
    BY <1>0, <1>q DEF TypeOK, ThreadOK, I
  <2>2. n # Null
    BY <1>0, <1>1, <1>q DEF NodeInv, ReadInv
  <2> QED BY <1>0, <1>1, <1>q, <2>1, <2>2, PKind, LocalsOf DEF Locals
<1>3. CASE ~(head[i] = n /\ ~mark[i])
  <2>1. Set(c, NextList(c, 0)) /\ mark' = mark /\ took' = took
    BY <1>3, <1>q DEF PaMarkHead
  <2>2. /\ SameLists /\ q' = q /\ uaf' = uaf /\ wild' = wild
        /\ deq_counter' = deq_counter /\ d_guard' = d_guard
    BY <1>1, <2>1 DEF SameLists, slots, cnts
  <2>3. DataOK'
    BY <1>0, <1>1, <2>1 DEF DataOK, slots, cnts
  <2> DEFINE r == NextList(c, 0)
  <2>4. r \in Locals /\ r.pc = "tail" /\ r.idx \in Index
    BY <1>0, NextListIs
  <2>5. Set(c, r)
    BY <2>1
  <2> HIDE DEF r
  <2>6. r.pc \in DequeuePCs(kind) /\ r.pc \in OuterPCs /\ t[c].pc \in OuterPCs
        /\ kind # "p" /\ r.pc # "mark"
    BY <1>1, <1>2, <2>4 DEF DequeuePCs, OuterPCs
  <2> QED BY <1>0, <1>1, <2>2, <2>3, <2>4, <2>5, <2>6, StepKeeps
<1>4. CASE head[i] = n /\ ~mark[i]
  <2>1. /\ mark' = [mark EXCEPT ![i] = TRUE] /\ Goto(c, "next")
        /\ took' = [took EXCEPT ![i] = Append(@, node[n].item)]
    BY <1>4, <1>q DEF PaMarkHead, Took
  <2> DEFINE r == [t[c] EXCEPT !.pc = "next"]
  <2>2. "next" \in Labels /\ "next" \in DequeuePCs("pa")
    BY DEF Labels, DequeuePCs
  <2>3. r \in Locals
    BY <1>2, <2>2 DEF Locals
  <2>4. r.pc = "next" /\ r.n = n /\ r.idx = i /\ r.idx = t[c].idx
    BY <1>2, <1>q DEF Locals, I
  <2>5. Set(c, r)
    BY <2>1 DEF Goto
  <2> HIDE DEF r
  <2>6. \A d \in Dequeuers : Holds(d) => I(d) # i
    <3>1. \A d \in Dequeuers : Holds(d) => t[d].pc \in ClaimPCs
      BY DEF Holds, ClaimPCs
    <3> QED BY <1>0, <1>2, <1>4, <3>1 DEF NodeInv, ClaimInv
  <2>7. Moved(c, r) /\ ThreadOK'
    <3>1. kind' = kind /\ r.pc \in DequeuePCs(kind)
      BY <1>1, <1>2, <2>2, <2>4
    <3> QED BY <1>0, <1>1, <1>2, <2>3, <2>4, <2>5, <3>1, ThreadMoves
  <2>8. NodeInv' /\ line[i] # <<>> /\ line[i][1] = n /\ mark' \in [Index -> BOOLEAN]
    <3>1. mark' = [mark EXCEPT ![i] = (kind = "pa")]
      BY <1>2, <2>1
    <3>2. r.pc = IF kind = "p" THEN "d_next" ELSE "next"
      BY <1>2, <2>4
    <3>3. UNCHANGED <<kind, head, tail, node, heap, line>>
      BY <1>1
    <3>4. kind \in {"p", "pa"}
      BY <1>2
    <3> QED BY <1>0, <1>2, <1>4, <2>4, <2>6, <2>7, <3>1, <3>2, <3>3, <3>4, <1>q, NodeClaimed
  <2>9. ~Passed(i)
    BY <2>6 DEF Passed, Past
  <2>10. /\ TookInv' /\ took' \in [Index -> Seq(Nat)]
         /\ Len(took'[i]) = Offset(i) + 1
         /\ \A j \in Index : j # i => took'[j] = took[j]
    <3>1. kind \in {"p", "pa"} /\ put' = put
      BY <1>1, <1>2
    <3> QED BY <1>0, <1>2, <2>1, <2>8, <2>9, <3>1, TookMore
  <2>11. ItemsInv'
    <3>1. Past(c)'
      BY <2>4, <2>7, DequeuerMoves DEF Past, Holds
    <3>2. /\ \A j : j # i => (Passed(j)' <=> Passed(j))
          /\ Passed(i)'
      BY <2>4, <2>7, <3>1, <1>q, PassedMoves
    <3> QED BY <1>0, <1>1, <1>2, <2>10, <3>2, ItemsKept
  <2>12. TicketInv'
    <3>1. kind # "p" /\ kind' = kind
      BY <1>1, <1>2
    <3> QED BY <3>1 DEF TicketInv
  <2>13. SharedInv'
    <3>1. kind \notin {"mpi", "pi"} /\ kind' = kind
      BY <1>1, <1>2
    <3> QED BY <3>1 DEF SharedInv
  <2>14. DataOK'
    BY <1>0, <1>1, <2>8, <2>10 DEF DataOK, slots, cnts
  <2> QED BY <1>1, <2>7, <2>8, <2>10, <2>11, <2>12, <2>13, <2>14, StepOf
<1> QED BY <1>3, <1>4

(* The first node leaves its line.                                         *)
LEMMA FirstLeaves ==
    ASSUME TypeOK, NodeInv, NEW i \in Index, NEW n, line[i] # <<>>, n = line[i][1],
           line' = [line EXCEPT ![i] = Tail(@)], node' = node, heap' = heap,
           tail' = IF Len(line[i]) = 1 THEN [tail EXCEPT ![i] = Null] ELSE tail
    PROVE  /\ LineInv' /\ line' \in [Index -> Seq(Nodes)] /\ tail' \in [Index -> Address]
           /\ Len(line[i]) \in Nat /\ Len(line[i]) > 0
           /\ Len(line'[i]) = Len(line[i]) - 1
           /\ \A k \in 1..(Len(line[i]) - 1) : line'[i][k] = line[i][k + 1]
           /\ \A j \in Index : j # i => line'[j] = line[j]
           /\ \A m : \A j \in Index : InLine(m, j)' => InLine(m, j)
           /\ \A m : \A j \in Index : j # i => (InLine(m, j)' <=> InLine(m, j))
           /\ ~InLine(n, i)'
<1>0. /\ LineInv /\ line \in [Index -> Seq(Nodes)] /\ line[i] \in Seq(Nodes)
      /\ tail \in [Index -> Address] /\ Null \in Address
  BY DEF NodeInv, TypeOK, DataOK, Address
<1>1. /\ line'[i] = Tail(line[i])
      /\ \A j \in Index : j # i => line'[j] = line[j]
  BY <1>0
<1>2. /\ line'[i] \in Seq(Nodes) /\ Len(line[i]) \in Nat /\ Len(line[i]) > 0
      /\ Len(line'[i]) = Len(line[i]) - 1
      /\ \A k \in 1..(Len(line[i]) - 1) : line'[i][k] = line[i][k + 1]
      /\ line'[i] = <<>> <=> Len(line[i]) = 1
  <2>1. \A u \in Seq(Nodes) : u # <<>> =>
           /\ Tail(u) \in Seq(Nodes) /\ Len(u) \in Nat /\ Len(u) > 0
           /\ Len(Tail(u)) = Len(u) - 1
           /\ \A k \in 1..(Len(u) - 1) : Tail(u)[k] = u[k + 1]
           /\ Tail(u) = <<>> <=> Len(u) = 1
    BY Left
  <2> QED BY <1>0, <1>1, <2>1
<1>3. /\ \A k \in 1..Len(line'[i]) : k \in 1..(Len(line[i]) - 1) /\ k + 1 \in 1..Len(line[i])
                                     /\ line'[i][k] = line[i][k + 1] /\ k + 1 # 1
      /\ 1 \in 1..Len(line[i])
  BY <1>2
<1>4. line' \in [Index -> Seq(Nodes)] /\ tail' \in [Index -> Address]
  BY <1>0, <1>1, <1>2
<1>5. \A j, g \in Index : \A k \in 1..Len(line[j]), l \in 1..Len(line[g]) :
         line[j][k] = line[g][l] => j = g /\ k = l
  BY <1>0 DEF LineInv
<1>6. /\ \A m : \A j \in Index : j # i => (InLine(m, j)' <=> InLine(m, j))
      /\ \A m : InLine(m, i)' => InLine(m, i)
      /\ ~InLine(n, i)'
  <2>1. \A m : \A j \in Index : j # i => (InLine(m, j)' <=> InLine(m, j))
    BY <1>1 DEF InLine
  <2>2. \A m : InLine(m, i)' => InLine(m, i)
    BY <1>3 DEF InLine
  <2>3. ASSUME NEW k \in 1..Len(line'[i]), line'[i][k] = n PROVE FALSE
    BY <1>3, <1>5, <2>3
  <2>4. ~InLine(n, i)'
    BY <2>3 DEF InLine
  <2> QED BY <2>1, <2>2, <2>4
<1>7. LineInv'
  <2>1. ASSUME NEW j \in Index, NEW k \in 1..Len(line'[j])
        PROVE  /\ line'[j][k] \in heap'
               /\ \/ node'[line'[j][k]].next = Null
                  \/ k < Len(line'[j]) /\ node'[line'[j][k]].next = line'[j][k + 1]
    <3>1. CASE j # i
      BY <1>0, <1>1, <3>1 DEF LineInv
    <3>2. CASE j = i
      <4>1. k + 1 \in 1..Len(line[i]) /\ line'[i][k] = line[i][k + 1]
        BY <1>3, <3>2
      <4>2. /\ line[i][k + 1] \in heap
            /\ \/ node[line[i][k + 1]].next = Null
               \/ k + 1 < Len(line[i]) /\ node[line[i][k + 1]].next = line[i][(k + 1) + 1]
        BY <1>0, <4>1 DEF LineInv
      <4>3. k + 1 < Len(line[i]) => k < Len(line'[i]) /\ line'[i][k + 1] = line[i][(k + 1) + 1]
        BY <1>2, <3>2
      <4> QED BY <3>2, <4>1, <4>2, <4>3
    <3> QED BY <3>1, <3>2
  <2>2. ASSUME NEW j \in Index, NEW g \in Index, NEW k \in 1..Len(line'[j]),
               NEW l \in 1..Len(line'[g]), line'[j][k] = line'[g][l]
        PROVE  j = g /\ k = l
    <3>1. CASE j # i /\ g # i
      BY <1>1, <1>5, <2>2, <3>1
    <3>2. CASE j = i /\ g # i
      BY <1>1, <1>3, <1>5, <2>2, <3>2
    <3>3. CASE j # i /\ g = i
      <4>1. /\ l + 1 \in 1..Len(line[i]) /\ line'[i][l] = line[i][l + 1]
            /\ k \in 1..Len(line[j]) /\ line'[j][k] = line[j][k]
        BY <1>1, <1>3, <3>3
      <4>2. j = i
        BY <1>5, <2>2, <3>3, <4>1
      <4> QED BY <3>3, <4>2
    <3>4. CASE j = i /\ g = i
      <4>1. k + 1 = l + 1
        BY <1>3, <1>5, <2>2, <3>4
      <4> QED BY <1>2, <3>4, <4>1
    <3> QED BY <3>1, <3>2, <3>3, <3>4
  <2>3. ASSUME NEW j \in Index
        PROVE  tail'[j] = IF line'[j] = <<>> THEN Null ELSE line'[j][Len(line'[j])]
    <3>1. tail[j] = IF line[j] = <<>> THEN Null ELSE line[j][Len(line[j])]
      BY <1>0 DEF LineInv
    <3>2. CASE j # i
      BY <1>0, <1>1, <3>1, <3>2
    <3>3. CASE j = i /\ Len(line[i]) = 1
      BY <1>0, <1>2, <3>3
    <3>4. CASE j = i /\ Len(line[i]) # 1
      <4>1. Len(line'[i]) \in 1..(Len(line[i]) - 1) /\ Len(line'[i]) + 1 = Len(line[i])
        BY <1>2, <3>4
      <4> QED BY <1>2, <3>1, <3>4, <4>1
    <3> QED BY <3>2, <3>3, <3>4
  <2> QED BY <2>1, <2>2, <2>3 DEF LineInv
<1> QED BY <1>1, <1>2, <1>4, <1>6, <1>7

(* The items of the nodes behind it move up with them.                     *)
LEMMA ItemsMoveUp ==
    ASSUME TypeOK, ItemsInv, NEW i \in Index, line[i] # <<>>,
           kind \in {"p", "pa"}, UNCHANGED <<kind, node, put>>,
           Len(line[i]) \in Nat, Len(line[i]) > 0,
           Len(line'[i]) = Len(line[i]) - 1,
           \A k \in 1..(Len(line[i]) - 1) : line'[i][k] = line[i][k + 1],
           \A j \in Index : j # i => line'[j] = line[j],
           \A j \in Index : j # i => took'[j] = took[j] /\ (Passed(j)' <=> Passed(j)),
           Len(took'[i]) = Offset(i) + 1, ~Passed(i)'
    PROVE  ItemsInv'
<1>1. ASSUME NEW j \in Index
      PROVE  /\ Offset(j) \in Nat
             /\ \A k \in 1..Len(line[j]) : node[line[j][k]].item = put[j][Offset(j) + k]
             /\ Len(took[j]) = Offset(j) + (IF Passed(j) THEN 1 ELSE 0)
  BY DEF ItemsInv
<1>2. \A j \in Index : j # i => Offset(j)' = Offset(j)
  BY DEF Offset
<1>3. Offset(i)' = Offset(i) + 1
  <2>1. Offset(i)' = Len(put[i]) - Len(line'[i]) /\ Offset(i) = Len(put[i]) - Len(line[i])
    BY DEF Offset
  <2>2. Len(put[i]) \in Nat
    BY DEF TypeOK, DataOK
  <2>3. \A a, b \in Nat : a - (b - 1) = (a - b) + 1
    OBVIOUS
  <2> QED BY <2>1, <2>2, <2>3
<1>4. ASSUME NEW k \in 1..Len(line'[i])
      PROVE  node'[line'[i][k]].item = put'[i][Offset(i)' + k]
  <2>1. k \in 1..(Len(line[i]) - 1) /\ k + 1 \in 1..Len(line[i])
    OBVIOUS
  <2>2. Offset(i) + (k + 1) = (Offset(i) + 1) + k
    BY <1>1
  <2>3. node[line[i][k + 1]].item = put[i][Offset(i) + (k + 1)]
    BY <1>1, <2>1
  <2>4. line'[i][k] = line[i][k + 1]
    BY <2>1
  <2> QED BY <1>3, <2>2, <2>3, <2>4
<1>5. Offset(i)' \in Nat /\ Len(took'[i]) = Offset(i)' + 0
  BY <1>1, <1>3
<1>6. ASSUME NEW j \in Index
      PROVE  /\ Offset(j)' \in Nat
             /\ \A k \in 1..Len(line'[j]) : node'[line'[j][k]].item = put'[j][Offset(j)' + k]
             /\ Len(took'[j]) = Offset(j)' + (IF Passed(j)' THEN 1 ELSE 0)
  <2>1. CASE j = i
    BY <1>4, <1>5, <2>1
  <2>2. CASE j # i
    BY <1>1, <1>2, <2>2
  <2> QED BY <2>1, <2>2
<1> QED BY <1>6 DEF ItemsInv

(* The owner of a list takes its first node off.                           *)
LEMMA FirstTaken ==
    ASSUME TypeOK, NodeInv, ItemsInv, kind \in {"p", "pa"}, NEW c \in Dequeuers, Holds(c),
           NEW i, i = I(c), NEW n, n = t[c].n,
           line' = [line EXCEPT ![i] = Tail(@)], UNCHANGED <<kind, node, heap, put>>,
           \/ /\ node[n].next # Null
              /\ head' = [head EXCEPT ![i] = node[n].next] /\ mark' = [mark EXCEPT ![i] = FALSE]
              /\ tail' = tail
           \/ /\ tail[i] = n
              /\ head' = head /\ mark' = mark
              /\ tail' = [tail EXCEPT ![i] = Null]
              /\ kind = "p" => Past(c),
           NEW r, Moved(c, r), r.n = n, r.idx = i, r.pc \in {"d_exit", "move", "free"},
           r.pc = "move" => r.next = Null,
           r.pc = "free" => node[n].next # Null,
           Len(took'[i]) = Offset(i) + 1, \A j \in Index : j # i => took'[j] = took[j]
    PROVE  /\ NodeInv' /\ ItemsInv'
           /\ head' \in [Index -> Address] /\ mark' \in [Index -> BOOLEAN]
           /\ tail' \in [Index -> Address] /\ line' \in [Index -> Seq(Nodes)]
<1>0. /\ LineInv /\ HeadInv /\ SwapInv /\ LinkInv /\ StartInv /\ ClaimInv /\ ReadInv
      /\ kind' = kind /\ node' = node /\ heap' = heap /\ put' = put
      /\ head \in [Index -> Address] /\ mark \in [Index -> BOOLEAN] /\ node \in [Nodes -> Cells]
      /\ heap \subseteq Nodes
      /\ \A j \in Index : line[j] \in Seq(Nodes)
      /\ \A d \in Dequeuers : I(d) \in Index
  BY DEF NodeInv, TypeOK, DataOK, ThreadOK, I
<1>1. /\ i \in Index /\ n \in heap /\ n \in Nodes /\ n # Null /\ line[i] # <<>> /\ line[i][1] = n
      /\ tail[i] = line[i][Len(line[i])] /\ 1 \in 1..Len(line[i]) /\ Len(line[i]) \in 1..Len(line[i])
      /\ head[i] = IF kind = "p" /\ Past(c) THEN Null ELSE n
      /\ mark[i] <=> kind = "pa"
      /\ \A j \in Index : j # i => head[j] # n /\ ~InLine(n, j)
  <2>1. t[c].pc \in ClaimPCs
    BY DEF Holds, ClaimPCs
  <2>2. i \in Index /\ n \in heap /\ n \in Nodes /\ n # Null /\ line[i] # <<>> /\ line[i][1] = n
        /\ tail[i] = line[i][Len(line[i])] /\ 1 \in 1..Len(line[i])
    BY <2>1, Claimed
  <2>3. Len(line[i]) \in 1..Len(line[i])
    BY <1>0, <2>2
  <2> QED BY <1>0, <2>1, <2>2, <2>3 DEF ClaimInv
<1>2. \A j, g \in Index : \A k \in 1..Len(line[j]), l \in 1..Len(line[g]) :
         line[j][k] = line[g][l] => j = g /\ k = l
  BY <1>0 DEF LineInv
<1>3. node[n].next # Null =>
         /\ 2 \in 1..Len(line[i]) /\ Len(line[i]) # 1 /\ node[n].next = line[i][2]
         /\ node[n].next \in heap /\ node[n].next # n /\ InLine(node[n].next, i)
         /\ \A j \in Index : j # i => ~InLine(node[n].next, j) /\ head[j] # node[n].next
  <2>1. ASSUME node[n].next # Null
        PROVE  /\ 2 \in 1..Len(line[i]) /\ Len(line[i]) # 1 /\ node[n].next = line[i][2]
               /\ node[n].next \in heap /\ node[n].next # n /\ InLine(node[n].next, i)
               /\ \A j \in Index : j # i => ~InLine(node[n].next, j) /\ head[j] # node[n].next
    <3>1. 1 < Len(line[i]) /\ node[n].next = line[i][1 + 1]
      BY <1>0, <1>1, <2>1 DEF LineInv
    <3>2. Len(line[i]) \in Nat
      BY <1>0, <1>1
    <3>3. 2 \in 1..Len(line[i]) /\ Len(line[i]) # 1 /\ node[n].next = line[i][2]
      BY <3>1, <3>2
    <3>4. node[n].next \in heap /\ node[n].next # n /\ InLine(node[n].next, i)
      BY <1>0, <1>1, <1>2, <3>3 DEF LineInv, InLine
    <3>5. \A j \in Index : j # i => ~InLine(node[n].next, j)
      BY <1>1, <1>2, <3>3 DEF InLine
    <3>6. \A j \in Index : j # i => head[j] # node[n].next
      BY <1>0, <1>1, <3>4 DEF HeadInv
    <3> QED BY <3>3, <3>4, <3>5, <3>6
  <2> QED BY <2>1
<1>4. tail[i] = n => Len(line[i]) = 1 /\ node[n].next = Null
  <2>1. tail[i] = n => Len(line[i]) = 1
    <3>1. \A k, l \in 1..Len(line[i]) : line[i][k] = line[i][l] => k = l
      BY <1>1, <1>2
    <3>2. tail[i] = n => line[i][Len(line[i])] = line[i][1]
      BY <1>1
    <3> QED BY <1>1, <3>1, <3>2
  <2> QED BY <1>3, <2>1
<1>5. tail' = IF Len(line[i]) = 1 THEN [tail EXCEPT ![i] = Null] ELSE tail
  BY <1>3, <1>4
<1>6. /\ LineInv' /\ line' \in [Index -> Seq(Nodes)] /\ tail' \in [Index -> Address]
      /\ Len(line[i]) \in Nat /\ Len(line[i]) > 0
      /\ Len(line'[i]) = Len(line[i]) - 1
      /\ \A k \in 1..(Len(line[i]) - 1) : line'[i][k] = line[i][k + 1]
      /\ \A j \in Index : j # i => line'[j] = line[j]
      /\ \A m : \A j \in Index : InLine(m, j)' => InLine(m, j)
      /\ \A m : \A j \in Index : j # i => (InLine(m, j)' <=> InLine(m, j))
      /\ ~InLine(n, i)'
  BY <1>0, <1>1, <1>5, FirstLeaves
<1>7. /\ \A j \in Index : j # i => head'[j] = head[j] /\ mark'[j] = mark[j]
      /\ \/ node[n].next # Null /\ head'[i] = node[n].next /\ ~mark'[i]
         \/ /\ tail[i] = n /\ node[n].next = Null
            /\ head'[i] = head[i] /\ (mark'[i] <=> mark[i]) /\ head[i] = IF kind = "p" THEN Null ELSE n
      /\ head' \in [Index -> Address] /\ mark' \in [Index -> BOOLEAN]
  <2>1. node[n].next \in Address
    BY <1>0, <1>1 DEF Cells
  <2>2. CASE /\ node[n].next # Null
             /\ head' = [head EXCEPT ![i] = node[n].next] /\ mark' = [mark EXCEPT ![i] = FALSE]
    BY <1>0, <1>1, <2>1, <2>2
  <2>3. CASE /\ tail[i] = n
             /\ head' = head /\ mark' = mark
             /\ kind = "p" => Past(c)
    BY <1>0, <1>1, <1>4, <2>3
  <2> QED BY <2>2, <2>3
<1>8. HeadInv'
  <2>1. ASSUME NEW j \in Index
        PROVE  /\ head'[j] \in heap' \cup {Null}
               /\ mark'[j] => kind' = "pa" /\ head'[j] # Null
               /\ head'[j] # Null /\ ~mark'[j] => line'[j] # <<>> /\ line'[j][1] = head'[j]
    <3>1. CASE j # i
      BY <1>0, <1>6, <1>7, <3>1 DEF HeadInv
    <3>2. CASE j = i /\ node[n].next # Null
      <4>1. 1 \in 1..(Len(line[i]) - 1) /\ line'[i][1] = line[i][1 + 1]
        BY <1>3, <1>6, <3>2
      <4>2. Len(line'[i]) # 0
        BY <1>6, <4>1
      <4>3. line'[i] # <<>> /\ line'[i][1] = node[n].next
        <5>1. line'[i] # <<>>
          BY <4>2
        <5>2. line'[i][1] = line[i][2]
          BY <4>1
        <5> QED BY <1>3, <3>2, <5>1, <5>2
      <4> QED BY <1>0, <1>3, <1>7, <3>2, <4>3
    <3>3. CASE j = i /\ node[n].next = Null
      BY <1>0, <1>1, <1>7, <3>3 DEF HeadInv
    <3> QED BY <3>1, <3>2, <3>3
  <2>2. ASSUME NEW j \in Index, NEW g \in Index, j # g
        PROVE  ~InLine(head[j], g)' /\ (head'[j] # Null => head'[j] # head'[g])
    <3>1. ~InLine(head[j], g) /\ (head[j] # Null => head[j] # head[g])
      BY <1>0, <2>2 DEF HeadInv
    <3>2. ~InLine(head'[j], g)
      BY <1>3, <1>7, <2>2, <3>1
    <3>3. InLine(head[j], g)' => InLine(head'[j], g)
      BY <1>6
    <3>4. head'[j] # Null => head'[j] # head'[g]
      BY <1>3, <1>7, <2>2, <3>1
    <3> QED BY <3>2, <3>3, <3>4
  <2> QED BY <2>1, <2>2 DEF HeadInv
<1>9. /\ \A b \in Enqueuers :
            /\ t'[b].pc = t[b].pc /\ t'[b].n = t[b].n /\ t'[b].next = t[b].next
            /\ t'[b].item = t[b].item /\ I(b)' = I(b)
            /\ Linking(b)' <=> Linking(b)
            /\ Starting(b)' <=> Starting(b)
      /\ \A d \in Dequeuers : d # c =>
            /\ t'[d].pc = t[d].pc /\ t'[d].n = t[d].n /\ t'[d].next = t[d].next
            /\ I(d)' = I(d)
            /\ Holds(d)' <=> Holds(d)
            /\ Past(d)' <=> Past(d)
      /\ t'[c].pc = r.pc /\ t'[c].n = n /\ t'[c].next = r.next /\ I(c)' = i
  BY DequeuerMoves
<1>10. ~Holds(c)' /\ ~Past(c)' /\ t'[c].pc \in ClaimPCs
  BY <1>9 DEF Holds, Past, ClaimPCs
<1>11. \A d \in Dequeuers : d # c /\ Holds(d) => I(d) # i
  BY SoleHolder
<1>12. SwapInv'
  <2>1. \A b \in Enqueuers : t[b].pc \in SwapPCs =>
           /\ t[b].n \in heap /\ node[t[b].n] = [next |-> Null, item |-> t[b].item]
           /\ \A j \in Index : t[b].n # head'[j] /\ ~InLine(t[b].n, j)
    <3>1. \A b \in Enqueuers : t[b].pc \in SwapPCs =>
             /\ t[b].n \in heap /\ node[t[b].n] = [next |-> Null, item |-> t[b].item]
             /\ \A j \in Index : t[b].n # head[j] /\ ~InLine(t[b].n, j)
      BY <1>0 DEF SwapInv
    <3>2. \A j \in Index : head'[j] = head[j] \/ InLine(head'[j], i)
      BY <1>3, <1>7
    <3>3. \A b \in Enqueuers : t[b].pc \in SwapPCs => \A j \in Index : t[b].n # head'[j]
      <4>1. ASSUME NEW b \in Enqueuers, t[b].pc \in SwapPCs, NEW j \in Index, t[b].n = head'[j]
            PROVE  FALSE
        <5>1. t[b].n # head[j] /\ ~InLine(t[b].n, i)
          BY <1>1, <3>1, <4>1
        <5>2. InLine(head'[j], i)
          BY <3>2, <4>1, <5>1
        <5> QED BY <4>1, <5>1, <5>2
      <4> QED BY <4>1
    <3> QED BY <3>1, <3>3
  <2>2. \A b \in Enqueuers, j \in Index : InLine(t[b].n, j)' => InLine(t[b].n, j)
    <3>1. \A b \in Enqueuers, j \in Index : InLine(t[b].n, j)' => InLine(t'[b].n, j)
      BY <1>6
    <3> QED BY <1>9, <3>1
  <2>3. ASSUME NEW b \in Enqueuers, t'[b].pc \in SwapPCs
        PROVE  /\ t'[b].n \in heap' /\ node'[t'[b].n] = [next |-> Null, item |-> t'[b].item]
               /\ \A j \in Index : t'[b].n # head'[j] /\ ~InLine(t[b].n, j)'
    <3>1. t[b].pc \in SwapPCs /\ t'[b].n = t[b].n /\ t'[b].item = t[b].item
      BY <1>9, <2>3
    <3> QED BY <1>0, <2>1, <2>2, <3>1
  <2>4. \A b, d \in Enqueuers :
           t'[b].pc \in SwapPCs /\ t'[d].pc \in SwapPCs /\ t'[b].n = t'[d].n => b = d
    BY <1>0, <1>9 DEF SwapInv
  <2> QED BY <2>3, <2>4 DEF SwapInv
<1>13. \A b \in Enqueuers : Linking(b) \/ Starting(b) => I(b) \in Index
  <2>1. kind \in {"p", "pa"} => \A b \in Enqueuers : I(b) \in Index
    BY DEF TypeOK, ThreadOK, I
  <2> QED BY <2>1
<1>14. LinkInv'
  <2>1. ASSUME NEW b \in Enqueuers, Linking(b)
        PROVE  \E k \in 1..Len(line'[I(b)]) :
                  /\ k < Len(line'[I(b)])
                  /\ t[b].next = line'[I(b)][k] /\ t[b].n = line'[I(b)][k + 1]
    <3>1. PICK k \in 1..Len(line[I(b)]) :
             /\ k < Len(line[I(b)])
             /\ t[b].next = line[I(b)][k] /\ t[b].n = line[I(b)][k + 1]
      BY <1>0, <2>1 DEF LinkInv
    <3>2. CASE I(b) # i
      <4>1. line'[I(b)] = line[I(b)]
        BY <1>6, <1>13, <2>1, <3>2
      <4> QED BY <3>1, <4>1
    <3>3. CASE I(b) = i
      <4>1. node[t[b].next].next = Null
        BY <1>0, <2>1 DEF LinkInv
      <4>2. k # 1
        <5>1. CASE node[n].next # Null
          BY <1>1, <3>1, <3>3, <4>1, <5>1
        <5>2. CASE tail[i] = n
          BY <1>4, <3>1, <3>3, <5>2
        <5> QED BY <1>7, <5>1, <5>2
      <4>3. /\ k - 1 \in 1..(Len(line[i]) - 1) /\ (k - 1) + 1 \in 1..(Len(line[i]) - 1)
            /\ k - 1 < Len(line'[i]) /\ (k - 1) + 1 = k /\ k - 1 \in 1..Len(line'[i])
        BY <1>6, <3>1, <3>3, <4>2
      <4>4. line'[i][k - 1] = line[i][(k - 1) + 1] /\ line'[i][k] = line[i][k + 1]
        BY <1>6, <4>3
      <4>5. PICK l : l = k - 1
        OBVIOUS
      <4>6. /\ l \in 1..Len(line'[i]) /\ l < Len(line'[i]) /\ l + 1 = k
            /\ t[b].next = line'[i][l] /\ t[b].n = line'[i][l + 1]
        BY <3>1, <3>3, <4>3, <4>4, <4>5
      <4> QED BY <3>3, <4>6
    <3> QED BY <3>2, <3>3
  <2>2. \A b \in Enqueuers : Linking(b) => node[t[b].next].next = Null
    BY <1>0 DEF LinkInv
  <2>3. ASSUME NEW b \in Enqueuers, Linking(b)'
        PROVE  /\ node'[t'[b].next].next = Null
               /\ \E k \in 1..Len(line'[I(b)']) :
                     /\ k < Len(line'[I(b)'])
                     /\ t'[b].next = line'[I(b)'][k] /\ t'[b].n = line'[I(b)'][k + 1]
    <3>1. Linking(b) /\ t'[b].next = t[b].next /\ t'[b].n = t[b].n /\ I(b)' = I(b)
      BY <1>9, <2>3
    <3>2. node[t[b].next].next = Null
      BY <2>2, <3>1
    <3>3. \E k \in 1..Len(line'[I(b)]) :
             /\ k < Len(line'[I(b)])
             /\ t[b].next = line'[I(b)][k] /\ t[b].n = line'[I(b)][k + 1]
      BY <2>1, <3>1
    <3> QED BY <1>0, <3>1, <3>2, <3>3
  <2>4. \A b, d \in Enqueuers :
           Linking(b)' /\ Linking(d)' /\ t'[b].next = t'[d].next => b = d
    BY <1>0, <1>9 DEF LinkInv
  <2> QED BY <2>3, <2>4 DEF LinkInv
<1>15. StartInv'
  <2>1. \A b \in Enqueuers : Starting(b) => I(b) # i
    BY <1>0 DEF StartInv
  <2>2. \A b \in Enqueuers : Starting(b) =>
           line'[I(b)] = line[I(b)] /\ head'[I(b)] = head[I(b)]
    BY <1>6, <1>7, <1>13, <2>1
  <2>3. \A d \in Dequeuers : Holds(d)' => d # c /\ Holds(d) /\ I(d)' = I(d)
    BY <1>9, <1>10
  <2>4. \A b \in Enqueuers :
           (Starting(b)' <=> Starting(b)) /\ t'[b].n = t[b].n /\ I(b)' = I(b)
    BY <1>9
  <2> QED BY <1>0, <2>2, <2>3, <2>4 DEF StartInv
<1>16. ClaimInv'
  <2>1. ASSUME NEW d \in Dequeuers, d # c, t'[d].pc \in ClaimPCs
        PROVE  /\ t'[d].n \in heap'
               /\ \A j \in Index : j # I(d)' => head'[j] # t'[d].n /\ ~InLine(t[d].n, j)'
               /\ Holds(d)' => /\ line'[I(d)'] # <<>> /\ line'[I(d)'][1] = t'[d].n
                               /\ head'[I(d)'] = IF kind' = "p" /\ Past(d)' THEN Null ELSE t'[d].n
                               /\ mark'[I(d)'] <=> kind' = "pa"
               /\ ~Holds(d)' => ~InLine(t[d].n, I(d))'
               /\ t'[d].pc = "free" => head'[I(d)'] # t'[d].n
    <3>1. /\ t[d].pc \in ClaimPCs /\ t'[d].pc = t[d].pc /\ t'[d].n = t[d].n /\ I(d)' = I(d)
          /\ Holds(d)' <=> Holds(d)
          /\ Past(d)' <=> Past(d)
      BY <1>9, <2>1
    <3>2. /\ t[d].n \in heap
          /\ \A j \in Index : j # I(d) => head[j] # t[d].n /\ ~InLine(t[d].n, j)
          /\ Holds(d) => /\ line[I(d)] # <<>> /\ line[I(d)][1] = t[d].n
                         /\ head[I(d)] = IF kind = "p" /\ Past(d) THEN Null ELSE t[d].n
                         /\ mark[I(d)] <=> kind = "pa"
          /\ ~Holds(d) => ~InLine(t[d].n, I(d))
          /\ t[d].pc = "free" => head[I(d)] # t[d].n
      BY <1>0, <3>1 DEF ClaimInv
    <3>3. Holds(d) => /\ line'[I(d)] = line[I(d)] /\ mark'[I(d)] = mark[I(d)]
                      /\ head'[I(d)] = head[I(d)]
      BY <1>0, <1>6, <1>7, <1>11, <2>1
    <3>4. \A j \in Index : InLine(t[d].n, j)' => InLine(t[d].n, j)
      <4>1. \A j \in Index : InLine(t[d].n, j)' => InLine(t'[d].n, j)
        BY <1>6
      <4> QED BY <3>1, <4>1
    <3>5. \A j \in Index : j # I(d)' => head'[j] # t'[d].n /\ ~InLine(t[d].n, j)'
      BY <1>3, <1>7, <3>1, <3>2, <3>4
    <3>6. ~Holds(d)' => ~InLine(t[d].n, I(d))'
      BY <1>0, <3>1, <3>2, <3>4
    <3>7. t[d].pc = "free" => head'[I(d)] # t[d].n
      <4>1. t[d].pc = "free" => ~Holds(d)
        BY DEF Holds
      <4> QED BY <1>0, <1>3, <1>7, <3>2, <4>1
    <3> QED BY <1>0, <3>1, <3>2, <3>3, <3>5, <3>6, <3>7
  <2>2. /\ t'[c].n \in heap'
        /\ \A j \in Index : j # I(c)' => head'[j] # t'[c].n /\ ~InLine(t[c].n, j)'
        /\ ~InLine(t[c].n, I(c))'
        /\ t'[c].pc = "free" => head'[I(c)'] # t'[c].n
    <3>1. /\ \A j \in Index : j # I(c)' => head'[j] # t'[c].n /\ ~InLine(t[c].n, j)'
          /\ ~InLine(t[c].n, I(c))'
      BY <1>1, <1>6, <1>7, <1>9
    <3>2. t'[c].pc = "free" => head'[I(c)'] # t'[c].n
      BY <1>3, <1>7, <1>9
    <3> QED BY <1>0, <1>1, <1>9, <3>1, <3>2
  <2>3. ASSUME NEW d \in Dequeuers, t'[d].pc \in ClaimPCs
        PROVE  /\ t'[d].n \in heap'
               /\ \A j \in Index : j # I(d)' => head'[j] # t'[d].n /\ ~InLine(t[d].n, j)'
               /\ Holds(d)' => /\ line'[I(d)'] # <<>> /\ line'[I(d)'][1] = t'[d].n
                               /\ head'[I(d)'] = IF kind' = "p" /\ Past(d)' THEN Null ELSE t'[d].n
                               /\ mark'[I(d)'] <=> kind' = "pa"
               /\ ~Holds(d)' => ~InLine(t[d].n, I(d))'
               /\ t'[d].pc = "free" => head'[I(d)'] # t'[d].n
    <3>1. CASE d = c
      BY <1>10, <2>2, <3>1
    <3>2. CASE d # c
      BY <2>1, <2>3, <3>2
    <3> QED BY <3>1, <3>2
  <2>4. /\ \A d \in Dequeuers : t'[d].n = t[d].n /\ (t'[d].pc \in ClaimPCs => t[d].pc \in ClaimPCs)
        /\ \A b \in Enqueuers : t'[b].pc = t[b].pc /\ t'[b].n = t[b].n
    <3>1. t[c].pc \in ClaimPCs
      BY DEF Holds, ClaimPCs
    <3> QED BY <1>9, <3>1
  <2>5. /\ \A d, e \in Dequeuers :
              t'[d].pc \in ClaimPCs /\ t'[e].pc \in ClaimPCs /\ t'[d].n = t'[e].n => d = e
        /\ \A d \in Dequeuers, b \in Enqueuers :
              t'[d].pc \in ClaimPCs /\ t'[b].pc \in SwapPCs => t'[d].n # t'[b].n
    BY <1>0, <2>4 DEF ClaimInv
  <2> QED BY <2>3, <2>5 DEF ClaimInv
<1>17. ReadInv'
  <2>1. \A d \in Dequeuers : d # c =>
           t'[d].pc = t[d].pc /\ t'[d].n = t[d].n /\ t'[d].next = t[d].next
    BY <1>9
  <2>2. t'[c].pc \in {"d_exit", "move", "free"} /\ (t'[c].pc = "move" => t'[c].next = Null)
    BY <1>9
  <2> QED BY <1>0, <2>1, <2>2 DEF ReadInv
<1>18. ItemsInv'
  <2>1. \A d \in Dequeuers : d # c /\ Past(d) => I(d) # i
    BY <1>11 DEF Past
  <2>2. (\A j : j # i => (Passed(j)' <=> Passed(j))) /\ ~Passed(i)'
    BY <1>10, <2>1, PassedMoves
  <2> QED BY <1>0, <1>1, <1>6, <2>2, ItemsMoveUp
<1> QED BY <1>6, <1>7, <1>8, <1>12, <1>14, <1>15, <1>16, <1>17, <1>18 DEF NodeInv

(* A dequeuer leaves a list without a head.                                *)
LEMMA HeadDropped ==
    ASSUME TypeOK, NodeInv, NEW c \in Dequeuers, NEW i, i = I(c), NEW n, n = t[c].n,
           head[i] = n,
           head' = [head EXCEPT ![i] = Null], mark' = [mark EXCEPT ![i] = FALSE],
           UNCHANGED <<kind, tail, node, heap, line>>,
           NEW r, Moved(c, r), r.n = n, r.idx = i,
           \/ kind = "p" /\ t[c].pc = "d_set" /\ r.pc = "d_cas"
           \/ kind = "pa" /\ t[c].pc = "move" /\ ~Holds(c) /\ r.pc = "free"
    PROVE  NodeInv' /\ head' \in [Index -> Address] /\ mark' \in [Index -> BOOLEAN]
<1>0. /\ LineInv /\ HeadInv /\ SwapInv /\ LinkInv /\ StartInv /\ ClaimInv /\ ReadInv
      /\ kind' = kind /\ node' = node /\ tail' = tail /\ heap' = heap /\ line' = line
      /\ head \in [Index -> Address] /\ mark \in [Index -> BOOLEAN] /\ heap \subseteq Nodes
      /\ \A j \in Index : line[j] \in Seq(Nodes)
      /\ \A d \in Dequeuers : I(d) \in Index
      /\ Null \in Address /\ Null \notin Nodes
  BY Names DEF NodeInv, TypeOK, DataOK, ThreadOK, I, Address
<1>1. i \in Index /\ t[c].pc \in ClaimPCs /\ n \in heap /\ n # Null
  <2>1. t[c].pc \in ClaimPCs
    BY DEF ClaimPCs
  <2> QED BY <1>0, <2>1 DEF ClaimInv
<1>2. /\ head'[i] = Null /\ ~mark'[i]
      /\ \A j \in Index : j # i => head'[j] = head[j] /\ mark'[j] = mark[j]
      /\ head' \in [Index -> Address] /\ mark' \in [Index -> BOOLEAN]
      /\ \A j \in Index : head'[j] = head[j] \/ head'[j] = Null
  BY <1>0, <1>1
<1>3. \A x, j : InLine(x, j)' <=> InLine(x, j)
  BY <1>0 DEF InLine
<1>4. /\ \A b \in Enqueuers :
            /\ t'[b].pc = t[b].pc /\ t'[b].n = t[b].n /\ t'[b].next = t[b].next
            /\ t'[b].item = t[b].item /\ I(b)' = I(b)
            /\ Linking(b)' <=> Linking(b)
            /\ Starting(b)' <=> Starting(b)
      /\ \A d \in Dequeuers : d # c =>
            /\ t'[d].pc = t[d].pc /\ t'[d].n = t[d].n /\ t'[d].next = t[d].next
            /\ I(d)' = I(d)
            /\ Holds(d)' <=> Holds(d)
            /\ Past(d)' <=> Past(d)
      /\ t'[c].pc = r.pc /\ t'[c].n = n /\ t'[c].next = r.next /\ I(c)' = i
  BY DequeuerMoves
<1>5. ASSUME NEW d \in Dequeuers, d # c, Holds(d) PROVE I(d) # i
  <2>1. CASE t[c].pc = "d_set"
    <3>1. Holds(c)
      BY <2>1 DEF Holds
    <3> QED BY <1>5, <3>1, SoleHolder
  <2>2. CASE kind = "pa"
    <3>1. t[d].pc \in ClaimPCs
      BY <1>5 DEF Holds, ClaimPCs
    <3>2. head[I(d)] = t[d].n
      BY <1>0, <1>5, <2>2, <3>1 DEF ClaimInv
    <3> QED BY <1>0, <1>1, <1>5, <3>1, <3>2 DEF ClaimInv
  <2> QED BY <2>1, <2>2
<1>6. /\ t'[c].pc \in ClaimPCs
      /\ Holds(c)' => Holds(c) /\ Past(c)' /\ kind = "p"
      /\ ~Holds(c)' => ~Holds(c)
  <2>1. CASE kind = "p" /\ t[c].pc = "d_set" /\ r.pc = "d_cas"
    BY <1>4, <2>1 DEF Holds, Past, ClaimPCs
  <2>2. CASE kind = "pa" /\ t[c].pc = "move" /\ ~Holds(c) /\ r.pc = "free"
    BY <1>4, <2>2 DEF Holds, Past, ClaimPCs
  <2> QED BY <2>1, <2>2
<1>7. LineInv'
  BY <1>0 DEF LineInv
<1>8. HeadInv'
  <2>1. ASSUME NEW j \in Index
        PROVE  /\ head'[j] \in heap' \cup {Null}
               /\ mark'[j] => kind' = "pa" /\ head'[j] # Null
               /\ head'[j] # Null /\ ~mark'[j] => line'[j] # <<>> /\ line'[j][1] = head'[j]
    <3>1. CASE j = i
      BY <1>2, <3>1
    <3>2. CASE j # i
      BY <1>0, <1>2, <3>2 DEF HeadInv
    <3> QED BY <3>1, <3>2
  <2>2. ASSUME NEW j \in Index, NEW g \in Index, j # g
        PROVE  ~InLine(head[j], g)' /\ (head'[j] # Null => head'[j] # head'[g])
    <3>1. ~InLine(head[j], g) /\ (head[j] # Null => head[j] # head[g])
      BY <1>0, <2>2 DEF HeadInv
    <3>2. ~InLine(Null, g)
      BY <1>0 DEF InLine
    <3>3. ~InLine(head'[j], g)
      BY <1>2, <3>1, <3>2
    <3>4. ~InLine(head[j], g)'
      BY <1>3, <3>3
    <3> QED BY <1>2, <3>1, <3>4
  <2> QED BY <2>1, <2>2 DEF HeadInv
<1>9. SwapInv'
  <2>1. \A b \in Enqueuers : t[b].pc \in SwapPCs => \A j \in Index : t[b].n # head'[j]
    <3>1. \A b \in Enqueuers : t[b].pc \in SwapPCs =>
             t[b].n \in heap /\ \A j \in Index : t[b].n # head[j]
      BY <1>0 DEF SwapInv
    <3> QED BY <1>0, <1>2, <3>1
  <2>2. \A b \in Enqueuers :
           t'[b].pc = t[b].pc /\ t'[b].n = t[b].n /\ t'[b].item = t[b].item
    BY <1>4
  <2> QED BY <1>0, <1>3, <2>1, <2>2 DEF SwapInv
<1>10. LinkInv'
  <2>1. \A b \in Enqueuers : Linking(b)' =>
           Linking(b) /\ t'[b].n = t[b].n /\ t'[b].next = t[b].next /\ I(b)' = I(b)
    BY <1>4
  <2> QED BY <1>0, <2>1 DEF LinkInv
<1>11. StartInv'
  <2>1. \A b \in Enqueuers : Starting(b) => I(b) \in Index
    <3>1. kind \in {"p", "pa"} => \A b \in Enqueuers : I(b) \in Index
      BY DEF TypeOK, ThreadOK, I
    <3> QED BY <3>1
  <2>2. \A b \in Enqueuers : Starting(b) => t[b].n # Null
    <3>1. ASSUME NEW b \in Enqueuers, Starting(b) PROVE t[b].n # Null
      <4>1. line[I(b)] # <<>> /\ t[b].n = line[I(b)][1] /\ I(b) \in Index
        BY <1>0, <2>1, <3>1 DEF StartInv
      <4>2. line[I(b)][1] \in Nodes
        BY <4>1, LineLength
      <4> QED BY <1>0, <4>1, <4>2
    <3> QED BY <3>1
  <2>3. \A d \in Dequeuers : Holds(d)' => Holds(d) /\ I(d)' = I(d)
    BY <1>4, <1>6
  <2>4. \A b \in Enqueuers : Starting(b) => head'[I(b)] # t[b].n
    BY <1>0, <1>2, <2>1, <2>2 DEF StartInv
  <2>5. \A b \in Enqueuers :
           (Starting(b)' <=> Starting(b)) /\ t'[b].n = t[b].n /\ I(b)' = I(b)
    BY <1>4
  <2> QED BY <1>0, <2>3, <2>4, <2>5 DEF StartInv
<1>12. ClaimInv'
  <2>1. ASSUME NEW d \in Dequeuers, t'[d].pc \in ClaimPCs
        PROVE  /\ t'[d].n \in heap'
               /\ \A j \in Index : j # I(d)' => head'[j] # t'[d].n /\ ~InLine(t[d].n, j)'
               /\ Holds(d)' => /\ line'[I(d)'] # <<>> /\ line'[I(d)'][1] = t'[d].n
                               /\ head'[I(d)'] = IF kind' = "p" /\ Past(d)' THEN Null ELSE t'[d].n
                               /\ mark'[I(d)'] <=> kind' = "pa"
               /\ ~Holds(d)' => ~InLine(t[d].n, I(d))'
               /\ t'[d].pc = "free" => head'[I(d)'] # t'[d].n
    <3>1. /\ t[d].pc \in ClaimPCs /\ t'[d].n = t[d].n /\ I(d)' = I(d)
          /\ Holds(d)' => Holds(d)
          /\ ~Holds(d)' => ~Holds(d)
          /\ d # c => (Past(d)' <=> Past(d)) /\ t'[d].pc = t[d].pc
      BY <1>1, <1>4, <1>6, <2>1
    <3>2. /\ t[d].n \in heap
          /\ \A j \in Index : j # I(d) => head[j] # t[d].n /\ ~InLine(t[d].n, j)
          /\ Holds(d) => /\ line[I(d)] # <<>> /\ line[I(d)][1] = t[d].n
                         /\ head[I(d)] = IF kind = "p" /\ Past(d) THEN Null ELSE t[d].n
                         /\ mark[I(d)] <=> kind = "pa"
          /\ ~Holds(d) => ~InLine(t[d].n, I(d))
          /\ t[d].pc = "free" => head[I(d)] # t[d].n
      BY <1>0, <3>1 DEF ClaimInv
    <3>3. t[d].n # Null
      BY <1>0, <3>2
    <3>4. \A j \in Index : j # I(d)' => head'[j] # t'[d].n /\ ~InLine(t[d].n, j)'
      BY <1>2, <1>3, <3>1, <3>2, <3>3
    <3>5. ~Holds(d)' => ~InLine(t[d].n, I(d))'
      BY <1>3, <3>1, <3>2
    <3>6. t'[d].pc = "free" => head'[I(d)'] # t'[d].n
      <4>1. CASE d = c
        BY <1>1, <1>2, <1>4, <4>1
      <4>2. CASE d # c
        BY <1>0, <1>2, <3>1, <3>2, <3>3, <4>2
      <4> QED BY <4>1, <4>2
    <3>7. Holds(d)' => /\ head'[I(d)'] = IF kind' = "p" /\ Past(d)' THEN Null ELSE t'[d].n
                       /\ mark'[I(d)'] <=> kind' = "pa"
      <4>1. CASE d = c
        BY <1>0, <1>2, <1>4, <1>6, <4>1
      <4>2. CASE d # c
        BY <1>0, <1>2, <1>5, <3>1, <3>2, <4>2
      <4> QED BY <4>1, <4>2
    <3> QED BY <1>0, <3>1, <3>2, <3>4, <3>5, <3>6, <3>7
  <2>2. /\ \A d \in Dequeuers : t'[d].n = t[d].n /\ (t'[d].pc \in ClaimPCs => t[d].pc \in ClaimPCs)
        /\ \A b \in Enqueuers : t'[b].pc = t[b].pc /\ t'[b].n = t[b].n
    BY <1>1, <1>4
  <2>3. /\ \A d, e \in Dequeuers :
              t'[d].pc \in ClaimPCs /\ t'[e].pc \in ClaimPCs /\ t'[d].n = t'[e].n => d = e
        /\ \A d \in Dequeuers, b \in Enqueuers :
              t'[d].pc \in ClaimPCs /\ t'[b].pc \in SwapPCs => t'[d].n # t'[b].n
    BY <1>0, <2>2 DEF ClaimInv
  <2> QED BY <2>1, <2>3 DEF ClaimInv
<1>13. ReadInv'
  <2>1. \A d \in Dequeuers : d # c =>
           t'[d].pc = t[d].pc /\ t'[d].n = t[d].n /\ t'[d].next = t[d].next
    BY <1>4
  <2>2. t'[c].pc \in {"d_cas", "free"}
    BY <1>4
  <2> QED BY <1>0, <2>1, <2>2 DEF ReadInv
<1> QED BY <1>2, <1>7, <1>8, <1>9, <1>10, <1>11, <1>12, <1>13 DEF NodeInv

(* With its item counted as taken, a list's owner is one item ahead.       *)
LEMMA PastTook ==
    ASSUME TypeOK, ItemsInv, kind \in {"p", "pa"}, NEW c \in Dequeuers, Past(c),
           NEW i, i = I(c)
    PROVE  Len(took[i]) = Offset(i) + 1
<1>1. i \in Index /\ Passed(i)
  BY DEF TypeOK, ThreadOK, I, Passed
<1> QED BY <1>1 DEF ItemsInv

(* A dequeue of ev_pqueue moves the head on, or, with no link seen, clears *)
(* it.                                                                     *)
LEMMA PDeqSetHeadKeeps ==
    ASSUME ArrayInv, NEW c \in Dequeuers, PDeqSetHead(c)
    PROVE  ArrayInv'
<1>a. PICK i, n : i = I(c) /\ n = t[c].n
  OBVIOUS
<1>0. /\ TypeOK /\ DataOK /\ NodeInv /\ ItemsInv /\ TicketInv /\ TookInv /\ SharedInv
      /\ c \in Threads /\ c \notin Enqueuers
  BY Names DEF ArrayInv, TypeOK
<1>1. /\ t[c].pc = "d_set" /\ ~wild
      /\ head' = [head EXCEPT ![i] = t[c].next]
      /\ took' = [took EXCEPT ![i] = Append(@, node[n].item)]
      /\ UNCHANGED <<kind, mark, tail, node, heap, slots, cnts, made, put, given, uaf, wild>>
  BY <1>a DEF PDeqSetHead, At, Took
<1>2. /\ kind = "p" /\ i \in Index /\ t[c] \in Locals /\ mark \in [Index -> BOOLEAN]
      /\ node \in [Nodes -> Cells]
  <2>1. i \in Index
    BY <1>0, <1>a DEF TypeOK, ThreadOK, I
  <2> QED BY <1>0, <1>1, <1>a, <2>1, PKind, LocalsOf DEF DataOK
<1>3. Holds(c) /\ ~Past(c) /\ t[c].pc \in ClaimPCs
  BY <1>1 DEF Holds, Past, ClaimPCs
<1>4. /\ n \in Nodes /\ line[i] # <<>> /\ line[i][1] = n /\ head[i] = n /\ ~mark[i]
      /\ t[c].next = Null \/ t[c].next = node[n].next
  <2>1. n \in Nodes /\ line[i] # <<>> /\ line[i][1] = n
    BY <1>0, <1>3, <1>a, Claimed
  <2>2. head[i] = n /\ ~mark[i]
    BY <1>0, <1>2, <1>3, <1>a DEF NodeInv, ClaimInv
  <2>3. t[c].next = Null \/ t[c].next = node[n].next
    BY <1>0, <1>1, <1>a DEF NodeInv, ReadInv
  <2> QED BY <2>1, <2>2, <2>3
<1>5. mark' = [mark EXCEPT ![i] = FALSE]
  BY <1>1, <1>2, <1>4
<1>6. \A d \in Dequeuers : d # c /\ Past(d) => I(d) # i
  BY <1>0, <1>3, <1>a, SoleHolder DEF Past
<1>7. /\ TookInv' /\ took' \in [Index -> Seq(Nat)]
      /\ Len(took'[i]) = Offset(i) + 1
      /\ \A j \in Index : j # i => took'[j] = took[j]
  <2>1. ~Passed(i)
    BY <1>3, <1>6 DEF Passed
  <2>2. kind \in {"p", "pa"} /\ put' = put
    BY <1>1, <1>2
  <2> QED BY <1>0, <1>1, <1>2, <1>4, <2>1, <2>2, TookMore
<1>8. SharedInv'
  <2>1. kind' = kind /\ kind \notin {"mpi", "pi"}
    BY <1>1, <1>2
  <2> QED BY <2>1 DEF SharedInv
<1>9. ASSUME NEW l \in {"d_cas", "d_exit"}, Goto(c, l), NodeInv' /\ ItemsInv',
             head' \in [Index -> Address], line' \in [Index -> Seq(Nodes)]
      PROVE  ArrayInv'
  <2> DEFINE r == [t[c] EXCEPT !.pc = l]
  <2>1. l \in Labels /\ l \in DequeuePCs("p") /\ l \in TicketPCs /\ l \in TurnPCs
        /\ "d_set" \in TicketPCs /\ "d_set" \in TurnPCs
    BY DEF Labels, DequeuePCs, TicketPCs, TurnPCs
  <2>2. /\ r \in Locals /\ r.pc = l /\ r.idx = i /\ r.cnt = t[c].cnt /\ r.idx = t[c].idx
    BY <1>2, <1>a, <2>1 DEF Locals, I
  <2>3. Set(c, r)
    BY <1>9 DEF Goto
  <2> HIDE DEF r
  <2>4. Moved(c, r) /\ ThreadOK'
    BY <1>0, <1>1, <1>2, <2>1, <2>2, <2>3, ThreadMoves
  <2>5. TicketInv'
    BY <1>0, <1>1, <2>1, <2>2, <2>4, TicketKept DEF cnts
  <2>6. DataOK'
    BY <1>0, <1>1, <1>7, <1>9 DEF DataOK, slots, cnts
  <2> QED BY <1>1, <1>7, <1>8, <1>9, <2>4, <2>5, <2>6, StepOf
<1>10. ASSUME NEW l \in {"d_cas", "d_exit"}, Goto(c, l)
       PROVE  /\ Moved(c, [t[c] EXCEPT !.pc = l])
              /\ [t[c] EXCEPT !.pc = l].pc = l
              /\ [t[c] EXCEPT !.pc = l].n = n
              /\ [t[c] EXCEPT !.pc = l].idx = i
  <2> DEFINE r == [t[c] EXCEPT !.pc = l]
  <2>1. l \in Labels /\ l \in DequeuePCs("p")
    BY DEF Labels, DequeuePCs, TicketPCs, TurnPCs
  <2>2. r \in Locals /\ r.pc = l /\ r.idx = i /\ r.idx = t[c].idx /\ r.n = n
    BY <1>2, <1>a, <2>1 DEF Locals, I
  <2>3. Set(c, r)
    BY <1>10 DEF Goto
  <2> HIDE DEF r
  <2>4. Moved(c, r)
    BY <1>0, <1>1, <1>2, <2>1, <2>2, <2>3, ThreadMoves
  <2> QED BY <2>2, <2>4 DEF r
<1>11. CASE t[c].next = Null
  <2>1. Goto(c, "d_cas") /\ line' = line
    BY <1>11 DEF PDeqSetHead
  <2>2. PICK r : Moved(c, r) /\ r.pc = "d_cas" /\ r.n = n /\ r.idx = i
    BY <1>10, <2>1
  <2>3. NodeInv' /\ head' \in [Index -> Address]
    <3>1. UNCHANGED <<kind, tail, node, heap, line>>
      BY <1>1, <2>1
    <3> QED BY <1>0, <1>1, <1>11, <1>2, <1>4, <1>5, <1>a, <2>2, <3>1, HeadDropped
  <2>4. ItemsInv'
    <3>1. Past(c)'
      BY <2>2, DequeuerMoves DEF Past, Holds
    <3>2. /\ \A j : j # i => (Passed(j)' <=> Passed(j))
          /\ Passed(i)'
      BY <1>a, <2>2, <3>1, PassedMoves
    <3>3. UNCHANGED <<kind, line, node, put>>
      BY <1>1, <2>1
    <3> QED BY <1>0, <1>2, <1>7, <3>2, <3>3, ItemsKept
  <2>5. line' \in [Index -> Seq(Nodes)]
    BY <1>0, <2>1 DEF DataOK
  <2> QED BY <1>9, <2>1, <2>3, <2>4, <2>5
<1>12. CASE t[c].next # Null
  <2>1. Goto(c, "d_exit") /\ line' = [line EXCEPT ![i] = Tail(@)]
    BY <1>12, <1>a DEF PDeqSetHead, TakenOff
  <2>2. PICK r : Moved(c, r) /\ r.pc = "d_exit" /\ r.n = n /\ r.idx = i
    BY <1>10, <2>1
  <2>3. NodeInv' /\ ItemsInv' /\ head' \in [Index -> Address] /\ line' \in [Index -> Seq(Nodes)]
    <3>1. UNCHANGED <<kind, node, heap, put>> /\ kind \in {"p", "pa"} /\ tail' = tail
      BY <1>1, <1>2
    <3>2. node[n].next # Null /\ head' = [head EXCEPT ![i] = node[n].next]
      BY <1>1, <1>4, <1>12
    <3> QED BY <1>0, <1>3, <1>5, <1>7, <1>a, <2>1, <2>2, <3>1, <3>2, FirstTaken
  <2> QED BY <1>9, <2>1, <2>3
<1> QED BY <1>11, <1>12

(* It resets the head to the node whose link it has waited for.            *)
LEMMA PDeqResetHeadKeeps ==
    ASSUME ArrayInv, NEW c \in Dequeuers, PDeqResetHead(c)
    PROVE  ArrayInv'
<1>a. PICK i, n : i = I(c) /\ n = t[c].n
  OBVIOUS
<1>0. /\ TypeOK /\ DataOK /\ NodeInv /\ ItemsInv /\ TicketInv /\ TookInv /\ SharedInv
      /\ c \in Threads /\ c \notin Enqueuers
  BY Names DEF ArrayInv, TypeOK
<1>1. /\ t[c].pc = "d_reset" /\ ~wild
      /\ head' = [head EXCEPT ![i] = t[c].next]
      /\ line' = [line EXCEPT ![i] = Tail(@)]
      /\ Goto(c, "d_exit")
      /\ UNCHANGED <<kind, mark, tail, node, heap, slots, cnts, hist>>
  BY <1>a DEF PDeqResetHead, At, TakenOff
<1>2. /\ kind = "p" /\ i \in Index /\ t[c] \in Locals /\ mark \in [Index -> BOOLEAN]
  <2>1. i \in Index
    BY <1>0, <1>a DEF TypeOK, ThreadOK, I
  <2> QED BY <1>0, <1>1, <1>a, <2>1, PKind, LocalsOf DEF DataOK
<1>3. Holds(c) /\ Past(c) /\ t[c].pc \in ClaimPCs
  BY <1>1 DEF Holds, Past, ClaimPCs
<1>4. mark' = [mark EXCEPT ![i] = FALSE]
  <2>1. ~mark[i]
    BY <1>0, <1>2, <1>3, <1>a DEF NodeInv, ClaimInv
  <2> QED BY <1>1, <1>2, <2>1
<1>5. node[n].next # Null /\ head' = [head EXCEPT ![i] = node[n].next]
  BY <1>0, <1>1, <1>a DEF NodeInv, ReadInv
<1> DEFINE r == [t[c] EXCEPT !.pc = "d_exit"]
<1>6. "d_exit" \in Labels /\ "d_exit" \in DequeuePCs("p") /\ "d_exit" \in TicketPCs
      /\ "d_exit" \in TurnPCs /\ "d_reset" \in TicketPCs /\ "d_reset" \in TurnPCs
  BY DEF Labels, DequeuePCs, TicketPCs, TurnPCs
<1>7. r \in Locals /\ r.pc = "d_exit" /\ r.idx = i /\ r.idx = t[c].idx /\ r.n = n
      /\ r.cnt = t[c].cnt
  BY <1>2, <1>6, <1>a DEF Locals, I
<1>8. Set(c, r)
  BY <1>1 DEF Goto
<1> HIDE DEF r
<1>9. /\ kind' = kind /\ wild' = wild /\ uaf' = uaf /\ put' = put /\ took' = took /\ q' = q
      /\ deq_counter' = deq_counter /\ d_guard' = d_guard
      /\ tail' = tail /\ node' = node /\ heap' = heap
  BY <1>1 DEF hist, slots, cnts
<1>10. Moved(c, r) /\ ThreadOK'
  BY <1>0, <1>1, <1>2, <1>6, <1>7, <1>8, <1>9, ThreadMoves
<1>11. /\ NodeInv' /\ ItemsInv' /\ head' \in [Index -> Address] /\ mark' \in [Index -> BOOLEAN]
       /\ line' \in [Index -> Seq(Nodes)]
  <2>1. Len(took'[i]) = Offset(i) + 1 /\ \A j \in Index : j # i => took'[j] = took[j]
    BY <1>0, <1>2, <1>3, <1>9, <1>a, PastTook
  <2>2. kind \in {"p", "pa"} /\ UNCHANGED <<kind, node, heap, put>>
    BY <1>2, <1>9
  <2>3. /\ node[n].next # Null
        /\ head' = [head EXCEPT ![i] = node[n].next] /\ mark' = [mark EXCEPT ![i] = FALSE]
        /\ tail' = tail
    BY <1>4, <1>5, <1>9
  <2>4. line' = [line EXCEPT ![i] = Tail(@)]
    BY <1>1
  <2>5. r.pc = "d_exit" /\ r.n = n /\ r.idx = i
    BY <1>7
  <2>6. TypeOK /\ NodeInv /\ ItemsInv /\ Holds(c)
    BY <1>0, <1>3
  <2> QED BY <1>10, <1>a, <2>1, <2>2, <2>3, <2>4, <2>5, <2>6, FirstTaken
<1>12. TicketInv'
  BY <1>0, <1>1, <1>6, <1>7, <1>9, <1>10, TicketKept
<1>13. SharedInv' /\ TookInv'
  BY <1>0, <1>9 DEF SharedInv, TookInv
<1>14. DataOK'
  BY <1>0, <1>1, <1>11 DEF DataOK, slots, cnts, hist
<1> QED BY <1>9, <1>10, <1>11, <1>12, <1>13, <1>14, StepOf

(* The compare-and-swap of tail: the line is empty now, or an enqueuer     *)
(* owes the first node its link.                                           *)
LEMMA CasTailKeeps ==
    ASSUME ArrayInv, NEW c \in Dequeuers, PDeqCasTail(c) \/ PaCasTail(c)
    PROVE  ArrayInv'
<1>a. PICK i, n : i = I(c) /\ n = t[c].n
  OBVIOUS
<1>0. /\ TypeOK /\ DataOK /\ NodeInv /\ ItemsInv /\ TicketInv /\ TookInv /\ SharedInv
      /\ c \in Threads /\ c \notin Enqueuers
  BY Names DEF ArrayInv, TypeOK
<1>1. /\ t[c].pc \in {"d_cas", "cas"} /\ ~wild
      /\ tail' = [tail EXCEPT ![i] = IF @ = n THEN Null ELSE @]
      /\ UNCHANGED <<kind, head, mark, node, heap, slots, cnts, hist>>
  BY <1>a DEF PDeqCasTail, PaCasTail, At
<1>2. PICK l \in {"d_exit", "move", "await"} :
         /\ Goto(c, l)
         /\ l = "d_exit" => t[c].pc = "d_cas"
         /\ l = "move" => t[c].pc = "cas"
         /\ l # "await" => tail[i] = n /\ line' = [line EXCEPT ![i] = Tail(@)]
         /\ l = "await" => tail[i] # n /\ line' = line
  BY <1>a DEF PDeqCasTail, PaCasTail, At, TakenOff
<1>3. /\ kind \in {"p", "pa"} /\ i \in Index /\ t[c] \in Locals /\ tail \in [Index -> Address]
      /\ t[c].pc = "d_cas" => kind = "p"
      /\ t[c].pc = "cas" => kind = "pa"
  <2>1. i \in Index
    BY <1>0, <1>a DEF TypeOK, ThreadOK, I
  <2> QED BY <1>0, <1>1, <1>a, <2>1, PKind, LocalsOf DEF DataOK
<1>4. Holds(c) /\ Past(c) /\ t[c].pc \in ClaimPCs
  BY <1>1 DEF Holds, Past, ClaimPCs
<1>5. t[c].pc = "cas" => t[c].next = Null
  BY <1>0 DEF NodeInv, ReadInv
<1> DEFINE r == [t[c] EXCEPT !.pc = l]
<1>6. /\ l \in Labels /\ l \in DequeuePCs(kind)
      /\ l \in TicketPCs => l \in TurnPCs
      /\ kind = "p" => t[c].pc \in TicketPCs /\ t[c].pc \in TurnPCs
  <2>1. l \in Labels
    BY DEF Labels, DequeuePCs, TicketPCs, TurnPCs
  <2>2. kind = "p" => l \in {"d_exit", "await"} /\ t[c].pc = "d_cas"
    BY <1>1, <1>2, <1>3
  <2>3. kind = "pa" => l \in {"move", "await"}
    BY <1>1, <1>2, <1>3
  <2>4. l \in DequeuePCs(kind)
    BY <1>3, <2>2, <2>3 DEF DequeuePCs, TicketPCs, TurnPCs
  <2>5. l \in TicketPCs => l \in TurnPCs
    BY DEF TicketPCs, TurnPCs
  <2>6. kind = "p" => t[c].pc \in TicketPCs /\ t[c].pc \in TurnPCs
    BY <2>2 DEF TicketPCs, TurnPCs
  <2> QED BY <2>1, <2>4, <2>5, <2>6
<1>7. r \in Locals /\ r.pc = l /\ r.idx = i /\ r.idx = t[c].idx /\ r.n = n
      /\ r.cnt = t[c].cnt /\ r.next = t[c].next
  BY <1>3, <1>6, <1>a DEF Locals, I
<1>8. Set(c, r)
  BY <1>2 DEF Goto
<1> HIDE DEF r
<1>9. /\ kind' = kind /\ wild' = wild /\ uaf' = uaf /\ put' = put /\ took' = took /\ q' = q
      /\ deq_counter' = deq_counter /\ d_guard' = d_guard
      /\ head' = head /\ mark' = mark /\ node' = node /\ heap' = heap
  BY <1>1 DEF hist, slots, cnts
<1>10. Moved(c, r) /\ ThreadOK'
  BY <1>0, <1>1, <1>3, <1>6, <1>7, <1>8, <1>9, ThreadMoves
<1>11. TicketInv'
  BY <1>0, <1>6, <1>7, <1>9, <1>10, TicketKept
<1>12. CASE l = "await"
  <2>1. tail' = tail /\ line' = line
    BY <1>1, <1>2, <1>3, <1>12
  <2>2. SameLists
    BY <1>9, <2>1 DEF SameLists
  <2>3. DataOK'
    BY <1>0, <1>1, <2>1 DEF DataOK, slots, cnts, hist
  <2>4. t'[c].pc = "await" /\ t'[c].n = t[c].n /\ t'[c].idx = t[c].idx
    BY <1>7, <1>10, <1>12, <1>a DEF Moved, Alike
  <2>5. Holds(c)' /\ Past(c)'
    BY <2>4 DEF Holds, Past
  <2>6. Kept(c) /\ ReadOK(c)'
    BY <1>4, <2>4, <2>5 DEF Kept, ReadOK, SwapPCs, LinkPCs
  <2> QED BY <1>0, <1>9, <1>10, <1>11, <2>2, <2>3, <2>6, QuietKeeps
<1>13. CASE l # "await"
  <2>1. /\ tail[i] = n /\ tail' = [tail EXCEPT ![i] = Null]
        /\ line' = [line EXCEPT ![i] = Tail(@)]
    BY <1>1, <1>2, <1>3, <1>13
  <2>2. r.pc \in {"d_exit", "move", "free"} /\ r.pc # "free" /\ (r.pc = "move" => r.next = Null)
    BY <1>2, <1>5, <1>7, <1>13
  <2>3. Len(took'[i]) = Offset(i) + 1 /\ \A j \in Index : j # i => took'[j] = took[j]
    BY <1>0, <1>3, <1>4, <1>9, <1>a, PastTook
  <2>4. /\ NodeInv' /\ ItemsInv' /\ head' \in [Index -> Address] /\ mark' \in [Index -> BOOLEAN]
        /\ tail' \in [Index -> Address] /\ line' \in [Index -> Seq(Nodes)]
    <3>1. UNCHANGED <<kind, node, heap, put>>
      BY <1>9
    <3> QED BY <1>0, <1>3, <1>4, <1>7, <1>9, <1>10, <1>a, <2>1, <2>2, <2>3, <3>1, FirstTaken
  <2>5. SharedInv' /\ TookInv'
    BY <1>0, <1>9 DEF SharedInv, TookInv
  <2>6. DataOK'
    BY <1>0, <1>1, <2>4 DEF DataOK, slots, cnts, hist
  <2> QED BY <1>9, <1>10, <1>11, <2>4, <2>5, <2>6, StepOf
<1> QED BY <1>12, <1>13

(* A dequeue of ev_paqueue moves the head on, or clears it, or finds that  *)
(* an enqueue has already stored a new one.                                *)
LEMMA PaMoveHeadKeeps ==
    ASSUME ArrayInv, NEW c \in Dequeuers, PaMoveHead(c)
    PROVE  ArrayInv'
<1>a. PICK i, n : i = I(c) /\ n = t[c].n
  OBVIOUS
<1>0. /\ TypeOK /\ DataOK /\ NodeInv /\ ItemsInv /\ TicketInv /\ TookInv /\ SharedInv
      /\ c \in Threads /\ c \notin Enqueuers
  BY Names DEF ArrayInv, TypeOK
<1>1. /\ t[c].pc = "move" /\ ~wild /\ Goto(c, "free")
      /\ UNCHANGED <<kind, tail, node, heap, slots, cnts, hist>>
  BY DEF PaMoveHead, At
<1>2. /\ kind = "pa" /\ i \in Index /\ t[c] \in Locals /\ mark \in [Index -> BOOLEAN]
      /\ t[c].pc \in ClaimPCs
  <2>1. i \in Index
    BY <1>0, <1>a DEF TypeOK, ThreadOK, I
  <2>2. t[c].pc \in ClaimPCs
    BY <1>1 DEF ClaimPCs
  <2> QED BY <1>0, <1>1, <1>a, <2>1, <2>2, PKind, LocalsOf DEF DataOK
<1> DEFINE r == [t[c] EXCEPT !.pc = "free"]
<1>3. "free" \in Labels /\ "free" \in DequeuePCs("pa")
  BY DEF Labels, DequeuePCs
<1>4. r \in Locals /\ r.pc = "free" /\ r.idx = i /\ r.idx = t[c].idx /\ r.n = n
  BY <1>2, <1>3, <1>a DEF Locals, I
<1>5. Set(c, r)
  BY <1>1 DEF Goto
<1> HIDE DEF r
<1>6. /\ kind' = kind /\ wild' = wild /\ uaf' = uaf /\ put' = put /\ took' = took /\ q' = q
      /\ tail' = tail /\ node' = node /\ heap' = heap
  BY <1>1 DEF hist, slots
<1>7. Moved(c, r) /\ ThreadOK'
  BY <1>0, <1>1, <1>2, <1>3, <1>4, <1>5, <1>6, ThreadMoves
<1>8. TicketInv'
  BY <1>2, <1>6 DEF TicketInv
<1>9. SharedInv' /\ TookInv'
  BY <1>0, <1>6 DEF SharedInv, TookInv
<1>10. Holds(c) <=> t[c].next # Null
  BY <1>1 DEF Holds
<1>11. t'[c].pc = "free" /\ t'[c].n = n /\ t'[c].idx = i
  BY <1>4, <1>7 DEF Moved, Alike
<1>12. CASE t[c].next # Null
  <2>1. Holds(c) /\ Past(c)
    BY <1>1, <1>10, <1>12 DEF Past
  <2>2. head[i] = n /\ mark[i]
    BY <1>0, <1>2, <1>a, <2>1 DEF NodeInv, ClaimInv
  <2>3. node[n].next # Null /\ t[c].next = node[n].next
    BY <1>0, <1>1, <1>12, <1>a DEF NodeInv, ReadInv
  <2>4. /\ head' = [head EXCEPT ![i] = node[n].next] /\ mark' = [mark EXCEPT ![i] = FALSE]
        /\ line' = [line EXCEPT ![i] = Tail(@)]
    BY <1>12, <1>a, <2>2, <2>3 DEF PaMoveHead, TakenOff
  <2>5. Len(took'[i]) = Offset(i) + 1 /\ \A j \in Index : j # i => took'[j] = took[j]
    BY <1>0, <1>2, <1>6, <1>a, <2>1, PastTook
  <2>6. /\ NodeInv' /\ ItemsInv' /\ head' \in [Index -> Address] /\ mark' \in [Index -> BOOLEAN]
        /\ line' \in [Index -> Seq(Nodes)]
    <3>1. kind \in {"p", "pa"} /\ UNCHANGED <<kind, node, heap, put>>
      BY <1>2, <1>6
    <3>2. TypeOK /\ NodeInv /\ ItemsInv
      BY <1>0
    <3> QED BY <1>4, <1>6, <1>7, <1>a, <2>1, <2>3, <2>4, <2>5, <3>1, <3>2, FirstTaken
  <2>7. DataOK'
    BY <1>0, <1>1, <2>6 DEF DataOK, slots, cnts, hist
  <2> QED BY <1>6, <1>7, <1>8, <1>9, <2>6, <2>7, StepOf
<1>13. CASE t[c].next = Null /\ head[i] = n /\ mark[i]
  <2>1. /\ head' = [head EXCEPT ![i] = Null] /\ mark' = [mark EXCEPT ![i] = FALSE]
        /\ line' = line
    BY <1>13, <1>a DEF PaMoveHead
  <2>2. ~Holds(c) /\ ~Past(c)
    BY <1>10, <1>13 DEF Past
  <2>3. NodeInv' /\ head' \in [Index -> Address] /\ mark' \in [Index -> BOOLEAN]
    <3>1. UNCHANGED <<kind, tail, node, heap, line>> /\ TypeOK /\ NodeInv
      BY <1>0, <1>6, <2>1
    <3>2. kind = "pa" /\ t[c].pc = "move" /\ r.pc = "free" /\ r.n = n /\ r.idx = i
      BY <1>1, <1>2, <1>4
    <3> QED BY <1>7, <1>13, <1>a, <2>1, <2>2, <3>1, <3>2, HeadDropped
  <2>4. ItemsInv'
    <3>1. /\ ~Past(c)'
          /\ \A d \in Dequeuers : d # c => (Past(d)' <=> Past(d)) /\ I(d)' = I(d)
      BY <1>7, <1>11, DequeuerMoves DEF Past, Holds
    <3>2. \A j : Passed(j)' <=> Passed(j)
      <4>1. \A d \in Dequeuers : (Past(d)' <=> Past(d)) /\ (Past(d) => I(d)' = I(d))
        BY <2>2, <3>1
      <4> QED BY <4>1 DEF Passed
    <3> QED BY <1>0, <1>6, <2>1, <3>2 DEF ItemsInv, Offset
  <2>5. DataOK'
    BY <1>0, <1>1, <2>1, <2>3 DEF DataOK, slots, cnts, hist
  <2> QED BY <1>6, <1>7, <1>8, <1>9, <2>3, <2>4, <2>5, StepOf
<1>14. CASE t[c].next = Null /\ ~(head[i] = n /\ mark[i])
  <2>1. head' = head /\ mark' = mark /\ line' = line
    BY <1>14, <1>a DEF PaMoveHead
  <2>2. SameLists
    BY <1>6, <2>1 DEF SameLists
  <2>3. DataOK'
    BY <1>0, <1>1, <2>1 DEF DataOK, slots, cnts, hist
  <2>4. head[i] # n
    <3>1. ~InLine(n, i) /\ n # Null
      <4>1. ~Holds(c)
        BY <1>10, <1>14
      <4> QED BY <1>0, <1>2, <1>a, <4>1, Claimed DEF NodeInv, ClaimInv
    <3>2. head[i] # Null /\ ~mark[i] => InLine(head[i], i)
      <4>1. head[i] # Null /\ ~mark[i] => line[i] # <<>> /\ line[i][1] = head[i]
        BY <1>0, <1>2 DEF NodeInv, HeadInv
      <4>2. line[i] # <<>> => 1 \in 1..Len(line[i])
        BY <1>0, <1>2, LineLength
      <4> QED BY <4>1, <4>2 DEF InLine
    <3> QED BY <1>14, <3>1, <3>2
  <2>5. ~Holds(c) /\ ~Holds(c)' /\ ~Past(c) /\ ~Past(c)'
    BY <1>10, <1>11, <1>14 DEF Holds, Past
  <2>6. t'[c].pc \notin SwapPCs /\ t'[c].pc \notin LinkPCs
    BY <1>11 DEF SwapPCs, LinkPCs
  <2>7. Kept(c)
    BY <1>2, <1>11, <1>a, <2>4, <2>5, <2>6 DEF Kept, I
  <2>8. ReadOK(c)'
    BY <1>11 DEF ReadOK
  <2> QED BY <1>0, <1>6, <1>7, <1>8, <2>2, <2>3, <2>7, <2>8, QuietKeeps
<1> QED BY <1>12, <1>13, <1>14

(* A node that is freed is in no line, no head and no other thread's.      *)
LEMMA NodeFreed ==
    ASSUME TypeOK, NodeInv, ItemsInv, NEW c \in Dequeuers, t[c].pc = "free",
           NEW n, n = t[c].n, heap' = heap \ {n},
           UNCHANGED <<kind, head, mark, tail, node, line, put, took>>,
           NEW r, Moved(c, r), r.pc = "idle"
    PROVE  NodeInv' /\ ItemsInv' /\ n \in heap /\ n \in Nodes
<1>0. /\ LineInv /\ HeadInv /\ SwapInv /\ LinkInv /\ StartInv /\ ClaimInv /\ ReadInv
      /\ kind' = kind /\ head' = head /\ mark' = mark /\ tail' = tail /\ node' = node
      /\ line' = line /\ put' = put /\ took' = took /\ heap \subseteq Nodes
      /\ \A d \in Dequeuers : I(d) \in Index
      /\ Null \notin Nodes
  BY Names DEF NodeInv, TypeOK, DataOK, ThreadOK, I
<1>1. t[c].pc \in ClaimPCs /\ ~Holds(c) /\ ~Past(c)
  BY DEF ClaimPCs, Holds, Past
<1>2. /\ n \in heap /\ n \in Nodes /\ n # Null
      /\ \A j \in Index : head[j] # n /\ ~InLine(n, j)
      /\ \A d \in Dequeuers : d # c /\ t[d].pc \in ClaimPCs => t[d].n # n
      /\ \A b \in Enqueuers : t[b].pc \in SwapPCs => t[b].n # n
  BY <1>0, <1>1 DEF ClaimInv
<1>3. /\ \A j \in Index : \A k \in 1..Len(line[j]) : line[j][k] # n
      /\ \A x, j : InLine(x, j)' <=> InLine(x, j)
  BY <1>0, <1>2 DEF InLine
<1>4. /\ \A b \in Enqueuers :
            /\ t'[b].pc = t[b].pc /\ t'[b].n = t[b].n /\ t'[b].next = t[b].next
            /\ t'[b].item = t[b].item /\ I(b)' = I(b)
            /\ Linking(b)' <=> Linking(b)
            /\ Starting(b)' <=> Starting(b)
      /\ \A d \in Dequeuers : d # c =>
            /\ t'[d].pc = t[d].pc /\ t'[d].n = t[d].n /\ t'[d].next = t[d].next
            /\ I(d)' = I(d)
            /\ Holds(d)' <=> Holds(d)
            /\ Past(d)' <=> Past(d)
      /\ t'[c].pc = "idle"
  BY DequeuerMoves
<1>5. t'[c].pc \notin ClaimPCs /\ ~Holds(c)' /\ ~Past(c)'
  BY <1>4 DEF ClaimPCs, Holds, Past
<1>6. LineInv'
  BY <1>0, <1>3 DEF LineInv
<1>7. HeadInv'
  BY <1>0, <1>2, <1>3 DEF HeadInv
<1>8. SwapInv'
  <2>1. \A b \in Enqueuers :
           t'[b].pc = t[b].pc /\ t'[b].n = t[b].n /\ t'[b].item = t[b].item
    BY <1>4
  <2> QED BY <1>0, <1>2, <1>3, <2>1 DEF SwapInv
<1>9. LinkInv'
  <2>1. \A b \in Enqueuers : Linking(b)' =>
           Linking(b) /\ t'[b].n = t[b].n /\ t'[b].next = t[b].next /\ I(b)' = I(b)
    BY <1>4
  <2> QED BY <1>0, <2>1 DEF LinkInv
<1>10. StartInv'
  <2>1. \A d \in Dequeuers : Holds(d)' => Holds(d) /\ I(d)' = I(d)
    BY <1>4, <1>5
  <2>2. \A b \in Enqueuers : Starting(b)' => Starting(b) /\ t'[b].n = t[b].n /\ I(b)' = I(b)
    BY <1>4
  <2> QED BY <1>0, <2>1, <2>2 DEF StartInv
<1>11. ClaimInv'
  <2>1. ASSUME NEW d \in Dequeuers, t'[d].pc \in ClaimPCs
        PROVE  /\ t'[d].n \in heap'
               /\ \A j \in Index : j # I(d)' => head'[j] # t'[d].n /\ ~InLine(t[d].n, j)'
               /\ Holds(d)' => /\ line'[I(d)'] # <<>> /\ line'[I(d)'][1] = t'[d].n
                               /\ head'[I(d)'] = IF kind' = "p" /\ Past(d)' THEN Null ELSE t'[d].n
                               /\ mark'[I(d)'] <=> kind' = "pa"
               /\ ~Holds(d)' => ~InLine(t[d].n, I(d))'
               /\ t'[d].pc = "free" => head'[I(d)'] # t'[d].n
    <3>1. /\ t[d].pc \in ClaimPCs /\ t'[d].pc = t[d].pc /\ t'[d].n = t[d].n /\ I(d)' = I(d)
          /\ Holds(d)' <=> Holds(d)
          /\ Past(d)' <=> Past(d)
          /\ t[d].n # n
      BY <1>2, <1>4, <1>5, <2>1
    <3>2. /\ t[d].n \in heap
          /\ \A j \in Index : j # I(d) => head[j] # t[d].n /\ ~InLine(t[d].n, j)
          /\ Holds(d) => /\ line[I(d)] # <<>> /\ line[I(d)][1] = t[d].n
                         /\ head[I(d)] = IF kind = "p" /\ Past(d) THEN Null ELSE t[d].n
                         /\ mark[I(d)] <=> kind = "pa"
          /\ ~Holds(d) => ~InLine(t[d].n, I(d))
          /\ t[d].pc = "free" => head[I(d)] # t[d].n
      BY <1>0, <3>1 DEF ClaimInv
    <3>3. /\ \A j \in Index : j # I(d)' => ~InLine(t[d].n, j)'
          /\ ~Holds(d)' => ~InLine(t[d].n, I(d))'
      BY <1>3, <3>1, <3>2
    <3> QED BY <1>0, <3>1, <3>2, <3>3
  <2>2. /\ \A d \in Dequeuers : t'[d].pc \in ClaimPCs => t'[d].n = t[d].n /\ t[d].pc \in ClaimPCs
        /\ \A b \in Enqueuers : t'[b].pc = t[b].pc /\ t'[b].n = t[b].n
    BY <1>4, <1>5
  <2>3. /\ \A d, e \in Dequeuers :
              t'[d].pc \in ClaimPCs /\ t'[e].pc \in ClaimPCs /\ t'[d].n = t'[e].n => d = e
        /\ \A d \in Dequeuers, b \in Enqueuers :
              t'[d].pc \in ClaimPCs /\ t'[b].pc \in SwapPCs => t'[d].n # t'[b].n
    BY <1>0, <2>2 DEF ClaimInv
  <2> QED BY <2>1, <2>3 DEF ClaimInv
<1>12. ReadInv'
  <2>1. \A d \in Dequeuers : d # c =>
           t'[d].pc = t[d].pc /\ t'[d].n = t[d].n /\ t'[d].next = t[d].next
    BY <1>4
  <2> QED BY <1>0, <1>4, <2>1 DEF ReadInv
<1>13. ItemsInv'
  <2>1. \A d \in Dequeuers : (Past(d)' <=> Past(d)) /\ (Past(d) => I(d)' = I(d))
    BY <1>1, <1>4, <1>5
  <2>2. \A j : Passed(j)' <=> Passed(j)
    BY <2>1 DEF Passed
  <2> QED BY <1>0, <2>2 DEF ItemsInv, Offset
<1> QED BY <1>2, <1>6, <1>7, <1>8, <1>9, <1>10, <1>11, <1>12, <1>13 DEF NodeInv

(* A dequeue frees its node and returns the item.                          *)
LEMMA FreeKeeps ==
    ASSUME ArrayInv, NEW c \in Dequeuers, FreeNode(c)
    PROVE  ArrayInv'
<1>0. /\ TypeOK /\ DataOK /\ NodeInv /\ ItemsInv /\ TicketInv /\ TookInv /\ SharedInv
      /\ c \in Threads /\ c \notin Enqueuers /\ uaf \in BOOLEAN /\ node \in [Nodes -> Cells]
  BY Names DEF ArrayInv, TypeOK, DataOK
<1>1. /\ t[c].pc = "free" /\ ~wild /\ Answer(c, node[t[c].n].item)
      /\ uaf' = (uaf \/ t[c].n \notin heap) /\ heap' = heap \ {t[c].n}
      /\ UNCHANGED <<kind, head, mark, tail, node, line, slots, cnts, made, put, took, wild>>
  BY DEF FreeNode, At, Touch
<1>2. t[c].n \in heap /\ t[c].n \in Nodes
  <2>1. t[c].pc \in ClaimPCs
    BY <1>1 DEF ClaimPCs
  <2> QED BY <1>0, <2>1, Claimed
<1>3. node[t[c].n].item \in Answers
  BY <1>0, <1>2 DEF Cells, Answers
<1>4. PICK r \in Locals : Set(c, r) /\ r.pc = "idle" /\ r.idx = 0
  BY <1>0, <1>1, <1>3, AnswerIs
<1>5. /\ r.pc \in DequeuePCs(kind) /\ r.idx \in Index
      /\ r.pc \notin TicketPCs /\ r.pc \notin TurnPCs
  BY <1>4, Size DEF DequeuePCs, TicketPCs, TurnPCs
<1>6. Moved(c, r) /\ ThreadOK'
  BY <1>0, <1>1, <1>4, <1>5, ThreadMoves
<1>7. NodeInv' /\ ItemsInv'
  <2>1. UNCHANGED <<kind, head, mark, tail, node, line, put, took>>
    BY <1>1
  <2> QED BY <1>0, <1>1, <1>4, <1>6, <2>1, NodeFreed
<1>8. TicketInv'
  BY <1>0, <1>1, <1>5, <1>6, TicketKept DEF cnts
<1>9. SharedInv' /\ TookInv'
  BY <1>0, <1>1 DEF SharedInv, TookInv, slots
<1>10. uaf' = uaf
  <2>1. (uaf \/ t[c].n \notin heap) = uaf
    BY <1>0, <1>2
  <2> QED BY <1>1, <2>1
<1>11. DataOK'
  BY <1>0, <1>1, <1>10 DEF DataOK, slots, cnts
<1> QED BY <1>6, <1>7, <1>8, <1>9, <1>10, <1>11, StepOf

-----------------------------------------------------------------------------
(* ev_paqueue: the search for a list that is not empty.                    *)

(* A dequeue draws its slot and looks at tails and heads.                  *)
LEMMA PaSearchKeeps ==
    ASSUME ArrayInv, NEW c \in Dequeuers, PaDeqSlot(c) \/ PaLoadTail(c) \/ PaLoadHead(c)
    PROVE  ArrayInv'
<1>0. /\ TypeOK /\ DataOK /\ c \in Threads /\ c \notin Enqueuers /\ deq_counter \in Nat
      /\ t[c] \in Locals /\ t[c].idx \in Index
  <2>1. TypeOK /\ DataOK /\ c \in Threads /\ c \notin Enqueuers /\ deq_counter \in Nat
    BY Names DEF ArrayInv, TypeOK, DataOK
  <2> QED BY <2>1, LocalsOf DEF TypeOK, ThreadOK
<1>1. /\ kind = "pa" /\ t[c].pc \in OuterPCs /\ ~wild
      /\ UNCHANGED <<kind, lists, slots, d_guard, hist>>
  <2>1. /\ t[c].pc \in {"idle", "tail", "head"} /\ ~wild
        /\ t[c].pc = "idle" => kind = "pa"
        /\ UNCHANGED <<kind, lists, slots, d_guard, hist>>
    BY DEF PaDeqSlot, PaLoadTail, PaLoadHead, At, cnts
  <2> QED BY <1>0, <2>1, PKind DEF OuterPCs
<1>2. /\ SameLists /\ q' = q /\ uaf' = uaf /\ wild' = wild /\ DataOK'
  <2>1. deq_counter' \in Nat
    <3>1. (deq_counter + 1) % N \in Nat
      <4>1. deq_counter + 1 \in Nat
        BY <1>0
      <4> QED BY <4>1, Size
    <3> QED BY <1>0, <3>1 DEF PaDeqSlot, PaLoadTail, PaLoadHead, cnts
  <2>2. UNCHANGED <<enq_counter, ub_count, lb_count, e_guard>>
    BY DEF PaDeqSlot, PaLoadTail, PaLoadHead, cnts
  <2> QED BY <1>0, <1>1, <2>1, <2>2 DEF SameLists, DataOK, lists, slots, hist
<1>3. ASSUME NEW r \in Locals, Set(c, r) \/ Enter(c, r), r.pc \in {"tail", "head", "mark"},
             r.idx \in Index, r.pc = "mark" => r.n # Null
      PROVE  ArrayInv'
  <2>1. r.pc \in OuterPCs /\ r.pc \in DequeuePCs(kind)
    BY <1>1, <1>3 DEF OuterPCs, DequeuePCs
  <2> QED BY <1>0, <1>1, <1>2, <1>3, <2>1, StepKeeps
<1>4. "tail" \in Labels /\ "head" \in Labels /\ "mark" \in Labels
  BY DEF Labels, DequeuePCs
<1>5. CASE PaDeqSlot(c)
  <2> DEFINE r == [Idle EXCEPT !.pc = "tail", !.idx = deq_counter % N]
  <2>1. deq_counter % N \in Index /\ deq_counter % N \in Nat /\ Idle \in Locals
    BY <1>0, LocalsOf, Size
  <2>2. r \in Locals /\ r.pc = "tail" /\ r.idx = deq_counter % N
    BY <1>4, <2>1 DEF Locals
  <2>3. Enter(c, r)
    BY <1>5 DEF PaDeqSlot
  <2> HIDE DEF r
  <2> QED BY <1>3, <2>1, <2>2, <2>3
<1>6. ASSUME NEW x \in Nat, Set(c, NextList(c, x)) PROVE ArrayInv'
  <2> DEFINE r == NextList(c, x)
  <2>1. r \in Locals /\ r.pc = "tail" /\ r.idx \in Index
    BY <1>0, NextListIs
  <2>2. Set(c, r)
    BY <1>6
  <2> HIDE DEF r
  <2> QED BY <1>3, <2>1, <2>2
<1>7. CASE PaLoadTail(c)
  <2>1. CASE tail[I(c)] # Null
    <3> DEFINE r == [t[c] EXCEPT !.pc = "head", !.tries = 0]
    <3>1. r \in Locals /\ r.pc = "head" /\ r.idx = t[c].idx
      BY <1>0, <1>4 DEF Locals
    <3>2. Set(c, r)
      BY <1>7, <2>1 DEF PaLoadTail
    <3> HIDE DEF r
    <3> QED BY <1>0, <1>3, <3>1, <3>2
  <2>2. CASE tail[I(c)] = Null /\ t[c].tries + 1 < N
    <3>1. t[c].tries + 1 \in Nat
      BY <1>0 DEF Locals
    <3>2. Set(c, NextList(c, t[c].tries + 1))
      BY <1>7, <2>2 DEF PaLoadTail
    <3> QED BY <1>6, <3>1, <3>2
  <2>3. CASE tail[I(c)] = Null /\ ~(t[c].tries + 1 < N)
    <3>1. Answer(c, Empty) /\ Empty \in Answers /\ UNCHANGED <<deq_counter, d_guard>>
      BY <1>7, <2>3 DEF PaLoadTail, Answers, cnts
    <3> QED BY <1>0, <1>1, <1>2, <3>1, AnswerKeeps
  <2> QED BY <2>1, <2>2, <2>3
<1>8. CASE PaLoadHead(c)
  <2>1. CASE head[I(c)] # Null /\ ~mark[I(c)]
    <3> DEFINE r == [t[c] EXCEPT !.pc = "mark", !.n = head[I(c)]]
    <3>1. head[I(c)] \in Address
      BY <1>0 DEF DataOK, I
    <3>2. r \in Locals /\ r.pc = "mark" /\ r.idx = t[c].idx /\ r.n = head[I(c)]
      BY <1>0, <1>4, <3>1 DEF Locals
    <3>3. Set(c, r)
      BY <1>8, <2>1 DEF PaLoadHead
    <3> HIDE DEF r
    <3> QED BY <1>0, <1>3, <2>1, <3>2, <3>3
  <2>2. CASE ~(head[I(c)] # Null /\ ~mark[I(c)])
    <3>1. Set(c, NextList(c, 0))
      BY <1>8, <2>2 DEF PaLoadHead
    <3> QED BY <1>6, <3>1
  <2> QED BY <2>1, <2>2
<1> QED BY <1>5, <1>7, <1>8

-----------------------------------------------------------------------------
(* ev_mpiqueue and ev_piqueue: lists whose items are in q.                 *)

(* Their threads never hold a node, so only the items matter.              *)
LEMMA SharedKeeps ==
    ASSUME ArrayInv, kind \in {"mpi", "pi"}, NEW c \in Threads, NEW r \in Locals,
           Set(c, r) \/ Enter(c, r), ~wild, UNCHANGED <<kind, lists, uaf>>,
           c \in Enqueuers => r.pc \in EnqueuePCs(kind),
           c \in Dequeuers => r.pc \in DequeuePCs(kind) /\ r.idx \in Index,
           c \in Enqueuers /\ ~wild' => r.idx \in Index,
           DataOK', SharedInv', TookInv'
    PROVE  ArrayInv'
<1>0. /\ TypeOK /\ LineInv /\ HeadInv
      /\ UNCHANGED <<kind, head, mark, tail, heap, line, uaf>> /\ node' = node
  BY DEF ArrayInv, NodeInv, lists
<1>1. ThreadOK'
  <2>1. kind # "p" /\ kind # "pa"
    OBVIOUS
  <2> QED BY <1>0, <2>1, ThreadMoves
<1>2. \A x, j : InLine(x, j)' <=> InLine(x, j)
  BY <1>0 DEF InLine
<1>3. LineInv' /\ HeadInv'
  BY <1>0, <1>2 DEF LineInv, HeadInv
<1>4. /\ \A b \in Enqueuers : t'[b].pc \notin SwapPCs /\ t'[b].pc \notin LinkPCs
      /\ \A d \in Dequeuers : t'[d].pc \in {"idle", "d_bump", "try", "take"}
  <2>1. /\ \A b \in Enqueuers : t'[b].pc \in EnqueuePCs(kind)
        /\ \A d \in Dequeuers : t'[d].pc \in DequeuePCs(kind)
    BY <1>0, <1>1 DEF ThreadOK
  <2>2. /\ EnqueuePCs(kind)
              \subseteq {"idle", "wrap", "store", "index", "trylock", "append", "bump", "bumped"}
        /\ DequeuePCs(kind) = {"idle", "d_bump", "try", "take"}
    BY DEF EnqueuePCs, DequeuePCs
  <2> QED BY <2>1, <2>2 DEF SwapPCs, LinkPCs
<1>5. SwapInv' /\ LinkInv' /\ StartInv'
  BY <1>4 DEF SwapInv, LinkInv, StartInv, Linking, Starting
<1>6. ClaimInv' /\ ReadInv'
  BY <1>4 DEF ClaimInv, ReadInv, ClaimPCs
<1>7. ItemsInv' /\ TicketInv'
  BY <1>0 DEF ItemsInv, TicketInv
<1> QED BY <1>0, <1>1, <1>3, <1>5, <1>6, <1>7 DEF ArrayInv, NodeInv, TypeOK

(* What they leave alone when no item moves.                               *)
LEMMA NoItemMoves ==
    ASSUME ArrayInv, UNCHANGED <<kind, q, put, took>>
    PROVE  SharedInv' /\ TookInv'
BY DEF ArrayInv, SharedInv, TookInv

(* The shared index is read and written.                                   *)
LEMMA IndexKeeps ==
    ASSUME ArrayInv, NEW c \in Enqueuers, IndexSteps(c) \/ MpiTryLock(c)
    PROVE  ArrayInv'
<1>0. /\ TypeOK /\ DataOK /\ c \in Threads /\ c \notin Dequeuers
      /\ t[c] \in Locals /\ Idle \in Locals /\ Idle.idx = 0 /\ Idle.pc = "idle" /\ 0 \in Index
      /\ st_index \in Nat /\ made \in Nat /\ lock \in [Index -> BOOLEAN]
  <2>1. TypeOK /\ DataOK /\ c \in Threads /\ c \notin Dequeuers
    BY Names DEF ArrayInv, TypeOK
  <2> QED BY <2>1, LocalsOf, Size DEF DataOK
<1>1. /\ kind \in {"mpi", "pi"} /\ ~wild /\ UNCHANGED <<kind, lists, uaf, q, put, took>>
      /\ t[c].idx \in Index /\ t[c].cnt \in Nat
  <2>1. /\ t[c].pc \in {"idle", "wrap", "store", "index", "bump", "bumped", "trylock"} /\ ~wild
        /\ t[c].pc = "idle" => kind \in {"mpi", "pi"}
        /\ UNCHANGED <<kind, lists, uaf, q, put, took>>
    BY DEF IndexSteps, MpiTryLock, IndexCall, IndexWrap, IndexStore, IndexLoad, IndexNext,
           IndexBumped, At, slots, hist
  <2>2. kind \in {"mpi", "pi"}
    BY <1>0, <2>1, PKind
  <2> QED BY <1>0, <2>1, <2>2 DEF TypeOK, ThreadOK, Locals
<1>2. SharedInv' /\ TookInv'
  BY <1>1, NoItemMoves
<1>3. /\ {"idle", "wrap", "store", "index", "trylock", "append", "bump", "bumped"} \subseteq Labels
      /\ {"idle", "wrap", "store", "index", "append", "bump", "bumped"} \subseteq EnqueuePCs(kind)
      /\ kind = "mpi" => "trylock" \in EnqueuePCs(kind)
  BY <1>1 DEF Labels, EnqueuePCs
<1>4. DataOK'
  <2>1. st_index' \in Nat /\ made' \in Nat /\ wild' \in BOOLEAN /\ lock' \in [Index -> BOOLEAN]
    <3>1. made + 1 \in Nat /\ wild \in BOOLEAN
      BY <1>0 DEF DataOK
    <3>2. CASE IndexCall(c)
      BY <1>0, <3>1, <3>2 DEF IndexCall, slots
    <3>3. CASE IndexWrap(c) \/ IndexNext(c)
      BY <1>0, <3>1, <3>3 DEF IndexWrap, IndexNext, slots, hist
    <3>4. CASE IndexStore(c) \/ IndexBumped(c)
      BY <1>0, <1>1, <3>1, <3>4 DEF IndexStore, IndexBumped, hist
    <3>5. CASE IndexLoad(c)
      BY <1>0, <3>1, <3>5 DEF IndexLoad, slots
    <3>6. CASE MpiTryLock(c)
      BY <1>0, <1>1, <3>1, <3>6 DEF MpiTryLock, hist, I
    <3> QED BY <3>2, <3>3, <3>4, <3>5, <3>6 DEF IndexSteps
  <2>2. UNCHANGED <<st_dindex, cnts>>
    BY DEF IndexSteps, MpiTryLock, IndexCall, IndexWrap, IndexStore, IndexLoad, IndexNext,
           IndexBumped, slots
  <2> QED BY <1>0, <1>1, <2>1, <2>2 DEF DataOK, lists, cnts
<1>5. ASSUME NEW r \in Locals, Set(c, r) \/ Enter(c, r), r.pc \in EnqueuePCs(kind),
             ~wild' => r.idx \in Index
      PROVE  ArrayInv'
  BY <1>0, <1>1, <1>2, <1>4, <1>5, SharedKeeps
<1>6. CASE IndexCall(c)
  <2> DEFINE l == IF kind = "mpi" THEN "wrap" ELSE "index"
             r == [Idle EXCEPT !.pc = l, !.item = made + 1]
  <2>1. made + 1 \in Nat /\ l \in Labels /\ l \in EnqueuePCs(kind)
    BY <1>0, <1>3
  <2>2. Enter(c, r)
    BY <1>6 DEF IndexCall
  <2> HIDE DEF l
  <2>3. r \in Locals /\ r.pc = l /\ r.idx = 0
    BY <1>0, <2>1 DEF Locals
  <2> HIDE DEF r
  <2> QED BY <1>0, <1>5, <2>1, <2>2, <2>3
<1>7. CASE IndexWrap(c)
  <2> DEFINE r == [t[c] EXCEPT !.pc = "store", !.cnt = st_index % N]
  <2>1. st_index % N \in Nat
    BY <1>0, Size
  <2>2. r \in Locals /\ r.pc = "store" /\ r.idx = t[c].idx
    BY <1>0, <1>3, <2>1 DEF Locals
  <2>3. Set(c, r)
    BY <1>7 DEF IndexWrap
  <2> HIDE DEF r
  <2> QED BY <1>1, <1>3, <1>5, <2>2, <2>3
<1>8. CASE IndexStore(c)
  <2>1. CASE kind = "pi"
    <3>1. Set(c, Idle)
      BY <1>8, <2>1 DEF IndexStore
    <3> QED BY <1>0, <1>3, <1>5, <3>1
  <2>2. CASE kind # "pi"
    <3> DEFINE r == [t[c] EXCEPT !.pc = "index", !.cnt = 0]
    <3>1. r \in Locals /\ r.pc = "index" /\ r.idx = t[c].idx
      BY <1>0, <1>3 DEF Locals
    <3>2. Set(c, r)
      BY <1>8, <2>2 DEF IndexStore
    <3> HIDE DEF r
    <3> QED BY <1>1, <1>3, <1>5, <3>1, <3>2
  <2> QED BY <2>1, <2>2
<1>9. CASE IndexLoad(c)
  <2> DEFINE l == IF kind = "mpi" THEN "trylock" ELSE "append"
             r == [t[c] EXCEPT !.pc = l, !.idx = st_index]
  <2>1. l \in Labels /\ l \in EnqueuePCs(kind)
    BY <1>3
  <2>2. Set(c, r) /\ (~wild' => st_index \in Index)
    BY <1>9 DEF IndexLoad
  <2> HIDE DEF l
  <2>3. r \in Locals /\ r.pc = l /\ r.idx = st_index
    BY <1>0, <2>1 DEF Locals
  <2> HIDE DEF r
  <2> QED BY <1>5, <2>1, <2>2, <2>3
<1>10. CASE IndexNext(c)
  <2> DEFINE r == [t[c] EXCEPT !.pc = "bumped", !.cnt = st_index + 1]
  <2>1. st_index + 1 \in Nat
    BY <1>0
  <2>2. r \in Locals /\ r.pc = "bumped" /\ r.idx = t[c].idx
    BY <1>0, <1>3, <2>1 DEF Locals
  <2>3. Set(c, r)
    BY <1>10 DEF IndexNext
  <2> HIDE DEF r
  <2> QED BY <1>1, <1>3, <1>5, <2>2, <2>3
<1>11. CASE IndexBumped(c)
  <2> DEFINE r == [t[c] EXCEPT !.pc = "wrap", !.cnt = 0, !.idx = 0]
  <2>1. r \in Locals /\ r.pc = "wrap" /\ r.idx = 0
    BY <1>0, <1>3 DEF Locals
  <2>2. Set(c, r)
    BY <1>11 DEF IndexBumped
  <2> HIDE DEF r
  <2> QED BY <1>0, <1>3, <1>5, <2>1, <2>2
<1>12. CASE MpiTryLock(c)
  <2> DEFINE l == IF lock[I(c)] THEN "bump" ELSE "append"
             r == [t[c] EXCEPT !.pc = l]
  <2>1. l \in Labels /\ l \in EnqueuePCs(kind)
    BY <1>3
  <2>2. Set(c, r)
    BY <1>12 DEF MpiTryLock, Goto
  <2> HIDE DEF l
  <2>3. r \in Locals /\ r.pc = l /\ r.idx = t[c].idx
    BY <1>0, <2>1 DEF Locals
  <2> HIDE DEF r
  <2> QED BY <1>1, <1>5, <2>1, <2>2, <2>3
<1> QED BY <1>6, <1>7, <1>8, <1>9, <1>10, <1>11, <1>12 DEF IndexSteps

(* Positions in what was put, what was taken and what is left.             *)
LEMMA Places ==
    ASSUME NEW a \in Nat, NEW b \in Nat, NEW k \in Nat
    PROVE  /\ k \in 1..(b + 1) => k \in 1..b \/ k = b + 1
           /\ k \in 1..b => a + k \in 1..(a + b)
           /\ a + (b + 1) = (a + b) + 1
           /\ b > 0 /\ k \in 1..(b - 1) => k + 1 \in 1..b /\ (a + 1) + k = a + (k + 1)
           /\ b > 0 => (a + 1) + (b - 1) = a + b /\ a + 1 <= a + b /\ 1 \in 1..b
OBVIOUS

(* An item is put into a list.                                             *)
LEMMA ItemPut ==
    ASSUME TypeOK, SharedInv, kind \in {"mpi", "pi"}, NEW i \in Index, NEW x \in Nat,
           q' = [q EXCEPT ![i] = Append(@, x)], put' = [put EXCEPT ![i] = Append(@, x)],
           took' = took, kind' = kind
    PROVE  SharedInv' /\ q' \in [Index -> Seq(Nat)]
<1>1. /\ q \in [Index -> Seq(Nat)] /\ put \in [Index -> Seq(Nat)] /\ took \in [Index -> Seq(Nat)]
      /\ q[i] \in Seq(Nat) /\ put[i] \in Seq(Nat) /\ took[i] \in Seq(Nat)
  BY DEF TypeOK, DataOK
<1>2. PICK a, b : a = Len(took[i]) /\ b = Len(q[i])
  OBVIOUS
<1>3. a \in Nat /\ b \in Nat
  BY <1>1, <1>2
<1>4. /\ Len(put[i]) = a + b
      /\ \A k \in 1..b : q[i][k] = put[i][a + k]
      /\ \A j \in Index : /\ Len(put[j]) = Len(took[j]) + Len(q[j])
                          /\ \A k \in 1..Len(q[j]) : q[j][k] = put[j][Len(took[j]) + k]
  BY <1>2 DEF SharedInv
<1>5. /\ q'[i] \in Seq(Nat) /\ Len(q'[i]) = b + 1
      /\ q'[i][b + 1] = x /\ \A k \in 1..b : q'[i][k] = q[i][k]
  <2>1. q'[i] = Append(q[i], x)
    BY <1>1
  <2> QED BY <1>1, <1>2, <2>1, Joined
<1>6. /\ Len(put'[i]) = (a + b) + 1
      /\ put'[i][(a + b) + 1] = x /\ \A k \in 1..(a + b) : put'[i][k] = put[i][k]
  <2>1. put'[i] = Append(put[i], x)
    BY <1>1
  <2> QED BY <1>1, <1>4, <2>1, Joined
<1>7. \A j \in Index : j # i => q'[j] = q[j] /\ put'[j] = put[j]
  BY <1>1
<1>8. /\ Len(put'[i]) = a + Len(q'[i])
      /\ \A k \in 1..Len(q'[i]) : q'[i][k] = put'[i][a + k]
  <2>1. ASSUME NEW k \in 1..(b + 1) PROVE q'[i][k] = put'[i][a + k]
    <3>1. k \in Nat
      BY <1>3
    <3>2. CASE k \in 1..b
      <4>1. a + k \in 1..(a + b)
        BY <1>3, <3>1, <3>2, Places
      <4> QED BY <1>4, <1>5, <1>6, <3>2, <4>1
    <3>3. CASE k = b + 1
      <4>1. a + k = (a + b) + 1
        BY <1>3, <3>3
      <4> QED BY <1>5, <1>6, <3>3, <4>1
    <3> QED BY <1>3, <3>1, <3>2, <3>3, Places
  <2>2. (a + b) + 1 = a + (b + 1)
    BY <1>3, Places
  <2> QED BY <1>5, <1>6, <2>1, <2>2
<1>9. ASSUME NEW j \in Index
      PROVE  /\ Len(put'[j]) = Len(took'[j]) + Len(q'[j])
             /\ \A k \in 1..Len(q'[j]) : q'[j][k] = put'[j][Len(took'[j]) + k]
  <2>1. took'[j] = took[j]
    OBVIOUS
  <2>2. CASE j = i
    BY <1>2, <1>8, <2>1, <2>2
  <2>3. CASE j # i
    <3>1. q'[j] = q[j] /\ put'[j] = put[j]
      BY <1>7, <2>3
    <3> QED BY <1>4, <2>1, <3>1
  <2> QED BY <2>2, <2>3
<1>10. q' \in [Index -> Seq(Nat)]
  BY <1>1, <1>5
<1>11. SharedInv'
  BY <1>9 DEF SharedInv
<1> QED BY <1>10, <1>11

(* An item is taken from a list.                                           *)
LEMMA ItemTaken ==
    ASSUME TypeOK, SharedInv, TookInv, kind \in {"mpi", "pi"}, NEW i \in Index, q[i] # <<>>,
           q' = [q EXCEPT ![i] = Tail(@)], took' = [took EXCEPT ![i] = Append(@, Head(q[i]))],
           put' = put, kind' = kind
    PROVE  /\ SharedInv' /\ TookInv' /\ q' \in [Index -> Seq(Nat)]
           /\ took' \in [Index -> Seq(Nat)] /\ Head(q[i]) \in Nat
<1>1. /\ q \in [Index -> Seq(Nat)] /\ put \in [Index -> Seq(Nat)] /\ took \in [Index -> Seq(Nat)]
      /\ q[i] \in Seq(Nat) /\ took[i] \in Seq(Nat)
  BY DEF TypeOK, DataOK
<1>2. PICK a, b, x : a = Len(took[i]) /\ b = Len(q[i]) /\ x = Head(q[i])
  OBVIOUS
<1>3. /\ q'[i] = Tail(q[i]) /\ took'[i] = Append(took[i], x)
      /\ \A j \in Index : j # i => q'[j] = q[j] /\ took'[j] = took[j]
  BY <1>1, <1>2
<1>4. /\ q'[i] \in Seq(Nat) /\ b \in Nat /\ b > 0 /\ Len(q'[i]) = b - 1
      /\ \A k \in 1..(b - 1) : q'[i][k] = q[i][k + 1]
      /\ x = q[i][1] /\ x \in Nat
  <2>1. /\ Tail(q[i]) \in Seq(Nat) /\ Len(q[i]) \in Nat /\ Len(q[i]) > 0
        /\ Len(Tail(q[i])) = Len(q[i]) - 1
        /\ \A k \in 1..(Len(q[i]) - 1) : Tail(q[i])[k] = q[i][k + 1]
        /\ Head(q[i]) = q[i][1] /\ q[i][1] \in Nat
    BY <1>1, Left
  <2> QED BY <1>2, <1>3, <2>1
<1>5. /\ took'[i] \in Seq(Nat) /\ a \in Nat /\ Len(took'[i]) = a + 1
      /\ took'[i][a + 1] = x /\ \A k \in 1..a : took'[i][k] = took[i][k]
  BY <1>1, <1>2, <1>3, <1>4, Joined
<1>6. /\ Len(put[i]) = a + b
      /\ \A k \in 1..b : q[i][k] = put[i][a + k]
      /\ \A k \in 1..a : took[i][k] = put[i][k]
  BY <1>2 DEF SharedInv, TookInv
<1>7. /\ Len(put[i]) = Len(took'[i]) + Len(q'[i])
      /\ \A k \in 1..Len(q'[i]) : q'[i][k] = put[i][Len(took'[i]) + k]
  <2>1. (a + 1) + (b - 1) = a + b
    BY <1>4, <1>5
  <2>2. ASSUME NEW k \in 1..(b - 1) PROVE q'[i][k] = put[i][(a + 1) + k]
    <3>1. k + 1 \in 1..b /\ (a + 1) + k = a + (k + 1)
      BY <1>4, <1>5
    <3> QED BY <1>4, <1>6, <3>1
  <2> QED BY <1>4, <1>5, <1>6, <2>1, <2>2
<1>8. /\ Len(took'[i]) <= Len(put[i])
      /\ \A k \in 1..Len(took'[i]) : took'[i][k] = put[i][k]
  <2>1. a + 1 <= a + b /\ 1 \in 1..b
    BY <1>4, <1>5
  <2>2. ASSUME NEW k \in 1..(a + 1) PROVE took'[i][k] = put[i][k]
    <3>1. CASE k \in 1..a
      BY <1>5, <1>6, <3>1
    <3>2. CASE k = a + 1
      BY <1>4, <1>5, <1>6, <2>1, <3>2
    <3> QED BY <1>5, <3>1, <3>2
  <2> QED BY <1>5, <1>6, <2>1, <2>2
<1>9. ASSUME NEW j \in Index
      PROVE  /\ Len(put'[j]) = Len(took'[j]) + Len(q'[j])
             /\ \A k \in 1..Len(q'[j]) : q'[j][k] = put'[j][Len(took'[j]) + k]
  <2>1. put'[j] = put[j]
    OBVIOUS
  <2>2. CASE j # i
    <3>1. q'[j] = q[j] /\ took'[j] = took[j]
      BY <1>3, <2>2
    <3> QED BY <2>1, <3>1 DEF SharedInv
  <2>3. CASE j = i
    BY <1>7, <2>1, <2>3
  <2> QED BY <2>2, <2>3
<1>10. TookInv'
  <2>1. ASSUME NEW j \in Index
        PROVE  /\ Len(took'[j]) <= Len(put[j])
               /\ \A k \in 1..Len(took'[j]) : took'[j][k] = put[j][k]
    <3>1. CASE j # i
      <4>1. took'[j] = took[j]
        BY <1>3, <3>1
      <4> QED BY <4>1 DEF TookInv
    <3> QED BY <1>8, <3>1
  <2> QED BY <2>1 DEF TookInv
<1>11. q' \in [Index -> Seq(Nat)] /\ took' \in [Index -> Seq(Nat)]
  BY <1>1, <1>2, <1>4, <1>5
<1>12. SharedInv'
  BY <1>9 DEF SharedInv
<1> QED BY <1>2, <1>4, <1>10, <1>11, <1>12

(* An enqueuer's critical section.                                         *)
LEMMA AppendKeeps ==
    ASSUME ArrayInv, NEW c \in Enqueuers, MpiAppend(c) \/ PiAppend(c)
    PROVE  ArrayInv'
<1>0. /\ TypeOK /\ DataOK /\ SharedInv /\ TookInv /\ c \in Threads /\ c \notin Dequeuers
      /\ t[c] \in Locals /\ Idle \in Locals /\ Idle.idx = 0 /\ Idle.pc = "idle" /\ 0 \in Index
  <2>1. TypeOK /\ DataOK /\ SharedInv /\ TookInv /\ c \in Threads /\ c \notin Dequeuers
    BY Names DEF ArrayInv, TypeOK
  <2> QED BY <2>1, LocalsOf, Size
<1>1. /\ kind \in {"mpi", "pi"} /\ kind' = kind /\ took' = took
      /\ ~wild /\ UNCHANGED <<kind, lists, uaf, wild>>
      /\ t[c].idx \in Index /\ t[c].item \in Nat
  BY <1>0 DEF MpiAppend, PiAppend, At, TypeOK, ThreadOK, Locals
<1>2. PICK i, x : i = I(c) /\ x = t[c].item
  OBVIOUS
<1>3. /\ i \in Index /\ x \in Nat
      /\ q' = [q EXCEPT ![i] = Append(@, x)] /\ put' = [put EXCEPT ![i] = Append(@, x)]
  BY <1>1, <1>2 DEF MpiAppend, PiAppend, Appended, I
<1>4. SharedInv' /\ q' \in [Index -> Seq(Nat)]
  BY <1>0, <1>1, <1>3, ItemPut
<1>5. TookInv' /\ put' \in [Index -> Seq(Nat)]
  BY <1>0, <1>1, <1>3, PutMore
<1>6. DataOK'
  <2>1. lock' \in [Index -> BOOLEAN]
    BY <1>0 DEF MpiAppend, PiAppend, DataOK
  <2>2. UNCHANGED <<st_index, st_dindex, cnts, made>>
    BY DEF MpiAppend, PiAppend
  <2> QED BY <1>0, <1>1, <1>4, <1>5, <2>1, <2>2 DEF DataOK, lists, cnts
<1>7. \E r \in Locals : Set(c, r) /\ r.pc \in {"idle", "bump"} /\ r.idx \in Index
  <2>1. CASE MpiAppend(c)
    BY <1>0, <2>1 DEF MpiAppend
  <2>2. CASE PiAppend(c)
    <3> DEFINE r == [t[c] EXCEPT !.pc = "bump"]
    <3>1. "bump" \in Labels
      BY DEF Labels, EnqueuePCs
    <3>2. r \in Locals /\ r.pc = "bump" /\ r.idx = t[c].idx
      BY <1>0, <3>1 DEF Locals
    <3>3. Set(c, r)
      BY <2>2 DEF PiAppend, Goto
    <3> HIDE DEF r
    <3> QED BY <1>1, <3>2, <3>3
  <2> QED BY <2>1, <2>2
<1>8. PICK r \in Locals : Set(c, r) /\ r.pc \in {"idle", "bump"} /\ r.idx \in Index
  BY <1>7
<1>9. r.pc \in EnqueuePCs(kind)
  BY <1>1, <1>8 DEF EnqueuePCs
<1> QED BY <1>0, <1>1, <1>4, <1>5, <1>6, <1>8, <1>9, SharedKeeps

(* The next list is looked at, or the call ends.                           *)
LEMMA AdvanceIs ==
    ASSUME TypeOK, NEW c \in Dequeuers, NEW x \in Nat, Advance(c, x)
    PROVE  \E r \in Locals : Set(c, r) /\ r.pc \in {"idle", "try"} /\ r.idx \in Index
<1>0. c \in Threads /\ t[c] \in Locals /\ t[c].idx \in Index
  BY Names, LocalsOf DEF TypeOK, ThreadOK
<1>1. CASE x = N
  <2>1. Answer(c, Empty)
    BY <1>1 DEF Advance
  <2>2. Empty \in Answers /\ 0 \in Index
    BY Size DEF Answers
  <2> QED BY <1>0, <2>1, <2>2, AnswerIs
<1>2. CASE x # N
  <2> DEFINE j == (t[c].idx + 1) % N
             r == [t[c] EXCEPT !.pc = "try", !.tries = x, !.idx = j]
  <2>1. j \in Index /\ j \in Nat
    BY <1>0, NextIndex, Size
  <2>2. Set(c, r)
    BY <1>0, <1>2 DEF Advance, Locals
  <2>3. "try" \in Labels
    BY DEF Labels, DequeuePCs
  <2> HIDE DEF j
  <2>4. r \in Locals /\ r.pc = "try" /\ r.idx = j
    BY <1>0, <2>1, <2>3 DEF Locals
  <2> HIDE DEF r
  <2> QED BY <2>1, <2>2, <2>4
<1> QED BY <1>1, <1>2

(* A dequeuer looks at the lists.                                          *)
LEMMA ListKeeps ==
    ASSUME ArrayInv, NEW c \in Dequeuers, ListSteps(c)
    PROVE  ArrayInv'
<1>0. /\ TypeOK /\ DataOK /\ SharedInv /\ TookInv /\ c \in Threads /\ c \notin Enqueuers
      /\ t[c] \in Locals /\ Idle \in Locals /\ t[c].idx \in Index /\ t[c].tries \in Nat
      /\ st_dindex \in Index /\ st_dindex \in Nat /\ I(c) = t[c].idx
      /\ lock \in [Index -> BOOLEAN] /\ q \in [Index -> Seq(Nat)]
  <2>1. TypeOK /\ DataOK /\ SharedInv /\ TookInv /\ c \in Threads /\ c \notin Enqueuers
    BY Names DEF ArrayInv, TypeOK
  <2> QED BY <2>1, LocalsOf, Size DEF DataOK, TypeOK, ThreadOK, Locals, I
<1>1. /\ kind \in {"mpi", "pi"} /\ ~wild /\ UNCHANGED <<kind, lists, uaf, wild, put, made>>
      /\ UNCHANGED <<cnts, st_index>>
  <2>1. /\ t[c].pc \in {"idle", "d_bump", "try", "take"} /\ ~wild
        /\ t[c].pc = "idle" => kind \in {"mpi", "pi"}
        /\ UNCHANGED <<kind, lists, uaf, wild, put, made, cnts, st_index>>
    BY DEF ListSteps, MpiDeqCall, PiDeqCall, PiDeqBump, TryList, TakeFromList, At, slots, hist
  <2>2. kind \in {"mpi", "pi"}
    BY <1>0, <2>1, PKind
  <2> QED BY <2>1, <2>2
<1>2. {"idle", "d_bump", "try", "take"} = DequeuePCs(kind) /\ DequeuePCs(kind) \subseteq Labels
  BY <1>1 DEF Labels, DequeuePCs
<1>3. ASSUME NEW r \in Locals, Set(c, r) \/ Enter(c, r), r.pc \in DequeuePCs(kind),
             r.idx \in Index, DataOK', SharedInv', TookInv'
      PROVE  ArrayInv'
  BY <1>0, <1>1, <1>3, SharedKeeps
<1>4. ASSUME st_dindex' \in Index, lock' \in [Index -> BOOLEAN], UNCHANGED <<q, took>>
      PROVE  DataOK' /\ SharedInv' /\ TookInv'
  <2>1. SharedInv' /\ TookInv'
    BY <1>1, <1>4, NoItemMoves
  <2> QED BY <1>0, <1>1, <1>4, <2>1 DEF DataOK, lists, cnts
<1>5. ASSUME NEW x \in Nat, Advance(c, x)
      PROVE  \E r \in Locals : Set(c, r) /\ r.pc \in DequeuePCs(kind) /\ r.idx \in Index
  BY <1>0, <1>2, <1>5, AdvanceIs
<1>6. CASE MpiDeqCall(c)
  <2> DEFINE r == [Idle EXCEPT !.pc = "try"]
  <2>1. r \in Locals /\ r.pc = "try" /\ r.idx = 0 /\ 0 \in Index
    BY <1>0, <1>2, LocalsOf, Size DEF Locals
  <2>2. Enter(c, r) /\ UNCHANGED <<st_dindex, lock, q, took>>
    BY <1>6 DEF MpiDeqCall, slots, hist
  <2> HIDE DEF r
  <2> QED BY <1>0, <1>2, <1>3, <1>4, <2>1, <2>2
<1>7. CASE PiDeqCall(c)
  <2> DEFINE r == [Idle EXCEPT !.pc = "d_bump", !.idx = st_dindex]
  <2>1. r \in Locals /\ r.pc = "d_bump" /\ r.idx = st_dindex
    BY <1>0, <1>2 DEF Locals
  <2>2. Enter(c, r) /\ UNCHANGED <<st_dindex, lock, q, took>>
    BY <1>7 DEF PiDeqCall, slots, hist
  <2> HIDE DEF r
  <2> QED BY <1>0, <1>2, <1>3, <1>4, <2>1, <2>2
<1>8. CASE PiDeqBump(c)
  <2> DEFINE r == [t[c] EXCEPT !.pc = "try"]
  <2>1. r \in Locals /\ r.pc = "try" /\ r.idx = t[c].idx
    BY <1>0, <1>2 DEF Locals
  <2>2. Set(c, r) /\ UNCHANGED <<lock, q, took>>
    BY <1>8 DEF PiDeqBump, Goto, hist
  <2>3. st_dindex' \in Index
    BY <1>0, <1>8, NextIndex DEF PiDeqBump
  <2> HIDE DEF r
  <2> QED BY <1>0, <1>2, <1>3, <1>4, <2>1, <2>2, <2>3
<1>9. CASE TryList(c)
  <2>1. UNCHANGED <<q, took, st_dindex>>
    BY <1>9 DEF TryList, hist
  <2>2. \/ UNCHANGED lock /\ \E x \in Nat : Advance(c, x)
        \/ lock' = [lock EXCEPT ![I(c)] = TRUE] /\ Goto(c, "take")
    <3>1. 1 \in Nat /\ t[c].tries + 1 \in Nat
      BY <1>0
    <3> QED BY <1>0, <1>9, <3>1 DEF TryList, ListBusy
  <2>3. lock' \in [Index -> BOOLEAN]
    BY <1>0, <2>2
  <2>4. \E r \in Locals : Set(c, r) /\ r.pc \in DequeuePCs(kind) /\ r.idx \in Index
    <3>1. CASE \E x \in Nat : Advance(c, x)
      BY <1>5, <3>1
    <3>2. CASE Goto(c, "take")
      <4> DEFINE r == [t[c] EXCEPT !.pc = "take"]
      <4>1. r \in Locals /\ r.pc = "take" /\ r.idx = t[c].idx
        BY <1>0, <1>2 DEF Locals
      <4>2. Set(c, r)
        BY <3>2 DEF Goto
      <4> HIDE DEF r
      <4> QED BY <1>0, <1>2, <4>1, <4>2
    <3> QED BY <2>2, <3>1, <3>2
  <2> QED BY <1>0, <1>3, <1>4, <2>1, <2>3, <2>4
<1>10. CASE TakeFromList(c)
  <2>1. lock' \in [Index -> BOOLEAN] /\ UNCHANGED <<st_dindex>>
    BY <1>0, <1>10 DEF TakeFromList
  <2>2. CASE q[I(c)] = <<>>
    <3>1. Advance(c, t[c].tries + 1) /\ UNCHANGED <<q, took>> /\ t[c].tries + 1 \in Nat
      BY <1>0, <1>10, <2>2 DEF TakeFromList
    <3> QED BY <1>0, <1>3, <1>4, <1>5, <2>1, <3>1
  <2>3. CASE q[I(c)] # <<>>
    <3>1. PICK i : i = I(c)
      OBVIOUS
    <3>2. /\ i \in Index /\ q[i] # <<>> /\ q' = [q EXCEPT ![i] = Tail(@)]
          /\ took' = [took EXCEPT ![i] = Append(@, Head(q[i]))] /\ Answer(c, Head(q[i]))
      BY <1>0, <1>10, <2>3, <3>1 DEF TakeFromList
    <3>3. /\ SharedInv' /\ TookInv' /\ q' \in [Index -> Seq(Nat)]
          /\ took' \in [Index -> Seq(Nat)] /\ Head(q[i]) \in Nat
      BY <1>0, <1>1, <3>2, ItemTaken
    <3>4. DataOK'
      BY <1>0, <1>1, <2>1, <3>3 DEF DataOK, lists, cnts
    <3>5. Head(q[i]) \in Answers /\ 0 \in Index
      BY <3>3, Size DEF Answers
    <3>6. PICK r \in Locals : Set(c, r) /\ r.pc = "idle" /\ r.idx = 0
      BY <1>0, <3>2, <3>5, AnswerIs
    <3> QED BY <1>2, <1>3, <3>3, <3>4, <3>5, <3>6
  <2> QED BY <2>2, <2>3
<1> QED BY <1>6, <1>7, <1>8, <1>9, <1>10 DEF ListSteps

-----------------------------------------------------------------------------
(* The empty queue satisfies the invariant.                                *)
LEMMA InitKeeps == Init => ArrayInv
<1> SUFFICES ASSUME Init PROVE ArrayInv
  OBVIOUS
<1>1. /\ N \in Nat /\ N > 0 /\ 0 \in Index /\ \A i \in Index : i \in Int /\ i - N \in Int
  BY Size DEF Index
<1>2. /\ Idle.pc = "idle" /\ Idle.idx = 0 /\ Idle \in Locals
      /\ "idle" \notin SwapPCs \cup LinkPCs \cup ClaimPCs \cup TicketPCs \cup TurnPCs
  <2>1. Null \in Address /\ None \in Answers /\ 0 \in Nat /\ "idle" \in Labels /\ FALSE \in BOOLEAN
    BY DEF Address, Answers, Labels, EnqueuePCs
  <2>2. Idle \in Locals /\ Idle.pc = "idle" /\ Idle.idx = 0
    BY <2>1 DEF Locals, Idle
  <2>3. "idle" \notin SwapPCs \cup LinkPCs \cup ClaimPCs \cup TicketPCs \cup TurnPCs
    BY DEF SwapPCs, LinkPCs, ClaimPCs, TicketPCs, TurnPCs
  <2> QED BY <2>2, <2>3
<1>3. DataOK
  <2>1. Null \in Address /\ <<>> \in Seq(Nat) /\ <<>> \in Seq(Nodes) /\ 0 \in Nat /\ 0 \in Int
    BY DEF Address
  <2>2. [next |-> Null, item |-> 0] \in Cells
    BY <2>1 DEF Cells
  <2>3. kind \in {"p", "pa", "mpi", "pi"}
    BY ArrayAssumption DEF Init
  <2> HIDE DEF Index, Address, Cells
  <2>4. /\ head \in [Index -> Address] /\ tail \in [Index -> Address]
        /\ mark \in [Index -> BOOLEAN] /\ lock \in [Index -> BOOLEAN]
        /\ node \in [Nodes -> Cells] /\ heap \subseteq Nodes
    BY <2>1, <2>2 DEF Init
  <2>5. /\ q \in [Index -> Seq(Nat)] /\ put \in [Index -> Seq(Nat)] /\ took \in [Index -> Seq(Nat)]
        /\ line \in [Index -> Seq(Nodes)]
    BY <2>1 DEF Init
  <2>6. e_guard \in [Index -> Int] /\ d_guard \in [Index -> Int]
    BY <1>1 DEF Init
  <2>7. /\ enq_counter \in Nat /\ deq_counter \in Nat /\ made \in Nat
        /\ ub_count \in Int /\ lb_count \in Int /\ st_index \in Nat /\ st_dindex \in Index
        /\ uaf \in BOOLEAN /\ wild \in BOOLEAN
    BY <1>1, <2>1 DEF Init
  <2> QED BY <2>3, <2>4, <2>5, <2>6, <2>7 DEF DataOK
<1>4. \A c \in Threads : t[c] = Idle
  BY DEF Init
<1>5. ThreadOK
  <2>1. "idle" \in EnqueuePCs(kind) /\ "idle" \in DequeuePCs(kind)
    BY DEF EnqueuePCs, DequeuePCs
  <2>2. t \in [Threads -> Locals]
    BY <1>2 DEF Init
  <2> QED BY <1>1, <1>2, <1>4, <2>1, <2>2, Names DEF ThreadOK
<1>6. \A i \in Index : /\ line[i] = <<>> /\ head[i] = Null /\ tail[i] = Null /\ mark[i] = FALSE
                       /\ put[i] = <<>> /\ took[i] = <<>> /\ q[i] = <<>>
  BY DEF Init
<1>7. Len(<<>>) = 0 /\ \A k \in 1..0 : FALSE
  OBVIOUS
<1>8. \A i \in Index : Len(line[i]) = 0 /\ \A x : ~InLine(x, i)
  BY <1>6, <1>7 DEF InLine
<1>9. LineInv /\ HeadInv
  BY <1>6, <1>7, <1>8 DEF LineInv, HeadInv
<1>10. SwapInv /\ LinkInv /\ StartInv /\ ClaimInv /\ ReadInv /\ TicketInv
  <2>1. \A c \in Threads : /\ t[c].pc = "idle" /\ t[c].pc \notin SwapPCs
                           /\ t[c].pc \notin LinkPCs /\ t[c].pc \notin ClaimPCs
                           /\ t[c].pc \notin TicketPCs /\ t[c].pc \notin TurnPCs
    BY <1>2, <1>4
  <2>2. \A c \in Enqueuers : ~Linking(c) /\ ~Starting(c)
    BY <2>1, Names DEF Linking, Starting
  <2>3. SwapInv /\ LinkInv /\ StartInv
    BY <2>1, <2>2, Names DEF SwapInv, LinkInv, StartInv
  <2>4. ClaimInv /\ ReadInv /\ TicketInv
    BY <2>1, Names DEF ClaimInv, ReadInv, TicketInv
  <2> QED BY <2>3, <2>4
<1>11. ItemsInv
  <2>1. \A i \in Index : ~Passed(i)
    BY <1>2, <1>4, Names DEF Passed, Past, Holds
  <2>2. ASSUME NEW i \in Index
        PROVE  /\ Offset(i) \in Nat /\ Len(took[i]) = Offset(i) + (IF Passed(i) THEN 1 ELSE 0)
               /\ \A k \in 1..Len(line[i]) : node[line[i][k]].item = put[i][Offset(i) + k]
    <3>1. Len(put[i]) = 0 /\ Len(took[i]) = 0 /\ Len(line[i]) = 0
      BY <1>6, <1>7
    <3>2. Offset(i) = 0
      BY <3>1 DEF Offset
    <3>3. \A k \in 1..Len(line[i]) : FALSE
      BY <1>7, <3>1
    <3> HIDE DEF Offset, Passed
    <3> QED BY <2>1, <3>1, <3>2, <3>3
  <2> QED BY <2>2 DEF ItemsInv
<1>12. SharedInv /\ TookInv
  <2>1. ASSUME NEW i \in Index
        PROVE  /\ Len(put[i]) = 0 /\ Len(took[i]) = 0 /\ Len(q[i]) = 0
               /\ (\A k \in 1..Len(took[i]) : FALSE) /\ (\A k \in 1..Len(q[i]) : FALSE)
    BY <1>6, <1>7
  <2>2. ASSUME NEW i \in Index
        PROVE  Len(put[i]) = Len(took[i]) + Len(q[i]) /\ Len(took[i]) <= Len(put[i])
    <3>1. Len(put[i]) = 0 /\ Len(took[i]) = 0 /\ Len(q[i]) = 0
      BY <2>1
    <3>2. 0 + 0 = 0 /\ 0 <= 0
      OBVIOUS
    <3> QED BY <3>1, <3>2
  <2> QED BY <2>1, <2>2 DEF SharedInv, TookInv
<1>13. ~uaf
  BY DEF Init
<1> QED BY <1>3, <1>5, <1>9, <1>10, <1>11, <1>12, <1>13 DEF ArrayInv, TypeOK, NodeInv

(* Every step of an enqueuer keeps it, ...                                 *)
LEMMA EnqueueKeeps ==
    ASSUME ArrayInv, NEW c \in Enqueuers, Enqueue(c)
    PROVE  ArrayInv'
<1>1. CASE enqueue_ev_pqueue(c)
  <2>1. CASE PEnqAnnounce(c) \/ PEnqTicket(c)
    BY <2>1, PTicketKeeps
  <2>2. CASE PEnqPermit(c)
    BY <2>2, AllocKeeps
  <2>3. CASE FIFO_enter(c) \/ FIFO_exit(c)
    BY <2>3, PEnqGuardKeeps
  <2>4. CASE kind = "p" /\ SwapTail(c, "e_exit")
    BY <2>4, SwapKeeps
  <2>5. CASE kind = "p" /\ LinkNode(c)
    BY <2>5, LinkKeeps
  <2> QED BY <1>1, <2>1, <2>2, <2>3, <2>4, <2>5 DEF enqueue_ev_pqueue
<1>2. CASE enqueue_evpaq(c)
  <2>1. CASE PaEnqSlot(c)
    BY <2>1, AllocKeeps
  <2>2. CASE kind = "pa" /\ SwapTail(c, "link")
    BY <2>2, SwapKeeps
  <2>3. CASE kind = "pa" /\ LinkNode(c)
    BY <2>3, LinkKeeps
  <2> QED BY <1>2, <2>1, <2>2, <2>3 DEF enqueue_evpaq
<1>3. CASE IndexSteps(c)
  BY <1>3, IndexKeeps
<1>4. CASE enqueue_ev_mpiqueue(c)
  BY <1>4, IndexKeeps, AppendKeeps DEF enqueue_ev_mpiqueue
<1>5. CASE PiAppend(c)
  BY <1>5, AppendKeeps
<1> QED BY <1>1, <1>2, <1>3, <1>4, <1>5 DEF Enqueue

(* ... and every step of a dequeuer.                                       *)
LEMMA DequeueKeeps ==
    ASSUME ArrayInv, NEW c \in Dequeuers, Dequeue(c)
    PROVE  ArrayInv'
<1>1. CASE dequeue_ev_pqueue(c)
  <2>1. CASE PDeqCall(c) \/ PTestPermits(c) \/ PTakePermit(c) \/ PUndoPermit(c)
             \/ PTestAnnounced(c) \/ PDeqLess(c)
    BY <2>1, PPermitKeeps
  <2>2. CASE PDeqTicket(c)
    BY <2>2, PDeqTicketKeeps
  <2>3. CASE dequeue_FIFO_enter(c)
    BY <2>3, PDeqEnterKeeps
  <2>4. CASE PDeqHead(c)
    BY <2>4, PDeqHeadKeeps
  <2>5. CASE PDeqNext(c) \/ (kind = "p" /\ AwaitNext(c, "d_reset"))
    BY <2>5, ReadNextKeeps
  <2>6. CASE PDeqSetHead(c)
    BY <2>6, PDeqSetHeadKeeps
  <2>7. CASE PDeqCasTail(c)
    BY <2>7, CasTailKeeps
  <2>8. CASE PDeqResetHead(c)
    BY <2>8, PDeqResetHeadKeeps
  <2>9. CASE dequeue_FIFO_exit(c)
    BY <2>9, PDeqExitKeeps
  <2>10. CASE kind = "p" /\ FreeNode(c)
    BY <2>10, FreeKeeps
  <2> QED BY <1>1, <2>1, <2>2, <2>3, <2>4, <2>5, <2>6, <2>7, <2>8, <2>9, <2>10
          DEF dequeue_ev_pqueue
<1>2. CASE dequeue_evpaq(c)
  <2>1. CASE PaDeqSlot(c) \/ PaLoadTail(c) \/ PaLoadHead(c)
    BY <2>1, PaSearchKeeps
  <2>2. CASE PaMarkHead(c)
    BY <2>2, PaMarkHeadKeeps
  <2>3. CASE PaLoadNext(c) \/ (kind = "pa" /\ AwaitNext(c, "move"))
    BY <2>3, ReadNextKeeps
  <2>4. CASE PaCheckTail(c)
    BY <2>4, PaCheckTailKeeps
  <2>5. CASE PaCasTail(c)
    BY <2>5, CasTailKeeps
  <2>6. CASE PaMoveHead(c)
    BY <2>6, PaMoveHeadKeeps
  <2>7. CASE kind = "pa" /\ FreeNode(c)
    BY <2>7, FreeKeeps
  <2> QED BY <1>2, <2>1, <2>2, <2>3, <2>4, <2>5, <2>6, <2>7 DEF dequeue_evpaq
<1>3. CASE ListSteps(c)
  BY <1>3, ListKeeps
<1> QED BY <1>1, <1>2, <1>3 DEF Dequeue

(* A step that changes nothing.                                            *)
LEMMA StutterKeeps == ArrayInv /\ UNCHANGED vars => ArrayInv'
<1> SUFFICES ASSUME ArrayInv, UNCHANGED vars PROVE ArrayInv'
  OBVIOUS
<1>1. /\ UNCHANGED <<kind, head, mark, tail, node, heap, line, q, lock, st_index, st_dindex>>
      /\ UNCHANGED <<enq_counter, deq_counter, ub_count, lb_count, e_guard, d_guard>>
      /\ UNCHANGED <<t, made, put, took, given, uaf, wild>>
  BY DEF vars, lists, slots, cnts, hist
<1>2. TypeOK'
  BY <1>1 DEF ArrayInv, TypeOK, DataOK, ThreadOK
<1>3. LineInv' /\ HeadInv' /\ SwapInv' /\ LinkInv' /\ StartInv' /\ ClaimInv' /\ ReadInv'
  BY <1>1 DEF ArrayInv, NodeInv, LineInv, HeadInv, SwapInv, LinkInv, StartInv, ClaimInv,
              ReadInv, InLine, Linking, Starting, Holds, Past, I
<1>4. ItemsInv' /\ SharedInv' /\ TookInv' /\ TicketInv' /\ ~uaf'
  BY <1>1 DEF ArrayInv, ItemsInv, SharedInv, TookInv, TicketInv, Offset, Passed, Past, Holds, I
<1> QED BY <1>2, <1>3, <1>4 DEF ArrayInv, NodeInv

(* Whatever the four queues do, ArrayInv holds: heads, tails and links     *)
(* spell out the lines, and the threads hold what their labels say.        *)
THEOREM Invariant == Spec => []ArrayInv
<1>1. Init => ArrayInv
  BY InitKeeps
<1>2. ArrayInv /\ [Next]_vars => ArrayInv'
  BY EnqueueKeeps, DequeueKeeps, StutterKeeps DEF Next, Lost
<1> QED BY <1>1, <1>2, PTL DEF Spec

(* ListsInOrder for every list: enqueue and dequeue of the four queues     *)
(* lose, double and overtake nothing within a list.                        *)
THEOREM ItemsInOrder == Spec => []ListsInOrder
<1>1. ArrayInv => ListsInOrder
  <2> SUFFICES ASSUME ArrayInv, NEW i \in Index
               PROVE  /\ Len(took[i]) <= Len(put[i])
                      /\ took[i] = SubSeq(put[i], 1, Len(took[i]))
    BY DEF ListsInOrder
  <2>1. PICK s, u : s = took[i] /\ u = put[i]
    OBVIOUS
  <2>2. s \in Seq(Nat) /\ u \in Seq(Nat)
    BY <2>1 DEF ArrayInv, TypeOK, DataOK
  <2>3. Len(s) <= Len(u) /\ \A k \in 1..Len(s) : s[k] = u[k]
    BY <2>1 DEF ArrayInv, TookInv
  <2>4. Len(s) \in Nat /\ Len(u) \in Nat
    BY <2>2
  <2>5. /\ SubSeq(u, 1, Len(s)) \in Seq(Nat) /\ Len(SubSeq(u, 1, Len(s))) = Len(s)
        /\ \A k \in 1..Len(s) : SubSeq(u, 1, Len(s))[k] = u[k]
    <3>1. SubSeq(u, 1, Len(s)) = [k \in 1..Len(s) |-> u[k]]
      BY <2>2, <2>3, <2>4
    <3>2. \A k \in 1..Len(s) : u[k] \in Nat
      BY <2>2, <2>3, <2>4
    <3> QED BY <2>4, <3>1, <3>2
  <2>6. s = SubSeq(u, 1, Len(s))
    BY <2>2, <2>3, <2>5, SeqEqual
  <2> QED BY <2>1, <2>3, <2>6
<1> QED BY <1>1, Invariant, PTL

(* NoUseAfterFree for ev_pqueue and ev_paqueue: no step reads or writes a  *)
(* node that a dequeue has freed.                                          *)
THEOREM NoFreedNodeUsed == Spec => []NoUseAfterFree
<1>1. ArrayInv => NoUseAfterFree
  BY DEF ArrayInv, NoUseAfterFree
<1> QED BY <1>1, Invariant, PTL

-----------------------------------------------------------------------------
(* A dequeue that runs alone: what it knows of the lists it has passed.    *)

(* A mutex of mpi, or the mark a try_dequeue of pi leaves on a list's head *)
(* for a moment, is there because of a thread that will take it away.      *)
Locks(c) == t[c].pc = "take" \/ (kind = "mpi" /\ t[c].pc = "append")
LockInv  == \A i \in Index : lock[i] => \E c \in Threads : Locks(c) /\ I(c) = i

(* A call that is alone has the others idle.                               *)
AloneInv ==
    /\ \A c \in Threads : t[c].alone => \A b \in Threads : b # c => t[b].pc = "idle"
    /\ kind = "p" => \A c \in Threads : ~t[c].alone

(* The lists a dequeuer that looks at list idx has passed in this round.   *)
Behind(i, idx, tries) == \/ i < idx /\ i >= idx - tries
                         \/ i >= idx /\ i >= idx + N - tries
Drained(i) == Len(took[i]) = Len(put[i])

(* Where a dequeuer of ev_paqueue has found an item.                       *)
FoundPCs == {"head", "mark", "next", "check", "cas", "await", "move", "free"}

Walk(c) ==
    /\ t[c].tries < N
    /\ t[c].pc = "idle" /\ t[c].res = Empty => \A i \in Index : Drained(i)
    /\ t[c].pc \in FoundPCs => t[c].tries = 0
    /\ t[c].pc # "idle" => \A i \in Index : Behind(i, t[c].idx, t[c].tries) => Drained(i)

WalkInv == \A c \in Dequeuers : t[c].alone => Walk(c)

DrainInv == LockInv /\ AloneInv /\ WalkInv

(* A round that goes on to the next list, begins anew or ends.             *)
LEMMA Round ==
    ASSUME NEW x \in Index, NEW k \in Nat, k < N
    PROVE  /\ \A i \in Index : ~Behind(i, x, 0)
           /\ k + 1 < N => \A i \in Index :
                 Behind(i, (x + 1) % N, k + 1) => Behind(i, x, k) \/ i = x
           /\ k + 1 >= N => \A i \in Index : Behind(i, x, k) \/ i = x
<1>1. N \in Nat /\ N > 0 /\ x \in Nat /\ x < N /\ \A i \in Index : i \in Nat /\ i < N
  BY Size DEF Index
<1>2. (x + 1) % N = IF x = N - 1 THEN 0 ELSE x + 1
  BY NextIndex
<1>3. ASSUME NEW i \in Index
      PROVE  /\ ~Behind(i, x, 0)
             /\ k + 1 < N /\ Behind(i, (x + 1) % N, k + 1) => Behind(i, x, k) \/ i = x
             /\ k + 1 >= N => Behind(i, x, k) \/ i = x
  <2>1. i \in Nat /\ i < N
    BY <1>1
  <2>2. PICK y : y = (x + 1) % N
    OBVIOUS
  <2>3. y = IF x = N - 1 THEN 0 ELSE x + 1
    BY <1>2, <2>2
  <2>4. Behind(i, y, k + 1) => Behind(i, x, k) \/ i = x
    <3>1. CASE x = N - 1
      BY <1>1, <2>1, <2>3, <3>1 DEF Behind
    <3>2. CASE x # N - 1
      BY <1>1, <2>1, <2>3, <3>2 DEF Behind
    <3> QED BY <3>1, <3>2
  <2>5. ~Behind(i, x, 0) /\ (k + 1 >= N => Behind(i, x, k) \/ i = x)
    BY <1>1, <2>1 DEF Behind
  <2> QED BY <2>2, <2>4, <2>5
<1> QED BY <1>3

(* A list without a tail, or without items, is drained.                    *)
LEMMA EmptyList ==
    ASSUME ArrayInv, NEW i \in Index,
           \/ kind = "pa" /\ tail[i] = Null
           \/ kind \in {"mpi", "pi"} /\ q[i] = <<>>
    PROVE  Drained(i)
<1>1. /\ put[i] \in Seq(Nat) /\ took[i] \in Seq(Nat) /\ line[i] \in Seq(Nodes)
      /\ Len(put[i]) \in Nat /\ Len(took[i]) \in Nat /\ Len(took[i]) <= Len(put[i])
  BY DEF ArrayInv, TypeOK, DataOK, TookInv
<1>2. CASE kind = "pa" /\ tail[i] = Null
  <2>1. line[i] = <<>>
    <3>1. SUFFICES ASSUME line[i] # <<>> PROVE FALSE
      OBVIOUS
    <3>2. tail[i] = line[i][Len(line[i])]
      BY <3>1 DEF ArrayInv, NodeInv, LineInv
    <3>3. line[i][Len(line[i])] \in Nodes
      BY <1>1, <3>1
    <3> QED BY <1>2, <3>2, <3>3, Names
  <2>2. Len(line[i]) = 0
    BY <2>1
  <2>3. Len(took[i]) = Offset(i) \/ Len(took[i]) = Offset(i) + 1
    <3>1. Len(took[i]) = Offset(i) + (IF Passed(i) THEN 1 ELSE 0) /\ Offset(i) \in Nat
      BY <1>2 DEF ArrayInv, ItemsInv
    <3> HIDE DEF Passed, Offset
    <3> QED BY <3>1
  <2>4. Offset(i) = Len(put[i])
    BY <1>1, <2>2 DEF Offset
  <2> QED BY <1>1, <2>3, <2>4 DEF Drained
<1>3. CASE kind \in {"mpi", "pi"} /\ q[i] = <<>>
  <2>1. Len(put[i]) = Len(took[i]) + Len(q[i])
    BY <1>3 DEF ArrayInv, SharedInv
  <2>2. Len(q[i]) = 0
    BY <1>3
  <2> QED BY <1>1, <2>1, <2>2 DEF Drained
<1> QED BY <1>2, <1>3

(* A step begins a call or goes on with one.                               *)
GoesOn(c) == t[c].pc # "idle" /\ \E r : Set(c, r) /\ (r.alone => t[c].alone)
Steps(c)  == (\E r : Enter(c, r)) \/ GoesOn(c)

(* The two ways to go on within a call, and the end of one.                *)
LEMMA OnWith ==
    ASSUME TypeOK, NEW c \in Threads, t[c].pc # "idle"
    PROVE  /\ \A l : Goto(c, l) => GoesOn(c)
           /\ \A x : Answer(c, x) => GoesOn(c)
           /\ \A r : Set(c, r) /\ r.alone = t[c].alone => GoesOn(c)
           /\ Set(c, Idle) => GoesOn(c)
<1>1. t[c] \in Locals /\ Idle \in Locals /\ Idle.alone = FALSE
  BY LocalsOf
<1>2. ASSUME NEW r, Set(c, r), r.alone => t[c].alone PROVE GoesOn(c)
  BY <1>2 DEF GoesOn
<1>3. ASSUME NEW l, Goto(c, l) PROVE GoesOn(c)
  <2> DEFINE r == [t[c] EXCEPT !.pc = l]
  <2>1. r.alone = t[c].alone
    BY <1>1 DEF Locals
  <2>2. Set(c, r)
    BY <1>3 DEF Goto
  <2> HIDE DEF r
  <2> QED BY <1>2, <2>1, <2>2
<1>4. ASSUME NEW x, Answer(c, x) PROVE GoesOn(c)
  <2>1. PICK k, y : /\ k = (kind = "p" \/ (x = Empty /\ t[c].alone))
                    /\ y = IF k THEN x ELSE None
    OBVIOUS
  <2> DEFINE r == [Idle EXCEPT !.res = y, !.alone = k /\ t[c].alone]
  <2>2. Set(c, r)
    BY <1>4, <2>1 DEF Answer
  <2>3. r.alone = (k /\ t[c].alone)
    BY DEF Idle
  <2> HIDE DEF r
  <2> QED BY <1>2, <2>2, <2>3
<1> QED BY <1>1, <1>2, <1>3, <1>4

(* No mark or mutex is left behind by a step of c.                         *)
Releases(c) == \A i \in Index : lock'[i] => \/ lock[i] /\ ~(Locks(c) /\ I(c) = i)
                                            \/ Locks(c)' /\ I(c)' = i

(* What a step does to the threads that are not c: none of them is alone.  *)
LEMMA OthersMoved ==
    ASSUME TypeOK, AloneInv, NEW c \in Threads, Steps(c), t' \in [Threads -> Locals]
    PROVE  \A b \in Threads : b # c =>
              t'[b].pc = t[b].pc /\ t'[b].idx = t[b].idx /\ ~t'[b].alone
<1>1. t \in [Threads -> Locals]
  BY DEF TypeOK, ThreadOK
<1>2. ASSUME NEW b \in Threads, b # c
      PROVE  t'[b].pc = t[b].pc /\ t'[b].idx = t[b].idx /\ ~t'[b].alone
  <2>1. t[b] \in Locals
    BY <1>1
  <2>2. CASE \E r : Enter(c, r)
    <3>1. t'[b] = [t[b] EXCEPT !.alone = FALSE]
      BY <1>2, <2>2 DEF Enter
    <3> QED BY <2>1, <3>1 DEF Locals
  <2>3. CASE GoesOn(c)
    <3>1. t'[b] = t[b]
      BY <1>1, <1>2, <2>3 DEF GoesOn, Set
    <3>2. ~t[b].alone
      BY <1>2, <2>3 DEF AloneInv, GoesOn
    <3> QED BY <3>1, <3>2
  <2> QED BY <2>2, <2>3 DEF Steps
<1> QED BY <1>2

(* A step keeps LockInv and AloneInv.                                      *)
LEMMA LockKeeps ==
    ASSUME TypeOK, TypeOK', LockInv, AloneInv, NEW c \in Threads, Steps(c), Releases(c),
           kind' = kind
    PROVE  LockInv'
<1>1. t' \in [Threads -> Locals]
  BY DEF TypeOK, ThreadOK
<1>2. \A b \in Threads : b # c => t'[b].pc = t[b].pc /\ t'[b].idx = t[b].idx
  BY <1>1, OthersMoved
<1>3. \A b \in Threads : b # c => (Locks(b)' <=> Locks(b)) /\ I(b)' = I(b)
  BY <1>2 DEF Locks, I
<1>4. ASSUME NEW i \in Index, lock'[i] PROVE \E b \in Threads : Locks(b)' /\ I(b)' = i
  <2>1. CASE Locks(c)' /\ I(c)' = i
    BY <2>1
  <2>2. CASE lock[i] /\ ~(Locks(c) /\ I(c) = i)
    <3>1. PICK b \in Threads : Locks(b) /\ I(b) = i
      BY <2>2 DEF LockInv
    <3>2. b # c
      BY <2>2, <3>1
    <3> QED BY <1>3, <3>1, <3>2
  <2> QED BY <1>4, <2>1, <2>2 DEF Releases
<1> QED BY <1>4 DEF LockInv

LEMMA AloneKeeps ==
    ASSUME TypeOK, TypeOK', AloneInv, NEW c \in Threads, Steps(c), kind' = kind
    PROVE  AloneInv'
<1>1. t \in [Threads -> Locals] /\ t' \in [Threads -> Locals] /\ t[c] \in Locals
  BY DEF TypeOK, ThreadOK
<1>2. \A b \in Threads : b # c => t'[b].pc = t[b].pc /\ ~t'[b].alone
  BY <1>1, OthersMoved
<1>3. t'[c].alone => kind # "p" /\ \A b \in Threads : b # c => t[b].pc = "idle"
  <2>1. CASE \E r : Enter(c, r)
    <3>1. PICK r : Enter(c, r)
      BY <2>1
    <3>2. PICK x \in BOOLEAN : x = (kind # "p" /\ \A b \in Threads \ {c} : t[b].pc = "idle")
      OBVIOUS
    <3>3. t'[c] = [r EXCEPT !.alone = x]
      BY <3>1, <3>2 DEF Enter
    <3>4. "alone" \in DOMAIN t'[c]
      BY <1>1 DEF Locals
    <3>5. t'[c].alone => x
      BY <3>3, <3>4
    <3> QED BY <3>2, <3>5
  <2>2. CASE GoesOn(c)
    <3>1. t'[c].alone => t[c].alone
      BY <1>1, <2>2 DEF GoesOn, Set
    <3> QED BY <3>1 DEF AloneInv
  <2> QED BY <2>1, <2>2 DEF Steps
<1> QED BY <1>2, <1>3 DEF AloneInv

(* The steps of an enqueuer, ...                                           *)
LEMMA EnqueueSteps ==
    ASSUME TypeOK, NEW c \in Enqueuers, Enqueue(c)
    PROVE  Steps(c) /\ Releases(c) /\ kind' = kind
<1>0. c \in Threads /\ t[c] \in Locals /\ t \in [Threads -> Locals]
      /\ lock \in [Index -> BOOLEAN]
  BY Names, LocalsOf DEF TypeOK, ThreadOK, DataOK
<1>1. ASSUME t[c].pc \notin {"take", "append"}, lock' = lock PROVE Releases(c)
  BY <1>1 DEF Releases, Locks
<1>2. ASSUME t[c].pc # "idle", NEW r, Set(c, r), r.alone = t[c].alone PROVE Steps(c)
  BY <1>0, <1>2, OnWith DEF Steps
<1>3. CASE PEnqAnnounce(c) \/ PaEnqSlot(c) \/ IndexCall(c)
  <2>1. Steps(c)
    BY <1>3 DEF PEnqAnnounce, PaEnqSlot, IndexCall, Steps
  <2>2. t[c].pc = "idle" /\ lock' = lock /\ kind' = kind
    BY <1>3 DEF PEnqAnnounce, PaEnqSlot, IndexCall, At, slots
  <2> QED BY <1>1, <2>1, <2>2
<1>4. CASE PEnqTicket(c)
  <2> DEFINE r == [t[c] EXCEPT !.pc = "permit", !.cnt = enq_counter, !.idx = enq_counter % N]
  <2>1. t[c].pc = "ticket" /\ lock' = lock /\ kind' = kind /\ Set(c, r)
    BY <1>4 DEF PEnqTicket, At, slots
  <2>2. r.alone = t[c].alone
    BY <1>0 DEF Locals
  <2> HIDE DEF r
  <2> QED BY <1>1, <1>2, <2>1, <2>2
<1>5. CASE PEnqPermit(c)
  <2>1. PICK n : Set(c, [t[c] EXCEPT !.pc = "e_enter", !.n = n])
    BY <1>5 DEF PEnqPermit
  <2> DEFINE r == [t[c] EXCEPT !.pc = "e_enter", !.n = n]
  <2>2. t[c].pc = "permit" /\ lock' = lock /\ kind' = kind /\ Set(c, r)
    BY <1>5, <2>1 DEF PEnqPermit, At, slots
  <2>3. r.alone = t[c].alone
    BY <1>0 DEF Locals
  <2> HIDE DEF r
  <2> QED BY <1>1, <1>2, <2>2, <2>3
<1>6. CASE FIFO_enter(c) \/ FIFO_exit(c)
  <2>1. t[c].pc \in {"e_enter", "e_exit"} /\ lock' = lock /\ kind' = kind /\ \E l : Goto(c, l)
    BY <1>6 DEF FIFO_enter, FIFO_exit, At, slots
  <2> QED BY <1>0, <1>1, <2>1, OnWith DEF Steps
<1>7. CASE SwapTail(c, "e_exit") \/ SwapTail(c, "link")
  <2>1. PICK x, l : Set(c, [t[c] EXCEPT !.next = x, !.pc = l])
    BY <1>7 DEF SwapTail
  <2> DEFINE r == [t[c] EXCEPT !.next = x, !.pc = l]
  <2>2. t[c].pc = "swap" /\ lock' = lock /\ kind' = kind /\ Set(c, r)
    BY <1>7, <2>1 DEF SwapTail, At, slots
  <2>3. r.alone = t[c].alone
    BY <1>0 DEF Locals
  <2> HIDE DEF r
  <2> QED BY <1>1, <1>2, <2>2, <2>3
<1>8. CASE LinkNode(c)
  <2>1. t[c].pc = "link" /\ lock' = lock /\ kind' = kind /\ Set(c, Idle)
    BY <1>8 DEF LinkNode, At, slots
  <2> QED BY <1>0, <1>1, <2>1, OnWith DEF Steps
<1>9. CASE IndexWrap(c) \/ IndexNext(c)
  <2>1. PICK x, l : Set(c, [t[c] EXCEPT !.pc = l, !.cnt = x])
    BY <1>9 DEF IndexWrap, IndexNext
  <2> DEFINE r == [t[c] EXCEPT !.pc = l, !.cnt = x]
  <2>2. t[c].pc \in {"wrap", "bump"} /\ lock' = lock /\ kind' = kind /\ Set(c, r)
    BY <1>9, <2>1 DEF IndexWrap, IndexNext, At, slots
  <2>3. r.alone = t[c].alone
    BY <1>0 DEF Locals
  <2> HIDE DEF r
  <2> QED BY <1>1, <1>2, <2>2, <2>3
<1>10. CASE IndexStore(c)
  <2>1. t[c].pc = "store" /\ lock' = lock /\ kind' = kind
    BY <1>10 DEF IndexStore, At
  <2>2. CASE kind = "pi"
    <3>1. Set(c, Idle)
      BY <1>10, <2>2 DEF IndexStore
    <3> QED BY <1>0, <1>1, <2>1, <3>1, OnWith DEF Steps
  <2>3. CASE kind # "pi"
    <3> DEFINE r == [t[c] EXCEPT !.pc = "index", !.cnt = 0]
    <3>1. Set(c, r)
      BY <1>10, <2>3 DEF IndexStore
    <3>2. r.alone = t[c].alone
      BY <1>0 DEF Locals
    <3> HIDE DEF r
    <3> QED BY <1>1, <1>2, <2>1, <3>1, <3>2
  <2> QED BY <2>2, <2>3
<1>11. CASE IndexLoad(c)
  <2>1. PICK x, l : Set(c, [t[c] EXCEPT !.pc = l, !.idx = x])
    BY <1>11 DEF IndexLoad
  <2> DEFINE r == [t[c] EXCEPT !.pc = l, !.idx = x]
  <2>2. t[c].pc = "index" /\ lock' = lock /\ kind' = kind /\ Set(c, r)
    BY <1>11, <2>1 DEF IndexLoad, At, slots
  <2>3. r.alone = t[c].alone
    BY <1>0 DEF Locals
  <2> HIDE DEF r
  <2> QED BY <1>1, <1>2, <2>2, <2>3
<1>12. CASE IndexBumped(c)
  <2> DEFINE r == [t[c] EXCEPT !.pc = "wrap", !.cnt = 0, !.idx = 0]
  <2>1. t[c].pc = "bumped" /\ lock' = lock /\ kind' = kind /\ Set(c, r)
    BY <1>12 DEF IndexBumped, At
  <2>2. r.alone = t[c].alone
    BY <1>0 DEF Locals
  <2> HIDE DEF r
  <2> QED BY <1>1, <1>2, <2>1, <2>2
<1>13. CASE MpiTryLock(c)
  <2>1. t[c].pc = "trylock" /\ kind' = kind /\ \E l : Goto(c, l)
    BY <1>13 DEF MpiTryLock, At
  <2>2. Steps(c)
    BY <1>0, <2>1, OnWith DEF Steps
  <2>3. ~Locks(c)
    BY <2>1 DEF Locks
  <2>4. ASSUME NEW i \in Index, lock'[i], ~lock[i] PROVE Locks(c)' /\ I(c)' = i
    <3>1. i = I(c)
      BY <1>0, <1>13, <2>4 DEF MpiTryLock
    <3>2. t' = [t EXCEPT ![c] = [t[c] EXCEPT !.pc = "append"]]
      BY <1>13, <2>4, <3>1 DEF MpiTryLock, Goto, Set
    <3>3. t'[c].pc = "append" /\ t'[c].idx = t[c].idx
      BY <1>0, <3>2 DEF Locals
    <3>4. kind = "mpi"
      BY <1>0, <2>1, PKind
    <3> QED BY <2>1, <3>1, <3>3, <3>4 DEF Locks, I
  <2> QED BY <2>1, <2>2, <2>3, <2>4 DEF Releases
<1>14. CASE MpiAppend(c)
  <2>1. t[c].pc = "append" /\ kind' = kind /\ Set(c, Idle)
    BY <1>14 DEF MpiAppend, At
  <2>2. \A i \in Index : lock'[i] => lock[i] /\ I(c) # i
    BY <1>0, <1>14 DEF MpiAppend
  <2> QED BY <1>0, <2>1, <2>2, OnWith DEF Steps, Releases
<1>15. CASE PiAppend(c)
  <2>1. t[c].pc = "append" /\ kind' = kind /\ Goto(c, "bump") /\ lock' = lock /\ kind = "pi"
    BY <1>15 DEF PiAppend, At
  <2>2. Releases(c)
    BY <2>1 DEF Releases, Locks
  <2> QED BY <1>0, <2>1, <2>2, OnWith DEF Steps
<1> QED BY <1>3, <1>4, <1>5, <1>6, <1>7, <1>8, <1>9, <1>10, <1>11, <1>12, <1>13, <1>14, <1>15
        DEF Enqueue, enqueue_ev_pqueue, enqueue_evpaq, IndexSteps, enqueue_ev_mpiqueue

(* ... and of a dequeuer.                                                  *)
LEMMA DequeueSteps ==
    ASSUME TypeOK, NEW c \in Dequeuers, Dequeue(c)
    PROVE  Steps(c) /\ Releases(c) /\ kind' = kind
<1>0. c \in Threads /\ t[c] \in Locals /\ t \in [Threads -> Locals] /\ t[c].idx \in Index
      /\ lock \in [Index -> BOOLEAN] /\ I(c) = t[c].idx
  BY Names, LocalsOf DEF TypeOK, ThreadOK, DataOK, I
<1>1. ASSUME t[c].pc \notin {"take", "append"}, lock' = lock PROVE Releases(c)
  BY <1>1 DEF Releases, Locks
<1>2. ASSUME t[c].pc # "idle", NEW r, Set(c, r), r.alone = t[c].alone PROVE Steps(c)
  BY <1>0, <1>2, OnWith DEF Steps
<1>3. ASSUME t[c].pc # "idle", (\E l : Goto(c, l)) \/ (\E x : Answer(c, x)) PROVE Steps(c)
  BY <1>0, <1>3, OnWith DEF Steps
<1>4. ASSUME NEW x, t[c].pc # "idle", Set(c, NextList(c, x)) PROVE Steps(c)
  <2> DEFINE j == (t[c].idx + 1) % N
             r == [t[c] EXCEPT !.pc = "tail", !.n = Null, !.tries = x, !.idx = j]
  <2>1. Set(c, r)
    BY <1>0, <1>4 DEF NextList, Locals
  <2> HIDE DEF j
  <2>2. r.alone = t[c].alone
    BY <1>0 DEF Locals
  <2> HIDE DEF r
  <2> QED BY <1>2, <1>4, <2>1, <2>2
<1>5. ASSUME NEW x, t[c].pc # "idle", Advance(c, x) PROVE Steps(c)
  <2>1. CASE x = N
    BY <1>3, <1>5, <2>1 DEF Advance
  <2>2. CASE x # N
    <3> DEFINE j == (t[c].idx + 1) % N
               r == [t[c] EXCEPT !.pc = "try", !.tries = x, !.idx = j]
    <3>1. Set(c, r)
      BY <1>0, <1>5, <2>2 DEF Advance, Locals
    <3> HIDE DEF j
    <3>2. r.alone = t[c].alone
      BY <1>0 DEF Locals
    <3> HIDE DEF r
    <3> QED BY <1>2, <1>5, <3>1, <3>2
  <2> QED BY <2>1, <2>2
<1>6. CASE PDeqCall(c) \/ PaDeqSlot(c) \/ MpiDeqCall(c) \/ PiDeqCall(c)
  <2>1. Steps(c)
    BY <1>6 DEF PDeqCall, PaDeqSlot, MpiDeqCall, PiDeqCall, Steps
  <2>2. t[c].pc = "idle" /\ lock' = lock /\ kind' = kind
    BY <1>6 DEF PDeqCall, PaDeqSlot, MpiDeqCall, PiDeqCall, At, slots
  <2> QED BY <1>1, <2>1, <2>2
<1>7. CASE \/ PTestPermits(c) \/ PTakePermit(c) \/ PUndoPermit(c) \/ PTestAnnounced(c)
           \/ PDeqLess(c) \/ dequeue_FIFO_enter(c) \/ dequeue_FIFO_exit(c)
  <2>1. /\ t[c].pc \notin {"idle", "take", "append"} /\ lock' = lock /\ kind' = kind
        /\ (\E l : Goto(c, l)) \/ (\E x : Answer(c, x))
    <3>1. t[c].pc \in {"test", "dec", "undo", "ub", "less", "d_enter", "d_exit"}
      BY <1>7 DEF PTestPermits, PTakePermit, PUndoPermit, PTestAnnounced, PDeqLess,
                  dequeue_FIFO_enter, dequeue_FIFO_exit, At
    <3>2. lock' = lock /\ kind' = kind
      BY <1>7 DEF PTestPermits, PTakePermit, PUndoPermit, PTestAnnounced, PDeqLess,
                  dequeue_FIFO_enter, dequeue_FIFO_exit, slots
    <3>3. (\E l : Goto(c, l)) \/ (\E x : Answer(c, x))
      BY <1>7 DEF PTestPermits, PTakePermit, PUndoPermit, PTestAnnounced, PDeqLess,
                  dequeue_FIFO_enter, dequeue_FIFO_exit
    <3> QED BY <3>1, <3>2, <3>3
  <2> QED BY <1>1, <1>3, <2>1
<1>8. CASE PDeqTicket(c)
  <2> DEFINE r == [t[c] EXCEPT !.pc = "less", !.cnt = deq_counter, !.idx = deq_counter % N]
  <2>1. t[c].pc = "d_ticket" /\ lock' = lock /\ kind' = kind /\ Set(c, r)
    BY <1>8 DEF PDeqTicket, At, slots
  <2>2. r.alone = t[c].alone
    BY <1>0 DEF Locals
  <2> HIDE DEF r
  <2> QED BY <1>1, <1>2, <2>1, <2>2
<1>9. CASE PDeqHead(c)
  <2> DEFINE r == [t[c] EXCEPT !.pc = "d_next", !.n = head[I(c)]]
  <2>1. t[c].pc = "d_head" /\ lock' = lock /\ kind' = kind /\ Set(c, r)
    BY <1>9 DEF PDeqHead, At, slots
  <2>2. r.alone = t[c].alone
    BY <1>0 DEF Locals
  <2> HIDE DEF r
  <2> QED BY <1>1, <1>2, <2>1, <2>2
<1>10. CASE PDeqNext(c) \/ PaLoadNext(c) \/ AwaitNext(c, "d_reset") \/ AwaitNext(c, "move")
  <2>1. PICK x, l : \/ Set(c, [t[c] EXCEPT !.pc = l, !.next = x])
                    \/ Set(c, [t[c] EXCEPT !.next = x, !.pc = l])
    BY <1>10 DEF PDeqNext, PaLoadNext, AwaitNext
  <2> DEFINE r == [t[c] EXCEPT !.pc = l, !.next = x]
             s == [t[c] EXCEPT !.next = x, !.pc = l]
  <2>2. t[c].pc \in {"d_next", "next", "await"} /\ lock' = lock /\ kind' = kind
    BY <1>10 DEF PDeqNext, PaLoadNext, AwaitNext, At, slots
  <2>3. r.alone = t[c].alone /\ s.alone = t[c].alone /\ (Set(c, r) \/ Set(c, s))
    BY <1>0, <2>1 DEF Locals
  <2> HIDE DEF r, s
  <2> QED BY <1>1, <1>2, <2>2, <2>3
<1>11. CASE \/ PDeqSetHead(c) \/ PDeqCasTail(c) \/ PDeqResetHead(c) \/ FreeNode(c)
            \/ PaCheckTail(c) \/ PaCasTail(c) \/ PaMoveHead(c)
  <2>1. t[c].pc \in {"d_set", "d_cas", "d_reset", "free", "check", "cas", "move"}
    BY <1>11 DEF PDeqSetHead, PDeqCasTail, PDeqResetHead, FreeNode, PaCheckTail, PaCasTail,
                 PaMoveHead, At
  <2>2. lock' = lock /\ kind' = kind
    BY <1>11 DEF PDeqSetHead, PDeqCasTail, PDeqResetHead, FreeNode, PaCheckTail, PaCasTail,
                 PaMoveHead, slots
  <2>3. (\E l : Goto(c, l)) \/ (\E x : Answer(c, x))
    BY <1>11 DEF PDeqSetHead, PDeqCasTail, PDeqResetHead, FreeNode, PaCheckTail, PaCasTail,
                 PaMoveHead
  <2> QED BY <1>1, <1>3, <2>1, <2>2, <2>3
<1>12. CASE PaLoadTail(c)
  <2>1. t[c].pc = "tail" /\ lock' = lock /\ kind' = kind
    BY <1>12 DEF PaLoadTail, At, slots
  <2>2. \/ Set(c, [t[c] EXCEPT !.pc = "head", !.tries = 0])
        \/ \E x : Set(c, NextList(c, x))
        \/ \E x : Answer(c, x)
    BY <1>12 DEF PaLoadTail
  <2> DEFINE r == [t[c] EXCEPT !.pc = "head", !.tries = 0]
  <2>3. r.alone = t[c].alone
    BY <1>0 DEF Locals
  <2>4. Set(c, r) => Steps(c)
    <3> HIDE DEF r
    <3> QED BY <1>2, <2>1, <2>3
  <2> QED BY <1>1, <1>3, <1>4, <2>1, <2>2, <2>4
<1>13. CASE PaLoadHead(c)
  <2>1. t[c].pc = "head" /\ lock' = lock /\ kind' = kind
    BY <1>13 DEF PaLoadHead, At, slots
  <2> DEFINE r == [t[c] EXCEPT !.pc = "mark", !.n = head[I(c)]]
  <2>2. Set(c, r) \/ Set(c, NextList(c, 0))
    BY <1>13 DEF PaLoadHead
  <2>3. r.alone = t[c].alone
    BY <1>0 DEF Locals
  <2> HIDE DEF r
  <2> QED BY <1>1, <1>2, <1>4, <2>1, <2>2, <2>3
<1>14. CASE PaMarkHead(c)
  <2>1. t[c].pc = "mark" /\ lock' = lock /\ kind' = kind
    BY <1>14 DEF PaMarkHead, At, slots
  <2>2. (\E l : Goto(c, l)) \/ Set(c, NextList(c, 0))
    BY <1>14 DEF PaMarkHead
  <2> QED BY <1>1, <1>3, <1>4, <2>1, <2>2
<1>15. CASE PiDeqBump(c)
  <2>1. t[c].pc = "d_bump" /\ lock' = lock /\ kind' = kind /\ \E l : Goto(c, l)
    BY <1>15 DEF PiDeqBump, At
  <2> QED BY <1>1, <1>3, <2>1
<1>16. CASE TryList(c)
  <2>1. t[c].pc = "try" /\ kind' = kind
    BY <1>16 DEF TryList, At
  <2>2. CASE lock' = lock /\ \E x : Advance(c, x)
    BY <1>1, <1>5, <2>1, <2>2
  <2>3. CASE lock' = [lock EXCEPT ![I(c)] = TRUE] /\ Goto(c, "take")
    <3>1. t'[c].pc = "take" /\ t'[c].idx = t[c].idx
      <4>1. t' = [t EXCEPT ![c] = [t[c] EXCEPT !.pc = "take"]]
        BY <2>3 DEF Goto, Set
      <4> QED BY <1>0, <4>1 DEF Locals
    <3>2. ~Locks(c) /\ Locks(c)' /\ I(c)' = I(c)
      BY <2>1, <3>1 DEF Locks, I
    <3>3. \A i \in Index : lock'[i] => lock[i] \/ i = I(c)
      BY <1>0, <2>3
    <3> QED BY <1>3, <2>1, <2>3, <3>2, <3>3 DEF Releases
  <2>4. \/ lock' = lock /\ \E x : Advance(c, x)
        \/ lock' = [lock EXCEPT ![I(c)] = TRUE] /\ Goto(c, "take")
    BY <1>16 DEF TryList, ListBusy
  <2> QED BY <2>2, <2>3, <2>4
<1>17. CASE TakeFromList(c)
  <2>1. t[c].pc = "take" /\ kind' = kind
    BY <1>17 DEF TakeFromList, At
  <2>2. \A i \in Index : lock'[i] => lock[i] /\ I(c) # i
    BY <1>0, <1>17 DEF TakeFromList
  <2>3. (\E x : Advance(c, x)) \/ (\E x : Answer(c, x))
    BY <1>17 DEF TakeFromList
  <2> QED BY <1>3, <1>5, <2>1, <2>2, <2>3 DEF Releases
<1> QED BY <1>6, <1>7, <1>8, <1>9, <1>10, <1>11, <1>12, <1>13, <1>14, <1>15, <1>16, <1>17
        DEF Dequeue, dequeue_ev_pqueue, dequeue_evpaq, ListSteps

(* What a dequeuer's locals are after a step.                              *)
LEMMA After ==
    ASSUME TypeOK, NEW c \in Dequeuers
    PROVE  /\ \A r : Set(c, r) => t'[c] = r
           /\ \A r : Enter(c, r) /\ r \in Locals => t'[c].pc = r.pc /\ t'[c].tries = r.tries
           /\ \A l : Goto(c, l) => /\ t'[c].pc = l /\ t'[c].idx = t[c].idx
                                   /\ t'[c].tries = t[c].tries /\ t'[c].alone = t[c].alone
           /\ \A x : Answer(c, x) => /\ t'[c].pc = "idle" /\ t'[c].tries = 0
                                     /\ t'[c].alone => t[c].alone
                                     /\ t'[c].alone /\ kind # "p" => x = Empty
           /\ \A x, l : Set(c, [t[c] EXCEPT !.pc = l, !.tries = x, !.idx = (@ + 1) % N]) =>
                 /\ t'[c].pc = l /\ t'[c].idx = (t[c].idx + 1) % N
                 /\ t'[c].tries = x /\ t'[c].alone = t[c].alone
<1>1. c \in Threads /\ t \in [Threads -> Locals] /\ t[c] \in Locals
  BY Names DEF TypeOK, ThreadOK
<1>2. \A r : Set(c, r) => t'[c] = r
  BY <1>1 DEF Set
<1>3. ASSUME NEW r \in Locals, Enter(c, r) PROVE t'[c].pc = r.pc /\ t'[c].tries = r.tries
  <2>1. PICK x : t'[c] = [r EXCEPT !.alone = x]
    BY <1>1, <1>3 DEF Enter
  <2> QED BY <2>1 DEF Locals
<1>4. ASSUME NEW l, Goto(c, l)
      PROVE  /\ t'[c].pc = l /\ t'[c].idx = t[c].idx
             /\ t'[c].tries = t[c].tries /\ t'[c].alone = t[c].alone
  <2>1. t'[c] = [t[c] EXCEPT !.pc = l]
    BY <1>2, <1>4 DEF Goto
  <2> QED BY <1>1, <2>1 DEF Locals
<1>5. ASSUME NEW x, Answer(c, x)
      PROVE  /\ t'[c].pc = "idle" /\ t'[c].tries = 0
             /\ t'[c].alone => t[c].alone
             /\ t'[c].alone /\ kind # "p" => x = Empty
  <2>1. PICK k, y, z : /\ k = (kind = "p" \/ (x = Empty /\ t[c].alone))
                       /\ y = IF k THEN x ELSE None
                       /\ z = (k /\ t[c].alone)
    OBVIOUS
  <2>2. t'[c] = [Idle EXCEPT !.res = y, !.alone = z]
    BY <1>2, <1>5, <2>1 DEF Answer
  <2>3. t'[c].pc = "idle" /\ t'[c].tries = 0 /\ t'[c].alone = z
    BY <2>2 DEF Idle
  <2> QED BY <2>1, <2>3
<1>6. ASSUME NEW x, NEW l, Set(c, [t[c] EXCEPT !.pc = l, !.tries = x, !.idx = (@ + 1) % N])
      PROVE  /\ t'[c].pc = l /\ t'[c].idx = (t[c].idx + 1) % N
             /\ t'[c].tries = x /\ t'[c].alone = t[c].alone
  <2>1. PICK j : j = (t[c].idx + 1) % N
    OBVIOUS
  <2>2. t'[c] = [t[c] EXCEPT !.pc = l, !.tries = x, !.idx = j]
    BY <1>1, <1>2, <1>6, <2>1 DEF Locals
  <2>3. /\ t'[c].pc = l /\ t'[c].idx = j
        /\ t'[c].tries = x /\ t'[c].alone = t[c].alone
    BY <1>1, <2>2 DEF Locals
  <2> QED BY <2>1, <2>3
<1> QED BY <1>2, <1>3, <1>4, <1>5, <1>6

(* A round begins, goes on in the same list, goes on to the next, ends.    *)
LEMMA WalksOn ==
    ASSUME TypeOK, TypeOK', NEW c \in Dequeuers, t[c].alone => Walk(c), t'[c].alone,
           \/ t'[c].pc # "idle" /\ t'[c].tries = 0
           \/ /\ UNCHANGED <<put, took>> /\ t[c].pc # "idle" /\ t[c].alone
              /\ \/ /\ t'[c].pc \notin FoundPCs \cup {"idle"}
                    /\ t'[c].idx = t[c].idx /\ t'[c].tries = t[c].tries
                 \/ /\ Drained(t[c].idx) /\ t[c].tries + 1 < N
                    /\ t'[c].pc \notin FoundPCs \cup {"idle"}
                    /\ t'[c].idx = (t[c].idx + 1) % N /\ t'[c].tries = t[c].tries + 1
                 \/ /\ Drained(t[c].idx) /\ t[c].tries + 1 >= N
                    /\ t'[c].pc = "idle" /\ t'[c].tries = 0
    PROVE  Walk(c)'
<1>1. /\ t[c].idx \in Index /\ t[c].tries \in Nat
      /\ t'[c].idx \in Index /\ t'[c].tries \in Nat
      /\ N \in Nat /\ N > 0
  BY Names, Size DEF TypeOK, ThreadOK, Locals
<1>2. PICK x, k, y, j : /\ x = t[c].idx /\ k = t[c].tries
                        /\ y = t'[c].idx /\ j = t'[c].tries
  OBVIOUS
<1>3. x \in Index /\ k \in Nat /\ y \in Index /\ j \in Nat
  BY <1>1, <1>2
<1>4. SUFFICES /\ j < N
               /\ t'[c].pc = "idle" => \A i \in Index : Drained(i)'
               /\ t'[c].pc \in FoundPCs => j = 0
               /\ t'[c].pc # "idle" => \A i \in Index : Behind(i, y, j) => Drained(i)'
  BY <1>2 DEF Walk, Behind
<1>5. CASE t'[c].pc # "idle" /\ t'[c].tries = 0
  <2>1. j = 0 /\ 0 \in Nat /\ 0 < N
    BY <1>1, <1>2, <1>5
  <2>2. \A i \in Index : ~Behind(i, y, j)
    BY <1>3, <2>1, Round
  <2> QED BY <1>5, <2>1, <2>2
<1>6. ASSUME UNCHANGED <<put, took>>, t[c].pc # "idle", t[c].alone
      PROVE  /\ \A i \in Index : Drained(i) => Drained(i)'
             /\ k < N /\ \A i \in Index : Behind(i, x, k) => Drained(i)
  <2>1. Walk(c)
    BY <1>6
  <2> QED BY <1>2, <1>6, <2>1 DEF Walk, Drained
<1>7. CASE /\ UNCHANGED <<put, took>> /\ t[c].pc # "idle" /\ t[c].alone
           /\ t'[c].pc \notin FoundPCs \cup {"idle"}
           /\ t'[c].idx = t[c].idx /\ t'[c].tries = t[c].tries
  <2>1. y = x /\ j = k
    BY <1>2, <1>7
  <2> QED BY <1>6, <1>7, <2>1
<1>8. CASE /\ UNCHANGED <<put, took>> /\ t[c].pc # "idle" /\ t[c].alone
           /\ Drained(t[c].idx) /\ t[c].tries + 1 < N
           /\ t'[c].pc \notin FoundPCs \cup {"idle"}
           /\ t'[c].idx = (t[c].idx + 1) % N /\ t'[c].tries = t[c].tries + 1
  <2>1. y = (x + 1) % N /\ j = k + 1 /\ k + 1 < N /\ Drained(x)
    BY <1>2, <1>8
  <2>2. \A i \in Index : Behind(i, y, j) => Behind(i, x, k) \/ i = x
    BY <1>3, <1>6, <1>8, <2>1, Round
  <2> QED BY <1>6, <1>8, <2>1, <2>2
<1>9. CASE /\ UNCHANGED <<put, took>> /\ t[c].pc # "idle" /\ t[c].alone
           /\ Drained(t[c].idx) /\ t[c].tries + 1 >= N
           /\ t'[c].pc = "idle" /\ t'[c].tries = 0
  <2>1. j = 0 /\ k + 1 >= N /\ Drained(x) /\ 0 < N
    BY <1>1, <1>2, <1>9
  <2>2. \A i \in Index : Behind(i, x, k) \/ i = x
    BY <1>3, <1>6, <1>9, <2>1, Round
  <2>3. "idle" \notin FoundPCs
    BY DEF FoundPCs
  <2> QED BY <1>6, <1>9, <2>1, <2>2, <2>3
<1> QED BY <1>5, <1>7, <1>8, <1>9

(* The search of ev_paqueue.                                               *)
LEMMA PaWalkKeeps ==
    ASSUME ArrayInv, TypeOK', NEW c \in Dequeuers, kind = "pa", t[c].alone => Walk(c),
           dequeue_evpaq(c), t'[c].alone
    PROVE  Walk(c)'
<1>0. /\ TypeOK /\ c \in Threads /\ t[c] \in Locals /\ I(c) = t[c].idx /\ t[c].idx \in Index
      /\ Idle \in Locals /\ Idle.tries = 0 /\ t[c].tries \in Nat /\ N \in Nat
  BY Names, LocalsOf, Size DEF ArrayInv, TypeOK, ThreadOK, Locals, I
<1>1. ASSUME t'[c].pc # "idle", t'[c].tries = 0 PROVE Walk(c)'
  BY <1>0, <1>1, WalksOn
<1>2. ASSUME NEW l, Goto(c, l), l # "idle", t[c].pc \in FoundPCs PROVE Walk(c)'
  <2>1. t'[c].pc = l /\ t'[c].tries = t[c].tries /\ t'[c].alone = t[c].alone
    BY <1>0, <1>2, After
  <2>2. t[c].tries = 0
    BY <1>2, <2>1 DEF Walk
  <2> QED BY <1>1, <1>2, <2>1, <2>2
<1>3. ASSUME NEW x \in Nat, Set(c, NextList(c, x))
      PROVE  /\ t'[c].pc = "tail" /\ t'[c].idx = (t[c].idx + 1) % N
             /\ t'[c].tries = x /\ t'[c].alone = t[c].alone
  <2>1. PICK j : j = (t[c].idx + 1) % N
    OBVIOUS
  <2>2. t'[c] = [t[c] EXCEPT !.pc = "tail", !.n = Null, !.tries = x, !.idx = j]
    BY <1>0, <1>3, <2>1, After DEF NextList, Locals
  <2>3. /\ t'[c].pc = "tail" /\ t'[c].idx = j /\ t'[c].tries = x /\ t'[c].alone = t[c].alone
    BY <1>0, <2>2 DEF Locals
  <2> QED BY <2>1, <2>3
<1>4. CASE PaDeqSlot(c)
  <2> DEFINE r == [Idle EXCEPT !.pc = "tail", !.idx = deq_counter % N]
  <2>1. Enter(c, r)
    BY <1>4 DEF PaDeqSlot
  <2>2. deq_counter % N \in Nat /\ "tail" \in Labels
    BY <1>0, Size DEF TypeOK, DataOK, Labels, DequeuePCs
  <2>3. r \in Locals /\ r.pc = "tail" /\ r.tries = 0
    BY <1>0, <2>2 DEF Locals
  <2> HIDE DEF r
  <2> QED BY <1>0, <1>1, <2>1, <2>3, After
<1>5. CASE PaLoadTail(c)
  <2>1. t[c].pc = "tail" /\ UNCHANGED <<put, took>>
    BY <1>5 DEF PaLoadTail, At, hist
  <2>2. CASE tail[I(c)] # Null
    <3> DEFINE r == [t[c] EXCEPT !.pc = "head", !.tries = 0]
    <3>1. Set(c, r)
      BY <1>5, <2>2 DEF PaLoadTail
    <3>2. r.pc = "head" /\ r.tries = 0
      BY <1>0 DEF Locals
    <3> HIDE DEF r
    <3>3. t'[c] = r
      BY <1>0, <3>1, After
    <3> QED BY <1>1, <3>2, <3>3
  <2>3. CASE tail[I(c)] = Null
    <3>1. Drained(t[c].idx)
      BY <1>0, <2>3, EmptyList
    <3>2. CASE t[c].tries + 1 < N
      <4>1. Set(c, NextList(c, t[c].tries + 1)) /\ t[c].tries + 1 \in Nat
        BY <1>0, <1>5, <2>3, <3>2 DEF PaLoadTail
      <4>2. /\ t'[c].pc = "tail" /\ t'[c].idx = (t[c].idx + 1) % N
            /\ t'[c].tries = t[c].tries + 1 /\ t'[c].alone = t[c].alone
        BY <1>3, <4>1
      <4>3. "tail" \notin FoundPCs \cup {"idle"}
        BY DEF FoundPCs
      <4> QED BY <1>0, <2>1, <3>1, <3>2, <4>2, <4>3, WalksOn
    <3>3. CASE ~(t[c].tries + 1 < N)
      <4>1. Answer(c, Empty)
        BY <1>5, <2>3, <3>3 DEF PaLoadTail
      <4>2. t'[c].pc = "idle" /\ t'[c].tries = 0 /\ t[c].alone
        BY <1>0, <4>1, After
      <4>3. t[c].tries + 1 >= N
        BY <1>0, <3>3
      <4> QED BY <1>0, <2>1, <3>1, <4>2, <4>3, WalksOn
    <3> QED BY <3>2, <3>3
  <2> QED BY <2>2, <2>3
<1>6. CASE PaLoadHead(c)
  <2>1. t[c].pc = "head"
    BY <1>6 DEF PaLoadHead, At
  <2> DEFINE r == [t[c] EXCEPT !.pc = "mark", !.n = head[I(c)]]
  <2>2. Set(c, r) \/ Set(c, NextList(c, 0))
    BY <1>6 DEF PaLoadHead
  <2>3. r.pc = "mark" /\ r.tries = t[c].tries /\ r.alone = t[c].alone
    BY <1>0 DEF Locals
  <2> HIDE DEF r
  <2>4. CASE Set(c, r)
    <3>1. t'[c] = r
      BY <1>0, <2>4, After
    <3>2. t[c].tries = 0
      BY <2>1, <2>3, <3>1 DEF Walk, FoundPCs
    <3> QED BY <1>1, <2>3, <3>1, <3>2
  <2>5. CASE Set(c, NextList(c, 0))
    BY <1>1, <1>3, <2>5
  <2> QED BY <2>2, <2>4, <2>5
<1>7. CASE PaMarkHead(c)
  <2>1. t[c].pc = "mark" /\ (Goto(c, "next") \/ Set(c, NextList(c, 0)))
    BY <1>7 DEF PaMarkHead, At
  <2> QED BY <1>1, <1>2, <1>3, <2>1 DEF FoundPCs
<1>8. CASE PaLoadNext(c) \/ (kind = "pa" /\ AwaitNext(c, "move"))
  <2>1. t[c].pc \in {"next", "await"}
    BY <1>8 DEF PaLoadNext, AwaitNext, At
  <2>2. PICK x, l : /\ l \in {"check", "move"}
                    /\ \/ Set(c, [t[c] EXCEPT !.pc = l, !.next = x])
                       \/ Set(c, [t[c] EXCEPT !.next = x, !.pc = l])
    BY <1>8 DEF PaLoadNext, AwaitNext
  <2> DEFINE r == [t[c] EXCEPT !.pc = l, !.next = x]
             s == [t[c] EXCEPT !.next = x, !.pc = l]
  <2>3. /\ r.pc = l /\ r.tries = t[c].tries /\ r.alone = t[c].alone
        /\ s.pc = l /\ s.tries = t[c].tries /\ s.alone = t[c].alone
        /\ Set(c, r) \/ Set(c, s)
    BY <1>0, <2>2 DEF Locals
  <2> HIDE DEF r, s
  <2>4. t'[c].pc = l /\ t'[c].tries = t[c].tries /\ t'[c].alone = t[c].alone
    BY <1>0, <2>3, After
  <2>5. t[c].tries = 0
    BY <2>1, <2>4 DEF Walk, FoundPCs
  <2> QED BY <1>1, <2>2, <2>4, <2>5
<1>9. CASE PaCheckTail(c)
  <2>1. t[c].pc = "check" /\ tail[I(c)] # Null
    <3>1. t[c].pc = "check"
      BY <1>9 DEF PaCheckTail, At
    <3>2. line[I(c)] # <<>> /\ line[I(c)] \in Seq(Nodes)
      BY <1>0, <3>1 DEF ArrayInv, NodeInv, ClaimInv, ClaimPCs, Holds, TypeOK, DataOK
    <3>3. tail[I(c)] = line[I(c)][Len(line[I(c)])]
      BY <1>0, <3>2 DEF ArrayInv, NodeInv, LineInv
    <3>4. line[I(c)][Len(line[I(c)])] \in Nodes
      BY <3>2
    <3> QED BY <3>1, <3>3, <3>4, Names
  <2>2. \E l : Goto(c, l) /\ l # "idle"
    BY <1>9, <2>1 DEF PaCheckTail
  <2> QED BY <1>2, <2>1, <2>2 DEF FoundPCs
<1>10. CASE PaCasTail(c) \/ PaMoveHead(c)
  <2>1. t[c].pc \in {"cas", "move"} /\ \E l : Goto(c, l) /\ l # "idle"
    BY <1>10 DEF PaCasTail, PaMoveHead, At
  <2> QED BY <1>2, <2>1 DEF FoundPCs
<1>11. CASE kind = "pa" /\ FreeNode(c)
  <2>1. Answer(c, node[t[c].n].item) /\ t[c].pc = "free"
    BY <1>11 DEF FreeNode, At
  <2>2. t[c].n \in Nodes
    BY <2>1 DEF ArrayInv, NodeInv, ClaimInv, ClaimPCs, TypeOK, DataOK
  <2>3. node[t[c].n].item \in Nat
    BY <2>2 DEF ArrayInv, TypeOK, DataOK, Cells
  <2>4. node[t[c].n].item = Empty
    BY <1>0, <2>1, After
  <2> QED BY <2>3, <2>4, Names
<1> QED BY <1>4, <1>5, <1>6, <1>7, <1>8, <1>9, <1>10, <1>11 DEF dequeue_evpaq

(* The round of ev_mpiqueue and ev_piqueue: alone, it meets no busy list.  *)
LEMMA ListWalkKeeps ==
    ASSUME ArrayInv, TypeOK', LockInv, AloneInv, NEW c \in Dequeuers, t[c].alone => Walk(c),
           ListSteps(c), t'[c].alone
    PROVE  Walk(c)'
<1>0. /\ TypeOK /\ c \in Threads /\ t[c] \in Locals /\ I(c) = t[c].idx /\ t[c].idx \in Index
      /\ Idle \in Locals /\ Idle.tries = 0 /\ t[c].tries \in Nat /\ N \in Nat
  BY Names, LocalsOf, Size DEF ArrayInv, TypeOK, ThreadOK, Locals, I
<1>1. ASSUME t'[c].pc # "idle", t'[c].tries = 0 PROVE Walk(c)'
  BY <1>0, <1>1, WalksOn
<1>2. ASSUME NEW l \in {"try", "take"}, Goto(c, l), UNCHANGED <<put, took>>, t[c].pc # "idle"
      PROVE  Walk(c)'
  <2>1. /\ t'[c].pc = l /\ t'[c].tries = t[c].tries /\ t'[c].alone = t[c].alone
        /\ t'[c].idx = t[c].idx
    BY <1>0, <1>2, After
  <2>2. l \notin FoundPCs \cup {"idle"}
    BY <1>2 DEF FoundPCs
  <2> QED BY <1>0, <1>2, <2>1, <2>2, WalksOn
<1>3. ASSUME Advance(c, t[c].tries + 1), UNCHANGED <<put, took>>, t[c].pc # "idle",
             kind \in {"mpi", "pi"}, q[I(c)] = <<>>
      PROVE  Walk(c)'
  <2>1. Drained(t[c].idx)
    BY <1>0, <1>3, EmptyList
  <2>2. CASE t[c].tries + 1 = N
    <3>1. Answer(c, Empty)
      BY <1>3, <2>2 DEF Advance
    <3>2. t'[c].pc = "idle" /\ t'[c].tries = 0 /\ t[c].alone
      BY <1>0, <3>1, After
    <3>3. t[c].tries + 1 >= N
      BY <1>0, <2>2
    <3> QED BY <1>0, <1>3, <2>1, <3>2, <3>3, WalksOn
  <2>3. CASE t[c].tries + 1 # N
    <3>1. Set(c, [t[c] EXCEPT !.pc = "try", !.tries = t[c].tries + 1, !.idx = (@ + 1) % N])
      BY <1>3, <2>3 DEF Advance
    <3>2. /\ t'[c].pc = "try" /\ t'[c].idx = (t[c].idx + 1) % N
          /\ t'[c].tries = t[c].tries + 1 /\ t'[c].alone = t[c].alone
      BY <1>0, <3>1, After
    <3>3. t[c].tries < N
      BY <3>2 DEF Walk
    <3>4. t[c].tries + 1 < N
      BY <1>0, <2>3, <3>3
    <3>5. "try" \notin FoundPCs \cup {"idle"}
      BY DEF FoundPCs
    <3> QED BY <1>0, <1>3, <2>1, <3>2, <3>4, <3>5, WalksOn
  <2> QED BY <2>2, <2>3
<1>4. CASE MpiDeqCall(c) \/ PiDeqCall(c)
  <2>1. PICK r : /\ Enter(c, r)
                 /\ \/ r = [Idle EXCEPT !.pc = "try"]
                    \/ r = [Idle EXCEPT !.pc = "d_bump", !.idx = st_dindex]
    BY <1>4 DEF MpiDeqCall, PiDeqCall
  <2>2. st_dindex \in Nat /\ {"try", "d_bump"} \subseteq Labels
    BY <1>0, Size DEF TypeOK, DataOK, Labels, DequeuePCs
  <2>3. r \in Locals /\ r.pc \in {"try", "d_bump"} /\ r.tries = 0
    BY <1>0, <2>1, <2>2 DEF Locals
  <2>4. t'[c].pc \in {"try", "d_bump"} /\ t'[c].tries = 0
    BY <1>0, <2>1, <2>3, After
  <2> QED BY <1>1, <2>4
<1>5. CASE PiDeqBump(c)
  <2>1. Goto(c, "try") /\ UNCHANGED <<put, took>> /\ t[c].pc # "idle"
    BY <1>5 DEF PiDeqBump, At, hist
  <2> QED BY <1>2, <2>1
<1>6. CASE TryList(c)
  <2>1. /\ t[c].pc = "try" /\ UNCHANGED <<put, took>> /\ kind \in {"mpi", "pi"}
    <3>1. t[c].pc = "try" /\ UNCHANGED <<put, took>>
      BY <1>6 DEF TryList, At, hist
    <3> QED BY <1>0, <3>1, PKind
  <2>2. CASE Goto(c, "take")
    BY <1>2, <2>1, <2>2
  <2>3. CASE kind = "pi" /\ q[I(c)] = <<>> /\ Advance(c, t[c].tries + 1)
    BY <1>3, <2>1, <2>3
  <2>4. CASE lock[I(c)] /\ ListBusy(c)
    <3>1. PICK b \in Threads : Locks(b) /\ I(b) = I(c)
      BY <1>0, <2>4 DEF LockInv
    <3>2. t[b].pc # "idle" /\ b # c
      BY <2>1, <3>1 DEF Locks
    <3>3. \E x : Advance(c, x)
      BY <2>4 DEF ListBusy
    <3>4. t[c].alone
      <4>1. ASSUME NEW x, Advance(c, x) PROVE t[c].alone
        <5>1. CASE x = N
          BY <1>0, <4>1, <5>1, After DEF Advance
        <5>2. CASE x # N
          <6>1. Set(c, [t[c] EXCEPT !.pc = "try", !.tries = x, !.idx = (@ + 1) % N])
            BY <4>1, <5>2 DEF Advance
          <6> QED BY <1>0, <6>1, After
        <5> QED BY <5>1, <5>2
      <4> QED BY <3>3, <4>1
    <3> QED BY <1>0, <3>2, <3>4 DEF AloneInv
  <2> QED BY <1>6, <2>2, <2>3, <2>4 DEF TryList
<1>7. CASE TakeFromList(c)
  <2>1. t[c].pc = "take" /\ UNCHANGED put /\ kind \in {"mpi", "pi"}
    <3>1. t[c].pc = "take" /\ UNCHANGED put
      BY <1>7 DEF TakeFromList, At
    <3> QED BY <1>0, <3>1, PKind
  <2>2. CASE q[I(c)] = <<>>
    <3>1. Advance(c, t[c].tries + 1) /\ UNCHANGED took
      BY <1>7, <2>2 DEF TakeFromList
    <3> QED BY <1>3, <2>1, <2>2, <3>1
  <2>3. CASE q[I(c)] # <<>>
    <3>1. PICK x, s : s = q[I(c)] /\ x = Head(s)
      OBVIOUS
    <3>2. Answer(c, x)
      BY <1>7, <2>3, <3>1 DEF TakeFromList
    <3>3. x = Empty
      <4>1. kind # "p"
        BY <2>1
      <4> QED BY <1>0, <3>2, <4>1, After
    <3>4. q \in [Index -> Seq(Nat)]
      BY <1>0 DEF TypeOK, DataOK
    <3>5. s \in Seq(Nat) /\ s # <<>>
      BY <1>0, <2>3, <3>1, <3>4
    <3>6. x \in Nat
      BY <3>1, <3>5
    <3> QED BY <3>3, <3>6, Names
  <2> QED BY <2>2, <2>3
<1> QED BY <1>4, <1>5, <1>6, <1>7 DEF ListSteps

(* The invariant of the calls that run alone.                              *)
LEMMA DrainKeeps ==
    ASSUME ArrayInv, ArrayInv', DrainInv, [Next]_vars
    PROVE  DrainInv'
<1>0. /\ TypeOK /\ TypeOK' /\ t' \in [Threads -> Locals] /\ LockInv /\ AloneInv /\ WalkInv
      /\ Enqueuers \subseteq Threads /\ Dequeuers \subseteq Threads
  BY Names DEF ArrayInv, DrainInv, TypeOK, ThreadOK
<1>1. ASSUME NEW c \in Enqueuers, Enqueue(c) PROVE DrainInv'
  <2>1. Steps(c) /\ Releases(c) /\ kind' = kind /\ c \in Threads
    BY <1>0, <1>1, EnqueueSteps
  <2>2. LockInv' /\ AloneInv'
    BY <1>0, <2>1, LockKeeps, AloneKeeps
  <2>3. \A d \in Dequeuers : ~t'[d].alone
    BY <1>0, <2>1, OthersMoved, Names
  <2> QED BY <2>2, <2>3 DEF DrainInv, WalkInv
<1>2. ASSUME NEW c \in Dequeuers, Dequeue(c) PROVE DrainInv'
  <2>1. Steps(c) /\ Releases(c) /\ kind' = kind /\ c \in Threads
    BY <1>0, <1>2, DequeueSteps
  <2>2. LockInv' /\ AloneInv'
    BY <1>0, <2>1, LockKeeps, AloneKeeps
  <2>3. \A d \in Dequeuers : d # c => ~t'[d].alone
    BY <1>0, <2>1, OthersMoved
  <2>4. t[c].alone => Walk(c)
    BY <1>0 DEF WalkInv
  <2>5. ASSUME t'[c].alone PROVE Walk(c)'
    <3>1. kind # "p"
      BY <2>1, <2>2, <2>5 DEF AloneInv
    <3>2. CASE dequeue_evpaq(c)
      <4>1. kind = "pa"
        <5>1. \/ kind = "pa"
              \/ t[c].pc \in {"tail", "head", "mark", "next", "check", "cas", "move"}
          BY <3>2 DEF dequeue_evpaq, PaDeqSlot, PaLoadTail, PaLoadHead, PaMarkHead,
                      PaLoadNext, PaCheckTail, PaCasTail, PaMoveHead, At
        <5> QED BY <1>0, <2>1, <5>1, PKind
      <4> QED BY <1>0, <2>4, <2>5, <3>2, <4>1, PaWalkKeeps
    <3>3. CASE ListSteps(c)
      BY <1>0, <2>4, <2>5, <3>3, ListWalkKeeps
    <3>4. CASE dequeue_ev_pqueue(c)
      <4>1. \/ kind = "p"
            \/ t[c].pc \in {"test", "dec", "undo", "ub", "d_ticket", "less", "d_enter", "d_head",
                            "d_next", "d_set", "d_cas", "d_reset", "d_exit"}
        BY <3>4 DEF dequeue_ev_pqueue, PDeqCall, PTestPermits, PTakePermit, PUndoPermit,
                    PTestAnnounced, PDeqTicket, PDeqLess, dequeue_FIFO_enter, PDeqHead,
                    PDeqNext, PDeqSetHead, PDeqCasTail, PDeqResetHead, dequeue_FIFO_exit, At
      <4> QED BY <1>0, <2>1, <3>1, <4>1, PKind
    <3> QED BY <1>2, <3>2, <3>3, <3>4 DEF Dequeue
  <2>6. WalkInv'
    BY <2>3, <2>5 DEF WalkInv
  <2> QED BY <2>2, <2>6 DEF DrainInv
<1>3. ASSUME UNCHANGED vars PROVE DrainInv'
  <2>1. UNCHANGED <<kind, lock, t, put, took>>
    BY <1>3 DEF vars, slots, hist
  <2>2. LockInv' /\ AloneInv' /\ WalkInv'
    BY <1>0, <2>1 DEF LockInv, AloneInv, WalkInv, Walk, Drained, Locks, I, Behind
  <2> QED BY <2>2 DEF DrainInv
<1> QED BY <1>1, <1>2, <1>3 DEF Next, Lost

(* EmptyWhenAlone for ev_paqueue, ev_mpiqueue and ev_piqueue: a dequeue    *)
(* that no other call runs beside answers NULL only when every list is     *)
(* empty, wherever in the circle it began and whoever called before.       *)
THEOREM EmptyIsTrueAlone == Spec => []EmptyWhenAlone
<1>1. Init => DrainInv
  <2> SUFFICES ASSUME Init PROVE DrainInv
    OBVIOUS
  <2>1. \A c \in Threads : ~t[c].alone
    BY DEF Init, Idle
  <2>2. \A i \in Index : ~lock[i]
    BY DEF Init
  <2> QED BY <2>1, <2>2, Names DEF DrainInv, LockInv, AloneInv, WalkInv
<1>2. ArrayInv /\ ArrayInv' /\ DrainInv /\ [Next]_vars => DrainInv'
  BY DrainKeeps
<1>3. DrainInv => EmptyWhenAlone
  BY Names DEF DrainInv, WalkInv, Walk, Drained, EmptyWhenAlone
<1> QED BY <1>1, <1>2, <1>3, Invariant, PTL DEF Spec
=============================================================================
