---------------------------- MODULE BufferStream ----------------------------
(***************************************************************************)
(* The byte streams of evds/: memory_buffer_list (a linked list that one   *)
(* thread appends to while one other reads and pops), chunked_memory_stream*)
(* on top of it (push, read, erase, copy) and ev_buffered_stream, the      *)
(* std::streambuf that lends the list's own buffers to its reader and hands*)
(* its write buffers over to a list.                                       *)
(*                                                                         *)
(* Bytes are the numbers 1, 2, 3, ... in the order they are pushed.  The   *)
(* thread that pushes takes one step per atomic access, and so does the    *)
(* worker that reads.  The writing half of ev_buffered_stream works on a   *)
(* list of its own (variable out), kept as a sequence; a behaviour uses one*)
(* half, named by side.                                                    *)
(***************************************************************************)
EXTENDS Integers, Sequences, FiniteSets, SequencesExt

CONSTANTS Nodes,      \* node addresses, reused after delete
          Null,       \* the null pointer
          MaxBytes,   \* bound: bytes pushed, and bytes put
          MaxPush,    \* bound: bytes of one push
          MaxLens,    \* the max_len arguments; -1 is unlimited
          BufSize,    \* bufsize argument: bytes one underflow may lend
          WSize       \* BUFFER_SIZE less prefix and suffix

ASSUME NullAssumption == Null \notin Nodes
ASSUME SizesAssumption == {MaxBytes, MaxPush, BufSize, WSize} \subseteq Nat \ {0}

VARIABLES side,       \* the half this behaviour exercises
          head, tail, \* _head and _tail of the list
          node,       \* the nodes: next, bytes, and bytes left at the position
          heap,       \* nodes allocated
          pushed,     \* bytes pushed or being pushed
          p,          \* the pushing thread
          w,          \* the worker
          s,          \* its reading ev_buffered_stream
          gone,       \* history: the bytes erased, in order
          got,        \* history: the bytes the stream delivered
          uaf,        \* a deleted node or freed buffer was used
          o,          \* the writing ev_buffered_stream
          out,        \* its list: the buffers pushed and not yet taken
          sent        \* history: the bytes taken from out

inVars  == <<head, tail, node, heap, pushed, p, w, s, gone, got>>
outVars == <<o, out, sent>>
vars    == <<side, inVars, uaf, outVars>>

(* The constructor takes max_len 0 for unlimited, too.                     *)
Limit(max_len) == IF max_len = 0 THEN -1 ELSE max_len

Least(a, b) == IF a < b THEN a ELSE b

(* The bytes not yet read of a node, and get_buffer_len.                   *)
Left(n)    == node[n].left
LeftLen(n) == Len(node[n].left)

Idle == [pc |-> "idle", op |-> "none", ret |-> "none", n |-> Null, next |-> Null,
         need |-> 0, skip |-> 0, from |-> 0, res |-> <<>>, seen |-> 0]

(* The constructor of the reading stream; start is history: how much was   *)
(* erased when it was made.                                                *)
NewStream(m, all, start) ==
    [open |-> TRUE, max |-> Limit(m), all |-> all, cum |-> 0, prev |-> 0,
     lender |-> Null, g |-> 0, e |-> 0, start |-> start]
NoStream == [NewStream(0, FALSE, 0) EXCEPT !.open = FALSE]

Init ==
    /\ side \in {"in", "out"}
    /\ head = Null /\ tail = Null
    /\ node = [n \in Nodes |-> [next |-> Null, left |-> <<>>]]
    /\ heap = {}
    /\ pushed = 0
    /\ p = [pc |-> "idle", np |-> Null, old |-> Null]
    /\ w = Idle
    /\ s = NoStream
    /\ gone = <<>> /\ got = <<>>
    /\ uaf = FALSE
    /\ \E m \in MaxLens, f \in BOOLEAN :
          /\ side = "in" => m = 0 /\ ~f
          /\ o = [open |-> TRUE, max |-> Limit(m), framed |-> f, cum |-> 0, area |-> <<>>,
                  buf |-> 1, last |-> 1, put |-> 0, cut |-> FALSE]
    /\ out = <<>> /\ sent = <<>>

Touch(n) == uaf' = (uaf \/ n \notin heap)

-----------------------------------------------------------------------------
(* The pushing thread: push and add_node                                   *)

PushAt(label) == side = "in" /\ p.pc = label

push(k) ==
    /\ PushAt("idle")
    /\ pushed + k <= MaxBytes
    /\ \E n \in Nodes \ heap :
          /\ heap' = heap \cup {n}
          /\ node' = [node EXCEPT ![n] = [next |-> Null,
                                          left |-> [i \in 1 .. k |-> pushed + i]]]
          /\ p' = [p EXCEPT !.pc = "swap", !.np = n]
    /\ pushed' = pushed + k
    /\ UNCHANGED <<side, head, tail, w, s, gone, got, uaf, outVars>>

AddSwapTail ==
    /\ PushAt("swap")
    /\ tail' = p.np
    /\ p' = [p EXCEPT !.pc = IF tail = Null THEN "load" ELSE "link", !.old = tail]
    /\ UNCHANGED <<side, head, node, heap, pushed, w, s, gone, got, uaf, outVars>>

AddLink ==
    /\ PushAt("link")
    /\ node' = [node EXCEPT ![p.old].next = p.np]
    /\ Touch(p.old)
    /\ p' = [p EXCEPT !.pc = "idle", !.np = Null, !.old = Null]
    /\ UNCHANGED <<side, head, tail, heap, pushed, w, s, gone, got, outVars>>

(* _head.exchange(_tail): the tail is loaded, then head exchanged.         *)
AddLoadTail ==
    /\ PushAt("load")
    /\ p' = [p EXCEPT !.pc = "head", !.np = tail]
    /\ UNCHANGED <<side, head, tail, node, heap, pushed, w, s, gone, got, uaf, outVars>>

AddSetHead ==
    /\ PushAt("head")
    /\ head' = p.np
    /\ p' = [p EXCEPT !.pc = "idle", !.np = Null]
    /\ UNCHANGED <<side, tail, node, heap, pushed, w, s, gone, got, uaf, outVars>>

Pusher == \/ \E k \in 1 .. MaxPush : push(k)
          \/ AddSwapTail \/ AddLink \/ AddLoadTail \/ AddSetHead

-----------------------------------------------------------------------------
(* The worker's calls on the list: get_head and pop_head.  ret names the   *)
(* step that goes on with the node found, in w.n.                          *)

WorkerAt(label) == side = "in" /\ w.pc = label
listVars == <<side, head, tail, heap, pushed, p>>

(* The bytes whose push has returned: a later call must find them.         *)
Completed == IF p.pc = "idle" THEN pushed ELSE pushed - LeftLen(p.np)

GetHead(r) == [w EXCEPT !.pc = "gh_tail", !.ret = r, !.n = Null]
PopHead(r) == [w EXCEPT !.pc = "pop_tail", !.ret = r, !.n = Null]
Back(n)    == [w EXCEPT !.pc = w.ret, !.n = n, !.next = Null]

GhTail ==
    /\ WorkerAt("gh_tail")
    /\ w' = IF tail = Null THEN Back(Null) ELSE [w EXCEPT !.pc = "gh_head"]
    /\ UNCHANGED <<listVars, node, s, gone, got, uaf, outVars>>

GhHead ==
    /\ WorkerAt("gh_head")
    /\ w' = IF head # Null THEN Back(head) ELSE [w EXCEPT !.pc = "gh_tail"]
    /\ UNCHANGED <<listVars, node, s, gone, got, uaf, outVars>>

PopTail ==
    /\ WorkerAt("pop_tail")
    /\ w' = IF tail = Null THEN Back(Null) ELSE [w EXCEPT !.pc = "pop_head"]
    /\ UNCHANGED <<listVars, node, s, gone, got, uaf, outVars>>

PopLoadHead ==
    /\ WorkerAt("pop_head")
    /\ head # Null
    /\ w' = [w EXCEPT !.pc = "pop_next", !.n = head]
    /\ UNCHANGED <<listVars, node, s, gone, got, uaf, outVars>>

PopNext ==
    /\ WorkerAt("pop_next")
    /\ Touch(w.n)
    /\ w' = [w EXCEPT !.next = node[w.n].next,
                      !.pc = IF node[w.n].next = Null THEN "pop_cas" ELSE "pop_set"]
    /\ UNCHANGED <<listVars, node, s, gone, got, outVars>>

(* Mutant: the failed compare and swap is not followed by the wait.        *)
PopCasTail_NoWait ==
    /\ WorkerAt("pop_cas")
    /\ tail' = IF tail = w.n THEN Null ELSE tail
    /\ w' = [w EXCEPT !.pc = "pop_set"]
    /\ UNCHANGED <<side, head, node, heap, pushed, p, s, gone, got, uaf, outVars>>

PopCasTail ==
    /\ WorkerAt("pop_cas")
    /\ tail' = IF tail = w.n THEN Null ELSE tail
    /\ w' = [w EXCEPT !.pc = IF tail = w.n THEN "pop_set" ELSE "pop_wait"]
    /\ UNCHANGED <<side, head, node, heap, pushed, p, s, gone, got, uaf, outVars>>

(* A push has replaced the tail but not linked it yet: wait for the link.  *)
PopWaitNext ==
    /\ WorkerAt("pop_wait")
    /\ node[w.n].next # Null
    /\ Touch(w.n)
    /\ w' = [w EXCEPT !.next = node[w.n].next, !.pc = "pop_set"]
    /\ UNCHANGED <<listVars, node, s, gone, got, outVars>>

(* Mutant: head is stored, not compared and swapped.                       *)
PopSetHead_Blind ==
    /\ WorkerAt("pop_set")
    /\ head' = w.next
    /\ w' = Back(w.n)
    /\ UNCHANGED <<side, tail, node, heap, pushed, p, s, gone, got, uaf, outVars>>

PopSetHead ==
    /\ WorkerAt("pop_set")
    /\ head' = IF head = w.n THEN w.next ELSE head
    /\ w' = Back(w.n)
    /\ UNCHANGED <<side, tail, node, heap, pushed, p, s, gone, got, uaf, outVars>>

ListCalls == \/ GhTail \/ GhHead
             \/ PopTail \/ PopLoadHead \/ PopNext \/ PopCasTail \/ PopWaitNext \/ PopSetHead

-----------------------------------------------------------------------------
(* chunked_memory_stream: erase, read and copy                             *)

WorkerOnly == <<side, head, tail, pushed, p, outVars>>

(* shift_buffer_position, or the whole node when k is all of it.           *)
Shifted(n, k) == [node EXCEPT ![n].left = SubSeq(@, k + 1, Len(@))]
Taken(n, k)   == SubSeq(Left(n), 1, k)

(* The number of bytes of node n that a call wanting need bytes takes.     *)
Share(n, need) == Least(need, LeftLen(n))

(* delete of the node pop_head returned.  The names of the steps that      *)
(* resume erase and read are "erase" and "read".                           *)
DeleteNode ==
    /\ w.pc \in {"del_erase", "del_read"} /\ side = "in"
    /\ heap' = heap \ {w.n}
    /\ Touch(w.n)
    /\ w' = GetHead(IF w.pc = "del_erase" THEN "erase" ELSE "read")
    /\ UNCHANGED <<WorkerOnly, node, s, gone, got>>

(* What follows erase: the caller of low_read_from_source goes on.         *)
AfterErase == IF w.op = "erase" THEN Idle
              ELSE [w EXCEPT !.pc = "source", !.n = Null, !.need = 0]

EraseStep ==
    /\ WorkerAt("erase")
    /\ \/ /\ w.need = 0 \/ w.n = Null
          /\ w' = AfterErase
          /\ UNCHANGED <<node, gone, uaf>>
       \/ /\ w.need > 0 /\ w.n # Null
          /\ Touch(w.n)
          /\ gone' = gone \o Taken(w.n, Share(w.n, w.need))
          /\ IF w.need >= LeftLen(w.n)
             THEN /\ w' = [PopHead("del_erase") EXCEPT !.need = w.need - LeftLen(w.n)]
                  /\ UNCHANGED node
             ELSE /\ node' = Shifted(w.n, w.need)
                  /\ w' = AfterErase
    /\ UNCHANGED <<WorkerOnly, heap, s, got>>

Begin(op, k) == [GetHead(op) EXCEPT !.op = op, !.need = k, !.res = <<>>, !.seen = Completed]

erase(k) ==
    /\ WorkerAt("idle") /\ ~s.open
    /\ w' = Begin("erase", k)
    /\ UNCHANGED <<WorkerOnly, node, heap, s, gone, got, uaf>>

read(k) ==
    /\ WorkerAt("idle") /\ ~s.open
    /\ w' = Begin("read", k)
    /\ UNCHANGED <<WorkerOnly, node, heap, s, gone, got, uaf>>

ReadStep ==
    /\ WorkerAt("read")
    /\ \/ /\ w.need = 0 \/ w.n = Null
          /\ w' = [w EXCEPT !.pc = "returned", !.n = Null]
          /\ UNCHANGED <<node, gone, uaf>>
       \/ /\ w.need > 0 /\ w.n # Null
          /\ Touch(w.n)
          /\ LET k == Share(w.n, w.need)
                 r == [w EXCEPT !.res = @ \o Taken(w.n, k), !.need = @ - k, !.n = Null]
             IN  /\ gone' = gone \o Taken(w.n, k)
                 /\ IF k = LeftLen(w.n)
                    THEN /\ w' = [r EXCEPT !.pc = "pop_tail", !.ret = "del_read"]
                         /\ UNCHANGED node
                    ELSE /\ node' = Shifted(w.n, k)
                         /\ w' = [r EXCEPT !.pc = "gh_tail", !.ret = "read"]
    /\ UNCHANGED <<WorkerOnly, heap, s, got>>

copy(from, k) ==
    /\ WorkerAt("idle") /\ ~s.open
    /\ w' = [Begin("seek", k) EXCEPT !.skip = from, !.from = from]
    /\ UNCHANGED <<WorkerOnly, node, heap, s, gone, got, uaf>>

(* Walks to the node that holds the start position; skip is what is left   *)
(* of it, start_pos - traversed.                                           *)
SeekStep ==
    /\ WorkerAt("seek")
    /\ IF w.n = Null
       THEN w' = [w EXCEPT !.pc = "returned", !.skip = 0] /\ UNCHANGED uaf
       ELSE /\ Touch(w.n)
            /\ w' = IF w.skip >= LeftLen(w.n)
                    THEN [w EXCEPT !.skip = @ - LeftLen(w.n), !.n = node[w.n].next]
                    ELSE [w EXCEPT !.pc = "copy"]
    /\ UNCHANGED <<WorkerOnly, node, heap, s, gone, got>>

CopyStep ==
    /\ WorkerAt("copy")
    /\ IF w.need = 0 \/ w.n = Null
       THEN w' = [w EXCEPT !.pc = "returned", !.n = Null] /\ UNCHANGED uaf
       ELSE /\ Touch(w.n)
            /\ LET k == Least(w.need, LeftLen(w.n) - w.skip)
               IN w' = [w EXCEPT !.res = @ \o SubSeq(Left(w.n), w.skip + 1, w.skip + k),
                                 !.need = @ - k, !.skip = 0, !.n = node[w.n].next]
    /\ UNCHANGED <<WorkerOnly, node, heap, s, gone, got>>

(* read and copy give their bytes to the caller.                           *)
Return ==
    /\ WorkerAt("returned")
    /\ w' = Idle
    /\ UNCHANGED <<WorkerOnly, node, heap, s, gone, got, uaf>>

ChunkedCalls == \/ \E k \in 1 .. MaxPush + 1 : erase(k) \/ read(k)
                \/ \E from \in 0 .. MaxPush, k \in 1 .. MaxPush + 1 : copy(from, k)
                \/ DeleteNode \/ EraseStep \/ ReadStep \/ SeekStep \/ CopyStep \/ Return

-----------------------------------------------------------------------------
(* ev_buffered_stream, the reading half                                    *)

Limited == s.max # -1

OpenStream(m, all) ==
    /\ WorkerAt("idle") /\ ~s.open
    /\ s' = NewStream(m, all, Len(gone))
    /\ UNCHANGED <<WorkerOnly, node, heap, w, gone, got, uaf>>

(* sbumpc with a byte in the get area, which is memory of the list's node. *)
sbumpc ==
    /\ WorkerAt("idle") /\ s.open /\ s.g < s.e
    /\ Touch(s.lender)
    /\ got' = Append(got, IF s.g < LeftLen(s.lender) THEN Left(s.lender)[s.g + 1] ELSE 0)
    /\ s' = [s EXCEPT !.g = @ + 1]
    /\ UNCHANGED <<WorkerOnly, node, heap, w, gone>>

(* Mutant: what was lent is not erased when the next bytes are asked for.  *)
underflow_NoErase ==
    /\ WorkerAt("idle") /\ s.open /\ s.g = s.e
    /\ w' = [Begin("erase", 0) EXCEPT !.op = "underflow"]
    /\ UNCHANGED <<WorkerOnly, node, heap, s, gone, got, uaf>>

underflow ==
    /\ WorkerAt("idle") /\ s.open /\ s.g = s.e
    /\ w' = [Begin("erase", s.prev) EXCEPT !.op = "underflow"]
    /\ UNCHANGED <<WorkerOnly, node, heap, s, gone, got, uaf>>

(* low_read_from_source after its erase: at the limit it lends nothing.    *)
SourceStep ==
    /\ WorkerAt("source")
    /\ w' = IF Limited /\ s.cum >= s.max
            THEN [w EXCEPT !.pc = "lend", !.n = Null]
            ELSE GetHead("lend")
    /\ UNCHANGED <<WorkerOnly, node, heap, s, gone, got, uaf>>

(* The stream object is gone, and with it what it had delivered.           *)
Drop == s' = NoStream /\ got' = <<>>

(* Mutant: the loan is not cut to what max_len leaves.                     *)
LendStep_NoLimit ==
    /\ WorkerAt("lend")
    /\ LET k == IF w.n = Null THEN 0 ELSE Least(BufSize, LeftLen(w.n))
       IN  IF w.op = "drain" /\ k = 0
           THEN Drop /\ w' = Idle
           ELSE /\ s' = [s EXCEPT !.cum = @ + k, !.prev = k, !.lender = w.n, !.g = 0, !.e = k]
                /\ w' = IF w.op = "drain"
                        THEN [Begin("erase", k) EXCEPT !.op = "drain", !.seen = w.seen]
                        ELSE Idle
                /\ UNCHANGED got
    /\ UNCHANGED <<WorkerOnly, node, heap, gone, uaf>>

(* The loan: the head node's bytes, at most bufsize and what max_len       *)
(* leaves.  underflow makes them the get area; the destructor's loop goes  *)
(* on until there is nothing more to lend, and then the stream is gone.    *)
LendStep ==
    /\ WorkerAt("lend")
    /\ LET size == IF Limited THEN Least(BufSize, s.max - s.cum) ELSE BufSize
           k    == IF w.n = Null THEN 0 ELSE Least(size, LeftLen(w.n))
       IN  IF w.op = "drain" /\ k = 0
           THEN Drop /\ w' = Idle
           ELSE /\ s' = [s EXCEPT !.cum = @ + k, !.prev = k, !.lender = w.n, !.g = 0, !.e = k]
                /\ w' = IF w.op = "drain"
                        THEN [Begin("erase", k) EXCEPT !.op = "drain", !.seen = w.seen]
                        ELSE Idle
                /\ UNCHANGED got
    /\ UNCHANGED <<WorkerOnly, node, heap, gone, uaf>>

(* The destructor: with consume_all_of_max_len it erases what is left of   *)
(* max_len, otherwise the last loan stays in the list.                     *)
CloseStream ==
    /\ WorkerAt("idle") /\ s.open
    /\ IF s.all /\ s.max > 0
       THEN /\ w' = [Begin("erase", s.prev) EXCEPT !.op = "drain"]
            /\ UNCHANGED <<s, got>>
       ELSE Drop /\ UNCHANGED w
    /\ UNCHANGED <<WorkerOnly, node, heap, gone, uaf>>

StreamCalls == \/ \E m \in MaxLens, all \in BOOLEAN : OpenStream(m, all)
               \/ sbumpc \/ underflow \/ SourceStep \/ LendStep \/ CloseStream

-----------------------------------------------------------------------------
(* ev_buffered_stream, the writing half.  Bytes put are 1, 2, 3, ...; a    *)
(* derived class with set_prefix_len and set_suffix_len frames each buffer *)
(* pushed, here with one byte 0 on either side.                            *)

Frame == IF o.framed THEN <<0>> \o o.area \o <<0>> ELSE o.area

(* push_to_sync: how much it says it took, and how much of it went out.    *)
Pushes      == o.max = -1 \/ o.cum < o.max
PushedLen   == IF ~Pushes THEN 0
               ELSE IF o.max = -1 THEN Len(Frame) ELSE Least(Len(Frame), o.max - o.cum)
push_to_sync == IF Pushes THEN PushedLen ELSE Len(Frame)

(* flush_buffer of a put area that is not empty: when all of it was taken  *)
(* the buffer belongs to the list and a new one is allocated.              *)
Flushes  == push_to_sync >= Len(o.area)
FlushOut == IF Pushes THEN Append(out, [buf |-> o.buf, bytes |-> SubSeq(Frame, 1, PushedLen)])
            ELSE out

Flushed ==
    [o EXCEPT !.cum = @ + PushedLen,
              !.area = IF Flushes THEN <<>> ELSE @,
              !.buf = IF Flushes THEN o.last + 1 ELSE @,
              !.last = IF Flushes THEN @ + 1 ELSE @,
              !.cut = @ \/ PushedLen < Len(Frame)]

(* sputc, with overflow when the put area is full.                         *)
sputc ==
    /\ side = "out" /\ o.open /\ o.put < MaxBytes
    /\ IF Len(o.area) < WSize
       THEN /\ o' = [o EXCEPT !.area = Append(@, o.put + 1), !.put = @ + 1]
            /\ UNCHANGED out
       ELSE /\ out' = FlushOut
            /\ o' = IF Flushes
                    THEN [Flushed EXCEPT !.area = <<o.put + 1>>, !.put = @ + 1]
                    ELSE Flushed
    /\ UNCHANGED <<side, inVars, uaf, sent>>

(* Mutant: the destructor frees the buffer without flushing it.            *)
CloseWriter_NoFlush ==
    /\ side = "out" /\ o.open
    /\ UNCHANGED out
    /\ o' = [o EXCEPT !.open = FALSE]
    /\ UNCHANGED <<side, inVars, uaf, sent>>

sync ==
    /\ side = "out" /\ o.open /\ o.area # <<>>
    /\ out' = FlushOut
    /\ o' = Flushed
    /\ UNCHANGED <<side, inVars, uaf, sent>>

(* The destructor: flush_buffer and free of the buffer in hand.            *)
CloseWriter ==
    /\ side = "out" /\ o.open
    /\ IF o.area = <<>> THEN UNCHANGED out /\ o' = [o EXCEPT !.open = FALSE]
       ELSE out' = FlushOut /\ o' = [Flushed EXCEPT !.open = FALSE]
    /\ UNCHANGED <<side, inVars, uaf, sent>>

(* The other end pops a node, sends its bytes and deletes it.              *)
TakeOut ==
    /\ side = "out" /\ out # <<>>
    /\ sent' = sent \o Head(out).bytes
    /\ out' = Tail(out)
    /\ UNCHANGED <<side, inVars, uaf, o>>

Writer == sputc \/ sync \/ CloseWriter \/ TakeOut

-----------------------------------------------------------------------------

(* A stream that is closed and sent needs nothing more.                    *)
Finished == side = "out" /\ ~o.open /\ out = <<>> /\ UNCHANGED vars

Next == Pusher \/ ListCalls \/ ChunkedCalls \/ StreamCalls \/ Writer \/ Finished

Spec == Init /\ [][Next]_vars

(* Both threads keep running: a call that has begun is carried on with.    *)
FairSpec == /\ Spec
            /\ WF_vars(AddSwapTail \/ AddLink \/ AddLoadTail \/ AddSetHead)
            /\ WF_vars(ListCalls \/ DeleteNode \/ EraseStep \/ ReadStep \/ SeekStep \/ CopyStep
                         \/ Return \/ SourceStep \/ LendStep)

-----------------------------------------------------------------------------

Counted(seq, from) == \A i \in 1 .. Len(seq) : seq[i] = from + i

(* copy returns the bytes from its start position on, all those whose push *)
(* had returned when it was called.                                        *)
CopyIsExact ==
    WorkerAt("returned") /\ w.op = "seek" =>
        /\ Counted(w.res, Len(gone) + w.from)
        /\ Len(w.res) >= Least(Len(w.res) + w.need, w.seen - Len(gone) - w.from)

(* The bytes leave the list once each and in the order they were pushed,   *)
(* whatever the pusher is doing; what a stream delivers is what follows the*)
(* bytes erased when it was made (the loan a dropped stream had not erased *)
(* comes again), what read returns is what it erased, and copy is exact.   *)
BytesInOrder ==
    /\ Counted(gone, 0)
    /\ Counted(got, s.start)
    /\ w.op = "read" => Counted(w.res, Len(gone) - Len(w.res))
    /\ CopyIsExact

(* No deleted node is read, written, lent from or deleted again, by either *)
(* thread: pop_head waits for the push that is still linking to its node.  *)
NoUseAfterFree == ~uaf

(* A stream with max_len takes no byte past it from the list: the next     *)
(* message stays whole for the next stream.                                *)
NextMessageIntact ==
    s.open /\ Limited => Len(gone) <= s.start + s.max /\ Len(got) <= s.max

(* get_head and pop_head do not spin for ever: every call of the worker    *)
(* comes to its end.                                                       *)
CallsReturn == (w.pc # "idle") ~> (w.pc = "idle")

Payload == SelectSeq(sent \o FlattenSeq([i \in 1 .. Len(out) |-> out[i].bytes]),
                     LAMBDA b : b # 0)

(* A buffer handed to the list is not the put area any more, so bytes put  *)
(* later do not change it and it is not freed twice; this holds as long as *)
(* max_len has not cut a flush short.                                      *)
OwnedOnce ==
    ~o.cut => /\ \A i \in 1 .. Len(out) : out[i].buf # o.buf
              /\ \A i, j \in 1 .. Len(out) : out[i].buf = out[j].buf => i = j

(* What the writing half hands over is what was put, in order, nothing of  *)
(* it is missing once the stream is closed, unless max_len cut it off, and *)
(* every buffer has one owner.                                             *)
OutputWhole ==
    side = "out" =>
        /\ Counted(Payload, 0)
        /\ ~o.open /\ ~o.cut => Len(Payload) = o.put
        /\ OwnedOnce

=============================================================================
