--------------------------- MODULE EfWriteProofs ----------------------------
(***************************************************************************)
(* Proofs about the write path: the counters of the write action agree     *)
(* with the requests there are, the "impossible condition" of ef_write and *)
(* ef_sync is impossible, no byte is lost, doubled or overtaken on its way *)
(* to the file, and a closed file has every byte on disk, for every page   *)
(* size, pool of disk threads and number of bytes and rounds of slow_sync. *)
(*                                                                         *)
(* pam excludes nobody, since a thread may enter on a lock that is held,   *)
(* so the argument cannot rest on it.  It rests on the life of the action: *)
(* only the user frees or replaces it, a write action is freed only by the *)
(* user in ef_close, and no write action is made after that.               *)
(***************************************************************************)
EXTENDS EfWrite, FiniteSetTheorems, SequenceTheorems, TLAPS

FreeLabels  == {"free_lock", "free_relock", "free"}
AllocLabels == {"alloc_lock", "alloc_relock", "alloc"}
PostLabels  == {"flush", "fsync", "enqueue", "post"}
HeldLabels  == {"sync_wait", "sync_wait_use", "sync_flush", "sync_flush_use",
                "sync_fsync", "sync_fsync_use", "sync_resume"}
SyncLabels  == {"sync", "sync_file", "sync_pam", "sync_ws", "sync_unpam",
                "sync_out"} \cup HeldLabels
EndLabels   == {"close_alloc", "close", "file_close", "close_lock",
                "close_cleanup", "done"}
CallLabels  == {"idle", "write_ws", "write_check", "write_alloc", "write_copy",
                "efsync_ws", "efsync_release", "efsync_done", "close_sync",
                "close_compare", "close_set", "close_test"} \cup EndLabels

Tasks == [cmd : {"none", "write", "fsync"}, data : Seq(Int)]

Actions == [cmd : {"none", "open", "write", "close"},
            status : {"none", "initiated", "progress", "complete"},
            accum : Seq(Int), wqueue : Seq(Tasks), batch : Seq(Tasks),
            totreq : Nat, req : Nat, cmpl : Nat]

(* The types of the variables the argument is about.                       *)
TypeInv ==
    /\ file \in {"open", "closed", "freed"}
    /\ act \in Actions
    /\ ws \in {-2, -1, 0, 1}
    /\ events \in Seq({"req", "cmpl"})
    /\ jobs \in Seq({"write", "close"})
    /\ pc \in [Procs -> Labels]
    /\ DOMAIN stack = Procs
    /\ cur \in [{User, Slow} -> Tasks]
    /\ cleared \in Nat
    /\ sent \in Int /\ left \in Int

(* Where each thread can stand, and where it returns to from there.        *)
UserPlace ==
    \/ pc[User] \in CallLabels /\ stack[User] = <<>>
    \/ pc[User] \in SyncLabels /\ stack[User] = <<"close_compare">>
    \/ /\ pc[User] \in PostLabels
       /\ stack[User] \in {<<"write_copy">>, <<"efsync_release">>,
                           <<"sync_fsync", "close_compare">>,
                           <<"sync_resume", "close_compare">>}
    \/ /\ pc[User] \in FreeLabels \cup {"unlock"}
       /\ stack[User] \in {<<"idle">>, <<"write_alloc">>, <<"close_sync">>,
                           <<"close_alloc">>, <<"done">>}
    \/ /\ pc[User] \in AllocLabels \cup {"unlock"}
       /\ stack[User] \in {<<"write_copy">>, <<"close">>}

SlowPlace ==
    \/ pc[Slow] = "idle" /\ stack[Slow] = <<>>
    \/ pc[Slow] \in SyncLabels /\ stack[Slow] = <<"idle">>
    \/ /\ pc[Slow] \in PostLabels
       /\ stack[Slow] \in {<<"sync_fsync", "idle">>, <<"sync_resume", "idle">>}

WriterPlace == pc[Writer] \in {"idle", "cmpl", "req", "next", "count"}

(* A disk thread works on the action of a file that is being closed only   *)
(* after ef_close has handed it over.                                      *)
DiskPlace(d) ==
    \/ pc[d] \in {"idle", "start", "io"} /\ stack[d] = <<>>
    \/ /\ pc[d] \in {"file_close", "close_lock", "close_cleanup"}
       /\ stack[d] = <<>>
       /\ pc[User] = "done"
    \/ /\ pc[d] \in FreeLabels \cup {"unlock"}
       /\ stack[d] = <<"idle">>
       /\ pc[User] = "done"

PlaceInv ==
    /\ UserPlace /\ SlowPlace /\ WriterPlace
    /\ \A d \in Disk : DiskPlace(d)
    /\ (\E i \in 1..Len(jobs) : jobs[i] = "close") => pc[User] = "done"

(* The user is in ef_close and the last write action is gone.              *)
Ending ==
    \/ pc[User] \in EndLabels
    \/ stack[User] \in {<<"close">>, <<"done">>}
    \/ pc[User] = "unlock" /\ stack[User] = <<"close_alloc">>

(* The life of the action: opened, perhaps freed, perhaps a write action,  *)
(* gone in ef_close.  Before the write action nobody has work to do with   *)
(* one.                                                                    *)
LifeInv ==
    /\ Ending => act.cmd \in {"none", "close"}
    /\ ~Ending => act.cmd # "close" /\ file = "open"
    /\ ~Ending /\ act.cmd # "write" =>
          pc[Slow] \notin PostLabels /\ pc[Writer] = "idle" /\ events = <<>>
    /\ act.cmd = "write" /\ act.status = "complete" =>
          pc[User] = "close_test" \/ stack[User] = <<"close_alloc">>
    /\ pc[User] \in FreeLabels /\ stack[User] \in {<<"idle">>, <<"write_alloc">>, <<"close_sync">>}
          => act.cmd = "open"
    /\ pc[User] \in AllocLabels /\ stack[User] = <<"write_copy">> => act.cmd = "none"
    /\ pc[User] = "close_set" => act.cmd = "write"

(* Requests thread p has counted and not yet enqueued.                     *)
InHandOf(p) == IF pc[p] = "enqueue" THEN 1 ELSE 0

CountInv ==
    /\ pc[Writer] \notin {"next", "count"} => cleared = 0
    /\ pc[Writer] = "next" /\ act.cmd = "write" => act.batch = <<>>
    /\ act.cmd = "write" =>
          /\ act.req = act.cmpl + cleared + Len(act.batch)
          /\ act.totreq = act.req + Len(act.wqueue) + InHandOf(User) + InHandOf(Slow)

(* Who holds _write_suspended.                                             *)
InSync(p) == \/ pc[p] \in HeldLabels
             \/ pc[p] \in PostLabels /\ Head(stack[p]) \in {"sync_fsync", "sync_resume"}

InWrite == \/ pc[User] \in {"write_check", "write_alloc", "write_copy"}
           \/ stack[User] \in {<<"write_alloc">>, <<"write_copy">>}

InEfSync == pc[User] = "efsync_release" \/ stack[User] = <<"efsync_release">>

HoldInv ==
    /\ \A p \in {User, Slow} : InSync(p) => ws = 1
    /\ InWrite => ws = -1
    /\ InEfSync => ws = -2
    /\ ~(InSync(User) /\ InSync(Slow))
    /\ fault # "impossible"

WriteInv == TypeInv /\ PlaceInv /\ LifeInv /\ CountInv /\ HoldInv

-----------------------------------------------------------------------------
(* The four kinds of thread are different threads.                         *)
LEMMA Names ==
    /\ User \in Procs /\ Slow \in Procs /\ Writer \in Procs
    /\ User # Slow /\ User # Writer /\ Slow # Writer
    /\ \A d \in Disk : d \in Procs /\ d # User /\ d # Slow /\ d # Writer
BY EfAssumption DEF Procs, User, Slow, Writer

(* A call inside a call.                                                   *)
LEMMA TwoCalls == \A a, b : <<a>> \o <<b>> = <<a, b>>
<1> SUFFICES ASSUME NEW a, NEW b PROVE <<a>> \o <<b>> = <<a, b>>
  OBVIOUS
<1> DEFINE s == <<a>> \o <<b>>
<1>1. s \in Seq({a, b}) /\ Len(s) = 2 /\ s[1] = a /\ s[2] = b
  OBVIOUS
<1> HIDE DEF s
<1>2. s = <<a, b>>
  BY <1>1
<1> QED BY <1>2 DEF s

(* What Head, Tail and concatenation make of stacks of one and two labels. *)
LEMMA Stacks ==
    /\ \A a : <<a>> \o <<>> = <<a>> /\ Head(<<a>>) = a /\ Tail(<<a>>) = <<>>
    /\ \A a, b : <<a>> \o <<b>> = <<a, b>> /\ Head(<<a, b>>) = a /\ Tail(<<a, b>>) = <<b>>
    /\ \A a, b : <<a>> = <<b>> <=> a = b
    /\ \A a, b, c : <<a>> # <<b, c>> /\ <<a>> # <<>> /\ <<b, c>> # <<>>
<1>1. \A a : <<a>> \o <<>> = <<a>> /\ Head(<<a>>) = a /\ Tail(<<a>>) = <<>>
  OBVIOUS
<1>2. \A a, b : Head(<<a, b>>) = a /\ Tail(<<a, b>>) = <<b>>
  OBVIOUS
<1>3. \A a, b : <<a>> = <<b>> <=> a = b
  OBVIOUS
<1>4. \A a, b, c : <<a>> # <<b, c>> /\ <<a>> # <<>> /\ <<b, c>> # <<>>
  OBVIOUS
<1> QED BY <1>1, <1>2, <1>3, <1>4, TwoCalls

(* A fresh action has the type of an action.                               *)
LEMMA NoActionType ==
    /\ NoAction \in Actions /\ NoTask \in Tasks
    /\ \A c \in {"open", "write", "close"}, x \in {"initiated", "complete"} :
          [NoAction EXCEPT !.cmd = c, !.status = x] \in Actions
<1>1. NoAction \in Actions /\ NoTask \in Tasks
  BY DEF NoAction, NoTask, Actions, Tasks
<1>2. \A a \in Actions : \A c \in {"open", "write", "close"}, x \in {"initiated", "complete"} :
         [a EXCEPT !.cmd = c, !.status = x] \in Actions
  BY DEF Actions
<1> QED BY <1>1, <1>2

(* Thread p has gone to label l with stack s; the others have not moved.   *)
Moved(p, l, s) ==
    /\ pc' \in [Procs -> Labels] /\ DOMAIN stack' = Procs
    /\ pc'[p] = l /\ stack'[p] = s
    /\ \A q \in Procs \ {p} : pc'[q] = pc[q] /\ stack'[q] = stack[q]

(* What the three ways to move a thread do.                                *)
LEMMA Moves ==
    ASSUME TypeInv, NEW p \in Procs, NEW l \in Labels
    PROVE  /\ Jump(p, l) => Moved(p, l, stack[p])
           /\ \A b : Call(p, l, b) => Moved(p, l, <<b>> \o stack[p])
           /\ Return(p) /\ Head(stack[p]) = l => Moved(p, l, Tail(stack[p]))
BY DEF TypeInv, Goto, Jump, Call, Return, Moved

(* Where a thread returns to, by where it stands.                          *)
SyncStack(p) == IF p = User THEN <<"close_compare">> ELSE <<"idle">>

PostStacks(p) ==
    IF p = User THEN {<<"write_copy">>, <<"efsync_release">>,
                      <<"sync_fsync", "close_compare">>, <<"sync_resume", "close_compare">>}
    ELSE {<<"sync_fsync", "idle">>, <<"sync_resume", "idle">>}

FreeStacks(p) ==
    IF p = User THEN {<<"idle">>, <<"write_alloc">>, <<"close_sync">>, <<"close_alloc">>, <<"done">>}
    ELSE {<<"idle">>}

(* The stacks of the user and of slow_sync, by where they stand.           *)
LEMMA CallStack ==
    ASSUME PlaceInv, NEW p \in {User, Slow}
    PROVE  /\ p = User /\ pc[p] \in CallLabels => stack[p] = <<>>
           /\ pc[p] \in SyncLabels => stack[p] = SyncStack(p)
           /\ pc[p] \in PostLabels => stack[p] \in PostStacks(p)
<1>1. CASE p = User
  BY <1>1, Names DEF PlaceInv, UserPlace, CallLabels, SyncLabels, PostLabels, FreeLabels, AllocLabels,
         HeldLabels, EndLabels, SyncStack, PostStacks
<1>2. CASE p = Slow
  BY <1>2, Names DEF PlaceInv, SlowPlace, SyncLabels, PostLabels, HeldLabels, SyncStack, PostStacks
<1> QED BY <1>1, <1>2

(* The stacks inside free_file_action and alloc_file_action.               *)
LEMMA MutationStack ==
    ASSUME PlaceInv, NEW p \in {User} \cup Disk
    PROVE  /\ pc[p] \in FreeLabels => stack[p] \in FreeStacks(p)
           /\ pc[p] \in AllocLabels => p = User /\ stack[p] \in {<<"write_copy">>, <<"close">>}
           /\ pc[p] = "unlock" =>
                 \/ stack[p] \in FreeStacks(p)
                 \/ p = User /\ stack[p] \in {<<"write_copy">>, <<"close">>}
<1>1. CASE p = User
  BY <1>1, Names DEF PlaceInv, UserPlace, CallLabels, SyncLabels, PostLabels, FreeLabels, AllocLabels,
         HeldLabels, EndLabels, FreeStacks
<1>2. CASE p \in Disk
  BY <1>2, Names DEF PlaceInv, DiskPlace, FreeLabels, AllocLabels, FreeStacks
<1> QED BY <1>1, <1>2

(* A call from the top level.                                              *)
LEMMA Calls ==
    ASSUME TypeInv, NEW p \in Procs, stack[p] = <<>>, NEW l \in Labels, NEW b, Call(p, l, b)
    PROVE  Moved(p, l, <<b>>)
<1>1. <<b>> \o stack[p] = <<b>>
  BY Stacks
<1> QED BY <1>1, Moves

(* A return from a stack of one or two labels.                             *)
LEMMA Returns ==
    ASSUME TypeInv, NEW p \in Procs, Return(p)
    PROVE  /\ \A l \in Labels : stack[p] = <<l>> => Moved(p, l, <<>>)
           /\ \A l \in Labels : \A b : stack[p] = <<l, b>> => Moved(p, l, <<b>>)
<1>1. ASSUME NEW l \in Labels, stack[p] = <<l>> PROVE Moved(p, l, <<>>)
  <2>1. Head(stack[p]) = l /\ Tail(stack[p]) = <<>>
    BY <1>1
  <2> QED BY <1>1, <2>1, Moves
<1>2. ASSUME NEW l \in Labels, NEW b, stack[p] = <<l, b>> PROVE Moved(p, l, <<b>>)
  <2>1. Head(stack[p]) = l /\ Tail(stack[p]) = <<b>>
    BY <1>2
  <2> QED BY <1>2, <2>1, Moves
<1> QED BY <1>1, <1>2

(* One thread has moved; the others stand where they stood.                *)
LEMMA PlaceKept ==
    ASSUME PlaceInv, NEW p \in Procs, NEW l, NEW s, Moved(p, l, s),
           pc[User] = "done" => pc'[User] = "done",
           (\E i \in 1..Len(jobs') : jobs'[i] = "close") =>
              (\E i \in 1..Len(jobs) : jobs[i] = "close") \/ pc'[User] = "done",
           p = User => UserPlace', p = Slow => SlowPlace', p = Writer => WriterPlace',
           p \in Disk => DiskPlace(p)'
    PROVE  PlaceInv'
<1>1. UserPlace'
  BY Names DEF PlaceInv, UserPlace, Moved
<1>2. SlowPlace'
  BY Names DEF PlaceInv, SlowPlace, Moved
<1>3. WriterPlace'
  BY Names DEF PlaceInv, WriterPlace, Moved
<1>4. \A d \in Disk : DiskPlace(d)'
  BY Names DEF PlaceInv, DiskPlace, Moved
<1> QED BY <1>1, <1>2, <1>3, <1>4 DEF PlaceInv

(* Outside ef_close a finished action is the one of the open.              *)
LEMMA OnlyOpenComplete ==
    ASSUME TypeInv, LifeInv, pc[User] \in CallLabels \ (EndLabels \cup {"close_test"}),
           stack[User] = <<>>, act.cmd # "none", act.status = "complete"
    PROVE  act.cmd = "open"
<1>1. ~Ending
  BY Stacks DEF Ending, EndLabels
<1>2. act.cmd \in {"none", "open", "write", "close"}
  BY DEF TypeInv, Actions
<1> QED BY <1>1, <1>2, Stacks DEF LifeInv

(* The changes made to the action.                                         *)
LEMMA Fields ==
    ASSUME NEW a \in Actions
    PROVE  /\ a.accum \in Seq(Int) /\ a.wqueue \in Seq(Tasks) /\ a.batch \in Seq(Tasks)
           /\ a.totreq \in Nat /\ a.req \in Nat /\ a.cmpl \in Nat
           /\ Len(a.wqueue) \in Nat /\ Len(a.batch) \in Nat
BY DEF Actions

(* A change of the status leaves the rest of the action alone.             *)
LEMMA SetStatus ==
    ASSUME NEW a \in Actions, NEW x \in {"initiated", "progress", "complete"}, NEW b,
           b = [a EXCEPT !.status = x]
    PROVE  /\ b \in Actions /\ b.status = x /\ b.cmd = a.cmd /\ b.accum = a.accum /\ b.wqueue = a.wqueue
           /\ b.batch = a.batch /\ b.totreq = a.totreq /\ b.req = a.req /\ b.cmpl = a.cmpl
BY DEF Actions

(* An enqueue to the action's queue makes it one longer.                   *)
LEMMA AppendTask ==
    ASSUME NEW a \in Actions, NEW c \in Tasks, NEW b, b = [a EXCEPT !.wqueue = Append(@, c)]
    PROVE  /\ b \in Actions /\ b.status = a.status /\ b.cmd = a.cmd
           /\ Len(b.wqueue) = Len(a.wqueue) + 1
           /\ b.batch = a.batch /\ b.totreq = a.totreq /\ b.req = a.req /\ b.cmpl = a.cmpl
<1> DEFINE w == Append(a.wqueue, c)
<1>1. w \in Seq(Tasks) /\ Len(w) = Len(a.wqueue) + 1
  BY Fields, AppendProperties
<1>2. b = [a EXCEPT !.wqueue = w]
  OBVIOUS
<1> HIDE DEF w
<1> QED BY <1>1, <1>2 DEF Actions

(* The bytes WriteCopy takes are a sequence.                               *)
LEMMA CopyType ==
    ASSUME NEW s \in Seq(Int), NEW n \in Int, NEW k \in Int
    PROVE  s \o [i \in 1..n |-> k + i] \in Seq(Int)
<1> DEFINE new == [i \in 1..n |-> k + i]
<1>1. new \in Seq(Int)
  <2>1. CASE n >= 0
    BY <2>1
  <2>2. CASE ~(n >= 0)
    <3>1. 1..n = 1..0
      BY <2>2
    <3>2. new \in [1..0 -> Int]
      BY <3>1
    <3> QED BY <3>2
  <2> QED BY <2>1, <2>2
<1> HIDE DEF new
<1>2. s \o new \in Seq(Int)
  BY <1>1, ConcatProperties
<1> QED BY <1>2 DEF new

(* The file is open, its open action complete and nothing requested.       *)
LEMMA InitOK == Init => WriteInv
<1> SUFFICES ASSUME Init PROVE WriteInv
  OBVIOUS
<1>1. TypeInv
  <2>1. act \in Actions
    BY NoActionType DEF Init
  <2>2. pc \in [Procs -> Labels] /\ DOMAIN stack = Procs
    BY DEF Init, Labels
  <2> QED BY <2>1, <2>2, NoActionType DEF Init, TypeInv
<1>2. PlaceInv
  BY Names, Stacks DEF Init, PlaceInv, UserPlace, SlowPlace, WriterPlace, DiskPlace, CallLabels
<1>3. LifeInv
  BY Names, Stacks DEF Init, LifeInv, Ending, EndLabels, FreeLabels, AllocLabels, PostLabels, NoAction
<1>4. CountInv
  BY Names DEF Init, CountInv, NoAction
<1>5. HoldInv
  BY Names, Stacks DEF Init, HoldInv, InSync, InWrite, InEfSync, HeldLabels, PostLabels
<1> QED BY <1>1, <1>2, <1>3, <1>4, <1>5 DEF WriteInv

(* The steps of sync_file_writes.                                          *)
LEMMA SyncStep ==
    ASSUME NEW p \in {User, Slow}, WriteInv,
           \/ SyncLockFile(p) \/ SyncCheckFile(p) \/ SyncLockMutation(p)
           \/ SyncSuspendWrites(p) \/ SyncTestAction(p)
           \/ SyncAwaitAction(p) \/ SyncFlush(p) \/ SyncFsync(p)
           \/ SyncResumeWrites(p) \/ SyncUnlockMutation(p)
           \/ SyncUnlockFile(p)
    PROVE  WriteInv'
<1>0. TypeInv /\ p \in Procs /\ (pc[p] \in SyncLabels => stack[p] = SyncStack(p))
  BY Names, CallStack DEF WriteInv
<1>a. \A b : /\ p = User => <<b>> \o SyncStack(p) = <<b, "close_compare">>
             /\ p = Slow => <<b>> \o SyncStack(p) = <<b, "idle">>
  BY Names, Stacks DEF SyncStack
<1>b. SyncFlush(p) =>
         /\ pc[p] = "sync_flush_use" /\ stack[p] = SyncStack(p)
         /\ \/ act.cmd = "write" /\ Moved(p, "flush", <<"sync_fsync">> \o SyncStack(p))
            \/ Moved(p, "sync_fsync", SyncStack(p))
  BY <1>0, Moves DEF SyncFlush, At, SyncLabels, HeldLabels, Labels
<1>c. SyncFsync(p) =>
         /\ pc[p] = "sync_fsync_use" /\ stack[p] = SyncStack(p)
         /\ \/ act.cmd = "write" /\ Moved(p, "fsync", <<"sync_resume">> \o SyncStack(p))
            \/ Moved(p, "sync_resume", SyncStack(p))
  BY <1>0, Moves DEF SyncFsync, At, SyncLabels, HeldLabels, Labels
<1>d. SyncUnlockFile(p) =>
         /\ pc[p] = "sync_out" /\ stack[p] = SyncStack(p)
         /\ Moved(p, Head(SyncStack(p)), <<>>)
  <2>1. Head(SyncStack(p)) \in Labels /\ Tail(SyncStack(p)) = <<>>
    BY Stacks DEF SyncStack, Labels
  <2> QED BY <2>1, <1>0, Moves DEF SyncUnlockFile, At, SyncLabels
<1> USE Names, Stacks DEF WriteInv, TypeInv, PlaceInv, LifeInv, CountInv, HoldInv,
             UserPlace, SlowPlace, WriterPlace, DiskPlace, Ending, InSync, InWrite, InEfSync, InHandOf,
             FreeLabels, AllocLabels, PostLabels, HeldLabels, SyncLabels, EndLabels,
             CallLabels, Labels, Moved, locks, private, diskVars, userVars
<1>1. CASE SyncLockFile(p)
  BY <1>1 DEF SyncLockFile, At, Goto, Jump
<1>2. CASE SyncCheckFile(p)
  BY <1>2 DEF SyncCheckFile, At, Goto, Jump
<1>3. CASE SyncLockMutation(p)
  BY <1>3 DEF SyncLockMutation, At, Goto, Jump
<1>4. CASE SyncSuspendWrites(p)
  BY <1>4 DEF SyncSuspendWrites, At, Goto, Jump
<1>5. CASE SyncTestAction(p)
  <2> USE DEF SyncTestAction, At, Goto, Jump
  <2>1. TypeInv' /\ UserPlace' /\ SlowPlace'
    BY <1>5
  <2>2. WriterPlace' /\ \A d \in Disk : DiskPlace(d)'
    BY <1>5
  <2>3. PlaceInv'
    BY <1>5, <2>1, <2>2
  <2>4. LifeInv' /\ CountInv'
    BY <1>5
  <2>5. HoldInv'
    BY <1>5
  <2> QED BY <2>1, <2>3, <2>4, <2>5
<1>6. CASE SyncAwaitAction(p)
  BY <1>6 DEF SyncAwaitAction, At, Goto, Jump
<1>7. CASE SyncFlush(p)
  <2> USE DEF SyncFlush, SyncStack
  <2>1. CASE p = User
    <3>0. TypeInv' /\ UserPlace'
      BY <1>7, <1>a, <1>b, <2>1
    <3>1. PlaceInv'
      BY <1>7, <1>a, <1>b, <2>1, <3>0, PlaceKept
    <3>2. LifeInv'
      BY <1>7, <1>a, <1>b, <2>1
    <3>3. CountInv' /\ HoldInv'
      BY <1>7, <1>a, <1>b, <2>1
    <3> QED BY <3>0, <3>1, <3>2, <3>3
  <2>2. CASE p = Slow
    <3>0. TypeInv' /\ SlowPlace'
      BY <1>7, <1>a, <1>b, <2>2
    <3>1. PlaceInv'
      BY <1>7, <1>a, <1>b, <2>2, <3>0, PlaceKept
    <3>2. LifeInv'
      BY <1>7, <1>a, <1>b, <2>2
    <3>3. CountInv' /\ HoldInv'
      BY <1>7, <1>a, <1>b, <2>2
    <3> QED BY <3>0, <3>1, <3>2, <3>3
  <2> QED BY <2>1, <2>2
<1>8. CASE SyncFsync(p)
  <2> USE DEF SyncFsync, SyncStack
  <2>1. CASE p = User
    <3>0. TypeInv' /\ UserPlace'
      BY <1>8, <1>a, <1>c, <2>1
    <3>1. PlaceInv'
      BY <1>8, <1>a, <1>c, <2>1, <3>0, PlaceKept
    <3>2. LifeInv'
      BY <1>8, <1>a, <1>c, <2>1
    <3>3. CountInv' /\ HoldInv'
      BY <1>8, <1>a, <1>c, <2>1
    <3> QED BY <3>0, <3>1, <3>2, <3>3
  <2>2. CASE p = Slow
    <3>0. TypeInv' /\ SlowPlace'
      BY <1>8, <1>a, <1>c, <2>2
    <3>1. PlaceInv'
      BY <1>8, <1>a, <1>c, <2>2, <3>0, PlaceKept
    <3>2. LifeInv'
      BY <1>8, <1>a, <1>c, <2>2
    <3>3. CountInv' /\ HoldInv'
      BY <1>8, <1>a, <1>c, <2>2
    <3> QED BY <3>0, <3>1, <3>2, <3>3
  <2> QED BY <2>1, <2>2
<1>9. CASE SyncResumeWrites(p)
  BY <1>9 DEF SyncResumeWrites, At, Goto, Jump
<1>10. CASE SyncUnlockMutation(p)
  BY <1>10 DEF SyncUnlockMutation, At, Goto, Jump
<1>11. CASE SyncUnlockFile(p)
  <2> USE DEF SyncUnlockFile, SyncStack
  <2>1. CASE p = User
    <3>0. TypeInv' /\ UserPlace'
      BY <1>11, <1>a, <1>d, <2>1
    <3>1. PlaceInv'
      BY <1>11, <1>a, <1>d, <2>1, <3>0, PlaceKept
    <3>2. LifeInv'
      BY <1>11, <1>a, <1>d, <2>1
    <3>3. CountInv' /\ HoldInv'
      BY <1>11, <1>a, <1>d, <2>1
    <3> QED BY <3>0, <3>1, <3>2, <3>3
  <2>2. CASE p = Slow
    <3>0. TypeInv' /\ SlowPlace'
      BY <1>11, <1>a, <1>d, <2>2
    <3>1. PlaceInv'
      BY <1>11, <1>a, <1>d, <2>2, <3>0, PlaceKept
    <3>2. LifeInv'
      BY <1>11, <1>a, <1>d, <2>2
    <3>3. CountInv' /\ HoldInv'
      BY <1>11, <1>a, <1>d, <2>2
    <3> QED BY <3>0, <3>1, <3>2, <3>3
  <2> QED BY <2>1, <2>2
<1> QED BY <1>1, <1>2, <1>3, <1>4, <1>5, <1>6, <1>7, <1>8, <1>9, <1>10, <1>11

(* The steps of write_buffer_sync and of the fsync request.                *)
LEMMA RequestStep ==
    ASSUME NEW p \in {User, Slow}, WriteInv,
           \/ CountWrite(p) \/ CountFsync(p) \/ EnqueueRequest(p)
           \/ PostRequest(p)
    PROVE  WriteInv'
<1>0. /\ TypeInv /\ p \in Procs /\ act \in Actions /\ cur \in [{User, Slow} -> Tasks]
      /\ pc[p] \in PostLabels => stack[p] \in PostStacks(p)
      /\ CountInv
  BY Names, CallStack DEF WriteInv, TypeInv
<1>1. CountWrite(p) \/ CountFsync(p) =>
         /\ act.cmd = "write" /\ act'.cmd = "write" /\ act' \in Actions
         /\ act'.status = act.status
         /\ cur' \in [{User, Slow} -> Tasks]
         /\ pc[p] \in {"flush", "fsync"} /\ Moved(p, "enqueue", stack[p])
         /\ CountInv'
  <2> SUFFICES ASSUME NEW task \in Tasks, CountRequest(p, task), pc[p] \in {"flush", "fsync"}
               PROVE  /\ act.cmd = "write" /\ act'.cmd = "write" /\ act' \in Actions
                      /\ act'.status = act.status
                      /\ cur' \in [{User, Slow} -> Tasks]
                      /\ Moved(p, "enqueue", stack[p])
                      /\ CountInv'
    <3>1. [cmd |-> "write", data |-> act.accum] \in Tasks /\ [cmd |-> "fsync", data |-> <<>>] \in Tasks
      BY <1>0, Fields DEF Tasks
    <3> QED BY <3>1 DEF CountWrite, CountFsync, At
  <2> DEFINE s == IF task.cmd = "write" THEN <<>> ELSE act.accum
             r == act.totreq + 1
  <2>1. s \in Seq(Int) /\ r \in Nat /\ act' = [act EXCEPT !.totreq = r, !.accum = s]
    BY <1>0, Fields DEF CountRequest
  <2> HIDE DEF s, r
  <2>2. /\ act' \in Actions /\ act'.cmd = act.cmd /\ act'.status = act.status
        /\ act'.wqueue = act.wqueue /\ act'.batch = act.batch /\ act'.totreq = r
        /\ act'.req = act.req /\ act'.cmpl = act.cmpl
    BY <1>0, <2>1 DEF Actions
  <2>3. cur' \in [{User, Slow} -> Tasks] /\ cleared' = cleared
    BY <1>0 DEF CountRequest
  <2>4. Moved(p, "enqueue", stack[p])
    BY <1>0, Moves DEF CountRequest, Labels
  <2>5. CountInv'
    BY <1>0, <2>2, <2>3, <2>4, Names, Fields DEF CountInv, InHandOf, Moved, r
  <2> QED BY <2>2, <2>3, <2>4, <2>5 DEF CountRequest, LiveWrite
<1>2. EnqueueRequest(p) =>
         /\ act.cmd = "write" /\ act'.cmd = "write" /\ act' \in Actions
         /\ act'.status = act.status
         /\ cur' \in [{User, Slow} -> Tasks]
         /\ pc[p] = "enqueue" /\ Moved(p, "post", stack[p])
         /\ CountInv'
  <2> HAVE EnqueueRequest(p)
  <2>1. cur[p] \in Tasks /\ act' = [act EXCEPT !.wqueue = Append(@, cur[p])] /\ cleared' = cleared
    BY <1>0 DEF EnqueueRequest
  <2>2. /\ act' \in Actions /\ act'.cmd = act.cmd /\ act'.status = act.status
        /\ Len(act'.wqueue) = Len(act.wqueue) + 1 /\ act'.batch = act.batch
        /\ act'.totreq = act.totreq /\ act'.req = act.req /\ act'.cmpl = act.cmpl
    BY <1>0, <2>1, AppendTask
  <2>3. cur' \in [{User, Slow} -> Tasks]
    BY <1>0, NoActionType DEF EnqueueRequest
  <2>4. pc[p] = "enqueue" /\ Moved(p, "post", stack[p])
    BY <1>0, Moves DEF EnqueueRequest, At, Labels
  <2>5. p = User => /\ pc[User] = "enqueue" /\ pc'[User] = "post" /\ pc'[Slow] = pc[Slow]
    BY <1>0, <2>4, Names DEF Moved
  <2>6. p = Slow => /\ pc[Slow] = "enqueue" /\ pc'[Slow] = "post" /\ pc'[User] = pc[User]
    BY <1>0, <2>4, Names DEF Moved
  <2>7. CountInv'
    <3>1. act.cmd = "write" /\ act'.cmd = "write" /\ pc'[Writer] = pc[Writer]
      BY <2>2, <2>4, Names DEF EnqueueRequest, LiveWrite, Moved
    <3>2. /\ act'.req = act'.cmpl + cleared' + Len(act'.batch)
          /\ pc'[Writer] \notin {"next", "count"} => cleared' = 0
          /\ pc'[Writer] = "next" => act'.batch = <<>>
      BY <1>0, <2>1, <2>2, <3>1 DEF CountInv
    <3>3. act.totreq \in Nat /\ act.req \in Nat /\ Len(act.wqueue) \in Nat
      BY <1>0, Fields
    <3>4. act.totreq = act.req + Len(act.wqueue) + InHandOf(User) + InHandOf(Slow)
      BY <1>0, <3>1 DEF CountInv
    <3>5. act'.totreq = act'.req + Len(act'.wqueue) + InHandOf(User)' + InHandOf(Slow)'
      BY <2>2, <2>5, <2>6, <3>3, <3>4 DEF InHandOf
    <3> QED BY <3>2, <3>5 DEF CountInv
  <2> QED BY <2>2, <2>3, <2>4, <2>7 DEF EnqueueRequest, LiveWrite
<1>3. PostRequest(p) =>
         /\ act.cmd = "write" /\ act'.cmd = "write" /\ act' \in Actions
         /\ act'.status = "initiated" /\ events' \in Seq({"req", "cmpl"})
         /\ pc[p] = "post"
         /\ p = User => \/ stack[p] = <<"write_copy">> /\ Moved(p, "write_copy", <<>>)
                        \/ stack[p] = <<"efsync_release">> /\ Moved(p, "efsync_release", <<>>)
                        \/ /\ stack[p] = <<"sync_fsync", "close_compare">>
                           /\ Moved(p, "sync_fsync", <<"close_compare">>)
                        \/ /\ stack[p] = <<"sync_resume", "close_compare">>
                           /\ Moved(p, "sync_resume", <<"close_compare">>)
         /\ p = Slow => \/ stack[p] = <<"sync_fsync", "idle">> /\ Moved(p, "sync_fsync", <<"idle">>)
                        \/ stack[p] = <<"sync_resume", "idle">> /\ Moved(p, "sync_resume", <<"idle">>)
         /\ CountInv'
  <2> HAVE PostRequest(p)
  <2>1. /\ act' \in Actions /\ act'.cmd = act.cmd /\ act'.status = "initiated"
        /\ act'.wqueue = act.wqueue /\ act'.batch = act.batch /\ act'.totreq = act.totreq
        /\ act'.req = act.req /\ act'.cmpl = act.cmpl
    BY <1>0, SetStatus DEF PostRequest
  <2>2. events' \in Seq({"req", "cmpl"}) /\ cleared' = cleared
    BY <1>0 DEF PostRequest, TypeInv, private
  <2>3. pc[p] = "post" /\ Return(p) /\ stack[p] \in PostStacks(p)
    BY <1>0 DEF PostRequest, At, PostLabels
  <2>4. p = User => \/ stack[p] = <<"write_copy">> /\ Moved(p, "write_copy", <<>>)
                    \/ stack[p] = <<"efsync_release">> /\ Moved(p, "efsync_release", <<>>)
                    \/ /\ stack[p] = <<"sync_fsync", "close_compare">>
                       /\ Moved(p, "sync_fsync", <<"close_compare">>)
                    \/ /\ stack[p] = <<"sync_resume", "close_compare">>
                       /\ Moved(p, "sync_resume", <<"close_compare">>)
    BY <1>0, <2>3, Returns DEF PostStacks, Labels
  <2>5. p = Slow => \/ stack[p] = <<"sync_fsync", "idle">> /\ Moved(p, "sync_fsync", <<"idle">>)
                    \/ stack[p] = <<"sync_resume", "idle">> /\ Moved(p, "sync_resume", <<"idle">>)
    BY <1>0, <2>3, Returns, Names DEF PostStacks, Labels
  <2>6. CountInv'
    BY <1>0, <2>1, <2>2, <2>3, <2>4, <2>5, Names, Fields DEF CountInv, InHandOf, Moved
  <2> QED BY <2>1, <2>2, <2>3, <2>4, <2>5, <2>6 DEF PostRequest, LiveWrite
<1> USE Names, Stacks DEF WriteInv, TypeInv, PlaceInv, LifeInv, CountInv, HoldInv,
             UserPlace, SlowPlace, WriterPlace, DiskPlace, Ending, InSync, InWrite, InEfSync, InHandOf,
             FreeLabels, AllocLabels, PostLabels, HeldLabels, SyncLabels, EndLabels,
             CallLabels, Labels, Moved, locks, private, diskVars, userVars
<1>4. CASE CountWrite(p) \/ CountFsync(p)
  <2> USE DEF CountWrite, CountFsync, CountRequest, PostStacks
  <2>1. CASE p = User
    <3>1. TypeInv' /\ UserPlace'
      BY <1>4, <1>1, <2>1, <1>0
    <3>2. PlaceInv'
      BY <1>4, <1>1, <2>1, <3>1, PlaceKept
    <3>a. ~Ending /\ ~Ending' /\ file' = "open"
      BY <1>4, <1>1, <2>1, <1>0
    <3>3. LifeInv'
      BY <1>4, <1>1, <2>1, <1>0, <3>a
    <3>4. HoldInv'
      BY <1>4, <1>1, <2>1, <1>0
    <3> QED BY <1>4, <1>1, <3>1, <3>2, <3>3, <3>4
  <2>2. CASE p = Slow
    <3>1. TypeInv' /\ SlowPlace'
      BY <1>4, <1>1, <2>2, <1>0
    <3>2. PlaceInv'
      BY <1>4, <1>1, <2>2, <3>1, PlaceKept
    <3>a. ~Ending /\ ~Ending' /\ file' = "open"
      BY <1>4, <1>1, <2>2, <1>0
    <3>3. LifeInv'
      BY <1>4, <1>1, <2>2, <1>0, <3>a
    <3>4. HoldInv'
      BY <1>4, <1>1, <2>2, <1>0
    <3> QED BY <1>4, <1>1, <3>1, <3>2, <3>3, <3>4
  <2> QED BY <2>1, <2>2
<1>5. CASE EnqueueRequest(p)
  <2> USE DEF EnqueueRequest, PostStacks
  <2>1. CASE p = User
    <3>1. TypeInv' /\ UserPlace'
      BY <1>5, <1>2, <2>1, <1>0
    <3>2. PlaceInv'
      BY <1>5, <1>2, <2>1, <3>1, PlaceKept
    <3>a. ~Ending /\ ~Ending' /\ file' = "open"
      BY <1>5, <1>2, <2>1, <1>0
    <3>3. LifeInv'
      BY <1>5, <1>2, <2>1, <1>0, <3>a
    <3>4. HoldInv'
      BY <1>5, <1>2, <2>1, <1>0
    <3> QED BY <1>5, <1>2, <3>1, <3>2, <3>3, <3>4
  <2>2. CASE p = Slow
    <3>1. TypeInv' /\ SlowPlace'
      BY <1>5, <1>2, <2>2, <1>0
    <3>2. PlaceInv'
      BY <1>5, <1>2, <2>2, <3>1, PlaceKept
    <3>a. ~Ending /\ ~Ending' /\ file' = "open"
      BY <1>5, <1>2, <2>2, <1>0
    <3>3. LifeInv'
      BY <1>5, <1>2, <2>2, <1>0, <3>a
    <3>4. HoldInv'
      BY <1>5, <1>2, <2>2, <1>0
    <3> QED BY <1>5, <1>2, <3>1, <3>2, <3>3, <3>4
  <2> QED BY <2>1, <2>2
<1>6. CASE PostRequest(p)
  <2> USE DEF PostRequest, PostStacks
  <2>1. CASE p = User
    <3>1. TypeInv' /\ UserPlace'
      BY <1>6, <1>3, <2>1, <1>0
    <3>2. PlaceInv'
      BY <1>6, <1>3, <2>1, <3>1, PlaceKept
    <3>a. ~Ending /\ ~Ending' /\ file' = "open"
      BY <1>6, <1>3, <2>1, <1>0
    <3>3. LifeInv'
      BY <1>6, <1>3, <2>1, <1>0, <3>a
    <3>4. HoldInv'
      BY <1>6, <1>3, <2>1, <1>0
    <3> QED BY <1>6, <1>3, <3>1, <3>2, <3>3, <3>4
  <2>2. CASE p = Slow
    <3>1. TypeInv' /\ SlowPlace'
      BY <1>6, <1>3, <2>2, <1>0
    <3>2. PlaceInv'
      BY <1>6, <1>3, <2>2, <3>1, PlaceKept
    <3>a. ~Ending /\ ~Ending' /\ file' = "open"
      BY <1>6, <1>3, <2>2, <1>0
    <3>3. LifeInv'
      BY <1>6, <1>3, <2>2, <1>0, <3>a
    <3>4. HoldInv'
      BY <1>6, <1>3, <2>2, <1>0
    <3> QED BY <1>6, <1>3, <3>1, <3>2, <3>3, <3>4
  <2> QED BY <2>1, <2>2
<1> QED BY <1>4, <1>5, <1>6

(* The steps of free_file_action and alloc_file_action.                    *)
LEMMA MutationStep ==
    ASSUME NEW p \in {User} \cup Disk, WriteInv,
           \/ LockMutation(p) \/ RelockMutation(p) \/ FreeAction(p)
           \/ AllocAction(p) \/ UnlockMutation(p)
    PROVE  WriteInv'
<1>0. /\ TypeInv /\ p \in Procs /\ act \in Actions
      /\ pc[p] \in FreeLabels => stack[p] \in FreeStacks(p)
      /\ pc[p] \in AllocLabels => p = User /\ stack[p] \in {<<"write_copy">>, <<"close">>}
      /\ pc[p] = "unlock" => \/ stack[p] \in FreeStacks(p)
                             \/ p = User /\ stack[p] \in {<<"write_copy">>, <<"close">>}
  BY Names, MutationStack DEF WriteInv, TypeInv
<1>1. LockMutation(p) \/ RelockMutation(p) =>
         \/ /\ pc[p] \in FreeLabels /\ stack[p] \in FreeStacks(p)
            /\ \E l \in FreeLabels : Moved(p, l, stack[p])
         \/ /\ pc[p] \in AllocLabels /\ p = User /\ stack[p] \in {<<"write_copy">>, <<"close">>}
            /\ \E l \in AllocLabels : Moved(p, l, stack[p])
  <2>1. \A l \in FreeLabels \cup AllocLabels : l \in Labels /\ (Jump(p, l) => Moved(p, l, stack[p]))
    BY <1>0, Moves DEF FreeLabels, AllocLabels, Labels
  <2> QED BY <1>0, <2>1 DEF LockMutation, RelockMutation, At, Jump, FreeLabels, AllocLabels
<1>2. FreeAction(p) =>
         /\ pc[p] = "free" /\ stack[p] \in FreeStacks(p)
         /\ Moved(p, "unlock", stack[p]) /\ act' = NoAction
  BY <1>0, Moves DEF FreeAction, At, FreeLabels, Labels
<1>3. AllocAction(p) =>
         /\ pc[p] = "alloc" /\ p = User /\ Moved(p, "unlock", stack[p])
         /\ \/ stack[p] = <<"close">> /\ act'.cmd = "close"
            \/ stack[p] = <<"write_copy">> /\ act'.cmd = "write"
         /\ act' \in Actions /\ act'.status = "initiated" /\ act'.batch = <<>> /\ act'.wqueue = <<>>
         /\ act'.totreq = 0 /\ act'.req = 0 /\ act'.cmpl = 0
  <2> HAVE AllocAction(p)
  <2>1. pc[p] = "alloc" /\ p = User /\ stack[p] \in {<<"write_copy">>, <<"close">>}
    BY <1>0 DEF AllocAction, At, AllocLabels
  <2>2. PICK c \in {"write", "close"} :
           /\ stack[p] = IF c = "close" THEN <<"close">> ELSE <<"write_copy">>
           /\ act' = [NoAction EXCEPT !.cmd = c, !.status = "initiated"]
    BY <2>1, Stacks DEF AllocAction
  <2>3. act' \in Actions
    BY <2>2, NoActionType
  <2> QED BY <1>0, <2>1, <2>2, <2>3, Moves DEF AllocAction, NoAction, Labels
<1>4. UnlockMutation(p) =>
         /\ pc[p] = "unlock"
         /\ \/ stack[p] = <<"idle">> /\ Moved(p, "idle", <<>>)
            \/ p = User /\ stack[p] = <<"write_alloc">> /\ Moved(p, "write_alloc", <<>>)
            \/ p = User /\ stack[p] = <<"close_sync">> /\ Moved(p, "close_sync", <<>>)
            \/ p = User /\ stack[p] = <<"close_alloc">> /\ Moved(p, "close_alloc", <<>>)
            \/ p = User /\ stack[p] = <<"done">> /\ Moved(p, "done", <<>>)
            \/ p = User /\ stack[p] = <<"write_copy">> /\ Moved(p, "write_copy", <<>>)
            \/ p = User /\ stack[p] = <<"close">> /\ Moved(p, "close", <<>>)
  BY <1>0, Returns DEF UnlockMutation, At, FreeStacks, Labels
<1> USE Names, Stacks DEF WriteInv, TypeInv, PlaceInv, LifeInv, CountInv, HoldInv,
             UserPlace, SlowPlace, WriterPlace, DiskPlace, Ending, InSync, InWrite, InEfSync, InHandOf,
             FreeLabels, AllocLabels, PostLabels, HeldLabels, SyncLabels, EndLabels,
             CallLabels, Labels, Moved, locks, private, diskVars, userVars
<1>5. CASE LockMutation(p) \/ RelockMutation(p)
  <2> USE DEF LockMutation, RelockMutation, FreeStacks
  <2>1. CASE p = User
    <3>1. TypeInv' /\ UserPlace'
      BY <1>5, <1>1, <2>1, <1>0, NoActionType
    <3>2. PlaceInv'
      <4>1. PICK l : Moved(p, l, stack[p])
        BY <1>5, <1>1, <2>1
      <4> QED BY <1>5, <1>1, <2>1, <3>1, <4>1, PlaceKept
    <3>3. LifeInv'
      BY <1>5, <1>1, <2>1, <1>0
    <3>4. CountInv'
      BY <1>5, <1>1, <2>1, <1>0
    <3>5. HoldInv'
      BY <1>5, <1>1, <2>1, <1>0
    <3> QED BY <3>1, <3>2, <3>3, <3>4, <3>5
  <2>2. CASE p \in Disk
    <3>1. TypeInv' /\ DiskPlace(p)'
      BY <1>5, <1>1, <2>2, <1>0, NoActionType
    <3>2. PlaceInv'
      <4>1. PICK l : Moved(p, l, stack[p])
        BY <1>5, <1>1, <2>2
      <4>2. /\ PlaceInv /\ p \in Procs /\ p # User /\ p # Slow /\ p # Writer
            /\ pc'[User] = pc[User] /\ jobs' = jobs
        BY <1>5, <1>1, <2>2
      <4>3. DiskPlace(p)'
        BY <3>1
      <4> HIDE DEF PlaceInv, UserPlace, SlowPlace, WriterPlace, DiskPlace, Moved
      <4> QED BY <2>2, <4>1, <4>2, <4>3, PlaceKept
    <3>3. LifeInv'
      BY <1>5, <1>1, <2>2, <1>0
    <3>4. CountInv'
      BY <1>5, <1>1, <2>2, <1>0
    <3>5. HoldInv'
      BY <1>5, <1>1, <2>2, <1>0
    <3> QED BY <3>1, <3>2, <3>3, <3>4, <3>5
  <2> QED BY <2>1, <2>2
<1>6. CASE FreeAction(p)
  <2> USE DEF FreeAction, FreeStacks, NoAction
  <2>1. CASE p = User
    <3>1. TypeInv' /\ UserPlace'
      BY <1>6, <1>2, <2>1, <1>0, NoActionType
    <3>2. PlaceInv'
      BY <1>6, <1>2, <2>1, <3>1, PlaceKept
    <3>3. LifeInv'
      BY <1>6, <1>2, <2>1, <1>0
    <3>4. CountInv'
      BY <1>6, <1>2, <2>1, <1>0
    <3>5. HoldInv'
      BY <1>6, <1>2, <2>1, <1>0
    <3> QED BY <3>1, <3>2, <3>3, <3>4, <3>5
  <2>2. CASE p \in Disk
    <3>1. TypeInv' /\ DiskPlace(p)'
      BY <1>6, <1>2, <2>2, <1>0, NoActionType
    <3>2. PlaceInv'
      BY <1>6, <1>2, <2>2, <3>1, PlaceKept
    <3>3. LifeInv'
      BY <1>6, <1>2, <2>2, <1>0
    <3>4. CountInv'
      BY <1>6, <1>2, <2>2, <1>0
    <3>5. HoldInv'
      BY <1>6, <1>2, <2>2, <1>0
    <3> QED BY <3>1, <3>2, <3>3, <3>4, <3>5
  <2> QED BY <2>1, <2>2
<1>7. CASE AllocAction(p)
  <2> USE DEF AllocAction
  <2>1. CASE p = User
    <3>1. TypeInv' /\ UserPlace'
      BY <1>7, <1>3, <2>1, <1>0, NoActionType
    <3>2. PlaceInv'
      BY <1>7, <1>3, <2>1, <3>1, PlaceKept
    <3>3. LifeInv'
      BY <1>7, <1>3, <2>1, <1>0
    <3>4. CountInv'
      BY <1>7, <1>3, <2>1, <1>0
    <3>5. HoldInv'
      BY <1>7, <1>3, <2>1, <1>0
    <3> QED BY <3>1, <3>2, <3>3, <3>4, <3>5
  <2>2. CASE p \in Disk
    BY <1>7, <1>3, <2>2
  <2> QED BY <2>1, <2>2
<1>8. CASE UnlockMutation(p)
  <2> USE DEF UnlockMutation
  <2>1. CASE p = User
    <3>1. TypeInv' /\ UserPlace'
      BY <1>8, <1>4, <2>1, <1>0, NoActionType
    <3>2. PlaceInv'
      BY <1>8, <1>4, <2>1, <3>1, PlaceKept
    <3>3. LifeInv'
      BY <1>8, <1>4, <2>1, <1>0
    <3>4. CountInv'
      BY <1>8, <1>4, <2>1, <1>0
    <3>5. HoldInv'
      BY <1>8, <1>4, <2>1, <1>0
    <3> QED BY <3>1, <3>2, <3>3, <3>4, <3>5
  <2>2. CASE p \in Disk
    <3>1. TypeInv' /\ DiskPlace(p)'
      BY <1>8, <1>4, <2>2, <1>0, NoActionType
    <3>2. PlaceInv'
      BY <1>8, <1>4, <2>2, <3>1, PlaceKept
    <3>3. LifeInv'
      BY <1>8, <1>4, <2>2, <1>0
    <3>4. CountInv'
      BY <1>8, <1>4, <2>2, <1>0
    <3>5. HoldInv'
      BY <1>8, <1>4, <2>2, <1>0
    <3> QED BY <3>1, <3>2, <3>3, <3>4, <3>5
  <2> QED BY <2>1, <2>2
<1> QED BY <1>5, <1>6, <1>7, <1>8

(* The steps of ef_file_close.                                             *)
LEMMA FileCloseStep ==
    ASSUME NEW p \in {User} \cup Disk, WriteInv,
           \/ FileClose(p) \/ CloseStatusLock(p) \/ CloseStatusCleanup(p)
    PROVE  WriteInv'
<1>0. /\ TypeInv /\ p \in Procs /\ act \in Actions
      /\ pc[p] \in {"file_close", "close_lock", "close_cleanup"} => stack[p] = <<>>
      /\ p \in Disk /\ pc[p] \in {"file_close", "close_lock", "close_cleanup"} => pc[User] = "done"
  <2>1. CASE p = User
    BY <2>1, Names, CallStack DEF WriteInv, TypeInv, CallLabels, EndLabels
  <2>2. CASE p \in Disk
    BY <2>2, Names DEF WriteInv, TypeInv, PlaceInv, DiskPlace, FreeLabels
  <2> QED BY <2>1, <2>2
<1>1. FileClose(p) =>
         /\ pc[p] = "file_close" /\ stack[p] = <<>>
         /\ act' \in Actions /\ act'.cmd = act.cmd
         /\ Moved(p, "close_lock", <<>>) \/ Moved(p, "free_lock", <<Finished(p)>>)
  <2> HAVE FileClose(p)
  <2>1. pc[p] = "file_close" /\ stack[p] = <<>>
    BY <1>0 DEF FileClose, At
  <2>2. act' \in Actions /\ act'.cmd = act.cmd
    BY <1>0, SetStatus DEF FileClose
  <2>3. Moved(p, "close_lock", <<>>) \/ Moved(p, "free_lock", <<Finished(p)>>)
    BY <1>0, <2>1, Moves, Calls DEF FileClose, Labels
  <2> QED BY <2>1, <2>2, <2>3
<1>2. CloseStatusLock(p) =>
         pc[p] = "close_lock" /\ stack[p] = <<>> /\ Moved(p, "close_cleanup", <<>>)
  BY <1>0, Moves DEF CloseStatusLock, At, Labels
<1>3. CloseStatusCleanup(p) =>
         /\ pc[p] = "close_cleanup" /\ stack[p] = <<>> /\ act' = NoAction
         /\ Moved(p, Finished(p), <<>>)
  BY <1>0, Moves DEF CloseStatusCleanup, At, Labels, Finished
<1> USE Names, Stacks DEF WriteInv, TypeInv, PlaceInv, LifeInv, CountInv, HoldInv,
             UserPlace, SlowPlace, WriterPlace, DiskPlace, Ending, InSync, InWrite, InEfSync, InHandOf,
             FreeLabels, AllocLabels, PostLabels, HeldLabels, SyncLabels, EndLabels,
             CallLabels, Labels, Moved, locks, private, diskVars, userVars
<1>4. CASE FileClose(p)
  <2> USE DEF FileClose, Finished, NoAction
  <2>1. CASE p = User
    <3>1. TypeInv' /\ UserPlace'
      BY <1>4, <1>1, <2>1, <1>0, NoActionType
    <3>2. PlaceInv'
      BY <1>4, <1>1, <2>1, <3>1, PlaceKept
    <3>a. Ending /\ Ending'
      BY <1>4, <1>1, <2>1, <1>0
    <3>3. LifeInv'
      BY <1>4, <1>1, <2>1, <1>0, <3>a
    <3>4. CountInv'
      BY <1>4, <1>1, <2>1, <1>0
    <3>5. HoldInv'
      BY <1>4, <1>1, <2>1, <1>0
    <3> QED BY <3>1, <3>2, <3>3, <3>4, <3>5
  <2>2. CASE p \in Disk
    <3>1. TypeInv' /\ DiskPlace(p)'
      BY <1>4, <1>1, <2>2, <1>0, NoActionType
    <3>2. PlaceInv'
      BY <1>4, <1>1, <2>2, <3>1, PlaceKept
    <3>a. Ending /\ Ending'
      BY <1>4, <1>1, <2>2, <1>0
    <3>3. LifeInv'
      BY <1>4, <1>1, <2>2, <1>0, <3>a
    <3>4. CountInv'
      BY <1>4, <1>1, <2>2, <1>0
    <3>5. HoldInv'
      BY <1>4, <1>1, <2>2, <1>0
    <3> QED BY <3>1, <3>2, <3>3, <3>4, <3>5
  <2> QED BY <2>1, <2>2
<1>5. CASE CloseStatusLock(p)
  <2> USE DEF CloseStatusLock, Finished, NoAction
  <2>1. CASE p = User
    <3>1. TypeInv' /\ UserPlace'
      BY <1>5, <1>2, <2>1, <1>0, NoActionType
    <3>2. PlaceInv'
      BY <1>5, <1>2, <2>1, <3>1, PlaceKept
    <3>3. LifeInv'
      BY <1>5, <1>2, <2>1, <1>0
    <3>4. CountInv'
      BY <1>5, <1>2, <2>1, <1>0
    <3>5. HoldInv'
      BY <1>5, <1>2, <2>1, <1>0
    <3> QED BY <3>1, <3>2, <3>3, <3>4, <3>5
  <2>2. CASE p \in Disk
    <3>1. TypeInv' /\ DiskPlace(p)'
      BY <1>5, <1>2, <2>2, <1>0, NoActionType
    <3>2. PlaceInv'
      BY <1>5, <1>2, <2>2, <3>1, PlaceKept
    <3>3. LifeInv'
      BY <1>5, <1>2, <2>2, <1>0
    <3>4. CountInv'
      BY <1>5, <1>2, <2>2, <1>0
    <3>5. HoldInv'
      BY <1>5, <1>2, <2>2, <1>0
    <3> QED BY <3>1, <3>2, <3>3, <3>4, <3>5
  <2> QED BY <2>1, <2>2
<1>6. CASE CloseStatusCleanup(p)
  <2> USE DEF CloseStatusCleanup, Finished, NoAction
  <2>1. CASE p = User
    <3>1. TypeInv' /\ UserPlace'
      BY <1>6, <1>3, <2>1, <1>0, NoActionType
    <3>2. PlaceInv'
      BY <1>6, <1>3, <2>1, <3>1, PlaceKept
    <3>3. LifeInv'
      BY <1>6, <1>3, <2>1, <1>0
    <3>4. CountInv'
      BY <1>6, <1>3, <2>1, <1>0
    <3>5. HoldInv'
      BY <1>6, <1>3, <2>1, <1>0
    <3> QED BY <3>1, <3>2, <3>3, <3>4, <3>5
  <2>2. CASE p \in Disk
    <3>1. TypeInv' /\ DiskPlace(p)'
      BY <1>6, <1>3, <2>2, <1>0, NoActionType
    <3>2. PlaceInv'
      BY <1>6, <1>3, <2>2, <3>1, PlaceKept
    <3>3. LifeInv'
      BY <1>6, <1>3, <2>2, <1>0
    <3>4. CountInv'
      BY <1>6, <1>3, <2>2, <1>0
    <3>5. HoldInv'
      BY <1>6, <1>3, <2>2, <1>0
    <3> QED BY <3>1, <3>2, <3>3, <3>4, <3>5
  <2> QED BY <2>1, <2>2
<1> QED BY <1>4, <1>5, <1>6

(* The steps of ef_open_status and ef_write.                               *)
LEMMA WriteStep ==
    ASSUME NEW n \in Int, WriteInv,
           \/ OpenStatus \/ WriteCall(n) \/ WriteHold \/ WriteCheckAction
           \/ WriteAllocAction \/ WriteCopy \/ WriteReturn
    PROVE  WriteInv'
<1>0. /\ TypeInv /\ LifeInv /\ act \in Actions
      /\ pc[User] \in CallLabels => stack[User] = <<>>
  BY Names, CallStack DEF WriteInv, TypeInv
<1>1. OpenStatus =>
         /\ pc[User] = "idle" /\ stack[User] = <<>>
         /\ Moved(User, "free_lock", <<"idle">>)
  BY <1>0, Names, Moves, Calls DEF OpenStatus, At, Labels, CallLabels, EndLabels
<1>2. WriteCall(n) =>
         /\ pc[User] = "idle" /\ stack[User] = <<>>
         /\ Moved(User, "write_ws", <<>>)
  BY <1>0, Names, Moves, Calls DEF WriteCall, At, Labels, CallLabels, EndLabels
<1>3. WriteHold =>
         /\ pc[User] = "write_ws" /\ stack[User] = <<>>
         /\ Moved(User, "write_check", <<>>)
  BY <1>0, Names, Moves, Calls DEF WriteHold, At, Labels, CallLabels, EndLabels
<1>4. WriteCheckAction =>
         /\ pc[User] = "write_check" /\ stack[User] = <<>>
         /\ \/ act.cmd = "open" /\ Moved(User, "free_lock", <<"write_alloc">>)
            \/ Moved(User, "write_alloc", <<>>)
  BY <1>0, Names, Moves, Calls, OnlyOpenComplete DEF WriteCheckAction, At, Labels, CallLabels, EndLabels, Live
<1>5. WriteAllocAction =>
         /\ pc[User] = "write_alloc" /\ stack[User] = <<>>
         /\ \/ act.cmd = "none" /\ Moved(User, "alloc_lock", <<"write_copy">>)
            \/ Moved(User, "write_copy", <<>>)
  BY <1>0, Names, Moves, Calls DEF WriteAllocAction, At, Labels, CallLabels, EndLabels
<1>6. WriteCopy =>
         /\ pc[User] = "write_copy" /\ stack[User] = <<>>
         /\ act.cmd = "write" /\ act' \in Actions /\ act'.cmd = "write"
         /\ act'.status = act.status /\ act'.wqueue = act.wqueue /\ act'.batch = act.batch
         /\ act'.totreq = act.totreq /\ act'.req = act.req /\ act'.cmpl = act.cmpl
         /\ sent' \in Int /\ left' \in Int
         /\ Moved(User, "flush", <<"write_copy">>) \/ Moved(User, "write_copy", <<>>)
  <2> HAVE WriteCopy
  <2> DEFINE room == PageSize - Len(act.accum)
             n0 == IF left > room THEN room ELSE left
  <2>1. /\ n0 \in Int
        /\ act' = [act EXCEPT !.accum = @ \o [i \in 1..n0 |-> sent + i]]
        /\ sent' = sent + n0 /\ left' = left - n0
        /\ Call(User, "flush", "write_copy") \/ Jump(User, "write_copy")
    <3>1. n0 \in Int
      BY <1>0, EfAssumption, Fields DEF TypeInv
    <3> QED BY <3>1 DEF WriteCopy
  <2> HIDE DEF n0
  <2> DEFINE new == act.accum \o [i \in 1..n0 |-> sent + i]
  <2>2. new \in Seq(Int) /\ sent' \in Int /\ left' \in Int
    BY <1>0, <2>1, CopyType, Fields DEF TypeInv
  <2>3. act' = [act EXCEPT !.accum = new]
    BY <2>1
  <2> HIDE DEF new
  <2>4. /\ act' \in Actions /\ act'.cmd = act.cmd
        /\ act'.status = act.status /\ act'.wqueue = act.wqueue /\ act'.batch = act.batch
        /\ act'.totreq = act.totreq /\ act'.req = act.req /\ act'.cmpl = act.cmpl
    BY <1>0, <2>2, <2>3 DEF Actions
  <2>5. act.cmd = "write" /\ pc[User] = "write_copy" /\ stack[User] = <<>>
    BY <1>0 DEF WriteCopy, LiveWrite, At, CallLabels
  <2>6. Moved(User, "flush", <<"write_copy">>) \/ Moved(User, "write_copy", <<>>)
    BY <1>0, <2>1, <2>5, Names, Moves, Calls DEF Labels
  <2> QED BY <2>2, <2>4, <2>5, <2>6
<1>7. WriteReturn =>
         /\ pc[User] = "write_copy" /\ stack[User] = <<>>
         /\ \/ ws = -1 /\ ws' = 0 /\ fault' = fault /\ Moved(User, "idle", <<>>)
            \/ ws # -1
  BY <1>0, Names, Moves, Calls DEF WriteReturn, At, Labels, CallLabels, EndLabels, Release
<1> USE Names, Stacks DEF WriteInv, TypeInv, PlaceInv, LifeInv, CountInv, HoldInv,
             UserPlace, SlowPlace, WriterPlace, DiskPlace, Ending, InSync, InWrite, InEfSync, InHandOf,
             FreeLabels, AllocLabels, PostLabels, HeldLabels, SyncLabels, EndLabels,
             CallLabels, Labels, Moved, locks, private, diskVars, userVars
<1>8. CASE OpenStatus
  <2> USE DEF OpenStatus
  <2>1. TypeInv' /\ UserPlace'
    BY <1>8, <1>1, <1>0
  <2>2. PlaceInv'
    BY <1>8, <1>1, <2>1, PlaceKept
  <2>3. LifeInv'
    BY <1>8, <1>1, <1>0
  <2>4. CountInv'
    BY <1>8, <1>1, <1>0
  <2>5. HoldInv'
    BY <1>8, <1>1, <1>0
  <2> QED BY <2>1, <2>2, <2>3, <2>4, <2>5
<1>9. CASE WriteCall(n)
  <2> USE DEF WriteCall
  <2>1. TypeInv' /\ UserPlace'
    BY <1>9, <1>2, <1>0
  <2>2. PlaceInv'
    BY <1>9, <1>2, <2>1, PlaceKept
  <2>3. LifeInv'
    BY <1>9, <1>2, <1>0
  <2>4. CountInv'
    BY <1>9, <1>2, <1>0
  <2>5. HoldInv'
    BY <1>9, <1>2, <1>0
  <2> QED BY <2>1, <2>2, <2>3, <2>4, <2>5
<1>10. CASE WriteHold
  <2> USE DEF WriteHold
  <2>1. TypeInv' /\ UserPlace'
    BY <1>10, <1>3, <1>0
  <2>2. PlaceInv'
    BY <1>10, <1>3, <2>1, PlaceKept
  <2>3. LifeInv'
    BY <1>10, <1>3, <1>0
  <2>4. CountInv'
    BY <1>10, <1>3, <1>0
  <2>5. HoldInv'
    BY <1>10, <1>3, <1>0
  <2> QED BY <2>1, <2>2, <2>3, <2>4, <2>5
<1>11. CASE WriteCheckAction
  <2> USE DEF WriteCheckAction
  <2>1. TypeInv' /\ UserPlace'
    BY <1>11, <1>4, <1>0
  <2>2. PlaceInv'
    BY <1>11, <1>4, <2>1, PlaceKept
  <2>3. LifeInv'
    BY <1>11, <1>4, <1>0
  <2>4. CountInv'
    BY <1>11, <1>4, <1>0
  <2>5. HoldInv'
    BY <1>11, <1>4, <1>0
  <2> QED BY <2>1, <2>2, <2>3, <2>4, <2>5
<1>12. CASE WriteAllocAction
  <2> USE DEF WriteAllocAction
  <2>1. TypeInv' /\ UserPlace'
    BY <1>12, <1>5, <1>0
  <2>2. PlaceInv'
    BY <1>12, <1>5, <2>1, PlaceKept
  <2>3. LifeInv'
    BY <1>12, <1>5, <1>0
  <2>4. CountInv'
    BY <1>12, <1>5, <1>0
  <2>5. HoldInv'
    BY <1>12, <1>5, <1>0
  <2> QED BY <2>1, <2>2, <2>3, <2>4, <2>5
<1>13. CASE WriteCopy
  <2> USE DEF WriteCopy
  <2>1. TypeInv' /\ UserPlace'
    BY <1>13, <1>6, <1>0
  <2>2. PlaceInv'
    BY <1>13, <1>6, <2>1, PlaceKept
  <2>3. LifeInv'
    <3>1. CASE pc'[User] = "flush" /\ stack'[User] = <<"write_copy">>
      <4>1. ~Ending /\ ~Ending'
        BY <1>13, <1>6, <1>0, <3>1
      <4> QED BY <1>13, <1>6, <1>0, <3>1, <4>1
    <3>2. CASE pc'[User] = "write_copy" /\ stack'[User] = <<>>
      <4>1. ~Ending /\ ~Ending'
        BY <1>13, <1>6, <1>0, <3>2
      <4> QED BY <1>13, <1>6, <1>0, <3>2, <4>1
    <3> QED BY <1>13, <1>6, <3>1, <3>2
  <2>4. CountInv'
    <3>1. /\ InHandOf(User)' = InHandOf(User) /\ InHandOf(Slow)' = InHandOf(Slow)
          /\ pc'[Writer] = pc[Writer] /\ cleared' = cleared
      BY <1>13, <1>6, <1>0
    <3>2. /\ CountInv /\ act.cmd = "write" /\ act'.wqueue = act.wqueue /\ act'.batch = act.batch
          /\ act'.totreq = act.totreq /\ act'.req = act.req /\ act'.cmpl = act.cmpl
      BY <1>13, <1>6
    <3> HIDE DEF WriteInv, InHandOf, Moved, WriteCopy
    <3> QED BY <3>1, <3>2
  <2>5. HoldInv'
    <3>1. CASE pc'[User] = "flush" /\ stack'[User] = <<"write_copy">>
      <4>1. ~InSync(User)' /\ ~InEfSync' /\ (InSync(Slow)' <=> InSync(Slow))
        BY <1>13, <1>6, <1>0, <3>1
      <4> QED BY <1>13, <1>6, <1>0, <3>1, <4>1
    <3>2. CASE pc'[User] = "write_copy" /\ stack'[User] = <<>>
      <4>1. ~InSync(User)' /\ ~InEfSync' /\ (InSync(Slow)' <=> InSync(Slow))
        BY <1>13, <1>6, <1>0, <3>2
      <4> QED BY <1>13, <1>6, <1>0, <3>2, <4>1
    <3> QED BY <1>13, <1>6, <3>1, <3>2
  <2> QED BY <2>1, <2>2, <2>3, <2>4, <2>5
<1>14. CASE WriteReturn
  <2> USE DEF WriteReturn, Release
  <2>1. TypeInv' /\ UserPlace'
    BY <1>14, <1>7, <1>0
  <2>2. PlaceInv'
    BY <1>14, <1>7, <2>1, PlaceKept
  <2>3. LifeInv'
    BY <1>14, <1>7, <1>0
  <2>4. CountInv'
    BY <1>14, <1>7, <1>0
  <2>5. HoldInv'
    BY <1>14, <1>7, <1>0
  <2> QED BY <2>1, <2>2, <2>3, <2>4, <2>5
<1> QED BY <1>8, <1>9, <1>10, <1>11, <1>12, <1>13, <1>14

(* The steps of ef_sync.                                                   *)
LEMMA EfSyncStep ==
    ASSUME WriteInv,
           \/ SyncCall \/ SyncHold \/ SyncRelease \/ SyncReturn
    PROVE  WriteInv'
<1>0. /\ TypeInv /\ LifeInv /\ act \in Actions
      /\ pc[User] \in CallLabels => stack[User] = <<>>
  BY Names, CallStack DEF WriteInv, TypeInv
<1>1. SyncCall =>
         /\ pc[User] = "idle" /\ stack[User] = <<>>
         /\ \/ act.cmd = "open" /\ Moved(User, "free_lock", <<"idle">>)
            \/ Moved(User, "efsync_ws", <<>>)
  BY <1>0, Names, Moves, Calls, OnlyOpenComplete DEF SyncCall, At, Labels, CallLabels, EndLabels
<1>2. SyncHold =>
         /\ pc[User] = "efsync_ws" /\ stack[User] = <<>>
         /\ \/ act.cmd = "write" /\ Moved(User, "flush", <<"efsync_release">>)
            \/ Moved(User, "efsync_release", <<>>)
  BY <1>0, Names, Moves, Calls DEF SyncHold, At, Labels, CallLabels, EndLabels, LiveWrite
<1>3. SyncRelease =>
         /\ pc[User] = "efsync_release" /\ stack[User] = <<>>
         /\ \/ ws = -2 /\ ws' = 0 /\ fault' = fault /\ Moved(User, "efsync_done", <<>>)
            \/ ws # -2
  BY <1>0, Names, Moves, Calls DEF SyncRelease, At, Labels, CallLabels, EndLabels, Release
<1>4. SyncReturn =>
         /\ pc[User] = "efsync_done" /\ stack[User] = <<>>
         /\ Moved(User, "idle", <<>>)
  BY <1>0, Names, Moves, Calls DEF SyncReturn, At, Labels, CallLabels, EndLabels
<1> USE Names, Stacks DEF WriteInv, TypeInv, PlaceInv, LifeInv, CountInv, HoldInv,
             UserPlace, SlowPlace, WriterPlace, DiskPlace, Ending, InSync, InWrite, InEfSync, InHandOf,
             FreeLabels, AllocLabels, PostLabels, HeldLabels, SyncLabels, EndLabels,
             CallLabels, Labels, Moved, locks, private, diskVars, userVars
<1>5. CASE SyncCall
  <2> USE DEF SyncCall
  <2>1. TypeInv' /\ UserPlace'
    BY <1>5, <1>1, <1>0
  <2>2. PlaceInv'
    BY <1>5, <1>1, <2>1, PlaceKept
  <2>3. LifeInv'
    BY <1>5, <1>1, <1>0
  <2>4. CountInv'
    BY <1>5, <1>1, <1>0
  <2>5. HoldInv'
    BY <1>5, <1>1, <1>0
  <2> QED BY <2>1, <2>2, <2>3, <2>4, <2>5
<1>6. CASE SyncHold
  <2> USE DEF SyncHold
  <2>1. TypeInv' /\ UserPlace'
    BY <1>6, <1>2, <1>0
  <2>2. PlaceInv'
    BY <1>6, <1>2, <2>1, PlaceKept
  <2>3. LifeInv'
    BY <1>6, <1>2, <1>0
  <2>4. CountInv'
    BY <1>6, <1>2, <1>0
  <2>5. HoldInv'
    BY <1>6, <1>2, <1>0
  <2> QED BY <2>1, <2>2, <2>3, <2>4, <2>5
<1>7. CASE SyncRelease
  <2> USE DEF SyncRelease, Release
  <2>1. TypeInv' /\ UserPlace'
    BY <1>7, <1>3, <1>0
  <2>2. PlaceInv'
    BY <1>7, <1>3, <2>1, PlaceKept
  <2>3. LifeInv'
    BY <1>7, <1>3, <1>0
  <2>4. CountInv'
    BY <1>7, <1>3, <1>0
  <2>5. HoldInv'
    BY <1>7, <1>3, <1>0
  <2> QED BY <2>1, <2>2, <2>3, <2>4, <2>5
<1>8. CASE SyncReturn
  <2> USE DEF SyncReturn
  <2>1. TypeInv' /\ UserPlace'
    BY <1>8, <1>4, <1>0
  <2>2. PlaceInv'
    BY <1>8, <1>4, <2>1, PlaceKept
  <2>3. LifeInv'
    BY <1>8, <1>4, <1>0
  <2>4. CountInv'
    BY <1>8, <1>4, <1>0
  <2>5. HoldInv'
    BY <1>8, <1>4, <1>0
  <2> QED BY <2>1, <2>2, <2>3, <2>4, <2>5
<1> QED BY <1>5, <1>6, <1>7, <1>8

(* The steps of ef_close.                                                  *)
LEMMA EfCloseStep ==
    ASSUME WriteInv,
           \/ CloseCall \/ CloseSync \/ CloseCompare \/ CloseSetComplete
           \/ CloseTest \/ CloseAlloc \/ CloseHandOver
    PROVE  WriteInv'
<1>0. /\ TypeInv /\ LifeInv /\ act \in Actions
      /\ pc[User] \in CallLabels => stack[User] = <<>>
  BY Names, CallStack DEF WriteInv, TypeInv
<1>1. CloseCall =>
         /\ pc[User] = "idle" /\ stack[User] = <<>>
         /\ \/ act.cmd = "open" /\ Moved(User, "free_lock", <<"close_sync">>)
            \/ Moved(User, "close_sync", <<>>)
  BY <1>0, Names, Moves, Calls, OnlyOpenComplete DEF CloseCall, At, Labels, CallLabels, EndLabels, Live
<1>2. CloseSync =>
         /\ pc[User] = "close_sync" /\ stack[User] = <<>>
         /\ Moved(User, "sync", <<"close_compare">>)
  BY <1>0, Names, Moves, Calls DEF CloseSync, At, Labels, CallLabels, EndLabels
<1>3. CloseCompare =>
         /\ pc[User] = "close_compare" /\ stack[User] = <<>>
         /\ \/ act.cmd = "write" /\ Moved(User, "close_set", <<>>)
            \/ Moved(User, "close_test", <<>>)
  BY <1>0, Names, Moves, Calls DEF CloseCompare, At, Labels, CallLabels, EndLabels
<1>4. CloseSetComplete =>
         /\ pc[User] = "close_set" /\ stack[User] = <<>>
         /\ act' \in Actions /\ act'.cmd = act.cmd
         /\ act'.wqueue = act.wqueue /\ act'.batch = act.batch
         /\ act'.totreq = act.totreq /\ act'.req = act.req /\ act'.cmpl = act.cmpl
         /\ Moved(User, "close_test", <<>>)
  <2> HAVE CloseSetComplete
  <2>1. /\ act' \in Actions /\ act'.cmd = act.cmd
        /\ act'.wqueue = act.wqueue /\ act'.batch = act.batch
        /\ act'.totreq = act.totreq /\ act'.req = act.req /\ act'.cmpl = act.cmpl
    BY <1>0, SetStatus DEF CloseSetComplete
  <2> QED BY <1>0, <2>1, Names, Moves DEF CloseSetComplete, At, Labels, CallLabels
<1>5. CloseTest =>
         /\ pc[User] = "close_test" /\ stack[User] = <<>>
         /\ \/ act.cmd = "none" /\ Moved(User, "alloc_lock", <<"close">>)
            \/ Moved(User, "free_lock", <<"close_alloc">>)
            \/ /\ act.cmd # "none" /\ act.status # "complete"
               /\ Moved(User, "close_compare", <<>>)
  BY <1>0, Names, Moves, Calls DEF CloseTest, At, Labels, CallLabels, EndLabels
<1>6. CloseAlloc =>
         /\ pc[User] = "close_alloc" /\ stack[User] = <<>>
         /\ Moved(User, "alloc_lock", <<"close">>)
  BY <1>0, Names, Moves, Calls DEF CloseAlloc, At, Labels, CallLabels, EndLabels
<1>7. CloseHandOver =>
         /\ pc[User] = "close" /\ stack[User] = <<>>
         /\ jobs' \in Seq({"write", "close"})
         /\ \/ jobs' = jobs /\ Moved(User, "file_close", <<>>)
            \/ Moved(User, "done", <<>>)
  <2> HAVE CloseHandOver
  <2>1. jobs' \in Seq({"write", "close"})
    BY <1>0 DEF CloseHandOver, TypeInv
  <2> QED BY <1>0, <2>1, Names, Moves DEF CloseHandOver, At, Labels, CallLabels, EndLabels
<1> USE Names, Stacks DEF WriteInv, TypeInv, PlaceInv, LifeInv, CountInv, HoldInv,
             UserPlace, SlowPlace, WriterPlace, DiskPlace, Ending, InSync, InWrite, InEfSync, InHandOf,
             FreeLabels, AllocLabels, PostLabels, HeldLabels, SyncLabels, EndLabels,
             CallLabels, Labels, Moved, locks, private, diskVars, userVars
<1>8. CASE CloseCall
  <2> USE DEF CloseCall
  <2>1. TypeInv' /\ UserPlace'
    BY <1>8, <1>1, <1>0
  <2>2. PlaceInv'
    BY <1>8, <1>1, <2>1, PlaceKept
  <2>3. LifeInv'
    BY <1>8, <1>1, <1>0
  <2>4. CountInv'
    BY <1>8, <1>1, <1>0
  <2>5. HoldInv'
    BY <1>8, <1>1, <1>0
  <2> QED BY <2>1, <2>2, <2>3, <2>4, <2>5
<1>9. CASE CloseSync
  <2> USE DEF CloseSync
  <2>1. TypeInv' /\ UserPlace'
    BY <1>9, <1>2, <1>0
  <2>2. PlaceInv'
    BY <1>9, <1>2, <2>1, PlaceKept
  <2>3. LifeInv'
    BY <1>9, <1>2, <1>0
  <2>4. CountInv'
    BY <1>9, <1>2, <1>0
  <2>5. HoldInv'
    BY <1>9, <1>2, <1>0
  <2> QED BY <2>1, <2>2, <2>3, <2>4, <2>5
<1>10. CASE CloseCompare
  <2> USE DEF CloseCompare
  <2>1. TypeInv' /\ UserPlace'
    BY <1>10, <1>3, <1>0
  <2>2. PlaceInv'
    BY <1>10, <1>3, <2>1, PlaceKept
  <2>3. LifeInv'
    BY <1>10, <1>3, <1>0
  <2>4. CountInv'
    BY <1>10, <1>3, <1>0
  <2>5. HoldInv'
    BY <1>10, <1>3, <1>0
  <2> QED BY <2>1, <2>2, <2>3, <2>4, <2>5
<1>11. CASE CloseSetComplete
  <2> USE DEF CloseSetComplete
  <2>1. TypeInv' /\ UserPlace'
    BY <1>11, <1>4, <1>0
  <2>2. PlaceInv'
    BY <1>11, <1>4, <2>1, PlaceKept
  <2>3. LifeInv'
    BY <1>11, <1>4, <1>0
  <2>4. CountInv'
    BY <1>11, <1>4, <1>0
  <2>5. HoldInv'
    BY <1>11, <1>4, <1>0
  <2> QED BY <2>1, <2>2, <2>3, <2>4, <2>5
<1>12. CASE CloseTest
  <2> USE DEF CloseTest
  <2>1. TypeInv' /\ UserPlace'
    BY <1>12, <1>5, <1>0
  <2>2. PlaceInv'
    BY <1>12, <1>5, <2>1, PlaceKept
  <2>3. LifeInv'
    BY <1>12, <1>5, <1>0
  <2>4. CountInv'
    BY <1>12, <1>5, <1>0
  <2>5. HoldInv'
    BY <1>12, <1>5, <1>0
  <2> QED BY <2>1, <2>2, <2>3, <2>4, <2>5
<1>13. CASE CloseAlloc
  <2> USE DEF CloseAlloc
  <2>1. TypeInv' /\ UserPlace'
    BY <1>13, <1>6, <1>0
  <2>2. PlaceInv'
    BY <1>13, <1>6, <2>1, PlaceKept
  <2>3. LifeInv'
    <3>1. Ending /\ Ending'
      BY <1>13, <1>6, <1>0
    <3> QED BY <1>13, <1>6, <1>0, <3>1
  <2>4. CountInv'
    BY <1>13, <1>6, <1>0
  <2>5. HoldInv'
    BY <1>13, <1>6, <1>0
  <2> QED BY <2>1, <2>2, <2>3, <2>4, <2>5
<1>14. CASE CloseHandOver
  <2> USE DEF CloseHandOver
  <2>1. TypeInv' /\ UserPlace'
    BY <1>14, <1>7, <1>0
  <2>2. PlaceInv'
    BY <1>14, <1>7, <2>1, PlaceKept
  <2>3. LifeInv'
    <3>1. Ending /\ Ending'
      BY <1>14, <1>7, <1>0
    <3> QED BY <1>14, <1>7, <1>0, <3>1
  <2>4. CountInv'
    BY <1>14, <1>7, <1>0
  <2>5. HoldInv'
    BY <1>14, <1>7, <1>0
  <2> QED BY <2>1, <2>2, <2>3, <2>4, <2>5
<1> QED BY <1>8, <1>9, <1>10, <1>11, <1>12, <1>13, <1>14

(* A round of slow_sync.                                                   *)
LEMMA SlowStep ==
    ASSUME WriteInv, SlowRound
    PROVE  WriteInv'
<1>1. /\ pc[Slow] = "idle" /\ stack[Slow] = <<>>
      /\ Moved(Slow, "sync", <<"idle">>)
  <2>1. pc[Slow] = "idle" /\ stack[Slow] = <<>>
    BY DEF SlowRound, At, WriteInv, PlaceInv, SlowPlace, SyncLabels, HeldLabels, PostLabels
  <2> QED BY <2>1, Names, Calls DEF SlowRound, WriteInv, Labels
<1> USE Names, Stacks DEF WriteInv, TypeInv, PlaceInv, LifeInv, CountInv, HoldInv,
             UserPlace, SlowPlace, WriterPlace, DiskPlace, Ending, InSync, InWrite, InEfSync, InHandOf,
             FreeLabels, AllocLabels, PostLabels, HeldLabels, SyncLabels, EndLabels,
             CallLabels, Labels, Moved, locks, private, diskVars, userVars
<1>2. TypeInv' /\ SlowPlace'
  BY <1>1 DEF SlowRound
<1>3. PlaceInv'
  BY <1>1, <1>2, PlaceKept DEF SlowRound
<1>4. LifeInv'
  BY <1>1 DEF SlowRound
<1>5. CountInv' /\ HoldInv'
  BY <1>1 DEF SlowRound
<1> QED BY <1>2, <1>3, <1>4, <1>5

(* The steps of file_writer.                                               *)
LEMMA WriterStep ==
    ASSUME WriteInv,
           \/ WriterTakeEvent \/ WriterClear \/ WriterNextBatch
           \/ WriterCount \/ WriterRequest
    PROVE  WriteInv'
<1>0. TypeInv /\ CountInv /\ act \in Actions /\ cleared \in Nat
  BY DEF WriteInv, TypeInv
<1>a. \A l \in Labels : Jump(Writer, l) => Moved(Writer, l, stack[Writer])
  BY <1>0, Names, Moves
<1>b. \A b : Moved(Writer, b, stack[Writer]) =>
         InHandOf(User)' = InHandOf(User) /\ InHandOf(Slow)' = InHandOf(Slow) /\ pc'[Writer] = b
  BY Names DEF Moved, InHandOf
<1>1. WriterTakeEvent =>
         /\ pc[Writer] = "idle" /\ events # <<>> /\ events' \in Seq({"req", "cmpl"})
         /\ \E l \in {"req", "cmpl"} : Moved(Writer, l, stack[Writer])
  <2> HAVE WriterTakeEvent
  <2>1. events \in Seq({"req", "cmpl"}) /\ events # <<>> /\ events' = Tail(events)
    BY <1>0 DEF WriterTakeEvent, TypeInv
  <2>2. Head(events) \in {"req", "cmpl"} /\ Tail(events) \in Seq({"req", "cmpl"})
    BY <2>1, HeadTailProperties
  <2> QED BY <1>a, <2>1, <2>2 DEF WriterTakeEvent, At, Labels
<1>2. WriterClear =>
         /\ pc[Writer] = "cmpl" /\ Moved(Writer, "next", stack[Writer])
         /\ act.cmd = "write" /\ act' \in Actions /\ act'.cmd = "write" /\ act'.status = act.status
         /\ cleared' \in Nat /\ CountInv'
  <2> HAVE WriterClear
  <2>1. /\ act.cmd = "write" /\ pc[Writer] = "cmpl" /\ cleared = 0
        /\ cleared' = Len(act.batch) /\ Moved(Writer, "next", stack[Writer])
    BY <1>0, <1>a DEF WriterClear, LiveWrite, At, CountInv, Labels
  <2>2. /\ act' \in Actions /\ act'.status = act.status /\ act'.cmd = act.cmd
        /\ act'.wqueue = act.wqueue /\ act'.batch = <<>> /\ act'.totreq = act.totreq
        /\ act'.req = act.req /\ act'.cmpl = act.cmpl
    <3> DEFINE z == <<>>
    <3>1. z \in Seq(Tasks) /\ act' = [act EXCEPT !.batch = z]
      BY DEF WriterClear
    <3> HIDE DEF z
    <3>2. /\ act' \in Actions /\ act'.status = act.status /\ act'.cmd = act.cmd
          /\ act'.wqueue = act.wqueue /\ act'.batch = z /\ act'.totreq = act.totreq
          /\ act'.req = act.req /\ act'.cmpl = act.cmpl
      BY <1>0, <3>1 DEF Actions
    <3> QED BY <3>2 DEF z
  <2>3. CountInv'
    BY <1>0, <1>b, <2>1, <2>2, Fields DEF CountInv
  <2> QED BY <1>0, <2>1, <2>2, <2>3, Fields
<1>3. ASSUME act.cmd = "write", act' = TakeBatch(act), cleared' = cleared, act.batch = <<>>,
             NEW l \in {"count", "idle"}, Moved(Writer, l, stack[Writer]),
             l = "idle" => cleared = 0
      PROVE  act' \in Actions /\ act'.cmd = "write" /\ act'.status = act.status /\ CountInv'
  <2> DEFINE w == act.wqueue
             z == <<>>
             r == act.req + Len(act.wqueue)
  <2>1. w \in Seq(Tasks) /\ z \in Seq(Tasks) /\ r \in Nat
    BY <1>0, Fields
  <2>2. act' = [act EXCEPT !.batch = w, !.wqueue = z, !.req = r]
    BY <1>3 DEF TakeBatch
  <2> HIDE DEF w, z, r
  <2>3. /\ act' \in Actions /\ act'.status = act.status /\ act'.cmd = act.cmd
        /\ act'.wqueue = z /\ act'.batch = w /\ act'.totreq = act.totreq
        /\ act'.req = r /\ act'.cmpl = act.cmpl
    BY <1>0, <2>1, <2>2 DEF Actions
  <2>4. CountInv'
    BY <1>0, <1>3, <1>b, <2>3, Fields DEF CountInv, w, z, r
  <2> QED BY <1>3, <2>3, <2>4
<1>4. WriterCount =>
         /\ pc[Writer] = "count" /\ Moved(Writer, "idle", stack[Writer])
         /\ act.cmd = "write" /\ act' \in Actions /\ act'.cmd = "write" /\ act'.status = act.status
         /\ cleared' = 0 /\ CountInv'
  <2> HAVE WriterCount
  <2>1. /\ act.cmd = "write" /\ pc[Writer] = "count" /\ cleared' = 0
        /\ Moved(Writer, "idle", stack[Writer])
    BY <1>0, <1>a DEF WriterCount, LiveWrite, At, Labels
  <2> DEFINE k == act.cmpl + cleared
  <2>2. k \in Nat /\ act' = [act EXCEPT !.cmpl = k]
    BY <1>0, Fields DEF WriterCount
  <2> HIDE DEF k
  <2>3. /\ act' \in Actions /\ act'.status = act.status /\ act'.cmd = act.cmd
        /\ act'.wqueue = act.wqueue /\ act'.batch = act.batch /\ act'.totreq = act.totreq
        /\ act'.req = act.req /\ act'.cmpl = k
    BY <1>0, <2>2 DEF Actions
  <2>4. CountInv'
    BY <1>0, <1>b, <2>1, <2>3, Fields DEF CountInv, k
  <2> QED BY <2>1, <2>3, <2>4
<1>5. WriterNextBatch =>
         /\ pc[Writer] = "next" /\ Moved(Writer, "count", stack[Writer])
         /\ act.cmd = "write" /\ act' \in Actions /\ act'.cmd = "write" /\ act'.status = act.status
         /\ CountInv'
  <2> HAVE WriterNextBatch
  <2>1. /\ act.cmd = "write" /\ pc[Writer] = "next" /\ act' = TakeBatch(act) /\ cleared' = cleared
        /\ Moved(Writer, "count", stack[Writer]) /\ act.batch = <<>>
    BY <1>0, <1>a DEF WriterNextBatch, LiveWrite, At, Labels, private, CountInv
  <2> QED BY <1>3, <2>1
<1>6. WriterRequest =>
         /\ pc[Writer] = "req" /\ Moved(Writer, "idle", stack[Writer])
         /\ act.cmd = "write" /\ act' \in Actions /\ act'.cmd = "write" /\ act'.status = act.status
         /\ CountInv'
  <2> HAVE WriterRequest
  <2>1. /\ act.cmd = "write" /\ pc[Writer] = "req" /\ cleared' = cleared /\ cleared = 0
        /\ Moved(Writer, "idle", stack[Writer])
    BY <1>0, <1>a DEF WriterRequest, LiveWrite, At, Labels, private, CountInv
  <2>2. CASE act.req # act.cmpl
    <3>1. act' = act
      BY <2>2 DEF WriterRequest
    <3>2. CountInv'
      BY <1>0, <1>b, <2>1, <3>1 DEF CountInv
    <3> QED BY <1>0, <2>1, <3>1, <3>2
  <2>3. CASE act.req = act.cmpl
    <3>1. act' = TakeBatch(act)
      BY <2>3 DEF WriterRequest
    <3>2. Len(act.batch) = 0 /\ act.batch \in Seq(Tasks)
      BY <1>0, <2>1, <2>3, Fields DEF CountInv
    <3>3. act.batch = <<>>
      BY <3>2, EmptySeq
    <3> QED BY <1>3, <2>1, <3>1, <3>3
  <2> QED BY <2>2, <2>3
<1>7. WriterNextBatch \/ WriterRequest =>
         /\ jobs' \in Seq({"write", "close"})
         /\ (\E i \in 1..Len(jobs') : jobs'[i] = "close") =>
               \E i \in 1..Len(jobs) : jobs[i] = "close"
  <2>1. jobs \in Seq({"write", "close"})
    BY <1>0 DEF TypeInv
  <2>2. ASSUME jobs' = Append(jobs, "write")
        PROVE  /\ jobs' \in Seq({"write", "close"})
               /\ (\E i \in 1..Len(jobs') : jobs'[i] = "close") =>
                     \E i \in 1..Len(jobs) : jobs[i] = "close"
    BY <2>1, <2>2, AppendProperties
  <2>3. WriterNextBatch \/ WriterRequest => jobs' = jobs \/ jobs' = Append(jobs, "write")
    BY DEF WriterNextBatch, WriterRequest, StartBatch
  <2> QED BY <2>1, <2>2, <2>3
<1> USE Names, Stacks DEF WriteInv, TypeInv, PlaceInv, LifeInv, CountInv, HoldInv,
             UserPlace, SlowPlace, WriterPlace, DiskPlace, Ending, InSync, InWrite, InEfSync, InHandOf,
             FreeLabels, AllocLabels, PostLabels, HeldLabels, SyncLabels, EndLabels,
             CallLabels, Labels, Moved, locks, private, diskVars, userVars
<1>8. CASE WriterTakeEvent
  <2> USE DEF WriterTakeEvent
  <2>1. TypeInv' /\ WriterPlace'
    BY <1>8, <1>1, <1>0
  <2>2. PlaceInv'
    <3>1. PICK l : Moved(Writer, l, stack[Writer])
      BY <1>8, <1>1
    <3> QED BY <1>8, <1>1, <2>1, <3>1, PlaceKept
  <2>3. LifeInv'
    BY <1>8, <1>1, <1>0
  <2>4. CountInv' /\ HoldInv'
    BY <1>8, <1>1, <1>0
  <2> QED BY <2>1, <2>2, <2>3, <2>4
<1>9. CASE WriterClear
  <2> USE DEF WriterClear
  <2>1. TypeInv' /\ WriterPlace'
    BY <1>9, <1>2, <1>0
  <2>2. PlaceInv'
    BY <1>9, <1>2, <2>1, PlaceKept
  <2>3. LifeInv'
    BY <1>9, <1>2, <1>0
  <2>4. CountInv' /\ HoldInv'
    BY <1>9, <1>2, <1>0
  <2> QED BY <2>1, <2>2, <2>3, <2>4
<1>10. CASE WriterNextBatch
  <2> USE DEF WriterNextBatch
  <2>1. TypeInv' /\ WriterPlace'
    BY <1>10, <1>5, <1>7, <1>0
  <2>2. PlaceInv'
    BY <1>10, <1>5, <1>7, <2>1, PlaceKept
  <2>3. LifeInv'
    BY <1>10, <1>5, <1>7, <1>0
  <2>4. CountInv' /\ HoldInv'
    BY <1>10, <1>5, <1>7, <1>0
  <2> QED BY <2>1, <2>2, <2>3, <2>4
<1>11. CASE WriterCount
  <2> USE DEF WriterCount
  <2>1. TypeInv' /\ WriterPlace'
    BY <1>11, <1>4, <1>0
  <2>2. PlaceInv'
    BY <1>11, <1>4, <2>1, PlaceKept
  <2>3. LifeInv'
    BY <1>11, <1>4, <1>0
  <2>4. CountInv' /\ HoldInv'
    BY <1>11, <1>4, <1>0
  <2> QED BY <2>1, <2>2, <2>3, <2>4
<1>12. CASE WriterRequest
  <2> USE DEF WriterRequest
  <2>1. TypeInv' /\ WriterPlace'
    BY <1>12, <1>6, <1>7, <1>0
  <2>2. PlaceInv'
    BY <1>12, <1>6, <1>7, <2>1, PlaceKept
  <2>3. LifeInv'
    BY <1>12, <1>6, <1>7, <1>0
  <2>4. CountInv' /\ HoldInv'
    BY <1>12, <1>6, <1>7, <1>0
  <2> QED BY <2>1, <2>2, <2>3, <2>4
<1> QED BY <1>8, <1>9, <1>10, <1>11, <1>12

(* A step that changes none of the variables of the invariant keeps it.    *)
LEMMA StutterStep ==
    ASSUME WriteInv,
           UNCHANGED <<file, act, ws, events, jobs, pc, stack, cur, cleared, sent, left, fault>>
    PROVE  WriteInv'
<1> USE Names, Stacks DEF WriteInv, TypeInv, PlaceInv, LifeInv, CountInv, HoldInv,
             UserPlace, SlowPlace, WriterPlace, DiskPlace, Ending, InSync, InWrite, InEfSync, InHandOf,
             FreeLabels, AllocLabels, PostLabels, HeldLabels, SyncLabels, EndLabels,
             CallLabels, Labels, Moved, locks, private, diskVars, userVars
<1>2. TypeInv' /\ PlaceInv'
  OBVIOUS
<1>3. LifeInv' /\ CountInv' /\ HoldInv'
  OBVIOUS
<1> QED BY <1>2, <1>3

(* The steps of the disk pool on a batch.                                  *)
LEMMA DiskStep ==
    ASSUME NEW d \in Disk, WriteInv,
           \/ DiskTakeJob(d) \/ DiskStart(d) \/ DiskWrite(d) \/ DiskFsync(d)
           \/ DiskDone(d)
    PROVE  WriteInv'
<1>0. /\ TypeInv /\ act \in Actions /\ d \in Procs /\ d # User /\ d # Slow /\ d # Writer
      /\ pc[d] \in {"idle", "start", "io"} => stack[d] = <<>>
      /\ (\E i \in 1..Len(jobs) : jobs[i] = "close") => pc[User] = "done"
      /\ CountInv
  BY Names DEF WriteInv, TypeInv, PlaceInv, DiskPlace, FreeLabels
<1>1. DiskTakeJob(d) =>
         /\ pc[d] = "idle" /\ stack[d] = <<>>
         /\ jobs' \in Seq({"write", "close"})
         /\ (\E i \in 1..Len(jobs') : jobs'[i] = "close") =>
               \E i \in 1..Len(jobs) : jobs[i] = "close"
         /\ \/ Moved(d, "start", <<>>)
            \/ Moved(d, "file_close", <<>>) /\ pc[User] = "done"
  <2> HAVE DiskTakeJob(d)
  <2>1. jobs \in Seq({"write", "close"}) /\ jobs # <<>> /\ jobs' = Tail(jobs)
    BY <1>0 DEF DiskTakeJob, TypeInv
  <2>2. /\ jobs' \in Seq({"write", "close"}) /\ Len(jobs') = Len(jobs) - 1
        /\ Len(jobs) \in Nat \ {0} /\ Head(jobs) = jobs[1] /\ jobs[1] \in {"write", "close"}
        /\ \A i \in 1..Len(jobs') : jobs'[i] = jobs[i + 1]
    BY <2>1, HeadTailProperties
  <2>3. (\E i \in 1..Len(jobs') : jobs'[i] = "close") =>
           \E i \in 1..Len(jobs) : jobs[i] = "close"
    BY <2>2
  <2>4. Head(jobs) # "write" => pc[User] = "done"
    BY <1>0, <2>2
  <2> QED BY <1>0, <2>2, <2>3, <2>4, Moves DEF DiskTakeJob, At, Labels
<1>2. DiskStart(d) =>
         /\ pc[d] = "start" /\ Moved(d, "io", stack[d]) /\ act.cmd = "write"
         /\ act' \in Actions /\ act'.cmd = "write" /\ act'.status = "progress" /\ CountInv'
  <2> HAVE DiskStart(d)
  <2>1. /\ act' \in Actions /\ act'.cmd = act.cmd /\ act'.status = "progress"
        /\ act'.wqueue = act.wqueue /\ act'.batch = act.batch /\ act'.totreq = act.totreq
        /\ act'.req = act.req /\ act'.cmpl = act.cmpl
    BY <1>0, SetStatus DEF DiskStart
  <2>2. pc[d] = "start" /\ Moved(d, "io", stack[d]) /\ cleared' = cleared /\ act.cmd = "write"
    BY <1>0, Moves DEF DiskStart, At, Labels, private, LiveWrite
  <2>3. CountInv'
    BY <1>0, <2>1, <2>2, Names DEF CountInv, InHandOf, Moved
  <2> QED BY <2>1, <2>2, <2>3
<1>3. DiskDone(d) =>
         /\ pc[d] = "io" /\ Moved(d, "idle", stack[d]) /\ act.cmd = "write"
         /\ events' \in Seq({"req", "cmpl"})
  BY <1>0, Moves DEF DiskDone, At, Labels, LiveWrite, TypeInv
<1>6. CASE DiskWrite(d) \/ DiskFsync(d)
  <2>1. UNCHANGED <<file, act, ws, events, jobs, pc, stack, cur, cleared, sent, left, fault>>
    BY <1>6 DEF DiskWrite, DiskFsync, locks, private, userVars
  <2> QED BY <2>1, StutterStep
<1> USE Names, Stacks DEF WriteInv, TypeInv, PlaceInv, LifeInv, CountInv, HoldInv,
             UserPlace, SlowPlace, WriterPlace, DiskPlace, Ending, InSync, InWrite, InEfSync, InHandOf,
             FreeLabels, AllocLabels, PostLabels, HeldLabels, SyncLabels, EndLabels,
             CallLabels, Labels, Moved, locks, private, diskVars, userVars
<1>4. CASE DiskTakeJob(d)
  <2> USE DEF DiskTakeJob
  <2>1. TypeInv' /\ DiskPlace(d)'
    BY <1>4, <1>1, <1>0
  <2>2. PlaceInv'
    BY <1>4, <1>1, <1>0, <2>1, PlaceKept
  <2>3. LifeInv'
    BY <1>4, <1>1, <1>0
  <2>4. CountInv' /\ HoldInv'
    BY <1>4, <1>1, <1>0
  <2> QED BY <2>1, <2>2, <2>3, <2>4
<1>5. CASE DiskStart(d)
  <2> USE DEF DiskStart
  <2>1. TypeInv' /\ DiskPlace(d)'
    BY <1>5, <1>2, <1>0
  <2>2. PlaceInv'
    BY <1>5, <1>2, <1>0, <2>1, PlaceKept
  <2>3. LifeInv'
    BY <1>5, <1>2, <1>0
  <2>4. CountInv' /\ HoldInv'
    BY <1>5, <1>2, <1>0
  <2> QED BY <2>1, <2>2, <2>3, <2>4
<1>8. CASE DiskDone(d)
  <2> USE DEF DiskDone
  <2>1. TypeInv' /\ DiskPlace(d)'
    BY <1>8, <1>3, <1>0
  <2>2. PlaceInv'
    BY <1>8, <1>3, <1>0, <2>1, PlaceKept
  <2>3. LifeInv'
    BY <1>8, <1>3, <1>0
  <2>4. CountInv' /\ HoldInv'
    BY <1>8, <1>3, <1>0
  <2> QED BY <2>1, <2>2, <2>3, <2>4
<1> QED BY <1>4, <1>5, <1>6, <1>8

(* A thread that goes wrong leaves the rest as it was.                     *)
LEMMA FaultStep ==
    ASSUME NEW p \in Procs, WriteInv, UseFreedAction(p)
    PROVE  WriteInv'
<1>1. fault' # "impossible"
  BY EfAssumption DEF UseFreedAction, Procs, User, Slow, Writer
<1> USE Names, Stacks DEF WriteInv, TypeInv, PlaceInv, LifeInv, CountInv, HoldInv,
             UserPlace, SlowPlace, WriterPlace, DiskPlace, Ending, InSync, InWrite, InEfSync, InHandOf,
             FreeLabels, AllocLabels, PostLabels, HeldLabels, SyncLabels, EndLabels,
             CallLabels, Labels, Moved, locks, private, diskVars, userVars
<1>2. /\ UNCHANGED <<file, act, ws, events, jobs, pc, stack, cur, cleared, sent, left>>
  BY DEF UseFreedAction
<1>3. TypeInv' /\ PlaceInv'
  BY <1>2
<1>4. LifeInv' /\ CountInv'
  BY <1>2
<1>5. HoldInv'
  BY <1>1, <1>2
<1> QED BY <1>3, <1>4, <1>5

-----------------------------------------------------------------------------
(* The write path keeps its inductive invariant.                           *)
LEMMA NextStep ==
    ASSUME WriteInv, [Next]_vars
    PROVE  WriteInv'
<1>1. CASE user
  <2>1. CASE OpenStatus \/ ef_write
    <3>1. ASSUME NEW n \in 1..MaxBytes, WriteCall(n) PROVE WriteInv'
      BY <3>1, WriteStep
    <3>2. CASE OpenStatus \/ WriteHold \/ WriteCheckAction \/ WriteAllocAction \/ WriteCopy \/ WriteReturn
      <4>1. 0 \in Int
        OBVIOUS
      <4> QED BY <3>2, <4>1, WriteStep
    <3> QED BY <2>1, <3>1, <3>2 DEF ef_write
  <2>2. CASE ef_sync
    BY <2>2, EfSyncStep DEF ef_sync
  <2>3. CASE ef_close
    BY <2>3, EfCloseStep DEF ef_close
  <2>4. CASE action_mutation(User)
    BY <2>4, MutationStep DEF action_mutation
  <2>5. CASE write_request(User)
    BY <2>5, RequestStep DEF write_request
  <2>6. CASE sync_file_writes(User)
    BY <2>6, SyncStep DEF sync_file_writes
  <2>7. CASE file_close(User)
    BY <2>7, FileCloseStep DEF file_close
  <2> QED BY <1>1, <2>1, <2>2, <2>3, <2>4, <2>5, <2>6, <2>7 DEF user
<1>2. CASE slow_sync
  <2>1. CASE SlowRound
    BY <2>1, SlowStep
  <2>2. CASE sync_file_writes(Slow)
    BY <2>2, SyncStep DEF sync_file_writes
  <2>3. CASE write_request(Slow)
    BY <2>3, RequestStep DEF write_request
  <2> QED BY <1>2, <2>1, <2>2, <2>3 DEF slow_sync
<1>3. CASE file_writer
  BY <1>3, WriterStep DEF file_writer
<1>4. ASSUME NEW d \in Disk, disk_pool(d) PROVE WriteInv'
  <2>1. CASE DiskTakeJob(d) \/ DiskStart(d) \/ DiskWrite(d) \/ DiskFsync(d) \/ DiskDone(d)
    BY <2>1, DiskStep
  <2>2. CASE file_close(d)
    BY <2>2, FileCloseStep DEF file_close
  <2>3. CASE action_mutation(d)
    BY <2>3, MutationStep DEF action_mutation
  <2> QED BY <1>4, <2>1, <2>2, <2>3 DEF disk_pool
<1>5. CASE \E p \in Procs : UseFreedAction(p)
  BY <1>5, FaultStep
<1>6. CASE UNCHANGED vars
  BY <1>6, StutterStep DEF vars, locks, private, diskVars, userVars
<1> QED BY <1>1, <1>2, <1>3, <1>4, <1>5, <1>6 DEF Next, Over

(* The inductive invariant: whatever the user, slow_sync, file_writer and  *)
(* the disk threads do in any order, each stands where ef_file.c lets it,  *)
(* the action is used within its life, its counters add up and             *)
(* _write_suspended has the holder it says.                                *)
THEOREM Invariant == Spec => []WriteInv
<1>1. Init => WriteInv
  BY InitOK
<1>2. WriteInv /\ [Next]_vars => WriteInv'
  BY NextStep
<1> QED BY <1>1, <1>2, PTL DEF Spec

(* The threads between the two steps of a request, counted.                *)
LEMMA EnqueuingCount == Cardinality(Enqueuing) = InHandOf(User) + InHandOf(Slow)
<1>1. CASE pc[User] = "enqueue" /\ pc[Slow] = "enqueue"
  <2>1. Enqueuing = {User} \cup {Slow} /\ Slow \notin {User}
    BY <1>1, Names DEF Enqueuing
  <2>2. Cardinality({User} \cup {Slow}) = 2
    <3>1. IsFiniteSet({User}) /\ Cardinality({User}) = 1
      BY FS_Singleton
    <3> QED BY <2>1, <3>1, FS_AddElement
  <2> QED BY <1>1, <2>1, <2>2 DEF InHandOf
<1>2. CASE pc[User] = "enqueue" /\ pc[Slow] # "enqueue"
  <2>1. Enqueuing = {User}
    BY <1>2, Names DEF Enqueuing
  <2> QED BY <1>2, <2>1, FS_Singleton DEF InHandOf
<1>3. CASE pc[User] # "enqueue" /\ pc[Slow] = "enqueue"
  <2>1. Enqueuing = {Slow}
    BY <1>3, Names DEF Enqueuing
  <2> QED BY <1>3, <2>1, FS_Singleton DEF InHandOf
<1>4. CASE pc[User] # "enqueue" /\ pc[Slow] # "enqueue"
  <2>1. Enqueuing = {}
    BY <1>4 DEF Enqueuing
  <2> QED BY <1>4, <2>1, FS_EmptySet DEF InHandOf
<1> QED BY <1>1, <1>2, <1>3, <1>4

(* The three counters of the write action agree with the requests there    *)
(* are, whatever the user, slow_sync, file_writer and the disk pool are in *)
(* the middle of.                                                          *)
THEOREM Counters == Spec => []CountersAgree
<1>1. WriteInv => CountersAgree
  <2> SUFFICES ASSUME WriteInv, LiveWrite
               PROVE  /\ act.req = act.cmpl + cleared + Len(act.batch)
                      /\ act.totreq = act.req + Len(act.wqueue) + Cardinality(Enqueuing)
    BY DEF CountersAgree
  <2>1. /\ act.req = act.cmpl + cleared + Len(act.batch)
        /\ act.totreq = act.req + Len(act.wqueue) + InHandOf(User) + InHandOf(Slow)
    BY DEF WriteInv, CountInv, LiveWrite
  <2>2. act.req \in Nat /\ Len(act.wqueue) \in Nat
    BY Fields DEF WriteInv, TypeInv
  <2> QED BY <2>1, <2>2, EnqueuingCount DEF InHandOf
<1> QED BY <1>1, Invariant, PTL

(* A write whose counters are equal is finished: when ef_close reads       *)
(* totreq = cmpl, nothing is queued, out or about to be queued.            *)
NothingLeft ==
    LiveWrite /\ act.totreq = act.cmpl =>
        act.batch = <<>> /\ act.wqueue = <<>> /\ Enqueuing = {}

(* Nothing is queued, out or about to be queued under equal counters.      *)
LEMMA NoneLeft == WriteInv => NothingLeft
<1> SUFFICES ASSUME WriteInv, LiveWrite, act.totreq = act.cmpl
             PROVE  act.batch = <<>> /\ act.wqueue = <<>> /\ Enqueuing = {}
  BY DEF NothingLeft
<1>1. /\ act.req = act.cmpl + cleared + Len(act.batch)
      /\ act.totreq = act.req + Len(act.wqueue) + InHandOf(User) + InHandOf(Slow)
  BY DEF WriteInv, CountInv, LiveWrite
<1>2. /\ act.req \in Nat /\ act.cmpl \in Nat /\ cleared \in Nat
      /\ act.wqueue \in Seq(Tasks) /\ act.batch \in Seq(Tasks)
      /\ Len(act.wqueue) \in Nat /\ Len(act.batch) \in Nat
  BY Fields DEF WriteInv, TypeInv
<1>3. InHandOf(User) \in Nat /\ InHandOf(Slow) \in Nat
  BY DEF InHandOf
<1>4. /\ Len(act.batch) = 0 /\ Len(act.wqueue) = 0
      /\ InHandOf(User) = 0 /\ InHandOf(Slow) = 0
  <2> DEFINE t == act.cmpl
             q == act.req
             b == Len(act.batch)
             w == Len(act.wqueue)
             u == InHandOf(User)
             v == InHandOf(Slow)
  <2>1. t \in Nat /\ q \in Nat /\ cleared \in Nat /\ b \in Nat /\ w \in Nat
    BY <1>2
  <2>2. u \in Nat /\ v \in Nat
    BY <1>3
  <2>3. q = t + cleared + b /\ t = q + w + u + v
    BY <1>1
  <2> HIDE DEF t, q, b, w, u, v
  <2>4. b = 0 /\ w = 0 /\ u = 0 /\ v = 0
    BY <2>1, <2>2, <2>3
  <2> QED BY <2>4 DEF b, w, u, v
<1>5. pc[User] # "enqueue" /\ pc[Slow] # "enqueue"
  BY <1>4 DEF InHandOf
<1>6. act.batch = <<>> /\ act.wqueue = <<>>
  BY <1>2, <1>4, EmptySeq
<1> QED BY <1>5, <1>6 DEF Enqueuing

(* ef_close may go on when it reads equal counters: the test on which      *)
(* it closes the file loses no request (ef_close, file_writer).            *)
THEOREM EqualMeansDone == Spec => []NothingLeft
BY NoneLeft, Invariant, PTL

(* _write_suspended is what the releasing call set it to: the abort        *)
(* "This is an impossible condition" of ef_write and ef_sync is never met. *)
THEOREM ImpossibleCondition == Spec => [](fault # "impossible")
<1>1. WriteInv => fault # "impossible"
  BY DEF WriteInv, HoldInv
<1> QED BY <1>1, Invariant, PTL

-----------------------------------------------------------------------------
(* The bytes in the file and in the page buffer.                           *)
Base == page.index * PageSize
Taken == Base + Len(page.data)

PageInv ==
    /\ page \in [index : Nat, data : Seq(Int), dirty : BOOLEAN]
    /\ disk \in Seq(Int) /\ disk = Span(0, Len(disk)) /\ Base <= Len(disk)
    /\ page.data = Span(Base, Taken)
    /\ file = "open" => /\ Len(disk) <= Taken
                        /\ Len(page.data) < PageSize
                        /\ ~page.dirty => Len(disk) = Taken

(* At most one batch is out, and its traces are in one place: waiting for  *)
(* the pool, with one disk thread, or reported to file_writer.             *)
Waiting  == jobs # <<>>
Working  == \E d \in Disk : pc[d] \in {"start", "io"}
Reported == \E i \in 1..Len(events) : events[i] = "cmpl"
Clearing == pc[Writer] = "cmpl"

BatchInv ==
    /\ todo \in [Disk -> Seq(Tasks)]
    /\ act.cmd = "write" =>
          /\ jobs \in {<<>>, <<"write">>}
          /\ \A c, d \in Disk : pc[c] \in {"start", "io"} /\ pc[d] \in {"start", "io"} => c = d
          /\ \A i, j \in 1..Len(events) : events[i] = "cmpl" /\ events[j] = "cmpl" => i = j
          /\ Waiting => ~Working
          /\ Waiting \/ Working => ~Reported
          /\ Waiting \/ Working \/ Reported => ~Clearing
          /\ Waiting \/ Working \/ Reported \/ Clearing => pc[Writer] # "next"
          /\ act.batch # <<>> <=> Waiting \/ Working \/ Reported \/ Clearing
    /\ act.cmd # "write" => act.accum = <<>> /\ act.wqueue = <<>> /\ act.batch = <<>>

(* What is accepted and not in the file is in the requests and in the      *)
(* accumulation buffer.                                                    *)
OrderInv ==
    /\ sent \in Nat /\ Len(act.accum) <= PageSize /\ Len(act.accum) <= sent
    /\ act.cmd = "write" => /\ InOrder(Pending, Taken, Requested)
                            /\ act.accum = Span(Requested, sent)

(* Before the first write and after the last there is nothing on its way.  *)
FreshInv ==
    ~Ending /\ act.cmd # "write" =>
        /\ sent = 0 /\ page.index = 0 /\ page.data = <<>> /\ ~page.dirty /\ disk = <<>>
        /\ jobs = <<>> /\ ~Working

EndInv ==
    Ending => /\ disk = Span(0, sent) /\ ~page.dirty
              /\ file = "open" => Taken = sent

(* The user in ef_close: past the flush, past the fsync, past the wait.    *)
PastCompare == \/ pc[User] = "close_set"
               \/ pc[User] = "close_test" /\ act.status = "complete"
               \/ stack[User] = <<"close_alloc">>
PastFsync == \/ pc[User] \in {"sync_resume", "sync_unpam", "sync_out", "close_compare",
                              "close_set", "close_test"}
             \/ stack[User] = <<"close_alloc">>
             \/ pc[User] \in {"enqueue", "post"} /\ stack[User] = <<"sync_resume", "close_compare">>
PastFlush == \/ PastFsync
             \/ pc[User] \in {"sync_fsync", "sync_fsync_use"}
             \/ stack[User] = <<"sync_resume", "close_compare">>
             \/ pc[User] \in {"enqueue", "post"} /\ stack[User] = <<"sync_fsync", "close_compare">>

CloseInv ==
    act.cmd = "write" =>
    /\ PastFlush => act.accum = <<>> /\ pc[Slow] # "flush"
    /\ PastFsync => IF Pending = <<>> THEN ~page.dirty
                    ELSE Pending[Len(Pending)].cmd = "fsync"
    /\ PastCompare => /\ \A k \in 1..Len(Pending) : Pending[k].cmd = "fsync"
                      /\ ~page.dirty /\ Taken = sent

(* ef_close asks for the flush first and for the fsync behind it.          *)
FlushInv ==
    /\ pc[User] = "fsync" => stack[User] = <<"sync_resume", "close_compare">>
    /\ pc[User] = "flush" => stack[User] # <<"sync_resume", "close_compare">>

BytesInv == PageInv /\ BatchInv /\ OrderInv /\ FreshInv /\ EndInv /\ CloseInv /\ FlushInv

-----------------------------------------------------------------------------
(* What a span of bytes is.                                                *)
LEMMA SpanIs ==
    ASSUME NEW a \in Nat, NEW b \in Nat, a <= b
    PROVE  /\ Span(a, b) \in Seq(Int) /\ Len(Span(a, b)) = b - a
           /\ \A i \in 1..(b - a) : Span(a, b)[i] = a + i
<1>1. b - a \in Nat
  OBVIOUS
<1> QED BY <1>1 DEF Span

(* Two sequences with the same elements are the same.                      *)
LEMMA SameSeq ==
    ASSUME NEW S, NEW s \in Seq(S), NEW t \in Seq(S), Len(s) = Len(t),
           \A i \in 1..Len(s) : s[i] = t[i]
    PROVE  s = t
OBVIOUS

(* A sequence that counts on from a is a span.                             *)
LEMMA IsSpan ==
    ASSUME NEW s \in Seq(Int), NEW a \in Nat, NEW b \in Nat, a <= b, Len(s) = b - a,
           \A i \in 1..Len(s) : s[i] = a + i
    PROVE  s = Span(a, b)
<1>1. Span(a, b) \in Seq(Int) /\ Len(Span(a, b)) = b - a /\ \A i \in 1..(b - a) : Span(a, b)[i] = a + i
  BY SpanIs
<1> QED BY <1>1, SameSeq

(* Spans that meet make one span.                                          *)
LEMMA SpanConcat ==
    ASSUME NEW a \in Nat, NEW b \in Nat, NEW c \in Nat, a <= b, b <= c
    PROVE  Span(a, b) \o Span(b, c) = Span(a, c)
<1> DEFINE s == Span(a, b)
           t == Span(b, c)
<1>1. s \in Seq(Int) /\ Len(s) = b - a /\ \A i \in 1..(b - a) : s[i] = a + i
  BY SpanIs
<1>2. t \in Seq(Int) /\ Len(t) = c - b /\ \A i \in 1..(c - b) : t[i] = b + i
  BY SpanIs
<1> HIDE DEF s, t
<1>3. s \o t \in Seq(Int) /\ Len(s \o t) = c - a
  <2>1. s \o t \in Seq(Int) /\ Len(s \o t) = Len(s) + Len(t)
    BY <1>1, <1>2, ConcatProperties
  <2> QED BY <1>1, <1>2, <2>1
<1>4. \A i \in 1..(c - a) : (s \o t)[i] = a + i
  <2> SUFFICES ASSUME NEW i \in 1..(c - a) PROVE (s \o t)[i] = a + i
    OBVIOUS
  <2>1. CASE i <= b - a
    BY <1>1, <1>2, <2>1
  <2>2. CASE i > b - a
    <3>1. (s \o t)[i] = t[i - (b - a)]
      BY <1>1, <1>2, <2>2
    <3> QED BY <1>2, <2>2, <3>1
  <2>3. i <= b - a \/ i > b - a
    OBVIOUS
  <2> QED BY <2>1, <2>2, <2>3
<1> DEFINE u == s \o t
<1>5. u \in Seq(Int) /\ Len(u) = c - a /\ \A i \in 1..Len(u) : u[i] = a + i
  BY <1>3, <1>4
<1> HIDE DEF u
<1>6. u = Span(a, c)
  BY <1>5, IsSpan
<1> QED BY <1>6 DEF s, t, u

(* A part of a span.                                                       *)
Part(s, m, n) == SubSeq(s, m, n)

LEMMA SpanPart ==
    \A a, b, i, j \in Nat :
        a <= b /\ i <= j /\ j <= b - a => Part(Span(a, b), i + 1, j) = Span(a + i, a + j)
<1> SUFFICES ASSUME NEW a \in Nat, NEW b \in Nat, NEW i \in Nat, NEW j \in Nat,
                    a <= b, i <= j, j <= b - a
             PROVE  Part(Span(a, b), i + 1, j) = Span(a + i, a + j)
  OBVIOUS
<1> DEFINE s == Span(a, b)
           t == SubSeq(s, i + 1, j)
<1>1. s \in Seq(Int) /\ Len(s) = b - a /\ \A k \in 1..(b - a) : s[k] = a + k
  BY SpanIs
<1> HIDE DEF s
<1>2. t \in Seq(Int) /\ Len(t) = j - i /\ \A k \in 1..(j - i) : t[k] = s[i + k]
  BY <1>1, SubSeqProperties
<1> HIDE DEF t
<1>3. \A k \in 1..(j - i) : t[k] = (a + i) + k
  BY <1>1, <1>2
<1>4. a + i \in Nat /\ a + j \in Nat /\ a + i <= a + j /\ Len(t) = (a + j) - (a + i)
  BY <1>2
<1>5. t = Span(a + i, a + j)
  BY <1>2, <1>3, <1>4, IsSpan
<1> QED BY <1>5 DEF s, t, Part

(* An empty span.                                                          *)
LEMMA SpanEmpty ==
    ASSUME NEW a \in Nat, NEW b \in Nat, a <= b
    PROVE  Span(a, b) = <<>> <=> a = b
<1>1. Span(a, b) \in Seq(Int) /\ Len(Span(a, b)) = b - a
  BY SpanIs
<1> QED BY <1>1, EmptySeq

(* Whole pages in n bytes.                                                 *)
LEMMA Pages ==
    ASSUME NEW n \in Nat, NEW s \in Nat \ {0}
    PROVE  /\ n \div s \in Nat /\ (n \div s) * s \in Nat
           /\ (n \div s) * s <= n /\ n - (n \div s) * s < s
           /\ (n \div s = 0) <=> n < s
BY Z3

(* The numbers of bytes are numbers.                                       *)
LEMMA TakenType ==
    ASSUME PageInv
    PROVE  Base \in Nat /\ Len(page.data) \in Nat /\ Taken \in Nat /\ Len(disk) \in Nat
<1>1. page.index \in Nat /\ Len(page.data) \in Nat /\ Len(disk) \in Nat /\ PageSize \in Nat
  BY EfAssumption DEF PageInv
<1>2. \A i, j \in Nat : i * j \in Nat
  OBVIOUS
<1> QED BY <1>1, <1>2 DEF Base, Taken

-----------------------------------------------------------------------------
(* Where the cuts between the tasks are.                                   *)
Cuts(tasks, a, b, cut) ==
    /\ cut \in [0..Len(tasks) -> a..b]
    /\ cut[0] = a /\ cut[Len(tasks)] = b
    /\ \A j, k \in 0..Len(tasks) : j <= k => cut[j] <= cut[k]
    /\ \A k \in 1..Len(tasks) : /\ tasks[k].data = Span(cut[k - 1], cut[k])
                                /\ tasks[k].cmd = "fsync" => tasks[k].data = <<>>

LEMMA OrderCuts ==
    ASSUME NEW tasks \in Seq(Tasks), NEW a \in Nat, NEW b \in Nat
    PROVE  InOrder(tasks, a, b) <=> \E cut : Cuts(tasks, a, b, cut)
BY DEF InOrder, Cuts

(* No tasks hold no bytes.                                                 *)
LEMMA OrderNone ==
    ASSUME NEW a \in Nat, NEW b \in Nat
    PROVE  InOrder(<<>>, a, b) <=> a = b
<1>0. <<>> \in Seq(Tasks)
  OBVIOUS
<1>1. ASSUME InOrder(<<>>, a, b) PROVE a = b
  <2>1. PICK cut : Cuts(<<>>, a, b, cut)
    BY <1>0, <1>1, OrderCuts
  <2> QED BY <2>1 DEF Cuts
<1>2. ASSUME a = b PROVE InOrder(<<>>, a, b)
  <2> DEFINE cut == [k \in 0..0 |-> a]
  <2>1. Cuts(<<>>, a, b, cut)
    BY <1>2 DEF Cuts
  <2> QED BY <1>0, <2>1, OrderCuts
<1> QED BY <1>1, <1>2

(* The order of the ends.                                                  *)
LEMMA OrderEnds ==
    ASSUME NEW tasks \in Seq(Tasks), NEW a \in Nat, NEW b \in Nat, InOrder(tasks, a, b)
    PROVE  a <= b
<1>1. PICK cut : Cuts(tasks, a, b, cut)
  BY OrderCuts
<1>2. Len(tasks) \in Nat
  OBVIOUS
<1> QED BY <1>1, <1>2 DEF Cuts

(* One more task takes the bytes that follow.                              *)
LEMMA OrderAppend ==
    ASSUME NEW tasks \in Seq(Tasks), NEW a \in Nat, NEW b \in Nat, NEW c \in Nat, b <= c,
           InOrder(tasks, a, b), NEW t \in Tasks, t.data = Span(b, c),
           t.cmd = "fsync" => t.data = <<>>
    PROVE  InOrder(Append(tasks, t), a, c)
<1> DEFINE n == Len(tasks)
           new == Append(tasks, t)
<1>1. PICK cut : Cuts(tasks, a, b, cut)
  BY OrderCuts
<1>2. n \in Nat /\ new \in Seq(Tasks) /\ Len(new) = n + 1 /\ new[n + 1] = t /\ \A k \in 1..n : new[k] = tasks[k]
  BY AppendProperties
<1> DEFINE more == [k \in 0..(n + 1) |-> IF k = n + 1 THEN c ELSE cut[k]]
<1>3. \A k \in 0..n : cut[k] \in a..b /\ cut[k] \in Nat
  BY <1>1 DEF Cuts
<1>4. cut[0] = a /\ cut[n] = b /\ a <= b
  BY <1>1, OrderEnds DEF Cuts
<1>5. \A k \in 0..n : more[k] = cut[k]
  BY <1>2
<1>6. more[n + 1] = c
  BY <1>2
<1>7. more \in [0..(n + 1) -> a..c]
  BY <1>2, <1>3
<1> HIDE DEF more, new
<1>8. \A j, k \in 0..(n + 1) : j <= k => more[j] <= more[k]
  <2> SUFFICES ASSUME NEW j \in 0..(n + 1), NEW k \in 0..(n + 1), j <= k PROVE more[j] <= more[k]
    OBVIOUS
  <2>1. CASE k <= n
    <3>1. j \in 0..n /\ k \in 0..n
      BY <1>2, <2>1
    <3> QED BY <1>1, <1>5, <3>1 DEF Cuts
  <2>2. CASE k = n + 1
    <3>1. more[j] \in a..c
      BY <1>7
    <3> QED BY <1>6, <2>2, <3>1
  <2> QED BY <1>2, <2>1, <2>2
<1>9. \A k \in 1..(n + 1) : /\ new[k].data = Span(more[k - 1], more[k])
                            /\ new[k].cmd = "fsync" => new[k].data = <<>>
  <2> SUFFICES ASSUME NEW k \in 1..(n + 1)
               PROVE  /\ new[k].data = Span(more[k - 1], more[k])
                      /\ new[k].cmd = "fsync" => new[k].data = <<>>
    OBVIOUS
  <2>1. CASE k <= n
    <3>1. k \in 1..n /\ k - 1 \in 0..n /\ k \in 0..n
      BY <1>2, <2>1
    <3> QED BY <1>1, <1>2, <1>5, <3>1 DEF Cuts
  <2>2. CASE k = n + 1
    <3>1. k - 1 = n /\ n \in 0..n
      BY <1>2, <2>2
    <3> QED BY <1>2, <1>4, <1>5, <1>6, <2>2, <3>1
  <2> QED BY <1>2, <2>1, <2>2
<1>10. more[0] = a
  BY <1>2, <1>4, <1>5
<1>11. Cuts(new, a, c, more)
  BY <1>2, <1>6, <1>7, <1>8, <1>9, <1>10 DEF Cuts
<1> QED BY <1>2, <1>11, OrderCuts DEF new

(* The first task holds the first bytes, the others the rest.              *)
LEMMA OrderTail ==
    ASSUME NEW tasks \in Seq(Tasks), tasks # <<>>, NEW a \in Nat, NEW b \in Nat, InOrder(tasks, a, b)
    PROVE  \E c \in a..b : /\ Head(tasks).data = Span(a, c)
                           /\ Head(tasks).cmd = "fsync" => Head(tasks).data = <<>>
                           /\ InOrder(Tail(tasks), c, b)
<1> DEFINE n == Len(tasks) - 1
           new == Tail(tasks)
<1>1. PICK cut : Cuts(tasks, a, b, cut)
  BY OrderCuts
<1>2. n \in Nat /\ Len(tasks) = n + 1 /\ new \in Seq(Tasks) /\ Len(new) = n /\ Head(tasks) = tasks[1]
  BY EmptySeq, HeadTailProperties
<1>2a. \A k \in 1..n : new[k] = tasks[k + 1]
  BY <1>2, HeadTailProperties
<1> HIDE DEF new, n
<1> DEFINE c == cut[1]
<1>3. \A k \in 0..(n + 1) : cut[k] \in a..b
  BY <1>1, <1>2 DEF Cuts
<1>4. 1 \in 0..(n + 1) /\ c \in a..b /\ c \in Nat
  BY <1>2, <1>3
<1>5. /\ tasks[1].data = Span(a, c)
      /\ tasks[1].cmd = "fsync" => tasks[1].data = <<>>
  <2>1. 1 \in 1..Len(tasks)
    BY <1>2
  <2>2. /\ tasks[1].data = Span(cut[1 - 1], cut[1]) /\ cut[0] = a
        /\ tasks[1].cmd = "fsync" => tasks[1].data = <<>>
    BY <1>1, <2>1 DEF Cuts
  <2> QED BY <2>2
<1> DEFINE less == [k \in 0..n |-> cut[k + 1]]
<1>6. \A k \in 0..n : less[k] = cut[k + 1] /\ k + 1 \in 0..(n + 1)
  BY <1>2
<1>7. \A k \in 0..n : less[k] \in c..b
  <2> SUFFICES ASSUME NEW k \in 0..n PROVE cut[k + 1] \in c..b
    BY <1>6
  <2>1. cut[1] <= cut[k + 1]
    BY <1>1, <1>2, <1>4, <1>6 DEF Cuts
  <2> QED BY <1>3, <1>4, <1>6, <2>1
<1>8. less \in [0..n -> c..b]
  BY <1>7
<1> HIDE DEF less, c
<1>9. \A j, k \in 0..n : j <= k => less[j] <= less[k]
  <2> SUFFICES ASSUME NEW j \in 0..n, NEW k \in 0..n, j <= k PROVE less[j] <= less[k]
    OBVIOUS
  <2>1. j + 1 \in 0..Len(tasks) /\ k + 1 \in 0..Len(tasks) /\ j + 1 <= k + 1
    BY <1>2
  <2>2. cut[j + 1] <= cut[k + 1]
    BY <1>1, <2>1 DEF Cuts
  <2> QED BY <1>6, <2>2
<1>10. \A k \in 1..n : /\ new[k].data = Span(less[k - 1], less[k])
                       /\ new[k].cmd = "fsync" => new[k].data = <<>>
  <2> SUFFICES ASSUME NEW k \in 1..n
               PROVE  /\ new[k].data = Span(less[k - 1], less[k])
                      /\ new[k].cmd = "fsync" => new[k].data = <<>>
    OBVIOUS
  <2>1. k + 1 \in 1..Len(tasks) /\ (k + 1) - 1 = k /\ k - 1 \in 0..n /\ k \in 0..n /\ (k - 1) + 1 = k
    BY <1>2
  <2>2. /\ tasks[k + 1].data = Span(cut[k], cut[k + 1])
        /\ tasks[k + 1].cmd = "fsync" => tasks[k + 1].data = <<>>
    BY <1>1, <2>1 DEF Cuts
  <2>3. less[k - 1] = cut[k] /\ less[k] = cut[k + 1] /\ new[k] = tasks[k + 1]
    BY <1>2a, <1>6, <2>1
  <2> QED BY <2>2, <2>3
<1>11. less[0] = c /\ less[n] = b
  <2>1. cut[n + 1] = b
    BY <1>1, <1>2 DEF Cuts
  <2> QED BY <1>2, <1>6, <2>1 DEF c
<1>12. Cuts(new, c, b, less)
  BY <1>2, <1>8, <1>9, <1>10, <1>11 DEF Cuts
<1>13. InOrder(new, c, b)
  BY <1>2, <1>4, <1>12, OrderCuts
<1> QED BY <1>2, <1>4, <1>5, <1>13 DEF new

-----------------------------------------------------------------------------
(* The queue in three parts: what is out, what is queued, what is in hand. *)
LEMMA QueueType ==
    ASSUME NEW o \in Seq(Tasks), NEW w \in Seq(Tasks), NEW h \in Seq(Tasks)
    PROVE  /\ o \o w \o h \in Seq(Tasks)
           /\ Len(o \o w \o h) = Len(o) + Len(w) + Len(h)
           /\ o \o w \in Seq(Tasks) /\ Len(o \o w) = Len(o) + Len(w)
BY ConcatProperties

(* The last part may be empty, the middle part may be empty.               *)
LEMMA QueueEmpty ==
    ASSUME NEW o \in Seq(Tasks), NEW w \in Seq(Tasks), NEW h \in Seq(Tasks)
    PROVE  /\ o \o <<>> = o /\ <<>> \o o = o
           /\ <<>> \o w \o h = w \o <<>> \o h
           /\ o = <<>> /\ w = <<>> /\ h = <<>> => o \o w \o h = <<>>
BY ConcatEmptySeq

(* A request goes from the hand into the queue.                            *)
LEMMA QueueEnqueue ==
    ASSUME NEW o \in Seq(Tasks), NEW w \in Seq(Tasks), NEW t \in Tasks
    PROVE  /\ o \o Append(w, t) \o <<>> = o \o w \o <<t>>
           /\ o \o w \o <<t>> = Append(o \o w \o <<>>, t)
<1>1. <<t>> \in Seq(Tasks) /\ Append(w, t) \in Seq(Tasks) /\ o \o w \in Seq(Tasks)
  BY ConcatProperties, AppendProperties
<1>2. Append(w, t) = w \o <<t>>
  BY AppendIsConcat
<1>3. o \o Append(w, t) \in Seq(Tasks)
  BY <1>1, ConcatProperties
<1>4. o \o Append(w, t) \o <<>> = o \o Append(w, t)
  BY <1>3, ConcatEmptySeq
<1>5. o \o (w \o <<t>>) = (o \o w) \o <<t>>
  BY <1>1, ConcatAssociative
<1>6. (o \o w) \o <<>> = o \o w
  BY <1>1, ConcatEmptySeq
<1>7. Append(o \o w, t) = (o \o w) \o <<t>>
  BY <1>1, AppendIsConcat
<1> QED BY <1>2, <1>4, <1>5, <1>6, <1>7

(* A request of the batch is done.                                         *)
Rest(s) == Tail(s)

LEMMA QueueDone ==
    ASSUME NEW o \in Seq(Tasks), NEW w \in Seq(Tasks), NEW h \in Seq(Tasks), o # <<>>
    PROVE  /\ o \o w \o h # <<>> /\ Head(o \o w \o h) = Head(o)
           /\ Rest(o \o w \o h) = Rest(o) \o w \o h
<1>1. w \o h \in Seq(Tasks) /\ Len(o) \in Nat /\ Len(o) # 0 /\ Tail(o) \in Seq(Tasks)
  BY ConcatProperties, EmptySeq, HeadTailProperties
<1>2. o \o w \o h = o \o (w \o h) /\ Tail(o) \o w \o h = Tail(o) \o (w \o h)
  <2>1. o \o w \o h = o \o (w \o h)
    BY ConcatAssociative
  <2> DEFINE u == Tail(o)
  <2>2. u \in Seq(Tasks)
    BY <1>1
  <2> HIDE DEF u
  <2>3. u \o w \o h = u \o (w \o h)
    BY <2>2, ConcatAssociative
  <2> QED BY <2>1, <2>3 DEF u
<1> DEFINE r == w \o h
           q == o \o r
           x == Tail(q)
           y == Tail(o) \o r
<1>3. r \in Seq(Tasks)
  BY <1>1
<1> HIDE DEF r
<1>4. /\ q \in Seq(Tasks) /\ Len(q) = Len(o) + Len(r)
      /\ \A i \in 1..Len(q) : q[i] = IF i <= Len(o) THEN o[i] ELSE r[i - Len(o)]
  BY <1>3, ConcatProperties
<1>5. q # <<>> /\ q[1] = o[1] /\ Head(o) = o[1]
  BY <1>1, <1>3, <1>4, EmptySeq
<1>6. Head(q) = q[1] /\ x \in Seq(Tasks) /\ Len(x) = Len(q) - 1
      /\ \A i \in 1..Len(x) : x[i] = q[i + 1]
  BY <1>4, <1>5, HeadTailProperties
<1>7. Len(Tail(o)) = Len(o) - 1 /\ \A i \in 1..Len(Tail(o)) : Tail(o)[i] = o[i + 1]
  BY HeadTailProperties
<1>8. /\ y \in Seq(Tasks) /\ Len(y) = Len(Tail(o)) + Len(r)
      /\ \A i \in 1..Len(y) : y[i] = IF i <= Len(Tail(o)) THEN Tail(o)[i] ELSE r[i - Len(Tail(o))]
  BY <1>1, <1>3, ConcatProperties
<1> DEFINE m == Len(o)
           n == Len(r)
<1>9. m \in Nat /\ m # 0 /\ n \in Nat
  BY <1>1, <1>3
<1>10. Len(x) = m + n - 1 /\ Len(y) = m + n - 1
  BY <1>4, <1>6, <1>7, <1>8, <1>9
<1>11. \A i \in 1..(m + n - 1) : x[i] = y[i]
  <2> SUFFICES ASSUME NEW i \in 1..(m + n - 1) PROVE x[i] = y[i]
    OBVIOUS
  <2>1. i \in 1..Len(x) /\ i \in 1..Len(y) /\ i + 1 \in 1..Len(q)
    BY <1>4, <1>9, <1>10
  <2>2. x[i] = q[i + 1] /\ q[i + 1] = IF i + 1 <= m THEN o[i + 1] ELSE r[(i + 1) - m]
    BY <1>4, <1>6, <2>1
  <2>3. y[i] = IF i <= m - 1 THEN Tail(o)[i] ELSE r[i - (m - 1)]
    BY <1>7, <1>8, <2>1
  <2>4. (i + 1) - m = i - (m - 1) /\ (i + 1 <= m <=> i <= m - 1)
    BY <1>9
  <2>5. i <= m - 1 => Tail(o)[i] = o[i + 1]
    BY <1>7, <1>9
  <2> QED BY <2>2, <2>3, <2>4, <2>5
<1> HIDE DEF q, x, y, m, n
<1>12. x = y
  BY <1>6, <1>8, <1>10, <1>11, SameSeq
<1> QED BY <1>1, <1>2, <1>5, <1>6, <1>12 DEF q, x, y, r, Rest

-----------------------------------------------------------------------------
(* The part of the batch that is not done.                                 *)
OutIs ==
    act.cmd = "write" =>
        /\ Outstanding \in Seq(Tasks)
        /\ \A d \in Disk : pc[d] = "io" => Outstanding = todo[d]
        /\ \A d \in Disk : pc[d] = "start" => Outstanding = act.batch
        /\ Waiting => Outstanding = act.batch
        /\ ~Waiting /\ ~Working => Outstanding = <<>>

LEMMA OutFacts == TypeInv /\ BatchInv => OutIs
<1> SUFFICES ASSUME TypeInv, BatchInv, act.cmd = "write"
             PROVE  /\ Outstanding \in Seq(Tasks)
                    /\ \A d \in Disk : pc[d] = "io" => Outstanding = todo[d]
                    /\ \A d \in Disk : pc[d] = "start" => Outstanding = act.batch
                    /\ Waiting => Outstanding = act.batch
                    /\ ~Waiting /\ ~Working => Outstanding = <<>>
  BY DEF OutIs
<1>1. act.batch \in Seq(Tasks) /\ todo \in [Disk -> Seq(Tasks)] /\ <<>> \in Seq(Tasks)
  BY Fields DEF TypeInv, BatchInv
<1>2. Working <=> Busy # {}
  BY DEF Working, Busy
<1>3. Waiting <=> "write" \in ToSet(jobs)
  BY DEF BatchInv, Waiting, ToSet
<1>4. CASE \E d \in Disk : pc[d] = "io"
  <2> DEFINE e == CHOOSE d \in Disk : pc[d] = "io"
  <2>1. e \in Disk /\ pc[e] = "io" /\ Outstanding = todo[e]
    BY <1>4 DEF Outstanding
  <2> HIDE DEF e
  <2>2. \A d \in Disk : pc[d] \in {"start", "io"} => d = e
    BY <2>1 DEF BatchInv
  <2>3. Working /\ ~Waiting
    BY <2>1 DEF BatchInv, Working
  <2> QED BY <1>1, <2>1, <2>2, <2>3
<1>5. CASE ~(\E d \in Disk : pc[d] = "io") /\ (Busy # {} \/ "write" \in ToSet(jobs))
  <2>1. Outstanding = act.batch
    BY <1>5 DEF Outstanding
  <2> QED BY <1>1, <1>2, <1>3, <1>5, <2>1
<1>6. CASE ~(\E d \in Disk : pc[d] = "io") /\ ~(Busy # {} \/ "write" \in ToSet(jobs))
  <2>1. Outstanding = <<>>
    BY <1>6 DEF Outstanding
  <2>2. ~Waiting /\ \A d \in Disk : pc[d] \notin {"start", "io"}
    BY <1>6, <1>3 DEF Busy
  <2> QED BY <1>1, <1>6, <2>1, <2>2
<1> QED BY <1>4, <1>5, <1>6

(* The user and slow_sync do not have a request in hand at the same time:  *)
(* each holds _write_suspended.                                            *)
HandIs ==
    /\ Hand \in Seq(Tasks)
    /\ pc[User] = "enqueue" => pc[Slow] \notin PostLabels /\ Hand = <<cur[User]>>
    /\ pc[Slow] = "enqueue" => pc[User] \notin PostLabels /\ Hand = <<cur[Slow]>>
    /\ pc[User] # "enqueue" /\ pc[Slow] # "enqueue" => Hand = <<>>
    /\ pc[User] \in PostLabels => pc[Slow] \notin PostLabels

LEMMA HandFacts == WriteInv => HandIs
<1> SUFFICES ASSUME WriteInv PROVE HandIs
  OBVIOUS
<1>1. PlaceInv /\ HoldInv /\ cur[User] \in Tasks /\ cur[Slow] \in Tasks
  BY DEF WriteInv, TypeInv
<1>2. pc[User] \in PostLabels => (ws = 1 /\ InSync(User)) \/ ws = -1 \/ ws = -2
  <2> SUFFICES ASSUME pc[User] \in PostLabels PROVE (ws = 1 /\ InSync(User)) \/ ws = -1 \/ ws = -2
    OBVIOUS
  <2>1. stack[User] \in PostStacks(User)
    BY <1>1, CallStack
  <2>2. CASE stack[User] \in {<<"write_copy">>, <<"efsync_release">>}
    BY <1>1, <2>2 DEF HoldInv, InWrite, InEfSync
  <2>3. CASE stack[User] \in {<<"sync_fsync", "close_compare">>, <<"sync_resume", "close_compare">>}
    <3>1. Head(stack[User]) \in {"sync_fsync", "sync_resume"}
      BY <2>3, Stacks
    <3>2. InSync(User)
      BY <3>1 DEF InSync
    <3> QED BY <1>1, <3>2 DEF HoldInv
  <2> QED BY <2>1, <2>2, <2>3 DEF PostStacks
<1>3. pc[Slow] \in PostLabels => ws = 1 /\ InSync(Slow)
  <2> SUFFICES ASSUME pc[Slow] \in PostLabels PROVE ws = 1 /\ InSync(Slow)
    OBVIOUS
  <2>1. stack[Slow] \in PostStacks(Slow)
    BY <1>1, CallStack
  <2>2. Head(stack[Slow]) \in {"sync_fsync", "sync_resume"}
    BY <2>1, Stacks, Names DEF PostStacks
  <2>3. InSync(Slow)
    BY <2>2 DEF InSync
  <2> QED BY <1>1, <2>3 DEF HoldInv
<1>4. ~(pc[User] \in PostLabels /\ pc[Slow] \in PostLabels)
  BY <1>1, <1>2, <1>3 DEF HoldInv
<1>5. "enqueue" \in PostLabels
  BY DEF PostLabels
<1>6. CASE pc[User] = "enqueue"
  <2>1. Enqueuing = {User} /\ (CHOOSE p \in {User} : TRUE) = User
    BY <1>4, <1>5, <1>6 DEF Enqueuing
  <2> QED BY <1>1, <1>4, <1>5, <1>6, <2>1 DEF Hand, HandIs
<1>7. CASE pc[Slow] = "enqueue"
  <2>1. Enqueuing = {Slow} /\ (CHOOSE p \in {Slow} : TRUE) = Slow
    BY <1>4, <1>5, <1>7 DEF Enqueuing
  <2> QED BY <1>1, <1>4, <1>5, <1>7, <2>1 DEF Hand, HandIs
<1>8. CASE pc[User] # "enqueue" /\ pc[Slow] # "enqueue"
  <2>1. Enqueuing = {}
    BY <1>8 DEF Enqueuing
  <2>2. Hand = <<>>
    BY <2>1 DEF Hand
  <2> QED BY <1>4, <1>8, <2>2 DEF HandIs
<1> QED BY <1>6, <1>7, <1>8

(* The same in the state after a step.                                     *)
LEMMA FactsAfter ==
    /\ (TypeInv /\ BatchInv)' => OutIs'
    /\ WriteInv' => HandIs'
BY OutFacts, HandFacts, PTL

-----------------------------------------------------------------------------
(* The step leaves the batch, the disk threads and file_writer as they     *)
(* are, but for an event that announces a request.                         *)
SameBatch ==
    /\ act'.cmd = act.cmd /\ act'.batch = act.batch
    /\ act'.cmd # "write" => act'.accum = <<>> /\ act'.wqueue = <<>>
    /\ jobs' = jobs /\ todo' = todo
    /\ events' = events \/ events' = Append(events, "req")
    /\ pc'[Writer] = pc[Writer] /\ \A d \in Disk : pc'[d] = pc[d]

LEMMA BatchKept ==
    ASSUME TypeInv, TypeInv', BatchInv, SameBatch
    PROVE  /\ BatchInv' /\ (Working' <=> Working)
           /\ act.cmd = "write" => Outstanding' = Outstanding
<1>2. Working' <=> Working
  BY DEF SameBatch, Working
<1>3. (Waiting' <=> Waiting) /\ (Clearing' <=> Clearing)
  BY DEF SameBatch, Waiting, Clearing
<1>4. /\ Reported' <=> Reported
      /\ (\A i, j \in 1..Len(events) : events[i] = "cmpl" /\ events[j] = "cmpl" => i = j)
            => \A i, j \in 1..Len(events') : events'[i] = "cmpl" /\ events'[j] = "cmpl" => i = j
  <2>1. CASE events' = events
    BY <2>1 DEF Reported
  <2>2. CASE events' = Append(events, "req")
    <3>1. /\ Len(events) \in Nat /\ Len(events') = Len(events) + 1
          /\ events'[Len(events) + 1] = "req" /\ \A i \in 1..Len(events) : events'[i] = events[i]
      BY <2>2 DEF TypeInv
    <3>2. \A i \in 1..Len(events') : i \in 1..Len(events) \/ i = Len(events) + 1
      BY <3>1
    <3>3. \A i \in 1..Len(events') : events'[i] = "cmpl" => i \in 1..Len(events) /\ events[i] = "cmpl"
      BY <3>1, <3>2
    <3>4. \A i \in 1..Len(events) : i \in 1..Len(events')
      BY <3>1
    <3> QED BY <3>1, <3>3, <3>4 DEF Reported
  <2> QED BY <2>1, <2>2 DEF SameBatch
<1>5. BatchInv'
  <2>1. /\ todo' \in [Disk -> Seq(Tasks)]
        /\ act'.cmd # "write" => act'.accum = <<>> /\ act'.wqueue = <<>> /\ act'.batch = <<>>
    BY DEF SameBatch, BatchInv
  <2>2. ASSUME act'.cmd = "write"
        PROVE  /\ jobs' \in {<<>>, <<"write">>}
               /\ \A c, d \in Disk : pc'[c] \in {"start", "io"} /\ pc'[d] \in {"start", "io"} => c = d
               /\ \A i, j \in 1..Len(events') : events'[i] = "cmpl" /\ events'[j] = "cmpl" => i = j
    BY <1>4, <2>2 DEF SameBatch, BatchInv
  <2>3. ASSUME act'.cmd = "write"
        PROVE  /\ Waiting' => ~Working'
               /\ Waiting' \/ Working' => ~Reported'
               /\ Waiting' \/ Working' \/ Reported' => ~Clearing'
               /\ Waiting' \/ Working' \/ Reported' \/ Clearing' => pc'[Writer] # "next"
               /\ act'.batch # <<>> <=> Waiting' \/ Working' \/ Reported' \/ Clearing'
    BY <1>2, <1>3, <1>4, <2>3 DEF SameBatch, BatchInv
  <2> QED BY <2>1, <2>2, <2>3 DEF BatchInv
<1>6. ASSUME act.cmd = "write" PROVE Outstanding' = Outstanding
  <2>1. OutIs /\ OutIs'
    BY <1>5, OutFacts, FactsAfter
  <2>2. CASE Waiting
    BY <1>3, <1>6, <2>1, <2>2 DEF OutIs, SameBatch
  <2>3. CASE \E d \in Disk : pc[d] \in {"start", "io"}
    BY <1>6, <2>1, <2>3 DEF OutIs, SameBatch
  <2>4. CASE ~Waiting /\ ~Working
    BY <1>2, <1>3, <1>6, <2>1, <2>4 DEF OutIs, SameBatch
  <2> QED BY <2>2, <2>3, <2>4 DEF Working
<1> QED BY <1>2, <1>5, <1>6

(* The step leaves the requests and the bytes as they are, too.            *)
SameWork ==
    /\ act'.cmd = act.cmd /\ act'.accum = act.accum /\ act'.wqueue = act.wqueue /\ act'.batch = act.batch
    /\ file' = file /\ jobs' = jobs /\ page' = page /\ disk' = disk /\ todo' = todo
    /\ cur' = cur /\ sent' = sent
    /\ events' = events \/ events' = Append(events, "req")
    /\ pc'[Writer] = pc[Writer] /\ \A d \in Disk : pc'[d] = pc[d]
    /\ pc'[User] = "enqueue" <=> pc[User] = "enqueue"
    /\ pc'[Slow] = "enqueue" <=> pc[Slow] = "enqueue"

LEMMA Kept ==
    ASSUME WriteInv, WriteInv', BytesInv, SameWork
    PROVE  /\ PageInv' /\ BatchInv' /\ OrderInv' /\ Taken' = Taken /\ (Working' <=> Working)
           /\ act.cmd = "write" => Pending' = Pending
<1>0. TypeInv /\ TypeInv' /\ PageInv /\ BatchInv /\ OrderInv
  BY DEF WriteInv, BytesInv
<1>1. PageInv' /\ Base' = Base /\ Taken' = Taken
  BY <1>0 DEF PageInv, Base, Taken, SameWork
<1>2. SameBatch
  BY <1>0 DEF SameWork, SameBatch, BatchInv
<1>3. /\ BatchInv' /\ (Working' <=> Working)
      /\ act.cmd = "write" => Outstanding' = Outstanding
  BY <1>0, <1>2, BatchKept
<1>4. Hand' = Hand
  BY HandFacts, FactsAfter DEF HandIs, SameWork
<1>5. act.cmd = "write" => Pending' = Pending
  BY <1>3, <1>4 DEF Pending, SameWork
<1>6. OrderInv'
  <2>1. Requested' = Requested /\ sent' = sent /\ act'.accum = act.accum /\ act'.cmd = act.cmd
    BY DEF Requested, SameWork
  <2> QED BY <1>0, <1>1, <1>5, <2>1 DEF OrderInv
<1> QED BY <1>1, <1>3, <1>5, <1>6

(* A step that leaves what is pending as it is and brings ef_close no      *)
(* further.                                                                *)
LEMMA SamePending ==
    ASSUME BytesInv, Ending' <=> Ending,
           PageInv' /\ BatchInv' /\ OrderInv' /\ Taken' = Taken /\ (Working' => Working),
           act.cmd = "write" => Pending' = Pending,
           act'.cmd = act.cmd, act'.accum = act.accum, file' = file, page' = page, disk' = disk,
           jobs' = jobs \/ act.cmd = "write", sent' = sent,
           act.cmd = "write" /\ PastFlush' => act.accum = <<>> /\ pc'[Slow] # "flush",
           act.cmd = "write" /\ PastFsync' => PastFsync,
           act.cmd = "write" /\ PastCompare' => PastCompare,
           FlushInv'
    PROVE  BytesInv'
<1>2. FreshInv'
  BY DEF BytesInv, FreshInv
<1>3. EndInv'
  BY DEF BytesInv, EndInv
<1>4. CloseInv'
  <2> SUFFICES ASSUME act'.cmd = "write"
               PROVE  /\ PastFlush' => act'.accum = <<>> /\ pc'[Slow] # "flush"
                      /\ PastFsync' => IF Pending' = <<>> THEN ~page'.dirty
                                       ELSE Pending'[Len(Pending')].cmd = "fsync"
                      /\ PastCompare' => /\ \A k \in 1..Len(Pending') : Pending'[k].cmd = "fsync"
                                         /\ ~page'.dirty /\ Taken' = sent'
    BY DEF CloseInv
  <2>2. PastFlush' => act'.accum = <<>> /\ pc'[Slow] # "flush"
    OBVIOUS
  <2>3. PastFsync' => IF Pending' = <<>> THEN ~page'.dirty
                      ELSE Pending'[Len(Pending')].cmd = "fsync"
    BY DEF BytesInv, CloseInv
  <2>4. PastCompare' => /\ \A k \in 1..Len(Pending') : Pending'[k].cmd = "fsync"
                        /\ ~page'.dirty /\ Taken' = sent'
    BY DEF BytesInv, CloseInv
  <2> QED BY <2>2, <2>3, <2>4
<1> QED BY <1>2, <1>3, <1>4 DEF BytesInv

(* A step that does no work and brings ef_close no further.                *)
LEMMA Quiet ==
    ASSUME WriteInv, WriteInv', BytesInv, SameWork, Ending' <=> Ending,
           act.cmd = "write" /\ PastFlush' => act.accum = <<>> /\ pc'[Slow] # "flush",
           act.cmd = "write" /\ PastFsync' => PastFsync,
           act.cmd = "write" /\ PastCompare' => PastCompare,
           FlushInv'
    PROVE  BytesInv'
<1>1. /\ PageInv' /\ BatchInv' /\ OrderInv' /\ Taken' = Taken /\ (Working' => Working)
      /\ act.cmd = "write" => Pending' = Pending
  BY Kept
<1>2. /\ act'.cmd = act.cmd /\ act'.accum = act.accum /\ file' = file /\ page' = page /\ disk' = disk
      /\ jobs' = jobs /\ sent' = sent
  BY DEF SameWork
<1> QED BY <1>1, <1>2, SamePending

(* Once ef_close has got rid of the write action, the bytes are safe as    *)
(* long as nobody touches the file.                                        *)
LEMMA Ended ==
    ASSUME WriteInv, WriteInv', BytesInv, Ending, Ending', disk' = disk, sent' = sent, todo' = todo,
           page'.dirty = page.dirty, PageInv', file' = "open" => file = "open" /\ page' = page,
           act'.accum = <<>> /\ act'.wqueue = <<>> /\ act'.batch = <<>>
    PROVE  BytesInv'
<1>1. act'.cmd # "write" /\ act.cmd # "write"
  BY DEF WriteInv, LifeInv
<1>2. BatchInv'
  BY <1>1 DEF BytesInv, BatchInv
<1>3. OrderInv'
  <2>1. Len(act'.accum) = 0
    OBVIOUS
  <2> QED BY <1>1, <2>1, EfAssumption DEF BytesInv, OrderInv
<1>4. FreshInv' /\ CloseInv'
  BY <1>1 DEF FreshInv, CloseInv
<1>5. FlushInv'
  BY Stacks DEF WriteInv, PlaceInv, UserPlace, FlushInv, Ending, CallLabels, EndLabels, SyncLabels,
                HeldLabels, PostLabels, FreeLabels, AllocLabels
<1>6. EndInv'
  <2>1. file' = "open" => Taken' = Taken
    BY DEF Taken, Base
  <2> QED BY <2>1 DEF BytesInv, EndInv
<1> QED BY <1>2, <1>3, <1>4, <1>5, <1>6 DEF BytesInv

-----------------------------------------------------------------------------
(* Nothing written, nothing on its way.                                    *)
LEMMA InitBytes == Init => BytesInv
<1> SUFFICES ASSUME Init PROVE BytesInv
  OBVIOUS
<1>0. act.cmd = "open" /\ act.accum = <<>> /\ act.wqueue = <<>> /\ act.batch = <<>>
  BY DEF Init, NoAction
<1>1. /\ page = [index |-> 0, data |-> <<>>, dirty |-> FALSE] /\ disk = <<>> /\ sent = 0
      /\ jobs = <<>> /\ Base = 0 /\ Taken = 0
  BY EfAssumption DEF Init, Base, Taken
<1>2. Span(0, 0) = <<>>
  BY SpanEmpty
<1>3. PageInv
  BY <1>1, <1>2, EfAssumption DEF PageInv
<1>4. BatchInv
  BY <1>0 DEF Init, BatchInv
<1>5. OrderInv
  BY <1>0, <1>1, EfAssumption DEF OrderInv
<1>6. ~Ending /\ ~Working
  BY Names, Stacks DEF Init, Ending, EndLabels, Working
<1>7. FlushInv
  BY Names DEF Init, FlushInv
<1> QED BY <1>0, <1>1, <1>3, <1>4, <1>5, <1>6, <1>7 DEF BytesInv, FreshInv, EndInv, CloseInv

(* slow_sync moves: nobody else does, and ef_close gets no further.        *)
LEMMA SlowQuiet ==
    ASSUME WriteInv, WriteInv', BytesInv, NEW l, NEW s, Moved(Slow, l, s), l # "enqueue", pc[Slow] # "enqueue",
           act'.cmd = act.cmd /\ act'.accum = act.accum /\ act'.wqueue = act.wqueue /\ act'.batch = act.batch,
           act'.status = act.status \/ act'.status = "initiated",
           file' = file, UNCHANGED diskVars, cur' = cur, sent' = sent,
           events' = events \/ events' = Append(events, "req"),
           act.cmd = "write" /\ l = "flush" => act.accum # <<>>
    PROVE  BytesInv'
<1>1. /\ pc'[User] = pc[User] /\ stack'[User] = stack[User] /\ pc'[Slow] = l
      /\ pc'[Writer] = pc[Writer] /\ \A d \in Disk : pc'[d] = pc[d]
  BY Names DEF Moved
<1>2. SameWork
  BY <1>1 DEF SameWork, diskVars
<1>3. (Ending' <=> Ending) /\ (PastFlush' <=> PastFlush) /\ (PastFsync' <=> PastFsync)
      /\ (PastCompare' => PastCompare)
  BY <1>1 DEF Ending, PastFlush, PastFsync, PastCompare
<1>4. act.cmd = "write" /\ PastFlush' => act.accum = <<>> /\ pc'[Slow] # "flush"
  BY <1>1, <1>3 DEF BytesInv, CloseInv
<1>5. FlushInv'
  BY <1>1 DEF BytesInv, FlushInv
<1> QED BY <1>2, <1>3, <1>4, <1>5, Quiet

(* The user moves; where that brings ef_close is for the caller to say.    *)
LEMMA UserQuiet ==
    ASSUME WriteInv, WriteInv', BytesInv, NEW l, NEW s, Moved(User, l, s), l # "enqueue", pc[User] # "enqueue",
           act'.cmd = act.cmd /\ act'.accum = act.accum /\ act'.wqueue = act.wqueue /\ act'.batch = act.batch,
           file' = file, UNCHANGED diskVars, cur' = cur, sent' = sent,
           events' = events \/ events' = Append(events, "req"),
           Ending' <=> Ending,
           act.cmd = "write" /\ PastFlush' => PastFlush \/ (act.accum = <<>> /\ pc[Slow] # "flush"),
           act.cmd = "write" /\ PastFsync' => PastFsync,
           act.cmd = "write" /\ PastCompare' => PastCompare,
           FlushInv'
    PROVE  BytesInv'
<1>1. /\ pc'[Slow] = pc[Slow] /\ pc'[User] = l
      /\ pc'[Writer] = pc[Writer] /\ \A d \in Disk : pc'[d] = pc[d]
  BY Names DEF Moved
<1>2. SameWork
  BY <1>1 DEF SameWork, diskVars
<1>3. act.cmd = "write" /\ PastFlush' => act.accum = <<>> /\ pc'[Slow] # "flush"
  BY <1>1 DEF BytesInv, CloseInv
<1> QED BY <1>2, <1>3, Quiet

(* sync_file_writes of slow_sync.                                          *)
LEMMA SlowSyncBytes ==
    ASSUME WriteInv, WriteInv', BytesInv, sync_file_writes(Slow)
    PROVE  BytesInv'
<1>0. TypeInv /\ PlaceInv /\ Slow \in Procs /\ (pc[Slow] \in SyncLabels => stack[Slow] = <<"idle">>)
  BY Names, CallStack DEF WriteInv, SyncStack
<1>1. /\ act' = act /\ file' = file /\ UNCHANGED diskVars /\ cur' = cur /\ sent' = sent /\ events' = events
      /\ pc[Slow] \in SyncLabels
  BY DEF sync_file_writes, SyncLockFile, SyncCheckFile, SyncLockMutation, SyncSuspendWrites,
         SyncTestAction, SyncAwaitAction, SyncFlush, SyncFsync, SyncResumeWrites,
         SyncUnlockMutation, SyncUnlockFile, locks, private, userVars, At, SyncLabels, HeldLabels
<1>2. \E l, s : Moved(Slow, l, s) /\ l # "enqueue" /\ (l = "flush" => act.accum # <<>>)
  <2>1. CASE SyncFlush(Slow)
    <3>1. \/ act.accum # <<>> /\ Moved(Slow, "flush", <<"sync_fsync">> \o stack[Slow])
          \/ Moved(Slow, "sync_fsync", stack[Slow])
      BY <1>0, <2>1, Moves DEF SyncFlush, Labels
    <3> QED BY <3>1
  <2>2. CASE SyncFsync(Slow)
    <3>1. \/ Moved(Slow, "fsync", <<"sync_resume">> \o stack[Slow])
          \/ Moved(Slow, "sync_resume", stack[Slow])
      BY <1>0, <2>2, Moves DEF SyncFsync, Labels
    <3> QED BY <3>1
  <2>3. CASE SyncUnlockFile(Slow)
    <3>1. Moved(Slow, "idle", <<>>)
      BY <1>0, <1>1, <2>3, Returns DEF SyncUnlockFile, Labels
    <3> QED BY <3>1
  <2>4. CASE SyncCheckFile(Slow)
    BY <1>0, <2>4, Moves DEF SyncCheckFile, Labels
  <2>5. CASE SyncTestAction(Slow)
    BY <1>0, <2>5, Moves DEF SyncTestAction, Labels
  <2>6. CASE \/ SyncLockFile(Slow) \/ SyncLockMutation(Slow) \/ SyncSuspendWrites(Slow)
             \/ SyncAwaitAction(Slow) \/ SyncResumeWrites(Slow) \/ SyncUnlockMutation(Slow)
    <3>1. \E l \in {"sync_file", "sync_ws", "sync_wait", "sync_flush", "sync_unpam", "sync_out"} : Jump(Slow, l)
      BY <2>6 DEF SyncLockFile, SyncLockMutation, SyncSuspendWrites, SyncAwaitAction,
                  SyncResumeWrites, SyncUnlockMutation
    <3>2. PICK l \in {"sync_file", "sync_ws", "sync_wait", "sync_flush", "sync_unpam", "sync_out"} : Jump(Slow, l)
      BY <3>1
    <3>3. l \in Labels
      BY DEF Labels
    <3> QED BY <1>0, <3>2, <3>3, Moves
  <2> QED BY <2>1, <2>2, <2>3, <2>4, <2>5, <2>6 DEF sync_file_writes
<1>3. PICK l, s : Moved(Slow, l, s) /\ l # "enqueue" /\ (l = "flush" => act.accum # <<>>)
  BY <1>2
<1>4. pc[Slow] # "enqueue"
  BY <1>1 DEF SyncLabels, HeldLabels
<1> QED BY <1>1, <1>3, <1>4, SlowQuiet

(* sync_file_writes of ef_close.                                           *)
LEMMA UserSyncBytes ==
    ASSUME WriteInv, WriteInv', BytesInv, sync_file_writes(User)
    PROVE  BytesInv'
<1>0. TypeInv /\ PlaceInv /\ User \in Procs /\ (pc[User] \in SyncLabels => stack[User] = <<"close_compare">>)
  BY Names, CallStack DEF WriteInv, SyncStack
<1>1. /\ act' = act /\ file' = file /\ UNCHANGED diskVars /\ cur' = cur /\ sent' = sent /\ events' = events
      /\ pc[User] \in SyncLabels
  BY DEF sync_file_writes, SyncLockFile, SyncCheckFile, SyncLockMutation, SyncSuspendWrites,
         SyncTestAction, SyncAwaitAction, SyncFlush, SyncFsync, SyncResumeWrites,
         SyncUnlockMutation, SyncUnlockFile, locks, private, userVars, At, SyncLabels, HeldLabels
<1>2. /\ stack[User] = <<"close_compare">> /\ pc[User] # "enqueue" /\ ~Ending
      /\ file = "open" /\ act.status = act'.status
  <2>1. ~Ending
    BY <1>0, <1>1, Stacks DEF Ending, EndLabels, SyncLabels, HeldLabels
  <2> QED BY <1>0, <1>1, <2>1 DEF WriteInv, LifeInv, SyncLabels, HeldLabels
<1>3. pc[User] \in HeldLabels => pc[Slow] # "flush"
  <2> SUFFICES ASSUME pc[User] \in HeldLabels, pc[Slow] = "flush" PROVE FALSE
    OBVIOUS
  <2>1. InSync(User)
    BY DEF InSync
  <2>2. pc[Slow] \in PostLabels /\ stack[Slow] \in PostStacks(Slow)
    BY <1>0, CallStack DEF PostLabels
  <2>3. Head(stack[Slow]) \in {"sync_fsync", "sync_resume"}
    BY <2>2, Stacks, Names DEF PostStacks
  <2>4. InSync(Slow)
    BY <2>2, <2>3 DEF InSync
  <2> QED BY <2>1, <2>4 DEF WriteInv, HoldInv
<1>4. act.cmd = "write" => act.status # "complete"
  BY <1>1, <1>2, Stacks DEF WriteInv, LifeInv, SyncLabels, HeldLabels
<1> DEFINE Next2(l, s) ==
             /\ Moved(User, l, s) /\ l # "enqueue" /\ (Ending' <=> Ending)
             /\ act.cmd = "write" /\ PastFlush' => PastFlush \/ (act.accum = <<>> /\ pc[Slow] # "flush")
             /\ act.cmd = "write" /\ PastFsync' => PastFsync
             /\ act.cmd = "write" /\ PastCompare' => PastCompare
             /\ FlushInv'
<1>5. \E l, s : Next2(l, s)
  <2> USE <1>2, Stacks DEF Ending, EndLabels, PastFlush, PastFsync, PastCompare, FlushInv
  <2>1. CASE SyncFlush(User)
    <3>0. pc[User] = "sync_flush_use" /\ pc[Slow] # "flush"
      BY <2>1, <1>3 DEF SyncFlush, At, HeldLabels
    <3>1. CASE act.cmd = "write" /\ act.accum # <<>>
      <4>1. Moved(User, "flush", <<"sync_fsync", "close_compare">>)
        <5>1. <<"sync_fsync">> \o stack[User] = <<"sync_fsync", "close_compare">>
          OBVIOUS
        <5>2. Moved(User, "flush", <<"sync_fsync">> \o stack[User])
          BY <1>0, <2>1, <3>1, Moves DEF SyncFlush, Labels
        <5> QED BY <5>1, <5>2
      <4>2. pc'[User] = "flush" /\ stack'[User] = <<"sync_fsync", "close_compare">>
        BY <4>1 DEF Moved
      <4>3. Next2("flush", <<"sync_fsync", "close_compare">>)
        BY <1>1, <3>0, <4>1, <4>2
      <4> QED BY <4>3
    <3>2. CASE ~(act.cmd = "write" /\ act.accum # <<>>)
      <4>1. Moved(User, "sync_fsync", <<"close_compare">>)
        BY <1>0, <2>1, <3>2, Moves DEF SyncFlush, Labels
      <4>2. pc'[User] = "sync_fsync" /\ stack'[User] = <<"close_compare">>
        BY <4>1 DEF Moved
      <4>3. Next2("sync_fsync", <<"close_compare">>)
        BY <1>1, <3>0, <3>2, <4>1, <4>2
      <4> QED BY <4>3
    <3> QED BY <3>1, <3>2
  <2>2. CASE SyncFsync(User)
    <3>0. pc[User] = "sync_fsync_use"
      BY <2>2 DEF SyncFsync, At
    <3>1. CASE act.cmd = "write"
      <4>1. Moved(User, "fsync", <<"sync_resume", "close_compare">>)
        <5>1. <<"sync_resume">> \o stack[User] = <<"sync_resume", "close_compare">>
          OBVIOUS
        <5>2. Moved(User, "fsync", <<"sync_resume">> \o stack[User])
          BY <1>0, <1>4, <2>2, <3>1, Moves DEF SyncFsync, Labels
        <5> QED BY <5>1, <5>2
      <4>2. pc'[User] = "fsync" /\ stack'[User] = <<"sync_resume", "close_compare">>
        BY <4>1 DEF Moved
      <4>3. Next2("fsync", <<"sync_resume", "close_compare">>)
        BY <1>1, <3>0, <4>1, <4>2
      <4> QED BY <4>3
    <3>2. CASE act.cmd # "write"
      <4>1. Moved(User, "sync_resume", <<"close_compare">>)
        BY <1>0, <2>2, <3>2, Moves DEF SyncFsync, Labels
      <4>2. pc'[User] = "sync_resume" /\ stack'[User] = <<"close_compare">>
        BY <4>1 DEF Moved
      <4>3. Next2("sync_resume", <<"close_compare">>)
        BY <1>1, <3>0, <3>2, <4>1, <4>2
      <4> QED BY <4>3
    <3> QED BY <3>1, <3>2
  <2>3. CASE SyncUnlockFile(User)
    <3>1. Moved(User, "close_compare", <<>>) /\ pc[User] = "sync_out"
      BY <1>0, <1>1, <2>3, Returns DEF SyncUnlockFile, Labels, At
    <3>2. pc'[User] = "close_compare" /\ stack'[User] = <<>>
      BY <3>1 DEF Moved
    <3>3. Next2("close_compare", <<>>)
      BY <1>1, <3>1, <3>2
    <3> QED BY <3>3
  <2>4. CASE SyncTestAction(User)
    <3>1. \E l : /\ Moved(User, l, <<"close_compare">>)
                 /\ \/ pc[User] = "sync_wait" /\ l \in {"sync_flush", "sync_wait_use"}
                    \/ pc[User] = "sync_flush" /\ l = "sync_fsync" /\ act.cmd = "none"
                    \/ pc[User] = "sync_flush" /\ l = "sync_flush_use"
                    \/ pc[User] = "sync_fsync" /\ l = "sync_resume" /\ act.cmd = "none"
                    \/ pc[User] = "sync_fsync" /\ l = "sync_fsync_use"
      BY <1>0, <2>4, Moves DEF SyncTestAction, Labels, At
    <3>2. PICK l : /\ Moved(User, l, <<"close_compare">>)
                   /\ \/ pc[User] = "sync_wait" /\ l \in {"sync_flush", "sync_wait_use"}
                      \/ pc[User] = "sync_flush" /\ l = "sync_fsync" /\ act.cmd = "none"
                      \/ pc[User] = "sync_flush" /\ l = "sync_flush_use"
                      \/ pc[User] = "sync_fsync" /\ l = "sync_resume" /\ act.cmd = "none"
                      \/ pc[User] = "sync_fsync" /\ l = "sync_fsync_use"
      BY <3>1
    <3>3. pc'[User] = l /\ stack'[User] = <<"close_compare">>
      BY <3>2 DEF Moved
    <3>4. Next2(l, <<"close_compare">>)
      BY <1>1, <3>2, <3>3
    <3> QED BY <3>4
  <2>5. CASE \/ SyncLockFile(User) \/ SyncCheckFile(User) \/ SyncLockMutation(User) \/ SyncSuspendWrites(User)
             \/ SyncAwaitAction(User) \/ SyncResumeWrites(User) \/ SyncUnlockMutation(User)
    <3>1. \E l : /\ Moved(User, l, <<"close_compare">>)
                 /\ \/ pc[User] \in {"sync", "sync_file", "sync_pam", "sync_ws", "sync_wait_use"}
                       /\ l \in {"sync_file", "sync_pam", "sync_ws", "sync_wait", "sync_flush"}
                    \/ pc[User] = "sync_resume" /\ l = "sync_unpam"
                    \/ pc[User] = "sync_unpam" /\ l = "sync_out"
      BY <1>0, <2>5, Moves DEF SyncLockFile, SyncCheckFile, SyncLockMutation, SyncSuspendWrites,
         SyncAwaitAction, SyncResumeWrites, SyncUnlockMutation, Labels, At
    <3>2. PICK l : /\ Moved(User, l, <<"close_compare">>)
                   /\ \/ pc[User] \in {"sync", "sync_file", "sync_pam", "sync_ws", "sync_wait_use"}
                         /\ l \in {"sync_file", "sync_pam", "sync_ws", "sync_wait", "sync_flush"}
                      \/ pc[User] = "sync_resume" /\ l = "sync_unpam"
                      \/ pc[User] = "sync_unpam" /\ l = "sync_out"
      BY <3>1
    <3>3. pc'[User] = l /\ stack'[User] = <<"close_compare">>
      BY <3>2 DEF Moved
    <3>4. Next2(l, <<"close_compare">>)
      BY <1>1, <3>2, <3>3
    <3> QED BY <3>4
  <2> QED BY <2>1, <2>2, <2>3, <2>4, <2>5 DEF sync_file_writes
<1>6. PICK l, s : Next2(l, s)
  BY <1>5
<1> QED BY <1>1, <1>2, <1>6, UserQuiet

-----------------------------------------------------------------------------
(* The user moves outside ef_close, or into it.                            *)
LEMMA EarlyQuiet ==
    ASSUME WriteInv, WriteInv', BytesInv, stack[User] = <<>>,
           pc[User] \in {"idle", "write_ws", "write_check", "write_alloc", "write_copy",
                         "efsync_ws", "efsync_release", "efsync_done", "close_sync"},
           NEW l \in {"idle", "write_ws", "write_check", "write_alloc", "write_copy", "efsync_ws",
                      "efsync_release", "efsync_done", "close_sync", "free_lock", "alloc_lock",
                      "flush", "sync"},
           NEW s \in {<<>>, <<"idle">>, <<"write_alloc">>, <<"write_copy">>, <<"efsync_release">>,
                      <<"close_sync">>, <<"close_compare">>},
           Moved(User, l, s), act' = act, file' = file, UNCHANGED diskVars, cur' = cur, sent' = sent,
           events' = events
    PROVE  BytesInv'
<1>1. pc'[User] = l /\ stack'[User] = s
  BY DEF Moved
<1>2. ~Ending /\ ~Ending'
  <2>1. ~Ending
    BY Stacks DEF Ending, EndLabels
  <2>2. l \notin EndLabels /\ l # "unlock" /\ s \notin {<<"close">>, <<"done">>}
    BY Stacks DEF EndLabels
  <2> QED BY <1>1, <2>1, <2>2 DEF Ending
<1>3. ~PastFlush' /\ ~PastFsync' /\ ~PastCompare'
  <2>1. l \notin {"sync_resume", "sync_unpam", "sync_out", "close_compare", "close_set", "close_test",
                  "sync_fsync", "sync_fsync_use", "enqueue", "post"}
    OBVIOUS
  <2>2. s # <<"close_alloc">> /\ s # <<"sync_resume", "close_compare">>
    BY Stacks
  <2> QED BY <1>1, <2>1, <2>2 DEF PastFlush, PastFsync, PastCompare
<1>4. l # "enqueue" /\ pc[User] # "enqueue"
  OBVIOUS
<1>5. FlushInv'
  BY <1>1, Stacks DEF FlushInv
<1> QED BY <1>2, <1>3, <1>4, <1>5, UserQuiet

(* ef_write but for the copy, ef_sync, and the first steps of ef_close.    *)
LEMMA CallBytes ==
    ASSUME WriteInv, WriteInv', BytesInv, NEW n \in Int,
           \/ OpenStatus \/ WriteCall(n) \/ WriteHold \/ WriteCheckAction \/ WriteAllocAction \/ WriteReturn
           \/ SyncCall \/ SyncHold \/ SyncRelease \/ SyncReturn \/ CloseCall \/ CloseSync
    PROVE  BytesInv'
<1>0. /\ TypeInv /\ LifeInv /\ HoldInv /\ act \in Actions /\ User \in Procs
      /\ pc[User] \in CallLabels => stack[User] = <<>>
  BY Names, CallStack DEF WriteInv, TypeInv
<1>1. CASE OpenStatus
  <2>1. pc[User] = "idle" /\ stack[User] = <<>> /\ Moved(User, "free_lock", <<"idle">>)
    BY <1>0, <1>1, Moves, Calls DEF OpenStatus, At, Labels, CallLabels, EndLabels
  <2> QED BY <1>1, <2>1, EarlyQuiet DEF OpenStatus, private, userVars
<1>2. CASE WriteCall(n)
  <2>1. pc[User] = "idle" /\ stack[User] = <<>> /\ Moved(User, "write_ws", <<>>)
    BY <1>0, <1>2, Moves DEF WriteCall, At, Labels, CallLabels, EndLabels
  <2> QED BY <1>2, <2>1, EarlyQuiet DEF WriteCall
<1>3. CASE WriteHold
  <2>1. pc[User] = "write_ws" /\ stack[User] = <<>> /\ Moved(User, "write_check", <<>>)
    BY <1>0, <1>3, Moves DEF WriteHold, At, Labels, CallLabels, EndLabels
  <2> QED BY <1>3, <2>1, EarlyQuiet DEF WriteHold, private, userVars
<1>4. CASE WriteCheckAction
  <2>1. /\ pc[User] = "write_check" /\ stack[User] = <<>>
        /\ Moved(User, "free_lock", <<"write_alloc">>) \/ Moved(User, "write_alloc", <<>>)
    BY <1>0, <1>4, Moves, Calls DEF WriteCheckAction, At, Labels, CallLabels, EndLabels
  <2> QED BY <1>4, <2>1, EarlyQuiet DEF WriteCheckAction, private, userVars
<1>5. CASE WriteAllocAction
  <2>1. /\ pc[User] = "write_alloc" /\ stack[User] = <<>>
        /\ Moved(User, "alloc_lock", <<"write_copy">>) \/ Moved(User, "write_copy", <<>>)
    BY <1>0, <1>5, Moves, Calls DEF WriteAllocAction, At, Labels, CallLabels, EndLabels
  <2> QED BY <1>5, <2>1, EarlyQuiet DEF WriteAllocAction, private, userVars
<1>6. CASE WriteReturn
  <2>1. pc[User] = "write_copy" /\ stack[User] = <<>>
    BY <1>0, <1>6 DEF WriteReturn, Release, At, CallLabels
  <2>2. ws = -1
    BY <1>0, <2>1 DEF HoldInv, InWrite
  <2>3. Moved(User, "idle", <<>>)
    BY <1>0, <1>6, <2>1, <2>2, Moves DEF WriteReturn, Release, Labels
  <2> QED BY <1>6, <2>1, <2>3, EarlyQuiet DEF WriteReturn, Release, userVars
<1>7. CASE SyncCall
  <2>1. /\ pc[User] = "idle" /\ stack[User] = <<>>
        /\ Moved(User, "free_lock", <<"idle">>) \/ Moved(User, "efsync_ws", <<>>)
    BY <1>0, <1>7, Moves, Calls DEF SyncCall, At, Labels, CallLabels, EndLabels
  <2> QED BY <1>7, <2>1, EarlyQuiet DEF SyncCall, private, userVars
<1>8. CASE SyncHold
  <2>1. /\ pc[User] = "efsync_ws" /\ stack[User] = <<>>
        /\ Moved(User, "flush", <<"efsync_release">>) \/ Moved(User, "efsync_release", <<>>)
    BY <1>0, <1>8, Moves, Calls DEF SyncHold, At, Labels, CallLabels, EndLabels
  <2> QED BY <1>8, <2>1, EarlyQuiet DEF SyncHold, private, userVars
<1>9. CASE SyncRelease
  <2>1. pc[User] = "efsync_release" /\ stack[User] = <<>>
    BY <1>0, <1>9 DEF SyncRelease, Release, At, CallLabels
  <2>2. ws = -2
    BY <1>0, <2>1 DEF HoldInv, InEfSync
  <2>3. Moved(User, "efsync_done", <<>>)
    BY <1>0, <1>9, <2>1, <2>2, Moves DEF SyncRelease, Release, Labels
  <2> QED BY <1>9, <2>1, <2>3, EarlyQuiet DEF SyncRelease, Release, userVars
<1>10. CASE SyncReturn
  <2>1. pc[User] = "efsync_done" /\ stack[User] = <<>> /\ Moved(User, "idle", <<>>)
    BY <1>0, <1>10, Moves DEF SyncReturn, At, Labels, CallLabels, EndLabels
  <2> QED BY <1>10, <2>1, EarlyQuiet DEF SyncReturn, private, userVars
<1>11. CASE CloseCall
  <2>1. /\ pc[User] = "idle" /\ stack[User] = <<>>
        /\ Moved(User, "free_lock", <<"close_sync">>) \/ Moved(User, "close_sync", <<>>)
    BY <1>0, <1>11, Moves, Calls DEF CloseCall, At, Labels, CallLabels, EndLabels
  <2> QED BY <1>11, <2>1, EarlyQuiet DEF CloseCall, private, userVars
<1>12. CASE CloseSync
  <2>1. pc[User] = "close_sync" /\ stack[User] = <<>> /\ Moved(User, "sync", <<"close_compare">>)
    BY <1>0, <1>12, Moves, Calls DEF CloseSync, At, Labels, CallLabels, EndLabels
  <2> QED BY <1>12, <2>1, EarlyQuiet DEF CloseSync, private, userVars
<1> QED BY <1>1, <1>2, <1>3, <1>4, <1>5, <1>6, <1>7, <1>8, <1>9, <1>10, <1>11, <1>12

(* When ef_close reads equal counters nothing is pending.                  *)
LEMMA NonePending ==
    ASSUME WriteInv, BytesInv, LiveWrite, act.totreq = act.cmpl
    PROVE  Pending = <<>>
<1>1. WriteInv => NothingLeft
  BY NoneLeft
<1>2. act.cmd = "write" /\ act.batch = <<>> /\ act.wqueue = <<>> /\ Enqueuing = {}
  BY <1>1 DEF NothingLeft, LiveWrite
<1>3. ~Waiting /\ ~Working
  BY <1>2 DEF BytesInv, BatchInv
<1>4. Outstanding = <<>>
  BY <1>2, <1>3, OutFacts DEF OutIs, WriteInv, BytesInv
<1>5. Hand = <<>>
  BY <1>2 DEF Hand
<1>6. <<>> \in Seq(Tasks)
  OBVIOUS
<1> QED BY <1>2, <1>4, <1>5, <1>6, QueueEmpty DEF Pending

(* The later steps of ef_close up to the hand-over.                        *)
LEMMA CloseBytes ==
    ASSUME WriteInv, WriteInv', BytesInv,
           CloseCompare \/ CloseSetComplete \/ CloseTest \/ CloseAlloc
    PROVE  BytesInv'
<1>0. /\ TypeInv /\ LifeInv /\ act \in Actions /\ User \in Procs
      /\ pc[User] \in CallLabels => stack[User] = <<>>
  BY Names, CallStack DEF WriteInv, TypeInv
<1> USE Stacks DEF Ending, EndLabels, PastFlush, PastFsync, PastCompare, FlushInv
<1>1. CASE CloseCompare
  <2>0. /\ pc[User] = "close_compare" /\ stack[User] = <<>> /\ act' = act /\ file' = file
        /\ UNCHANGED diskVars /\ cur' = cur /\ sent' = sent /\ events' = events
    BY <1>0, <1>1 DEF CloseCompare, At, CallLabels, private, userVars
  <2>1. CASE Moved(User, "close_test", <<>>)
    <3>1. pc'[User] = "close_test" /\ stack'[User] = <<>>
      BY <2>1 DEF Moved
    <3>2. act.cmd = "write" => act.status # "complete"
      BY <1>0, <2>0 DEF LifeInv
    <3>3. ~Ending /\ ~Ending'
      BY <2>0, <3>1
    <3> QED BY <2>0, <2>1, <3>1, <3>2, <3>3, UserQuiet
  <2>2. CASE act.cmd = "write" /\ act.totreq = act.cmpl /\ Moved(User, "close_set", <<>>)
    <3>1. pc'[User] = "close_set" /\ stack'[User] = <<>>
      BY <2>2 DEF Moved
    <3>2. ~Ending /\ ~Ending'
      BY <2>0, <3>1
    <3>3. file = "open" /\ LiveWrite
      BY <1>0, <2>2, <3>2 DEF LifeInv, LiveWrite
    <3>4. Pending = <<>>
      BY <2>2, <3>3, NonePending
    <3>5. /\ pc'[Slow] = pc[Slow] /\ pc'[Writer] = pc[Writer] /\ \A d \in Disk : pc'[d] = pc[d]
      BY <2>2, Names DEF Moved
    <3>6. SameWork
      BY <2>0, <3>1, <3>5 DEF SameWork, diskVars
    <3>7. /\ PageInv' /\ BatchInv' /\ OrderInv' /\ Taken' = Taken /\ (Working' <=> Working)
          /\ Pending' = Pending
      BY <2>2, <3>6, Kept
    <3>8. act.accum = <<>> /\ pc[Slow] # "flush" /\ ~page.dirty
      BY <2>0, <2>2, <3>4 DEF BytesInv, CloseInv
    <3>9. Taken = sent
      <4>1. InOrder(<<>>, Taken, Requested) /\ sent \in Nat
        BY <2>2, <3>4 DEF BytesInv, OrderInv
      <4>2. Requested = sent
        BY <3>8, <4>1 DEF Requested
      <4>3. Taken \in Nat
        BY TakenType DEF BytesInv
      <4> QED BY <4>1, <4>2, <4>3, OrderNone
    <3>10. CloseInv'
      BY <2>0, <3>4, <3>5, <3>7, <3>8, <3>9 DEF CloseInv, diskVars
    <3>11. FreshInv' /\ EndInv'
      BY <2>0, <2>2, <3>2 DEF FreshInv, EndInv
    <3>12. FlushInv'
      BY <3>1
    <3> QED BY <3>7, <3>10, <3>11, <3>12 DEF BytesInv
  <2> QED BY <1>0, <1>1, <2>0, <2>1, <2>2, Moves DEF CloseCompare, Labels
<1>2. CASE CloseSetComplete
  <2>0. /\ pc[User] = "close_set" /\ stack[User] = <<>> /\ act' = [act EXCEPT !.status = "complete"]
        /\ file' = file /\ UNCHANGED diskVars /\ cur' = cur /\ sent' = sent /\ events' = events
        /\ Jump(User, "close_test")
    BY <1>0, <1>2 DEF CloseSetComplete, At, CallLabels, private, userVars
  <2>1. /\ act'.cmd = act.cmd /\ act'.accum = act.accum /\ act'.wqueue = act.wqueue /\ act'.batch = act.batch
    BY <1>0, <2>0, SetStatus
  <2>2. Moved(User, "close_test", <<>>)
    BY <1>0, <2>0, Moves DEF Labels
  <2>3. pc'[User] = "close_test" /\ stack'[User] = <<>>
    BY <2>2 DEF Moved
  <2> QED BY <2>0, <2>1, <2>2, <2>3, UserQuiet
<1>3. CASE CloseTest
  <2>0. /\ pc[User] = "close_test" /\ stack[User] = <<>> /\ act' = act /\ file' = file
        /\ UNCHANGED diskVars /\ cur' = cur /\ sent' = sent /\ events' = events
    BY <1>0, <1>3 DEF CloseTest, At, CallLabels, private, userVars
  <2>1. CASE act.cmd = "none" /\ Moved(User, "alloc_lock", <<"close">>)
    <3>1. pc'[User] = "alloc_lock" /\ stack'[User] = <<"close">>
      BY <2>1 DEF Moved
    <3>2. ~Ending /\ Ending'
      BY <2>0, <3>1
    <3>3. /\ pc'[Slow] = pc[Slow] /\ pc'[Writer] = pc[Writer] /\ \A d \in Disk : pc'[d] = pc[d]
      BY <2>1, Names DEF Moved
    <3>4. SameWork
      BY <2>0, <3>1, <3>3 DEF SameWork, diskVars
    <3>5. /\ PageInv' /\ BatchInv' /\ OrderInv' /\ Taken' = Taken
      BY <3>4, Kept
    <3>6. sent = 0 /\ page.index = 0 /\ page.data = <<>> /\ ~page.dirty /\ disk = <<>>
      BY <2>1, <3>2 DEF BytesInv, FreshInv
    <3>7. Taken = 0 /\ Span(0, 0) = <<>>
      BY <3>6, EfAssumption, SpanEmpty DEF Taken, Base
    <3>8. EndInv'
      BY <2>0, <3>5, <3>6, <3>7 DEF EndInv, diskVars
    <3>9. FreshInv' /\ CloseInv'
      BY <2>0, <2>1, <3>2 DEF FreshInv, CloseInv
    <3>10. FlushInv'
      BY <3>1
    <3> QED BY <3>5, <3>8, <3>9, <3>10 DEF BytesInv
  <2>2. CASE act.status = "complete" /\ Moved(User, "free_lock", <<"close_alloc">>)
    <3>1. pc'[User] = "free_lock" /\ stack'[User] = <<"close_alloc">>
      BY <2>2 DEF Moved
    <3> QED BY <2>0, <2>2, <3>1, UserQuiet
  <2>3. CASE act.status # "complete" /\ Moved(User, "close_compare", <<>>)
    <3>1. pc'[User] = "close_compare" /\ stack'[User] = <<>>
      BY <2>3 DEF Moved
    <3> QED BY <2>0, <2>3, <3>1, UserQuiet
  <2> QED BY <1>0, <1>3, <2>0, <2>1, <2>2, <2>3, Moves, Calls DEF CloseTest, Labels
<1>4. CASE CloseAlloc
  <2>0. /\ pc[User] = "close_alloc" /\ stack[User] = <<>> /\ act' = act /\ file' = file
        /\ UNCHANGED diskVars /\ cur' = cur /\ sent' = sent /\ events' = events
    BY <1>0, <1>4 DEF CloseAlloc, At, CallLabels, EndLabels, private, userVars
  <2>1. Moved(User, "alloc_lock", <<"close">>)
    BY <1>0, <1>4, <2>0, Calls DEF CloseAlloc, Labels
  <2>2. pc'[User] = "alloc_lock" /\ stack'[User] = <<"close">>
    BY <2>1 DEF Moved
  <2> QED BY <2>0, <2>1, <2>2, UserQuiet
<1> QED BY <1>1, <1>2, <1>3, <1>4

-----------------------------------------------------------------------------
(* Everything that is pending is a sequence of tasks.                      *)
LEMMA PendingType ==
    ASSUME WriteInv, BatchInv, act.cmd = "write"
    PROVE  /\ Outstanding \in Seq(Tasks) /\ act.wqueue \in Seq(Tasks) /\ Hand \in Seq(Tasks)
           /\ Pending \in Seq(Tasks) /\ Len(Pending) \in Nat
<1>1. Outstanding \in Seq(Tasks) /\ act.wqueue \in Seq(Tasks) /\ Hand \in Seq(Tasks)
  BY OutFacts, HandFacts, Fields DEF OutIs, HandIs, WriteInv, TypeInv
<1>2. Pending \in Seq(Tasks)
  BY <1>1, QueueType DEF Pending
<1> QED BY <1>1, <1>2

(* A request is counted: what was accumulated, or an fsync, comes last.    *)
LEMMA CountBytes ==
    ASSUME WriteInv, WriteInv', BytesInv, NEW p \in {User, Slow}, CountWrite(p) \/ CountFsync(p)
    PROVE  BytesInv'
<1>0. /\ TypeInv /\ TypeInv' /\ PageInv /\ BatchInv /\ OrderInv /\ CloseInv /\ FlushInv /\ EndInv
      /\ p \in Procs /\ act \in Actions /\ cur \in [{User, Slow} -> Tasks]
      /\ act.cmd = "write" /\ ~Ending
  BY Names DEF WriteInv, TypeInv, BytesInv, CountWrite, CountFsync, CountRequest, LiveWrite, LifeInv
<1>1. PICK t \in Tasks : /\ CountRequest(p, t)
                         /\ \/ pc[p] = "flush" /\ t.cmd = "write" /\ t.data = act.accum
                            \/ pc[p] = "fsync" /\ t.cmd = "fsync" /\ t.data = <<>>
  <2>1. CASE CountWrite(p)
    <3>1. [cmd |-> "write", data |-> act.accum] \in Tasks
      BY <1>0, Fields DEF Tasks
    <3> QED BY <2>1, <3>1 DEF CountWrite, At
  <2>2. CASE CountFsync(p)
    <3>1. [cmd |-> "fsync", data |-> <<>>] \in Tasks
      BY DEF Tasks
    <3> QED BY <2>2, <3>1 DEF CountFsync, At
  <2> QED BY <2>1, <2>2
<1> DEFINE s == IF t.cmd = "write" THEN <<>> ELSE act.accum
           r == act.totreq + 1
<1>2. s \in Seq(Int) /\ r \in Nat /\ act' = [act EXCEPT !.totreq = r, !.accum = s]
  BY <1>0, <1>1, Fields DEF CountRequest
<1> HIDE DEF r, s
<1>3. /\ act'.cmd = act.cmd /\ act'.accum = s /\ act'.status = act.status
      /\ act'.wqueue = act.wqueue /\ act'.batch = act.batch
  BY <1>0, <1>2 DEF Actions
<1>4. /\ Moved(p, "enqueue", stack[p]) /\ cur' = [cur EXCEPT ![p] = t]
      /\ file' = file /\ events' = events /\ UNCHANGED diskVars /\ sent' = sent
  BY <1>0, <1>1, Moves DEF CountRequest, Labels, userVars
<1>5. /\ pc'[p] = "enqueue" /\ stack'[p] = stack[p]
      /\ \A q \in Procs \ {p} : pc'[q] = pc[q] /\ stack'[q] = stack[q]
      /\ pc'[Writer] = pc[Writer] /\ \A d \in Disk : pc'[d] = pc[d]
  BY <1>4, Names DEF Moved
<1>6. PageInv' /\ Taken' = Taken
  BY <1>0, <1>4 DEF PageInv, Taken, Base, diskVars
<1>7. SameBatch
  BY <1>0, <1>3, <1>4, <1>5 DEF SameBatch, diskVars
<1>8. BatchInv' /\ Outstanding' = Outstanding
  BY <1>0, <1>7, BatchKept
<1>9. pc[p] \in PostLabels /\ "enqueue" \in PostLabels /\ pc[p] # "enqueue"
  BY <1>1 DEF PostLabels
<1>10. Hand = <<>> /\ Hand' = <<t>>
  <2>1. HandIs /\ HandIs'
    BY HandFacts, FactsAfter
  <2>2. cur'[p] = t
    BY <1>0, <1>4
  <2> QED BY <1>5, <1>9, <2>1, <2>2, Names DEF HandIs
<1>11. Pending' = Append(Pending, t)
  BY <1>0, <1>3, <1>8, <1>10, PendingType, QueueEnqueue DEF Pending
<1>12. Pending \in Seq(Tasks) /\ Len(Pending) \in Nat
  BY <1>0, PendingType
<1>13. /\ Len(Pending') = Len(Pending) + 1 /\ Pending' # <<>> /\ Pending'[Len(Pending) + 1] = t
       /\ \A k \in 1..Len(Pending) : Pending'[k] = Pending[k]
  BY <1>11, <1>12, AppendProperties, EmptySeq
<1>14. OrderInv'
  <2>1. /\ sent \in Nat /\ Taken \in Nat /\ Len(act.accum) \in Nat /\ Len(act.accum) <= sent
        /\ Requested \in Nat /\ Requested <= sent
        /\ InOrder(Pending, Taken, Requested) /\ act.accum = Span(Requested, sent)
    BY <1>0, TakenType, Fields DEF OrderInv, Requested
  <2>2. CASE t.cmd = "write" /\ t.data = act.accum
    <3>1. s = <<>> /\ Requested' = sent /\ Len(s) = 0
      BY <1>3, <1>4, <2>1, <2>2 DEF Requested, s
    <3>2. InOrder(Append(Pending, t), Taken, sent)
      BY <1>12, <2>1, <2>2, OrderAppend
    <3>3. Span(sent, sent) = <<>>
      BY <2>1, SpanEmpty
    <3> QED BY <1>3, <1>4, <1>6, <1>11, <2>1, <3>1, <3>2, <3>3, EfAssumption DEF OrderInv
  <2>3. CASE t.cmd = "fsync" /\ t.data = <<>>
    <3>1. s = act.accum /\ Requested' = Requested
      BY <1>3, <1>4, <2>3 DEF Requested, s
    <3>2. t.data = Span(Requested, Requested)
      BY <2>1, <2>3, SpanEmpty
    <3>3. InOrder(Append(Pending, t), Taken, Requested)
      BY <1>12, <2>1, <2>3, <3>2, OrderAppend
    <3> QED BY <1>0, <1>3, <1>4, <1>6, <1>11, <2>1, <3>1, <3>3 DEF OrderInv
  <2> QED BY <1>1, <2>2, <2>3
<1>15. ~Ending'
  <2>1. CASE p = User
    <3>1. stack[User] \in PostStacks(User)
      BY <1>9, <2>1, CallStack DEF WriteInv
    <3>2. stack[User] \notin {<<"close">>, <<"done">>}
      BY <3>1, Stacks DEF PostStacks
    <3> QED BY <1>5, <2>1, <3>2 DEF Ending, EndLabels
  <2>2. CASE p = Slow
    BY <1>0, <1>5, <2>2, Names DEF Ending
  <2> QED BY <2>1, <2>2
<1>16. FreshInv' /\ EndInv'
  BY <1>0, <1>3, <1>15 DEF FreshInv, EndInv
<1>17. FlushInv'
  BY <1>0, <1>5, Names DEF FlushInv
<1>18. CloseInv'
  <2>1. CASE p = User
    <3>1. pc'[User] = "enqueue" /\ stack'[User] = stack[User] /\ pc'[Slow] = pc[Slow]
      BY <1>5, <2>1, Names
    <3>2. pc[Slow] # "flush"
      BY <1>9, <2>1, HandFacts DEF HandIs, PostLabels
    <3>3. stack[User] # <<"close_alloc">>
      <4>1. stack[User] \in PostStacks(User)
        BY <1>9, <2>1, CallStack DEF WriteInv
      <4> QED BY <4>1, Stacks DEF PostStacks
    <3>4. ~PastCompare'
      BY <3>1, <3>3 DEF PastCompare
    <3>5. CASE t.cmd = "write"
      <4>1. s = <<>>
        BY <3>5 DEF s
      <4>2. ~PastFsync'
        BY <1>0, <1>1, <2>1, <3>1, <3>3, <3>5 DEF PastFsync, FlushInv
      <4> QED BY <1>3, <3>1, <3>2, <3>4, <4>1, <4>2 DEF CloseInv
    <3>6. CASE t.cmd = "fsync"
      <4>1. s = act.accum /\ stack[User] = <<"sync_resume", "close_compare">>
        BY <1>0, <1>1, <2>1, <3>6 DEF s, FlushInv
      <4>2. act.accum = <<>>
        BY <1>0, <4>1 DEF CloseInv, PastFlush
      <4>3. Pending' # <<>> /\ Pending'[Len(Pending')].cmd = "fsync"
        BY <1>13, <3>6
      <4> QED BY <1>3, <3>1, <3>2, <3>4, <4>1, <4>2, <4>3 DEF CloseInv
    <3> QED BY <1>1, <3>5, <3>6
  <2>2. CASE p = Slow
    <3>1. pc'[Slow] = "enqueue" /\ stack'[User] = stack[User] /\ pc'[User] = pc[User]
      BY <1>5, <2>2, Names
    <3>2. (PastFlush' <=> PastFlush) /\ (PastFsync' <=> PastFsync) /\ (PastCompare' <=> PastCompare)
      BY <1>3, <3>1 DEF PastFlush, PastFsync, PastCompare
    <3>3. PastFlush => t.cmd = "fsync"
      BY <1>0, <1>1, <2>2 DEF CloseInv
    <3>4. (PastFsync => PastFlush) /\ (PastCompare => PastFlush)
      BY DEF PastFlush, PastFsync, PastCompare
    <3>5. PastFlush' => act'.accum = <<>> /\ pc'[Slow] # "flush"
      BY <1>0, <1>3, <3>1, <3>2, <3>3 DEF CloseInv, s
    <3>6. PastFsync' => Pending' # <<>> /\ Pending'[Len(Pending')].cmd = "fsync"
      BY <1>13, <3>2, <3>3, <3>4
    <3>7. PastCompare' => /\ \A k \in 1..Len(Pending') : Pending'[k].cmd = "fsync"
                          /\ ~page'.dirty /\ Taken' = sent'
      <4> SUFFICES ASSUME PastCompare PROVE /\ \A k \in 1..Len(Pending') : Pending'[k].cmd = "fsync"
                                            /\ ~page'.dirty /\ Taken' = sent'
        BY <3>2
      <4>1. /\ \A k \in 1..Len(Pending) : Pending[k].cmd = "fsync"
            /\ ~page.dirty /\ Taken = sent
        BY <1>0 DEF CloseInv
      <4>2. t.cmd = "fsync"
        BY <3>3, <3>4
      <4>3. \A k \in 1..Len(Pending') : k \in 1..Len(Pending) \/ k = Len(Pending) + 1
        BY <1>12, <1>13
      <4>4. \A k \in 1..Len(Pending') : Pending'[k].cmd = "fsync"
        BY <1>13, <4>1, <4>2, <4>3
      <4> QED BY <1>4, <1>6, <4>1, <4>4 DEF diskVars
    <3> QED BY <3>5, <3>6, <3>7 DEF CloseInv
  <2> QED BY <2>1, <2>2
<1> QED BY <1>6, <1>8, <1>14, <1>16, <1>17, <1>18 DEF BytesInv

(* A request goes from the hand into the queue.                            *)
LEMMA EnqueueBytes ==
    ASSUME WriteInv, WriteInv', BytesInv, NEW p \in {User, Slow}, EnqueueRequest(p)
    PROVE  BytesInv'
<1>0. /\ TypeInv /\ TypeInv' /\ PageInv /\ BatchInv /\ OrderInv /\ CloseInv /\ FlushInv
      /\ p \in Procs /\ act \in Actions /\ cur[p] \in Tasks
      /\ act.cmd = "write" /\ ~Ending /\ pc[p] = "enqueue"
  BY Names DEF WriteInv, TypeInv, BytesInv, EnqueueRequest, LiveWrite, LifeInv, At
<1> DEFINE w == Append(act.wqueue, cur[p])
<1>1. w \in Seq(Tasks) /\ act' = [act EXCEPT !.wqueue = w]
  BY <1>0, Fields, AppendProperties DEF EnqueueRequest
<1> HIDE DEF w
<1>3. /\ act'.cmd = act.cmd /\ act'.accum = act.accum /\ act'.status = act.status
      /\ act'.wqueue = w /\ act'.batch = act.batch
  BY <1>0, <1>1 DEF Actions
<1>4. /\ Moved(p, "post", stack[p])
      /\ file' = file /\ events' = events /\ UNCHANGED diskVars /\ sent' = sent
  BY <1>0, Moves DEF EnqueueRequest, Labels, userVars
<1>5. /\ pc'[p] = "post" /\ stack'[p] = stack[p]
      /\ \A q \in Procs \ {p} : pc'[q] = pc[q] /\ stack'[q] = stack[q]
      /\ pc'[Writer] = pc[Writer] /\ \A d \in Disk : pc'[d] = pc[d]
  BY <1>4, Names DEF Moved
<1>6. PageInv' /\ Taken' = Taken
  BY <1>0, <1>4 DEF PageInv, Taken, Base, diskVars
<1>7. SameBatch
  BY <1>0, <1>3, <1>4, <1>5 DEF SameBatch, diskVars
<1>8. BatchInv' /\ Outstanding' = Outstanding /\ (Working' => Working)
  BY <1>0, <1>7, BatchKept
<1>9. "enqueue" \in PostLabels
  BY DEF PostLabels
<1>10. Hand = <<cur[p]>> /\ Hand' = <<>>
  <2>1. HandIs /\ HandIs'
    BY HandFacts, FactsAfter
  <2> QED BY <1>0, <1>5, <1>9, <2>1, Names DEF HandIs
<1>11. Pending' = Pending
  <2>1. Outstanding \in Seq(Tasks) /\ act.wqueue \in Seq(Tasks)
    BY <1>0, PendingType
  <2>2. Outstanding \o Append(act.wqueue, cur[p]) \o <<>> = Outstanding \o act.wqueue \o <<cur[p]>>
    BY <1>0, <2>1, QueueEnqueue
  <2> QED BY <1>3, <1>8, <1>10, <2>2 DEF Pending, w
<1>12. OrderInv'
  <2>1. Requested' = Requested
    BY <1>3, <1>4 DEF Requested
  <2> QED BY <1>0, <1>3, <1>4, <1>6, <1>11, <2>1 DEF OrderInv
<1>13. /\ stack'[User] = stack[User]
       /\ pc'[User] = pc[User] \/ (pc[User] = "enqueue" /\ pc'[User] = "post")
  <2>1. CASE p = User
    BY <1>0, <1>5, <2>1
  <2>2. CASE p = Slow
    BY <1>5, <2>2, Names
  <2> QED BY <2>1, <2>2
<1>14. (Ending' <=> Ending)
  BY <1>13 DEF Ending, EndLabels
<1>15. (PastFlush' => PastFlush) /\ (PastFsync' => PastFsync) /\ (PastCompare' => PastCompare) /\ FlushInv'
  BY <1>0, <1>3, <1>13 DEF PastFlush, PastFsync, PastCompare, FlushInv
<1>16. PastFlush' => act.accum = <<>> /\ pc'[Slow] # "flush"
  <2>1. pc'[Slow] = pc[Slow] \/ pc'[Slow] = "post"
    BY <1>5, Names
  <2> QED BY <1>0, <1>15, <2>1 DEF CloseInv
<1> QED BY <1>3, <1>4, <1>6, <1>8, <1>11, <1>12, <1>14, <1>15, <1>16, SamePending DEF diskVars

(* The event that announces the request.                                   *)
LEMMA PostBytes ==
    ASSUME WriteInv, WriteInv', BytesInv, NEW p \in {User, Slow}, PostRequest(p)
    PROVE  BytesInv'
<1>0. /\ TypeInv /\ PlaceInv /\ p \in Procs /\ act \in Actions /\ act.cmd = "write" /\ ~Ending
      /\ pc[p] = "post" /\ act' = [act EXCEPT !.status = "initiated"]
      /\ file' = file /\ events' = Append(events, "req") /\ UNCHANGED diskVars /\ sent' = sent /\ cur' = cur
      /\ Return(p)
  BY Names DEF WriteInv, TypeInv, PostRequest, LiveWrite, LifeInv, At, private, userVars
<1>1. /\ act'.cmd = act.cmd /\ act'.accum = act.accum /\ act'.wqueue = act.wqueue /\ act'.batch = act.batch
      /\ act'.status = "initiated"
  BY <1>0, SetStatus
<1>2. pc[p] \in PostLabels /\ stack[p] \in PostStacks(p)
  BY <1>0, CallStack DEF PostLabels
<1>3. CASE p = Slow
  <2>1. Moved(p, "sync_fsync", <<"idle">>) \/ Moved(p, "sync_resume", <<"idle">>)
    BY <1>0, <1>2, <1>3, Returns, Names DEF PostStacks, Labels
  <2> QED BY <1>0, <1>1, <1>3, <2>1, SlowQuiet
<1>4. CASE p = User
  <2>1. \E l, s : /\ Moved(User, l, s)
                  /\ \/ l \in {"write_copy", "efsync_release"} /\ s = <<>>
                     \/ /\ stack[User] = <<"sync_fsync", "close_compare">> /\ l = "sync_fsync"
                        /\ s = <<"close_compare">>
                     \/ /\ stack[User] = <<"sync_resume", "close_compare">> /\ l = "sync_resume"
                        /\ s = <<"close_compare">>
    <3>1. CASE stack[User] = <<"write_copy">>
      <4>1. Moved(User, "write_copy", <<>>)
        BY <1>0, <1>4, <3>1, Returns DEF Labels
      <4> QED BY <4>1
    <3>2. CASE stack[User] = <<"efsync_release">>
      <4>1. Moved(User, "efsync_release", <<>>)
        BY <1>0, <1>4, <3>2, Returns DEF Labels
      <4> QED BY <4>1
    <3>3. CASE stack[User] = <<"sync_fsync", "close_compare">>
      <4>1. Moved(User, "sync_fsync", <<"close_compare">>)
        BY <1>0, <1>4, <3>3, Returns DEF Labels
      <4> QED BY <3>3, <4>1
    <3>4. CASE stack[User] = <<"sync_resume", "close_compare">>
      <4>1. Moved(User, "sync_resume", <<"close_compare">>)
        BY <1>0, <1>4, <3>4, Returns DEF Labels
      <4> QED BY <3>4, <4>1
    <3> QED BY <1>2, <1>4, <3>1, <3>2, <3>3, <3>4 DEF PostStacks
  <2>2. PICK l, s : /\ Moved(User, l, s)
                    /\ \/ l \in {"write_copy", "efsync_release"} /\ s = <<>>
                       \/ /\ stack[User] = <<"sync_fsync", "close_compare">> /\ l = "sync_fsync"
                          /\ s = <<"close_compare">>
                       \/ /\ stack[User] = <<"sync_resume", "close_compare">> /\ l = "sync_resume"
                          /\ s = <<"close_compare">>
    BY <2>1
  <2>3. pc'[User] = l /\ stack'[User] = s /\ pc[User] = "post"
    BY <1>0, <1>4, <2>2 DEF Moved
  <2>4. ~Ending'
    BY <2>2, <2>3, Stacks DEF Ending, EndLabels
  <2>5. (PastFlush' => PastFlush) /\ (PastFsync' => PastFsync) /\ ~PastCompare' /\ FlushInv'
    <3>1. s # <<"close_alloc">> /\ s # <<"sync_resume", "close_compare">>
      BY <2>2, Stacks
    <3>2. l \notin {"close_set", "close_test", "flush", "fsync"}
      BY <2>2
    <3>3. ~PastCompare' /\ FlushInv'
      BY <2>3, <3>1, <3>2 DEF PastCompare, FlushInv
    <3>4. PastFsync' => PastFsync
      BY <2>2, <2>3, <3>1 DEF PastFsync
    <3>5. PastFlush' => PastFlush
      BY <2>2, <2>3, <3>1, <3>4 DEF PastFlush
    <3> QED BY <3>3, <3>4, <3>5
  <2>6. l # "enqueue" /\ pc[User] # "enqueue"
    BY <2>2, <2>3
  <2> QED BY <1>0, <1>1, <2>2, <2>4, <2>5, <2>6, UserQuiet
<1> QED BY <1>3, <1>4

(* A round of slow_sync begins.                                            *)
LEMMA RoundBytes ==
    ASSUME WriteInv, WriteInv', BytesInv, SlowRound
    PROVE  BytesInv'
<1>0. /\ TypeInv /\ Slow \in Procs /\ pc[Slow] = "idle" /\ act' = act /\ file' = file /\ events' = events
      /\ UNCHANGED diskVars /\ sent' = sent /\ cur' = cur
  BY Names DEF WriteInv, SlowRound, At, userVars
<1>1. Moved(Slow, "sync", <<"idle">> \o stack[Slow])
  BY <1>0, Moves DEF SlowRound, Labels
<1> QED BY <1>0, <1>1, SlowQuiet

(* ef_write copies: the buffer takes the bytes that follow.                *)
LEMMA CopyBytes ==
    ASSUME WriteInv, WriteInv', BytesInv, WriteCopy
    PROVE  BytesInv'
<1>0. /\ TypeInv /\ TypeInv' /\ PlaceInv /\ PageInv /\ BatchInv /\ OrderInv
      /\ User \in Procs /\ act \in Actions /\ left \in Int /\ left > 0
      /\ act.cmd = "write" /\ pc[User] = "write_copy" /\ stack[User] = <<>>
      /\ file' = file /\ events' = events /\ UNCHANGED diskVars /\ cur' = cur
  BY Names, CallStack DEF WriteInv, TypeInv, BytesInv, WriteCopy, LiveWrite, At, CallLabels
<1>1. /\ sent \in Nat /\ Taken \in Nat /\ act.accum \in Seq(Int) /\ Len(act.accum) \in Nat
      /\ Len(act.accum) <= PageSize /\ Len(act.accum) <= sent /\ PageSize \in Nat
      /\ Requested \in Nat /\ Requested <= sent
      /\ InOrder(Pending, Taken, Requested) /\ act.accum = Span(Requested, sent)
  BY <1>0, TakenType, Fields, EfAssumption DEF OrderInv, Requested
<1>2. PICK n \in Nat : /\ act' = [act EXCEPT !.accum = @ \o [i \in 1..n |-> sent + i]]
                       /\ sent' = sent + n /\ n <= PageSize - Len(act.accum)
                       /\ Call(User, "flush", "write_copy") \/ Jump(User, "write_copy")
  <2> DEFINE room == PageSize - Len(act.accum)
             m == IF left > room THEN room ELSE left
  <2>1. m \in Nat /\ m <= room
    BY <1>0, <1>1
  <2>2. /\ act' = [act EXCEPT !.accum = @ \o [i \in 1..m |-> sent + i]]
        /\ sent' = sent + m
        /\ Call(User, "flush", "write_copy") \/ Jump(User, "write_copy")
    BY DEF WriteCopy
  <2> HIDE DEF m
  <2> QED BY <2>1, <2>2
<1> DEFINE new == act.accum \o Span(sent, sent + n)
<1>3. [i \in 1..n |-> sent + i] = Span(sent, sent + n)
  <2>1. (sent + n) - sent = n
    BY <1>1
  <2> QED BY <2>1 DEF Span
<1>a. PICK c \in Nat : c = sent + n /\ sent <= c /\ c - sent = n
  BY <1>1
<1>4. new = Span(Requested, sent + n)
  <2>1. Span(Requested, sent) \o Span(sent, c) = Span(Requested, c)
    BY <1>1, <1>a, SpanConcat
  <2> QED BY <1>1, <1>a, <2>1
<1>5. new \in Seq(Int) /\ Len(new) = Len(act.accum) + n
  <2>1. Span(sent, sent + n) \in Seq(Int) /\ Len(Span(sent, sent + n)) = n
    BY <1>1, <1>a, SpanIs
  <2>2. act.accum \o Span(sent, sent + n) \in Seq(Int)
        /\ Len(act.accum \o Span(sent, sent + n)) = Len(act.accum) + Len(Span(sent, sent + n))
    BY <1>1, <2>1, ConcatProperties
  <2> QED BY <2>1, <2>2
<1>6. act' = [act EXCEPT !.accum = new]
  BY <1>2, <1>3
<1> HIDE DEF new
<1>7. /\ act'.cmd = act.cmd /\ act'.accum = new
      /\ act'.wqueue = act.wqueue /\ act'.batch = act.batch
  BY <1>0, <1>5, <1>6 DEF Actions
<1>8. Moved(User, "flush", <<"write_copy">>) \/ Moved(User, "write_copy", <<>>)
  BY <1>0, <1>2, Moves, Calls DEF Labels
<1>9. /\ pc'[User] \in {"flush", "write_copy"} /\ stack'[User] \in {<<"write_copy">>, <<>>}
      /\ pc'[Slow] = pc[Slow]
      /\ pc'[Writer] = pc[Writer] /\ \A d \in Disk : pc'[d] = pc[d]
  BY <1>8, Names DEF Moved
<1>10. PageInv' /\ Taken' = Taken
  BY <1>0 DEF PageInv, Taken, Base, diskVars
<1>11. SameBatch
  BY <1>0, <1>7, <1>9 DEF SameBatch, diskVars
<1>12. BatchInv' /\ Outstanding' = Outstanding
  BY <1>0, <1>11, BatchKept
<1>13. Hand' = Hand
  BY <1>0, <1>9, HandFacts, FactsAfter DEF HandIs
<1>14. Pending' = Pending
  BY <1>7, <1>12, <1>13 DEF Pending
<1>15. OrderInv'
  <2>1. Requested' = Requested
    BY <1>1, <1>2, <1>5, <1>7 DEF Requested
  <2>2. sent' \in Nat /\ Len(act'.accum) <= PageSize /\ Len(act'.accum) <= sent'
    BY <1>1, <1>2, <1>5, <1>7
  <2>3. InOrder(Pending', Taken', Requested') /\ act'.accum = Span(Requested', sent')
    BY <1>1, <1>2, <1>4, <1>7, <1>10, <1>14, <2>1
  <2> QED BY <2>2, <2>3 DEF OrderInv
<1>16. ~Ending'
  BY <1>0, <1>7 DEF WriteInv, LifeInv
<1>17. ~PastFlush' /\ ~PastFsync' /\ ~PastCompare' /\ FlushInv'
  <2>1. stack'[User] # <<"close_alloc">> /\ stack'[User] # <<"sync_resume", "close_compare">>
    <3>1. stack'[User] = <<>> \/ stack'[User] = <<"write_copy">>
      BY <1>9
    <3>2. <<"write_copy">> # <<"close_alloc">>
      BY Stacks
    <3> QED BY <3>1, <3>2, Stacks
  <2> QED BY <1>9, <2>1 DEF PastFlush, PastFsync, PastCompare, FlushInv
<1>18. FreshInv' /\ EndInv' /\ CloseInv'
  BY <1>0, <1>7, <1>16, <1>17 DEF FreshInv, EndInv, CloseInv
<1> QED BY <1>10, <1>12, <1>15, <1>17, <1>18 DEF BytesInv

-----------------------------------------------------------------------------
(* A disk thread that has begun to close the file does not work on it.     *)
LEMMA EndOfDone == ASSUME WriteInv, pc[User] = "done" PROVE Ending /\ act.cmd # "write"
BY DEF WriteInv, LifeInv, Ending, EndLabels

(* The steps of action_mutation that only take, retry and give back pam.   *)
LEMMA LockBytes ==
    ASSUME WriteInv, WriteInv', BytesInv, NEW p \in {User} \cup Disk,
           LockMutation(p) \/ RelockMutation(p) \/ UnlockMutation(p)
    PROVE  BytesInv'
<1>0. /\ TypeInv /\ PlaceInv /\ p \in Procs /\ act' = act /\ file' = file /\ events' = events
      /\ UNCHANGED diskVars /\ sent' = sent /\ cur' = cur
      /\ pc[p] \in FreeLabels => stack[p] \in FreeStacks(p)
      /\ pc[p] \in AllocLabels => p = User /\ stack[p] \in {<<"write_copy">>, <<"close">>}
      /\ pc[p] = "unlock" => \/ stack[p] \in FreeStacks(p)
                             \/ p = User /\ stack[p] \in {<<"write_copy">>, <<"close">>}
  BY Names, MutationStack DEF WriteInv, LockMutation, RelockMutation, UnlockMutation, private, userVars, locks
<1>1. CASE p = User
  <2> USE Stacks DEF Ending, EndLabels, PastFlush, PastFsync, PastCompare, FlushInv
  <2>1. CASE LockMutation(p) \/ RelockMutation(p)
    <3>1. \E l \in FreeLabels \cup AllocLabels : Moved(User, l, stack[User])
      BY <1>0, <1>1, <2>1, Moves DEF LockMutation, RelockMutation, Jump, FreeLabels, AllocLabels, Labels
    <3>2. PICK l \in FreeLabels \cup AllocLabels : Moved(User, l, stack[User])
      BY <3>1
    <3>3. pc[User] \in FreeLabels \cup AllocLabels
      BY <1>1, <2>1 DEF LockMutation, RelockMutation, At, FreeLabels, AllocLabels
    <3>4. pc'[User] = l /\ stack'[User] = stack[User]
      BY <3>2 DEF Moved
    <3>5. stack[User] # <<"sync_resume", "close_compare">>
      BY <1>0, <1>1, <3>3 DEF FreeStacks
    <3>6. (Ending' <=> Ending) /\ (PastFlush' => PastFlush) /\ (PastFsync' => PastFsync)
          /\ (PastCompare' => PastCompare) /\ FlushInv' /\ l # "enqueue" /\ pc[User] # "enqueue"
      BY <1>0, <3>3, <3>4, <3>5 DEF FreeLabels, AllocLabels
    <3> QED BY <1>0, <3>2, <3>6, UserQuiet
  <2>2. CASE UnlockMutation(p)
    <3>1. pc[User] = "unlock" /\ Return(User)
      BY <1>1, <2>2 DEF UnlockMutation, At
    <3>2. PICK l \in {"idle", "write_alloc", "close_sync", "close_alloc", "done", "write_copy", "close"} :
             stack[User] = <<l>>
      BY <1>0, <1>1, <3>1 DEF FreeStacks
    <3>3. Moved(User, l, <<>>)
      BY <1>0, <1>1, <3>1, <3>2, Returns DEF Labels
    <3>4. pc'[User] = l /\ stack'[User] = <<>>
      BY <3>3 DEF Moved
    <3>5. Ending' <=> Ending
      BY <3>1, <3>2, <3>4
    <3>6. ~PastFlush' /\ ~PastFsync' /\ ~PastCompare' /\ FlushInv' /\ l # "enqueue" /\ pc[User] # "enqueue"
      BY <3>1, <3>4
    <3> QED BY <1>0, <3>3, <3>5, <3>6, UserQuiet
  <2> QED BY <2>1, <2>2
<1>2. CASE p \in Disk
  <2>1. pc[p] \in FreeLabels \cup {"unlock"}
    BY <1>0, <1>2, Names DEF LockMutation, RelockMutation, UnlockMutation, At, FreeLabels, AllocLabels
  <2>2. pc[User] = "done"
    BY <1>0, <1>2, <2>1 DEF PlaceInv, DiskPlace, FreeLabels
  <2>3. pc'[User] = pc[User]
    BY <1>0, <1>2, Names DEF LockMutation, RelockMutation, UnlockMutation, Jump, Goto, Return, TypeInv
  <2>4. Ending /\ Ending' /\ act.cmd # "write"
    BY <2>2, <2>3, EndOfDone DEF Ending, EndLabels
  <2>5. /\ PageInv' /\ act'.accum = <<>> /\ act'.wqueue = <<>> /\ act'.batch = <<>>
    BY <1>0, <2>4 DEF BytesInv, BatchInv, PageInv, Base, Taken, diskVars
  <2> QED BY <1>0, <2>4, <2>5, Ended DEF diskVars
<1> QED BY <1>1, <1>2

(* The action is freed: an open action, the write action when ef_close has *)
(* seen that all is done, or the close action.                             *)
LEMMA FreeBytes ==
    ASSUME WriteInv, WriteInv', BytesInv, NEW p \in {User} \cup Disk, FreeAction(p)
    PROVE  BytesInv'
<1>0. /\ TypeInv /\ TypeInv' /\ PlaceInv /\ LifeInv /\ PageInv /\ BatchInv /\ OrderInv
      /\ p \in Procs /\ file' = file /\ events' = events
      /\ UNCHANGED diskVars /\ sent' = sent /\ cur' = cur
      /\ pc[p] = "free" /\ stack[p] \in FreeStacks(p) /\ Moved(p, "unlock", stack[p])
  BY Names, MutationStack, Moves
     DEF WriteInv, BytesInv, FreeAction, private, userVars, locks, At, FreeLabels, Labels
<1>1. act'.cmd = "none" /\ act'.accum = <<>> /\ act'.wqueue = <<>> /\ act'.batch = <<>>
  BY DEF FreeAction, NoAction
<1>2. PageInv' /\ Taken' = Taken
  BY <1>0 DEF PageInv, Taken, Base, diskVars
<1>3. /\ pc'[p] = "unlock" /\ stack'[p] = stack[p]
      /\ \A q \in Procs \ {p} : pc'[q] = pc[q] /\ stack'[q] = stack[q]
      /\ pc'[Writer] = pc[Writer]
      /\ \A d \in Disk : pc'[d] = pc[d] \/ pc'[d] = "unlock"
  <2>1. /\ pc'[p] = "unlock" /\ stack'[p] = stack[p]
        /\ \A q \in Procs \ {p} : pc'[q] = pc[q] /\ stack'[q] = stack[q]
    BY <1>0 DEF Moved
  <2> QED BY <2>1, Names
<1>4. CASE Ending
  <2>1. Ending'
    <3>1. CASE p = User
      BY <1>0, <1>3, <1>4, <3>1 DEF Ending, EndLabels
    <3>2. CASE p \in Disk
      BY <1>3, <1>4, <3>2, Names DEF Ending
    <3> QED BY <3>1, <3>2
  <2> QED BY <1>0, <1>1, <1>2, <1>4, <2>1, Ended DEF diskVars
<1>5. CASE ~Ending
  <2>1. p = User
    <3>1. ASSUME p \in Disk PROVE FALSE
      <4>1. pc[User] = "done"
        BY <1>0, <3>1 DEF PlaceInv, DiskPlace, FreeLabels
      <4> QED BY <1>5, <4>1, EndOfDone
    <3> QED BY <3>1
  <2>2. pc[User] = "free" /\ pc'[User] = "unlock" /\ stack'[User] = stack[User] /\ pc'[Slow] = pc[Slow]
        /\ \A d \in Disk : pc'[d] = pc[d]
    BY <1>0, <1>3, <2>1, Names
  <2>3. OrderInv'
    <3>1. Len(act'.accum) = 0
      BY <1>1
    <3> QED BY <1>0, <1>1, <3>1, EfAssumption DEF OrderInv
  <2>4. BatchInv'
    BY <1>0, <1>1 DEF BatchInv, diskVars
  <2>5. FlushInv' /\ CloseInv'
    BY <1>1, <2>2 DEF FlushInv, CloseInv
  <2>6. ASSUME act.cmd # "write"
        PROVE  /\ sent = 0 /\ page.index = 0 /\ page.data = <<>> /\ ~page.dirty /\ disk = <<>>
               /\ jobs = <<>> /\ ~Working
    BY <1>5, <2>6 DEF BytesInv, FreshInv
  <2>7. CASE stack[User] = <<"close_alloc">>
    <3>1. Ending'
      BY <2>2, <2>7 DEF Ending
    <3>2. ~page.dirty /\ Taken = sent /\ disk = Span(0, sent)
      <4>1. CASE act.cmd = "write"
        <5>1. PastCompare /\ file = "open"
          BY <1>0, <1>5, <2>7 DEF PastCompare, LifeInv
        <5>2. ~page.dirty /\ Taken = sent
          BY <4>1, <5>1 DEF BytesInv, CloseInv
        <5>3. disk = Span(0, Len(disk)) /\ Len(disk) = Taken
          BY <1>0, <5>1, <5>2 DEF PageInv
        <5> QED BY <5>2, <5>3
      <4>2. CASE act.cmd # "write"
        <5>1. Taken = 0 /\ Span(0, 0) = <<>>
          BY <2>6, <4>2, EfAssumption, SpanEmpty DEF Taken, Base
        <5> QED BY <2>6, <4>2, <5>1
      <4> QED BY <4>1, <4>2
    <3>3. EndInv'
      BY <1>0, <1>2, <3>2 DEF EndInv, diskVars
    <3>4. FreshInv'
      BY <3>1 DEF FreshInv
    <3> QED BY <1>2, <2>3, <2>4, <2>5, <3>3, <3>4 DEF BytesInv
  <2>8. CASE stack[User] # <<"close_alloc">>
    <3>1. stack[User] \in {<<"idle">>, <<"write_alloc">>, <<"close_sync">>}
      BY <1>0, <1>5, <2>1, <2>8 DEF FreeStacks, Ending
    <3>2. act.cmd = "open"
      BY <1>0, <2>2, <3>1 DEF LifeInv, FreeLabels
    <3>3. ~Ending'
      BY <2>2, <3>1, Stacks DEF Ending, EndLabels
    <3>4. Working' <=> Working
      BY <2>2 DEF Working
    <3>5. FreshInv'
      BY <1>0, <2>6, <3>2, <3>4 DEF FreshInv, diskVars
    <3>6. EndInv'
      BY <3>3 DEF EndInv
    <3> QED BY <1>2, <2>3, <2>4, <2>5, <3>5, <3>6 DEF BytesInv
  <2> QED BY <2>7, <2>8
<1> QED BY <1>4, <1>5

(* A write action is made before anything is on its way; a close action    *)
(* when nothing is any more.                                               *)
LEMMA AllocBytes ==
    ASSUME WriteInv, WriteInv', BytesInv, NEW p \in {User} \cup Disk, AllocAction(p)
    PROVE  BytesInv'
<1>0. /\ TypeInv /\ TypeInv' /\ PlaceInv /\ LifeInv /\ LifeInv' /\ PageInv /\ BatchInv /\ OrderInv
      /\ p = User /\ User \in Procs /\ file' = file /\ events' = events
      /\ UNCHANGED diskVars /\ sent' = sent /\ cur' = cur
      /\ pc[User] = "alloc" /\ stack[User] \in {<<"write_copy">>, <<"close">>}
  BY Names, MutationStack
     DEF WriteInv, BytesInv, AllocAction, private, userVars, locks, At, AllocLabels
<1>1. PICK c \in {"write", "close"} :
         /\ stack[User] = IF c = "close" THEN <<"close">> ELSE <<"write_copy">>
         /\ act' = [NoAction EXCEPT !.cmd = c, !.status = "initiated"]
  <2>1. CASE stack[User] = <<"close">>
    <3>1. Head(stack[User]) = "close"
      BY <2>1, Stacks
    <3> QED BY <1>0, <2>1, <3>1 DEF AllocAction
  <2>2. CASE stack[User] = <<"write_copy">>
    <3>1. Head(stack[User]) = "write_copy"
      BY <2>2, Stacks
    <3> QED BY <1>0, <2>2, <3>1 DEF AllocAction
  <2> QED BY <1>0, <2>1, <2>2
<1>2. act'.cmd = c /\ act'.accum = <<>> /\ act'.wqueue = <<>> /\ act'.batch = <<>>
  BY <1>1 DEF NoAction
<1>3. Moved(User, "unlock", stack[User])
  BY <1>0, Moves DEF AllocAction, Labels
<1>4. /\ pc'[User] = "unlock" /\ stack'[User] = stack[User] /\ pc'[Slow] = pc[Slow]
      /\ pc'[Writer] = pc[Writer] /\ \A d \in Disk : pc'[d] = pc[d]
  BY <1>3, Names DEF Moved
<1>5. PageInv' /\ Taken' = Taken
  BY <1>0 DEF PageInv, Taken, Base, diskVars
<1>6. CASE c = "close"
  <2>1. Ending /\ Ending'
    BY <1>1, <1>4, <1>6 DEF Ending
  <2> QED BY <1>0, <1>2, <1>5, <2>1, Ended DEF diskVars
<1>7. CASE c = "write"
  <2>1. stack[User] = <<"write_copy">> /\ act.cmd = "none"
    BY <1>0, <1>1, <1>7 DEF LifeInv, AllocLabels
  <2>2. ~Ending /\ ~Ending'
    BY <1>0, <1>4, <2>1, Stacks DEF Ending, EndLabels
  <2>3. /\ sent = 0 /\ page.index = 0 /\ page.data = <<>> /\ ~page.dirty /\ disk = <<>>
        /\ jobs = <<>> /\ ~Working
        /\ pc[Slow] \notin PostLabels /\ pc[Writer] = "idle" /\ events = <<>>
    BY <1>0, <2>1, <2>2 DEF BytesInv, FreshInv, LifeInv
  <2>4. ~Waiting' /\ ~Working' /\ ~Reported' /\ ~Clearing'
    <3>1. Len(events') = 0
      BY <1>0, <2>3
    <3> QED BY <1>0, <1>4, <2>3, <3>1 DEF Waiting, Working, Reported, Clearing, diskVars
  <2>5. BatchInv'
    <3>1. todo' \in [Disk -> Seq(Tasks)] /\ jobs' = <<>> /\ Len(events') = 0
      BY <1>0, <2>3 DEF BatchInv, diskVars
    <3>2. \A d \in Disk : pc'[d] \notin {"start", "io"}
      BY <2>4 DEF Working
    <3> QED BY <1>2, <1>7, <2>4, <3>1, <3>2 DEF BatchInv
  <2>6. Outstanding' = <<>> /\ Hand' = <<>>
    <3>1. OutIs' /\ HandIs'
      BY <1>0, <2>5, FactsAfter
    <3>2. pc'[User] # "enqueue" /\ pc'[Slow] # "enqueue"
      BY <1>4, <2>3 DEF PostLabels
    <3> QED BY <1>2, <1>7, <2>4, <3>1, <3>2 DEF OutIs, HandIs
  <2>7. Pending' = <<>>
    <3>1. <<>> \in Seq(Tasks)
      OBVIOUS
    <3> QED BY <1>2, <2>6, <3>1, QueueEmpty DEF Pending
  <2>8. OrderInv'
    <3>1. Taken' = 0 /\ sent' = 0 /\ Requested' = 0 /\ Len(act'.accum) = 0
      <4>1. Taken = 0
        BY <2>3, EfAssumption DEF Taken, Base
      <4>2. Taken' = 0 /\ sent' = 0
        BY <1>0, <1>5, <2>3, <4>1
      <4>3. Len(act'.accum) = 0
        BY <1>2
      <4>4. Requested' = sent' - Len(act'.accum)
        BY DEF Requested
      <4>5. 0 - 0 = 0
        OBVIOUS
      <4> QED BY <4>2, <4>3, <4>4, <4>5
    <3>2. Span(0, 0) = <<>> /\ InOrder(<<>>, 0, 0)
      BY SpanEmpty, OrderNone
    <3> QED BY <1>2, <2>7, <3>1, <3>2, EfAssumption DEF OrderInv
  <2>9. FreshInv' /\ EndInv'
    BY <1>2, <1>7, <2>2 DEF FreshInv, EndInv
  <2>10. FlushInv'
    BY <1>4 DEF FlushInv
  <2>11. CloseInv'
    <3>1. stack'[User] # <<"close_alloc">> /\ stack'[User] # <<"sync_resume", "close_compare">>
      BY <1>4, <2>1, Stacks
    <3>2. ~PastFlush' /\ ~PastFsync' /\ ~PastCompare'
      BY <1>4, <3>1 DEF PastFlush, PastFsync, PastCompare
    <3> QED BY <3>2 DEF CloseInv
  <2> QED BY <1>5, <2>5, <2>8, <2>9, <2>10, <2>11 DEF BytesInv
<1> QED BY <1>6, <1>7

-----------------------------------------------------------------------------
(* ef_close hands the file over, by itself or to the pool.                 *)
LEMMA HandOverBytes ==
    ASSUME WriteInv, WriteInv', BytesInv, CloseHandOver
    PROVE  BytesInv'
<1>0. /\ TypeInv /\ PageInv /\ User \in Procs /\ pc[User] = "close" /\ act' = act /\ file' = file
      /\ page' = page /\ disk' = disk /\ todo' = todo /\ sent' = sent
  BY Names DEF WriteInv, BytesInv, CloseHandOver, At, private, userVars
<1>1. pc'[User] \in {"file_close", "done"}
  BY <1>0 DEF CloseHandOver, Jump, Goto, TypeInv
<1>2. Ending /\ Ending' /\ act.cmd # "write"
  BY <1>0, <1>1 DEF Ending, EndLabels, WriteInv, LifeInv
<1>3. PageInv'
  BY <1>0 DEF PageInv, Base, Taken
<1>4. act'.accum = <<>> /\ act'.wqueue = <<>> /\ act'.batch = <<>>
  BY <1>0, <1>2 DEF BytesInv, BatchInv
<1> QED BY <1>0, <1>2, <1>3, <1>4, Ended

(* ef_file_close and ef_close_status: the file has all the bytes and       *)
(* keeps them.                                                             *)
LEMMA FileCloseBytes ==
    ASSUME WriteInv, WriteInv', BytesInv, NEW p \in {User} \cup Disk, file_close(p)
    PROVE  BytesInv'
<1>0. /\ TypeInv /\ PlaceInv /\ PageInv /\ BatchInv /\ p \in Procs /\ act \in Actions
      /\ disk' = disk /\ todo' = todo /\ sent' = sent
      /\ pc[p] \in {"file_close", "close_lock", "close_cleanup"}
      /\ \A q \in Procs \ {p} : pc'[q] = pc[q]
  BY Names DEF WriteInv, BytesInv, TypeInv, file_close, FileClose, CloseStatusLock, CloseStatusCleanup, At,
               private, userVars, diskVars, Jump, Goto, Call
<1>1. Ending /\ act.cmd # "write"
  <2>1. CASE p = User
    BY <1>0, <2>1 DEF Ending, EndLabels, WriteInv, LifeInv
  <2>2. CASE p \in Disk
    <3>1. pc[User] = "done"
      BY <1>0, <2>2 DEF PlaceInv, DiskPlace, FreeLabels
    <3> QED BY <3>1, EndOfDone
  <2> QED BY <2>1, <2>2
<1>2. Ending'
  <2>1. CASE p = User
    <3>1. stack[User] = <<>>
      BY <1>0, <2>1, CallStack DEF CallLabels, EndLabels
    <3>2. /\ pc'[User] \in Labels /\ User \in Procs
          /\ \/ Jump(User, "close_lock") \/ Call(User, "free_lock", "done")
             \/ Jump(User, "close_cleanup") \/ Jump(User, "done")
      BY <1>0, <2>1 DEF file_close, FileClose, CloseStatusLock, CloseStatusCleanup, Finished, WriteInv, TypeInv
    <3>3. \/ Moved(User, "close_lock", <<>>) \/ Moved(User, "free_lock", <<"done">>)
          \/ Moved(User, "close_cleanup", <<>>) \/ Moved(User, "done", <<>>)
      BY <1>0, <3>1, <3>2, Moves, Calls DEF Labels
    <3> QED BY <3>3 DEF Moved, Ending, EndLabels
  <2>2. CASE p \in Disk
    <3>1. pc[User] = "done"
      BY <1>0, <2>2 DEF PlaceInv, DiskPlace, FreeLabels
    <3>2. pc'[User] = "done"
      BY <1>0, <2>2, <3>1, Names
    <3> QED BY <3>2 DEF Ending, EndLabels
  <2> QED BY <2>1, <2>2
<1>3. act.accum = <<>> /\ act.wqueue = <<>> /\ act.batch = <<>>
  BY <1>0, <1>1 DEF BatchInv
<1>4. CASE FileClose(p)
  <2>1. file' = "closed" /\ page' = [page EXCEPT !.data = <<>>] /\ act' = [act EXCEPT !.status = "complete"]
    BY <1>4 DEF FileClose
  <2>2. act'.accum = <<>> /\ act'.wqueue = <<>> /\ act'.batch = <<>>
    BY <1>0, <1>3, <2>1, SetStatus
  <2>3. /\ page' \in [index : Nat, data : Seq(Int), dirty : BOOLEAN]
        /\ page'.index = page.index /\ page'.dirty = page.dirty /\ page'.data = <<>>
    <3>1. page \in [index : Nat, data : Seq(Int), dirty : BOOLEAN] /\ <<>> \in Seq(Int)
      BY <1>0 DEF PageInv
    <3>2. page' \in [index : Nat, data : Seq(Int), dirty : BOOLEAN]
      BY <2>1, <3>1
    <3>3. page'.index = page.index /\ page'.data = <<>>
      BY <2>1, <3>1
    <3>4. page'.dirty = page.dirty
      BY <2>1, <3>1
    <3> QED BY <3>2, <3>3, <3>4
  <2>4. Base' = Base /\ Taken' = Base /\ Base \in Nat
    <3>1. Base \in Nat
      BY <1>0, TakenType
    <3>2. Base' = Base /\ Len(page'.data) = 0
      BY <2>3 DEF Base
    <3>3. Taken' = Base' + Len(page'.data)
      BY DEF Taken
    <3> QED BY <3>1, <3>2, <3>3
  <2>5. page'.data = Span(Base', Taken')
    BY <2>3, <2>4, SpanEmpty
  <2>6. PageInv'
    BY <1>0, <2>1, <2>3, <2>4, <2>5 DEF PageInv
  <2> QED BY <1>0, <1>1, <1>2, <2>1, <2>2, <2>3, <2>6, Ended
<1>5. CASE CloseStatusLock(p)
  <2>1. act' = act /\ file' = file /\ page' = page
    BY <1>5 DEF CloseStatusLock, diskVars
  <2>2. PageInv'
    BY <1>0, <2>1 DEF PageInv, Base, Taken
  <2> QED BY <1>0, <1>1, <1>2, <1>3, <2>1, <2>2, Ended
<1>6. CASE CloseStatusCleanup(p)
  <2>1. act' = NoAction /\ file' = "freed" /\ page' = page
    BY <1>6 DEF CloseStatusCleanup, diskVars
  <2>2. PageInv'
    BY <1>0, <2>1 DEF PageInv, Base, Taken
  <2>3. act'.accum = <<>> /\ act'.wqueue = <<>> /\ act'.batch = <<>>
    BY <2>1 DEF NoAction
  <2> QED BY <1>0, <1>1, <1>2, <2>1, <2>2, <2>3, Ended
<1> QED BY <1>4, <1>5, <1>6 DEF file_close

-----------------------------------------------------------------------------
(* file_writer or a disk thread moves and leaves what is pending as it is. *)
LEMMA ServerQuiet ==
    ASSUME WriteInv, BytesInv, NEW p \in {Writer} \cup Disk,
           \A q \in Procs \ {p} : pc'[q] = pc[q] /\ stack'[q] = stack[q],
           act.cmd = "write", act'.cmd = "write", act'.accum = act.accum,
           act'.status = act.status \/ act'.status = "progress",
           file' = file, page' = page, disk' = disk, sent' = sent,
           BatchInv', Pending' = Pending
    PROVE  BytesInv'
<1>1. /\ pc'[User] = pc[User] /\ stack'[User] = stack[User] /\ pc'[Slow] = pc[Slow]
  BY Names
<1>2. PageInv' /\ Taken' = Taken
  BY DEF BytesInv, PageInv, Base, Taken
<1>3. OrderInv'
  <2>1. Requested' = Requested
    BY DEF Requested
  <2> QED BY <1>2, <2>1 DEF BytesInv, OrderInv
<1>4. (Ending' <=> Ending) /\ (PastFlush' <=> PastFlush) /\ (PastFsync' <=> PastFsync) /\ FlushInv'
  BY <1>1 DEF Ending, PastFlush, PastFsync, BytesInv, FlushInv
<1>5. PastCompare' => PastCompare
  BY <1>1 DEF PastCompare
<1>6. ~Ending /\ ~Ending'
  BY <1>4 DEF WriteInv, LifeInv
<1>7. FreshInv' /\ EndInv'
  BY <1>6 DEF FreshInv, EndInv
<1>8. CloseInv'
  <2>1. PastFlush' => act'.accum = <<>> /\ pc'[Slow] # "flush"
    BY <1>1, <1>4 DEF BytesInv, CloseInv
  <2>2. PastFsync' => IF Pending' = <<>> THEN ~page'.dirty
                      ELSE Pending'[Len(Pending')].cmd = "fsync"
    BY <1>4 DEF BytesInv, CloseInv
  <2>3. PastCompare' => /\ \A k \in 1..Len(Pending') : Pending'[k].cmd = "fsync"
                        /\ ~page'.dirty /\ Taken' = sent'
    BY <1>2, <1>5 DEF BytesInv, CloseInv
  <2> QED BY <2>1, <2>2, <2>3 DEF CloseInv
<1> QED BY <1>2, <1>3, <1>4, <1>7, <1>8 DEF BytesInv

(* The same when there is no write action any more.                        *)
LEMMA ServerEnded ==
    ASSUME WriteInv, WriteInv', BytesInv, NEW p \in {Writer} \cup Disk, Ending,
           \A q \in Procs \ {p} : pc'[q] = pc[q] /\ stack'[q] = stack[q],
           act' = act, file' = file, page' = page, disk' = disk, sent' = sent, todo' = todo
    PROVE  BytesInv'
<1>1. pc'[User] = pc[User] /\ stack'[User] = stack[User]
  BY Names
<1>2. Ending' /\ act.cmd # "write"
  BY <1>1 DEF Ending, WriteInv, LifeInv
<1>3. /\ PageInv' /\ act'.accum = <<>> /\ act'.wqueue = <<>> /\ act'.batch = <<>>
  BY <1>2 DEF BytesInv, BatchInv, PageInv, Base, Taken
<1> QED BY <1>2, <1>3, Ended

(* What is out is the same as long as batch, jobs, todo and the disk       *)
(* threads are.                                                            *)
LEMMA OutSame ==
    ASSUME TypeInv, TypeInv', BatchInv, BatchInv', act.cmd = "write", act'.cmd = "write",
           act'.batch = act.batch, jobs' = jobs, todo' = todo, \A d \in Disk : pc'[d] = pc[d]
    PROVE  Outstanding' = Outstanding
<1>1. OutIs /\ OutIs'
  BY OutFacts, FactsAfter
<1>2. CASE Waiting
  BY <1>1, <1>2 DEF OutIs, Waiting
<1>3. CASE \E d \in Disk : pc[d] \in {"start", "io"}
  BY <1>1, <1>3 DEF OutIs
<1>4. CASE ~Waiting /\ ~Working
  BY <1>1, <1>4 DEF OutIs, Waiting, Working
<1> QED BY <1>2, <1>3, <1>4 DEF Working

(* file_writer takes an event.                                             *)
LEMMA TakeEventBytes ==
    ASSUME WriteInv, WriteInv', BytesInv, WriterTakeEvent
    PROVE  BytesInv'
<1>0. /\ TypeInv /\ TypeInv' /\ LifeInv /\ BatchInv /\ Writer \in Procs /\ pc[Writer] = "idle"
      /\ events \in Seq({"req", "cmpl"}) /\ events # <<>>
      /\ events' = Tail(events) /\ act' = act /\ file' = file /\ page' = page /\ disk' = disk
      /\ jobs' = jobs /\ todo' = todo /\ sent' = sent /\ cur' = cur
  BY Names DEF WriteInv, BytesInv, TypeInv, WriterTakeEvent, At, private, userVars, diskVars
<1>1. /\ Len(events) \in Nat /\ Len(events) # 0 /\ Head(events) = events[1] /\ events[1] \in {"req", "cmpl"}
      /\ Len(events') = Len(events) - 1 /\ \A i \in 1..Len(events') : events'[i] = events[i + 1]
  <2>1. Len(events) \in Nat /\ Len(events) # 0
    BY <1>0, EmptySeq
  <2>2. Head(events) = events[1] /\ events[1] \in {"req", "cmpl"}
    BY <1>0, <2>1
  <2> QED BY <1>0, <2>1, <2>2, HeadTailProperties
<1>2. /\ pc'[Writer] = events[1]
      /\ \A q \in Procs \ {Writer} : pc'[q] = pc[q] /\ stack'[q] = stack[q]
  BY <1>0, <1>1 DEF WriterTakeEvent, Jump, Goto, TypeInv
<1>3. CASE Ending
  BY <1>0, <1>2, <1>3, ServerEnded
<1>4. CASE ~Ending
  <2>1. act.cmd = "write"
    BY <1>0, <1>4 DEF LifeInv
  <2>2. \A d \in Disk : pc'[d] = pc[d]
    BY <1>2, Names
  <2>3. pc'[User] = pc[User] /\ pc'[Slow] = pc[Slow]
    BY <1>2, Names
  <2>4. (Waiting' <=> Waiting) /\ (Working' <=> Working) /\ ~Clearing
    BY <1>0, <2>2 DEF Waiting, Working, Clearing
  <2>5. \A i, j \in 1..Len(events) : events[i] = "cmpl" /\ events[j] = "cmpl" => i = j
    BY <1>0, <2>1 DEF BatchInv
  <2>6. \A i \in 1..Len(events') : i + 1 \in 1..Len(events) /\ i + 1 # 1 /\ 1 \in 1..Len(events)
    BY <1>1
  <2>7. \A i, j \in 1..Len(events') : events'[i] = "cmpl" /\ events'[j] = "cmpl" => i = j
    <3> SUFFICES ASSUME NEW i \in 1..Len(events'), NEW j \in 1..Len(events'),
                        events'[i] = "cmpl", events'[j] = "cmpl"
                 PROVE  i = j
      OBVIOUS
    <3>1. i + 1 = j + 1
      BY <1>1, <2>5, <2>6
    <3> QED BY <1>1, <3>1
  <2>8. CASE events[1] = "cmpl"
    <3>1. Reported /\ ~Reported' /\ Clearing' /\ pc'[Writer] = "cmpl"
      <4>1. Reported
        BY <1>1, <2>8 DEF Reported
      <4>2. ~Reported'
        BY <1>1, <2>5, <2>6, <2>8 DEF Reported
      <4> QED BY <1>2, <2>8, <4>1, <4>2 DEF Clearing
    <3>2. ~Waiting /\ ~Working /\ act.batch # <<>>
      BY <1>0, <2>1, <3>1 DEF BatchInv
    <3> QED
      <4>1. BatchInv'
        <5>1. /\ todo' \in [Disk -> Seq(Tasks)] /\ jobs' \in {<<>>, <<"write">>}
              /\ \A c, d \in Disk : pc'[c] \in {"start", "io"} /\ pc'[d] \in {"start", "io"} => c = d
          BY <1>0, <2>1, <2>2 DEF BatchInv
        <5>2. /\ Waiting' => ~Working'
              /\ Waiting' \/ Working' => ~Reported'
              /\ Waiting' \/ Working' \/ Reported' => ~Clearing'
              /\ Waiting' \/ Working' \/ Reported' \/ Clearing' => pc'[Writer] # "next"
              /\ act'.batch # <<>> <=> Waiting' \/ Working' \/ Reported' \/ Clearing'
          BY <1>0, <2>4, <3>1, <3>2
        <5> QED BY <1>0, <2>1, <2>7, <5>1, <5>2 DEF BatchInv
      <4>2. Outstanding' = Outstanding
        BY <1>0, <2>1, <2>2, <4>1, OutSame
      <4>3. Hand' = Hand
        BY <1>0, <2>3, HandFacts, FactsAfter DEF HandIs
      <4>4. Pending' = Pending
        BY <1>0, <4>2, <4>3 DEF Pending
      <4> QED BY <1>0, <1>2, <2>1, <4>1, <4>4, ServerQuiet
  <2>9. CASE events[1] = "req"
    <3>1. Reported' <=> Reported
      <4>1. ASSUME Reported PROVE Reported'
        <5>1. PICK i \in 1..Len(events) : events[i] = "cmpl"
          BY <4>1 DEF Reported
        <5>2. i # 1
          BY <2>9, <5>1
        <5>3. i - 1 \in 1..Len(events') /\ (i - 1) + 1 = i
          BY <1>1, <5>2
        <5>4. events'[i - 1] = events[i]
          BY <1>1, <5>3
        <5> QED BY <5>1, <5>3, <5>4 DEF Reported
      <4>2. ASSUME Reported' PROVE Reported
        BY <1>1, <2>6, <4>2 DEF Reported
      <4> QED BY <4>1, <4>2
    <3>2. ~Clearing' /\ pc'[Writer] # "next"
      BY <1>2, <2>9 DEF Clearing
    <3>3. BatchInv'
      <4>1. /\ todo' \in [Disk -> Seq(Tasks)] /\ jobs' \in {<<>>, <<"write">>}
            /\ \A c, d \in Disk : pc'[c] \in {"start", "io"} /\ pc'[d] \in {"start", "io"} => c = d
        BY <1>0, <2>1, <2>2 DEF BatchInv
      <4>2. /\ Waiting' => ~Working'
            /\ Waiting' \/ Working' => ~Reported'
            /\ Waiting' \/ Working' \/ Reported' => ~Clearing'
            /\ Waiting' \/ Working' \/ Reported' \/ Clearing' => pc'[Writer] # "next"
            /\ act'.batch # <<>> <=> Waiting' \/ Working' \/ Reported' \/ Clearing'
        BY <1>0, <2>1, <2>4, <3>1, <3>2 DEF BatchInv
      <4> QED BY <1>0, <2>1, <2>7, <4>1, <4>2 DEF BatchInv
    <3>4. Outstanding' = Outstanding
      BY <1>0, <2>1, <2>2, <3>3, OutSame
    <3>5. Hand' = Hand
      BY <1>0, <2>3, HandFacts, FactsAfter DEF HandIs
    <3>6. Pending' = Pending
      BY <1>0, <3>4, <3>5 DEF Pending
    <3> QED BY <1>0, <1>2, <2>1, <3>3, <3>6, ServerQuiet
  <2> QED BY <1>1, <2>8, <2>9
<1> QED BY <1>3, <1>4

(* file_writer frees the batch that is finished.                           *)
LEMMA ClearBytes ==
    ASSUME WriteInv, WriteInv', BytesInv, WriterClear
    PROVE  BytesInv'
<1>0. /\ TypeInv /\ TypeInv' /\ BatchInv /\ Writer \in Procs /\ pc[Writer] = "cmpl" /\ act \in Actions
      /\ act.cmd = "write" /\ act' = [act EXCEPT !.batch = <<>>] /\ events' = events
      /\ file' = file /\ page' = page /\ disk' = disk
      /\ jobs' = jobs /\ todo' = todo /\ sent' = sent /\ cur' = cur
  BY Names DEF WriteInv, BytesInv, TypeInv, WriterClear, At, LiveWrite, userVars, diskVars
<1>1. act'.cmd = act.cmd /\ act'.accum = act.accum /\ act'.wqueue = act.wqueue /\ act'.batch = <<>>
      /\ act'.status = act.status
  BY <1>0 DEF Actions
<1>2. /\ pc'[Writer] = "next"
      /\ \A q \in Procs \ {Writer} : pc'[q] = pc[q] /\ stack'[q] = stack[q]
  BY <1>0 DEF WriterClear, Jump, Goto, TypeInv
<1>3. \A d \in Disk : pc'[d] = pc[d]
  BY <1>2, Names
<1>4. Clearing /\ ~Waiting /\ ~Working /\ ~Reported
  BY <1>0 DEF BatchInv, Clearing
<1>5. ~Clearing' /\ ~Waiting' /\ ~Working' /\ ~Reported'
  BY <1>0, <1>2, <1>3, <1>4 DEF Clearing, Waiting, Working, Reported
<1>6. BatchInv'
  <2>1. /\ todo' \in [Disk -> Seq(Tasks)] /\ jobs' \in {<<>>, <<"write">>}
        /\ \A c, d \in Disk : pc'[c] \in {"start", "io"} /\ pc'[d] \in {"start", "io"} => c = d
        /\ \A i, j \in 1..Len(events') : events'[i] = "cmpl" /\ events'[j] = "cmpl" => i = j
    BY <1>0, <1>3 DEF BatchInv
  <2> QED BY <1>0, <1>1, <1>5, <2>1 DEF BatchInv
<1>7. Outstanding' = Outstanding
  BY <1>0, <1>1, <1>4, <1>5, <1>6, OutFacts, FactsAfter DEF OutIs
<1>8. Hand' = Hand
  <2>1. pc'[User] = pc[User] /\ pc'[Slow] = pc[Slow]
    BY <1>2, Names
  <2> QED BY <1>0, <2>1, HandFacts, FactsAfter DEF HandIs
<1>9. Pending' = Pending
  BY <1>1, <1>7, <1>8 DEF Pending
<1> QED BY <1>0, <1>1, <1>2, <1>6, <1>9, ServerQuiet

(* What is queued becomes the batch, when no batch is out.                 *)
LEMMA BatchBytes ==
    ASSUME WriteInv, WriteInv', BytesInv, act.cmd = "write", act.batch = <<>>,
           act' = TakeBatch(act), StartBatch, NEW l \in {"count", "idle"}, Jump(Writer, l),
           UNCHANGED <<file, events, page, disk, todo, private>>
    PROVE  BytesInv'
<1>0. /\ TypeInv /\ TypeInv' /\ BatchInv /\ Writer \in Procs /\ act \in Actions
      /\ file' = file /\ page' = page /\ disk' = disk /\ todo' = todo /\ sent' = sent /\ cur' = cur
      /\ events' = events
  BY Names DEF WriteInv, BytesInv, TypeInv, private, userVars
<1>a. /\ act.wqueue \in Seq(Tasks) /\ Len(act.wqueue) \in Nat /\ act.req \in Nat
  BY <1>0, Fields
<1> DEFINE r == act.req + Len(act.wqueue)
<1>b. act' = [act EXCEPT !.batch = act.wqueue, !.wqueue = <<>>, !.req = r]
  BY DEF TakeBatch
<1>c. r \in Nat
  BY <1>a
<1> HIDE DEF r
<1>1. act'.cmd = act.cmd /\ act'.accum = act.accum /\ act'.wqueue = <<>> /\ act'.batch = act.wqueue
      /\ act'.status = act.status
  BY <1>0, <1>b, <1>c DEF Actions
<1>2. /\ pc'[Writer] = l
      /\ \A q \in Procs \ {Writer} : pc'[q] = pc[q] /\ stack'[q] = stack[q]
  BY <1>0 DEF Jump, Goto, TypeInv
<1>3. /\ \A d \in Disk : pc'[d] = pc[d]
      /\ pc'[User] = pc[User] /\ pc'[Slow] = pc[Slow]
  BY <1>2, Names
<1>4. ~Clearing /\ ~Waiting /\ ~Working /\ ~Reported
  BY <1>0 DEF BatchInv
<1>5. ~Clearing' /\ ~Working' /\ ~Reported' /\ pc'[Writer] # "next"
  BY <1>0, <1>2, <1>3, <1>4 DEF Clearing, Working, Reported
<1>6. jobs' = IF act.wqueue = <<>> THEN <<>> ELSE <<"write">>
  BY <1>4 DEF StartBatch, Waiting
<1>7. Waiting' <=> act.wqueue # <<>>
  BY <1>6 DEF Waiting
<1>8. BatchInv'
  <2>1. /\ todo' \in [Disk -> Seq(Tasks)] /\ jobs' \in {<<>>, <<"write">>}
        /\ \A c, d \in Disk : pc'[c] \in {"start", "io"} /\ pc'[d] \in {"start", "io"} => c = d
        /\ \A i, j \in 1..Len(events') : events'[i] = "cmpl" /\ events'[j] = "cmpl" => i = j
    BY <1>0, <1>3, <1>6 DEF BatchInv
  <2> QED BY <1>1, <1>5, <1>7, <2>1 DEF BatchInv
<1>9. Outstanding = <<>> /\ Outstanding' = act.wqueue
  <2>1. OutIs /\ OutIs'
    BY <1>0, <1>8, OutFacts, FactsAfter
  <2> QED BY <1>1, <1>4, <1>5, <1>7, <2>1 DEF OutIs
<1>10. Hand' = Hand /\ Hand \in Seq(Tasks)
  BY <1>0, <1>3, HandFacts, FactsAfter DEF HandIs
<1>11. Pending' = Pending
  <2>1. <<>> \o act.wqueue \o Hand = act.wqueue \o <<>> \o Hand
    BY <1>a, <1>10, QueueEmpty
  <2> QED BY <1>1, <1>9, <1>10, <2>1 DEF Pending
<1> QED BY <1>0, <1>1, <1>2, <1>8, <1>11, ServerQuiet

(* file_writer only counts, or finds that a batch is out.                  *)
LEMMA CountedBytes ==
    ASSUME WriteInv, WriteInv', BytesInv, act.cmd = "write", NEW n \in Nat,
           act' = [act EXCEPT !.cmpl = n], pc[Writer] \in {"count", "req"}, Jump(Writer, "idle"),
           UNCHANGED <<file, events, jobs, page, disk, todo, cur, sent>>
    PROVE  BytesInv'
<1>0. TypeInv /\ TypeInv' /\ BatchInv /\ Writer \in Procs /\ act \in Actions
  BY Names DEF WriteInv, BytesInv, TypeInv
<1>1. act'.cmd = act.cmd /\ act'.accum = act.accum /\ act'.wqueue = act.wqueue /\ act'.batch = act.batch
      /\ act'.status = act.status
  BY <1>0 DEF Actions
<1>2. /\ pc'[Writer] = "idle"
      /\ \A q \in Procs \ {Writer} : pc'[q] = pc[q] /\ stack'[q] = stack[q]
  BY <1>0 DEF Jump, Goto, TypeInv
<1>3. /\ \A d \in Disk : pc'[d] = pc[d]
      /\ pc'[User] = pc[User] /\ pc'[Slow] = pc[Slow]
  BY <1>2, Names
<1>4. (Waiting' <=> Waiting) /\ (Working' <=> Working) /\ (Reported' <=> Reported) /\ ~Clearing /\ ~Clearing'
  BY <1>2, <1>3 DEF Clearing, Waiting, Working, Reported
<1>5. BatchInv'
  <2>1. /\ todo' \in [Disk -> Seq(Tasks)] /\ jobs' \in {<<>>, <<"write">>}
        /\ \A c, d \in Disk : pc'[c] \in {"start", "io"} /\ pc'[d] \in {"start", "io"} => c = d
        /\ \A i, j \in 1..Len(events') : events'[i] = "cmpl" /\ events'[j] = "cmpl" => i = j
    BY <1>0, <1>3 DEF BatchInv
  <2>2. /\ Waiting' => ~Working'
        /\ Waiting' \/ Working' => ~Reported'
        /\ act'.batch # <<>> <=> Waiting' \/ Working' \/ Reported' \/ Clearing'
    BY <1>0, <1>1, <1>4 DEF BatchInv
  <2> QED BY <1>1, <1>2, <1>4, <2>1, <2>2 DEF BatchInv
<1>6. Outstanding' = Outstanding
  BY <1>0, <1>1, <1>3, <1>5, OutSame
<1>7. Hand' = Hand
  BY <1>3, HandFacts, FactsAfter DEF HandIs
<1>8. Pending' = Pending
  BY <1>1, <1>6, <1>7 DEF Pending
<1> QED BY <1>1, <1>2, <1>5, <1>8, ServerQuiet

(* The steps of file_writer.                                               *)
LEMMA WriterBytes ==
    ASSUME WriteInv, WriteInv', BytesInv, file_writer
    PROVE  BytesInv'
<1>0. TypeInv /\ CountInv /\ act \in Actions /\ cleared \in Nat
  BY DEF WriteInv, TypeInv
<1>1. CASE WriterNextBatch
  <2>1. act.cmd = "write" /\ act.batch = <<>>
    BY <1>0, <1>1 DEF WriterNextBatch, CountInv, At, LiveWrite
  <2> QED BY <1>1, <2>1, BatchBytes DEF WriterNextBatch, private, userVars
<1>2. CASE WriterCount
  <2>1. act.cmpl + cleared \in Nat /\ act.cmd = "write"
    BY <1>0, <1>2, Fields DEF WriterCount, LiveWrite
  <2> QED BY <1>2, <2>1, CountedBytes DEF WriterCount, At, diskVars, userVars
<1>3. CASE WriterRequest
  <2>1. act.cmd = "write" /\ pc[Writer] = "req" /\ cleared = 0
    BY <1>0, <1>3 DEF WriterRequest, LiveWrite, At, CountInv
  <2>2. CASE act.req # act.cmpl
    <3>1. act' = [act EXCEPT !.cmpl = act.cmpl] /\ act.cmpl \in Nat
      BY <1>0, <1>3, <2>2, Fields DEF WriterRequest, Actions
    <3> QED BY <1>3, <2>1, <2>2, <3>1, CountedBytes DEF WriterRequest, private, userVars
  <2>3. CASE act.req = act.cmpl
    <3>1. act.req \in Nat /\ act.batch \in Seq(Tasks) /\ Len(act.batch) \in Nat
          /\ act.req = act.cmpl + cleared + Len(act.batch)
      BY <1>0, <2>1, Fields DEF CountInv
    <3>2. Len(act.batch) = 0
      BY <2>1, <2>3, <3>1
    <3>3. act.batch = <<>>
      BY <3>1, <3>2, EmptySeq
    <3> QED BY <1>3, <2>1, <2>3, <3>3, BatchBytes DEF WriterRequest, private, userVars
  <2> QED BY <2>2, <2>3
<1> QED BY <1>1, <1>2, <1>3, TakeEventBytes, ClearBytes DEF file_writer

-----------------------------------------------------------------------------
(* The whole pages among the bytes from the page i, that starts at a, to c.*)
LEMMA WholePages ==
    ASSUME NEW s \in Nat \ {0}, NEW i \in Nat, NEW a \in Nat, a = i * s, NEW c \in Nat, a <= c,
           NEW g, g = (c - a) \div s, NEW f, f = g * s
    PROVE  /\ g \in Nat /\ f \in Nat /\ f <= c - a /\ (c - a) - f < s
           /\ g = 0 => f = 0
           /\ (i + g) * s = a + f
<1> DEFINE n == c - a
<1>1. n \in Nat
  OBVIOUS
<1> HIDE DEF n
<1>2. n \div s \in Nat /\ (n \div s) * s \in Nat /\ (n \div s) * s <= n /\ n - (n \div s) * s < s
  BY <1>1, Pages
<1>3. g = n \div s
  BY DEF n
<1>4. g \in Nat /\ f \in Nat /\ f <= n /\ n - f < s
  BY <1>2, <1>3
<1>5. (i + g) * s = i * s + g * s
  <2>1. \A x, y, z \in Nat : (x + y) * z = x * z + y * z
    OBVIOUS
  <2> QED BY <1>4, <2>1
<1>6. g = 0 => f = 0
  OBVIOUS
<1> QED BY <1>4, <1>5, <1>6 DEF n

(* What f bytes of those from a to c leave, and what they add.             *)
LEMMA SpanParts ==
    ASSUME NEW a \in Nat, NEW c \in Nat, a <= c, NEW f \in Nat, f <= c - a
    PROVE  /\ Len(Span(a, c)) = c - a
           /\ Part(Span(a, c), f + 1, c - a) = Span(a + f, c)
           /\ Span(0, a) \o Part(Span(a, c), 1, f) = Span(0, a + f)
<1>1. 0 \in Nat /\ 0 <= f /\ 0 <= a /\ c - a \in Nat /\ c - a <= c - a /\ a + f \in Nat /\ a <= a + f
  OBVIOUS
<1>2. Len(Span(a, c)) = c - a
  BY SpanIs
<1>3. Part(Span(a, c), f + 1, c - a) = Span(a + f, a + (c - a))
  BY <1>1, SpanPart
<1>4. Part(Span(a, c), 0 + 1, f) = Span(a + 0, a + f)
  <2> DEFINE z == 0
  <2>1. z \in Nat /\ z <= f
    BY <1>1
  <2> HIDE DEF z
  <2>2. Part(Span(a, c), z + 1, f) = Span(a + z, a + f)
    BY <2>1, SpanPart
  <2> QED BY <2>2 DEF z
<1>5. a + (c - a) = c /\ 0 + 1 = 1 /\ a + 0 = a
  OBVIOUS
<1>6. Span(0, a) \o Span(a, a + f) = Span(0, a + f)
  BY <1>1, SpanConcat
<1> QED BY <1>2, <1>3, <1>4, <1>5, <1>6

(* The bytes below the page buffer are the first ones.                     *)
LEMMA BelowIs == PageInv => Below(page) = Span(0, Base)
<1> SUFFICES ASSUME PageInv PROVE Below(page) = Span(0, Base)
  OBVIOUS
<1> DEFINE n == Len(disk)
           b == Base
<1>1. b \in Nat /\ n \in Nat /\ b <= n
  BY TakenType DEF PageInv
<1>2. disk = Span(0, n) /\ Below(page) = Part(disk, 1, b)
  BY DEF PageInv, Below, Base, Part
<1> HIDE DEF n, b
<1>3. Part(Span(0, n), 0 + 1, b) = Span(0 + 0, 0 + b)
  <2>1. 0 \in Nat /\ 0 <= n /\ 0 <= b /\ b <= n - 0
    BY <1>1
  <2> QED BY <1>1, <2>1, SpanPart
<1>4. 0 + 1 = 1 /\ 0 + 0 = 0 /\ 0 + b = b
  BY <1>1
<1>5. Part(Span(0, n), 1, b) = Span(0, b)
  BY <1>3, <1>4
<1>6. Below(page) = Span(0, b)
  BY <1>2, <1>5
<1> QED BY <1>6 DEF b

(* ef_one_single_write takes the bytes up to the c-th into the page buffer *)
(* and writes the pages that are full.                                     *)
TakeBytes(c) ==
    LET bytes == page.data \o Span(Taken, c)
        pages == Len(bytes) \div PageSize
        full  == pages * PageSize
    IN  /\ disk' = IF pages = 0 THEN disk ELSE Below(page) \o SubSeq(bytes, 1, full)
        /\ page' = [index |-> page.index + pages,
                    data  |-> SubSeq(bytes, full + 1, Len(bytes)),
                    dirty |-> Len(bytes) > full]

(* What the page buffer and the file are then, as numbers of bytes.        *)
LEMMA TakenBytes ==
    ASSUME PageInv, NEW c \in Nat, Taken <= c, TakeBytes(c)
    PROVE  \E g, f \in Nat :
              /\ f <= c - Base /\ (c - Base) - f < PageSize
              /\ g = 0 => f = 0
              /\ (page.index + g) * PageSize = Base + f
              /\ disk' = IF g = 0 THEN disk ELSE Span(0, Base + f)
              /\ page' = [index |-> page.index + g, data |-> Span(Base + f, c),
                          dirty |-> c - Base > f]
<1> DEFINE a == Base
           b == Taken
           i == page.index
           bytes == page.data \o Span(b, c)
           pages == Len(bytes) \div PageSize
           full == pages * PageSize
<1>1. a \in Nat /\ b \in Nat /\ a <= b /\ b <= c /\ PageSize \in Nat \ {0} /\ i \in Nat /\ a = i * PageSize
  BY TakenType, EfAssumption DEF PageInv, Taken, Base
<1>2. page.data = Span(a, b) /\ Below(page) = Span(0, a)
  BY BelowIs DEF PageInv
<1>3. /\ disk' = IF pages = 0 THEN disk ELSE Span(0, a) \o Part(bytes, 1, full)
      /\ page' = [index |-> i + pages, data |-> Part(bytes, full + 1, Len(bytes)),
                  dirty |-> Len(bytes) > full]
  BY <1>2 DEF TakeBytes, Part
<1>4. bytes = Span(a, b) \o Span(b, c)
  BY <1>2
<1> HIDE DEF a, b, i, bytes
<1>5. a <= c /\ bytes = Span(a, c) /\ Len(bytes) = c - a
  <2>1. a <= c
    BY <1>1
  <2>2. Span(a, b) \o Span(b, c) = Span(a, c)
    BY <1>1, SpanConcat
  <2>3. Len(Span(a, c)) = c - a
    BY <1>1, <2>1, SpanIs
  <2> QED BY <1>4, <2>1, <2>2, <2>3
<1> HIDE DEF pages, full
<1>6. pages = (c - a) \div PageSize /\ full = pages * PageSize
  BY <1>5 DEF pages, full
<1>7. /\ pages \in Nat /\ full \in Nat /\ full <= c - a /\ (c - a) - full < PageSize
      /\ pages = 0 => full = 0
      /\ (i + pages) * PageSize = a + full
  BY <1>1, <1>5, <1>6, WholePages
<1>8. /\ Part(bytes, full + 1, c - a) = Span(a + full, c)
      /\ Span(0, a) \o Part(bytes, 1, full) = Span(0, a + full)
  <2>1. /\ Part(Span(a, c), full + 1, c - a) = Span(a + full, c)
        /\ Span(0, a) \o Part(Span(a, c), 1, full) = Span(0, a + full)
    <3>1. \A x, y, z \in Nat : x <= y /\ z <= y - x =>
             /\ Part(Span(x, y), z + 1, y - x) = Span(x + z, y)
             /\ Span(0, x) \o Part(Span(x, y), 1, z) = Span(0, x + z)
      BY SpanParts
    <3>2. a \in Nat /\ c \in Nat /\ full \in Nat /\ a <= c /\ full <= c - a
      BY <1>1, <1>5, <1>7
    <3> QED BY <3>1, <3>2
  <2> QED BY <1>5, <2>1
<1>9. /\ disk' = IF pages = 0 THEN disk ELSE Span(0, a + full)
      /\ page' = [index |-> i + pages, data |-> Span(a + full, c), dirty |-> c - a > full]
  BY <1>3, <1>5, <1>8
<1> QED BY <1>7, <1>9 DEF a, i

LEMMA PageWrite ==
    ASSUME PageInv, file = "open", NEW c \in Nat, Taken <= c, TakeBytes(c)
    PROVE  PageInv' /\ Taken' = c
<1> DEFINE a == Base
           n == Len(disk)
<1>1. PICK g, f \in Nat :
              /\ f <= c - a /\ (c - a) - f < PageSize
              /\ g = 0 => f = 0
              /\ (page.index + g) * PageSize = a + f
              /\ disk' = IF g = 0 THEN disk ELSE Span(0, a + f)
              /\ page' = [index |-> page.index + g, data |-> Span(a + f, c), dirty |-> c - a > f]
  BY TakenBytes
<1>2. /\ a \in Nat /\ n \in Nat /\ Taken \in Nat /\ page.index \in Nat /\ PageSize \in Nat
      /\ a <= n /\ n <= Taken /\ a <= Taken
  BY TakenType, EfAssumption DEF PageInv, Taken
<1>3. disk \in Seq(Int) /\ disk = Span(0, n)
  BY DEF PageInv
<1>4. page'.index = page.index + g /\ page'.data = Span(a + f, c) /\ page.index + g \in Nat
  BY <1>1, <1>2
<1>5. page'.dirty = (c - a > f)
  BY <1>1
<1> HIDE DEF a, n
<1>6. a + f \in Nat /\ a + f <= c /\ c - (a + f) < PageSize /\ Base' = a + f
  BY <1>1, <1>2, <1>4 DEF Base
<1>7. Span(a + f, c) \in Seq(Int) /\ Len(Span(a + f, c)) = c - (a + f)
  BY <1>6, SpanIs
<1>8. Taken' = c /\ page'.data = Span(Base', Taken') /\ Len(page'.data) < PageSize
  BY <1>4, <1>6, <1>7 DEF Taken
<1>9. page' \in [index : Nat, data : Seq(Int), dirty : BOOLEAN]
  <2>1. (c - a > f) \in BOOLEAN
    OBVIOUS
  <2> QED BY <1>1, <1>4, <1>7, <2>1
<1>10. ~page'.dirty => a + f = c
  <2>1. ~page'.dirty => ~(c - a > f)
    BY <1>5
  <2>2. ~(c - a > f) => a + f = c
    BY <1>2, <1>6
  <2> QED BY <2>1, <2>2
<1>11. CASE g = 0
  <2>1. disk' = disk /\ Len(disk') = n /\ a + f = a
    BY <1>1, <1>2, <1>11 DEF n
  <2>2. disk' = Span(0, Len(disk')) /\ disk' \in Seq(Int)
    BY <1>3, <2>1
  <2>3. Base' <= Len(disk') /\ Len(disk') <= Taken'
    BY <1>2, <1>6, <1>8, <2>1
  <2>4. ~page'.dirty => Len(disk') = Taken'
    BY <1>2, <1>8, <1>10, <2>1
  <2> QED BY <1>8, <1>9, <2>2, <2>3, <2>4 DEF PageInv
<1>12. CASE g # 0
  <2>1. disk' = Span(0, a + f)
    BY <1>1, <1>12
  <2>2. Span(0, a + f) \in Seq(Int) /\ Len(Span(0, a + f)) = a + f
    <3>1. 0 \in Nat /\ 0 <= a + f /\ (a + f) - 0 = a + f
      BY <1>6
    <3> QED BY <1>6, <3>1, SpanIs
  <2>3. disk' \in Seq(Int) /\ Len(disk') = a + f
    BY <2>1, <2>2
  <2>4. disk' = Span(0, Len(disk'))
    BY <2>1, <2>3
  <2>5. Base' <= Len(disk') /\ Len(disk') <= Taken'
    BY <1>6, <1>8, <2>3
  <2>6. ~page'.dirty => Len(disk') = Taken'
    BY <1>8, <1>10, <2>3
  <2> QED BY <1>8, <1>9, <2>3, <2>4, <2>5, <2>6 DEF PageInv
<1> QED BY <1>8, <1>11, <1>12

(* ef_file_fsync writes the page that is partly filled.                    *)
LEMMA PageFsync ==
    ASSUME PageInv, file = "open", page' = [page EXCEPT !.dirty = FALSE],
           disk' = IF page.dirty THEN Below(page) \o page.data ELSE disk
    PROVE  PageInv' /\ Taken' = Taken /\ ~page'.dirty
<1> DEFINE a == Base
           b == Taken
<1>1. a \in Nat /\ b \in Nat /\ a <= b /\ Len(page.data) \in Nat
  BY TakenType DEF PageInv, Taken
<1>2. page \in [index : Nat, data : Seq(Int), dirty : BOOLEAN]
  BY DEF PageInv
<1>3. page'.index = page.index /\ page'.data = page.data
  BY <1>2
<1>4. page'.dirty = FALSE
  BY <1>2
<1>5. page' \in [index : Nat, data : Seq(Int), dirty : BOOLEAN]
  BY <1>2
<1>6. Base' = a /\ Taken' = b
  BY <1>3 DEF Base, Taken
<1>7. page.data = Span(a, b) /\ Below(page) = Span(0, a) /\ Len(page.data) < PageSize
  BY BelowIs DEF PageInv
<1>8. CASE page.dirty
  <2>1. disk' = Span(0, a) \o Span(a, b)
    BY <1>7, <1>8
  <2> HIDE DEF a, b
  <2>2. 0 \in Nat /\ 0 <= a /\ 0 <= b /\ b - 0 = b
    BY <1>1
  <2>3. Span(0, a) \o Span(a, b) = Span(0, b)
    BY <1>1, <2>2, SpanConcat
  <2>4. Span(0, b) \in Seq(Int) /\ Len(Span(0, b)) = b
    BY <1>1, <2>2, SpanIs
  <2>5. disk' \in Seq(Int) /\ Len(disk') = b
    BY <2>1, <2>3, <2>4
  <2>6. disk' = Span(0, Len(disk'))
    BY <2>1, <2>3, <2>5
  <2>7. Base' <= Len(disk') /\ Len(disk') <= Taken' /\ Len(disk') = Taken'
    BY <1>1, <1>6, <2>5
  <2>8. page'.data = Span(Base', Taken')
    BY <1>3, <1>6, <1>7
  <2>9. Len(page'.data) < PageSize
    BY <1>3, <1>7
  <2>10. PageInv'
    BY <1>5, <2>5, <2>6, <2>7, <2>8, <2>9 DEF PageInv
  <2> QED BY <1>4, <1>6, <2>10 DEF b
<1>9. CASE ~page.dirty
  <2>1. disk' = disk
    BY <1>9
  <2>2. page.dirty = FALSE
    BY <1>2, <1>9
  <2>3. page' = page
    BY <1>2, <2>2
  <2>4. PageInv'
    BY <1>6, <2>1, <2>3 DEF PageInv
  <2> QED BY <1>4, <1>6, <2>4
<1> QED BY <1>8, <1>9

-----------------------------------------------------------------------------
(* A disk thread comes to the end of a task: the first of what is pending. *)
TaskDone(d) ==
    /\ pc[d] = "io" /\ act.cmd = "write" /\ todo[d] # <<>>
    /\ todo' = [todo EXCEPT ![d] = Tail(@)]
    /\ UNCHANGED <<file, act, events, jobs, pc, stack, cur, sent>>

LEMMA FirstPending ==
    ASSUME WriteInv, WriteInv', BytesInv, NEW d \in Disk, TaskDone(d)
    PROVE  /\ BatchInv' /\ Requested' = Requested /\ Requested \in Nat /\ file = "open"
           /\ Pending \in Seq(Tasks) /\ Pending # <<>>
           /\ Head(Pending) = Head(todo[d]) /\ Pending' = Tail(Pending)
<1>0. /\ TypeInv /\ TypeInv' /\ LifeInv /\ BatchInv /\ OrderInv /\ act \in Actions /\ d \in Disk
      /\ pc[d] = "io" /\ act.cmd = "write" /\ todo[d] # <<>> /\ todo' = [todo EXCEPT ![d] = Tail(@)]
      /\ file' = file /\ act' = act /\ events' = events /\ jobs' = jobs /\ pc' = pc /\ cur' = cur /\ sent' = sent
  BY DEF WriteInv, BytesInv, TypeInv, TaskDone
<1>1. file = "open"
  BY <1>0 DEF LifeInv
<1>2. todo \in [Disk -> Seq(Tasks)] /\ todo[d] \in Seq(Tasks)
  BY <1>0 DEF BatchInv
<1>3. Tail(todo[d]) \in Seq(Tasks)
  BY <1>0, <1>2
<1>4. todo' \in [Disk -> Seq(Tasks)] /\ todo'[d] = Tail(todo[d])
  BY <1>0, <1>2, <1>3
<1>5. (Waiting' <=> Waiting) /\ (Working' <=> Working) /\ (Reported' <=> Reported) /\ (Clearing' <=> Clearing)
  BY <1>0 DEF Waiting, Working, Reported, Clearing
<1>6. BatchInv'
  BY <1>0, <1>4, <1>5 DEF BatchInv
<1>7. Outstanding = todo[d] /\ Outstanding' = Tail(todo[d])
  <2>1. OutIs /\ OutIs'
    BY <1>0, <1>6, OutFacts, FactsAfter
  <2> QED BY <1>0, <1>4, <2>1 DEF OutIs
<1>8. Hand' = Hand /\ Hand \in Seq(Tasks)
  BY <1>0, HandFacts, FactsAfter DEF HandIs
<1>9. act.wqueue \in Seq(Tasks) /\ act.accum \in Seq(Int)
  BY <1>0, Fields
<1>10. /\ Pending # <<>> /\ Head(Pending) = Head(todo[d])
       /\ Tail(Pending) = Tail(todo[d]) \o act.wqueue \o Hand
  <2> DEFINE o == todo[d]
             w == act.wqueue
             h == Hand
  <2>1. o \in Seq(Tasks) /\ w \in Seq(Tasks) /\ h \in Seq(Tasks) /\ o # <<>>
    BY <1>0, <1>2, <1>8, <1>9
  <2>2. Pending = o \o w \o h
    BY <1>7 DEF Pending
  <2> HIDE DEF o, w, h
  <2>3. o \o w \o h # <<>> /\ Head(o \o w \o h) = Head(o) /\ Rest(o \o w \o h) = Rest(o) \o w \o h
    BY <2>1, QueueDone
  <2>4. Pending # <<>> /\ Head(Pending) = Head(o) /\ Rest(Pending) = Rest(o) \o w \o h
    BY <2>2, <2>3
  <2> QED BY <2>4 DEF o, w, h, Rest
<1>11. Pending' = Tail(Pending)
  BY <1>0, <1>7, <1>8, <1>10 DEF Pending
<1>12. Pending \in Seq(Tasks)
  BY <1>2, <1>7, <1>8, <1>9, QueueType DEF Pending
<1>13. Requested \in Nat /\ Requested' = Requested
  <2>1. sent \in Nat /\ Len(act.accum) \in Nat /\ Len(act.accum) <= sent
    BY <1>0, <1>9 DEF OrderInv
  <2> QED BY <1>0, <2>1 DEF Requested
<1> QED BY <1>1, <1>6, <1>10, <1>11, <1>12, <1>13

(* The task has the bytes that come next.                                  *)
LEMMA NextTask ==
    ASSUME WriteInv, WriteInv', BytesInv, NEW d \in Disk, TaskDone(d)
    PROVE  \E c \in Nat : /\ Taken <= c /\ Head(todo[d]).data = Span(Taken, c)
                          /\ Head(todo[d]).cmd = "fsync" => c = Taken
                          /\ InOrder(Pending', c, Requested')
<1>1. /\ Requested' = Requested /\ Requested \in Nat /\ Pending \in Seq(Tasks) /\ Pending # <<>>
      /\ Head(Pending) = Head(todo[d]) /\ Pending' = Tail(Pending)
  BY FirstPending
<1>2. InOrder(Pending, Taken, Requested) /\ Taken \in Nat
  BY TakenType DEF TaskDone, BytesInv, OrderInv
<1>3. PICK c \in Taken..Requested : /\ Head(Pending).data = Span(Taken, c)
                                    /\ Head(Pending).cmd = "fsync" => Head(Pending).data = <<>>
                                    /\ InOrder(Tail(Pending), c, Requested)
  BY <1>1, <1>2, OrderTail
<1>4. c \in Nat /\ Taken <= c
  BY <1>1, <1>2
<1>5. Head(Pending).data = <<>> => c = Taken
  BY <1>2, <1>3, <1>4, SpanEmpty
<1> QED BY <1>1, <1>3, <1>4, <1>5

(* The rest of the invariant after a task.                                 *)
LEMMA TaskBytes ==
    ASSUME WriteInv, WriteInv', BytesInv, NEW d \in Disk, TaskDone(d), PageInv',
           InOrder(Pending', Taken', Requested'),
           PastFsync /\ Pending' = <<>> => ~page'.dirty,
           PastCompare => ~page'.dirty /\ Taken' = Taken
    PROVE  BytesInv'
<1>0. /\ act.cmd = "write" /\ act' = act /\ pc' = pc /\ stack' = stack /\ sent' = sent /\ file' = file
      /\ LifeInv
  BY DEF TaskDone, WriteInv
<1>1. /\ BatchInv' /\ Requested' = Requested /\ Pending \in Seq(Tasks) /\ Pending # <<>>
      /\ Pending' = Tail(Pending)
  BY FirstPending
<1>2. OrderInv'
  BY <1>0, <1>1 DEF BytesInv, OrderInv
<1>3. /\ Ending' <=> Ending
      /\ PastFlush' <=> PastFlush
      /\ PastFsync' <=> PastFsync
      /\ PastCompare' <=> PastCompare
      /\ FlushInv'
  BY <1>0 DEF Ending, PastFlush, PastFsync, PastCompare, BytesInv, FlushInv
<1>4. ~Ending'
  BY <1>0, <1>3 DEF LifeInv
<1>5. FreshInv' /\ EndInv'
  BY <1>0, <1>4 DEF FreshInv, EndInv
<1>6. /\ Len(Pending) \in Nat /\ Len(Pending') = Len(Pending) - 1 /\ Pending' \in Seq(Tasks)
      /\ \A k \in 1..Len(Pending') : Pending'[k] = Pending[k + 1] /\ k + 1 \in 1..Len(Pending)
  <2>1. /\ Tail(Pending) \in Seq(Tasks) /\ Len(Tail(Pending)) = Len(Pending) - 1
        /\ \A k \in 1..Len(Tail(Pending)) : Tail(Pending)[k] = Pending[k + 1]
    BY <1>1, HeadTailProperties
  <2>2. Len(Pending) \in Nat
    BY <1>1
  <2>3. \A k \in 1..(Len(Pending) - 1) : k + 1 \in 1..Len(Pending)
    BY <2>2
  <2> QED BY <1>1, <2>1, <2>2, <2>3
<1>7. PastFsync' => IF Pending' = <<>> THEN ~page'.dirty ELSE Pending'[Len(Pending')].cmd = "fsync"
  <2> SUFFICES ASSUME PastFsync, Pending' # <<>> PROVE Pending'[Len(Pending')].cmd = "fsync"
    BY <1>3
  <2>1. Len(Pending') \in 1..Len(Pending') /\ Len(Pending') + 1 = Len(Pending)
    BY <1>6, EmptySeq
  <2>2. Pending'[Len(Pending')] = Pending[Len(Pending)]
    BY <1>6, <2>1
  <2>3. Pending[Len(Pending)].cmd = "fsync"
    BY <1>0, <1>1 DEF BytesInv, CloseInv
  <2> QED BY <2>2, <2>3
<1>8. PastCompare' => /\ \A k \in 1..Len(Pending') : Pending'[k].cmd = "fsync"
                      /\ ~page'.dirty /\ Taken' = sent'
  <2> SUFFICES ASSUME PastCompare
               PROVE  /\ \A k \in 1..Len(Pending') : Pending'[k].cmd = "fsync"
                      /\ ~page'.dirty /\ Taken' = sent'
    BY <1>3
  <2>1. /\ \A k \in 1..Len(Pending) : Pending[k].cmd = "fsync"
        /\ Taken = sent
    BY <1>0 DEF BytesInv, CloseInv
  <2>2. \A k \in 1..Len(Pending') : Pending'[k].cmd = "fsync"
    BY <1>6, <2>1
  <2> QED BY <1>0, <2>1, <2>2
<1>9. PastFlush' => act'.accum = <<>> /\ pc'[Slow] # "flush"
  BY <1>0, <1>3 DEF BytesInv, CloseInv
<1>10. CloseInv'
  BY <1>7, <1>8, <1>9 DEF CloseInv
<1> QED BY <1>1, <1>2, <1>3, <1>5, <1>10 DEF BytesInv

(* A write is done.                                                        *)
LEMMA DiskWriteBytes ==
    ASSUME WriteInv, WriteInv', BytesInv, NEW d \in Disk, DiskWrite(d)
    PROVE  BytesInv'
<1>1. TaskDone(d) /\ Head(todo[d]).cmd = "write"
  BY DEF DiskWrite, TaskDone, At, LiveWrite, private, userVars
<1>2. /\ Pending \in Seq(Tasks) /\ Pending # <<>> /\ Head(Pending) = Head(todo[d])
      /\ Pending' = Tail(Pending) /\ file = "open"
  BY <1>1, FirstPending
<1>3. PICK c \in Nat : /\ Taken <= c /\ Head(todo[d]).data = Span(Taken, c)
                       /\ InOrder(Pending', c, Requested')
  BY <1>1, NextTask
<1>4. TakeBytes(c)
  BY <1>3 DEF DiskWrite, TakeBytes
<1>5. PageInv' /\ Taken' = c
  BY <1>2, <1>3, <1>4, PageWrite DEF BytesInv
<1>6. Len(Pending) \in Nat /\ Len(Pending) # 0 /\ Pending[1].cmd = "write"
  <2>1. Len(Pending) \in Nat /\ Len(Pending) # 0
    BY <1>2, EmptySeq
  <2>2. Head(Pending) = Pending[1]
    BY <1>2, HeadTailProperties
  <2> QED BY <1>1, <1>2, <2>1, <2>2
<1>7. ~(PastFsync /\ Pending' = <<>>)
  <2> SUFFICES ASSUME PastFsync, Pending' = <<>> PROVE FALSE
    OBVIOUS
  <2>1. Len(Pending') = Len(Pending) - 1
    <3>1. Len(Tail(Pending)) = Len(Pending) - 1
      BY <1>2, HeadTailProperties
    <3> QED BY <1>2, <3>1
  <2>2. Len(Pending) = 1
    <3>1. Len(Pending') = 0
      OBVIOUS
    <3> QED BY <1>6, <2>1, <3>1
  <2>3. Pending[Len(Pending)].cmd = "fsync"
    BY <1>1, <1>2 DEF BytesInv, CloseInv, TaskDone
  <2> QED BY <1>6, <2>2, <2>3
<1>8. ~PastCompare
  <2> SUFFICES ASSUME PastCompare PROVE FALSE
    OBVIOUS
  <2>1. \A k \in 1..Len(Pending) : Pending[k].cmd = "fsync"
    BY <1>1 DEF BytesInv, CloseInv, TaskDone
  <2> QED BY <1>6, <2>1
<1> QED BY <1>1, <1>3, <1>5, <1>7, <1>8, TaskBytes

(* An fsync is done.                                                       *)
LEMMA DiskFsyncBytes ==
    ASSUME WriteInv, WriteInv', BytesInv, NEW d \in Disk, DiskFsync(d)
    PROVE  BytesInv'
<1>1. TaskDone(d) /\ Head(todo[d]).cmd = "fsync"
  BY DEF DiskFsync, TaskDone, At, LiveWrite, private, userVars
<1>2. file = "open"
  BY <1>1, FirstPending
<1>3. PICK c \in Nat : c = Taken /\ InOrder(Pending', c, Requested')
  BY <1>1, NextTask
<1>4. /\ page' = [page EXCEPT !.dirty = FALSE]
      /\ disk' = IF page.dirty THEN Below(page) \o page.data ELSE disk
  BY DEF DiskFsync
<1>5. PageInv' /\ Taken' = Taken /\ ~page'.dirty
  BY <1>2, <1>4, PageFsync DEF BytesInv
<1> QED BY <1>1, <1>3, <1>5, TaskBytes

-----------------------------------------------------------------------------
(* A disk thread takes a job.                                              *)
LEMMA DiskTakeBytes ==
    ASSUME WriteInv, WriteInv', BytesInv, NEW d \in Disk, DiskTakeJob(d)
    PROVE  BytesInv'
<1>0. /\ TypeInv /\ TypeInv' /\ LifeInv /\ BatchInv /\ FreshInv /\ d \in Procs /\ pc[d] = "idle"
      /\ jobs # <<>> /\ jobs' = Tail(jobs) /\ act' = act /\ act \in Actions
      /\ file' = file /\ page' = page /\ disk' = disk /\ events' = events
      /\ todo' = todo /\ sent' = sent /\ cur' = cur
  BY Names DEF WriteInv, BytesInv, TypeInv, DiskTakeJob, At, private, userVars
<1>1. \A q \in Procs \ {d} : pc'[q] = pc[q] /\ stack'[q] = stack[q]
  BY <1>0 DEF DiskTakeJob, Jump, Goto, TypeInv
<1>2. CASE Ending
  BY <1>0, <1>1, <1>2, ServerEnded
<1>3. CASE ~Ending
  <2>1. act.cmd = "write"
    BY <1>0, <1>3 DEF FreshInv
  <2>2. jobs = <<"write">>
    BY <1>0, <2>1 DEF BatchInv
  <2>3. jobs' = <<>> /\ Head(jobs) = "write"
    BY <1>0, <2>2, Stacks
  <2>4. pc'[d] = "start"
    BY <1>0, <2>3 DEF DiskTakeJob, Jump, Goto, TypeInv
  <2>5. /\ pc'[Writer] = pc[Writer] /\ pc'[User] = pc[User] /\ pc'[Slow] = pc[Slow]
        /\ \A e \in Disk \ {d} : pc'[e] = pc[e]
    BY <1>1, Names
  <2>6. Waiting /\ ~Working /\ ~Reported /\ ~Clearing /\ pc[Writer] # "next" /\ act.batch # <<>>
    BY <1>0, <2>1 DEF BatchInv, Waiting
  <2>7. ~Waiting' /\ Working' /\ ~Reported' /\ ~Clearing'
    BY <1>0, <2>3, <2>4, <2>5, <2>6 DEF Waiting, Working, Reported, Clearing
  <2>8. \A e \in Disk : pc'[e] \in {"start", "io"} => e = d
    BY <2>5, <2>6 DEF Working
  <2>9. BatchInv'
    <3>1. /\ todo' \in [Disk -> Seq(Tasks)] /\ jobs' \in {<<>>, <<"write">>}
          /\ \A b, e \in Disk : pc'[b] \in {"start", "io"} /\ pc'[e] \in {"start", "io"} => b = e
          /\ \A i, j \in 1..Len(events') : events'[i] = "cmpl" /\ events'[j] = "cmpl" => i = j
      BY <1>0, <2>1, <2>3, <2>8 DEF BatchInv
    <3> QED BY <1>0, <2>1, <2>5, <2>6, <2>7, <3>1 DEF BatchInv
  <2>10. Outstanding' = Outstanding
    <3>1. OutIs /\ OutIs'
      BY <1>0, <2>9, OutFacts, FactsAfter
    <3> QED BY <1>0, <2>1, <2>4, <2>6, <3>1 DEF OutIs
  <2>11. Hand' = Hand
    BY <1>0, <2>5, HandFacts, FactsAfter DEF HandIs
  <2>12. Pending' = Pending
    BY <1>0, <2>10, <2>11 DEF Pending
  <2> QED BY <1>0, <1>1, <2>1, <2>9, <2>12, ServerQuiet
<1> QED BY <1>2, <1>3

(* It looks up the batch.                                                  *)
LEMMA DiskStartBytes ==
    ASSUME WriteInv, WriteInv', BytesInv, NEW d \in Disk, DiskStart(d)
    PROVE  BytesInv'
<1>0. /\ TypeInv /\ TypeInv' /\ BatchInv /\ d \in Procs /\ pc[d] = "start" /\ act.cmd = "write"
      /\ act' = [act EXCEPT !.status = "progress"] /\ act \in Actions
      /\ todo' = [todo EXCEPT ![d] = act.batch]
      /\ file' = file /\ page' = page /\ disk' = disk /\ events' = events
      /\ jobs' = jobs /\ sent' = sent /\ cur' = cur
  BY Names DEF WriteInv, BytesInv, TypeInv, DiskStart, At, LiveWrite, private, userVars
<1>1. /\ pc'[d] = "io"
      /\ \A q \in Procs \ {d} : pc'[q] = pc[q] /\ stack'[q] = stack[q]
  BY <1>0 DEF DiskStart, Jump, Goto, TypeInv
<1>2. act'.cmd = act.cmd /\ act'.accum = act.accum /\ act'.wqueue = act.wqueue /\ act'.batch = act.batch
      /\ act'.status = "progress"
  BY <1>0 DEF Actions
<1>3. act.batch \in Seq(Tasks) /\ todo \in [Disk -> Seq(Tasks)]
  BY <1>0, Fields DEF BatchInv
<1>4. todo' \in [Disk -> Seq(Tasks)] /\ todo'[d] = act.batch
  BY <1>0, <1>3
<1>5. /\ pc'[Writer] = pc[Writer] /\ pc'[User] = pc[User] /\ pc'[Slow] = pc[Slow]
      /\ \A e \in Disk \ {d} : pc'[e] = pc[e]
  BY <1>1, Names
<1>6. \A e \in Disk : pc'[e] \in {"start", "io"} <=> pc[e] \in {"start", "io"}
  BY <1>0, <1>1, <1>5
<1>7. (Waiting' <=> Waiting) /\ (Working' <=> Working) /\ (Reported' <=> Reported) /\ (Clearing' <=> Clearing)
  BY <1>0, <1>5, <1>6 DEF Waiting, Working, Reported, Clearing
<1>8. BatchInv'
  <2>1. /\ jobs' \in {<<>>, <<"write">>}
        /\ \A b, e \in Disk : pc'[b] \in {"start", "io"} /\ pc'[e] \in {"start", "io"} => b = e
        /\ \A i, j \in 1..Len(events') : events'[i] = "cmpl" /\ events'[j] = "cmpl" => i = j
    BY <1>0, <1>6 DEF BatchInv
  <2>2. /\ Waiting' => ~Working'
        /\ Waiting' \/ Working' => ~Reported'
        /\ Waiting' \/ Working' \/ Reported' => ~Clearing'
        /\ Waiting' \/ Working' \/ Reported' \/ Clearing' => pc'[Writer] # "next"
        /\ act'.batch # <<>> <=> Waiting' \/ Working' \/ Reported' \/ Clearing'
    BY <1>0, <1>2, <1>5, <1>7 DEF BatchInv
  <2> QED BY <1>0, <1>2, <1>4, <2>1, <2>2 DEF BatchInv
<1>9. Outstanding' = Outstanding
  <2>1. OutIs /\ OutIs'
    BY <1>0, <1>8, OutFacts, FactsAfter
  <2> QED BY <1>0, <1>1, <1>2, <1>4, <2>1 DEF OutIs
<1>10. Hand' = Hand
  BY <1>0, <1>5, HandFacts, FactsAfter DEF HandIs
<1>11. Pending' = Pending
  BY <1>2, <1>9, <1>10 DEF Pending
<1> QED BY <1>0, <1>1, <1>2, <1>8, <1>11, ServerQuiet

(* It reports the batch.                                                   *)
LEMMA DiskDoneBytes ==
    ASSUME WriteInv, WriteInv', BytesInv, NEW d \in Disk, DiskDone(d)
    PROVE  BytesInv'
<1>0. /\ TypeInv /\ TypeInv' /\ BatchInv /\ d \in Procs /\ pc[d] = "io" /\ act.cmd = "write"
      /\ act' = act /\ act \in Actions /\ todo' = todo /\ todo[d] = <<>>
      /\ events \in Seq({"req", "cmpl"}) /\ events' = Append(events, "cmpl")
      /\ file' = file /\ page' = page /\ disk' = disk
      /\ jobs' = jobs /\ sent' = sent /\ cur' = cur
  BY Names DEF WriteInv, BytesInv, TypeInv, DiskDone, At, LiveWrite, private, userVars, diskVars
<1>1. /\ pc'[d] = "idle"
      /\ \A q \in Procs \ {d} : pc'[q] = pc[q] /\ stack'[q] = stack[q]
  BY <1>0 DEF DiskDone, Jump, Goto, TypeInv
<1>2. /\ pc'[Writer] = pc[Writer] /\ pc'[User] = pc[User] /\ pc'[Slow] = pc[Slow]
      /\ \A e \in Disk \ {d} : pc'[e] = pc[e]
  BY <1>1, Names
<1>3. Working /\ ~Waiting /\ ~Reported /\ ~Clearing /\ pc[Writer] # "next" /\ act.batch # <<>>
  <2>1. Working
    BY <1>0 DEF Working
  <2> QED BY <1>0, <2>1 DEF BatchInv
<1>4. \A e \in Disk : pc[e] \in {"start", "io"} => e = d
  BY <1>0 DEF BatchInv
<1>5. ~Working' /\ ~Waiting' /\ ~Clearing'
  BY <1>0, <1>1, <1>2, <1>3, <1>4 DEF Working, Waiting, Clearing
<1>6. /\ Len(events) \in Nat /\ Len(events') = Len(events) + 1 /\ events'[Len(events) + 1] = "cmpl"
      /\ \A i \in 1..Len(events) : events'[i] = events[i]
  BY <1>0
<1>7. Reported' /\ \A i, j \in 1..Len(events') : events'[i] = "cmpl" /\ events'[j] = "cmpl" => i = j
  <2>1. \A i \in 1..Len(events') : i \in 1..Len(events) \/ i = Len(events) + 1
    BY <1>6
  <2>2. \A i \in 1..Len(events') : events'[i] = "cmpl" => i = Len(events) + 1
    BY <1>3, <1>6, <2>1 DEF Reported
  <2>3. Len(events) + 1 \in 1..Len(events')
    BY <1>6
  <2> QED BY <1>6, <2>2, <2>3 DEF Reported
<1>8. BatchInv'
  <2>1. /\ todo' \in [Disk -> Seq(Tasks)] /\ jobs' \in {<<>>, <<"write">>}
        /\ \A b, e \in Disk : pc'[b] \in {"start", "io"} /\ pc'[e] \in {"start", "io"} => b = e
    BY <1>0, <1>5 DEF BatchInv, Working
  <2> QED BY <1>0, <1>2, <1>3, <1>5, <1>7, <2>1 DEF BatchInv
<1>9. Outstanding' = Outstanding
  <2>1. OutIs /\ OutIs'
    BY <1>0, <1>8, OutFacts, FactsAfter
  <2> QED BY <1>0, <1>5, <2>1 DEF OutIs
<1>10. Hand' = Hand
  BY <1>0, <1>2, HandFacts, FactsAfter DEF HandIs
<1>11. Pending' = Pending
  BY <1>0, <1>9, <1>10 DEF Pending
<1> QED BY <1>0, <1>1, <1>8, <1>11, ServerQuiet

-----------------------------------------------------------------------------
(* A step that changes none of it.                                         *)
LEMMA IdleBytes ==
    ASSUME WriteInv, WriteInv', BytesInv,
           UNCHANGED <<file, act, events, jobs, page, disk, pc, stack, cur, todo, sent>>
    PROVE  BytesInv'
<1>1. SameWork
  BY DEF SameWork
<1>2. FlushInv' /\ (Ending' <=> Ending)
  BY DEF BytesInv, FlushInv, Ending
<1>3. (PastFlush' <=> PastFlush) /\ (PastFsync' <=> PastFsync) /\ (PastCompare' <=> PastCompare)
  BY DEF PastFlush, PastFsync, PastCompare
<1>4. act.cmd = "write" /\ PastFlush' => act.accum = <<>> /\ pc'[Slow] # "flush"
  BY <1>3 DEF BytesInv, CloseInv
<1> QED BY <1>1, <1>2, <1>3, <1>4, Quiet

(* The write path keeps the bytes in order.                                *)
LEMMA NextBytes ==
    ASSUME WriteInv, WriteInv', BytesInv, [Next]_vars
    PROVE  BytesInv'
<1>m. ASSUME NEW p \in {User} \cup Disk, action_mutation(p) PROVE BytesInv'
  BY <1>m, LockBytes, FreeBytes, AllocBytes DEF action_mutation
<1>r. ASSUME NEW p \in {User, Slow}, write_request(p) PROVE BytesInv'
  BY <1>r, CountBytes, EnqueueBytes, PostBytes DEF write_request
<1>1. CASE user
  <2>1. CASE OpenStatus \/ ef_write
    <3>1. ASSUME NEW n \in 1..MaxBytes, WriteCall(n) PROVE BytesInv'
      BY <3>1, CallBytes
    <3>2. CASE OpenStatus \/ WriteHold \/ WriteCheckAction \/ WriteAllocAction \/ WriteReturn
      <4>1. 0 \in Int
        OBVIOUS
      <4> QED BY <3>2, <4>1, CallBytes
    <3>3. CASE WriteCopy
      BY <3>3, CopyBytes
    <3> QED BY <2>1, <3>1, <3>2, <3>3 DEF ef_write
  <2>2. CASE ef_sync \/ CloseCall \/ CloseSync
    <3>1. 0 \in Int
      OBVIOUS
    <3> QED BY <2>2, <3>1, CallBytes DEF ef_sync
  <2>3. CASE CloseCompare \/ CloseSetComplete \/ CloseTest \/ CloseAlloc
    BY <2>3, CloseBytes
  <2>4. CASE CloseHandOver
    BY <2>4, HandOverBytes
  <2>5. CASE action_mutation(User)
    BY <1>m, <2>5
  <2>6. CASE write_request(User)
    BY <1>r, <2>6
  <2>7. CASE sync_file_writes(User)
    BY <2>7, UserSyncBytes
  <2>8. CASE file_close(User)
    BY <2>8, FileCloseBytes
  <2> QED BY <1>1, <2>1, <2>2, <2>3, <2>4, <2>5, <2>6, <2>7, <2>8 DEF user, ef_close
<1>2. CASE slow_sync
  BY <1>2, <1>r, RoundBytes, SlowSyncBytes DEF slow_sync
<1>3. CASE file_writer
  BY <1>3, WriterBytes
<1>4. ASSUME NEW d \in Disk, disk_pool(d) PROVE BytesInv'
  BY <1>4, <1>m, DiskTakeBytes, DiskStartBytes, DiskWriteBytes, DiskFsyncBytes, DiskDoneBytes,
     FileCloseBytes DEF disk_pool
<1>5. CASE \E p \in Procs : UseFreedAction(p)
  BY <1>5, IdleBytes DEF UseFreedAction, diskVars, userVars
<1>6. CASE UNCHANGED vars
  BY <1>6, IdleBytes DEF vars
<1> QED BY <1>1, <1>2, <1>3, <1>4, <1>5, <1>6 DEF Next, Over

(* The inductive invariant about the bytes: one batch is out at most, what *)
(* is pending holds the bytes after those taken over up to the buffer, and *)
(* when ef_close gives the write action up everything is on disk.          *)
THEOREM BytesInvariant == Spec => []BytesInv
<1>1. Init => BytesInv
  BY InitBytes
<1>2. WriteInv /\ WriteInv' /\ BytesInv /\ [Next]_vars => BytesInv'
  BY NextBytes
<1> QED BY <1>1, <1>2, Invariant, PTL DEF Spec

(* What the file holds with the page buffer.                               *)
LEMMA ContentIs ==
    ASSUME PageInv
    PROVE  Content = Span(0, Taken) /\ Len(Content) = Taken
<1> DEFINE a == Base
           t == Taken
<1>1. a \in Nat /\ t \in Nat /\ a <= t
  BY TakenType DEF Taken
<1>2. Content = Span(0, a) \o Span(a, t)
  BY BelowIs DEF PageInv, Content
<1> HIDE DEF a, t
<1>3. 0 \in Nat /\ 0 <= a /\ 0 <= t /\ t - 0 = t
  BY <1>1
<1>4. Span(0, a) \o Span(a, t) = Span(0, t)
  BY <1>1, <1>3, SpanConcat
<1>5. Len(Span(0, t)) = t
  BY <1>1, <1>3, SpanIs
<1> QED BY <1>2, <1>4, <1>5 DEF t

(* The bytes taken over are bytes that were accepted.                      *)
LEMMA TakenSent ==
    ASSUME WriteInv, BytesInv
    PROVE  /\ sent \in Nat /\ Len(disk) \in Nat /\ Len(disk) <= sent
           /\ act.cmd # "write" /\ file = "open" => Taken = sent
<1>0. /\ TypeInv /\ LifeInv /\ PageInv /\ BatchInv /\ OrderInv /\ FreshInv /\ EndInv
      /\ sent \in Nat /\ Len(disk) \in Nat /\ Taken \in Nat
  BY TakenType DEF WriteInv, BytesInv, OrderInv
<1>1. CASE act.cmd = "write"
  <2>1. file = "open" /\ Len(disk) <= Taken
    BY <1>0, <1>1 DEF LifeInv, PageInv
  <2>2. Len(act.accum) \in Nat /\ Len(act.accum) <= sent
    BY <1>0, Fields DEF TypeInv, OrderInv
  <2>3. Requested \in Nat /\ Requested <= sent
    BY <1>0, <2>2 DEF Requested
  <2>4. Pending \in Seq(Tasks) /\ InOrder(Pending, Taken, Requested)
    BY <1>0, <1>1, PendingType DEF OrderInv
  <2>5. Taken <= Requested
    BY <1>0, <2>3, <2>4, OrderEnds
  <2> QED BY <1>0, <1>1, <2>1, <2>3, <2>5
<1>2. CASE act.cmd # "write" /\ ~Ending
  <2>1. sent = 0 /\ page.index = 0 /\ page.data = <<>> /\ disk = <<>>
    BY <1>0, <1>2 DEF FreshInv
  <2>2. Len(disk) = 0
    BY <2>1
  <2>3. Len(page.data) = 0
    BY <2>1
  <2>4. Taken = 0
    BY <2>1, <2>3, EfAssumption DEF Taken, Base
  <2> QED BY <1>0, <2>1, <2>2, <2>4
<1>3. CASE Ending
  <2>1. disk = Span(0, sent) /\ (file = "open" => Taken = sent)
    BY <1>0, <1>3 DEF EndInv
  <2>2. Len(disk) = sent
    <3>1. 0 \in Nat /\ 0 <= sent /\ sent - 0 = sent
      BY <1>0
    <3>2. Len(Span(0, sent)) = sent
      BY <1>0, <3>1, SpanIs
    <3> QED BY <2>1, <3>2
  <2> QED BY <1>0, <2>1, <2>2
<1> QED BY <1>1, <1>2, <1>3

(* No byte is lost, doubled or overtaken on its way from ef_write to the   *)
(* file, whoever flushes the accumulation buffer, the user or slow_sync,   *)
(* for every page size, pool, number of bytes and of rounds.               *)
THEOREM InOrderAlways == Spec => []BytesInOrder
<1>1. WriteInv /\ BytesInv => BytesInOrder
  <2> SUFFICES ASSUME WriteInv, BytesInv PROVE BytesInOrder
    OBVIOUS
  <2>1. Content = Span(0, Taken) /\ Len(Content) = Taken
    BY ContentIs DEF BytesInv
  <2>2. LiveWrite => /\ InOrder(Pending, Taken, Requested)
                     /\ act.accum = Span(Requested, sent)
    BY DEF LiveWrite, BytesInv, OrderInv
  <2>3. ~LiveWrite /\ file = "open" => Taken = sent
    BY TakenSent DEF LiveWrite
  <2> QED BY <2>1, <2>2, <2>3 DEF BytesInOrder
<1> QED BY <1>1, Invariant, BytesInvariant, PTL

(* What is on disk is a prefix of what ef_write accepted, and ef_close     *)
(* does not close the file before all of it is there.                      *)
THEOREM DurableAtClose == Spec => []CloseIsDurable
<1>1. WriteInv /\ BytesInv => CloseIsDurable
  <2> SUFFICES ASSUME WriteInv, BytesInv PROVE CloseIsDurable
    OBVIOUS
  <2> DEFINE n == Len(disk)
  <2>1. sent \in Nat /\ n \in Nat /\ n <= sent
    BY TakenSent
  <2>2. disk = Span(0, n)
    BY DEF BytesInv, PageInv
  <2>3. file # "open" => disk = Span(0, sent)
    BY DEF WriteInv, BytesInv, LifeInv, EndInv
  <2> HIDE DEF n
  <2>4. IsPrefix(disk, Span(0, sent))
    <3>1. /\ Span(0, n) \in Seq(Int) /\ Len(Span(0, n)) = n /\ \A i \in 1..n : Span(0, n)[i] = 0 + i
      <4>1. 0 \in Nat /\ 0 <= n /\ n - 0 = n
        BY <2>1
      <4> QED BY <2>1, <4>1, SpanIs
    <3>2. Len(Span(0, sent)) = sent /\ \A i \in 1..sent : Span(0, sent)[i] = 0 + i
      <4>1. 0 \in Nat /\ 0 <= sent /\ sent - 0 = sent
        BY <2>1
      <4> QED BY <2>1, <4>1, SpanIs
    <3>3. \A i \in 1..n : i \in 1..sent
      BY <2>1
    <3> QED BY <2>1, <2>2, <3>1, <3>2, <3>3 DEF IsPrefix
  <2> QED BY <2>3, <2>4 DEF CloseIsDurable
<1> QED BY <1>1, Invariant, BytesInvariant, PTL

=============================================================================
