------------------------------- MODULE RwLock -------------------------------
(***************************************************************************)
(* The readers-writer spin lock of evsync/ev_rwlock.c, one action per      *)
(* atomic access.  Every thread may read and write; between calls it is    *)
(* "idle", "reading" or "writing".                                         *)
(***************************************************************************)
EXTENDS Integers, FiniteSets

CONSTANT Procs        \* the threads that share the lock

ASSUME RwAssumption == IsFiniteSet(Procs)

VARIABLES rd_lock,    \* readers inside, or on their way in or out
          wr_lock,    \* 0, -1 while a writer waits for the readers, 1
          pc          \* per thread: the next access

vars == <<rd_lock, wr_lock, pc>>

(* ev_rwlock_init.                                                         *)
Init ==
    /\ rd_lock = 0
    /\ wr_lock = 0
    /\ pc = [p \in Procs |-> "idle"]

Goto(p, label) == pc' = [pc EXCEPT ![p] = label]

-----------------------------------------------------------------------------
Call(p) ==
    /\ pc[p] = "idle"
    /\ Goto(p, "rdlock") \/ Goto(p, "wrlock")
    /\ UNCHANGED <<rd_lock, wr_lock>>

(* ev_rwlock_rdlock: wait until no writer is seen, count oneself in, look  *)
(* again, count oneself out if a writer has come.                          *)
RdLoad(p) ==
    /\ pc[p] = "rdlock"
    /\ wr_lock = 0
    /\ Goto(p, "rd_add")
    /\ UNCHANGED <<rd_lock, wr_lock>>

RdAdd(p) ==
    /\ pc[p] = "rd_add"
    /\ rd_lock' = rd_lock + 1
    /\ Goto(p, "rd_recheck")
    /\ UNCHANGED wr_lock

(* Mutant: the reader goes in without looking again.                       *)
RdRecheck_Skipped(p) ==
    /\ pc[p] = "rd_recheck"
    /\ Goto(p, "reading")
    /\ UNCHANGED <<rd_lock, wr_lock>>

RdRecheck(p) ==
    /\ pc[p] = "rd_recheck"
    /\ Goto(p, IF wr_lock = 0 THEN "reading" ELSE "rd_undo")
    /\ UNCHANGED <<rd_lock, wr_lock>>

(* Mutant: a reader that gives way stays counted.                          *)
RdUndo_Forgotten(p) ==
    /\ pc[p] = "rd_undo"
    /\ Goto(p, "rdlock")
    /\ UNCHANGED <<rd_lock, wr_lock>>

RdUndo(p) ==
    /\ pc[p] = "rd_undo"
    /\ rd_lock' = rd_lock - 1
    /\ Goto(p, "rdlock")
    /\ UNCHANGED wr_lock

ev_rwlock_rdlock(p) == RdLoad(p) \/ RdAdd(p) \/ RdRecheck(p) \/ RdUndo(p)

(* ev_rwlock_wrlock: one writer at a time announces itself, then waits for *)
(* the readers to leave.                                                   *)
WrCas(p) ==
    /\ pc[p] = "wrlock"
    /\ wr_lock = 0
    /\ wr_lock' = -1
    /\ Goto(p, "wr_wait")
    /\ UNCHANGED rd_lock

WrWait(p) ==
    /\ pc[p] = "wr_wait"
    /\ rd_lock = 0
    /\ Goto(p, "wr_set")
    /\ UNCHANGED <<rd_lock, wr_lock>>

WrSet(p) ==
    /\ pc[p] = "wr_set"
    /\ wr_lock' = 1
    /\ Goto(p, "writing")
    /\ UNCHANGED rd_lock

ev_rwlock_wrlock(p) == WrCas(p) \/ WrWait(p) \/ WrSet(p)

(* ev_rwlock_rdunlock and ev_rwlock_wrunlock: a failed assert ends the     *)
(* process.                                                                *)
RdAssert(p) ==
    /\ pc[p] = "reading"
    /\ Goto(p, IF rd_lock > 0 THEN "rd_leave" ELSE "abort")
    /\ UNCHANGED <<rd_lock, wr_lock>>

RdLeave(p) ==
    /\ pc[p] = "rd_leave"
    /\ rd_lock' = rd_lock - 1
    /\ Goto(p, "idle")
    /\ UNCHANGED wr_lock

ev_rwlock_rdunlock(p) == RdAssert(p) \/ RdLeave(p)

WrAssert(p) ==
    /\ pc[p] = "writing"
    /\ Goto(p, IF wr_lock = 1 THEN "wr_leave" ELSE "abort")
    /\ UNCHANGED <<rd_lock, wr_lock>>

WrLeave(p) ==
    /\ pc[p] = "wr_leave"
    /\ wr_lock' = 0
    /\ Goto(p, "idle")
    /\ UNCHANGED rd_lock

ev_rwlock_wrunlock(p) == WrAssert(p) \/ WrLeave(p)

Step(p) == \/ ev_rwlock_rdlock(p) \/ ev_rwlock_wrlock(p)
           \/ ev_rwlock_rdunlock(p) \/ ev_rwlock_wrunlock(p)

Next == \E p \in Procs : Call(p) \/ Step(p)

(* A thread inside a call, or holding the lock, goes on; nobody has to     *)
(* call.                                                                   *)
Fairness == \A p \in Procs : WF_vars(Step(p))

Spec     == Init /\ [][Next]_vars
FairSpec == Spec /\ Fairness

-----------------------------------------------------------------------------
(* Threads that are counted in rd_lock, that have the lock for reading,    *)
(* that have announced themselves as writers, that have it for writing.    *)
Counted   == {"rd_recheck", "rd_undo", "reading", "rd_leave"}
Readers   == {"reading", "rd_leave"}
Announced == {"wr_wait", "wr_set", "writing", "wr_leave"}
Alone     == {"wr_set", "writing", "wr_leave"}

CountedProcs == {p \in Procs : pc[p] \in Counted}

(* Every variable has its type.                                            *)
TypeOK ==
    /\ rd_lock \in Nat
    /\ wr_lock \in {-1, 0, 1}
    /\ pc \in [Procs -> {"idle", "rdlock", "rd_add", "wrlock", "abort"}
                            \cup Counted \cup Announced]

(* rd_lock counts the threads between their increment and their decrement. *)
CountInv == rd_lock = Cardinality(CountedProcs)

(* wr_lock says how far the one writer is, and a writer that has seen the  *)
(* readers leave is alone.                                                 *)
WriterInv ==
    /\ \A p \in Procs : pc[p] \in Announced =>
          wr_lock = IF pc[p] \in {"wr_wait", "wr_set"} THEN -1 ELSE 1
    /\ \A p, q \in Procs : pc[p] \in Announced /\ pc[q] \in Announced => p = q
    /\ \A p, q \in Procs : ~(pc[p] \in Alone /\ pc[q] \in Readers)
    /\ \A p \in Procs : pc[p] # "abort"

(* The two words of the lock agree with where the threads are.             *)
RwInv == CountInv /\ WriterInv

(* A writer that has the lock is alone with it, whatever readers are       *)
(* between their two looks at wr_lock.                                     *)
Exclusion ==
    \A p, q \in Procs :
        pc[p] = "writing" /\ pc[q] \in {"reading", "writing"} => p = q

(* The asserts of the two unlock functions hold.                           *)
AssertsHold == \A p \in Procs : pc[p] # "abort"

(* "While one thread is attempting to acquire a write lock, other threads  *)
(* will be prevented from further acquiring": a writer that has announced  *)
(* itself gets the lock, however many readers come.                        *)
WriterEnters ==
    \A p \in Procs : pc[p] = "wr_wait" ~> pc[p] = "writing"

=============================================================================
