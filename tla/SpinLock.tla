------------------------------ MODULE SpinLock ------------------------------
(***************************************************************************)
(* The test-and-set lock of evsync/ev_spin_lock.c, one action per atomic   *)
(* access.  A thread calls ev_spin_lock or ev_spin_try_lock, is inside     *)
(* while it holds the lock and then calls ev_spin_unlock.                  *)
(***************************************************************************)
CONSTANT Procs    \* the threads that share the lock

VARIABLES lock,   \* _lock
          pc,     \* per thread: the next access; "idle" between calls
          old     \* per thread: old_val of ev_spin_unlock

vars == <<lock, pc, old>>

(* create_spin_lock.                                                       *)
Init ==
    /\ lock = FALSE
    /\ pc = [p \in Procs |-> "idle"]
    /\ old = [p \in Procs |-> TRUE]

Goto(p, label) == pc' = [pc EXCEPT ![p] = label]

-----------------------------------------------------------------------------
Call(p) ==
    /\ pc[p] = "idle"
    /\ Goto(p, "lock") \/ Goto(p, "try")
    /\ UNCHANGED <<lock, old>>

(* ev_spin_lock: the loads that find the lock taken change nothing.        *)
LockLoad(p) ==
    /\ pc[p] = "lock"
    /\ ~lock
    /\ Goto(p, "lock_cas")
    /\ UNCHANGED <<lock, old>>

LockCas(p) ==
    /\ pc[p] = "lock_cas"
    /\ lock' = TRUE
    /\ Goto(p, IF lock THEN "lock" ELSE "inside")
    /\ UNCHANGED old

ev_spin_lock(p) == LockLoad(p) \/ LockCas(p)

TryLoad(p) ==
    /\ pc[p] = "try"
    /\ Goto(p, IF lock THEN "idle" ELSE "try_cas")
    /\ UNCHANGED <<lock, old>>

TryCas(p) ==
    /\ pc[p] = "try_cas"
    /\ lock' = TRUE
    /\ Goto(p, IF lock THEN "idle" ELSE "inside")
    /\ UNCHANGED old

ev_spin_try_lock(p) == TryLoad(p) \/ TryCas(p)

(* ev_spin_unlock: its loop goes on as long as the lock is found taken, by *)
(* whomever.  A compare and swap that fails stores what it found in old.   *)
Unlock(p) ==
    /\ pc[p] = "inside"
    /\ old' = [old EXCEPT ![p] = TRUE]
    /\ Goto(p, "unlock")
    /\ UNCHANGED lock

UnlockLoad(p) ==
    /\ pc[p] = "unlock"
    /\ Goto(p, IF lock THEN "unlock_cas" ELSE "idle")
    /\ UNCHANGED <<lock, old>>

UnlockCas(p) ==
    /\ pc[p] = "unlock_cas"
    /\ IF lock = old[p]
       THEN lock' = FALSE /\ UNCHANGED old
       ELSE old' = [old EXCEPT ![p] = lock] /\ UNCHANGED lock
    /\ Goto(p, "unlock")

ev_spin_unlock(p) == Unlock(p) \/ UnlockLoad(p) \/ UnlockCas(p)

Step(p) == ev_spin_lock(p) \/ ev_spin_try_lock(p) \/ ev_spin_unlock(p)

Next == \E p \in Procs : Call(p) \/ Step(p)

Spec == Init /\ [][Next]_vars

-----------------------------------------------------------------------------
(* "It will not be possible for another thread to lock while one thread    *)
(* has locked the structure": two threads are never inside.                *)
MutualExclusion ==
    \A p, q \in Procs : pc[p] = "inside" /\ pc[q] = "inside" => p = q

=============================================================================
