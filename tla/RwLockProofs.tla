---------------------------- MODULE RwLockProofs ----------------------------
(***************************************************************************)
(* The readers-writer lock excludes readers from writers and writers from  *)
(* each other, for any finite number of threads.  TypeOK and RwInv are     *)
(* inductive together: rd_lock counts the threads between their increment  *)
(* and their decrement, so that a writer which reads 0 has seen the last   *)
(* reader leave, and wr_lock # 0 turns back every reader that comes later. *)
(***************************************************************************)
EXTENDS RwLock, FiniteSetTheorems, TLAPS

(* The set of counted threads is finite, so its cardinality is a number,   *)
(* and zero only when the set is empty.                                    *)
LEMMA CountedFinite ==
    /\ IsFiniteSet(CountedProcs)
    /\ Cardinality(CountedProcs) \in Nat
    /\ Cardinality(CountedProcs) = 0 <=> CountedProcs = {}
<1>1. CountedProcs \subseteq Procs
    BY DEF CountedProcs
<1>2. IsFiniteSet(CountedProcs)
    BY <1>1, RwAssumption, FS_Subset
<1> QED  BY <1>2, FS_CardinalityType, FS_EmptySet

(* A thread that becomes counted adds one to the cardinality.              *)
LEMMA CountIn ==
    ASSUME TypeOK, NEW p \in Procs, NEW label \in Counted,
           pc[p] \notin Counted, pc' = [pc EXCEPT ![p] = label]
    PROVE  Cardinality(CountedProcs') = Cardinality(CountedProcs) + 1
<1>1. CountedProcs' = CountedProcs \cup {p} /\ p \notin CountedProcs
    BY DEF CountedProcs, TypeOK
<1> QED  BY <1>1, CountedFinite, FS_AddElement

(* A thread that is no longer counted takes one away.                      *)
LEMMA CountOut ==
    ASSUME TypeOK, NEW p \in Procs, NEW label, label \notin Counted,
           pc[p] \in Counted, pc' = [pc EXCEPT ![p] = label]
    PROVE  Cardinality(CountedProcs') = Cardinality(CountedProcs) - 1
<1>1. CountedProcs' = CountedProcs \ {p} /\ p \in CountedProcs
    BY DEF CountedProcs, TypeOK
<1> QED  BY <1>1, CountedFinite, FS_RemoveElement

(* Every other move leaves the set as it is.                               *)
LEMMA CountSame ==
    ASSUME TypeOK, NEW p \in Procs, NEW label,
           pc[p] \in Counted <=> label \in Counted, pc' = [pc EXCEPT ![p] = label]
    PROVE  CountedProcs' = CountedProcs
  BY DEF CountedProcs, TypeOK

-----------------------------------------------------------------------------
(* The lock of ev_rwlock_init satisfies the invariant.                     *)
LEMMA InitInv == Init => TypeOK /\ RwInv
<1> SUFFICES ASSUME Init PROVE TypeOK /\ RwInv
    OBVIOUS
<1>1. CountedProcs = {}
    BY DEF Init, CountedProcs, Counted
<1>2. TypeOK
    BY DEF Init, TypeOK
<1> QED  BY <1>1, <1>2, FS_EmptySet DEF Init, RwInv, CountInv, WriterInv, Announced, Alone, Readers

(* Every access keeps it.                                                  *)
LEMMA NextInv == TypeOK /\ RwInv /\ [Next]_vars => TypeOK' /\ RwInv'
<1> SUFFICES ASSUME TypeOK, RwInv, [Next]_vars PROVE TypeOK' /\ RwInv'
    OBVIOUS
<1> USE DEF Counted, Readers, Announced, Alone
<1>1. CASE UNCHANGED vars
    BY <1>1 DEF vars, TypeOK, RwInv, CountInv, WriterInv, CountedProcs
<1>2. ASSUME NEW p \in Procs, Call(p) \/ Step(p)
      PROVE  TypeOK' /\ RwInv'
  <2>0. /\ rd_lock = Cardinality(CountedProcs) /\ rd_lock \in Nat
        /\ rd_lock = 0 <=> CountedProcs = {}
      BY CountedFinite DEF RwInv, CountInv
  <2>1. CASE Call(p)
    <3>1. CountedProcs' = CountedProcs
        BY <2>1, CountSame DEF Call, Goto
    <3>2. TypeOK'
        BY <2>1, <3>1, <2>0 DEF Call, Goto, TypeOK
    <3>3. CountInv'
        BY <2>1, <3>1, <2>0 DEF Call, CountInv
    <3>4. WriterInv'
        BY <2>1 DEF Call, Goto, TypeOK, RwInv, WriterInv
    <3> QED  BY <3>2, <3>3, <3>4 DEF RwInv
  <2>2. CASE RdLoad(p)
    <3>1. CountedProcs' = CountedProcs
        BY <2>2, CountSame DEF RdLoad, Goto
    <3>2. TypeOK'
        BY <2>2, <3>1, <2>0 DEF RdLoad, Goto, TypeOK
    <3>3. CountInv'
        BY <2>2, <3>1, <2>0 DEF RdLoad, CountInv
    <3>4. WriterInv'
        BY <2>2 DEF RdLoad, Goto, TypeOK, RwInv, WriterInv
    <3> QED  BY <3>2, <3>3, <3>4 DEF RwInv
  <2>3. CASE RdAdd(p)
    <3>1. Cardinality(CountedProcs') = Cardinality(CountedProcs) + 1
        BY <2>3, CountIn DEF RdAdd, Goto
    <3>2. TypeOK'
        BY <2>3, <2>0 DEF RdAdd, Goto, TypeOK
    <3>3. CountInv'
        BY <2>3, <3>1, <2>0 DEF RdAdd, CountInv
    <3>4. WriterInv'
        BY <2>3 DEF RdAdd, Goto, TypeOK, RwInv, WriterInv
    <3> QED  BY <3>2, <3>3, <3>4 DEF RwInv
  <2>4. CASE RdRecheck(p)
    <3>1. CountedProcs' = CountedProcs
        BY <2>4, CountSame DEF RdRecheck, Goto
    <3>2. TypeOK'
        BY <2>4, <3>1, <2>0 DEF RdRecheck, Goto, TypeOK
    <3>3. CountInv'
        BY <2>4, <3>1, <2>0 DEF RdRecheck, CountInv
    <3>4. WriterInv'
        BY <2>4 DEF RdRecheck, Goto, TypeOK, RwInv, WriterInv
    <3> QED  BY <3>2, <3>3, <3>4 DEF RwInv
  <2>5. CASE RdUndo(p)
    <3>1. Cardinality(CountedProcs') = Cardinality(CountedProcs) - 1
        BY <2>5, CountOut DEF RdUndo, Goto
    <3>2. p \in CountedProcs
        BY <2>5 DEF RdUndo, CountedProcs
    <3>3. TypeOK'
        BY <2>5, <3>2, <2>0 DEF RdUndo, Goto, TypeOK
    <3>4. CountInv'
        BY <2>5, <3>1, <3>2, <2>0 DEF RdUndo, CountInv
    <3>5. WriterInv'
        BY <2>5, <3>2 DEF RdUndo, Goto, TypeOK, RwInv, WriterInv
    <3> QED  BY <3>3, <3>4, <3>5 DEF RwInv
  <2>6. CASE WrCas(p)
    <3>1. CountedProcs' = CountedProcs
        BY <2>6, CountSame DEF WrCas, Goto
    <3>2. TypeOK'
        BY <2>6, <3>1, <2>0 DEF WrCas, Goto, TypeOK
    <3>3. CountInv'
        BY <2>6, <3>1, <2>0 DEF WrCas, CountInv
    <3>4. WriterInv'
        BY <2>6 DEF WrCas, Goto, TypeOK, RwInv, WriterInv
    <3> QED  BY <3>2, <3>3, <3>4 DEF RwInv
  <2>7. CASE WrWait(p)
    <3>1. CountedProcs' = CountedProcs
        BY <2>7, CountSame DEF WrWait, Goto
    <3>2. \A q \in Procs : pc[q] \notin Readers
        BY <2>7, <2>0 DEF WrWait, CountedProcs
    <3>3. TypeOK'
        BY <2>7, <3>1, <3>2, <2>0 DEF WrWait, Goto, TypeOK
    <3>4. CountInv'
        BY <2>7, <3>1, <3>2, <2>0 DEF WrWait, CountInv
    <3>5. WriterInv'
        BY <2>7, <3>2 DEF WrWait, Goto, TypeOK, RwInv, WriterInv
    <3> QED  BY <3>3, <3>4, <3>5 DEF RwInv
  <2>8. CASE WrSet(p)
    <3>1. CountedProcs' = CountedProcs
        BY <2>8, CountSame DEF WrSet, Goto
    <3>2. TypeOK'
        BY <2>8, <3>1, <2>0 DEF WrSet, Goto, TypeOK
    <3>3. CountInv'
        BY <2>8, <3>1, <2>0 DEF WrSet, CountInv
    <3>4. WriterInv'
        BY <2>8 DEF WrSet, Goto, TypeOK, RwInv, WriterInv
    <3> QED  BY <3>2, <3>3, <3>4 DEF RwInv
  <2>9. CASE RdAssert(p)
    <3>1. rd_lock > 0
      <4>1. p \in CountedProcs
          BY <2>9 DEF RdAssert, CountedProcs
      <4> QED  BY <4>1, <2>0
    <3>2. CountedProcs' = CountedProcs
        BY <2>9, <3>1, CountSame DEF RdAssert, Goto
    <3>3. TypeOK'
        BY <2>9, <3>1, <3>2, <2>0 DEF RdAssert, Goto, TypeOK
    <3>4. CountInv'
        BY <2>9, <3>1, <3>2, <2>0 DEF RdAssert, CountInv
    <3>5. WriterInv'
        BY <2>9, <3>1, <3>2 DEF RdAssert, Goto, TypeOK, RwInv, WriterInv
    <3> QED  BY <3>3, <3>4, <3>5 DEF RwInv
  <2>10. CASE RdLeave(p)
    <3>1. Cardinality(CountedProcs') = Cardinality(CountedProcs) - 1
        BY <2>10, CountOut DEF RdLeave, Goto
    <3>2. p \in CountedProcs
        BY <2>10 DEF RdLeave, CountedProcs
    <3>3. TypeOK'
        BY <2>10, <3>2, <2>0 DEF RdLeave, Goto, TypeOK
    <3>4. CountInv'
        BY <2>10, <3>1, <3>2, <2>0 DEF RdLeave, CountInv
    <3>5. WriterInv'
        BY <2>10, <3>2 DEF RdLeave, Goto, TypeOK, RwInv, WriterInv
    <3> QED  BY <3>3, <3>4, <3>5 DEF RwInv
  <2>11. CASE WrAssert(p)
    <3>1. wr_lock = 1
        BY <2>11 DEF WrAssert, RwInv, WriterInv
    <3>2. CountedProcs' = CountedProcs
        BY <2>11, <3>1, CountSame DEF WrAssert, Goto
    <3>3. TypeOK'
        BY <2>11, <3>1, <3>2, <2>0 DEF WrAssert, Goto, TypeOK
    <3>4. CountInv'
        BY <2>11, <3>1, <3>2, <2>0 DEF WrAssert, CountInv
    <3>5. WriterInv'
        BY <2>11, <3>1, <3>2 DEF WrAssert, Goto, TypeOK, RwInv, WriterInv
    <3> QED  BY <3>3, <3>4, <3>5 DEF RwInv
  <2>12. CASE WrLeave(p)
    <3>1. CountedProcs' = CountedProcs
        BY <2>12, CountSame DEF WrLeave, Goto
    <3>2. TypeOK'
        BY <2>12, <3>1, <2>0 DEF WrLeave, Goto, TypeOK
    <3>3. CountInv'
        BY <2>12, <3>1, <2>0 DEF WrLeave, CountInv
    <3>4. WriterInv'
        BY <2>12 DEF WrLeave, Goto, TypeOK, RwInv, WriterInv
    <3> QED  BY <3>2, <3>3, <3>4 DEF RwInv
  <2> QED  BY <1>2, <2>1, <2>2, <2>3, <2>4, <2>5, <2>6, <2>7, <2>8, <2>9,
              <2>10, <2>11, <2>12
           DEF Step, ev_rwlock_rdlock, ev_rwlock_wrlock, ev_rwlock_rdunlock,
               ev_rwlock_wrunlock
<1> QED  BY <1>1, <1>2 DEF Next

(* The two words of the lock agree with the threads in every reachable     *)
(* state of ev_rwlock.c.                                                   *)
THEOREM RwInvariant == Spec => [](TypeOK /\ RwInv)
<1>1. Init => TypeOK /\ RwInv
    BY InitInv
<1>2. TypeOK /\ RwInv /\ [Next]_vars => (TypeOK /\ RwInv)'
    BY NextInv
<1> QED  BY <1>1, <1>2, PTL DEF Spec

(* A thread that has the lock for writing is alone with it.                *)
THEOREM RwExclusion == Spec => []Exclusion
<1>1. RwInv => Exclusion
    BY DEF RwInv, WriterInv, Exclusion, Announced, Alone, Readers
<1> QED  BY <1>1, RwInvariant, PTL

(* The asserts of ev_rwlock_rdunlock and ev_rwlock_wrunlock never fail.    *)
THEOREM RwAsserts == Spec => []AssertsHold
<1>1. RwInv => AssertsHold
    BY DEF RwInv, WriterInv, AssertsHold
<1> QED  BY <1>1, RwInvariant, PTL

=============================================================================
