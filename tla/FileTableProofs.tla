--------------------------- MODULE FileTableProofs ---------------------------
(***************************************************************************)
(* The table of open files loses no slot and gives none out twice, and the *)
(* library by itself never touches an EF_FILE it has freed, for any number *)
(* of slots, users, disk threads and opens.                                *)
(*                                                                         *)
(* TableInv is inductive.  SlotInv says where each slot is; LockInv that   *)
(* the threads between lock and unlock of a slot are alone there; OwnInv   *)
(* that, as long as no user has polled a close and no callback is set,     *)
(* every EF_FILE has one owner, a user's call or the close's task, and     *)
(* only the owner frees it.                                                *)
(***************************************************************************)
EXTENDS FileTable, FiniteSetTheorems, SequenceTheorems, TLAPS

-----------------------------------------------------------------------------
(* Program points, by what a thread there has in hand                      *)

(* A slot that is neither free nor in the table.                           *)
Holding == {"o_lock", "o_malloc", "f_unlock", "f_put"}

(* A number for an EF_FILE that is not allocated yet.                      *)
Fresh == {"o_lock", "o_malloc"}

(* The lock of its slot.                                                   *)
Locking == {"o_malloc", "o_unlock", "f_clean", "f_unlock",
            "s_look", "s_test", "s_wait", "s_unlock"}

(* An EF_FILE it will close or hand on, by its slot or by its address.     *)
BySlot == {"o_unlock", "o_init", "o_submit", "opening", "open", "s_lock", "s_look",
           "s_test", "s_wait", "s_unlock", "c_submit", "cs_entry", "cs_look",
           "f_lock", "f_clean"}
ByAddress == {"c_close", "c_done", "c_index"}

(* The index of a slot, and the address of an EF_FILE that is not NULL.    *)
HasSlot == BySlot \cup Holding \cup {"closing"}
HasFile == Fresh \cup {"o_unlock", "o_init", "o_submit", "opening", "f_lock", "f_clean"}

Labels == HasSlot \cup ByAddress \cup {"idle", "t_open", "t_opened", "t_status", "t_notify"}

Locals == {r \in [pc : Labels, fd : Slots \cup {Null}, f : Files \cup {Null}] :
              /\ r.pc \in HasSlot => r.fd \in Slots
              /\ r.pc \in HasFile => r.f \in Files}

-----------------------------------------------------------------------------

(* The types of what the invariant speaks of; file is left out.            *)
TypeOK ==
    /\ sg_fd_queue \in Seq(Slots)
    /\ sg_open_files \in [Slots -> Files \cup {Null}]
    /\ sg_handle_to_file_action \in [Slots -> BOOLEAN]
    /\ live \subseteq Files
    /\ opens \in 0..MaxOpens
    /\ tasks \in Seq([run : {"t_open", "c_close"}, f : Files \cup {Null}])
    /\ notify \in BOOLEAN
    /\ t \in [Threads -> Locals]
    /\ polled \in BOOLEAN
    /\ fault \in {"none", "freed", "uninit", "action"}

(* A slot is free, held by one thread or in the table.                     *)
SlotInv ==
    /\ \A i, j \in 1..Len(sg_fd_queue) : sg_fd_queue[i] = sg_fd_queue[j] => i = j
    /\ \A i \in 1..Len(sg_fd_queue) : sg_open_files[sg_fd_queue[i]] = Null
    /\ \A c \in Threads : t[c].pc \in Holding =>
          /\ sg_open_files[t[c].fd] = Null
          /\ \A i \in 1..Len(sg_fd_queue) : sg_fd_queue[i] # t[c].fd
    /\ \A c, d \in Threads : t[c].pc \in Holding /\ t[d].pc \in Holding /\ t[c].fd = t[d].fd => c = d
    /\ \A s \in Slots : \/ sg_open_files[s] # Null
                        \/ \E i \in 1..Len(sg_fd_queue) : sg_fd_queue[i] = s
                        \/ \E c \in Threads : t[c].pc \in Holding /\ t[c].fd = s

(* The entries of the table are the EF_FILEs allocated, each in one slot;  *)
(* ef_open allocates one that is not there.                                *)
FileInv ==
    /\ \A s \in Slots : sg_open_files[s] # Null => sg_open_files[s] \in live
    /\ \A f \in live : f <= opens /\ \E s \in Slots : sg_open_files[s] = f
    /\ \A r, s \in Slots : sg_open_files[r] # Null /\ sg_open_files[r] = sg_open_files[s]
                            => r = s
    /\ \A c \in Threads : t[c].pc \in Fresh => t[c].f <= opens /\ t[c].f \notin live
    /\ \A c, d \in Threads : t[c].pc \in Fresh /\ t[d].pc \in Fresh /\ t[c].f = t[d].f => c = d

(* The threads that have taken the lock of their slot are alone there.     *)
LockInv ==
    /\ \A c \in Threads : t[c].pc \in Locking => sg_handle_to_file_action[t[c].fd]
    /\ \A c, d \in Threads : t[c].pc \in Locking /\ t[d].pc \in Locking /\ t[c].fd = t[d].fd => c = d

(* The calls and tasks that will close or hand on an EF_FILE.              *)
Owners == {c \in Threads \ {Walker} : t[c].pc \in BySlot \cup ByAddress}
CloseTasks == {i \in 1..Len(tasks) : tasks[i].run = "c_close"}

(* Every owner's EF_FILE is allocated and its own; slow_sync's is the one  *)
(* of the slot it has locked; nothing that was freed has been touched.     *)
Owned ==
    /\ \A c \in Owners : t[c].f \in live
    /\ \A c \in Owners : t[c].pc \in BySlot => sg_open_files[t[c].fd] = t[c].f
    /\ \A c, d \in Owners : t[c].f = t[d].f => c = d
    /\ \A i \in CloseTasks : tasks[i].f \in live
    /\ \A i, j \in CloseTasks : tasks[i].f = tasks[j].f => i = j
    /\ \A c \in Owners, i \in CloseTasks : t[c].f # tasks[i].f
    /\ t[Walker].pc \in {"s_test", "s_wait"} =>
          t[Walker].f \in live /\ sg_open_files[t[Walker].fd] = t[Walker].f
    /\ fault # "freed"

OwnInv == polled \/ notify \/ Owned

TableInv == TypeOK /\ SlotInv /\ FileInv /\ LockInv /\ OwnInv

-----------------------------------------------------------------------------
(* Steps of a thread, by what they leave alone                             *)

(* Only c's locals change.                                                 *)
Moves(c) == t' \in [Threads -> Locals] /\ \A d \in Threads : d # c => t'[d] = t[d]

(* A step that gives no slot and takes none keeps every slot in its place. *)
LEMMA SlotMove ==
    ASSUME SlotInv, NEW c \in Threads, Moves(c), UNCHANGED <<sg_fd_queue, sg_open_files>>,
           t[c].pc \in Holding => t'[c].pc \in Holding,
           t'[c].pc \in Holding => t[c].pc \in Holding /\ t'[c].fd = t[c].fd
    PROVE  SlotInv'
<1>1. \A d \in Threads : t[d].pc \in Holding => t'[d].pc \in Holding
    BY DEF Moves
<1>2. \A d \in Threads : t'[d].pc \in Holding => t[d].pc \in Holding /\ t'[d].fd = t[d].fd
    BY DEF Moves
<1>3. \A c1, d \in Threads : t'[c1].pc \in Holding /\ t'[d].pc \in Holding /\ t'[c1].fd = t'[d].fd
                            => c1 = d
    BY <1>2 DEF SlotInv
<1>4. ASSUME NEW s \in Slots, sg_open_files[s] = Null,
             \A i \in 1..Len(sg_fd_queue) : sg_fd_queue[i] # s
      PROVE  \E d \in Threads : t'[d].pc \in Holding /\ t'[d].fd = s
  <2>1. PICK d \in Threads : t[d].pc \in Holding /\ t[d].fd = s
      BY <1>4 DEF SlotInv
  <2> QED  BY <1>1, <1>2, <2>1
<1> QED  BY <1>2, <1>3, <1>4 DEF SlotInv

(* A step that allocates and frees nothing keeps the entries.              *)
LEMMA FileMove ==
    ASSUME FileInv, NEW c \in Threads, Moves(c), UNCHANGED <<sg_open_files, live, opens>>,
           t'[c].pc \in Fresh => t[c].pc \in Fresh /\ t'[c].f = t[c].f
    PROVE  FileInv'
<1>1. \A d \in Threads : t'[d].pc \in Fresh => t[d].pc \in Fresh /\ t'[d].f = t[d].f
    BY DEF Moves
<1> HIDE DEF Fresh
<1> QED  BY <1>1 DEF FileInv

(* A step without lock or unlock.                                          *)
LEMMA LockMove ==
    ASSUME LockInv, NEW c \in Threads, Moves(c), UNCHANGED sg_handle_to_file_action,
           t'[c].pc \in Locking => t[c].pc \in Locking /\ t'[c].fd = t[c].fd
    PROVE  LockInv'
<1>1. \A d \in Threads : t'[d].pc \in Locking => t[d].pc \in Locking /\ t'[d].fd = t[d].fd
    BY DEF Moves
<1> HIDE DEF Locking
<1> QED  BY <1>1 DEF LockInv

(* The compare and swap on sg_handle_to_file_action.                       *)
LEMMA LockTake ==
    ASSUME TypeOK, LockInv, NEW c \in Threads, Moves(c),
           t[c].fd \in Slots, ~sg_handle_to_file_action[t[c].fd],
           sg_handle_to_file_action' = [sg_handle_to_file_action EXCEPT ![t[c].fd] = TRUE],
           t'[c].fd = t[c].fd
    PROVE  LockInv'
<1>1. \A d \in Threads : d # c /\ t'[d].pc \in Locking => t[d].pc \in Locking /\ t'[d].fd = t[d].fd
    BY DEF Moves
<1>2. \A d \in Threads : d # c /\ t'[d].pc \in Locking => t'[d].fd # t[c].fd
    BY <1>1 DEF LockInv
<1> HIDE DEF Locking
<1>3. \A s \in Slots : sg_handle_to_file_action[s] => sg_handle_to_file_action'[s]
    BY DEF TypeOK
<1>4. \A d \in Threads : t'[d].pc \in Locking => sg_handle_to_file_action'[t'[d].fd]
  <2> SUFFICES ASSUME NEW d \in Threads, t'[d].pc \in Locking
               PROVE  sg_handle_to_file_action'[t'[d].fd]
      OBVIOUS
  <2>1. CASE d = c
      BY <2>1 DEF TypeOK
  <2>2. CASE d # c
      BY <1>1, <1>2, <2>2 DEF LockInv, TypeOK
  <2> QED  BY <2>1, <2>2
<1> QED  BY <1>1, <1>2, <1>4 DEF LockInv

(* The store that unlocks.                                                 *)
LEMMA LockRelease ==
    ASSUME TypeOK, LockInv, NEW c \in Threads, Moves(c),
           t[c].fd \in Slots, t[c].pc \in Locking, t'[c].pc \notin Locking,
           sg_handle_to_file_action' = [sg_handle_to_file_action EXCEPT ![t[c].fd] = FALSE]
    PROVE  LockInv'
<1>1. \A d \in Threads : t'[d].pc \in Locking =>
         d # c /\ t[d].pc \in Locking /\ t'[d].fd = t[d].fd
    BY DEF Moves
<1>2. \A d \in Threads : t'[d].pc \in Locking => t[d].fd # t[c].fd
    BY <1>1 DEF LockInv
<1> HIDE DEF Locking
<1>3. \A s \in Slots : s # t[c].fd => sg_handle_to_file_action'[s] = sg_handle_to_file_action[s]
    BY DEF TypeOK
<1>4. \A d \in Threads : t'[d].pc \in Locking => sg_handle_to_file_action'[t'[d].fd]
    BY <1>1, <1>2 DEF LockInv, TypeOK
<1> QED  BY <1>1, <1>4 DEF LockInv

(* A step after which c owns what it owned before, or nothing.             *)
LEMMA OwnMove ==
    ASSUME TypeOK, Owned, NEW c \in Threads, Moves(c),
           UNCHANGED <<sg_open_files, live, tasks>>, fault' # "freed",
           c # Walker /\ t'[c].pc \in BySlot \cup ByAddress =>
               t[c].pc \in BySlot \cup ByAddress /\ t'[c].f = t[c].f,
           c # Walker /\ t'[c].pc \in BySlot => sg_open_files[t'[c].fd] = t'[c].f,
           c = Walker /\ t'[c].pc \in {"s_test", "s_wait"} =>
               t'[c].f \in live /\ sg_open_files[t'[c].fd] = t'[c].f
    PROVE  Owned'
<1>1. /\ Owners' \subseteq Owners
      /\ \A d \in Owners' : t'[d].f = t[d].f
      /\ \A d \in Owners' : t'[d].pc \in BySlot => sg_open_files'[t'[d].fd] = t'[d].f
    BY DEF Owners, Moves, Owned
<1>2. CloseTasks' = CloseTasks /\ tasks' = tasks
    BY DEF CloseTasks
<1>3. t'[Walker].pc \in {"s_test", "s_wait"} =>
          t'[Walker].f \in live' /\ sg_open_files'[t'[Walker].fd] = t'[Walker].f
    BY DEF Owned, Moves, Threads
<1> QED  BY <1>1, <1>2, <1>3 DEF Owned

-----------------------------------------------------------------------------
(* What the assignments to a thread's locals do                            *)

(* The locals of a thread, field by field.                                 *)
LEMMA LocalsFields ==
    ASSUME NEW r \in Locals
    PROVE  /\ r = [pc |-> r.pc, fd |-> r.fd, f |-> r.f]
           /\ r.pc \in Labels /\ r.fd \in Slots \cup {Null} /\ r.f \in Files \cup {Null}
           /\ r.pc \in HasSlot => r.fd \in Slots
           /\ r.pc \in HasFile => r.f \in Files
  BY DEF Locals

(* The converse.                                                           *)
LEMMA LocalsRecord ==
    ASSUME NEW pc \in Labels, NEW fd \in Slots \cup {Null}, NEW f \in Files \cup {Null},
           pc \in HasSlot => fd \in Slots, pc \in HasFile => f \in Files
    PROVE  [pc |-> pc, fd |-> fd, f |-> f] \in Locals
  BY DEF Locals

(* A thread's locals are replaced.                                         *)
LEMMA SetMoves ==
    ASSUME TypeOK, NEW c \in Threads, NEW r \in Locals, t' = [t EXCEPT ![c] = r]
    PROVE  Moves(c) /\ t'[c] = r
  BY DEF TypeOK, Moves

(* The locals of a thread are given one by one.                            *)
LEMMA GoOnMoves ==
    ASSUME TypeOK, NEW c \in Threads, NEW pc \in Labels, NEW fd \in Slots \cup {Null},
           NEW f \in Files \cup {Null}, GoOn(c, pc, fd, f),
           pc \in HasSlot => fd \in Slots, pc \in HasFile => f \in Files
    PROVE  Moves(c) /\ t'[c].pc = pc /\ t'[c].fd = fd /\ t'[c].f = f
<1> DEFINE r == [pc |-> pc, fd |-> fd, f |-> f]
<1>1. r \in Locals
    BY LocalsRecord
<1>2. r.pc = pc /\ r.fd = fd /\ r.f = f /\ t' = [t EXCEPT ![c] = r]
    BY DEF GoOn
<1> HIDE DEF r
<1> QED  BY <1>1, <1>2, SetMoves

(* A thread goes on with the same slot and file.                           *)
LEMMA GotoMoves ==
    ASSUME TypeOK, NEW c \in Threads, NEW label \in Labels, Goto(c, label),
           label \in HasSlot => t[c].pc \in HasSlot,
           label \in HasFile => t[c].pc \in HasFile
    PROVE  /\ Moves(c)
           /\ t'[c].pc = label /\ t'[c].fd = t[c].fd /\ t'[c].f = t[c].f
<1>1. t[c] \in Locals
    BY DEF TypeOK
<1> DEFINE r == [pc |-> label, fd |-> t[c].fd, f |-> t[c].f]
<1>2. r \in Locals
    BY <1>1, LocalsFields, LocalsRecord
<1>3. [t[c] EXCEPT !.pc = label] = r
    BY <1>1 DEF Locals
<1>4. t' = [t EXCEPT ![c] = r]
    BY <1>3 DEF Goto
<1>5. r.pc = label /\ r.fd = t[c].fd /\ r.f = t[c].f
    OBVIOUS
<1> HIDE DEF r
<1> QED  BY <1>2, <1>4, <1>5, SetMoves

(* A thread ends its call or task.                                         *)
LEMMA ReturnMoves ==
    ASSUME TypeOK, NEW c \in Threads, Return(c)
    PROVE  Moves(c) /\ t'[c].pc = "idle"
<1>1. Idle \in Locals
    BY DEF Idle, Locals, Labels, HasSlot, HasFile, BySlot, Holding, Fresh
<1>2. Moves(c) /\ t'[c] = Idle
    BY <1>1, SetMoves DEF Return
<1> QED  BY <1>2 DEF Idle

(* An owner is somewhere with the file in its slot.                        *)
LEMMA OwnerFacts ==
    ASSUME Owned, NEW c \in Threads, c # Walker, t[c].pc \in BySlot \cup ByAddress
    PROVE  /\ c \in Owners /\ t[c].f \in live
           /\ t[c].pc \in BySlot => sg_open_files[t[c].fd] = t[c].f
  BY DEF Owned, Owners

-----------------------------------------------------------------------------
(* One lemma for each kind of step                                         *)

(* The spin lock of a slot is taken by ef_open, by the cleanup or by       *)
(* sync_file_writes.                                                       *)
LEMMA LockKeeps ==
    ASSUME TableInv, NEW c \in Threads, OpenLock(c) \/ CleanupLock(c) \/ SyncLock(c)
    PROVE  TableInv'
<1> USE DEF Labels, HasSlot, HasFile, BySlot, ByAddress, Holding, Fresh, Locking
<1>0. TypeOK /\ SlotInv /\ FileInv /\ LockInv /\ OwnInv
    BY DEF TableInv
<1>1. PICK m \in {<<"o_lock", "o_malloc">>, <<"f_lock", "f_clean">>, <<"s_lock", "s_look">>} :
         t[c].pc = m[1] /\ lock(c, m[2])
    BY DEF OpenLock, CleanupLock, SyncLock, At
<1>2. Moves(c) /\ t'[c].pc = m[2] /\ t'[c].fd = t[c].fd /\ t'[c].f = t[c].f
    BY <1>0, <1>1, GotoMoves DEF lock
<1>3. t[c].fd \in Slots
    BY <1>0, <1>1, LocalsFields DEF TypeOK
<1>4. TypeOK'
    BY <1>0, <1>1, <1>2, <1>3 DEF TypeOK, lock, Moves
<1>5. SlotInv'
    BY <1>0, <1>1, <1>2, SlotMove DEF lock
<1>6. FileInv'
    BY <1>0, <1>1, <1>2, FileMove DEF lock
<1>7. LockInv'
    BY <1>0, <1>1, <1>2, <1>3, LockTake DEF lock
<1>8. Owned => Owned'
  <2> SUFFICES ASSUME Owned PROVE Owned'
      OBVIOUS
  <2>1. fault' # "freed" /\ UNCHANGED <<sg_open_files, live, tasks>>
      BY <1>1 DEF lock, Owned
  <2>2. c # Walker /\ t'[c].pc \in BySlot \cup ByAddress =>
           t[c].pc \in BySlot \cup ByAddress /\ sg_open_files[t'[c].fd] = t'[c].f
      BY <1>1, <1>2, OwnerFacts
  <2>3. t'[c].pc \notin {"s_test", "s_wait"}
      BY <1>1, <1>2
  <2> QED  BY <1>0, <1>2, <2>1, <2>2, <2>3, OwnMove
<1>9. OwnInv'
    BY <1>0, <1>1, <1>8 DEF OwnInv, lock
<1> QED  BY <1>4, <1>5, <1>6, <1>7, <1>9 DEF TableInv

(* The lock of a slot is released.                                         *)
LEMMA UnlockKeeps ==
    ASSUME TableInv, NEW c \in Threads, OpenUnlock(c) \/ CleanupUnlock(c) \/ SyncUnlock(c)
    PROVE  TableInv'
<1> USE DEF Labels, HasSlot, HasFile, BySlot, ByAddress, Holding, Fresh, Locking
<1>0. TypeOK /\ SlotInv /\ FileInv /\ LockInv /\ OwnInv
    BY DEF TableInv
<1>1. PICK m \in {<<"o_unlock", "o_init">>, <<"f_unlock", "f_put">>, <<"s_unlock", "c_submit">>} :
         /\ t[c].pc = m[1]
         /\ \/ unlock(c, Goto(c, m[2])) /\ (m[1] = "s_unlock" => c # Walker)
            \/ unlock(c, Return(c)) /\ m[1] = "s_unlock"
    BY DEF OpenUnlock, CleanupUnlock, SyncUnlock, At, unlock
<1>2. /\ Moves(c) /\ t'[c].pc \in {m[2], "idle"}
      /\ t'[c].pc = "idle" => m[1] = "s_unlock"
      /\ t'[c].pc = m[2] => t'[c].fd = t[c].fd /\ t'[c].f = t[c].f
  <2>1. CASE Goto(c, m[2])
      BY <1>0, <1>1, <2>1, GotoMoves
  <2>2. CASE Return(c) /\ m[1] = "s_unlock"
      BY <1>0, <1>1, <2>2, ReturnMoves
  <2> QED  BY <1>1, <2>1, <2>2 DEF unlock
<1>3. t[c].fd \in Slots
    BY <1>0, <1>1, LocalsFields DEF TypeOK
<1>4. TypeOK'
    BY <1>0, <1>1, <1>2, <1>3 DEF TypeOK, unlock, Moves
<1>5. SlotInv'
    BY <1>0, <1>1, <1>2, SlotMove DEF unlock
<1>6. FileInv'
    BY <1>0, <1>1, <1>2, FileMove DEF unlock
<1>7. LockInv'
    BY <1>0, <1>1, <1>2, <1>3, LockRelease DEF unlock
<1>8. Owned => Owned'
  <2> SUFFICES ASSUME Owned PROVE Owned'
      OBVIOUS
  <2>1. fault' # "freed" /\ UNCHANGED <<sg_open_files, live, tasks>>
      BY <1>1 DEF unlock, Owned
  <2>2. c # Walker /\ t'[c].pc \in BySlot \cup ByAddress =>
           t[c].pc \in BySlot \cup ByAddress /\ sg_open_files[t'[c].fd] = t'[c].f /\ t'[c].f = t[c].f
      BY <1>1, <1>2, OwnerFacts
  <2>3. t'[c].pc \notin {"s_test", "s_wait"}
      BY <1>1, <1>2
  <2> QED  BY <1>0, <1>2, <2>1, <2>2, <2>3, OwnMove
<1>9. OwnInv'
    BY <1>0, <1>1, <1>8 DEF OwnInv, unlock
<1> QED  BY <1>4, <1>5, <1>6, <1>7, <1>9 DEF TableInv

(* A step that neither takes nor gives a slot, a lock or a file.           *)
LEMMA QuietKeeps ==
    ASSUME TableInv, NEW c \in Threads, Moves(c),
           UNCHANGED <<table, live, opens, notify>>, TypeOK', OwnInv',
           t[c].pc \notin Holding, t'[c].pc \notin Holding,
           t'[c].pc \in Locking => t[c].pc \in Locking /\ t'[c].fd = t[c].fd
    PROVE  TableInv'
<1>1. SlotInv /\ FileInv /\ LockInv
    BY DEF TableInv
<1>2. UNCHANGED <<sg_fd_queue, sg_open_files, sg_handle_to_file_action, live, opens>>
    BY DEF table
<1>3. SlotInv'
    BY <1>1, <1>2, SlotMove
<1>4. FileInv'
    BY <1>1, <1>2, FileMove DEF Fresh, Holding
<1>5. LockInv'
    BY <1>1, <1>2, LockMove
<1> QED  BY <1>3, <1>4, <1>5 DEF TableInv

(* A thread goes on to a point where it has no more in hand.               *)
LEMMA GotoKeeps ==
    ASSUME TableInv, NEW c \in Threads, NEW label \in Labels, Goto(c, label),
           UNCHANGED <<table, live, opens, tasks, notify, polled, fault>>,
           t[c].pc \notin Holding, label \notin Holding,
           label \in HasSlot => t[c].pc \in HasSlot,
           label \in HasFile => t[c].pc \in HasFile,
           label \in Locking => t[c].pc \in Locking,
           label \in BySlot => t[c].pc \in BySlot \/ c = Walker,
           label \in ByAddress => t[c].pc \in BySlot \cup ByAddress,
           label \in {"s_test", "s_wait"} => t[c].pc \in {"s_test", "s_wait"}
    PROVE  TableInv'
<1>0. TypeOK /\ OwnInv
    BY DEF TableInv
<1>1. Moves(c) /\ t'[c].pc = label /\ t'[c].fd = t[c].fd /\ t'[c].f = t[c].f
    BY <1>0, GotoMoves
<1>2. UNCHANGED <<sg_fd_queue, sg_open_files, sg_handle_to_file_action>>
    BY DEF table
<1>3. TypeOK'
    BY <1>0, <1>1, <1>2 DEF TypeOK, Moves
<1>4. ASSUME Owned PROVE Owned'
  <2>1. fault' # "freed"
      BY <1>4 DEF Owned
  <2>2. c # Walker /\ t'[c].pc \in BySlot => sg_open_files[t'[c].fd] = t'[c].f
      BY <1>1, <1>4, OwnerFacts
  <2>3. c = Walker /\ t'[c].pc \in {"s_test", "s_wait"} =>
           t'[c].f \in live /\ sg_open_files[t'[c].fd] = t'[c].f
      BY <1>1, <1>4 DEF Owned
  <2> QED  BY <1>0, <1>1, <1>2, <1>4, <2>1, <2>2, <2>3, OwnMove
<1>5. OwnInv'
    BY <1>0, <1>4 DEF OwnInv
<1> QED  BY <1>1, <1>3, <1>5, QuietKeeps

(* A thread ends its call or task and gives up what it owned.              *)
LEMMA ReturnKeeps ==
    ASSUME TableInv, NEW c \in Threads, Return(c), t[c].pc \notin Holding,
           UNCHANGED <<table, live, opens, tasks, notify, polled, fault>>
    PROVE  TableInv'
<1>0. TypeOK /\ OwnInv
    BY DEF TableInv
<1>1. Moves(c) /\ t'[c].pc = "idle"
    BY <1>0, ReturnMoves
<1>2. t'[c].pc \notin Holding \cup Locking \cup BySlot \cup ByAddress \cup {"s_test", "s_wait"}
    BY <1>1 DEF Holding, Locking, BySlot, ByAddress
<1>3. TypeOK'
    BY <1>0, <1>1 DEF TypeOK, Moves, table
<1>4. Owned => Owned'
    BY <1>0, <1>1, <1>2, OwnMove DEF Owned, table
<1>5. OwnInv'
    BY <1>0, <1>4 DEF OwnInv
<1> QED  BY <1>1, <1>2, <1>3, <1>5, QuietKeeps

(* A thread touches what is not there: nothing changes but fault.          *)
LEMMA FaultKeeps ==
    ASSUME TableInv, UNCHANGED <<table, live, opens, tasks, notify, polled, t>>,
           fault' \in {"none", "freed", "uninit", "action"},
           Owned /\ ~polled /\ ~notify => fault' # "freed"
    PROVE  TableInv'
<1> USE DEF table
<1>1. TypeOK' /\ SlotInv' /\ FileInv' /\ LockInv'
  <2>1. TypeOK'
      BY DEF TableInv, TypeOK
  <2>2. SlotInv'
      BY DEF TableInv, SlotInv
  <2>3. FileInv'
      BY DEF TableInv, FileInv
  <2>4. LockInv'
      BY DEF TableInv, LockInv
  <2> QED  BY <2>1, <2>2, <2>3, <2>4
<1>2. OwnInv'
    BY DEF TableInv, OwnInv, Owned, Owners, CloseTasks
<1> QED  BY <1>1, <1>2 DEF TableInv

-----------------------------------------------------------------------------
(* ef_open, ef_open_status and the task of the open                        *)

(* The steps that work on the EF_FILE alone.                               *)
LEMMA FileStepKeeps ==
    ASSUME TableInv, NEW c \in Threads,
           \/ OpenInit(c) \/ OpenFile(c) \/ OpenComplete(c) \/ OpenStatus(c)
           \/ CloseFile(c) \/ CloseComplete(c)
    PROVE  TableInv'
<1>1. PICK m \in {<<"o_init", "o_submit">>, <<"t_open", "t_opened">>, <<"t_opened", "t_status">>,
                  <<"t_status", "t_notify">>, <<"c_close", "c_done">>, <<"c_done", "c_index">>} :
         /\ t[c].pc = m[1] /\ Goto(c, m[2])
         /\ UNCHANGED <<table, live, opens, tasks, notify, polled, fault>>
    BY DEF OpenInit, OpenFile, OpenComplete, OpenStatus, CloseFile, CloseComplete, At
<1>2. /\ m[2] \in Labels /\ t[c].pc \notin Holding /\ m[2] \notin Holding
      /\ m[2] \in HasSlot => t[c].pc \in HasSlot
      /\ m[2] \in HasFile => t[c].pc \in HasFile
      /\ m[2] \notin Locking /\ m[2] \notin {"s_test", "s_wait"}
      /\ m[2] \in BySlot => t[c].pc \in BySlot
      /\ m[2] \in ByAddress => t[c].pc \in ByAddress
    BY <1>1 DEF Labels, HasSlot, HasFile, BySlot, ByAddress, Holding, Fresh, Locking
<1> QED  BY <1>1, <1>2, GotoKeeps

(* ef_open hands the open to the pool and stays the owner.                 *)
LEMMA OpenSubmitKeeps ==
    ASSUME TableInv, NEW u \in Threads, OpenSubmit(u)
    PROVE  TableInv'
<1> DEFINE task == [run |-> "t_open", f |-> t[u].f]
<1>0. TypeOK /\ OwnInv
    BY DEF TableInv
<1>1. t[u].pc = "o_submit" /\ Goto(u, "opening")
    BY DEF OpenSubmit, At
<1>2. Moves(u) /\ t'[u].pc = "opening" /\ t'[u].fd = t[u].fd /\ t'[u].f = t[u].f
    BY <1>0, <1>1, GotoMoves DEF Labels, HasSlot, HasFile, BySlot
<1>3. t[u].f \in Files \cup {Null}
    BY <1>0, LocalsFields DEF TypeOK
<1>4. /\ tasks' \in Seq([run : {"t_open", "c_close"}, f : Files \cup {Null}])
      /\ Len(tasks') = Len(tasks) + 1 /\ Len(tasks) \in Nat
      /\ \A i \in 1..Len(tasks) : tasks'[i] = tasks[i]
      /\ tasks'[Len(tasks) + 1].run = "t_open"
  <2>1. task \in [run : {"t_open", "c_close"}, f : Files \cup {Null}] /\ task.run = "t_open"
      BY <1>3
  <2>2. tasks' = Append(tasks, task)
      BY DEF OpenSubmit
  <2>3. Len(tasks) \in Nat
      BY <1>0 DEF TypeOK
  <2> HIDE DEF task
  <2> QED  BY <1>0, <2>1, <2>2, <2>3, AppendProperties DEF TypeOK
<1>5. CloseTasks' = CloseTasks /\ \A i \in CloseTasks : tasks'[i] = tasks[i]
    BY <1>4 DEF CloseTasks
<1>6. UNCHANGED <<table, live, opens, notify, polled, fault>>
    BY DEF OpenSubmit
<1>7. TypeOK'
    BY <1>0, <1>2, <1>4, <1>6 DEF TypeOK, Moves, table
<1>8. ASSUME Owned PROVE Owned'
  <2>1. Owners' = Owners /\ \A c \in Owners : t'[c].f = t[c].f /\ t'[c].fd = t[c].fd
      BY <1>1, <1>2 DEF Owners, Moves, BySlot
  <2>2. \A c \in Owners : t'[c].pc \in BySlot => t[c].pc \in BySlot
      BY <1>1, <1>2 DEF Owners, Moves, BySlot
  <2>3. t'[Walker].pc \in {"s_test", "s_wait"} => t'[Walker] = t[Walker]
      BY <1>2 DEF Moves, Threads
  <2> QED  BY <1>5, <1>6, <1>8, <2>1, <2>2, <2>3 DEF Owned, table
<1>9. OwnInv'
    BY <1>0, <1>6, <1>8 DEF OwnInv
<1> QED  BY <1>1, <1>2, <1>6, <1>7, <1>9, QuietKeeps DEF Holding, Locking

(* The user's file is in its slot when it looks.                           *)
LEMMA OpenStatusCallKeeps ==
    ASSUME TableInv, NEW u \in Users, ef_open_status(u)
    PROVE  TableInv'
<1>0. u \in Threads /\ u # Walker
    BY TableAssumption DEF Threads
<1>1. /\ t[u].pc = "opening" /\ fault = "none"
      /\ UNCHANGED <<table, live, opens, tasks, notify, polled>>
      /\ \/ Goto(u, "f_lock") /\ UNCHANGED fault
         \/ Goto(u, "open") /\ UNCHANGED fault
         \/ Entry(u) \notin live /\ fault' = "freed" /\ UNCHANGED t
    BY DEF ef_open_status, At, Touch
<1>2. CASE UNCHANGED fault /\ Goto(u, "f_lock")
    BY <1>0, <1>1, <1>2, GotoKeeps DEF Labels, HasSlot, HasFile, BySlot, ByAddress, Holding, Fresh, Locking
<1>3. CASE UNCHANGED fault /\ Goto(u, "open")
    BY <1>0, <1>1, <1>3, GotoKeeps DEF Labels, HasSlot, HasFile, BySlot, ByAddress, Holding, Fresh, Locking
<1>4. CASE Entry(u) \notin live /\ fault' = "freed" /\ UNCHANGED t
  <2>1. ~Owned
      BY <1>0, <1>1, <1>4, OwnerFacts DEF Entry, BySlot
  <2> QED  BY <1>1, <1>4, <2>1, FaultKeeps
<1> QED  BY <1>1, <1>2, <1>3, <1>4

(* The callback is called only when it has been set.                       *)
LEMMA OpenNotifyKeeps ==
    ASSUME TableInv, NEW k \in Threads, OpenNotify(k)
    PROVE  TableInv'
<1>1. /\ t[k].pc = "t_notify" /\ UNCHANGED <<table, live, opens, tasks, notify, polled>>
      /\ \/ Return(k) /\ UNCHANGED fault
         \/ notify /\ fault' = "freed" /\ UNCHANGED t
    BY DEF OpenNotify, At, Touch
<1>2. CASE Return(k) /\ UNCHANGED fault
    BY <1>1, <1>2, ReturnKeeps DEF Holding
<1>3. CASE notify /\ fault' = "freed" /\ UNCHANGED t
    BY <1>1, <1>3, FaultKeeps
<1> QED  BY <1>1, <1>2, <1>3

-----------------------------------------------------------------------------
(* sync_file_writes and slow_sync                                          *)

(* slow_sync finds an entry; what it does then is up to the lock.          *)
LEMMA SlowSyncKeeps ==
    ASSUME TableInv, slow_sync
    PROVE  TableInv'
<1>0. TypeOK /\ OwnInv /\ Walker \in Threads
    BY DEF TableInv, Threads
<1>1. PICK s \in Slots : GoOn(Walker, "s_lock", s, Null)
    BY DEF slow_sync
<1>2. t[Walker].pc = "idle" /\ UNCHANGED <<table, live, opens, tasks, notify, polled, fault>>
    BY DEF slow_sync, At
<1>3. "s_lock" \in Labels /\ "s_lock" \notin HasFile
    BY DEF Labels, HasSlot, HasFile, BySlot, Fresh
<1>4. Moves(Walker) /\ t'[Walker].pc = "s_lock"
    BY <1>0, <1>1, <1>3, GoOnMoves
<1>5. TypeOK'
    BY <1>0, <1>2, <1>4 DEF TypeOK, Moves, table
<1>6. Owned => Owned'
    BY <1>0, <1>2, <1>4, OwnMove DEF Owned, table
<1>7. OwnInv'
    BY <1>0, <1>2, <1>6 DEF OwnInv
<1> QED  BY <1>0, <1>2, <1>4, <1>5, <1>7, QuietKeeps DEF Holding, Locking

(* With the lock of the slot the entry is NULL or a file that is there.    *)
LEMMA SyncLookKeeps ==
    ASSUME TableInv, NEW c \in Threads, SyncLook(c)
    PROVE  TableInv'
<1> DEFINE f == Entry(c)
<1>0. TypeOK /\ FileInv /\ OwnInv
    BY DEF TableInv
<1>1. t[c].pc = "s_look" /\ fault = "none" /\ UNCHANGED <<table, live, opens, tasks, notify, polled>>
    BY DEF SyncLook, At
<1>2. t[c].fd \in Slots /\ t[c] \in Locals
    BY <1>0, <1>1, LocalsFields DEF TypeOK, HasSlot, BySlot
<1>3. f # Null => f \in live /\ f \in Files
    BY <1>0, <1>2 DEF FileInv, Entry, TypeOK
<1>4. \/ Goto(c, "s_unlock") /\ UNCHANGED fault
      \/ f # Null /\ f \notin live
      \/ fault' = "uninit" /\ UNCHANGED t
      \/ /\ f # Null /\ UNCHANGED fault
         /\ GoOn(c, "s_test", t[c].fd, f)
    BY DEF SyncLook, Touch
<1>5. CASE Goto(c, "s_unlock") /\ UNCHANGED fault
    BY <1>1, <1>5, GotoKeeps DEF Labels, HasSlot, HasFile, BySlot, ByAddress, Holding, Fresh, Locking
<1>6. CASE fault' = "uninit" /\ UNCHANGED t
    BY <1>1, <1>6, FaultKeeps
<1>7. CASE f # Null /\ UNCHANGED fault /\ GoOn(c, "s_test", t[c].fd, f)
  <2>1. "s_test" \in Labels /\ "s_test" \notin HasFile /\ "s_look" \in HasSlot
      BY DEF Labels, HasSlot, HasFile, BySlot, Fresh
  <2>3. Moves(c) /\ t'[c].pc = "s_test" /\ t'[c].fd = t[c].fd /\ t'[c].f = f
      BY <1>0, <1>2, <1>3, <1>7, <2>1, GoOnMoves
  <2>4. TypeOK'
      BY <1>0, <1>1, <1>7, <2>3 DEF TypeOK, Moves, table
  <2>5. ASSUME Owned PROVE Owned'
    <3>1. c # Walker => t[c].pc \in BySlot /\ t[c].f = f
        BY <1>1, <2>5, OwnerFacts DEF Entry, BySlot
    <3>2. fault' # "freed" /\ UNCHANGED <<sg_open_files, live, tasks>> /\ sg_open_files[t'[c].fd] = f
        BY <1>1, <1>7, <2>3 DEF table, Entry
    <3> HIDE DEF f
    <3> QED  BY <1>0, <1>3, <1>7, <2>3, <2>5, <3>1, <3>2, OwnMove
  <2>6. OwnInv'
      BY <1>0, <1>1, <2>5 DEF OwnInv
  <2> QED  BY <1>1, <2>3, <2>4, <2>6, QuietKeeps DEF Holding, Locking
<1> QED  BY <1>3, <1>4, <1>5, <1>6, <1>7

(* The file stays while the lock of its slot is held.                      *)
LEMMA SyncWaitKeeps ==
    ASSUME TableInv, NEW c \in Threads, SyncTest(c) \/ SyncWait(c)
    PROVE  TableInv'
<1>1. /\ t[c].pc \in {"s_test", "s_wait"} /\ fault = "none"
      /\ UNCHANGED <<table, live, opens, tasks, notify, polled>>
      /\ \/ Goto(c, "s_unlock") /\ UNCHANGED fault
         \/ Goto(c, "s_wait") /\ UNCHANGED fault
         \/ fault' = "action" /\ UNCHANGED t
         \/ t[c].f \notin live /\ fault' = "freed" /\ UNCHANGED t
    BY DEF SyncTest, SyncWait, At, Touch
<1>2. CASE Goto(c, "s_unlock") /\ UNCHANGED fault
    BY <1>1, <1>2, GotoKeeps DEF Labels, HasSlot, HasFile, BySlot, ByAddress, Holding, Fresh, Locking
<1>3. CASE Goto(c, "s_wait") /\ UNCHANGED fault
    BY <1>1, <1>3, GotoKeeps DEF Labels, HasSlot, HasFile, BySlot, ByAddress, Holding, Fresh, Locking
<1>4. CASE fault' = "action" /\ UNCHANGED t
    BY <1>1, <1>4, FaultKeeps
<1>5. CASE t[c].f \notin live /\ fault' = "freed" /\ UNCHANGED t
  <2>1. Owned => t[c].f \in live
      BY <1>1, OwnerFacts DEF Owned, BySlot
  <2> QED  BY <1>1, <1>5, <2>1, FaultKeeps
<1> QED  BY <1>1, <1>2, <1>3, <1>4, <1>5

-----------------------------------------------------------------------------
(* ef_close, its task and ef_close_status                                  *)

(* The user's file is in its slot.                                         *)
LEMMA CloseCallKeeps ==
    ASSUME TableInv, NEW u \in Users, ef_close(u)
    PROVE  TableInv'
<1>0. u \in Threads /\ u # Walker
    BY TableAssumption DEF Threads
<1>1. /\ t[u].pc \in {"open", "opening"} /\ fault = "none"
      /\ UNCHANGED <<table, live, opens, tasks, notify, polled>>
      /\ \/ Goto(u, "s_lock") /\ UNCHANGED fault
         \/ Entry(u) \notin live /\ fault' = "freed" /\ UNCHANGED t
    BY DEF ef_close, At, Touch
<1>2. CASE Goto(u, "s_lock") /\ UNCHANGED fault
    BY <1>0, <1>1, <1>2, GotoKeeps DEF Labels, HasSlot, HasFile, BySlot, ByAddress, Holding, Fresh, Locking
<1>3. CASE Entry(u) \notin live /\ fault' = "freed" /\ UNCHANGED t
  <2>1. ~Owned
      BY <1>0, <1>1, <1>3, OwnerFacts DEF Entry, BySlot
  <2> QED  BY <1>1, <1>3, <2>1, FaultKeeps
<1> QED  BY <1>1, <1>2, <1>3

(* ef_file_close finds the slot of its file.                               *)
LEMMA CloseIndexKeeps ==
    ASSUME TableInv, NEW c \in Threads, c # Walker, CloseIndex(c)
    PROVE  TableInv'
<1>0. TypeOK /\ OwnInv /\ t[c] \in Locals
    BY DEF TableInv, TypeOK
<1>1. /\ t[c].pc = "c_index" /\ UNCHANGED <<table, live, opens, tasks, notify, polled>>
      /\ \/ /\ UNCHANGED fault
            /\ \E s \in Slots : sg_open_files[s] = t[c].f /\ GoOn(c, "cs_entry", s, t[c].f)
         \/ t[c].f \notin live /\ fault' = "freed" /\ UNCHANGED t
    BY DEF CloseIndex, At, Touch
<1>2. CASE t[c].f \notin live /\ fault' = "freed" /\ UNCHANGED t
  <2>1. ~Owned
      BY <1>1, <1>2, OwnerFacts DEF ByAddress
  <2> QED  BY <1>1, <1>2, <2>1, FaultKeeps
<1>3. ASSUME NEW s \in Slots, UNCHANGED fault, sg_open_files[s] = t[c].f,
             GoOn(c, "cs_entry", s, t[c].f)
      PROVE  TableInv'
  <2>1. "cs_entry" \in Labels /\ "cs_entry" \notin HasFile
      BY DEF Labels, HasSlot, HasFile, BySlot, Fresh
  <2>3. Moves(c) /\ t'[c].pc = "cs_entry" /\ t'[c].fd = s /\ t'[c].f = t[c].f
      BY <1>0, <1>3, <2>1, LocalsFields, GoOnMoves
  <2>4. TypeOK'
      BY <1>0, <1>1, <1>3, <2>3 DEF TypeOK, Moves, table
  <2>5. ASSUME Owned PROVE Owned'
    <3>1. /\ fault' # "freed" /\ UNCHANGED <<sg_open_files, live, tasks>>
          /\ sg_open_files[t'[c].fd] = t'[c].f /\ t[c].pc \in ByAddress
        BY <1>1, <1>3, <2>3, <2>5 DEF table, Owned, ByAddress
    <3> QED  BY <1>0, <2>3, <2>5, <3>1, OwnMove
  <2>6. OwnInv'
      BY <1>0, <1>1, <2>5 DEF OwnInv
  <2> QED  BY <1>1, <2>3, <2>4, <2>6, QuietKeeps DEF Holding, Locking
<1> QED  BY <1>1, <1>2, <1>3

(* ef_close_status by the close's own task finds its file in the slot.     *)
LEMMA StatusKeeps ==
    ASSUME TableInv, NEW c \in Threads, c # Walker, ef_close_status(c)
    PROVE  TableInv'
<1>0. TypeOK /\ OwnInv /\ t[c] \in Locals
    BY DEF TableInv, TypeOK
<1>1. /\ t[c].pc \in {"cs_entry", "cs_look"} /\ UNCHANGED <<table, live, opens, tasks, notify, polled>>
      /\ \/ Return(c) /\ UNCHANGED fault
         \/ Goto(c, "cs_look") /\ UNCHANGED fault
         \/ Goto(c, "closing") /\ UNCHANGED fault
         \/ Entry(c) \notin live /\ fault' = "freed" /\ UNCHANGED t
         \/ Entry(c) \in live /\ GoOn(c, "f_lock", t[c].fd, Entry(c)) /\ UNCHANGED fault
  <2>1. CASE StatusEntry(c)
      BY <2>1 DEF StatusEntry, At
  <2>2. CASE StatusLook(c)
      BY <2>2 DEF StatusLook, At, Touch
  <2> QED  BY <2>1, <2>2 DEF ef_close_status
<1>2. CASE Return(c) /\ UNCHANGED fault
    BY <1>1, <1>2, ReturnKeeps DEF Holding
<1>3. CASE Goto(c, "cs_look") /\ UNCHANGED fault
    BY <1>1, <1>3, GotoKeeps DEF Labels, HasSlot, HasFile, BySlot, ByAddress, Holding, Fresh, Locking
<1>4. CASE Goto(c, "closing") /\ UNCHANGED fault
    BY <1>1, <1>4, GotoKeeps DEF Labels, HasSlot, HasFile, BySlot, ByAddress, Holding, Fresh, Locking
<1>5. CASE Entry(c) \notin live /\ fault' = "freed" /\ UNCHANGED t
  <2>1. ~Owned
      BY <1>1, <1>5, OwnerFacts DEF Entry, BySlot
  <2> QED  BY <1>1, <1>5, <2>1, FaultKeeps
<1>6. CASE Entry(c) \in live /\ GoOn(c, "f_lock", t[c].fd, Entry(c)) /\ UNCHANGED fault
  <2>0. Entry(c) \in Files
      BY <1>0, <1>6 DEF TypeOK
  <2>1. "f_lock" \in Labels /\ "cs_entry" \in HasSlot /\ "cs_look" \in HasSlot
      BY DEF Labels, HasSlot, BySlot
  <2>3. Moves(c) /\ t'[c].pc = "f_lock" /\ t'[c].fd = t[c].fd /\ t'[c].f = Entry(c)
      BY <1>0, <1>1, <1>6, <2>0, <2>1, LocalsFields, GoOnMoves
  <2>4. TypeOK'
      BY <1>0, <1>1, <1>6, <2>3 DEF TypeOK, Moves, table
  <2>5. ASSUME Owned PROVE Owned'
    <3>1. /\ fault' # "freed" /\ UNCHANGED <<sg_open_files, live, tasks>>
          /\ sg_open_files[t'[c].fd] = t'[c].f
        BY <1>1, <1>6, <2>3, <2>5 DEF table, Owned, Entry
    <3>2. t[c].pc \in BySlot /\ t'[c].f = t[c].f
        BY <1>1, <2>3, <2>5, OwnerFacts DEF Entry, BySlot
    <3> QED  BY <1>0, <2>3, <2>5, <3>1, <3>2, OwnMove
  <2>6. OwnInv'
      BY <1>0, <1>1, <2>5 DEF OwnInv
  <2> QED  BY <1>1, <2>3, <2>4, <2>6, QuietKeeps DEF Holding, Locking
<1> QED  BY <1>1, <1>2, <1>3, <1>4, <1>5, <1>6

(* From now on a user's status call may meet the task's.                   *)
LEMMA AskStatusKeeps ==
    ASSUME TableInv, NEW u \in Threads, AskStatus(u)
    PROVE  TableInv'
<1>0. TypeOK
    BY DEF TableInv
<1>1. t[u].pc = "closing" /\ Goto(u, "cs_entry") /\ polled' = TRUE
      /\ UNCHANGED <<table, file, live, opens, tasks, notify, fault>>
    BY DEF AskStatus, At
<1>2. Moves(u) /\ t'[u].pc = "cs_entry"
    BY <1>0, <1>1, GotoMoves DEF Labels, HasSlot, HasFile, BySlot, Fresh
<1>3. TypeOK'
    BY <1>0, <1>1, <1>2 DEF TypeOK, Moves, table
<1>4. OwnInv'
    BY <1>1 DEF OwnInv
<1> QED  BY <1>1, <1>2, <1>3, <1>4, QuietKeeps DEF Holding, Locking

(* The task, or the call itself, becomes the owner of the file.            *)
LEMMA CloseSubmitKeeps ==
    ASSUME TableInv, NEW u \in Threads, u # Walker, CloseSubmit(u)
    PROVE  TableInv'
<1> DEFINE f == Entry(u)
           task == [run |-> "c_close", f |-> f]
<1>0. TypeOK /\ OwnInv /\ t[u] \in Locals
    BY DEF TableInv, TypeOK
<1>1. /\ t[u].pc = "c_submit" /\ UNCHANGED <<table, live, opens, notify, polled, fault>>
      /\ \/ tasks' = Append(tasks, task) /\ GoOn(u, "closing", t[u].fd, Null)
         \/ UNCHANGED tasks /\ GoOn(u, "c_close", Null, f)
    BY DEF CloseSubmit, At
<1>2. t[u].fd \in Slots /\ f \in Files \cup {Null}
    BY <1>0, <1>1, LocalsFields DEF HasSlot, BySlot, TypeOK, Entry
<1>3. Owned => u \in Owners /\ t[u].f = f /\ f \in live
    BY <1>1, OwnerFacts DEF Entry, BySlot
<1> HIDE DEF f
<1>4. CASE UNCHANGED tasks /\ GoOn(u, "c_close", Null, f)
  <2>1. "c_close" \in Labels /\ "c_close" \notin HasSlot \cup HasFile
      BY DEF Labels, HasSlot, HasFile, BySlot, ByAddress, Holding, Fresh
  <2>2. Moves(u) /\ t'[u].pc = "c_close" /\ t'[u].f = f
      BY <1>0, <1>2, <1>4, <2>1, GoOnMoves
  <2>3. TypeOK'
      BY <1>0, <1>1, <1>4, <2>2 DEF TypeOK, Moves, table
  <2>4. ASSUME Owned PROVE Owned'
    <3>1. /\ fault' # "freed" /\ UNCHANGED <<sg_open_files, live, tasks>>
          /\ t[u].pc \in BySlot /\ t'[u].pc \notin BySlot
        BY <1>1, <1>4, <2>2, <2>4 DEF table, Owned, BySlot
    <3> QED  BY <1>0, <1>3, <2>2, <2>4, <3>1, OwnMove
  <2>5. OwnInv'
      BY <1>0, <1>1, <2>4 DEF OwnInv
  <2> QED  BY <1>1, <2>2, <2>3, <2>5, QuietKeeps DEF Holding, Locking
<1>5. CASE tasks' = Append(tasks, task) /\ GoOn(u, "closing", t[u].fd, Null)
  <2>1. "closing" \in Labels /\ "closing" \notin HasFile
      BY DEF Labels, HasSlot, HasFile, Fresh
  <2>2. Moves(u) /\ t'[u].pc = "closing"
      BY <1>0, <1>2, <1>5, <2>1, GoOnMoves
  <2>3. /\ tasks' \in Seq([run : {"t_open", "c_close"}, f : Files \cup {Null}])
        /\ Len(tasks') = Len(tasks) + 1 /\ Len(tasks) \in Nat
        /\ \A i \in 1..Len(tasks) : tasks'[i] = tasks[i]
        /\ tasks'[Len(tasks) + 1] = task
    <3>1. task \in [run : {"t_open", "c_close"}, f : Files \cup {Null}]
        BY <1>2
    <3>2. Len(tasks) \in Nat
        BY <1>0 DEF TypeOK
    <3> HIDE DEF task
    <3> QED  BY <1>0, <1>5, <3>1, <3>2, AppendProperties DEF TypeOK
  <2>4. TypeOK'
      BY <1>0, <1>1, <2>2, <2>3 DEF TypeOK, Moves, table
  <2>5. ASSUME Owned PROVE Owned'
    <3>1. /\ Owners' = Owners \ {u}
          /\ \A c \in Owners' : t'[c] = t[c]
        BY <2>2 DEF Owners, Moves, BySlot, ByAddress
    <3>2. /\ CloseTasks' = CloseTasks \cup {Len(tasks) + 1}
          /\ \A i \in CloseTasks : tasks'[i] = tasks[i]
          /\ tasks'[Len(tasks) + 1].f = f
          /\ Len(tasks) + 1 \notin CloseTasks
        BY <2>3 DEF CloseTasks
    <3>3. \A i \in CloseTasks : tasks[i].f # f
        BY <1>3, <2>5 DEF Owned
    <3>4. \A c \in Owners' : t[c].f # f
        BY <1>3, <2>5, <3>1 DEF Owned
    <3>5. t'[Walker] = t[Walker]
        BY <2>2 DEF Moves, Threads
    <3>6. UNCHANGED <<sg_open_files, live, fault>>
        BY <1>1 DEF table
    <3>7. \A c \in Owners' : t'[c].f \in live' /\ (t'[c].pc \in BySlot => sg_open_files'[t'[c].fd] = t'[c].f)
        BY <2>5, <3>1, <3>6 DEF Owned
    <3>8. \A c, d \in Owners' : t'[c].f = t'[d].f => c = d
        BY <2>5, <3>1 DEF Owned
    <3>9. \A i \in CloseTasks' : tasks'[i].f \in live'
        BY <1>3, <2>5, <3>2, <3>6 DEF Owned
    <3>10. \A i, j \in CloseTasks' : tasks'[i].f = tasks'[j].f => i = j
        BY <2>5, <3>2, <3>3 DEF Owned
    <3>11. \A c \in Owners', i \in CloseTasks' : t'[c].f # tasks'[i].f
        BY <2>5, <3>1, <3>2, <3>4 DEF Owned
    <3> QED  BY <2>5, <3>5, <3>6, <3>7, <3>8, <3>9, <3>10, <3>11 DEF Owned
  <2>6. OwnInv'
      BY <1>0, <1>1, <2>5 DEF OwnInv
  <2> QED  BY <1>1, <2>2, <2>4, <2>6, QuietKeeps DEF Holding, Locking
<1> QED  BY <1>1, <1>4, <1>5

(* The thread that takes a close from the queue is its owner.              *)
LEMMA TakeTaskKeeps ==
    ASSUME TableInv, NEW k \in Threads, k # Walker, TakeTask(k)
    PROVE  TableInv'
<1> DEFINE task == Head(tasks)
<1>0. TypeOK /\ OwnInv
    BY DEF TableInv
<1>1. /\ t[k].pc = "idle" /\ tasks # <<>> /\ tasks' = Tail(tasks)
      /\ UNCHANGED <<table, live, opens, notify, polled, fault>>
      /\ GoOn(k, task.run, Null, task.f)
    BY DEF TakeTask, At
<1>2. /\ Len(tasks) \in Nat /\ Len(tasks) > 0 /\ task = tasks[1]
      /\ task \in [run : {"t_open", "c_close"}, f : Files \cup {Null}]
      /\ tasks' \in Seq([run : {"t_open", "c_close"}, f : Files \cup {Null}])
      /\ Len(tasks') = Len(tasks) - 1
      /\ \A i \in 1..Len(tasks') : tasks'[i] = tasks[i + 1]
  <2>1. Len(tasks) \in Nat /\ Len(tasks) > 0 /\ Head(tasks) = tasks[1]
      BY <1>0, <1>1 DEF TypeOK
  <2> QED  BY <1>0, <1>1, <2>1, HeadTailProperties DEF TypeOK
<1> HIDE DEF task
<1>3. /\ task.run \in {"t_open", "c_close"} /\ task.f \in Files \cup {Null}
      /\ task.run \in Labels /\ task.run \notin HasSlot \cup HasFile
    BY <1>2 DEF Labels, HasSlot, HasFile, BySlot, ByAddress, Holding, Fresh
<1>4. Moves(k) /\ t'[k].pc = task.run /\ t'[k].f = task.f
    BY <1>0, <1>1, <1>3, GoOnMoves
<1>5. TypeOK'
    BY <1>0, <1>1, <1>2, <1>4 DEF TypeOK, Moves, table
<1>6. ASSUME Owned PROVE Owned'
  <2>1. /\ Owners' = IF task.run = "c_close" THEN Owners \cup {k} ELSE Owners
        /\ k \notin Owners /\ \A c \in Owners : t'[c] = t[c]
      BY <1>1, <1>3, <1>4 DEF Owners, Moves, BySlot, ByAddress
  <2>2. task.run = "c_close" => 1 \in CloseTasks /\ task.f \in live
      BY <1>2, <1>6 DEF CloseTasks, Owned
  <2>3. \A i \in CloseTasks' : /\ i + 1 \in CloseTasks /\ tasks'[i] = tasks[i + 1]
                                /\ i \in Nat /\ i + 1 # 1
      BY <1>2 DEF CloseTasks
  <2>4. UNCHANGED <<sg_open_files, live, fault>> /\ t'[Walker] = t[Walker]
      BY <1>1, <1>4 DEF table, Moves, Threads
  <2>5. \A c \in Owners' : t'[c].f \in live' /\ (t'[c].pc \in BySlot => sg_open_files'[t'[c].fd] = t'[c].f)
      BY <1>3, <1>4, <1>6, <2>1, <2>2, <2>4 DEF Owned, BySlot
  <2>6. \A i \in CloseTasks' : tasks'[i].f \in live'
      BY <1>6, <2>3, <2>4 DEF Owned
  <2>7. \A i, j \in CloseTasks' : tasks'[i].f = tasks'[j].f => i = j
    <3> SUFFICES ASSUME NEW i \in CloseTasks', NEW j \in CloseTasks', tasks'[i].f = tasks'[j].f
                 PROVE  i = j
        OBVIOUS
    <3>1. i + 1 = j + 1
        BY <1>6, <2>3 DEF Owned
    <3> QED  BY <2>3, <3>1
  <2>8. ASSUME task.run = "c_close" PROVE \A c \in Owners : t[c].f # task.f
      BY <1>2, <1>6, <2>2, <2>8 DEF Owned
  <2>9. ASSUME task.run = "c_close" PROVE \A i \in CloseTasks' : tasks'[i].f # task.f
    <3> SUFFICES ASSUME NEW i \in CloseTasks', tasks'[i].f = task.f PROVE FALSE
        OBVIOUS
    <3>1. i + 1 = 1
        BY <1>2, <1>6, <2>2, <2>3, <2>9 DEF Owned
    <3> QED  BY <2>3, <3>1
  <2>10. \A c, d \in Owners' : t'[c].f = t'[d].f => c = d
      BY <1>4, <1>6, <2>1, <2>8 DEF Owned
  <2>11. \A c \in Owners', i \in CloseTasks' : t'[c].f # tasks'[i].f
      BY <1>4, <1>6, <2>1, <2>3, <2>9 DEF Owned
  <2> QED  BY <1>6, <2>4, <2>5, <2>6, <2>7, <2>10, <2>11 DEF Owned
<1>7. OwnInv'
    BY <1>0, <1>1, <1>6 DEF OwnInv
<1> QED  BY <1>1, <1>3, <1>4, <1>5, <1>7, QuietKeeps DEF Holding, Locking

-----------------------------------------------------------------------------
(* The steps that move a slot                                              *)

(* The slot leaves the queue with the thread that opens a file.            *)
LEMMA DequeueKeeps ==
    ASSUME TableInv, NEW u \in Threads, u # Walker, st_dequeue_sg_fd_queue(u)
    PROVE  TableInv'
<1> DEFINE s == Head(sg_fd_queue)
<1>0. TypeOK /\ SlotInv /\ FileInv /\ LockInv /\ OwnInv
    BY DEF TableInv
<1>1. /\ t[u].pc = "idle" /\ opens < MaxOpens /\ sg_fd_queue # <<>>
      /\ sg_fd_queue' = Tail(sg_fd_queue) /\ opens' = opens + 1
      /\ GoOn(u, "o_lock", s, opens + 1)
      /\ UNCHANGED <<sg_open_files, sg_handle_to_file_action, live, tasks, notify, polled, fault>>
    BY DEF st_dequeue_sg_fd_queue, At
<1>2. /\ Len(sg_fd_queue) \in Nat /\ Len(sg_fd_queue) > 0 /\ s = sg_fd_queue[1] /\ s \in Slots
      /\ sg_fd_queue' \in Seq(Slots) /\ Len(sg_fd_queue') = Len(sg_fd_queue) - 1
      /\ \A i \in 1..Len(sg_fd_queue') : sg_fd_queue'[i] = sg_fd_queue[i + 1]
  <2>1. Len(sg_fd_queue) \in Nat /\ Len(sg_fd_queue) > 0 /\ s = sg_fd_queue[1]
      BY <1>0, <1>1 DEF TypeOK
  <2> QED  BY <1>0, <1>1, <2>1, HeadTailProperties DEF TypeOK
<1> HIDE DEF s
<1>3. opens + 1 \in Files /\ opens + 1 \in 0..MaxOpens /\ opens \in Nat
    BY <1>0, <1>1, TableAssumption DEF TypeOK, Files
<1>4. "o_lock" \in Labels
    BY DEF Labels, HasSlot, Holding
<1>5. Moves(u) /\ t'[u].pc = "o_lock" /\ t'[u].fd = s /\ t'[u].f = opens + 1
    BY <1>0, <1>1, <1>2, <1>3, <1>4, GoOnMoves
<1>6. TypeOK'
    BY <1>0, <1>1, <1>2, <1>3, <1>5 DEF TypeOK, Moves
<1>7. \A i \in 1..Len(sg_fd_queue') : /\ i + 1 \in 1..Len(sg_fd_queue) /\ i + 1 # 1
                                       /\ sg_fd_queue'[i] = sg_fd_queue[i + 1]
                                       /\ sg_fd_queue'[i] # s
    BY <1>0, <1>2 DEF SlotInv
<1>8. \A c \in Threads : c # u /\ t'[c].pc \in Holding =>
         t[c].pc \in Holding /\ t'[c] = t[c] /\ t[c].fd # s
    BY <1>0, <1>2, <1>5 DEF SlotInv, Moves
<1>9. SlotInv'
  <2>1. \A i, j \in 1..Len(sg_fd_queue') : sg_fd_queue'[i] = sg_fd_queue'[j] => i = j
    <3> SUFFICES ASSUME NEW i \in 1..Len(sg_fd_queue'), NEW j \in 1..Len(sg_fd_queue'),
                        sg_fd_queue'[i] = sg_fd_queue'[j]
                 PROVE  i = j
        OBVIOUS
    <3>1. i + 1 = j + 1
        BY <1>0, <1>7 DEF SlotInv
    <3> QED  BY <3>1
  <2>2. \A i \in 1..Len(sg_fd_queue') : sg_open_files'[sg_fd_queue'[i]] = Null
      BY <1>0, <1>1, <1>7 DEF SlotInv
  <2>3. sg_open_files'[s] = Null
      BY <1>0, <1>1, <1>2 DEF SlotInv
  <2>4. \A c \in Threads : t'[c].pc \in Holding =>
           /\ sg_open_files'[t'[c].fd] = Null
           /\ \A i \in 1..Len(sg_fd_queue') : sg_fd_queue'[i] # t'[c].fd
    <3> SUFFICES ASSUME NEW c \in Threads, t'[c].pc \in Holding
                 PROVE  /\ sg_open_files'[t'[c].fd] = Null
                        /\ \A i \in 1..Len(sg_fd_queue') : sg_fd_queue'[i] # t'[c].fd
        OBVIOUS
    <3>1. CASE c = u
        BY <1>5, <1>7, <2>3, <3>1
    <3>2. CASE c # u
        BY <1>0, <1>1, <1>7, <1>8, <3>2 DEF SlotInv
    <3> QED  BY <3>1, <3>2
  <2>5. \A c, d \in Threads : t'[c].pc \in Holding /\ t'[d].pc \in Holding /\ t'[c].fd = t'[d].fd => c = d
      BY <1>0, <1>5, <1>8 DEF SlotInv
  <2>6. ASSUME NEW r \in Slots, sg_open_files'[r] = Null,
               \A i \in 1..Len(sg_fd_queue') : sg_fd_queue'[i] # r
        PROVE  \E c \in Threads : t'[c].pc \in Holding /\ t'[c].fd = r
    <3>1. CASE r = s
        BY <1>5, <3>1 DEF Holding
    <3>2. CASE r # s
      <4>1. \A i \in 1..Len(sg_fd_queue) : sg_fd_queue[i] # r
        <5> SUFFICES ASSUME NEW i \in 1..Len(sg_fd_queue), sg_fd_queue[i] = r PROVE FALSE
            OBVIOUS
        <5>1. i # 1
            BY <1>2, <3>2
        <5>2. i - 1 \in 1..Len(sg_fd_queue') /\ (i - 1) + 1 = i
            BY <1>2, <5>1
        <5> QED  BY <1>2, <2>6, <5>2
      <4>2. PICK c \in Threads : t[c].pc \in Holding /\ t[c].fd = r
          BY <1>0, <1>1, <2>6, <4>1 DEF SlotInv
      <4>3. c # u
          BY <1>1, <4>2 DEF Holding
      <4> QED  BY <1>5, <4>2, <4>3 DEF Moves
    <3> QED  BY <3>1, <3>2
  <2> QED  BY <2>1, <2>2, <2>4, <2>5, <2>6 DEF SlotInv
<1>10. FileInv'
  <2>1. \A f \in live : f \in Nat /\ f <= opens + 1 /\ f # opens + 1
      BY <1>0, <1>3, TableAssumption DEF FileInv, TypeOK, Files
  <2>2. \A c \in Threads : c # u /\ t'[c].pc \in Fresh =>
           /\ t[c].pc \in Fresh /\ t'[c].f = t[c].f
           /\ t[c].f <= opens + 1 /\ t[c].f # opens + 1 /\ t[c].f \notin live
    <3> SUFFICES ASSUME NEW c \in Threads, c # u, t'[c].pc \in Fresh
                 PROVE  /\ t[c].pc \in Fresh /\ t'[c].f = t[c].f
                        /\ t[c].f <= opens + 1 /\ t[c].f # opens + 1 /\ t[c].f \notin live
        OBVIOUS
    <3>1. t'[c] = t[c] /\ t[c].f \in Files
        BY <1>0, <1>5, LocalsFields DEF Moves, TypeOK, HasFile
    <3>2. t[c].f <= opens /\ t[c].f \notin live
        BY <1>0, <3>1 DEF FileInv
    <3> QED  BY <1>3, <3>1, <3>2, TableAssumption DEF Files
  <2>3. \A c \in Threads : t'[c].pc \in Fresh => t'[c].f <= opens' /\ t'[c].f \notin live'
      BY <1>1, <1>3, <1>5, <2>1, <2>2
  <2>4. \A c, d \in Threads : t'[c].pc \in Fresh /\ t'[d].pc \in Fresh /\ t'[c].f = t'[d].f => c = d
      BY <1>0, <1>5, <2>2 DEF FileInv
  <2> QED  BY <1>0, <1>1, <2>1, <2>3, <2>4 DEF FileInv
<1>11. LockInv'
    BY <1>0, <1>1, <1>5, LockMove DEF Locking
<1>12. Owned => Owned'
    BY <1>0, <1>1, <1>5, OwnMove DEF Owned, BySlot, ByAddress
<1>13. OwnInv'
    BY <1>0, <1>1, <1>12 DEF OwnInv
<1> QED  BY <1>6, <1>9, <1>10, <1>11, <1>13 DEF TableInv

(* The slot goes into the table with a file that was in none.              *)
LEMMA MallocKeeps ==
    ASSUME TableInv, NEW u \in Threads, u # Walker, OpenMalloc(u)
    PROVE  TableInv'
<1> DEFINE s == t[u].fd
           f == t[u].f
<1>0. TypeOK /\ SlotInv /\ FileInv /\ LockInv /\ OwnInv
    BY DEF TableInv
<1>1. /\ t[u].pc = "o_malloc" /\ Goto(u, "o_unlock")
      /\ live' = live \cup {f} /\ sg_open_files' = [sg_open_files EXCEPT ![s] = f]
      /\ UNCHANGED <<sg_fd_queue, sg_handle_to_file_action, opens, tasks, notify, polled, fault>>
    BY DEF OpenMalloc, At
<1>2. s \in Slots /\ f \in Files /\ f # Null
    BY <1>0, <1>1, LocalsFields, TableAssumption DEF TypeOK, HasSlot, HasFile, Holding, Fresh, Files
<1>3. Moves(u) /\ t'[u].pc = "o_unlock" /\ t'[u].fd = s /\ t'[u].f = f
    BY <1>0, <1>1, GotoMoves DEF Labels, HasSlot, HasFile, BySlot, Holding, Fresh
<1>4. /\ t[u].pc \in Holding /\ t[u].pc \in Fresh /\ t'[u].pc \notin Holding \cup Fresh
      /\ t[u].pc \in Locking /\ t'[u].pc \in BySlot /\ t[u].pc \notin BySlot \cup ByAddress
    BY <1>1, <1>3 DEF Holding, Fresh, Locking, BySlot, ByAddress
<1>5. sg_open_files[s] = Null /\ f \notin live /\ f <= opens
    BY <1>0, <1>4 DEF SlotInv, FileInv
<1>6. sg_open_files'[s] = f /\ \A r \in Slots : r # s => sg_open_files'[r] = sg_open_files[r]
    BY <1>0, <1>1, <1>2 DEF TypeOK
<1>7. TypeOK'
    BY <1>0, <1>1, <1>2, <1>3 DEF TypeOK, Moves
<1>8. \A c \in Threads : t'[c].pc \in Holding =>
         c # u /\ t'[c] = t[c] /\ t[c].pc \in Holding /\ t[c].fd # s /\ t[c].fd \in Slots
  <2> SUFFICES ASSUME NEW c \in Threads, t'[c].pc \in Holding
               PROVE  c # u /\ t'[c] = t[c] /\ t[c].fd # s /\ t[c].fd \in Slots
      BY <1>3 DEF Moves
  <2>1. c # u /\ t'[c] = t[c]
      BY <1>3, <1>4 DEF Moves
  <2>2. t[c].fd \in Slots
      BY <1>0, <2>1, LocalsFields DEF TypeOK, HasSlot
  <2> QED  BY <1>0, <1>4, <2>1, <2>2 DEF SlotInv
<1> HIDE DEF s, f
<1>9. SlotInv'
  <2>1. \A i \in 1..Len(sg_fd_queue) : sg_fd_queue[i] # s /\ sg_fd_queue[i] \in Slots
      BY <1>0, <1>4 DEF SlotInv, TypeOK, s
  <2>2. \A i \in 1..Len(sg_fd_queue) : sg_open_files'[sg_fd_queue[i]] = Null
      BY <1>0, <1>6, <2>1 DEF SlotInv
  <2>3. \A c \in Threads : t'[c].pc \in Holding =>
           /\ sg_open_files'[t'[c].fd] = Null
           /\ \A i \in 1..Len(sg_fd_queue) : sg_fd_queue[i] # t'[c].fd
      BY <1>0, <1>6, <1>8 DEF SlotInv
  <2>4. \A c, d \in Threads : t'[c].pc \in Holding /\ t'[d].pc \in Holding /\ t'[c].fd = t'[d].fd => c = d
      BY <1>0, <1>8 DEF SlotInv
  <2>5. ASSUME NEW r \in Slots, sg_open_files'[r] = Null,
               \A i \in 1..Len(sg_fd_queue) : sg_fd_queue[i] # r
        PROVE  \E c \in Threads : t'[c].pc \in Holding /\ t'[c].fd = r
    <3>1. r # s /\ sg_open_files[r] = Null
        BY <1>2, <1>6, <2>5
    <3>2. PICK c \in Threads : t[c].pc \in Holding /\ t[c].fd = r
        BY <1>0, <2>5, <3>1 DEF SlotInv
    <3>3. c # u
        BY <3>1, <3>2 DEF s
    <3> QED  BY <1>3, <3>2, <3>3 DEF Moves
  <2>6. \A i, j \in 1..Len(sg_fd_queue) : sg_fd_queue[i] = sg_fd_queue[j] => i = j
      BY <1>0 DEF SlotInv
  <2>7. sg_fd_queue' = sg_fd_queue
      BY <1>1
  <2> QED  BY <2>2, <2>3, <2>4, <2>5, <2>6, <2>7 DEF SlotInv
<1>10. FileInv'
  <2>1. \A r \in Slots : sg_open_files'[r] # Null => sg_open_files'[r] \in live'
      BY <1>0, <1>1, <1>6 DEF FileInv
  <2>2. \A g \in live' : g <= opens' /\ \E r \in Slots : sg_open_files'[r] = g
    <3> SUFFICES ASSUME NEW g \in live' PROVE g <= opens /\ \E r \in Slots : sg_open_files'[r] = g
        BY <1>1
    <3>1. CASE g = f
        BY <1>2, <1>5, <1>6, <3>1
    <3>2. CASE g # f
      <4>1. g \in live /\ g <= opens /\ g # Null
          BY <1>0, <1>1, <3>2, TableAssumption DEF FileInv, TypeOK, Files
      <4>2. PICK r \in Slots : sg_open_files[r] = g
          BY <1>0, <4>1 DEF FileInv
      <4> QED  BY <1>5, <1>6, <4>1, <4>2
    <3> QED  BY <3>1, <3>2
  <2>3. \A q, r \in Slots : sg_open_files'[q] # Null /\ sg_open_files'[q] = sg_open_files'[r] => q = r
      BY <1>0, <1>5, <1>6 DEF FileInv
  <2>4. \A c \in Threads : t'[c].pc \in Fresh =>
           /\ c # u /\ t'[c] = t[c] /\ t[c].f # f /\ t[c].f <= opens /\ t[c].f \notin live
      BY <1>0, <1>3, <1>4 DEF FileInv, Moves, f
  <2> QED  BY <1>0, <1>1, <2>1, <2>2, <2>3, <2>4 DEF FileInv
<1>11. LockInv'
    BY <1>0, <1>1, <1>3, <1>4, LockMove DEF s
<1>12. ASSUME Owned PROVE Owned'
  <2>1. Owners' = Owners \cup {u} /\ u \notin Owners /\ \A c \in Owners : t'[c] = t[c]
      BY <1>3, <1>4 DEF Owners, Moves
  <2>2. \A g \in live : g # f /\ g # Null /\ g \in live'
      BY <1>0, <1>1, <1>5, TableAssumption DEF TypeOK, Files
  <2>3. \A c \in Owners : t[c].f \in live /\ t[c].f # f
      BY <1>12, <2>2 DEF Owned
  <2>4. \A c \in Owners : t[c].pc \in BySlot => sg_open_files'[t[c].fd] = t[c].f
    <3> SUFFICES ASSUME NEW c \in Owners, t[c].pc \in BySlot
                 PROVE  sg_open_files'[t[c].fd] = t[c].f
        OBVIOUS
    <3>1. t[c].fd \in Slots
        BY <1>0, LocalsFields DEF TypeOK, Owners, HasSlot
    <3>2. sg_open_files[t[c].fd] = t[c].f /\ t[c].f # Null
        BY <1>12, <2>2, <2>3 DEF Owned
    <3> QED  BY <1>5, <1>6, <3>1, <3>2
  <2>5. CloseTasks' = CloseTasks /\ tasks' = tasks
      BY <1>1 DEF CloseTasks
  <2>6. \A i \in CloseTasks : tasks[i].f \in live' /\ tasks[i].f # f
      BY <1>12, <2>2 DEF Owned
  <2>7. t'[Walker] = t[Walker] /\ t[Walker] \in Locals
      BY <1>0, <1>3 DEF Moves, Threads, TypeOK
  <2>8. t[Walker].pc \in {"s_test", "s_wait"} =>
           t[Walker].f \in live' /\ sg_open_files'[t[Walker].fd] = t[Walker].f
    <3> SUFFICES ASSUME t[Walker].pc \in {"s_test", "s_wait"}
                 PROVE  t[Walker].f \in live' /\ sg_open_files'[t[Walker].fd] = t[Walker].f
        OBVIOUS
    <3>1. t[Walker].fd \in Slots
        BY <2>7, LocalsFields DEF HasSlot, BySlot
    <3>2. sg_open_files[t[Walker].fd] = t[Walker].f /\ t[Walker].f \in live
        BY <1>12 DEF Owned
    <3> QED  BY <1>5, <1>6, <2>2, <3>1, <3>2
  <2>9. \A c \in Owners' : t'[c].f \in live' /\ (t'[c].pc \in BySlot => sg_open_files'[t'[c].fd] = t'[c].f)
      BY <1>1, <1>3, <1>6, <2>1, <2>2, <2>3, <2>4
  <2>10. \A c, d \in Owners' : t'[c].f = t'[d].f => c = d
      BY <1>3, <1>12, <2>1, <2>3 DEF Owned
  <2>11. \A c \in Owners', i \in CloseTasks' : t'[c].f # tasks'[i].f
      BY <1>3, <1>12, <2>1, <2>5, <2>6 DEF Owned
  <2>12. \A i, j \in CloseTasks' : tasks'[i].f = tasks'[j].f => i = j
      BY <1>12, <2>5 DEF Owned
  <2>13. fault' # "freed"
      BY <1>1, <1>12 DEF Owned
  <2> QED  BY <2>5, <2>6, <2>7, <2>8, <2>9, <2>10, <2>11, <2>12, <2>13 DEF Owned
<1>13. OwnInv'
    BY <1>0, <1>1, <1>12 DEF OwnInv
<1> QED  BY <1>7, <1>9, <1>10, <1>11, <1>13 DEF TableInv

(* The owner frees the file of its slot and holds the slot.                *)
LEMMA CleanupKeeps ==
    ASSUME TableInv, NEW c \in Threads, c # Walker, EF_FILE_CLEANUP(c)
    PROVE  TableInv'
<1> DEFINE s == t[c].fd
           f == t[c].f
<1>0. TypeOK /\ SlotInv /\ FileInv /\ LockInv /\ OwnInv
    BY DEF TableInv
<1>1. /\ t[c].pc = "f_clean"
      /\ UNCHANGED <<sg_fd_queue, sg_handle_to_file_action, opens, tasks, notify, polled>>
      /\ \/ /\ sg_open_files[s] = f /\ live' = live \ {f} /\ Goto(c, "f_unlock")
            /\ sg_open_files' = [sg_open_files EXCEPT ![s] = Null] /\ UNCHANGED fault
         \/ sg_open_files[s] # f /\ fault' = "freed" /\ UNCHANGED <<live, sg_open_files, t>>
    BY DEF EF_FILE_CLEANUP, At, Entry
<1>2. CASE sg_open_files[s] # f /\ fault' = "freed" /\ UNCHANGED <<live, sg_open_files, t>>
  <2>1. ~Owned
      BY <1>1, <1>2, OwnerFacts DEF BySlot
  <2> QED  BY <1>1, <1>2, <2>1, FaultKeeps DEF table
<1>3. CASE /\ sg_open_files[s] = f /\ live' = live \ {f} /\ Goto(c, "f_unlock")
           /\ sg_open_files' = [sg_open_files EXCEPT ![s] = Null] /\ UNCHANGED fault
  <2>1. s \in Slots /\ f \in Files /\ f # Null
      BY <1>0, <1>1, LocalsFields, TableAssumption DEF TypeOK, HasSlot, HasFile, BySlot, Files
  <2>2. Moves(c) /\ t'[c].pc = "f_unlock" /\ t'[c].fd = s
      BY <1>0, <1>1, <1>3, GotoMoves DEF Labels, HasSlot, HasFile, BySlot, Holding, Fresh
  <2>3. /\ t[c].pc \notin Holding \cup Fresh /\ t'[c].pc \in Holding /\ t'[c].pc \notin Fresh
        /\ t[c].pc \in Locking /\ t'[c].pc \in Locking
        /\ t[c].pc \in BySlot /\ t'[c].pc \notin BySlot \cup ByAddress
      BY <1>1, <2>2 DEF Holding, Fresh, Locking, BySlot, ByAddress
  <2>4. sg_open_files'[s] = Null /\ \A r \in Slots : r # s => sg_open_files'[r] = sg_open_files[r]
      BY <1>0, <1>3, <2>1 DEF TypeOK
  <2>5. TypeOK'
      BY <1>0, <1>1, <1>3, <2>1, <2>2 DEF TypeOK, Moves
  <2>6. \A d \in Threads : d # c /\ t'[d].pc \in Holding =>
           t'[d] = t[d] /\ t[d].fd # s /\ t[d].fd \in Slots
    <3> SUFFICES ASSUME NEW d \in Threads, d # c, t'[d].pc \in Holding
                 PROVE  t'[d] = t[d] /\ t[d].fd # s /\ t[d].fd \in Slots
        OBVIOUS
    <3>1. t'[d] = t[d] /\ t[d] \in Locals
        BY <1>0, <2>2 DEF Moves, TypeOK
    <3>2. t[d].fd \in Slots /\ sg_open_files[t[d].fd] = Null
        BY <1>0, <3>1, LocalsFields DEF HasSlot, SlotInv
    <3> QED  BY <1>3, <2>1, <3>1, <3>2
  <2> HIDE DEF s, f
  <2>7. SlotInv'
    <3>1. \A i \in 1..Len(sg_fd_queue) : sg_fd_queue[i] # s /\ sg_fd_queue[i] \in Slots
        BY <1>0, <1>3, <2>1 DEF SlotInv, TypeOK
    <3>2. \A i \in 1..Len(sg_fd_queue) : sg_open_files'[sg_fd_queue[i]] = Null
        BY <1>0, <2>4, <3>1 DEF SlotInv
    <3>3. ASSUME NEW d \in Threads, t'[d].pc \in Holding
          PROVE  /\ sg_open_files'[t'[d].fd] = Null
                 /\ \A i \in 1..Len(sg_fd_queue) : sg_fd_queue[i] # t'[d].fd
      <4>1. CASE d = c
          BY <2>2, <2>4, <3>1, <4>1
      <4>2. CASE d # c
          BY <1>0, <2>4, <2>6, <3>3, <4>2 DEF SlotInv
      <4> QED  BY <4>1, <4>2
    <3>4. \A d, e \in Threads : t'[d].pc \in Holding /\ t'[e].pc \in Holding /\ t'[d].fd = t'[e].fd => d = e
        BY <1>0, <2>2, <2>6 DEF SlotInv
    <3>5. ASSUME NEW r \in Slots, sg_open_files'[r] = Null,
                 \A i \in 1..Len(sg_fd_queue) : sg_fd_queue[i] # r
          PROVE  \E d \in Threads : t'[d].pc \in Holding /\ t'[d].fd = r
      <4>1. CASE r = s
          BY <2>2, <2>3, <4>1
      <4>2. CASE r # s
        <5>1. PICK d \in Threads : t[d].pc \in Holding /\ t[d].fd = r
            BY <1>0, <2>4, <3>5, <4>2 DEF SlotInv
        <5>2. d # c
            BY <2>3, <5>1
        <5> QED  BY <2>2, <5>1, <5>2 DEF Moves
      <4> QED  BY <4>1, <4>2
    <3>6. \A i, j \in 1..Len(sg_fd_queue) : sg_fd_queue[i] = sg_fd_queue[j] => i = j
        BY <1>0 DEF SlotInv
    <3>7. sg_fd_queue' = sg_fd_queue
        BY <1>1
    <3> QED  BY <3>2, <3>3, <3>4, <3>5, <3>6, <3>7 DEF SlotInv
  <2>8. FileInv'
    <3>1. \A r \in Slots : sg_open_files'[r] # Null =>
             r # s /\ sg_open_files'[r] = sg_open_files[r] /\ sg_open_files[r] # f
        BY <1>0, <1>3, <2>1, <2>4 DEF FileInv
    <3>2. \A g \in live' : g <= opens /\ \E r \in Slots : sg_open_files'[r] = g
      <4> SUFFICES ASSUME NEW g \in live' PROVE g <= opens /\ \E r \in Slots : sg_open_files'[r] = g
          OBVIOUS
      <4>1. g \in live /\ g # f
          BY <1>3
      <4>2. PICK r \in Slots : sg_open_files[r] = g
          BY <1>0, <4>1 DEF FileInv
      <4> QED  BY <1>0, <1>3, <2>4, <4>1, <4>2 DEF FileInv
    <3>3. \A d \in Threads : t'[d].pc \in Fresh => t'[d] = t[d]
        BY <2>2, <2>3 DEF Moves
    <3> QED  BY <1>0, <1>1, <1>3, <3>1, <3>2, <3>3 DEF FileInv
  <2>9. LockInv'
      BY <1>0, <1>1, <2>2, <2>3, LockMove DEF s
  <2>10. ASSUME Owned PROVE Owned'
    <3>1. Owners' = Owners \ {c} /\ c \in Owners /\ \A d \in Owners' : t'[d] = t[d] /\ t[d].f # f
        BY <2>2, <2>3, <2>10 DEF Owners, Moves, Owned, f
    <3>2. \A d \in Owners' : t[d].f \in live'
        BY <1>3, <2>10, <3>1 DEF Owned
    <3>3. \A d \in Owners' : t[d].pc \in BySlot => sg_open_files'[t[d].fd] = t[d].f
      <4> SUFFICES ASSUME NEW d \in Owners', t[d].pc \in BySlot
                   PROVE  sg_open_files'[t[d].fd] = t[d].f
          OBVIOUS
      <4>1. t[d].fd \in Slots
          BY <1>0, <3>1, LocalsFields DEF TypeOK, Owners, HasSlot
      <4>2. sg_open_files[t[d].fd] = t[d].f
          BY <2>10, <3>1 DEF Owned
      <4> QED  BY <1>3, <2>4, <3>1, <4>1, <4>2
    <3>4. CloseTasks' = CloseTasks /\ tasks' = tasks
        BY <1>1 DEF CloseTasks
    <3>5. \A i \in CloseTasks : tasks[i].f \in live'
        BY <1>3, <2>10, <3>1 DEF Owned, f
    <3>6. t'[Walker] = t[Walker] /\ t[Walker] \in Locals /\ Walker \in Threads
        BY <1>0, <2>2 DEF Moves, Threads, TypeOK
    <3>7. t[Walker].pc \in {"s_test", "s_wait"} =>
             t[Walker].f \in live' /\ sg_open_files'[t[Walker].fd] = t[Walker].f
      <4> SUFFICES ASSUME t[Walker].pc \in {"s_test", "s_wait"}
                   PROVE  t[Walker].f \in live' /\ sg_open_files'[t[Walker].fd] = t[Walker].f
          OBVIOUS
      <4>1. t[Walker].fd \in Slots
          BY <3>6, LocalsFields DEF HasSlot, BySlot
      <4>2. t[Walker].fd # s
          BY <1>0, <2>3, <3>6 DEF LockInv, Locking, s
      <4>3. sg_open_files[t[Walker].fd] = t[Walker].f /\ t[Walker].f \in live
          BY <2>10 DEF Owned
      <4>4. t[Walker].f # f
          BY <1>0, <1>3, <2>1, <4>1, <4>2, <4>3 DEF FileInv
      <4> QED  BY <1>3, <2>4, <4>1, <4>2, <4>3, <4>4
    <3>8. fault' # "freed"
        BY <1>3, <2>10 DEF Owned
    <3>9. \A d, e \in Owners' : t'[d].f = t'[e].f => d = e
        BY <2>10, <3>1 DEF Owned
    <3>10. \A d \in Owners', i \in CloseTasks : t'[d].f # tasks[i].f
        BY <2>10, <3>1 DEF Owned
    <3>11. \A i, j \in CloseTasks : tasks[i].f = tasks[j].f => i = j
        BY <2>10 DEF Owned
    <3> QED  BY <3>1, <3>2, <3>3, <3>4, <3>5, <3>6, <3>7, <3>8, <3>9, <3>10, <3>11 DEF Owned
  <2>11. OwnInv'
      BY <1>0, <1>1, <2>10 DEF OwnInv
  <2> QED  BY <2>5, <2>7, <2>8, <2>9, <2>11 DEF TableInv
<1> QED  BY <1>1, <1>2, <1>3

(* The slot goes back to the queue.                                        *)
LEMMA EnqueueKeeps ==
    ASSUME TableInv, NEW c \in Threads, st_enqueue_sg_fd_queue(c)
    PROVE  TableInv'
<1> DEFINE s == t[c].fd
<1>0. TypeOK /\ SlotInv /\ FileInv /\ LockInv /\ OwnInv
    BY DEF TableInv
<1>1. /\ t[c].pc = "f_put" /\ sg_fd_queue' = Append(sg_fd_queue, s) /\ Return(c)
      /\ UNCHANGED <<sg_open_files, sg_handle_to_file_action, live, opens, tasks, notify, polled, fault>>
    BY DEF st_enqueue_sg_fd_queue, At
<1>2. s \in Slots
    BY <1>0, <1>1, LocalsFields DEF TypeOK, HasSlot, Holding
<1>3. Moves(c) /\ t'[c].pc = "idle"
    BY <1>0, <1>1, ReturnMoves
<1>4. t[c].pc \in Holding /\ t'[c].pc \notin Holding \cup Fresh \cup Locking \cup BySlot \cup ByAddress
    BY <1>1, <1>3 DEF Holding, Fresh, Locking, BySlot, ByAddress
<1>5. /\ Len(sg_fd_queue) \in Nat /\ Len(sg_fd_queue') = Len(sg_fd_queue) + 1
      /\ sg_fd_queue' \in Seq(Slots) /\ sg_fd_queue'[Len(sg_fd_queue) + 1] = s
      /\ \A i \in 1..Len(sg_fd_queue) : sg_fd_queue'[i] = sg_fd_queue[i]
  <2>1. Len(sg_fd_queue) \in Nat
      BY <1>0 DEF TypeOK
  <2> HIDE DEF s
  <2> QED  BY <1>0, <1>1, <1>2, <2>1, AppendProperties DEF TypeOK
<1>6. TypeOK'
    BY <1>0, <1>1, <1>3, <1>5 DEF TypeOK, Moves
<1>7. \A d \in Threads : t'[d].pc \in Holding => d # c /\ t'[d] = t[d] /\ t[d].fd # s
    BY <1>0, <1>3, <1>4 DEF SlotInv, Moves
<1>8. \A i \in 1..Len(sg_fd_queue) : sg_fd_queue[i] # s
    BY <1>0, <1>4 DEF SlotInv
<1>9. sg_open_files[s] = Null
    BY <1>0, <1>4 DEF SlotInv
<1>10. \A d \in Threads : d # c => t'[d] = t[d]
    BY <1>3 DEF Moves
<1>11. SlotInv'
  <2>0. \A i \in 1..Len(sg_fd_queue') : i \in 1..Len(sg_fd_queue) \/ i = Len(sg_fd_queue) + 1
      BY <1>5
  <2>1. \A i, j \in 1..Len(sg_fd_queue') : sg_fd_queue'[i] = sg_fd_queue'[j] => i = j
      BY <1>0, <1>5, <1>8, <2>0 DEF SlotInv
  <2>2. \A i \in 1..Len(sg_fd_queue') : sg_open_files'[sg_fd_queue'[i]] = Null
      BY <1>0, <1>1, <1>5, <1>9, <2>0 DEF SlotInv
  <2>3. \A d \in Threads : t'[d].pc \in Holding =>
           /\ sg_open_files'[t'[d].fd] = Null
           /\ \A i \in 1..Len(sg_fd_queue') : sg_fd_queue'[i] # t'[d].fd
      BY <1>0, <1>1, <1>5, <1>7, <2>0 DEF SlotInv
  <2>4. \A d, e \in Threads : t'[d].pc \in Holding /\ t'[e].pc \in Holding /\ t'[d].fd = t'[e].fd => d = e
      BY <1>0, <1>7 DEF SlotInv
  <2>5. ASSUME NEW r \in Slots, sg_open_files'[r] = Null,
               \A i \in 1..Len(sg_fd_queue') : sg_fd_queue'[i] # r
        PROVE  \E d \in Threads : t'[d].pc \in Holding /\ t'[d].fd = r
    <3>1. r # s /\ \A i \in 1..Len(sg_fd_queue) : sg_fd_queue[i] # r
        BY <1>5, <2>5
    <3>2. PICK d \in Threads : t[d].pc \in Holding /\ t[d].fd = r
        BY <1>0, <1>1, <2>5, <3>1 DEF SlotInv
    <3> QED  BY <1>10, <3>1, <3>2
  <2> QED  BY <2>1, <2>2, <2>3, <2>4, <2>5 DEF SlotInv
<1>12. FileInv'
    BY <1>0, <1>1, <1>3, <1>4, FileMove
<1>13. LockInv'
    BY <1>0, <1>1, <1>3, <1>4, LockMove
<1>14. Owned => Owned'
    BY <1>0, <1>1, <1>3, <1>4, OwnMove DEF Owned
<1>15. OwnInv'
    BY <1>0, <1>1, <1>14 DEF OwnInv
<1> QED  BY <1>6, <1>11, <1>12, <1>13, <1>15 DEF TableInv

-----------------------------------------------------------------------------
(* The specification                                                       *)

(* setup_fd_slots puts every slot in the queue, once.                      *)
LEMMA AllFree ==
    ASSUME Init
    PROVE  /\ sg_fd_queue \in Seq(Slots)
           /\ \A i, j \in 1..Len(sg_fd_queue) : sg_fd_queue[i] = sg_fd_queue[j] => i = j
           /\ \A s \in Slots : \E i \in 1..Len(sg_fd_queue) : sg_fd_queue[i] = s
<1> DEFINE N == Cardinality(Slots)
<1>1. N \in Nat
    BY TableAssumption, FS_CardinalityType
<1>2. /\ sg_fd_queue \in [1..N -> Slots]
      /\ \A i, j \in 1..N : i < j => sg_fd_queue[i] < sg_fd_queue[j]
    BY DEF Init
<1> HIDE DEF N
<1>3. sg_fd_queue \in Seq(Slots) /\ Len(sg_fd_queue) = N
    BY <1>1, <1>2
<1>4. \A i, j \in 1..N : sg_fd_queue[i] = sg_fd_queue[j] => i = j
  <2> SUFFICES ASSUME NEW i \in 1..N, NEW j \in 1..N, i < j PROVE sg_fd_queue[i] # sg_fd_queue[j]
      BY <1>1
  <2>1. sg_fd_queue[i] < sg_fd_queue[j]
      BY <1>2
  <2>2. sg_fd_queue[i] \in Int /\ sg_fd_queue[j] \in Int
      BY <1>2, TableAssumption
  <2> QED  BY <2>1, <2>2
<1>5. sg_fd_queue \in Injection(1..N, Slots)
    BY <1>2, <1>4 DEF Injection, IsInjective
<1>6. Cardinality(1..N) = N
    BY <1>1, FS_Interval
<1>7. sg_fd_queue \in Surjection(1..N, Slots)
    BY <1>5, <1>6, FS_Injection, TableAssumption DEF N
<1>8. \A s \in Slots : \E i \in 1..N : sg_fd_queue[i] = s
    BY <1>7 DEF Surjection
<1> QED  BY <1>3, <1>4, <1>8

(* The tables of ef_init satisfy the invariant.                            *)
LEMMA InitInv == Init => TableInv
<1> SUFFICES ASSUME Init PROVE TableInv
    OBVIOUS
<1>1. \A c \in Threads : t[c].pc = "idle"
    BY DEF Init, Idle
<1>2. "idle" \notin Holding \cup Fresh \cup Locking \cup BySlot \cup ByAddress
    BY DEF Holding, Fresh, Locking, BySlot, ByAddress
<1>3. Idle \in Locals
    BY DEF Idle, Locals, Labels, HasSlot, HasFile, BySlot, Holding, Fresh
<1>4. tasks \in Seq([run : {"t_open", "c_close"}, f : Files \cup {Null}]) /\ Len(tasks) = 0
    BY DEF Init
<1>5. TypeOK
  <2>1. t \in [Threads -> Locals] /\ sg_open_files \in [Slots -> Files \cup {Null}]
      BY <1>3 DEF Init
  <2>2. sg_handle_to_file_action \in [Slots -> BOOLEAN] /\ live \subseteq Files /\ opens \in 0..MaxOpens
      BY TableAssumption DEF Init
  <2>3. sg_fd_queue \in Seq(Slots)
      BY AllFree
  <2>4. notify \in BOOLEAN /\ polled \in BOOLEAN /\ fault = "none"
      BY DEF Init
  <2> QED  BY <1>4, <2>1, <2>2, <2>3, <2>4 DEF TypeOK
<1>6. SlotInv
  <2>1. \A s \in Slots : sg_open_files[s] = Null
      BY DEF Init
  <2>2. \A i \in 1..Len(sg_fd_queue) : sg_fd_queue[i] \in Slots
      BY <1>5 DEF TypeOK
  <2>3. /\ \A i, j \in 1..Len(sg_fd_queue) : sg_fd_queue[i] = sg_fd_queue[j] => i = j
        /\ \A s \in Slots : \E i \in 1..Len(sg_fd_queue) : sg_fd_queue[i] = s
      BY AllFree
  <2> QED  BY <1>1, <1>2, <2>1, <2>2, <2>3 DEF SlotInv
<1>7. FileInv
    BY <1>1, <1>2 DEF Init, FileInv
<1>8. LockInv
    BY <1>1, <1>2 DEF LockInv
<1>9. Owners = {} /\ CloseTasks = {}
    BY <1>1, <1>2, <1>4 DEF Owners, CloseTasks
<1>10. Owned
    BY <1>1, <1>9 DEF Init, Owned, Threads
<1> QED  BY <1>5, <1>6, <1>7, <1>8, <1>10 DEF TableInv, OwnInv

(* Every step of a user, of a thread of the pool and of slow_sync keeps    *)
(* it.                                                                     *)
LEMMA NextInv == TableInv /\ [Next]_vars => TableInv'
<1> SUFFICES ASSUME TableInv, [Next]_vars PROVE TableInv'
    OBVIOUS
<1>1. CASE UNCHANGED vars
  <2>1. UNCHANGED <<table, live, opens, tasks, notify, polled, t, fault>> /\ fault' = fault
      BY <1>1 DEF vars
  <2>2. fault' \in {"none", "freed", "uninit", "action"} /\ (Owned => fault' # "freed")
      BY <2>1 DEF TableInv, TypeOK, Owned
  <2> QED  BY <2>1, <2>2, FaultKeeps
<1>2. ASSUME NEW c \in Threads, sync_file_writes(c) PROVE TableInv'
    BY <1>2, LockKeeps, SyncLookKeeps, SyncWaitKeeps, UnlockKeeps DEF sync_file_writes
<1>3. ASSUME NEW c \in Threads, c # Walker, Step(c) PROVE TableInv'
  <2>1. CASE ReleaseSlot(c)
      BY <1>3, <2>1, LockKeeps, CleanupKeeps, UnlockKeeps, EnqueueKeeps DEF ReleaseSlot
  <2>2. CASE sync_file_writes(c)
      BY <1>2, <2>2
  <2>3. CASE ef_file_close(c)
      BY <1>3, <2>3, FileStepKeeps, CloseIndexKeeps DEF ef_file_close
  <2>4. CASE ef_close_status(c)
      BY <1>3, <2>4, StatusKeeps
  <2> QED  BY <1>3, <2>1, <2>2, <2>3, <2>4 DEF Step
<1>4. ASSUME NEW u \in Users, UserStep(u) PROVE TableInv'
  <2>1. u \in Threads /\ u # Walker
      BY TableAssumption DEF Threads
  <2>2. CASE ef_open(u)
      BY <2>1, <2>2, DequeueKeeps, LockKeeps, MallocKeeps, UnlockKeeps, FileStepKeeps, OpenSubmitKeeps
      DEF ef_open
  <2>3. CASE ef_open_status(u)
      BY <2>3, OpenStatusCallKeeps
  <2>4. CASE ef_close_api(u)
      BY <2>1, <2>4, CloseCallKeeps, CloseSubmitKeeps DEF ef_close_api
  <2>5. CASE AskStatus(u)
      BY <2>1, <2>5, AskStatusKeeps
  <2>6. CASE LeaveIt(u)
    <3>1. Return(u) /\ t[u].pc \notin Holding /\ UNCHANGED <<table, live, opens, tasks, notify, polled, fault>>
        BY <2>6 DEF LeaveIt, At, Holding
    <3> QED  BY <2>1, <3>1, ReturnKeeps
  <2>7. CASE Step(u)
      BY <1>3, <2>1, <2>7
  <2> QED  BY <1>4, <2>2, <2>3, <2>4, <2>5, <2>6, <2>7 DEF UserStep
<1>5. ASSUME NEW k \in Disk, DiskStep(k) PROVE TableInv'
  <2>1. k \in Threads /\ k # Walker
      BY TableAssumption DEF Threads
  <2>2. CASE TakeTask(k)
      BY <2>1, <2>2, TakeTaskKeeps
  <2>3. CASE ef_file_open(k)
      BY <2>1, <2>3, FileStepKeeps, OpenNotifyKeeps DEF ef_file_open
  <2>4. CASE Step(k)
      BY <1>3, <2>1, <2>4
  <2> QED  BY <1>5, <2>2, <2>3, <2>4 DEF DiskStep
<1>6. CASE WalkStep
  <2>1. Walker \in Threads
      BY DEF Threads
  <2> QED  BY <1>2, <1>6, <2>1, SlowSyncKeeps DEF WalkStep
<1>7. CASE Undefined \/ AllClosed
    BY <1>1, <1>7 DEF Undefined, AllClosed
<1> QED  BY <1>1, <1>4, <1>5, <1>6, <1>7 DEF Next

(* The inductive invariant holds in every state of the table.              *)
THEOREM Invariant == Spec => []TableInv
  BY InitInv, NextInv, PTL DEF Spec

-----------------------------------------------------------------------------
(* The places of a slot, counted                                           *)

(* Where the invariant says there is one place, there is a count of one.   *)
LEMMA CountOne ==
    ASSUME TableInv
    PROVE  SlotsConserved
<1>0. TypeOK /\ SlotInv /\ FileInv
    BY DEF TableInv
<1>1. ASSUME NEW s \in Slots
      PROVE  Cardinality({i \in DOMAIN sg_fd_queue : sg_fd_queue[i] = s})
               + Cardinality(Holders(s)) + (IF sg_open_files[s] = Null THEN 0 ELSE 1) = 1
  <2> DEFINE Q == {i \in DOMAIN sg_fd_queue : sg_fd_queue[i] = s}
             H == Holders(s)
  <2>1. DOMAIN sg_fd_queue = 1..Len(sg_fd_queue)
      BY <1>0 DEF TypeOK
  <2>2. \A c \in Threads : c \in H <=> t[c].pc \in Holding /\ t[c].fd = s
      BY DEF Holders, Holding
  <2>3. H \subseteq Threads
      BY DEF Holders
  <2>4. Cardinality({}) = 0
      BY FS_EmptySet
  <2>5. \A x : Cardinality({x}) = 1
      BY FS_Singleton
  <2>6. CASE sg_open_files[s] # Null
    <3>1. Q = {} /\ H = {}
        BY <1>0, <2>1, <2>2, <2>3, <2>6 DEF SlotInv
    <3> QED  BY <2>4, <2>6, <3>1
  <2>7. ASSUME sg_open_files[s] = Null, NEW i \in 1..Len(sg_fd_queue), sg_fd_queue[i] = s
        PROVE  Cardinality(Q) = 1 /\ Cardinality(H) = 0
    <3>1. Q = {i}
        BY <1>0, <2>1, <2>7 DEF SlotInv
    <3>2. H = {}
        BY <1>0, <2>2, <2>3, <2>7 DEF SlotInv
    <3> QED  BY <2>4, <2>5, <3>1, <3>2
  <2>8. ASSUME sg_open_files[s] = Null, NEW c \in Threads, t[c].pc \in Holding, t[c].fd = s
        PROVE  Cardinality(Q) = 0 /\ Cardinality(H) = 1
    <3>1. Q = {}
        BY <1>0, <2>1, <2>8 DEF SlotInv
    <3>2. H = {c}
        BY <1>0, <2>2, <2>3, <2>8 DEF SlotInv
    <3> QED  BY <2>4, <2>5, <3>1, <3>2
  <2> HIDE DEF Q, H
  <2>9. CASE sg_open_files[s] = Null
    <3>1. (Cardinality(Q) = 1 /\ Cardinality(H) = 0) \/ (Cardinality(Q) = 0 /\ Cardinality(H) = 1)
        BY <1>0, <2>7, <2>8, <2>9 DEF SlotInv
    <3>2. Cardinality(Q) + Cardinality(H) + 0 = 1
        BY <3>1
    <3> QED  BY <2>9, <3>2 DEF Q, H
  <2> QED  BY <2>6, <2>9
<1>2. live = {sg_open_files[s] : s \in Slots} \ {Null}
  <2>1. \A f \in live : f # Null /\ \E s \in Slots : f = sg_open_files[s]
      BY <1>0, TableAssumption DEF FileInv, TypeOK, Files
  <2>2. \A s \in Slots : sg_open_files[s] # Null => sg_open_files[s] \in live
      BY <1>0 DEF FileInv
  <2> QED  BY <2>1, <2>2
<1> QED  BY <1>1, <1>2 DEF SlotsConserved

(* No slot of sg_fd_queue is lost and none is given out twice, and the     *)
(* entries of sg_open_files are the EF_FILEs allocated, whatever users,    *)
(* tasks and slow_sync do.                                                 *)
THEOREM Conserved == Spec => []SlotsConserved
<1>1. TableInv => SlotsConserved
    BY CountOne
<1> QED  BY <1>1, Invariant, PTL

(* As long as no user polls a close and no callback is set, neither        *)
(* slow_sync nor ef_close nor the tasks touch an EF_FILE that was freed.   *)
THEOREM FreedByStatusOnly == Spec => []FreedOnlyByStatusCalls
<1>1. TableInv => FreedOnlyByStatusCalls
    BY DEF TableInv, OwnInv, Owned, FreedOnlyByStatusCalls
<1> QED  BY <1>1, Invariant, PTL

=============================================================================
