--------------------------- MODULE StorageProofs ---------------------------
(***************************************************************************)
(* What SharedMemory.tla promises for any number of threads, fields and    *)
(* values: no transaction that passes its checks is inconsistent, because  *)
(* every field it has touched is watched until it ends.  And what the parts*)
(* of MCStorage that give and take places promise: the allocators of items,*)
(* the pointers, the vectors and rings, the machine, the caches and the    *)
(* errors, for any sizes, names and tables; and that the composition plays *)
(* all of them.                                                            *)
(***************************************************************************)
EXTENDS MCStorage, Functions, FiniteSetTheorems, SequenceTheorems, WellFoundedInduction, TLAPS

USE MemoryAssumption

(* The inductive invariant. *)
IInv == TouchedIsWatched /\ NeverInconsistent

-----------------------------------------------------------------------------
(* dirty_lock keeps all but one thread out of the sections it guards. *)
LEMMA OneInside ==
  ASSUME TypeOK, NEW t \in Threads, NEW u \in Threads, pc[t] \in Locked, pc[u] \in Locked
  PROVE  t = u
  BY DEF TypeOK

LEMMA NobodyInside ==
  ASSUME TypeOK, dirty_lock = NoThread, NEW t \in Threads
  PROVE  pc[t] \notin Locked
  BY DEF TypeOK

(* A step moves one thread. *)
LEMMA GotoMoves ==
  ASSUME TypeOK, NEW t \in Threads, NEW from, NEW to, Goto(t, from, to)
  PROVE  pc[t] = from /\ pc'[t] = to /\ \A u \in Threads : u # t => pc'[u] = pc[u]
  BY DEF TypeOK, Goto

LEMMA InitInv == Init => IInv
<1> SUFFICES ASSUME Init PROVE IInv
  OBVIOUS
<1>1. TypeOK
  BY DEF Init, TypeOK, Labels, Locked
<1>2. TransactionsInOrder
  BY DEF Init, TransactionsInOrder, InOrder, Running, Written
<1>3. ReadsAreWatched /\ WritesAreWatched /\ NeverInconsistent
  BY DEF Init, ReadsAreWatched, WritesAreWatched, NeverInconsistent, Running
<1> QED BY <1>1, <1>2, <1>3 DEF IInv, TouchedIsWatched

(* The lock is with who is inside. *)
LEMMA StepLock ==
  ASSUME TypeOK, NEW t \in Threads, Step(t)
  PROVE  /\ dirty_lock' \in Threads \cup {NoThread}
         /\ pc' \in [Threads -> Labels]
         /\ \A u \in Threads : u # t => pc'[u] = pc[u]
         /\ \A u \in Threads : pc'[u] \in Locked <=> dirty_lock' = u
<1> USE DEF component, Goto
<1>1. pc' \in [Threads -> Labels] /\ \A u \in Threads : u # t => pc'[u] = pc[u]
  BY ZenonT(30) DEF TypeOK, Step, Begin, Get, LoadDirty, Check, Set, Write, DirtyField, Commit,
         Notify, Clean,
         Rollback, Restore, RollbackClean, End, Labels, Locked, Running
<1>2. /\ pc \in [Threads -> Labels] /\ dirty_lock \in Threads \cup {NoThread}
      /\ \A u \in Threads : pc[u] \in Locked <=> dirty_lock = u
  BY DEF TypeOK
<1>3. \/ UNCHANGED dirty_lock /\ (pc'[t] \in Locked <=> pc[t] \in Locked)
      \/ Lock(t) /\ pc'[t] \in Locked
      \/ Unlock(t) /\ pc'[t] \notin Locked
  BY <1>2 DEF Step, Begin, Get, LoadDirty, Check, Set, Write, DirtyField, Commit, Notify, Clean,
              Rollback, Restore, RollbackClean, End, Locked
<1>4. dirty_lock' \in Threads \cup {NoThread}
  BY <1>2, <1>3 DEF Lock, Unlock
<1>5. \A u \in Threads : pc'[u] \in Locked <=> dirty_lock' = u
  BY <1>1, <1>2, <1>3 DEF Lock, Unlock
<1> QED BY <1>1, <1>4, <1>5

(* The sets of fields are sets of fields. *)
LEMMA StepDeltas ==
  ASSUME TypeOK, NEW t \in Threads, Step(t)
  PROVE  {write_delta, read_delta, change_delta, seen}' \subseteq [Threads -> SUBSET Fields]
<1>1. /\ write_delta \in [Threads -> SUBSET Fields] /\ read_delta \in [Threads -> SUBSET Fields]
      /\ change_delta \in [Threads -> SUBSET Fields] /\ seen \in [Threads -> SUBSET Fields]
      /\ dirty \in SUBSET Fields
      /\ read_field \in [Threads -> Fields] /\ readwrite_field \in [Threads -> Fields]
  BY DEF TypeOK
<1>2. write_delta' \in [Threads -> SUBSET Fields]
  <2>1. \/ write_delta' = write_delta
        \/ write_delta' = [write_delta EXCEPT ![t] = @ \cup {readwrite_field[t]}]
        \/ write_delta' = [write_delta EXCEPT ![t] = {}]
    BY <1>1 DEF Step, Begin, Get, LoadDirty, Check, Set, Write, DirtyField, Commit, Notify,
           Clean, Rollback, Restore, RollbackClean, End, Reset, deltas
  <2> QED BY <1>1, <2>1
<1>3. read_delta' \in [Threads -> SUBSET Fields]
  <2>1. \/ read_delta' = read_delta
        \/ \E f \in Fields : read_delta' = [read_delta EXCEPT ![t] = @ \cup {f}]
        \/ read_delta' = [read_delta EXCEPT ![t] = {}]
    BY <1>1 DEF Step, Begin, Get, LoadDirty, Check, Set, Write, DirtyField, Commit, Notify,
           Clean, Rollback, Restore, RollbackClean, End, Reset, deltas
  <2> QED BY <1>1, <2>1
<1>4. change_delta' \in [Threads -> SUBSET Fields]
  <2>1. \/ change_delta' = change_delta
        \/ change_delta' = [u \in Threads |-> IF u \in active THEN change_delta[u] \cup write_delta[t]
                                                           ELSE change_delta[u]]
        \/ change_delta' = [change_delta EXCEPT ![t] = {}]
    BY <1>1 DEF Step, Begin, Get, LoadDirty, Check, Set, Write, DirtyField, Commit, Notify,
           Clean, Rollback, Restore, RollbackClean, End, Reset, deltas
  <2> QED BY <1>1, <2>1
<1>5. seen' \in [Threads -> SUBSET Fields]
  BY <1>1 DEF Step, Begin, Get, LoadDirty, Check, Set, Write, DirtyField, Commit, Notify, Clean,
         Rollback, Restore, RollbackClean, End, Reset, view
<1> QED BY <1>2, <1>3, <1>4, <1>5

LEMMA StepTypeOK ==
  ASSUME TypeOK, NEW t \in Threads, Step(t)
  PROVE  TypeOK'
<1> USE DEF component, choices, view
<1>1. /\ fields \in [Fields -> Values] /\ dirty \subseteq Fields /\ active \subseteq Threads
      /\ inconsistent \in BOOLEAN /\ committed \in [Fields -> Values]
      /\ read_field \in [Threads -> Fields] /\ readwrite_field \in [Threads -> Fields]
      /\ r \in [Threads -> Values] /\ log \in [Threads -> Values]
      /\ shadow_fields \in [Threads -> [Fields -> Values]]
      /\ write_inconsistency \in [Threads -> BOOLEAN]
  BY DEF TypeOK
<1>2. fields' \in [Fields -> Values] /\ dirty' \subseteq Fields /\ active' \subseteq Threads
  BY <1>1 DEF Step, Begin, Get, LoadDirty, Check, Set, Write, DirtyField, Commit, Notify, Clean,
         Rollback, Restore, RollbackClean, End
<1>3. inconsistent' \in BOOLEAN /\ committed' \in [Fields -> Values]
  BY <1>1 DEF Step, Begin, Get, LoadDirty, Check, Set, Write, DirtyField, Commit, Notify, Clean,
         Rollback, Restore, RollbackClean, End
<1>4. /\ read_field' \in [Threads -> Fields] /\ readwrite_field' \in [Threads -> Fields]
      /\ r' \in [Threads -> Values]
  <2>1. \/ UNCHANGED choices
        \/ \E f, g \in Fields, v \in Values : /\ read_field' = [read_field EXCEPT ![t] = f]
                                             /\ readwrite_field' = [readwrite_field EXCEPT ![t] = g]
                                             /\ r' = [r EXCEPT ![t] = v]
    BY DEF Step, Begin, Get, LoadDirty, Check, Set, Write, DirtyField, Commit, Notify, Clean,
           Rollback, Restore, RollbackClean, End
  <2>2. CASE UNCHANGED choices
    BY <1>1, <2>2
  <2>3. ASSUME NEW f \in Fields, NEW g \in Fields, NEW v \in Values,
               read_field' = [read_field EXCEPT ![t] = f],
               readwrite_field' = [readwrite_field EXCEPT ![t] = g], r' = [r EXCEPT ![t] = v]
        PROVE  /\ read_field' \in [Threads -> Fields] /\ readwrite_field' \in [Threads -> Fields]
               /\ r' \in [Threads -> Values]
    BY <1>1, <2>3
  <2> QED BY <2>1, <2>2, <2>3
<1>5. log' \in [Threads -> Values] /\ write_inconsistency' \in [Threads -> BOOLEAN]
  <2>1. \/ log' = log
        \/ \E f \in Fields : log' = [log EXCEPT ![t] = fields[f]]
        \/ log' = [log EXCEPT ![t] = 0]
    BY <1>1 DEF Step, Begin, Get, LoadDirty, Check, Set, Write, DirtyField, Commit, Notify,
           Clean, Rollback, Restore, RollbackClean, End, Reset
  <2>2. \/ write_inconsistency' = write_inconsistency
        \/ \E f \in Fields : write_inconsistency' = [write_inconsistency EXCEPT ![t] = @ \/ ~Consistent(t, f)]
        \/ write_inconsistency' = [write_inconsistency EXCEPT ![t] = FALSE]
    BY <1>1 DEF Step, Begin, Get, LoadDirty, Check, Set, Write, DirtyField, Commit, Notify,
           Clean, Rollback, Restore, RollbackClean, End, Reset
  <2>3. \A f \in Fields : Consistent(t, f) \in BOOLEAN
    BY DEF Consistent
  <2> QED BY ZenonT(30), <1>1, <2>1, <2>2, <2>3
<1>6. shadow_fields' \in [Threads -> [Fields -> Values]]
  <2>1. \/ shadow_fields' = shadow_fields
        \/ shadow_fields' = [shadow_fields EXCEPT ![t] = fields]
        \/ \E f \in Fields : \E v \in Values : shadow_fields' = [shadow_fields EXCEPT ![t][f] = v]
    BY <1>1 DEF Step, Begin, Get, LoadDirty, Check, Set, Write, DirtyField, Commit, Notify,
           Clean, Rollback, Restore, RollbackClean, End
  <2>2. ASSUME NEW f \in Fields, NEW v \in Values,
               shadow_fields' = [shadow_fields EXCEPT ![t][f] = v]
        PROVE  shadow_fields' \in [Threads -> [Fields -> Values]]
    <3>1. [shadow_fields[t] EXCEPT ![f] = v] \in [Fields -> Values]
      BY <1>1
    <3> QED BY <1>1, <2>2, <3>1
  <2>3. CASE shadow_fields' = shadow_fields \/ shadow_fields' = [shadow_fields EXCEPT ![t] = fields]
    BY <1>1, <2>3
  <2> QED BY <2>1, <2>2, <2>3
<1> QED BY <1>2, <1>3, <1>4, <1>5, <1>6, StepLock, StepDeltas DEF TypeOK

-----------------------------------------------------------------------------
(* What a step of t leaves alone of another transaction: all but what is     *)
(* announced to it.                                                          *)
LEMMA OthersAreKept ==
  ASSUME TypeOK, NEW t \in Threads, Step(t), NEW u \in Threads, u # t
  PROVE  /\ pc'[u] = pc[u] /\ (u \in active' <=> u \in active)
         /\ readwrite_field'[u] = readwrite_field[u] /\ r'[u] = r[u]
         /\ shadow_fields'[u] = shadow_fields[u]
         /\ write_delta'[u] = write_delta[u] /\ read_delta'[u] = read_delta[u]
         /\ change_delta[u] \subseteq change_delta'[u]
         /\ write_inconsistency'[u] = write_inconsistency[u]
<1> USE DEF component, choices, deltas, view, Reset
<1>1. pc'[u] = pc[u]
  BY StepLock
<1>2. u \in active' <=> u \in active
  BY DEF Step, Begin, Get, LoadDirty, Check, Set, Write, DirtyField, Commit, Notify, Clean,
         Rollback, Restore, RollbackClean, End
<1>3. readwrite_field'[u] = readwrite_field[u] /\ r'[u] = r[u]
  BY DEF TypeOK, Step, Begin, Get, LoadDirty, Check, Set, Write, DirtyField, Commit, Notify,
         Clean, Rollback, Restore, RollbackClean, End
<1>4. shadow_fields'[u] = shadow_fields[u]
  BY DEF TypeOK, Step, Begin, Get, LoadDirty, Check, Set, Write, DirtyField, Commit, Notify,
         Clean, Rollback, Restore, RollbackClean, End
<1>5. write_delta'[u] = write_delta[u] /\ read_delta'[u] = read_delta[u]
  <2>1. write_delta' = write_delta \/ \E S : write_delta' = [write_delta EXCEPT ![t] = S]
    BY DEF Step, Begin, Get, LoadDirty, Check, Set, Write, DirtyField, Commit, Notify, Clean,
           Rollback, Restore, RollbackClean, End
  <2>2. read_delta' = read_delta \/ \E S : read_delta' = [read_delta EXCEPT ![t] = S]
    BY DEF Step, Begin, Get, LoadDirty, Check, Set, Write, DirtyField, Commit, Notify, Clean,
           Rollback, Restore, RollbackClean, End
  <2>3. write_delta \in [Threads -> SUBSET Fields] /\ read_delta \in [Threads -> SUBSET Fields]
    BY DEF TypeOK
  <2> QED BY <2>1, <2>2, <2>3
<1>6. change_delta[u] \subseteq change_delta'[u]
  <2>1. \/ change_delta' = change_delta
        \/ change_delta' = [v \in Threads |-> IF v \in active THEN change_delta[v] \cup write_delta[t]
                                                            ELSE change_delta[v]]
        \/ \E S : change_delta' = [change_delta EXCEPT ![t] = S]
    BY DEF Step, Begin, Get, LoadDirty, Check, Set, Write, DirtyField, Commit, Notify, Clean,
           Rollback, Restore, RollbackClean, End
  <2>2. change_delta \in [Threads -> SUBSET Fields]
    BY DEF TypeOK
  <2> QED BY <2>1, <2>2
<1>7. write_inconsistency'[u] = write_inconsistency[u]
  BY DEF TypeOK, Step, Begin, Get, LoadDirty, Check, Set, Write, DirtyField, Commit, Notify,
         Clean, Rollback, Restore, RollbackClean, End
<1> QED BY <1>1, <1>2, <1>3, <1>4, <1>5, <1>6, <1>7

(* What changes of the fields, their dirty bits and the announcements, and   *)
(* when.                                                                     *)
LEMMA WhatChanges ==
  ASSUME TypeOK, NEW t \in Threads, Step(t), NEW f \in Fields
  PROVE  /\ fields'[f] # fields[f] =>
              \/ pc[t] = "write" /\ f = readwrite_field[t]
              \/ pc[t] = "restore" /\ f \in write_delta[t]
         /\ f \in dirty /\ f \notin dirty' => pc[t] \in Cleaning /\ f \in write_delta[t]
         /\ pc[t] \in {"notify", "rollback notify"} =>
              \A u \in active : write_delta[t] \subseteq change_delta'[u]
<1> USE DEF component, choices, deltas, view, Goto, Cleaning
<1>1. fields'[f] # fields[f] =>
        \/ pc[t] = "write" /\ f = readwrite_field[t]
        \/ pc[t] = "restore" /\ f \in write_delta[t]
  <2>1. \/ fields' = fields
        \/ pc[t] = "write" /\ fields' = [fields EXCEPT ![readwrite_field[t]] = r[t]]
        \/ /\ pc[t] = "restore"
           /\ fields' = [g \in Fields |-> IF g \in write_delta[t] THEN log[t] ELSE fields[g]]
    BY DEF Step, Begin, Get, LoadDirty, Check, Set, Write, DirtyField, Commit, Notify, Clean,
           Rollback, Restore, RollbackClean, End
  <2>2. fields \in [Fields -> Values]
    BY DEF TypeOK
  <2>3. CASE fields' = [fields EXCEPT ![readwrite_field[t]] = r[t]] /\ f # readwrite_field[t]
    BY <2>2, <2>3
  <2>4. CASE fields' = [g \in Fields |-> IF g \in write_delta[t] THEN log[t] ELSE fields[g]]
    BY <2>1, <2>4
  <2> QED BY <2>1, <2>3, <2>4
<1>2. f \in dirty /\ f \notin dirty' => pc[t] \in Cleaning /\ f \in write_delta[t]
  BY DEF Step, Begin, Get, LoadDirty, Check, Set, Write, DirtyField, Commit, Notify, Clean,
         Rollback, Restore, RollbackClean, End
<1>3. ASSUME pc[t] \in {"notify", "rollback notify"}
      PROVE  \A u \in active : write_delta[t] \subseteq change_delta'[u]
  <2>1. Notify(t)
    BY <1>3 DEF Step, Begin, Get, LoadDirty, Check, Set, Write, DirtyField, Commit, Notify,
           Clean, Rollback, Restore, RollbackClean, End
  <2> QED BY <2>1 DEF TypeOK, Notify
<1> QED BY <1>1, <1>2, <1>3

-----------------------------------------------------------------------------
(* A transaction whose checks pass under dirty_lock has seen nothing change. *)

LEMMA SetIsConsistent ==
  ASSUME IInv, NEW t \in Threads, pc[t] = "set", dirty_lock = NoThread,
         ~Conflicts(t, dirty, {readwrite_field[t]})
  PROVE  Consistent(t, readwrite_field[t])
<1> DEFINE f == readwrite_field[t]
<1> SUFFICES ASSUME f \in read_delta[t] \cup write_delta[t] PROVE fields[f] = shadow_fields[t][f]
  BY DEF Consistent
<1>1. write_delta[t] = {}
  BY DEF IInv, TouchedIsWatched, TransactionsInOrder, InOrder, Unwritten
<1>2. f \notin change_delta[t] /\ f \notin dirty
  BY <1>1 DEF Conflicts
<1>3. ReadIsWatched(t, f)
  BY <1>1 DEF IInv, TouchedIsWatched, ReadsAreWatched, Running
<1>4. \A u \in Threads : pc[u] \notin Changing
  BY NobodyInside DEF IInv, TouchedIsWatched, Changing, Locked
<1> QED BY <1>2, <1>3, <1>4 DEF ReadIsWatched

LEMMA CommitIsConsistent ==
  ASSUME IInv, NEW t \in Threads, pc[t] = "commit", dirty_lock = NoThread,
         ~Conflicts(t, dirty, {})
  PROVE  (\A f \in Fields : Consistent(t, f)) /\ ~write_inconsistency[t]
<1>1. /\ write_delta[t] = {readwrite_field[t]} /\ ~write_inconsistency[t]
      /\ shadow_fields[t][readwrite_field[t]] = r[t]
  BY DEF IInv, TouchedIsWatched, TransactionsInOrder, InOrder, Written
<1>2. \A u \in Threads : pc[u] \notin Locked
  BY NobodyInside DEF IInv, TouchedIsWatched
<1>3. ASSUME NEW f \in write_delta[t] PROVE fields[f] = shadow_fields[t][f]
  <2>1. f \notin change_delta[t]
    BY <1>3 DEF Conflicts
  <2>2. WriteIsWatched(t, f)
    BY <1>3, <2>1 DEF IInv, TouchedIsWatched, WritesAreWatched
  <2>3. fields[f] = r[t]
    BY <1>2, <2>2 DEF WriteIsWatched, Locked
  <2> QED BY <1>1, <1>3, <2>3
<1>4. ASSUME NEW f \in read_delta[t] \ write_delta[t] PROVE fields[f] = shadow_fields[t][f]
  <2>1. f \notin change_delta[t] /\ f \notin dirty
    BY <1>4 DEF Conflicts
  <2>2. ReadIsWatched(t, f)
    BY <1>4 DEF IInv, TouchedIsWatched, ReadsAreWatched, Running
  <2> QED BY <1>2, <2>1, <2>2 DEF ReadIsWatched, Changing, Locked
<1> QED BY <1>1, <1>3, <1>4 DEF Consistent

LEMMA StepInOrder ==
  ASSUME IInv, NEW t \in Threads, Step(t)
  PROVE  TransactionsInOrder'
<1> SUFFICES ASSUME NEW u \in Threads PROVE InOrder(u)'
  BY DEF TransactionsInOrder
<1> USE DEF component, choices, deltas, view
<1>0. InOrder(u) /\ TypeOK /\ readwrite_field[u] \in Fields
  BY DEF IInv, TouchedIsWatched, TransactionsInOrder, TypeOK
<1>1. CASE u # t
  <2>1. pc[u] = "dirty_field" => fields'[readwrite_field[u]] = fields[readwrite_field[u]]
    <3>1. pc[u] = "dirty_field" => pc[t] \notin {"write", "restore"}
      BY <1>0, <1>1, OneInside DEF Locked
    <3> QED BY <1>0, <3>1, WhatChanges
  <2> QED BY <1>0, <1>1, <2>1, OthersAreKept DEF InOrder
<1>2. CASE u = t
  <2> USE <1>0, <1>2 DEF InOrder, TypeOK, Running, Unread, Unwritten, Written
  <2>1. CASE Begin(t)
    BY <2>1, GotoMoves DEF Begin, Goto, Reset
  <2>2. CASE Get(t)
    BY ZenonT(30), <2>2, GotoMoves DEF Get, Goto, Reset
  <2>3. CASE LoadDirty(t)
    BY ZenonT(30), <2>3, GotoMoves DEF LoadDirty, Goto, Reset
  <2>4. CASE Check(t)
    <3>1. \/ pc[t] = "check read_field" /\ pc'[t] \in {"rollback", "get readwrite_field"}
          \/ pc[t] = "check readwrite_field" /\ pc'[t] \in {"rollback", "set"}
      BY <2>4 DEF Check, Goto
    <3> QED BY <2>4, <3>1 DEF Check
  <2>5. CASE Set(t)
    <3>1. CASE Conflicts(t, dirty, {readwrite_field[t]})
      <4>1. pc[t] = "set" /\ pc'[t] = "restore"
        BY ZenonT(30), <2>5, <3>1, GotoMoves DEF Set
      <4> QED BY <2>5, <3>1, <4>1 DEF Set
    <3>2. CASE ~Conflicts(t, dirty, {readwrite_field[t]})
      <4>0. Goto(t, "set", "write") /\ dirty_lock = NoThread
        BY <2>5, <3>2 DEF Set, Lock
      <4>1. pc[t] = "set" /\ pc'[t] = "write" /\ dirty_lock = NoThread
        BY ZenonT(30), <4>0, GotoMoves
      <4>2. Consistent(t, readwrite_field[t])
        BY <3>2, <4>1, SetIsConsistent
      <4>3. write_inconsistency'[t] = FALSE
        BY <2>5, <3>2, <4>2 DEF Set
      <4>4. write_delta'[t] = {readwrite_field[t]}
        BY <2>5, <3>2, <4>1 DEF Set
      <4> QED BY <2>5, <4>1, <4>3, <4>4 DEF Set
    <3> QED BY <3>1, <3>2
  <2>6. CASE Write(t)
    BY <2>6, GotoMoves DEF Write, Goto, Reset
  <2>7. CASE DirtyField(t)
    BY <2>7, GotoMoves DEF DirtyField, Goto, Reset
  <2>8. CASE Commit(t)
    <3>1. pc[t] = "commit" /\ pc'[t] \in {"restore", "notify", "end"}
      BY <2>8 DEF Commit, Goto
    <3> QED BY <2>8, <3>1 DEF Commit
  <2>9. CASE Notify(t)
    <3>1. \/ pc[t] = "notify" /\ pc'[t] = "clean"
          \/ pc[t] = "rollback notify" /\ pc'[t] = "rollback clean"
      BY <2>9 DEF Notify, Goto
    <3> QED BY <2>9, <3>1 DEF Notify
  <2>10. CASE Clean(t)
    BY <2>10, GotoMoves DEF Clean, Goto, Reset
  <2>11. CASE Rollback(t)
    BY <2>11, GotoMoves DEF Rollback, Goto, Reset
  <2>12. CASE Restore(t)
    BY <2>12, GotoMoves DEF Restore, Goto, Reset
  <2>13. CASE RollbackClean(t)
    <3>1. /\ pc[t] = "rollback clean" /\ pc'[t] \in {"end", "idle"}
          /\ pc'[t] = "idle" => t \notin active
      BY <2>13 DEF RollbackClean, Goto
    <3>2. CASE t \in active
      BY <2>13, <3>1, <3>2 DEF RollbackClean
    <3>3. CASE t \notin active
      <4>1. write_delta'[t] = {} /\ read_delta'[t] = {} /\ write_inconsistency'[t] = FALSE
        <5>1. Reset(t)
          BY <2>13, <3>3 DEF RollbackClean
        <5>2. write_delta'[t] = {} /\ read_delta'[t] = {}
          BY <5>1 DEF Reset
        <5>3. write_inconsistency'[t] = FALSE
          BY <5>1 DEF Reset
        <5> QED BY <5>2, <5>3
      <4> QED BY <2>13, <3>1, <4>1 DEF RollbackClean
    <3> QED BY <3>2, <3>3
  <2>14. CASE End(t)
    BY <2>14, GotoMoves DEF End, Goto, Reset
  <2> QED BY <2>1, <2>2, <2>3, <2>4, <2>5, <2>6, <2>7, <2>8, <2>9, <2>10, <2>11, <2>12, <2>13,
         <2>14 DEF Step
<1> QED BY <1>1, <1>2

-----------------------------------------------------------------------------
(* Where the sections under dirty_lock lead, with the field they are about.  *)
LEMMA SectionsGoOn ==
  ASSUME IInv, NEW t \in Threads, Step(t), pc[t] \in Changing
  PROVE  /\ pc'[t] \in Changing \cup Cleaning \cup {"commit"}
         /\ write_delta'[t] = write_delta[t]
         /\ pc[t] \in {"write", "restore"} => pc'[t] \in Changing
         /\ pc'[t] = "commit" => pc[t] = "dirty_field" /\ write_delta[t] \subseteq dirty'
         /\ pc'[t] \in Cleaning => pc[t] \in {"notify", "rollback notify"}
<1> USE DEF component, choices, deltas, view, Goto, Changing, Cleaning
<1>1. TypeOK /\ InOrder(t)
  BY DEF IInv, TouchedIsWatched, TransactionsInOrder
<1>2. Write(t) \/ DirtyField(t) \/ Notify(t) \/ Restore(t)
  <2>1. ~(Begin(t) \/ Get(t) \/ LoadDirty(t) \/ Check(t))
    BY DEF Begin, Get, LoadDirty, Check
  <2>2. ~(Set(t) \/ Commit(t) \/ Clean(t))
    BY DEF Set, Commit, Clean
  <2>3. ~(Rollback(t) \/ RollbackClean(t) \/ End(t))
    BY DEF Rollback, RollbackClean, End
  <2> QED BY <2>1, <2>2, <2>3 DEF Step
<1>3. CASE DirtyField(t)
  BY ZenonT(30), <1>1, <1>3, GotoMoves DEF DirtyField, InOrder, Written
<1>4. CASE Write(t) \/ Restore(t)
  <2>1. \/ pc[t] = "write" /\ pc'[t] = "dirty_field"
        \/ pc[t] = "restore" /\ pc'[t] = "rollback notify"
    BY <1>1, <1>4 DEF Write, Restore, TypeOK
  <2>2. write_delta' = write_delta
    BY <1>4 DEF Write, Restore
  <2> QED BY <2>1, <2>2
<1>5. CASE Notify(t)
  <2>1. \/ pc[t] = "notify" /\ pc'[t] = "clean"
        \/ pc[t] = "rollback notify" /\ pc'[t] = "rollback clean"
    BY <1>1, <1>5 DEF Notify, TypeOK
  <2> QED BY <1>5, <2>1 DEF Notify
<1> QED BY <1>2, <1>3, <1>4, <1>5

(* Only after an announcement does a transaction clean what it has changed.  *)
LEMMA CleansWhatWasTold ==
  ASSUME IInv, NEW t \in Threads, Step(t), pc'[t] \in Cleaning
  PROVE  pc[t] \in {"notify", "rollback notify"} /\ write_delta'[t] = write_delta[t]
<1> USE DEF component, choices, deltas, view, Goto, Cleaning
<1>1. Notify(t)
  BY DEF IInv, TouchedIsWatched, TypeOK, Step, Begin, Get, LoadDirty, Check, Set, Write,
         DirtyField, Commit, Notify, Clean, Rollback, Restore, RollbackClean, End
<1> QED BY <1>1 DEF Notify

(* The reads of the transactions that do not move. *)
LEMMA OthersReads ==
  ASSUME IInv, NEW t \in Threads, Step(t), NEW u \in Threads, u # t,
         pc'[u] \in Running, NEW f \in read_delta'[u] \ write_delta'[u]
  PROVE  ReadIsWatched(u, f)'
<1>0. TypeOK /\ InOrder(t) /\ InOrder(u)
  BY DEF IInv, TouchedIsWatched, TransactionsInOrder
<1>1. /\ pc[u] \in Running /\ f \in read_delta[u] \ write_delta[u]
      /\ shadow_fields'[u] = shadow_fields[u] /\ change_delta[u] \subseteq change_delta'[u]
      /\ u \in active
  BY <1>0, OthersAreKept DEF InOrder
<1>2. f \in Fields
  BY <1>0, <1>1 DEF TypeOK
<1>3. ReadIsWatched(u, f)
  BY <1>1 DEF IInv, TouchedIsWatched, ReadsAreWatched
<1>4. \A v \in Threads : v # t => pc'[v] = pc[v] /\ write_delta'[v] = write_delta[v]
  BY <1>0, OthersAreKept
<1>5. CASE fields[f] = shadow_fields[u][f]
  <2>1. CASE fields'[f] = fields[f]
    BY <1>1, <1>5, <2>1 DEF ReadIsWatched
  <2>2. CASE fields'[f] # fields[f]
    <3>1. pc[t] \in {"write", "restore"} /\ f \in write_delta[t]
      BY <1>0, <1>2, <2>2, WhatChanges DEF InOrder, Written
    <3>2. pc'[t] \in Changing /\ f \in write_delta'[t]
      BY <3>1, SectionsGoOn DEF Changing
    <3> QED BY <3>2 DEF ReadIsWatched
  <2> QED BY <2>1, <2>2
<1>6. CASE f \in change_delta[u]
  BY <1>1, <1>6 DEF ReadIsWatched
<1>7. CASE f \in dirty /\ \A v \in Threads : pc[v] \in Cleaning => f \notin write_delta[v]
  <2>1. f \in dirty'
    BY <1>0, <1>2, <1>7, WhatChanges
  <2>2. CASE pc'[t] \in Cleaning /\ f \in write_delta'[t]
    <3>1. pc[t] \in {"notify", "rollback notify"} /\ f \in write_delta[t]
      BY <2>2, CleansWhatWasTold
    <3>2. f \in change_delta'[u]
      BY <1>0, <1>1, <1>2, <3>1, WhatChanges
    <3> QED BY <3>2 DEF ReadIsWatched
  <2>3. CASE ~(pc'[t] \in Cleaning /\ f \in write_delta'[t])
    BY <1>4, <1>7, <2>1, <2>3 DEF ReadIsWatched
  <2> QED BY <2>2, <2>3
<1>8. ASSUME NEW v \in Threads, pc[v] \in Changing, f \in write_delta[v]
      PROVE  ReadIsWatched(u, f)'
  <2>1. CASE v # t
    BY <1>4, <1>8, <2>1 DEF ReadIsWatched
  <2>2. CASE v = t
    <3>1. CASE pc'[t] \in Changing
      BY <1>8, <2>2, <3>1, SectionsGoOn DEF ReadIsWatched
    <3>2. CASE pc'[t] \in Cleaning
      <4>1. pc[t] \in {"notify", "rollback notify"}
        BY <3>2, CleansWhatWasTold
      <4>2. f \in change_delta'[u]
        BY <1>0, <1>1, <1>2, <1>8, <2>2, <4>1, WhatChanges
      <4> QED BY <4>2 DEF ReadIsWatched
    <3>3. CASE pc'[t] = "commit"
      <4>1. f \in dirty'
        BY <1>8, <2>2, <3>3, SectionsGoOn
      <4>2. \A w \in Threads : w # t => pc[w] \notin Locked
        BY <1>0, <1>8, <2>2, OneInside DEF Changing, Locked
      <4>3. \A w \in Threads : pc'[w] \notin Cleaning
        BY <1>4, <3>3, <4>2 DEF Cleaning, Locked
      <4> QED BY <4>1, <4>3 DEF ReadIsWatched
    <3> QED BY <1>8, <2>2, <3>1, <3>2, <3>3, SectionsGoOn
  <2> QED BY <2>1, <2>2
<1> QED BY <1>3, <1>5, <1>6, <1>7, <1>8 DEF ReadIsWatched

(* The reads of the transaction that moves. *)
LEMMA OwnReads ==
  ASSUME IInv, NEW t \in Threads, Step(t), pc'[t] \in Running,
         NEW f \in read_delta'[t] \ write_delta'[t]
  PROVE  ReadIsWatched(t, f)'
<1>0. /\ TypeOK /\ InOrder(t)
      /\ fields \in [Fields -> Values] /\ read_delta \in [Threads -> SUBSET Fields]
      /\ write_delta \in [Threads -> SUBSET Fields] /\ change_delta \in [Threads -> SUBSET Fields]
      /\ shadow_fields \in [Threads -> [Fields -> Values]]
      /\ read_field[t] \in Fields /\ readwrite_field[t] \in Fields
  BY DEF IInv, TouchedIsWatched, TransactionsInOrder, TypeOK
<1>1. \A v \in Threads : v # t => pc'[v] = pc[v] /\ write_delta'[v] = write_delta[v]
  BY <1>0, OthersAreKept
<1>2. CASE Get(t)
  <2>1. UNCHANGED <<fields, dirty, write_delta, change_delta>>
    BY <1>2 DEF Get, component
  <2>2. \A v \in Threads : (pc[v] \in Changing => pc'[v] = pc[v]) /\ pc'[t] \notin Cleaning
    BY <1>0, <1>1, <1>2 DEF Get, Goto, TypeOK, Changing, Cleaning
  <2>3. PICK g \in Fields : /\ shadow_fields' = [shadow_fields EXCEPT ![t][g] = fields[g]]
                            /\ read_delta' = [read_delta EXCEPT ![t] = @ \cup {g}]
    BY <1>0, <1>2 DEF Get
  <2>4. CASE f = g
    <3>1. shadow_fields'[t][f] = fields[f]
      BY <1>0, <2>3, <2>4
    <3> QED BY <2>1, <3>1 DEF ReadIsWatched
  <2>5. CASE f # g
    <3>1. f \in read_delta[t] \ write_delta[t] /\ shadow_fields'[t][f] = shadow_fields[t][f]
      BY <1>0, <2>1, <2>3, <2>5
    <3>2. pc[t] \in Running
      BY <1>0, <1>2, <3>1 DEF Get, Goto, InOrder, Unread, Running
    <3>3. ReadIsWatched(t, f)
      BY <3>1, <3>2 DEF IInv, TouchedIsWatched, ReadsAreWatched
    <3> QED BY <1>1, <2>1, <2>2, <3>1, <3>3 DEF ReadIsWatched, Cleaning
  <2> QED BY <2>4, <2>5
<1>3. CASE LoadDirty(t) \/ Check(t) \/ Set(t) \/ Write(t) \/ DirtyField(t) \/ Commit(t) \/ Notify(t)
  <2>0. /\ pc[t] \in {"load read_field", "check read_field", "load readwrite_field",
                      "check readwrite_field", "set", "write", "dirty_field", "commit", "notify",
                      "rollback notify"}
        /\ pc[t] = "rollback notify" => pc'[t] = "rollback clean"
    BY <1>0, <1>3 DEF LoadDirty, Check, Set, Write, DirtyField, Commit, Notify, Goto, TypeOK
  <2>1. pc[t] \in Running /\ read_delta' = read_delta
    BY <1>3, <2>0 DEF LoadDirty, Check, Set, Write, DirtyField, Commit, Notify, Running, deltas,
           view
  <2>2. write_delta[t] \subseteq write_delta'[t]
    <3>1. \/ write_delta' = write_delta
          \/ write_delta' = [write_delta EXCEPT ![t] = @ \cup {readwrite_field[t]}]
      BY <1>3 DEF LoadDirty, Check, Set, Write, DirtyField, Commit, Notify, deltas
    <3> QED BY <1>0, <3>1
  <2>3. f \in read_delta[t] \ write_delta[t] /\ f \in Fields
    BY <1>0, <2>1, <2>2
  <2>4. ReadIsWatched(t, f)
    BY <2>1, <2>3 DEF IInv, TouchedIsWatched, ReadsAreWatched
  <2>5. fields'[f] = fields[f]
    BY <1>0, <2>1, <2>3, WhatChanges DEF InOrder, Running, Written
  <2>6. shadow_fields'[t][f] = shadow_fields[t][f]
    <3>1. \/ shadow_fields' = shadow_fields
          \/ /\ pc[t] = "write"
             /\ shadow_fields' = [shadow_fields EXCEPT ![t][readwrite_field[t]] = r[t]]
      BY <1>3 DEF LoadDirty, Check, Set, Write, DirtyField, Commit, Notify, Goto, view
    <3>2. pc[t] = "write" => f # readwrite_field[t]
      BY <1>0, <2>3 DEF InOrder, Written
    <3>3. CASE shadow_fields' = shadow_fields
      BY <3>3
    <3>4. CASE pc[t] = "write" /\ shadow_fields' = [shadow_fields EXCEPT ![t][readwrite_field[t]] = r[t]]
      <4>1. shadow_fields'[t] = [shadow_fields[t] EXCEPT ![readwrite_field[t]] = r[t]]
        BY <1>0, <3>4
      <4> QED BY <1>0, <3>2, <3>4, <4>1
    <3> QED BY <3>1, <3>3, <3>4
  <2>7. change_delta[t] \subseteq change_delta'[t]
    <3>1. \/ change_delta' = change_delta
          \/ change_delta' = [v \in Threads |-> IF v \in active THEN change_delta[v] \cup write_delta[t]
                                                              ELSE change_delta[v]]
      BY <1>3 DEF LoadDirty, Check, Set, Write, DirtyField, Commit, Notify, deltas
    <3> QED BY <1>0, <3>1
  <2>8. f \in dirty => f \in dirty'
    BY <1>0, <2>3, WhatChanges
  <2> QED BY <1>1, <2>2, <2>3, <2>4, <2>5, <2>6, <2>7, <2>8 DEF ReadIsWatched
<1>4. CASE Begin(t) \/ Clean(t) \/ Rollback(t) \/ Restore(t) \/ RollbackClean(t) \/ End(t)
  <2>1. pc'[t] \in {"get read_field", "end", "restore", "rollback notify", "idle", "rollback"}
    BY <1>0, <1>4 DEF Begin, Clean, Rollback, Restore, RollbackClean, End, Goto, TypeOK
  <2> QED BY <2>1 DEF Running
<1> QED BY <1>2, <1>3, <1>4 DEF Step

-----------------------------------------------------------------------------
(* The writes.  A transaction about to commit got there by DirtyField, or    *)
(* has not moved.                                                            *)
LEMMA OwnWrites ==
  ASSUME IInv, NEW t \in Threads, Step(t), pc'[t] = "commit",
         NEW f \in write_delta'[t] \ change_delta'[t]
  PROVE  WriteIsWatched(t, f)'
<1>0. TypeOK /\ InOrder(t)
  BY DEF IInv, TouchedIsWatched, TransactionsInOrder
<1>1. DirtyField(t)
  BY <1>0 DEF Step, Begin, Get, LoadDirty, Check, Set, Write, DirtyField, Commit, Notify, Clean,
              Rollback, Restore, RollbackClean, End, Goto, TypeOK
<1>2. /\ pc[t] = "dirty_field" /\ UNCHANGED <<fields, r, write_delta, change_delta>>
      /\ dirty' = dirty \cup {readwrite_field[t]}
  BY <1>1 DEF DirtyField, Goto, choices, deltas
<1>3. f = readwrite_field[t] /\ fields[f] = r[t]
  BY <1>0, <1>2 DEF InOrder, Written
<1>4. ASSUME NEW u \in Threads \ {t}, f \in write_delta'[u]
      PROVE  pc'[u] = "commit" => f \in change_delta'[u]
  <2> SUFFICES ASSUME pc'[u] = "commit", f \notin change_delta[u] PROVE FALSE
    BY <1>2
  <2>1. pc[u] = "commit" /\ f \in write_delta[u] \ change_delta[u]
    BY <1>0, <1>2, <1>4, OthersAreKept
  <2>2. WriteIsWatched(u, f)
    BY <2>1 DEF IInv, TouchedIsWatched, WritesAreWatched
  <2> QED BY <1>2, <1>3, <2>2, <1>0 DEF WriteIsWatched, InOrder, Written
<1>5. ASSUME NEW u \in Threads \ {t}
      PROVE  pc'[u] \notin {"write", "dirty_field", "notify"} \cup Cleaning
  <2>1. pc'[u] = pc[u] /\ pc[u] \notin Locked
    BY <1>0, <1>2, OthersAreKept, OneInside DEF Locked
  <2> QED BY <2>1 DEF Locked, Cleaning
<1>6. f \in dirty' /\ fields'[f] = r'[t]
  BY <1>2, <1>3
<1> QED BY <1>4, <1>5, <1>6 DEF WriteIsWatched

LEMMA OthersWrites ==
  ASSUME IInv, NEW t \in Threads, Step(t), NEW u \in Threads, u # t, pc'[u] = "commit",
         NEW f \in write_delta'[u] \ change_delta'[u]
  PROVE  WriteIsWatched(u, f)'
<1>0. TypeOK /\ InOrder(t) /\ InOrder(u) /\ write_delta[u] \subseteq Fields
  BY DEF IInv, TouchedIsWatched, TransactionsInOrder, TypeOK
<1>1. /\ pc[u] = "commit" /\ f \in write_delta[u] \ change_delta[u] /\ f \in Fields
      /\ r'[u] = r[u] /\ u \in active
  BY <1>0, OthersAreKept DEF InOrder, Running
<1>2. WriteIsWatched(u, f)
  BY <1>1 DEF IInv, TouchedIsWatched, WritesAreWatched
<1>3. \A v \in Threads : v # t => /\ pc'[v] = pc[v] /\ write_delta'[v] = write_delta[v]
                                  /\ change_delta[v] \subseteq change_delta'[v]
  BY <1>0, OthersAreKept
<1>4. pc[t] \in {"notify", "rollback notify"} => f \notin write_delta[t]
  BY <1>0, <1>1, WhatChanges
<1>5. \/ f \in dirty' /\ fields'[f] = r'[u]
      \/ \E v \in Threads \ {u} : pc'[v] \in {"restore", "rollback notify"} /\ f \in write_delta'[v]
  <2>1. CASE f \in dirty /\ fields[f] = r[u]
    <3>1. CASE pc[t] = "restore" /\ f \in write_delta[t]
      <4>1. Restore(t)
        BY <3>1 DEF Step, Begin, Get, LoadDirty, Check, Set, Write, DirtyField, Commit, Notify,
               Clean,
                    Rollback, Restore, RollbackClean, End, Goto
      <4>2. pc'[t] = "rollback notify" /\ write_delta'[t] = write_delta[t]
        BY <1>0, <4>1, GotoMoves DEF Restore, deltas
      <4> QED BY <3>1, <4>2
    <3>2. CASE ~(pc[t] = "restore" /\ f \in write_delta[t])
      <4>1. ~(pc[t] = "write" /\ f = readwrite_field[t])
        BY <1>0, <1>2 DEF WriteIsWatched, InOrder, Written
      <4>2. ~(pc[t] \in Cleaning /\ f \in write_delta[t])
        BY <1>2 DEF WriteIsWatched
      <4> QED BY <1>0, <1>1, <2>1, <3>2, <4>1, <4>2, WhatChanges
    <3> QED BY <3>1, <3>2
  <2>2. ASSUME NEW v \in Threads \ {u}, pc[v] \in {"restore", "rollback notify"}, f \in write_delta[v]
        PROVE  \E w \in Threads \ {u} :
                 pc'[w] \in {"restore", "rollback notify"} /\ f \in write_delta'[w]
    <3>1. CASE v # t
      BY <1>3, <2>2, <3>1
    <3>2. CASE v = t
      <4>1. Restore(t)
        BY <1>4, <2>2, <3>2 DEF Step, Begin, Get, LoadDirty, Check, Set, Write, DirtyField,
               Commit,
                    Notify, Clean, Rollback, Restore, RollbackClean, End, Goto
      <4>2. pc'[t] = "rollback notify" /\ write_delta'[t] = write_delta[t]
        BY <1>0, <4>1, GotoMoves DEF Restore, deltas
      <4> QED BY <2>2, <3>2, <4>2
    <3> QED BY <3>1, <3>2
  <2> QED BY <1>2, <2>1, <2>2 DEF WriteIsWatched
<1>6. ASSUME NEW v \in Threads \ {u}, f \in write_delta'[v]
      PROVE  /\ pc'[v] = "commit" => f \in change_delta'[v]
             /\ pc'[v] \notin {"write", "dirty_field", "notify"} \cup Cleaning
  <2>1. CASE v # t
    BY <1>2, <1>3, <1>6, <2>1 DEF WriteIsWatched
  <2>2. CASE v = t
    <3> USE <2>2, <1>6
    <3>1. pc'[t] \notin Cleaning
      BY <1>4, CleansWhatWasTold
    <3>2. CASE pc'[t] = "write"
      <4>1. /\ Set(t) /\ dirty_lock = NoThread /\ ~Conflicts(t, dirty, {readwrite_field[t]})
            /\ write_delta' = [write_delta EXCEPT ![t] = @ \cup {readwrite_field[t]}] /\ pc[t] = "set"
        BY <1>0, <3>2 DEF Step, Begin, Get, LoadDirty, Check, Set, Write, DirtyField, Commit,
               Notify,
                    Clean, Rollback, Restore, RollbackClean, End, Goto, TypeOK, Lock
      <4>2. f = readwrite_field[t] /\ write_delta[t] = {}
        BY <1>0, <4>1 DEF InOrder, Unwritten, TypeOK
      <4>3. f \notin dirty
        BY <4>1, <4>2 DEF Conflicts
      <4> QED BY <1>0, <1>2, <4>1, <4>3, NobodyInside DEF WriteIsWatched, Locked
    <3>3. CASE pc'[t] = "dirty_field"
      <4>1. pc[t] = "write" /\ write_delta'[t] = write_delta[t]
        BY <1>0, <3>3 DEF Step, Begin, Get, LoadDirty, Check, Set, Write, DirtyField, Commit,
               Notify,
                    Clean, Rollback, Restore, RollbackClean, End, Goto, TypeOK, deltas
      <4> QED BY <1>2, <4>1 DEF WriteIsWatched
    <3>4. CASE pc'[t] = "notify"
      <4>1. pc[t] = "commit" /\ write_delta'[t] = write_delta[t] /\ ~Conflicts(t, dirty, {})
        BY <1>0, <3>4 DEF Step, Begin, Get, LoadDirty, Check, Set, Write, DirtyField, Commit,
               Notify,
                    Clean, Rollback, Restore, RollbackClean, End, Goto, TypeOK, deltas
      <4>2. f \in change_delta[t]
        BY <1>2, <4>1 DEF WriteIsWatched
      <4> QED BY <4>1, <4>2 DEF Conflicts
    <3>5. CASE pc'[t] = "commit"
      <4>1. pc[t] = "dirty_field" /\ write_delta'[t] = write_delta[t]
        BY <1>0, <3>5 DEF Step, Begin, Get, LoadDirty, Check, Set, Write, DirtyField, Commit,
               Notify,
                    Clean, Rollback, Restore, RollbackClean, End, Goto, TypeOK, deltas
      <4> QED BY <1>2, <4>1 DEF WriteIsWatched
    <3> QED BY <3>1, <3>2, <3>3, <3>4, <3>5
  <2> QED BY <2>1, <2>2
<1> QED BY <1>5, <1>6 DEF WriteIsWatched

LEMMA StepConsistent ==
  ASSUME IInv, NEW t \in Threads, Step(t)
  PROVE  NeverInconsistent'
<1>1. CASE Commit(t)
  <2>1. pc[t] = "commit" /\ dirty_lock = NoThread
    BY <1>1 DEF Commit, Goto
  <2>2. CASE Conflicts(t, dirty, {})
    BY <1>1, <2>2 DEF Commit, IInv, NeverInconsistent
  <2>3. CASE ~Conflicts(t, dirty, {})
    BY <1>1, <2>1, <2>3, CommitIsConsistent DEF Commit, IInv, NeverInconsistent
  <2> QED BY <2>2, <2>3
<1>2. CASE ~Commit(t)
  BY <1>2 DEF Step, Begin, Get, LoadDirty, Check, Set, Write, DirtyField, Notify, Clean,
              Rollback, Restore, RollbackClean, End, component, IInv, NeverInconsistent
<1> QED BY <1>1, <1>2

-----------------------------------------------------------------------------
(* Every reachable state satisfies the inductive invariant.                  *)
THEOREM Invariance == Spec => []IInv
<1>1. IInv /\ [Next]_vars => IInv'
  <2> SUFFICES ASSUME IInv, [Next]_vars PROVE IInv'
    OBVIOUS
  <2>1. ASSUME NEW t \in Threads, Step(t) PROVE IInv'
    <3>1. TypeOK' /\ TransactionsInOrder' /\ NeverInconsistent'
      BY <2>1, StepTypeOK, StepInOrder, StepConsistent DEF IInv, TouchedIsWatched
    <3>2. ReadsAreWatched'
      BY <2>1, OwnReads, OthersReads DEF ReadsAreWatched
    <3>3. WritesAreWatched'
      BY <2>1, OwnWrites, OthersWrites DEF WritesAreWatched
    <3> QED BY <3>1, <3>2, <3>3 DEF IInv, TouchedIsWatched
  <2>2. CASE UNCHANGED vars
    <3> USE <2>2 DEF vars, component, choices, deltas, view, IInv, TouchedIsWatched
    <3>1. TypeOK' /\ NeverInconsistent'
      BY DEF TypeOK, NeverInconsistent
    <3>2. TransactionsInOrder'
      BY DEF TransactionsInOrder, InOrder
    <3>3. ReadsAreWatched'
      BY DEF ReadsAreWatched, ReadIsWatched
    <3>4. WritesAreWatched'
      BY DEF WritesAreWatched, WriteIsWatched
    <3> QED BY <3>1, <3>2, <3>3, <3>4
  <2> QED BY <2>1, <2>2 DEF Next
<1> QED BY <1>1, InitInv, PTL DEF Spec

(* The tests of the repository run until a transaction that passes its       *)
(* checks finds a field it has read or written changed: with no number of    *)
(* threads, fields or values does that happen.                               *)
THEOREM NoTransactionIsInconsistent == Spec => []NeverInconsistent
<1>1. IInv => NeverInconsistent
  BY DEF IInv
<1> QED BY <1>1, Invariance, PTL

(* Why: check(), which reads without a lock, set and commit watch every      *)
(* field a running transaction has touched, until a change of it has been    *)
(* announced to the transaction.                                             *)
THEOREM EveryTouchIsWatched == Spec => []TouchedIsWatched
<1>1. IInv => TouchedIsWatched
  BY DEF IInv
<1> QED BY <1>1, Invariance, PTL

HIDE MemoryAssumption

-----------------------------------------------------------------------------
(* The state machine: behind the active state everyone has been asked, and    *)
(* the buffer has what follows it.                                            *)
Follows(from, event) ==
  IF Transitions[from][event] = MachineStates THEN from ELSE Transitions[from][event]
MachineTypeOK ==
  /\ sm_curr_active \in 0..MachineStates /\ sm_event \in MachineEvents
  /\ sm_next_active \in 0..MachineStates /\ sm_i \in 0..MachineStates
  /\ sm_at \in {"new", "idle", "reacting", "gone"}
BufferHasTheActive ==
  /\ sm_twice = FALSE
  /\ sm_at \in {"idle", "reacting"} => sm_curr_active < MachineStates
  /\ sm_at = "new" => sm_buffer = {} /\ sm_from = MachineStates
  /\ sm_at = "idle" =>
       /\ sm_buffer = {sm_curr_active} /\ sm_next_active = sm_curr_active
       /\ sm_from # MachineStates => sm_curr_active = Follows(sm_from, sm_event)
  /\ sm_at = "reacting" =>
       /\ sm_from = sm_curr_active /\ sm_buffer = {sm_next_active}
       /\ sm_next_active = IF sm_i <= sm_curr_active THEN sm_curr_active
                           ELSE Follows(sm_curr_active, sm_event)
  /\ sm_at = "gone" => sm_buffer = {}
MachineInv == MachineTypeOK /\ (sm_thrown \/ BufferHasTheActive)

LEMMA MachineIsSingular == MachineInv => Machine!OneStateAtATime
  BY DEF MachineInv, BufferHasTheActive, Follows, Machine!OneStateAtATime, Machine!Null

LEMMA FollowsIsState ==
  ASSUME NEW s \in 0..MachineStates, s < MachineStates, NEW e \in MachineEvents
  PROVE  /\ Transitions[s][e] \in 0..MachineStates
         /\ Follows(s, e) \in 0..MachineStates /\ Follows(s, e) < MachineStates
<1>1. /\ MachineStates \in Nat \ {0}
      /\ Transitions \in [0..MachineStates - 1 -> [MachineEvents -> 0..MachineStates]]
  BY StorageAssumption, Zenon DEF StorageAssumption
<1>2. Transitions[s] \in [MachineEvents -> 0..MachineStates]
  BY <1>1
<1>3. Transitions[s][e] \in 0..MachineStates
  BY <1>2
<1> QED BY <1>1, <1>3 DEF Follows

LEMMA MachineStarts == Machine!Init => MachineInv
<1>1. MachineStates \in Nat \ {0}
  BY StorageAssumption, Zenon DEF StorageAssumption
<1> QED BY <1>1 DEF Machine!Init, Machine!Null, MachineInv, MachineTypeOK, BufferHasTheActive

LEMMA MachineSteps == MachineInv /\ [Machine!Next]_Machine!vars => MachineInv'
<1> SUFFICES ASSUME MachineInv, [Machine!Next]_Machine!vars PROVE MachineInv'
  OBVIOUS
<1>0. MachineStates \in Nat \ {0}
  BY StorageAssumption, Zenon DEF StorageAssumption
<1>1. CASE UNCHANGED Machine!vars
  BY <1>1 DEF Machine!vars, MachineInv, MachineTypeOK, BufferHasTheActive
<1>2. CASE Machine!Construct
  BY <1>0, <1>2 DEF Machine!Construct, Machine!Activate, MachineInv, MachineTypeOK,
       BufferHasTheActive
<1>3. ASSUME NEW e \in MachineEvents, Machine!React(e) PROVE MachineInv'
  BY <1>0, <1>3 DEF Machine!React, MachineInv, MachineTypeOK, BufferHasTheActive
<1>4. CASE Machine!ReactOf
  <2> DEFINE T == Transitions[sm_i][sm_event]
  <2>1. /\ sm_at = "reacting" /\ sm_i < MachineStates
        /\ UNCHANGED <<sm_curr_active, sm_event, sm_from>>
        /\ \/ /\ T # MachineStates /\ sm_curr_active = sm_i
              /\ sm_twice' = (sm_twice \/ sm_i \notin sm_buffer)
              /\ \/ /\ sm_buffer' = (sm_buffer \ {sm_i}) \cup {T} /\ sm_next_active' = T
                    /\ sm_i' = sm_i + 1 /\ UNCHANGED <<sm_at, sm_thrown>>
                 \/ sm_at' = "idle" /\ sm_thrown' = TRUE /\ UNCHANGED <<sm_next_active, sm_i>>
           \/ /\ T = MachineStates \/ sm_curr_active # sm_i
              /\ sm_i' = sm_i + 1
              /\ UNCHANGED <<sm_buffer, sm_next_active, sm_twice, sm_thrown, sm_at>>
    BY <1>4, Zenon DEF Machine!ReactOf, Machine!ReactOne, Machine!Null
  <2>2. T \in 0..MachineStates
    BY <2>1, FollowsIsState DEF MachineInv, MachineTypeOK
  <2>3. MachineTypeOK'
    BY <1>0, <2>1, <2>2 DEF MachineInv, MachineTypeOK
  <2>4. ASSUME ~sm_thrown, ~sm_thrown' PROVE BufferHasTheActive'
    <3>1. BufferHasTheActive
      BY <2>4, Zenon DEF MachineInv
    <3>2. CASE sm_curr_active = sm_i /\ T # MachineStates
      <4>1. sm_buffer = {sm_i} /\ Follows(sm_curr_active, sm_event) = T
        BY <1>0, <2>1, <3>1, <3>2 DEF BufferHasTheActive, MachineInv, MachineTypeOK, Follows
      <4>2. sm_buffer' = {T} /\ sm_next_active' = T /\ sm_i' = sm_i + 1 /\ sm_at' = "reacting"
            /\ sm_twice' = FALSE
        BY <2>1, <2>4, <3>1, <3>2, <4>1 DEF BufferHasTheActive
      <4> HIDE DEF T
      <4> QED BY <1>0, <2>1, <3>1, <3>2, <4>1, <4>2
              DEF BufferHasTheActive, MachineInv, MachineTypeOK
    <3>3. CASE T = MachineStates \/ sm_curr_active # sm_i
      <4>1. /\ sm_i' = sm_i + 1 /\ sm_at' = "reacting"
            /\ UNCHANGED <<sm_buffer, sm_next_active, sm_twice>>
        BY <2>1, <3>3
      <4>2. sm_i = sm_curr_active => Follows(sm_curr_active, sm_event) = sm_curr_active
        BY <3>3 DEF Follows
      <4> HIDE DEF T
      <4> QED BY <1>0, <2>1, <3>1, <4>1, <4>2 DEF BufferHasTheActive, MachineInv, MachineTypeOK
    <3> QED BY <3>2, <3>3
  <2>5. sm_thrown => sm_thrown'
    BY <2>1
  <2> QED BY <2>3, <2>4, <2>5, Zenon DEF MachineInv
<1>5. CASE Machine!Commit
  BY <1>0, <1>5 DEF Machine!Commit, MachineInv, MachineTypeOK, BufferHasTheActive, Follows
<1>6. CASE Machine!Terminate
  BY <1>0, <1>6 DEF Machine!Terminate, MachineInv, MachineTypeOK, BufferHasTheActive
<1> QED BY <1>1, <1>2, <1>3, <1>4, <1>5, <1>6 DEF Machine!Next

(* Between events the buffer has the object of the active state, and no event *)
(* makes more than the one step that is declared: OneStateAtATime of the      *)
(* machine, for any states, events and transitions.                           *)
THEOREM OneStateIsActive == Machine!Spec => []Machine!OneStateAtATime
<1>1. Machine!Spec => []MachineInv
  BY MachineStarts, MachineSteps, PTL DEF Machine!Spec
<1> QED BY <1>1, MachineIsSingular, PTL

-----------------------------------------------------------------------------
(* Counted pointers, as long as nobody calls release(): the count of a block  *)
(* is the number of pointers that hold it, and it is there while there is one.*)
Holders(held, ctrl, o) == {p \in held : ctrl[p] = o}
Places == PointedObjects \cup {0}
CountedTypeOK(ptr, ctrl, held, there, deleted, count) ==
  /\ ptr \in [PointerNames -> Places] /\ ctrl \in [PointerNames -> Places]
  /\ held \subseteq PointerNames /\ there \subseteq PointedObjects
       /\ deleted \subseteq PointedObjects
  /\ count \in [PointedObjects -> Int]
HeldAreThere(ptr, ctrl, held, there, deleted) ==
  /\ there \cap deleted = {}
  /\ \A p \in held : ptr[p] = ctrl[p] /\ ctrl[p] \in there
HoldersCount(ctrl, held, there, deleted, count) ==
  /\ \A o \in there : Holders(held, ctrl, o) # {}
  /\ \A o \in there \cup deleted : count[o] = Cardinality(Holders(held, ctrl, o))
Counted(ptr, ctrl, held, there, deleted, count) ==
  /\ CountedTypeOK(ptr, ctrl, held, there, deleted, count)
  /\ HeldAreThere(ptr, ctrl, held, there, deleted)
  /\ HoldersCount(ctrl, held, there, deleted, count)
CountedInv ==
  (sp_at = "running" /\ ~sp_released) =>
     Counted(sp_ptr_, sp_ctrl_, sp_held, sp_there, sp_deleted, sp_count)

LEMMA PointerCounts == \A S : Pointer!Cardinality(S) = Cardinality(S)
  BY DEF Pointer!Cardinality, Cardinality

LEMMA CountedDelete == CountedInv => Pointer!DeletedWithTheLast
<1> SUFFICES ASSUME CountedInv, sp_at = "running", ~sp_released,
                    NEW o \in sp_there \cup sp_deleted
             PROVE  /\ sp_count[o] = Cardinality(Holders(sp_held, sp_ctrl_, o))
                    /\ o \in sp_deleted <=> \A p \in sp_held : sp_ptr_[p] # o
  BY PointerCounts, Zenon DEF Pointer!DeletedWithTheLast, Pointer!Runs, Holders
<1>1. /\ HeldAreThere(sp_ptr_, sp_ctrl_, sp_held, sp_there, sp_deleted)
      /\ HoldersCount(sp_ctrl_, sp_held, sp_there, sp_deleted, sp_count)
  BY Zenon DEF CountedInv, Counted
<1>2. sp_count[o] = Cardinality(Holders(sp_held, sp_ctrl_, o))
  BY <1>1, Zenon DEF HoldersCount
<1>3. CASE o \in sp_there
  <2>1. Holders(sp_held, sp_ctrl_, o) # {}
    BY <1>1, <1>3, Zenon DEF HoldersCount
  <2>2. PICK p \in sp_held : sp_ctrl_[p] = o
    BY <2>1 DEF Holders
  <2>3. sp_ptr_[p] = o /\ o \notin sp_deleted
    BY <1>1, <1>3, <2>2 DEF HeldAreThere
  <2> QED BY <1>2, <2>3, Zenon
<1>4. CASE o \in sp_deleted
  BY <1>1, <1>2, <1>4, Zenon DEF HeldAreThere
<1> QED BY <1>3, <1>4

LEMMA HoldersFinite ==
  ASSUME NEW held \in SUBSET PointerNames, NEW ctrl, NEW o
  PROVE  /\ IsFiniteSet(Holders(held, ctrl, o)) /\ Cardinality(Holders(held, ctrl, o)) \in Nat
         /\ Cardinality(Holders(held, ctrl, o)) = 0 <=> Holders(held, ctrl, o) = {}
<1>1. IsFiniteSet(PointerNames)
  BY StorageAssumption, Zenon DEF StorageAssumption
<1>2. Holders(held, ctrl, o) \subseteq PointerNames
  BY DEF Holders
<1>3. IsFiniteSet(Holders(held, ctrl, o))
  BY <1>1, <1>2, FS_Subset
<1> QED BY <1>3, FS_CardinalityType, FS_EmptySet

(* One holder more, or one less. *)
LEMMA HolderAdded ==
  ASSUME NEW S, IsFiniteSet(S), NEW p, p \notin S
  PROVE  Cardinality(S \cup {p}) = Cardinality(S) + 1 /\ S \cup {p} # {}
  BY FS_AddElement
LEMMA HolderRemoved ==
  ASSUME NEW S, IsFiniteSet(S), NEW p \in S
  PROVE  /\ Cardinality(S \ {p}) = Cardinality(S) - 1
         /\ Cardinality(S) = 1 <=> S \ {p} = {}
<1>1. IsFiniteSet(S \ {p}) /\ Cardinality(S \ {p}) = Cardinality(S) - 1
      /\ Cardinality(S) \in Nat
  BY FS_RemoveElement, FS_CardinalityType
<1> QED BY <1>1, FS_EmptySet

LEMMA CountedStarts == Pointer!Init => CountedInv
<1> SUFFICES ASSUME Pointer!Init
             PROVE  Counted(sp_ptr_, sp_ctrl_, sp_held, sp_there, sp_deleted, sp_count)
  BY Zenon DEF CountedInv
<1> QED BY DEF Pointer!Init, Pointer!None, Counted, CountedTypeOK, HeldAreThere, HoldersCount,
         Places

LEMMA Constructed ==
  ASSUME CountedInv, NEW p \in PointerNames, NEW o \in PointedObjects, Pointer!Construct(p, o)
  PROVE  CountedInv'
<1> SUFFICES ASSUME ~sp_released'
             PROVE  Counted(sp_ptr_, sp_ctrl_, sp_held, sp_there, sp_deleted, sp_count)'
  BY Zenon DEF CountedInv
<1>1. /\ sp_at = "running" /\ p \notin sp_held /\ o \notin sp_there \cup sp_deleted
      /\ sp_held' = sp_held \cup {p} /\ sp_there' = sp_there \cup {o}
      /\ sp_ptr_' = [sp_ptr_ EXCEPT ![p] = o] /\ sp_ctrl_' = [sp_ctrl_ EXCEPT ![p] = o]
      /\ sp_count' = [sp_count EXCEPT ![o] = 1] /\ sp_deleted' = sp_deleted
      /\ ~sp_released
  BY Zenon DEF Pointer!Construct, Pointer!Runs
<1>2. /\ CountedTypeOK(sp_ptr_, sp_ctrl_, sp_held, sp_there, sp_deleted, sp_count)
      /\ HeldAreThere(sp_ptr_, sp_ctrl_, sp_held, sp_there, sp_deleted)
      /\ HoldersCount(sp_ctrl_, sp_held, sp_there, sp_deleted, sp_count)
  BY <1>1, Zenon DEF CountedInv, Counted
<1>3. CountedTypeOK(sp_ptr_, sp_ctrl_, sp_held, sp_there, sp_deleted, sp_count)'
  BY <1>1, <1>2 DEF CountedTypeOK, Places
<1>4. HeldAreThere(sp_ptr_, sp_ctrl_, sp_held, sp_there, sp_deleted)'
  BY <1>1, <1>2 DEF HeldAreThere, CountedTypeOK
<1>5. Holders(sp_held', sp_ctrl_', o) = {p}
  BY <1>1, <1>2 DEF Holders, HeldAreThere, CountedTypeOK
<1>6. \A q \in sp_there \cup sp_deleted :
        Holders(sp_held', sp_ctrl_', q) = Holders(sp_held, sp_ctrl_, q)
  BY <1>1, <1>2 DEF Holders, HeldAreThere, CountedTypeOK
<1>7. Cardinality({p}) = 1
  BY FS_Singleton
<1>8. HoldersCount(sp_ctrl_, sp_held, sp_there, sp_deleted, sp_count)'
  BY <1>1, <1>2, <1>5, <1>6, <1>7 DEF HoldersCount, CountedTypeOK
<1> QED BY <1>3, <1>4, <1>8, Zenon DEF Counted

LEMMA Copied ==
  ASSUME CountedInv, NEW p \in PointerNames, NEW that \in PointerNames, Pointer!Copy(p, that)
  PROVE  CountedInv'
<1> SUFFICES ASSUME sp_at' = "running", ~sp_released'
             PROVE  Counted(sp_ptr_, sp_ctrl_, sp_held, sp_there, sp_deleted, sp_count)'
  BY Zenon DEF CountedInv
<1> DEFINE c == sp_ctrl_[that]
<1>1. /\ sp_at = "running" /\ p \notin sp_held /\ that \in sp_held /\ ~sp_released
      /\ sp_held' = sp_held \cup {p}
      /\ sp_ptr_' = [sp_ptr_ EXCEPT ![p] = sp_ptr_[that]]
      /\ sp_ctrl_' = [sp_ctrl_ EXCEPT ![p] = c]
      /\ sp_count' = [sp_count EXCEPT ![c] = @ + 1]
      /\ sp_there' = sp_there /\ sp_deleted' = sp_deleted
  <2>1. "undefined" # "running"
    OBVIOUS
  <2> QED BY <2>1, Zenon DEF Pointer!Copy, Pointer!Runs, Pointer!Stops
<1>2. /\ CountedTypeOK(sp_ptr_, sp_ctrl_, sp_held, sp_there, sp_deleted, sp_count)
      /\ HeldAreThere(sp_ptr_, sp_ctrl_, sp_held, sp_there, sp_deleted)
      /\ HoldersCount(sp_ctrl_, sp_held, sp_there, sp_deleted, sp_count)
  BY <1>1, Zenon DEF CountedInv, Counted
<1>3. CountedTypeOK(sp_ptr_, sp_ctrl_, sp_held, sp_there, sp_deleted, sp_count)'
  <2>1. c \in Places /\ sp_ptr_[that] \in Places /\ c \in PointedObjects
    BY <1>1, <1>2 DEF CountedTypeOK, HeldAreThere
  <2> QED BY <1>1, <1>2, <2>1 DEF CountedTypeOK
<1>4. HeldAreThere(sp_ptr_, sp_ctrl_, sp_held, sp_there, sp_deleted)'
  BY <1>1, <1>2 DEF HeldAreThere, CountedTypeOK
<1>5. /\ Holders(sp_held', sp_ctrl_', c) = Holders(sp_held, sp_ctrl_, c) \cup {p}
      /\ p \notin Holders(sp_held, sp_ctrl_, c) /\ c \in sp_there /\ c \in PointedObjects
  BY <1>1, <1>2 DEF Holders, HeldAreThere, CountedTypeOK
<1>6. \A q \in PointedObjects \ {c} :
        Holders(sp_held', sp_ctrl_', q) = Holders(sp_held, sp_ctrl_, q)
  BY <1>1, <1>2 DEF Holders, CountedTypeOK
<1>7. /\ Cardinality(Holders(sp_held', sp_ctrl_', c)) =
           Cardinality(Holders(sp_held, sp_ctrl_, c)) + 1
      /\ Holders(sp_held', sp_ctrl_', c) # {}
  BY <1>2, <1>5, HoldersFinite, HolderAdded DEF CountedTypeOK
<1> HIDE DEF c
<1>8. HoldersCount(sp_ctrl_, sp_held, sp_there, sp_deleted, sp_count)'
  BY <1>1, <1>2, <1>5, <1>6, <1>7 DEF HoldersCount, CountedTypeOK
<1> QED BY <1>3, <1>4, <1>8, Zenon DEF Counted

(* A pointer lets go of its block, without being destroyed or with it.        *)
LEMMA LetGoOf ==
  ASSUME NEW ptr, NEW ctrl, NEW held, NEW there, NEW deleted, NEW count,
         Counted(ptr, ctrl, held, there, deleted, count), NEW p \in held
  PROVE  /\ ctrl[p] \in there /\ ptr[p] = ctrl[p] /\ ctrl[p] # 0
         /\ count[ctrl[p]] = 1 <=> Holders(held, ctrl, ctrl[p]) = {p}
         /\ Cardinality(Holders(held, ctrl, ctrl[p]) \ {p}) = count[ctrl[p]] - 1
         /\ p \in Holders(held, ctrl, ctrl[p])
<1> DEFINE c == ctrl[p]
           S == Holders(held, ctrl, c)
<1>1. /\ CountedTypeOK(ptr, ctrl, held, there, deleted, count)
      /\ HeldAreThere(ptr, ctrl, held, there, deleted)
      /\ HoldersCount(ctrl, held, there, deleted, count)
  BY Zenon DEF Counted
<1>2. c \in there /\ ptr[p] = c /\ p \in S /\ c \in PointedObjects
  BY <1>1 DEF HeldAreThere, Holders, CountedTypeOK
<1>3. c # 0
  BY <1>2, StorageAssumption DEF StorageAssumption
<1>4. count[c] = Cardinality(S)
  BY <1>1, <1>2, Zenon DEF HoldersCount
<1>5. IsFiniteSet(S)
  BY <1>1, HoldersFinite DEF CountedTypeOK
<1>6. /\ Cardinality(S \ {p}) = Cardinality(S) - 1
      /\ Cardinality(S) = 1 <=> S \ {p} = {}
  <2> HIDE DEF S
  <2> QED BY <1>2, <1>5, HolderRemoved
<1>7. S \ {p} = {} <=> S = {p}
  BY <1>2
<1>8. /\ count[c] = 1 <=> S = {p}
      /\ Cardinality(S \ {p}) = count[c] - 1
  <2> HIDE DEF c, S
  <2> QED BY <1>4, <1>6, <1>7
<1> HIDE DEF c, S
<1>9. c = ctrl[p] /\ S = Holders(held, ctrl, ctrl[p])
  BY DEF c, S
<1> QED BY <1>2, <1>3, <1>8, <1>9

LEMMA Destroyed ==
  ASSUME CountedInv, NEW p \in PointerNames, Pointer!Destroy(p)
  PROVE  CountedInv'
<1> SUFFICES ASSUME sp_at' = "running", ~sp_released'
             PROVE  Counted(sp_ptr_, sp_ctrl_, sp_held, sp_there, sp_deleted, sp_count)'
  BY Zenon DEF CountedInv
<1> DEFINE c == sp_ctrl_[p]
           S == Holders(sp_held, sp_ctrl_, c)
<1>1. /\ sp_at = "running" /\ p \in sp_held /\ ~sp_released /\ sp_held' = sp_held \ {p}
  BY Zenon DEF Pointer!Destroy, Pointer!Runs
<1>2. Counted(sp_ptr_, sp_ctrl_, sp_held, sp_there, sp_deleted, sp_count)
  BY <1>1, Zenon DEF CountedInv
<1>3. /\ c \in sp_there /\ sp_ptr_[p] = c /\ c # 0
      /\ sp_count[c] = 1 <=> S = {p}
      /\ Cardinality(S \ {p}) = sp_count[c] - 1 /\ p \in S
  BY <1>1, <1>2, LetGoOf, Zenon
<1>4. Pointer!Released(p)
  <2>1. "undefined" # "running"
    OBVIOUS
  <2> QED BY <1>3, <2>1, Zenon DEF Pointer!Destroy, Pointer!None
<1>5. /\ CountedTypeOK(sp_ptr_, sp_ctrl_, sp_held, sp_there, sp_deleted, sp_count)
      /\ HeldAreThere(sp_ptr_, sp_ctrl_, sp_held, sp_there, sp_deleted)
      /\ HoldersCount(sp_ctrl_, sp_held, sp_there, sp_deleted, sp_count)
  BY <1>2, Zenon DEF Counted
<1>6. CASE sp_count[c] = 1
  <2>1. /\ sp_there' = sp_there \ {c} /\ sp_deleted' = sp_deleted \cup {c}
        /\ sp_count' = [sp_count EXCEPT ![c] = 0]
        /\ sp_ctrl_' = [sp_ctrl_ EXCEPT ![p] = 0] /\ sp_ptr_' = [sp_ptr_ EXCEPT ![p] = 0]
    BY <1>3, <1>4, <1>6, Zenon DEF Pointer!Released, Pointer!LastOf, Pointer!None
  <2>2. CountedTypeOK(sp_ptr_, sp_ctrl_, sp_held, sp_there, sp_deleted, sp_count)'
    BY <1>1, <1>3, <1>5, <2>1 DEF CountedTypeOK, Places
  <2>3. S = {p}
    BY <1>3, <1>6
  <2>4. \A q \in sp_held : q # p => sp_ctrl_[q] # c
    BY <2>3 DEF Holders
  <2>5. HeldAreThere(sp_ptr_, sp_ctrl_, sp_held, sp_there, sp_deleted)'
    BY <1>1, <1>3, <1>5, <2>1, <2>4 DEF HeldAreThere, CountedTypeOK
  <2>6. Holders(sp_held', sp_ctrl_', c) = {}
    BY <1>1, <1>5, <2>1, <2>4 DEF Holders, CountedTypeOK
  <2>7. \A q \in PointedObjects \ {c} :
          Holders(sp_held', sp_ctrl_', q) = Holders(sp_held, sp_ctrl_, q)
    BY <1>1, <1>5, <2>1 DEF Holders, CountedTypeOK
  <2>8. Cardinality({}) = 0
    BY FS_EmptySet
  <2> HIDE DEF c, S
  <2>9. HoldersCount(sp_ctrl_, sp_held, sp_there, sp_deleted, sp_count)'
    BY <1>3, <1>5, <2>1, <2>6, <2>7, <2>8 DEF HoldersCount, CountedTypeOK
  <2> QED BY <2>2, <2>5, <2>9, Zenon DEF Counted
<1>7. CASE sp_count[c] # 1
  <2>1. /\ sp_count' = [sp_count EXCEPT ![c] = @ - 1]
        /\ UNCHANGED <<sp_there, sp_deleted, sp_ctrl_, sp_ptr_>>
    BY <1>4, <1>7, Zenon DEF Pointer!Released, Pointer!LastOf
  <2>2. CountedTypeOK(sp_ptr_, sp_ctrl_, sp_held, sp_there, sp_deleted, sp_count)'
    BY <1>1, <1>3, <1>5, <2>1 DEF CountedTypeOK, Places
  <2>3. S \ {p} # {}
    BY <1>3, <1>7
  <2>5. HeldAreThere(sp_ptr_, sp_ctrl_, sp_held, sp_there, sp_deleted)'
    BY <1>1, <1>5, <2>1 DEF HeldAreThere, CountedTypeOK
  <2>6. Holders(sp_held', sp_ctrl_', c) = S \ {p}
    BY <1>1, <1>5, <2>1 DEF Holders, CountedTypeOK
  <2>7. \A q \in PointedObjects \ {c} :
          Holders(sp_held', sp_ctrl_', q) = Holders(sp_held, sp_ctrl_, q)
    BY <1>1, <1>5, <2>1 DEF Holders, CountedTypeOK
  <2> HIDE DEF c, S
  <2>9. HoldersCount(sp_ctrl_, sp_held, sp_there, sp_deleted, sp_count)'
    BY <1>3, <1>5, <2>1, <2>3, <2>6, <2>7 DEF HoldersCount, CountedTypeOK
  <2> QED BY <2>2, <2>5, <2>9, Zenon DEF Counted
<1> QED BY <1>6, <1>7

(* An assignment to what shares the block changes nothing; any other lets go  *)
(* of one block and holds the other.                                         *)
LEMMA AssignedShared ==
  ASSUME CountedInv, NEW p \in PointerNames, NEW that \in PointerNames, ~sp_released,
         sp_at = "running", p \in sp_held, that \in sp_held, sp_ctrl_[p] = sp_ctrl_[that],
         Pointer!Assign(p, that)
  PROVE  CountedInv'
<1> DEFINE o == sp_ctrl_[that]
           S == Holders(sp_held, sp_ctrl_, o)
<1> SUFFICES ASSUME sp_at' = "running", ~sp_released'
             PROVE  Counted(sp_ptr_, sp_ctrl_, sp_held, sp_there, sp_deleted, sp_count)'
  BY Zenon DEF CountedInv
<1>2. Counted(sp_ptr_, sp_ctrl_, sp_held, sp_there, sp_deleted, sp_count)
  BY Zenon DEF CountedInv
<1>3. /\ CountedTypeOK(sp_ptr_, sp_ctrl_, sp_held, sp_there, sp_deleted, sp_count)
      /\ HeldAreThere(sp_ptr_, sp_ctrl_, sp_held, sp_there, sp_deleted)
      /\ HoldersCount(sp_ctrl_, sp_held, sp_there, sp_deleted, sp_count)
  BY <1>2, Zenon DEF Counted
<1>0. ASSUME NEW q \in sp_held
      PROVE  /\ sp_ctrl_[q] \in sp_there /\ sp_ptr_[q] = sp_ctrl_[q] /\ sp_ctrl_[q] # 0
             /\ sp_count[sp_ctrl_[q]] = 1 <=> Holders(sp_held, sp_ctrl_, sp_ctrl_[q]) = {q}
             /\ Cardinality(Holders(sp_held, sp_ctrl_, sp_ctrl_[q]) \ {q}) =
                  sp_count[sp_ctrl_[q]] - 1
             /\ q \in Holders(sp_held, sp_ctrl_, sp_ctrl_[q])
  BY <1>2, LetGoOf, Zenon
<1>4. /\ o \in sp_there /\ o # 0 /\ sp_ptr_[p] = o /\ sp_ptr_[that] = o
      /\ sp_count[o] = 1 <=> S = {p}
  <2>1. sp_ctrl_[that] \in sp_there /\ sp_ctrl_[that] # 0 /\ sp_ptr_[that] = sp_ctrl_[that]
    BY <1>0, Zenon
  <2>2. /\ sp_ptr_[p] = sp_ctrl_[p]
        /\ sp_count[sp_ctrl_[p]] = 1 <=> Holders(sp_held, sp_ctrl_, sp_ctrl_[p]) = {p}
    BY <1>0, Zenon
  <2> QED BY <2>1, <2>2
<1>5. p # that => sp_count[o] # 1
  <2>1. that \in S
    BY DEF Holders
  <2> QED BY <1>4, <2>1
<1>6. /\ ~Pointer!LastOf(p)
      /\ sp_ptr_' = [sp_ptr_ EXCEPT ![p] = sp_ptr_[that]] /\ sp_ctrl_' = [sp_ctrl_ EXCEPT ![p] = o]
      /\ sp_count' = [q \in PointedObjects |-> sp_count[q] + (IF q = o THEN 1 ELSE 0)
                                                  - (IF q = sp_ctrl_[p] THEN 1 ELSE 0)]
      /\ sp_held' = sp_held
      /\ sp_there' = IF sp_ctrl_[p] # Pointer!None /\ Pointer!LastOf(p)
           THEN sp_there \ {sp_ctrl_[p]} ELSE sp_there
      /\ sp_deleted' = IF sp_ctrl_[p] # Pointer!None /\ Pointer!LastOf(p)
           THEN sp_deleted \cup {sp_ptr_[p]} ELSE sp_deleted
  <2>1. "undefined" # "running" /\ "locked" # "running"
    OBVIOUS
  <2>2. ~(p = that /\ Pointer!LastOf(p))
    BY <2>1, Zenon DEF Pointer!Assign, Pointer!Stops
  <2>3. ~Pointer!LastOf(p)
    BY <1>5, <2>2, Zenon DEF Pointer!LastOf
  <2> QED BY <2>1, <2>2, <2>3, Zenon DEF Pointer!Assign, Pointer!Stops
<1>7. sp_ptr_' = sp_ptr_ /\ sp_ctrl_' = sp_ctrl_ /\ sp_count' = sp_count
  BY <1>3, <1>4, <1>6 DEF CountedTypeOK
<1>8. sp_there' = sp_there /\ sp_deleted' = sp_deleted /\ sp_held' = sp_held
  BY <1>6, Zenon
<1>9. Counted(sp_ptr_', sp_ctrl_', sp_held', sp_there', sp_deleted', sp_count')
  BY <1>2, <1>7, <1>8, Zenon
<1> QED BY <1>9, Zenon DEF Counted, CountedTypeOK, HeldAreThere, HoldersCount, Holders

LEMMA AssignedOther ==
  ASSUME CountedInv, NEW p \in PointerNames, NEW that \in PointerNames, ~sp_released,
         sp_at = "running", p \in sp_held, that \in sp_held, sp_ctrl_[p] # sp_ctrl_[that],
         Pointer!Assign(p, that)
  PROVE  CountedInv'
<1> DEFINE o == sp_ctrl_[that]
           c == sp_ctrl_[p]
           S == Holders(sp_held, sp_ctrl_, c)
           T == Holders(sp_held, sp_ctrl_, o)
<1> SUFFICES ASSUME sp_at' = "running", ~sp_released'
             PROVE  Counted(sp_ptr_, sp_ctrl_, sp_held, sp_there, sp_deleted, sp_count)'
  BY Zenon DEF CountedInv
<1>2. Counted(sp_ptr_, sp_ctrl_, sp_held, sp_there, sp_deleted, sp_count)
  BY Zenon DEF CountedInv
<1>3. /\ CountedTypeOK(sp_ptr_, sp_ctrl_, sp_held, sp_there, sp_deleted, sp_count)
      /\ HeldAreThere(sp_ptr_, sp_ctrl_, sp_held, sp_there, sp_deleted)
      /\ HoldersCount(sp_ctrl_, sp_held, sp_there, sp_deleted, sp_count)
  BY <1>2, Zenon DEF Counted
<1>0. ASSUME NEW q \in sp_held
      PROVE  /\ sp_ctrl_[q] \in sp_there /\ sp_ptr_[q] = sp_ctrl_[q] /\ sp_ctrl_[q] # 0
             /\ sp_count[sp_ctrl_[q]] = 1 <=> Holders(sp_held, sp_ctrl_, sp_ctrl_[q]) = {q}
             /\ Cardinality(Holders(sp_held, sp_ctrl_, sp_ctrl_[q]) \ {q}) =
                  sp_count[sp_ctrl_[q]] - 1
             /\ q \in Holders(sp_held, sp_ctrl_, sp_ctrl_[q])
  BY <1>2, LetGoOf, Zenon
<1>4. /\ o \in sp_there /\ o # 0 /\ sp_ptr_[that] = o
      /\ c \in sp_there /\ c # 0 /\ sp_ptr_[p] = c
      /\ sp_count[c] = 1 <=> S = {p}
      /\ Cardinality(S \ {p}) = sp_count[c] - 1
      /\ p \in S
  <2>1. sp_ctrl_[that] \in sp_there /\ sp_ctrl_[that] # 0 /\ sp_ptr_[that] = sp_ctrl_[that]
    BY <1>0, Zenon
  <2>2. /\ c \in sp_there /\ c # 0 /\ sp_ptr_[p] = c
        /\ sp_count[c] = 1 <=> S = {p}
        /\ Cardinality(S \ {p}) = sp_count[c] - 1
        /\ p \in S
    BY <1>0, Zenon
  <2> HIDE DEF S
  <2> QED BY <2>1, <2>2, Zenon
<1>5. o \in PointedObjects /\ c \in PointedObjects /\ p \notin T /\ o # c
  BY <1>3, <1>4 DEF CountedTypeOK, Holders
<1>6. /\ sp_ptr_' = [sp_ptr_ EXCEPT ![p] = sp_ptr_[that]] /\ sp_ctrl_' = [sp_ctrl_ EXCEPT ![p] = o]
      /\ sp_count' = [q \in PointedObjects |-> sp_count[q] + (IF q = o THEN 1 ELSE 0)
                                                  - (IF q = c THEN 1 ELSE 0)]
      /\ sp_held' = sp_held
      /\ sp_there' = IF sp_count[c] = 1 THEN sp_there \ {c} ELSE sp_there
      /\ sp_deleted' = IF sp_count[c] = 1 THEN sp_deleted \cup {sp_ptr_[p]} ELSE sp_deleted
  <2>1. "undefined" # "running" /\ "locked" # "running"
    OBVIOUS
  <2>2. /\ sp_ptr_' = [sp_ptr_ EXCEPT ![p] = sp_ptr_[that]]
        /\ sp_ctrl_' = [sp_ctrl_ EXCEPT ![p] = o]
        /\ sp_count' = [q \in PointedObjects |-> sp_count[q] + (IF q = o THEN 1 ELSE 0)
                                                    - (IF q = c THEN 1 ELSE 0)]
        /\ sp_held' = sp_held
        /\ sp_there' = IF c # 0 /\ sp_count[c] = 1 THEN sp_there \ {c} ELSE sp_there
        /\ sp_deleted' = IF c # 0 /\ sp_count[c] = 1
             THEN sp_deleted \cup {sp_ptr_[p]} ELSE sp_deleted
    BY <2>1, Zenon DEF Pointer!Assign, Pointer!Stops, Pointer!LastOf, Pointer!None
  <2> QED BY <1>4, <2>2, Zenon
<1>7. CountedTypeOK(sp_ptr_, sp_ctrl_, sp_held, sp_there, sp_deleted, sp_count)'
  <2>1. /\ sp_there' \subseteq PointedObjects /\ sp_deleted' \subseteq PointedObjects
        /\ sp_held' \subseteq PointerNames
    BY <1>3, <1>4, <1>5, <1>6 DEF CountedTypeOK
  <2>2. sp_ptr_' \in [PointerNames -> Places] /\ sp_ctrl_' \in [PointerNames -> Places]
    BY <1>3, <1>4, <1>5, <1>6 DEF CountedTypeOK, Places
  <2>3. sp_count' \in [PointedObjects -> Int]
    BY <1>3, <1>6 DEF CountedTypeOK
  <2> QED BY <2>1, <2>2, <2>3, Zenon DEF CountedTypeOK
<1>8. sp_count[c] = 1 => \A q \in sp_held : q # p => sp_ctrl_[q] # c
  BY <1>4 DEF Holders
<1>9. HeldAreThere(sp_ptr_, sp_ctrl_, sp_held, sp_there, sp_deleted)'
  BY <1>3, <1>4, <1>5, <1>6, <1>8 DEF HeldAreThere, CountedTypeOK
<1>10. Holders(sp_held', sp_ctrl_', c) = S \ {p} /\ Holders(sp_held', sp_ctrl_', o) = T \cup {p}
  BY <1>3, <1>5, <1>6 DEF Holders, CountedTypeOK
<1>11. \A q \in PointedObjects \ {c, o} :
         Holders(sp_held', sp_ctrl_', q) = Holders(sp_held, sp_ctrl_, q)
  BY <1>3, <1>5, <1>6 DEF Holders, CountedTypeOK
<1>12. Cardinality(T \cup {p}) = sp_count[o] + 1
  <2>1. sp_count[o] = Cardinality(T)
    BY <1>3, <1>4, Zenon DEF HoldersCount
  <2>2. IsFiniteSet(T)
    BY <1>3, HoldersFinite DEF CountedTypeOK
  <2> HIDE DEF T
  <2> QED BY <1>5, <2>1, <2>2, HolderAdded
<1>13. /\ sp_count'[o] = sp_count[o] + 1 /\ sp_count'[c] = sp_count[c] - 1
       /\ \A q \in PointedObjects \ {c, o} : sp_count'[q] = sp_count[q]
  BY <1>3, <1>5, <1>6 DEF CountedTypeOK
<1>14. sp_count[c] # 1 => S \ {p} # {}
  BY <1>4
<1>15. sp_there \subseteq PointedObjects /\ sp_deleted \subseteq PointedObjects
  BY <1>3 DEF CountedTypeOK
<1> HIDE DEF c, o, S, T
<1>16. \A q \in sp_there' : Holders(sp_held', sp_ctrl_', q) # {}
  BY <1>3, <1>4, <1>5, <1>6, <1>10, <1>11, <1>14, <1>15 DEF HoldersCount
<1>17. \A q \in sp_there' \cup sp_deleted' :
         sp_count'[q] = Cardinality(Holders(sp_held', sp_ctrl_', q))
  <2> SUFFICES ASSUME NEW q \in sp_there \cup sp_deleted
               PROVE  sp_count'[q] = Cardinality(Holders(sp_held', sp_ctrl_', q))
    BY <1>4, <1>6
  <2>1. CASE q = c
    BY <1>4, <1>10, <1>13, <2>1
  <2>2. CASE q = o
    BY <1>10, <1>12, <1>13, <2>2
  <2>3. CASE q \notin {c, o}
    BY <1>3, <1>11, <1>13, <1>15, <2>3 DEF HoldersCount
  <2> QED BY <2>1, <2>2, <2>3
<1>18. HoldersCount(sp_ctrl_, sp_held, sp_there, sp_deleted, sp_count)'
  BY <1>16, <1>17, Zenon DEF HoldersCount
<1> QED BY <1>7, <1>9, <1>18, Zenon DEF Counted

LEMMA CountedSteps == CountedInv /\ [Pointer!Next]_Pointer!vars => CountedInv'
<1> SUFFICES ASSUME CountedInv, [Pointer!Next]_Pointer!vars PROVE CountedInv'
  OBVIOUS
<1>1. CASE UNCHANGED Pointer!countedVars
  BY <1>1, Zenon DEF Pointer!countedVars, CountedInv, Counted, CountedTypeOK, HeldAreThere,
     HoldersCount, Holders
<1>2. CASE sp_released'
  BY <1>2, Zenon DEF CountedInv
<1>3. ASSUME NEW p \in PointerNames, Pointer!Release(p) PROVE CountedInv'
  BY <1>2, <1>3, Zenon DEF Pointer!Release
<1>4. ASSUME NEW p \in PointerNames, NEW that \in PointerNames, Pointer!Assign(p, that)
      PROVE  CountedInv'
  <2>1. sp_released' = sp_released /\ sp_at = "running" /\ p \in sp_held /\ that \in sp_held
    BY <1>4, Zenon DEF Pointer!Assign, Pointer!Stops, Pointer!Runs
  <2> QED BY <1>2, <1>4, <2>1, AssignedShared, AssignedOther, Zenon
<1>5. CASE Pointer!CountedNext
  BY <1>3, <1>4, <1>5, Constructed, Copied, Destroyed, Zenon DEF Pointer!CountedNext
<1>6. (Pointer!CountedNext \/ UNCHANGED Pointer!countedVars)
  BY Zenon DEF Pointer!Next, Pointer!vars, Pointer!countedVars
<1> QED BY <1>1, <1>5, <1>6

-----------------------------------------------------------------------------
(* The unique pointers: an object has one owner, a pointer or the program.     *)
Holdings == PointedObjects \cup {0, -1, -2}
UniqueStates == [ptr : [PointerNames -> Holdings], alive : SUBSET PointedObjects,
                 loose : SUBSET PointedObjects, undefined : BOOLEAN]
OwnersAreAlive(ptr, alive, loose) ==
  /\ loose \subseteq alive
  /\ \A p \in PointerNames : ptr[p] \in PointedObjects => ptr[p] \in alive \ loose
OwnersAreUnique(ptr) ==
  \A p, q \in PointerNames : ptr[p] = ptr[q] /\ ptr[p] \in PointedObjects => p = q
AliveAreOwned(ptr, alive, loose) ==
  \A o \in alive \ loose : \E p \in PointerNames : ptr[p] = o
Owned(ptr, alive, loose) ==
  OwnersAreAlive(ptr, alive, loose) /\ OwnersAreUnique(ptr) /\ AliveAreOwned(ptr, alive, loose)
EmptiedByMoves(u) == ~u.undefined /\ \A p \in PointerNames : u.ptr[p] # -1
UniqueInv ==
  /\ sp_s \in UniqueStates
  /\ ~sp_s.undefined => Owned(sp_s.ptr, sp_s.alive, sp_s.loose)
  /\ sp_class = "MyUniquePtr" => EmptiedByMoves(sp_s)

LEMMA ObjectsAreNumbered == \A o \in PointedObjects : o \in Nat /\ o # 0 /\ o # -1 /\ o # -2
<1>1. PointedObjects \subseteq Nat \ {0}
  BY StorageAssumption, Zenon DEF StorageAssumption
<1> QED BY <1>1

(* What the operations of a unique pointer make of each part of the state.     *)
LEMMA StartParts ==
  /\ Pointer!Start \in UniqueStates
  /\ Pointer!Start.ptr = [p \in PointerNames |-> -2] /\ Pointer!Start.alive = {}
  /\ Pointer!Start.loose = {} /\ ~Pointer!Start.undefined
  BY DEF Pointer!Start, Pointer!Gone, UniqueStates, Holdings

LEMMA MadeParts ==
  ASSUME NEW u \in UniqueStates, NEW p \in PointerNames, NEW o \in Holdings
  PROVE  /\ Pointer!Made(u, p, o) \in UniqueStates
         /\ Pointer!Made(u, p, o).ptr = [u.ptr EXCEPT ![p] = o]
         /\ Pointer!Made(u, p, o).alive = u.alive
         /\ Pointer!Made(u, p, o).loose = u.loose \ {o}
         /\ Pointer!Made(u, p, o).undefined = u.undefined
  BY DEF Pointer!Made, UniqueStates

LEMMA NewParts ==
  ASSUME NEW u \in UniqueStates, NEW o \in PointedObjects
  PROVE  /\ Pointer!New(u, o) \in UniqueStates
         /\ Pointer!New(u, o).ptr = u.ptr
         /\ Pointer!New(u, o).alive = u.alive \cup {o}
         /\ Pointer!New(u, o).loose = u.loose \cup {o}
         /\ Pointer!New(u, o).undefined = u.undefined
  BY DEF Pointer!New, UniqueStates

LEMMA DeletedParts ==
  ASSUME NEW u \in UniqueStates, NEW o \in Holdings
  PROVE  /\ Pointer!Deleted(u, o) \in UniqueStates
         /\ Pointer!Deleted(u, o).ptr = u.ptr
         /\ Pointer!Deleted(u, o).alive = u.alive \ {o}
         /\ Pointer!Deleted(u, o).loose = u.loose
         /\ (o = 0 \/ o \in u.alive) => Pointer!Deleted(u, o).undefined = u.undefined
         /\ ~(o = 0 \/ o \in u.alive) => Pointer!Deleted(u, o).undefined
<1>1. CASE o = 0
  <2>1. o \notin u.alive
    BY <1>1, ObjectsAreNumbered DEF UniqueStates
  <2> QED BY <1>1, <2>1 DEF Pointer!Deleted, Pointer!None, UniqueStates
<1>2. CASE o # 0 /\ o \notin u.alive
  BY <1>2 DEF Pointer!Deleted, Pointer!None, UniqueStates
<1>3. CASE o # 0 /\ o \in u.alive
  BY <1>3 DEF Pointer!Deleted, Pointer!None, UniqueStates
<1> QED BY <1>1, <1>2, <1>3

LEMMA PutParts ==
  ASSUME NEW u \in UniqueStates, NEW p \in PointerNames, NEW o \in Holdings
  PROVE  /\ [u EXCEPT !.ptr[p] = o] \in UniqueStates
         /\ [u EXCEPT !.ptr[p] = o].ptr = [u.ptr EXCEPT ![p] = o]
         /\ [u EXCEPT !.ptr[p] = o].alive = u.alive
         /\ [u EXCEPT !.ptr[p] = o].loose = u.loose
         /\ [u EXCEPT !.ptr[p] = o].undefined = u.undefined
  BY DEF UniqueStates

LEMMA PutTwoParts ==
  ASSUME NEW u \in UniqueStates, NEW p \in PointerNames, NEW o \in Holdings,
         NEW q \in PointerNames, NEW x \in Holdings
  PROVE  /\ [u EXCEPT !.ptr[p] = o, !.ptr[q] = x] \in UniqueStates
         /\ [u EXCEPT !.ptr[p] = o, !.ptr[q] = x].ptr = [u.ptr EXCEPT ![p] = o, ![q] = x]
         /\ [u EXCEPT !.ptr[p] = o, !.ptr[q] = x].alive = u.alive
         /\ [u EXCEPT !.ptr[p] = o, !.ptr[q] = x].loose = u.loose
         /\ [u EXCEPT !.ptr[p] = o, !.ptr[q] = x].undefined = u.undefined
  BY DEF UniqueStates

LEMMA LetGoParts ==
  ASSUME NEW u \in UniqueStates, NEW p \in PointerNames
  PROVE  /\ Pointer!LetGo(u, p) \in UniqueStates
         /\ Pointer!LetGo(u, p).ptr = [u.ptr EXCEPT ![p] = 0]
         /\ Pointer!LetGo(u, p).alive = u.alive
         /\ Pointer!LetGo(u, p).loose = u.loose \cup ({u.ptr[p]} \cap PointedObjects)
         /\ Pointer!LetGo(u, p).undefined = u.undefined
  BY DEF Pointer!LetGo, Pointer!None, UniqueStates, Holdings

LEMMA ResetParts ==
  ASSUME NEW u \in UniqueStates, NEW p \in PointerNames, NEW o \in Holdings
  PROVE  /\ Pointer!Reset(u, p, o) \in UniqueStates
         /\ Pointer!Reset(u, p, o).ptr = [u.ptr EXCEPT ![p] = o]
         /\ Pointer!Reset(u, p, o).alive = u.alive \ {u.ptr[p]}
         /\ Pointer!Reset(u, p, o).loose = u.loose \ {o}
         /\ (u.ptr[p] = 0 \/ u.ptr[p] \in u.alive) => Pointer!Reset(u, p, o).undefined = u.undefined
         /\ ~(u.ptr[p] = 0 \/ u.ptr[p] \in u.alive) => Pointer!Reset(u, p, o).undefined
<1>1. u.ptr[p] \in Holdings
  BY DEF UniqueStates
<1> DEFINE d == Pointer!Deleted(u, u.ptr[p])
<1>2. /\ d \in UniqueStates /\ d.ptr = u.ptr /\ d.alive = u.alive \ {u.ptr[p]} /\ d.loose = u.loose
      /\ (u.ptr[p] = 0 \/ u.ptr[p] \in u.alive) => d.undefined = u.undefined
      /\ ~(u.ptr[p] = 0 \/ u.ptr[p] \in u.alive) => d.undefined
  BY <1>1, DeletedParts, Zenon
<1>3. Pointer!Reset(u, p, o) = Pointer!Made(d, p, o)
  BY Zenon DEF Pointer!Reset
<1> HIDE DEF d
<1>4. /\ Pointer!Made(d, p, o) \in UniqueStates
      /\ Pointer!Made(d, p, o).ptr = [d.ptr EXCEPT ![p] = o]
      /\ Pointer!Made(d, p, o).alive = d.alive
      /\ Pointer!Made(d, p, o).loose = d.loose \ {o}
      /\ Pointer!Made(d, p, o).undefined = d.undefined
  BY <1>2, MadeParts, Zenon
<1> QED BY <1>2, <1>3, <1>4, Zenon

LEMMA DestroyedParts ==
  ASSUME NEW u \in UniqueStates, NEW p \in PointerNames
  PROVE  /\ Pointer!Destroyed(u, p) \in UniqueStates
         /\ Pointer!Destroyed(u, p).ptr = [u.ptr EXCEPT ![p] = -2]
         /\ Pointer!Destroyed(u, p).alive = u.alive \ {u.ptr[p]}
         /\ Pointer!Destroyed(u, p).loose = u.loose
         /\ (u.ptr[p] = 0 \/ u.ptr[p] \in u.alive) =>
              Pointer!Destroyed(u, p).undefined = u.undefined
         /\ ~(u.ptr[p] = 0 \/ u.ptr[p] \in u.alive) => Pointer!Destroyed(u, p).undefined
<1>1. u.ptr[p] \in Holdings /\ -2 \in Holdings
  BY DEF UniqueStates, Holdings
<1> DEFINE d == Pointer!Deleted(u, u.ptr[p])
<1>2. /\ d \in UniqueStates /\ d.ptr = u.ptr /\ d.alive = u.alive \ {u.ptr[p]} /\ d.loose = u.loose
      /\ (u.ptr[p] = 0 \/ u.ptr[p] \in u.alive) => d.undefined = u.undefined
      /\ ~(u.ptr[p] = 0 \/ u.ptr[p] \in u.alive) => d.undefined
  BY <1>1, DeletedParts, Zenon
<1>3. Pointer!Destroyed(u, p) = [d EXCEPT !.ptr[p] = -2]
  BY Zenon DEF Pointer!Destroyed, Pointer!Gone
<1> HIDE DEF d
<1>4. /\ [d EXCEPT !.ptr[p] = -2] \in UniqueStates
      /\ [d EXCEPT !.ptr[p] = -2].ptr = [d.ptr EXCEPT ![p] = -2]
      /\ [d EXCEPT !.ptr[p] = -2].alive = d.alive
      /\ [d EXCEPT !.ptr[p] = -2].loose = d.loose
      /\ [d EXCEPT !.ptr[p] = -2].undefined = d.undefined
  BY <1>1, <1>2 DEF UniqueStates
<1> QED BY <1>2, <1>3, <1>4, Zenon

LEMMA AssignedResetParts ==
  ASSUME NEW u \in UniqueStates, NEW p \in PointerNames, NEW that \in PointerNames, p # that
  PROVE  /\ Pointer!AssignedReset(u, p, that) \in UniqueStates
         /\ Pointer!AssignedReset(u, p, that).ptr = [u.ptr EXCEPT ![p] = u.ptr[that], ![that] = 0]
         /\ Pointer!AssignedReset(u, p, that).alive = u.alive \ {u.ptr[p]}
         /\ Pointer!AssignedReset(u, p, that).loose = u.loose \ {u.ptr[that]}
         /\ (u.ptr[p] = 0 \/ u.ptr[p] \in u.alive) =>
              Pointer!AssignedReset(u, p, that).undefined = u.undefined
         /\ ~(u.ptr[p] = 0 \/ u.ptr[p] \in u.alive) => Pointer!AssignedReset(u, p, that).undefined
<1>1. u.ptr[p] \in Holdings /\ u.ptr[that] \in Holdings /\ 0 \in Holdings
  BY DEF UniqueStates, Holdings
<1> DEFINE d == Pointer!Reset(u, p, u.ptr[that])
<1>2. /\ d \in UniqueStates /\ d.ptr = [u.ptr EXCEPT ![p] = u.ptr[that]]
      /\ d.alive = u.alive \ {u.ptr[p]} /\ d.loose = u.loose \ {u.ptr[that]}
      /\ (u.ptr[p] = 0 \/ u.ptr[p] \in u.alive) => d.undefined = u.undefined
      /\ ~(u.ptr[p] = 0 \/ u.ptr[p] \in u.alive) => d.undefined
  <2> DEFINE t == u.ptr[that]
  <2>1. t \in Holdings
    BY <1>1
  <2> HIDE DEF t
  <2>2. /\ Pointer!Reset(u, p, t) \in UniqueStates
        /\ Pointer!Reset(u, p, t).ptr = [u.ptr EXCEPT ![p] = t]
        /\ Pointer!Reset(u, p, t).alive = u.alive \ {u.ptr[p]}
        /\ Pointer!Reset(u, p, t).loose = u.loose \ {t}
        /\ (u.ptr[p] = 0 \/ u.ptr[p] \in u.alive) => Pointer!Reset(u, p, t).undefined = u.undefined
        /\ ~(u.ptr[p] = 0 \/ u.ptr[p] \in u.alive) => Pointer!Reset(u, p, t).undefined
    BY <2>1, ResetParts, Zenon
  <2> QED BY <2>2, Zenon DEF t
<1>3. Pointer!AssignedReset(u, p, that) = [d EXCEPT !.ptr[that] = 0]
  BY Zenon DEF Pointer!AssignedReset, Pointer!None
<1> HIDE DEF d
<1>4. /\ [d EXCEPT !.ptr[that] = 0] \in UniqueStates
      /\ [d EXCEPT !.ptr[that] = 0].ptr = [d.ptr EXCEPT ![that] = 0]
      /\ [d EXCEPT !.ptr[that] = 0].alive = d.alive
      /\ [d EXCEPT !.ptr[that] = 0].loose = d.loose
      /\ [d EXCEPT !.ptr[that] = 0].undefined = d.undefined
  BY <1>1, <1>2 DEF UniqueStates
<1> QED BY <1>2, <1>3, <1>4, Zenon

(* A step of the program keeps one owner for every object, part by part.       *)
LEMMA OwnedSteps ==
  ASSUME NEW ptr \in [PointerNames -> Holdings], NEW alive \in SUBSET PointedObjects,
         NEW loose \in SUBSET PointedObjects, Owned(ptr, alive, loose)
  PROVE  /\ \A o \in PointedObjects \ alive : Owned(ptr, alive \cup {o}, loose \cup {o})
         /\ \A o \in loose : Owned(ptr, alive \ {o}, loose \ {o})
         /\ \A p \in PointerNames, o \in loose \cup {0} :
              (ptr[p] = -2 => Owned([ptr EXCEPT ![p] = o], alive, loose \ {o}))
         /\ \A p \in PointerNames, o \in loose \cup {0} :
              Owned([ptr EXCEPT ![p] = o], alive \ {ptr[p]}, loose \ {o})
         /\ \A p \in PointerNames :
              Owned([ptr EXCEPT ![p] = 0], alive, loose \cup ({ptr[p]} \cap PointedObjects))
         /\ \A p \in PointerNames : Owned([ptr EXCEPT ![p] = -2], alive \ {ptr[p]}, loose)
<1> USE ObjectsAreNumbered
<1>0. OwnersAreAlive(ptr, alive, loose) /\ OwnersAreUnique(ptr) /\ AliveAreOwned(ptr, alive, loose)
  BY Zenon DEF Owned
<1>1. ASSUME NEW o \in PointedObjects \ alive PROVE Owned(ptr, alive \cup {o}, loose \cup {o})
  BY <1>0 DEF Owned, OwnersAreAlive, OwnersAreUnique, AliveAreOwned
<1>2. ASSUME NEW o \in loose PROVE Owned(ptr, alive \ {o}, loose \ {o})
  BY <1>0 DEF Owned, OwnersAreAlive, OwnersAreUnique, AliveAreOwned
<1>3. ASSUME NEW p \in PointerNames, NEW o \in loose \cup {0}
      PROVE  /\ ptr[p] = -2 => Owned([ptr EXCEPT ![p] = o], alive, loose \ {o})
             /\ Owned([ptr EXCEPT ![p] = o], alive \ {ptr[p]}, loose \ {o})
  <2> DEFINE q == [ptr EXCEPT ![p] = o]
  <2>1. q[p] = o /\ \A r1 \in PointerNames \ {p} : q[r1] = ptr[r1]
    OBVIOUS
  <2> HIDE DEF q
  <2>2. OwnersAreUnique(q)
    BY <1>0, <2>1 DEF OwnersAreUnique, OwnersAreAlive
  <2>3. OwnersAreAlive(q, alive \ {ptr[p]}, loose \ {o})
    BY <1>0, <2>1 DEF OwnersAreUnique, OwnersAreAlive
  <2>4. AliveAreOwned(q, alive \ {ptr[p]}, loose \ {o})
    BY <1>0, <2>1 DEF AliveAreOwned, OwnersAreAlive
  <2>5. ptr[p] = -2 => alive \ {ptr[p]} = alive
    OBVIOUS
  <2> QED BY <2>2, <2>3, <2>4, <2>5 DEF Owned, q
<1>4. ASSUME NEW p \in PointerNames
      PROVE  Owned([ptr EXCEPT ![p] = 0], alive, loose \cup ({ptr[p]} \cap PointedObjects))
  <2> DEFINE q == [ptr EXCEPT ![p] = 0]
  <2>1. q[p] = 0 /\ \A r1 \in PointerNames \ {p} : q[r1] = ptr[r1]
    OBVIOUS
  <2> HIDE DEF q
  <2> QED BY <1>0, <2>1 DEF Owned, OwnersAreAlive, OwnersAreUnique, AliveAreOwned, q
<1>5. ASSUME NEW p \in PointerNames PROVE Owned([ptr EXCEPT ![p] = -2], alive \ {ptr[p]}, loose)
  <2> DEFINE q == [ptr EXCEPT ![p] = -2]
  <2>1. q[p] = -2 /\ \A r1 \in PointerNames \ {p} : q[r1] = ptr[r1]
    OBVIOUS
  <2> HIDE DEF q
  <2>2. OwnersAreUnique(q)
    BY <1>0, <2>1 DEF OwnersAreUnique, OwnersAreAlive
  <2>3. OwnersAreAlive(q, alive \ {ptr[p]}, loose)
    BY <1>0, <2>1 DEF OwnersAreUnique, OwnersAreAlive
  <2>4. AliveAreOwned(q, alive \ {ptr[p]}, loose)
    BY <1>0, <2>1 DEF AliveAreOwned, OwnersAreAlive
  <2> QED BY <2>2, <2>3, <2>4 DEF Owned, q
<1> QED BY <1>1, <1>2, <1>3, <1>4, <1>5

LEMMA OwnedMoves ==
  ASSUME NEW ptr \in [PointerNames -> Holdings], NEW alive \in SUBSET PointedObjects,
         NEW loose \in SUBSET PointedObjects, Owned(ptr, alive, loose),
         NEW p \in PointerNames, NEW that \in PointerNames
  PROVE  /\ \A e \in {0, -1} : (ptr[p] = -2 /\ ptr[that] # -2 =>
              Owned([ptr EXCEPT ![p] = ptr[that], ![that] = e], alive, loose))
         /\ p # that => Owned([ptr EXCEPT ![p] = ptr[that], ![that] = 0],
                            alive \ {ptr[p]}, loose \ {ptr[that]})
         /\ Owned([ptr EXCEPT ![p] = ptr[that], ![that] = ptr[p]], alive, loose)
<1> USE ObjectsAreNumbered
<1>0. OwnersAreAlive(ptr, alive, loose) /\ OwnersAreUnique(ptr) /\ AliveAreOwned(ptr, alive, loose)
  BY Zenon DEF Owned
<1>1. ASSUME p # that, NEW e \in Holdings \ PointedObjects
      PROVE  Owned([ptr EXCEPT ![p] = ptr[that], ![that] = e], alive \ {ptr[p]},
                    loose \ {ptr[that]})
  <2> DEFINE q == [ptr EXCEPT ![p] = ptr[that], ![that] = e]
  <2>1. q[p] = ptr[that] /\ q[that] = e /\ \A r1 \in PointerNames \ {p, that} : q[r1] = ptr[r1]
    BY <1>1
  <2> HIDE DEF q
  <2>2. OwnersAreUnique(q)
    BY <1>0, <1>1, <2>1 DEF OwnersAreUnique
  <2>3. OwnersAreAlive(q, alive \ {ptr[p]}, loose \ {ptr[that]})
    BY <1>0, <1>1, <2>1 DEF OwnersAreUnique, OwnersAreAlive
  <2>4. AliveAreOwned(q, alive \ {ptr[p]}, loose \ {ptr[that]})
    <3> SUFFICES ASSUME NEW o \in (alive \ {ptr[p]}) \ (loose \ {ptr[that]})
                 PROVE  \E r1 \in PointerNames : q[r1] = o
      BY DEF AliveAreOwned
    <3>1. o \in alive \ loose
      BY <1>0 DEF OwnersAreAlive
    <3>2. PICK r1 \in PointerNames : ptr[r1] = o
      BY <1>0, <3>1 DEF AliveAreOwned
    <3> QED BY <1>1, <2>1, <3>2
  <2> QED BY <2>2, <2>3, <2>4 DEF Owned, q
<1>2. ASSUME NEW e \in {0, -1}, ptr[p] = -2, ptr[that] # -2
      PROVE  Owned([ptr EXCEPT ![p] = ptr[that], ![that] = e], alive, loose)
  <2>1. /\ p # that /\ alive \ {ptr[p]} = alive /\ loose \ {ptr[that]} = loose
        /\ e \in Holdings \ PointedObjects
    BY <1>0, <1>2 DEF Holdings, OwnersAreAlive
  <2> QED BY <1>1, <2>1
<1>3. 0 \in Holdings \ PointedObjects
  BY DEF Holdings
<1>4. Owned([ptr EXCEPT ![p] = ptr[that], ![that] = ptr[p]], alive, loose)
  <2> DEFINE q == [ptr EXCEPT ![p] = ptr[that], ![that] = ptr[p]]
  <2>1. q[p] = ptr[that] /\ q[that] = ptr[p] /\ \A r1 \in PointerNames \ {p, that} : q[r1] = ptr[r1]
    OBVIOUS
  <2> HIDE DEF q
  <2> QED BY <1>0, <2>1 DEF Owned, OwnersAreUnique, OwnersAreAlive, AliveAreOwned, q
<1> QED BY <1>1, <1>2, <1>3, <1>4

LEMMA UniqueStarts == Pointer!Init => UniqueInv
<1> SUFFICES ASSUME Pointer!Init PROVE UniqueInv
  OBVIOUS
<1>1. sp_s = Pointer!Start
  BY Zenon DEF Pointer!Init
<1>2. Owned([p \in PointerNames |-> -2], {}, {})
  BY ObjectsAreNumbered DEF Owned, OwnersAreAlive, OwnersAreUnique, AliveAreOwned
<1>3. EmptiedByMoves(sp_s)
  BY <1>1, StartParts DEF EmptiedByMoves
<1> QED BY <1>1, <1>2, <1>3, StartParts, Zenon DEF UniqueInv

(* What a pointer has is nothing, or alive, or it was never set.               *)
LEMMA PointersHold ==
  ASSUME UniqueInv, ~sp_s.undefined, NEW p \in PointerNames, sp_s.ptr[p] # -2
  PROVE  /\ sp_s.ptr[p] \in Holdings
         /\ (sp_s.ptr[p] = 0 \/ sp_s.ptr[p] \in sp_s.alive) \/ sp_s.ptr[p] = -1
         /\ sp_class = "MyUniquePtr" => (sp_s.ptr[p] = 0 \/ sp_s.ptr[p] \in sp_s.alive)
<1>1. sp_s \in UniqueStates /\ Owned(sp_s.ptr, sp_s.alive, sp_s.loose)
  BY Zenon DEF UniqueInv
<1>2. sp_s.ptr[p] \in Holdings
  BY <1>1 DEF UniqueStates
<1>3. sp_s.ptr[p] \in PointedObjects => sp_s.ptr[p] \in sp_s.alive
  BY <1>1 DEF Owned, OwnersAreAlive
<1>4. sp_class = "MyUniquePtr" => sp_s.ptr[p] # -1
  BY Zenon DEF UniqueInv, EmptiedByMoves
<1> QED BY <1>2, <1>3, <1>4 DEF Holdings

LEMMA UniqueSteps == UniqueInv /\ [Pointer!Next]_Pointer!vars => UniqueInv'
<1> SUFFICES ASSUME UniqueInv, [Pointer!Next]_Pointer!vars PROVE UniqueInv'
  OBVIOUS
<1>1. CASE UNCHANGED sp_s
  <2>1. sp_class' = sp_class
    BY Zenon DEF Pointer!Next, Pointer!vars
  <2> QED BY <1>1, <2>1, Zenon DEF UniqueInv, EmptiedByMoves
<1>2. CASE sp_class' = sp_class /\ Pointer!UniqueNext
  <2> DEFINE ptr == sp_s.ptr
             alive == sp_s.alive
             loose == sp_s.loose
             My == sp_class = "MyUniquePtr"
  <2>1. sp_s \in UniqueStates /\ ~sp_s.undefined /\ Owned(ptr, alive, loose)
    BY <1>2, Zenon DEF UniqueInv, Pointer!UniqueNext
  <2>2. /\ ptr \in [PointerNames -> Holdings] /\ alive \in SUBSET PointedObjects
        /\ loose \in SUBSET PointedObjects
    BY <2>1 DEF UniqueStates
  <2>3. My => \A p \in PointerNames : ptr[p] # -1
    BY Zenon DEF UniqueInv, EmptiedByMoves
  <2>4. \A o \in PointedObjects : o \in Nat /\ o # 0 /\ o # -1 /\ o # -2
    BY ObjectsAreNumbered
  <2>5. loose \subseteq alive
    BY <2>1, Zenon DEF Owned, OwnersAreAlive
  <2>6. \A o \in loose \cup {0} : o \in Holdings /\ o # -1
    BY <2>2, <2>4 DEF Holdings
  <2>7. 0 \in Holdings /\ -1 \in Holdings /\ -2 \in Holdings
    BY DEF Holdings
  <2>8. SUFFICES ASSUME TRUE
                 PROVE  /\ sp_s' \in UniqueStates
                        /\ ~sp_s'.undefined => Owned(sp_s'.ptr, sp_s'.alive, sp_s'.loose)
                        /\ My => ~sp_s'.undefined /\ \A p \in PointerNames : sp_s'.ptr[p] # -1
    BY <1>2, Zenon DEF UniqueInv, EmptiedByMoves
  <2> DEFINE Goal == /\ sp_s' \in UniqueStates
                     /\ ~sp_s'.undefined => Owned(sp_s'.ptr, sp_s'.alive, sp_s'.loose)
                     /\ My => ~sp_s'.undefined /\ \A p \in PointerNames : sp_s'.ptr[p] # -1
  <2>10. ASSUME NEW o \in PointedObjects \ alive, sp_s' = Pointer!New(sp_s, o) PROVE Goal
    <3>1. Owned(ptr, alive \cup {o}, loose \cup {o})
      BY <2>1, <2>2, OwnedSteps, Zenon
    <3>2. /\ sp_s' \in UniqueStates /\ sp_s'.ptr = ptr /\ sp_s'.alive = alive \cup {o}
          /\ sp_s'.loose = loose \cup {o} /\ sp_s'.undefined = sp_s.undefined
      BY <2>1, <2>10, NewParts, Zenon
    <3> QED BY <2>1, <2>3, <3>1, <3>2, Zenon
  <2>11. ASSUME NEW o \in loose, sp_s' = [Pointer!Deleted(sp_s, o) EXCEPT !.loose = @ \ {o}]
         PROVE  Goal
    <3> DEFINE d == Pointer!Deleted(sp_s, o)
    <3>1. Owned(ptr, alive \ {o}, loose \ {o})
      BY <2>1, <2>2, OwnedSteps, Zenon
    <3>2. /\ d \in UniqueStates /\ d.ptr = ptr /\ d.alive = alive \ {o} /\ d.loose = loose
          /\ d.undefined = sp_s.undefined
      BY <2>1, <2>5, <2>6, DeletedParts, Zenon
    <3>3. sp_s' = [d EXCEPT !.loose = @ \ {o}]
      BY <2>11, Zenon
    <3> HIDE DEF d
    <3>4. /\ sp_s' \in UniqueStates /\ sp_s'.ptr = d.ptr /\ sp_s'.alive = d.alive
          /\ sp_s'.loose = d.loose \ {o} /\ sp_s'.undefined = d.undefined
      BY <3>2, <3>3 DEF UniqueStates
    <3> QED BY <2>1, <2>3, <3>1, <3>2, <3>4, Zenon
  <2>12. ASSUME NEW p \in PointerNames, NEW o \in loose \cup {0}, ptr[p] = -2,
                sp_s' = Pointer!Made(sp_s, p, o)
         PROVE  Goal
    <3>1. Owned([ptr EXCEPT ![p] = o], alive, loose \ {o})
      BY <2>1, <2>2, <2>12, OwnedSteps, Zenon
    <3>2. /\ sp_s' \in UniqueStates /\ sp_s'.ptr = [ptr EXCEPT ![p] = o] /\ sp_s'.alive = alive
          /\ sp_s'.loose = loose \ {o} /\ sp_s'.undefined = sp_s.undefined
      <4>1. o \in Holdings
        BY <2>6
      <4>2. /\ Pointer!Made(sp_s, p, o) \in UniqueStates
            /\ Pointer!Made(sp_s, p, o).ptr = [sp_s.ptr EXCEPT ![p] = o]
            /\ Pointer!Made(sp_s, p, o).alive = sp_s.alive
            /\ Pointer!Made(sp_s, p, o).loose = sp_s.loose \ {o}
            /\ Pointer!Made(sp_s, p, o).undefined = sp_s.undefined
        BY <2>1, <4>1, MadeParts, Zenon
      <4> QED BY <2>12, <4>2, Zenon
    <3>3. My => \A q \in PointerNames : [ptr EXCEPT ![p] = o][q] # -1
      BY <2>2, <2>3, <2>6
    <3> QED BY <2>1, <3>1, <3>2, <3>3, Zenon
  <2>13. ASSUME NEW p \in PointerNames, NEW o \in loose \cup {0}, ptr[p] # -2,
                sp_s' = Pointer!Reset(sp_s, p, o)
         PROVE  Goal
    <3>1. Owned([ptr EXCEPT ![p] = o], alive \ {ptr[p]}, loose \ {o})
      BY <2>1, <2>2, <2>13, OwnedSteps, Zenon
    <3>2. /\ sp_s' \in UniqueStates /\ sp_s'.ptr = [ptr EXCEPT ![p] = o]
          /\ sp_s'.alive = alive \ {ptr[p]} /\ sp_s'.loose = loose \ {o}
          /\ (ptr[p] = 0 \/ ptr[p] \in alive) => sp_s'.undefined = sp_s.undefined
      <4>1. o \in Holdings
        BY <2>6
      <4>2. /\ Pointer!Reset(sp_s, p, o) \in UniqueStates
            /\ Pointer!Reset(sp_s, p, o).ptr = [sp_s.ptr EXCEPT ![p] = o]
            /\ Pointer!Reset(sp_s, p, o).alive = sp_s.alive \ {sp_s.ptr[p]}
            /\ Pointer!Reset(sp_s, p, o).loose = sp_s.loose \ {o}
            /\ (sp_s.ptr[p] = 0 \/ sp_s.ptr[p] \in sp_s.alive) =>
                 Pointer!Reset(sp_s, p, o).undefined = sp_s.undefined
        BY <2>1, <4>1, ResetParts
      <4> QED BY <2>13, <4>2, Zenon
    <3>3. My => \A q \in PointerNames : [ptr EXCEPT ![p] = o][q] # -1
      BY <2>2, <2>3, <2>6
    <3>4. My => (ptr[p] = 0 \/ ptr[p] \in alive)
      BY <2>1, <2>13, PointersHold, Zenon
    <3> QED BY <2>1, <3>1, <3>2, <3>3, <3>4, Zenon
  <2>14. ASSUME NEW p \in PointerNames, ptr[p] # -2, sp_s' = Pointer!LetGo(sp_s, p) PROVE Goal
    <3>1. Owned([ptr EXCEPT ![p] = 0], alive, loose \cup ({ptr[p]} \cap PointedObjects))
      BY <2>1, <2>2, OwnedSteps, Zenon
    <3>2. /\ sp_s' \in UniqueStates /\ sp_s'.ptr = [ptr EXCEPT ![p] = 0] /\ sp_s'.alive = alive
          /\ sp_s'.loose = loose \cup ({ptr[p]} \cap PointedObjects)
          /\ sp_s'.undefined = sp_s.undefined
      BY <2>1, <2>14, LetGoParts, Zenon
    <3>3. My => \A q \in PointerNames : [ptr EXCEPT ![p] = 0][q] # -1
      BY <2>2, <2>3
    <3> QED BY <2>1, <3>1, <3>2, <3>3, Zenon
  <2>15. ASSUME NEW p \in PointerNames, ptr[p] # -2, sp_s' = Pointer!Destroyed(sp_s, p) PROVE Goal
    <3>1. Owned([ptr EXCEPT ![p] = -2], alive \ {ptr[p]}, loose)
      BY <2>1, <2>2, OwnedSteps, Zenon
    <3>2. /\ sp_s' \in UniqueStates /\ sp_s'.ptr = [ptr EXCEPT ![p] = -2]
          /\ sp_s'.alive = alive \ {ptr[p]} /\ sp_s'.loose = loose
          /\ (ptr[p] = 0 \/ ptr[p] \in alive) => sp_s'.undefined = sp_s.undefined
      BY <2>1, <2>15, DestroyedParts, Zenon
    <3>3. My => \A q \in PointerNames : [ptr EXCEPT ![p] = -2][q] # -1
      BY <2>2, <2>3
    <3>4. My => (ptr[p] = 0 \/ ptr[p] \in alive)
      BY <2>1, <2>15, PointersHold, Zenon
    <3> QED BY <2>1, <3>1, <3>2, <3>3, <3>4, Zenon
  <2>16. ASSUME NEW p \in PointerNames, NEW that \in PointerNames, ptr[that] # -2, ptr[p] = -2,
                sp_s' = Pointer!Moved(sp_s, p, that)
         PROVE  Goal
    <3>1. PICK e \in {0, -1} : /\ sp_s' = [sp_s EXCEPT !.ptr[p] = ptr[that], !.ptr[that] = e]
                               /\ My => e = 0
      BY <2>16, Zenon DEF Pointer!Moved, Pointer!MovedFrom, Pointer!SwappedFrom, Pointer!None,
           Pointer!Unset
    <3>2. Owned([ptr EXCEPT ![p] = ptr[that], ![that] = e], alive, loose)
      BY <2>1, <2>2, <2>16, OwnedMoves, Zenon
    <3>3. e \in Holdings /\ ptr[that] \in Holdings
      BY <2>2, <2>7
    <3>4. /\ sp_s' \in UniqueStates /\ sp_s'.ptr = [ptr EXCEPT ![p] = ptr[that], ![that] = e]
          /\ sp_s'.alive = alive /\ sp_s'.loose = loose /\ sp_s'.undefined = sp_s.undefined
      <4> DEFINE x == ptr[that]
      <4>1. x \in Holdings /\ sp_s' = [sp_s EXCEPT !.ptr[p] = x, !.ptr[that] = e]
        BY <3>1, <3>3
      <4> HIDE DEF x
      <4>2. /\ sp_s' \in UniqueStates /\ sp_s'.ptr = [sp_s.ptr EXCEPT ![p] = x, ![that] = e]
            /\ sp_s'.alive = sp_s.alive /\ sp_s'.loose = sp_s.loose
            /\ sp_s'.undefined = sp_s.undefined
        BY <2>1, <3>3, <4>1 DEF UniqueStates
      <4> QED BY <4>2, Zenon DEF x
    <3>5. ASSUME My PROVE \A q \in PointerNames : [ptr EXCEPT ![p] = ptr[that], ![that] = e][q] # -1
      <4>1. e = 0 /\ \A q \in PointerNames : ptr[q] # -1
        BY <2>3, <3>1, <3>5
      <4> HIDE DEF ptr
      <4> QED BY <2>2, <4>1
    <3> QED BY <2>1, <3>2, <3>4, <3>5, Zenon
  <2>17. ASSUME NEW p \in PointerNames, NEW that \in PointerNames, ptr[that] # -2, ptr[p] # -2,
                sp_s' = Pointer!Assigned(sp_s, p, that)
         PROVE  Goal
    <3>1. CASE My /\ p # that
      <4>1. Owned([ptr EXCEPT ![p] = ptr[that], ![that] = 0], alive \ {ptr[p]}, loose \ {ptr[that]})
        BY <2>1, <2>2, <3>1, OwnedMoves, Zenon
      <4>2. sp_s' = Pointer!AssignedReset(sp_s, p, that)
        BY <2>17, <3>1, Zenon DEF Pointer!Assigned
      <4>3. /\ sp_s' \in UniqueStates
            /\ sp_s'.ptr = [ptr EXCEPT ![p] = ptr[that], ![that] = 0]
            /\ sp_s'.alive = alive \ {ptr[p]} /\ sp_s'.loose = loose \ {ptr[that]}
            /\ (ptr[p] = 0 \/ ptr[p] \in alive) => sp_s'.undefined = sp_s.undefined
        <5> DEFINE a == Pointer!AssignedReset(sp_s, p, that)
        <5>1. /\ a \in UniqueStates
              /\ a.ptr = [sp_s.ptr EXCEPT ![p] = sp_s.ptr[that], ![that] = 0]
              /\ a.alive = sp_s.alive \ {sp_s.ptr[p]} /\ a.loose = sp_s.loose \ {sp_s.ptr[that]}
              /\ (sp_s.ptr[p] = 0 \/ sp_s.ptr[p] \in sp_s.alive) => a.undefined = sp_s.undefined
          BY <2>1, <3>1, AssignedResetParts
        <5> QED BY <4>2, <5>1, Zenon
      <4>4. \A q \in PointerNames : [ptr EXCEPT ![p] = ptr[that], ![that] = 0][q] # -1
        BY <2>2, <2>3, <3>1
      <4>5. ptr[p] = 0 \/ ptr[p] \in alive
        BY <2>1, <2>17, <3>1, PointersHold, Zenon
      <4> QED BY <2>1, <4>1, <4>3, <4>4, <4>5, Zenon
    <3>2. CASE My /\ p = that
      <4>1. sp_s' = sp_s
        BY <2>17, <3>2, Zenon DEF Pointer!Assigned, Pointer!AssignedReset
      <4> QED BY <2>1, <2>3, <4>1, Zenon
    <3>3. CASE ~My
      <4>1. Owned([ptr EXCEPT ![p] = ptr[that], ![that] = ptr[p]], alive, loose)
        BY <2>1, <2>2, OwnedMoves, Zenon
      <4>2. sp_s' = [sp_s EXCEPT !.ptr[p] = ptr[that], !.ptr[that] = ptr[p]]
        BY <2>17, <3>3, Zenon DEF Pointer!Assigned, Pointer!AssignedSwap
      <4>3. ptr[p] \in Holdings /\ ptr[that] \in Holdings
        BY <2>2
      <4>4. /\ sp_s' \in UniqueStates
            /\ sp_s'.ptr = [ptr EXCEPT ![p] = ptr[that], ![that] = ptr[p]]
            /\ sp_s'.alive = alive /\ sp_s'.loose = loose /\ sp_s'.undefined = sp_s.undefined
        BY <2>1, <4>2, <4>3 DEF UniqueStates
      <4> QED BY <2>1, <3>3, <4>1, <4>4, Zenon
    <3> QED BY <3>1, <3>2, <3>3
  <2>18. Goal
    <3> HIDE DEF Goal
    <3> QED BY <1>2, <2>10, <2>11, <2>12, <2>13, <2>14, <2>15, <2>16, <2>17, Zenon
            DEF Pointer!UniqueNext, Pointer!Gone, Pointer!None
  <2> QED BY <2>18
<1> QED BY <1>1, <1>2, Zenon DEF Pointer!Next, Pointer!vars

(* The states of the tests.                                                    *)
LEMMA OneAndNoneParts ==
  ASSUME NEW p \in PointerNames, NEW q \in PointerNames, NEW o \in PointedObjects, p # q
  PROVE  /\ Pointer!OneAndNone(p, q, o) \in UniqueStates
         /\ Pointer!OneAndNone(p, q, o).ptr[p] = o /\ Pointer!OneAndNone(p, q, o).ptr[q] = 0
         /\ Pointer!OneAndNone(p, q, o).alive = {o}
         /\ Pointer!OneAndNone(p, q, o).loose = {}
<1>0. o \in Holdings /\ 0 \in Holdings /\ o # 0
  BY ObjectsAreNumbered DEF Holdings
<1> DEFINE u == Pointer!Start
           v == Pointer!New(u, o)
           w == Pointer!Made(v, p, o)
           x == Pointer!Made(w, q, 0)
<1>1. u \in UniqueStates /\ u.ptr = [r1 \in PointerNames |-> -2] /\ u.alive = {} /\ u.loose = {}
  BY StartParts
<1> HIDE DEF u
<1>2. v \in UniqueStates /\ v.ptr = u.ptr /\ v.alive = u.alive \cup {o}
      /\ v.loose = u.loose \cup {o}
  BY <1>1, NewParts, Zenon
<1> HIDE DEF v
<1>3. w \in UniqueStates /\ w.ptr = [v.ptr EXCEPT ![p] = o] /\ w.alive = v.alive
      /\ w.loose = v.loose \ {o}
  BY <1>0, <1>2, MadeParts
<1> HIDE DEF w
<1>4. x \in UniqueStates /\ x.ptr = [w.ptr EXCEPT ![q] = 0] /\ x.alive = w.alive
      /\ x.loose = w.loose \ {0}
  BY <1>0, <1>3, MadeParts
<1> HIDE DEF x
<1>5. x.ptr[p] = o /\ x.ptr[q] = 0 /\ x.alive = {o} /\ x.loose = {}
  BY <1>1, <1>2, <1>3, <1>4
<1>6. Pointer!OneAndNone(p, q, o) = x
  BY Zenon DEF Pointer!OneAndNone, Pointer!None, u, v, w, x
<1> QED BY <1>4, <1>5, <1>6, Zenon

LEMMA EmptinessIsTested ==
  ASSUME NEW p \in PointerNames, NEW q \in PointerNames, NEW o \in PointedObjects, p # q,
         sp_class = "MyUniquePtr"
  PROVE  Pointer!EmptinessTests(p, q, o)
<1>0. o \in Holdings /\ 0 \in Holdings /\ o # 0 /\ o # -2
  BY ObjectsAreNumbered DEF Holdings
<1> DEFINE u == Pointer!Start
           e == Pointer!Made(u, p, 0)
           f == Pointer!Made(e, q, 0)
           v == Pointer!New(u, o)
           w == Pointer!Made(v, p, o)
           x == Pointer!OneAndNone(p, q, o)
<1>1. u \in UniqueStates /\ u.ptr = [r1 \in PointerNames |-> -2] /\ u.alive = {} /\ u.loose = {}
  BY StartParts
<1> HIDE DEF u
<1>2. e \in UniqueStates /\ e.ptr = [u.ptr EXCEPT ![p] = 0]
  BY <1>0, <1>1, MadeParts
<1> HIDE DEF e
<1>3. f \in UniqueStates /\ f.ptr = [e.ptr EXCEPT ![q] = 0]
  BY <1>0, <1>2, MadeParts
<1> HIDE DEF f
<1>4. v \in UniqueStates /\ v.ptr = u.ptr
  BY <1>1, NewParts, Zenon
<1> HIDE DEF v
<1>5. w \in UniqueStates /\ w.ptr = [v.ptr EXCEPT ![p] = o]
  BY <1>0, <1>4, MadeParts, Zenon
<1> HIDE DEF w
<1>6. x \in UniqueStates /\ x.ptr[p] = o /\ x.ptr[q] = 0
  BY OneAndNoneParts
<1> HIDE DEF x
<1>7. e.ptr[p] = 0 /\ w.ptr[p] # 0
  BY <1>0, <1>1, <1>2, <1>4, <1>5
<1>8. Pointer!Moved(e, q, p).ptr[q] = 0
  <2>1. Pointer!Moved(e, q, p) = [e EXCEPT !.ptr[q] = e.ptr[p], !.ptr[p] = 0]
    BY Zenon DEF Pointer!Moved, Pointer!MovedFrom, Pointer!None
  <2>2. e.ptr[p] = 0
    BY <1>7
  <2> QED BY <1>2, <2>1, <2>2 DEF UniqueStates
<1>9. Pointer!Moved(w, q, p).ptr[q] # 0
  <2>1. Pointer!Moved(w, q, p) = [w EXCEPT !.ptr[q] = w.ptr[p], !.ptr[p] = 0]
    BY Zenon DEF Pointer!Moved, Pointer!MovedFrom, Pointer!None
  <2> QED BY <1>5, <1>7, <2>1 DEF UniqueStates
<1>10. Pointer!Assigned(f, q, p).ptr[q] = 0
  <2>1. Pointer!Assigned(f, q, p) = Pointer!AssignedReset(f, q, p)
    BY Zenon DEF Pointer!Assigned
  <2>2. Pointer!AssignedReset(f, q, p).ptr = [f.ptr EXCEPT ![q] = f.ptr[p], ![p] = 0]
    <3>1. q # p
      OBVIOUS
    <3>2. /\ Pointer!AssignedReset(f, q, p) \in UniqueStates
          /\ Pointer!AssignedReset(f, q, p).ptr = [f.ptr EXCEPT ![q] = f.ptr[p], ![p] = 0]
          /\ Pointer!AssignedReset(f, q, p).alive = f.alive \ {f.ptr[q]}
          /\ Pointer!AssignedReset(f, q, p).loose = f.loose \ {f.ptr[p]}
          /\ (f.ptr[q] = 0 \/ f.ptr[q] \in f.alive) =>
               Pointer!AssignedReset(f, q, p).undefined = f.undefined
          /\ ~(f.ptr[q] = 0 \/ f.ptr[q] \in f.alive) => Pointer!AssignedReset(f, q, p).undefined
      BY <1>3, <3>1, AssignedResetParts
    <3> QED BY <3>2
  <2>3. f.ptr \in [PointerNames -> Holdings] /\ f.ptr[p] = 0
    BY <1>1, <1>2, <1>3 DEF UniqueStates
  <2> QED BY <2>1, <2>2, <2>3
<1>11. Pointer!Assigned(x, q, p).ptr = [x.ptr EXCEPT ![q] = o, ![p] = 0]
  <2>1. Pointer!Assigned(x, q, p) = Pointer!AssignedReset(x, q, p)
    BY Zenon DEF Pointer!Assigned
  <2>2. Pointer!AssignedReset(x, q, p).ptr = [x.ptr EXCEPT ![q] = x.ptr[p], ![p] = 0]
    BY <1>6, AssignedResetParts
  <2> QED BY <1>6, <2>1, <2>2, Zenon
<1> QED BY <1>7, <1>8, <1>9, <1>10, <1>11, Zenon
       DEF Pointer!EmptinessTests, Pointer!None, u, e, f, v, w, x

LEMMA OwnershipIsTested ==
  ASSUME NEW p \in PointerNames, NEW q \in PointerNames, NEW o \in PointedObjects, p # q
  PROVE  Pointer!OwnershipTests(p, q, o)
<1> DEFINE x == Pointer!OneAndNone(p, q, o)
<1>1. x \in UniqueStates /\ x.ptr[p] = o /\ x.loose = {}
  BY OneAndNoneParts
<1> HIDE DEF x
<1>2. /\ Pointer!LetGo(x, p).ptr = [x.ptr EXCEPT ![p] = 0]
      /\ Pointer!LetGo(x, p).loose = x.loose \cup ({x.ptr[p]} \cap PointedObjects)
  BY <1>1, LetGoParts
<1>3. Pointer!LetGo(x, p).ptr[p] = 0 /\ Pointer!LetGo(x, p).loose = {o}
  BY <1>1, <1>2 DEF UniqueStates
<1> QED BY <1>1, <1>3, Zenon DEF Pointer!OwnershipTests, Pointer!None, x

LEMMA ScopesAreTested ==
  ASSUME NEW p \in PointerNames, NEW q \in PointerNames, NEW o \in PointedObjects,
         NEW other \in PointedObjects, p # q, o # other, sp_class = "MyUniquePtr"
  PROVE  Pointer!ScopeTests(p, q, o, other)
<1> DEFINE x == Pointer!OneAndNone(p, q, o)
           u == Pointer!Start
           a == Pointer!New(u, o)
           b == Pointer!New(a, other)
           c == Pointer!Made(b, p, o)
           d == Pointer!Made(c, q, other)
<1>0. o \in Holdings /\ other \in Holdings /\ 0 \in Holdings
  BY DEF Holdings
<1>1. x \in UniqueStates /\ x.ptr[p] = o
  BY OneAndNoneParts
<1> HIDE DEF x
<1>2. o \notin Pointer!Destroyed(x, p).alive
  BY <1>1, DestroyedParts
<1>3. o \notin Pointer!Reset(x, p, 0).alive
  <2>1. /\ Pointer!Reset(x, p, 0) \in UniqueStates
        /\ Pointer!Reset(x, p, 0).ptr = [x.ptr EXCEPT ![p] = 0]
        /\ Pointer!Reset(x, p, 0).alive = x.alive \ {x.ptr[p]}
        /\ Pointer!Reset(x, p, 0).loose = x.loose \ {0}
        /\ (x.ptr[p] = 0 \/ x.ptr[p] \in x.alive) => Pointer!Reset(x, p, 0).undefined = x.undefined
        /\ ~(x.ptr[p] = 0 \/ x.ptr[p] \in x.alive) => Pointer!Reset(x, p, 0).undefined
    BY <1>0, <1>1, ResetParts
  <2> QED BY <1>1, <2>1
<1>4. u \in UniqueStates /\ u.ptr = [r1 \in PointerNames |-> -2] /\ u.alive = {}
  BY StartParts
<1> HIDE DEF u
<1>5. a \in UniqueStates /\ a.ptr = u.ptr /\ a.alive = u.alive \cup {o}
  BY <1>4, NewParts, Zenon
<1> HIDE DEF a
<1>6. b \in UniqueStates /\ b.ptr = a.ptr /\ b.alive = a.alive \cup {other}
  BY <1>5, NewParts, Zenon
<1> HIDE DEF b
<1>7. c \in UniqueStates /\ c.ptr = [b.ptr EXCEPT ![p] = o] /\ c.alive = b.alive
  BY <1>0, <1>6, MadeParts
<1> HIDE DEF c
<1>8. d \in UniqueStates /\ d.ptr = [c.ptr EXCEPT ![q] = other] /\ d.alive = c.alive
  BY <1>0, <1>7, MadeParts
<1> HIDE DEF d
<1>9. d.ptr[p] = o /\ d.alive = {o, other}
  BY <1>4, <1>5, <1>6, <1>7, <1>8
<1>10. Pointer!AssignedReset(d, p, q).alive = d.alive \ {d.ptr[p]}
  <2>1. p # q
    OBVIOUS
  <2>2. /\ Pointer!AssignedReset(d, p, q) \in UniqueStates
        /\ Pointer!AssignedReset(d, p, q).ptr = [d.ptr EXCEPT ![p] = d.ptr[q], ![q] = 0]
        /\ Pointer!AssignedReset(d, p, q).alive = d.alive \ {d.ptr[p]}
        /\ Pointer!AssignedReset(d, p, q).loose = d.loose \ {d.ptr[q]}
        /\ (d.ptr[p] = 0 \/ d.ptr[p] \in d.alive) =>
             Pointer!AssignedReset(d, p, q).undefined = d.undefined
        /\ ~(d.ptr[p] = 0 \/ d.ptr[p] \in d.alive) => Pointer!AssignedReset(d, p, q).undefined
    BY <1>8, <2>1, AssignedResetParts
  <2> QED BY <2>2
<1>11. Pointer!Assigned(d, p, q) = Pointer!AssignedReset(d, p, q)
  BY Zenon DEF Pointer!Assigned
<1>12. Pointer!Assigned(d, p, q).alive = {other}
  BY <1>9, <1>10, <1>11
<1> QED BY <1>2, <1>3, <1>12, Zenon DEF Pointer!ScopeTests, Pointer!None, x, u, a, b, c, d

LEMMA UniqueOwn == UniqueInv => Pointer!OwnedOnce /\ Pointer!NothingUndefined
<1> SUFFICES ASSUME UniqueInv PROVE Pointer!OwnedOnce /\ Pointer!NothingUndefined
  OBVIOUS
<1>1. Pointer!NothingUndefined
  BY Zenon DEF UniqueInv, EmptiedByMoves, Pointer!NothingUndefined
<1>2. ASSUME ~sp_s.undefined, NEW o \in PointedObjects
      PROVE  Pointer!Cardinality(Pointer!OwnersOf(o)) + (IF o \in sp_s.loose THEN 1 ELSE 0)
               = IF o \in sp_s.alive THEN 1 ELSE 0
  <2> DEFINE S == {p \in PointerNames : sp_s.ptr[p] = o}
  <2>1. /\ OwnersAreAlive(sp_s.ptr, sp_s.alive, sp_s.loose)
        /\ OwnersAreUnique(sp_s.ptr)
        /\ AliveAreOwned(sp_s.ptr, sp_s.alive, sp_s.loose)
    BY <1>2, Zenon DEF UniqueInv, Owned
  <2>2. Pointer!Cardinality(Pointer!OwnersOf(o)) = Cardinality(S)
    BY PointerCounts, Zenon DEF Pointer!OwnersOf
  <2>3. Cardinality({}) = 0
    BY FS_EmptySet
  <2>4. CASE o \in sp_s.alive \ sp_s.loose
    <3>1. PICK p \in PointerNames : sp_s.ptr[p] = o
      BY <2>1, <2>4, Zenon DEF AliveAreOwned
    <3>2. S = {p}
      BY <2>1, <3>1 DEF OwnersAreUnique
    <3>3. Cardinality({p}) = 1
      BY FS_Singleton
    <3> HIDE DEF S
    <3> QED BY <2>2, <2>4, <3>2, <3>3
  <2>5. CASE o \notin sp_s.alive \ sp_s.loose
    <3>1. S = {}
      BY <2>1, <2>5 DEF OwnersAreAlive
    <3>2. sp_s.loose \subseteq sp_s.alive
      BY <2>1, Zenon DEF OwnersAreAlive
    <3> HIDE DEF S
    <3> QED BY <2>2, <2>3, <2>5, <3>1, <3>2
  <2> QED BY <2>4, <2>5
<1>3. ASSUME sp_class = "MyUniquePtr"
      PROVE  /\ Pointer!OwnersOf(Pointer!Unset) = {}
             /\ \A p, q \in PointerNames, o, other \in PointedObjects :
                  p # q /\ o # other =>
                    /\ Pointer!EmptinessTests(p, q, o) /\ Pointer!OwnershipTests(p, q, o)
                    /\ Pointer!ScopeTests(p, q, o, other)
  <2>1. Pointer!OwnersOf(Pointer!Unset) = {}
    BY <1>3 DEF UniqueInv, EmptiedByMoves, Pointer!OwnersOf, Pointer!Unset
  <2>2. ASSUME NEW p \in PointerNames, NEW q \in PointerNames, NEW o \in PointedObjects,
               NEW other \in PointedObjects, p # q, o # other
        PROVE  /\ Pointer!EmptinessTests(p, q, o) /\ Pointer!OwnershipTests(p, q, o)
               /\ Pointer!ScopeTests(p, q, o, other)
    BY <1>3, <2>2, EmptinessIsTested, OwnershipIsTested, ScopesAreTested, Zenon
  <2> QED BY <2>1, <2>2, Zenon
<1>4. Pointer!OwnedOnce
  BY <1>2, <1>3, Zenon DEF Pointer!OwnedOnce
<1> QED BY <1>1, <1>4

(* An object is deleted with the last counted pointer to it, unless release() *)
(* was called, and has one unique pointer or the program for an owner:        *)
(* DeletedWithTheLast, OwnedOnce and NothingUndefined, for any pointers and   *)
(* objects.                                                                   *)
THEOREM ObjectsHaveOneOwner ==
  Pointer!Spec => [](Pointer!DeletedWithTheLast /\ Pointer!OwnedOnce /\ Pointer!NothingUndefined)
<1>1. Pointer!Spec => []CountedInv
  BY CountedStarts, CountedSteps, PTL DEF Pointer!Spec
<1>2. Pointer!Spec => []UniqueInv
  BY UniqueStarts, UniqueSteps, PTL DEF Pointer!Spec
<1> QED BY <1>1, <1>2, CountedDelete, UniqueOwn, PTL

-----------------------------------------------------------------------------
(* The vectors: what each has up to its size is the list.                      *)
Element == Elements \cup {"0"}
Holds(data, size, list) ==
  /\ data \in Seq(Element) /\ size \in Nat /\ list \in Seq(Element)
  /\ size = Len(list) /\ size <= Len(data)
  /\ \A i \in 1 .. size : data[i] = list[i]
AreFunctions(data, size, list) ==
  /\ data \in [VectorNames -> Seq(Element)] /\ size \in [VectorNames -> Nat]
  /\ list \in [VectorNames -> Seq(Element)]
VectorInv ==
  bu_at = "running" =>
    AreFunctions(bu_data_, bu_size_, bu_list) /\
    \A n \in VectorNames : Holds(bu_data_[n], bu_size_[n], bu_list[n])

LEMMA VectorsHoldLists == VectorInv => Buffer!VectorsHoldTheirLists
  BY DEF VectorInv, Holds, Buffer!VectorsHoldTheirLists, Buffer!Runs, Buffer!capacity_

LEMMA VectorsStart == Buffer!Init => VectorInv
  BY DEF Buffer!Init, Buffer!VectorInit, Buffer!Empty, VectorInv, AreFunctions, Holds

(* A vector gets another array, size and list; the others are as they were.    *)
LEMMA VectorSet ==
  ASSUME VectorInv, bu_at = "running", NEW n \in VectorNames, NEW d, NEW s, NEW l, Holds(d, s, l),
         bu_data_' = [bu_data_ EXCEPT ![n] = d], bu_size_' = [bu_size_ EXCEPT ![n] = s],
         bu_list' = [bu_list EXCEPT ![n] = l]
  PROVE  VectorInv'
<1>1. AreFunctions(bu_data_, bu_size_, bu_list)
  BY Zenon DEF VectorInv
<1>2. AreFunctions(bu_data_', bu_size_', bu_list')
  BY <1>1 DEF AreFunctions, Holds
<1>3. ASSUME NEW m \in VectorNames PROVE Holds(bu_data_'[m], bu_size_'[m], bu_list'[m])
  <2>1. CASE m = n
    <3>1. bu_data_'[m] = d /\ bu_size_'[m] = s /\ bu_list'[m] = l
      BY <1>1, <2>1 DEF AreFunctions
    <3> QED BY <3>1, Zenon
  <2>2. CASE m # n
    <3>1. bu_data_'[m] = bu_data_[m] /\ bu_size_'[m] = bu_size_[m] /\ bu_list'[m] = bu_list[m]
      BY <1>1, <2>2 DEF AreFunctions
    <3>2. Holds(bu_data_[m], bu_size_[m], bu_list[m])
      BY Zenon DEF VectorInv
    <3> QED BY <3>1, <3>2, Zenon
  <2> QED BY <2>1, <2>2
<1>4. AreFunctions(bu_data_, bu_size_, bu_list)' /\
      \A m \in VectorNames : Holds(bu_data_[m], bu_size_[m], bu_list[m])'
  BY <1>2, <1>3, Zenon DEF AreFunctions, Holds
<1> QED BY <1>4, Zenon DEF VectorInv

(* A longer array has what the shorter one had, and the default behind it.     *)
LEMMA Longer ==
  ASSUME NEW d, NEW s, NEW l, Holds(d, s, l), NEW k \in Nat, k > Len(d)
  PROVE  LET e == [i \in 1 .. k |-> IF i <= s THEN d[i] ELSE "0"]
         IN  e \in Seq(Element) /\ Len(e) = k /\ Holds(e, s, l)
<1> DEFINE e == [i \in 1 .. k |-> IF i <= s THEN d[i] ELSE "0"]
<1>1. \A i \in 1 .. k : e[i] \in Element
  BY DEF Holds, Element
<1>2. e \in Seq(Element) /\ Len(e) = k
  BY <1>1
<1>3. Holds(e, s, l)
  BY <1>1, <1>2 DEF Holds
<1> QED BY <1>2, <1>3

LEMMA VectorFacts ==
  ASSUME VectorInv, bu_at = "running", NEW n \in VectorNames
  PROVE  /\ Holds(bu_data_[n], bu_size_[n], bu_list[n])
         /\ AreFunctions(bu_data_, bu_size_, bu_list)
         /\ [bu_data_ EXCEPT ![n] = bu_data_[n]] = bu_data_
         /\ [bu_size_ EXCEPT ![n] = bu_size_[n]] = bu_size_
         /\ [bu_list EXCEPT ![n] = bu_list[n]] = bu_list
<1>1. Holds(bu_data_[n], bu_size_[n], bu_list[n]) /\ AreFunctions(bu_data_, bu_size_, bu_list)
  BY Zenon DEF VectorInv
<1> QED BY <1>1 DEF AreFunctions

LEMMA Reserves ==
  ASSUME VectorInv, NEW n \in VectorNames, NEW k \in Nat, Buffer!Reserve(n, k)
  PROVE  VectorInv'
<1> SUFFICES ASSUME bu_at' = "running" PROVE VectorInv'
  BY Zenon DEF VectorInv
<1> DEFINE d == Buffer!Reserved(n, k)
<1>1. /\ bu_at = "running" /\ bu_data_' = [bu_data_ EXCEPT ![n] = d]
      /\ bu_size_' = bu_size_ /\ bu_list' = bu_list
  <2>1. "undefined" # "running"
    OBVIOUS
  <2> QED BY <2>1, Zenon DEF Buffer!Reserve, Buffer!Runs, Buffer!Undefined
<1>2. Holds(bu_data_[n], bu_size_[n], bu_list[n])
  BY <1>1, VectorFacts, Zenon
<1>3. Holds(d, bu_size_[n], bu_list[n])
  <2>1. CASE k > Len(bu_data_[n])
    BY <1>2, <2>1, Longer DEF Buffer!Reserved, Buffer!capacity_
  <2>2. CASE ~(k > Len(bu_data_[n]))
    BY <1>2, <2>2, Zenon DEF Buffer!Reserved, Buffer!capacity_
  <2> QED BY <2>1, <2>2
<1> DEFINE s == bu_size_[n]
           l == bu_list[n]
<1>4. bu_size_' = [bu_size_ EXCEPT ![n] = s] /\ bu_list' = [bu_list EXCEPT ![n] = l]
  BY <1>1, VectorFacts
<1>5. Holds(d, s, l)
  BY <1>3
<1> HIDE DEF d, s, l
<1> QED BY <1>1, <1>4, <1>5, VectorSet

LEMMA PushesBack ==
  ASSUME VectorInv, NEW n \in VectorNames, NEW v \in Elements, Buffer!PushBack(n, v)
  PROVE  VectorInv'
<1> SUFFICES ASSUME bu_at' = "running" PROVE VectorInv'
  BY Zenon DEF VectorInv
<1> DEFINE k == IF bu_size_[n] = Len(bu_data_[n]) THEN Len(bu_data_[n]) * 2 ELSE 0
           e == Buffer!Reserved(n, k)
           i == bu_size_[n] + 1
           d == [e EXCEPT ![i] = v]
           l == Append(bu_list[n], v)
<1>1. /\ bu_at = "running" /\ bu_data_' = [bu_data_ EXCEPT ![n] = d]
      /\ bu_size_' = [bu_size_ EXCEPT ![n] = i] /\ bu_list' = [bu_list EXCEPT ![n] = Append(@, v)]
      /\ ~(i > Len(e))
  <2>1. "undefined" # "running"
    OBVIOUS
  <2> QED BY <2>1, Zenon DEF Buffer!PushBack, Buffer!Runs, Buffer!Undefined, Buffer!capacity_
<1>2. Holds(bu_data_[n], bu_size_[n], bu_list[n])
  BY <1>1, VectorFacts, Zenon
<1>3. k \in Nat
  BY <1>2 DEF Holds
<1>4. Holds(e, bu_size_[n], bu_list[n])
  <2> HIDE DEF k
  <2>1. CASE k > Len(bu_data_[n])
    BY <1>2, <1>3, <2>1, Longer DEF Buffer!Reserved, Buffer!capacity_
  <2>2. CASE ~(k > Len(bu_data_[n]))
    BY <1>2, <2>2, Zenon DEF Buffer!Reserved, Buffer!capacity_
  <2> QED BY <2>1, <2>2
<1> HIDE DEF e, k
<1>5. Holds(d, i, l)
  BY <1>1, <1>4 DEF Holds, Element
<1>6. bu_list' = [bu_list EXCEPT ![n] = l]
  BY <1>1, Zenon
<1> HIDE DEF d, i, l
<1> QED BY <1>1, <1>5, <1>6, VectorSet

LEMMA Resizes ==
  ASSUME VectorInv, NEW n \in VectorNames, NEW k \in Nat, Buffer!Resize(n, k)
  PROVE  VectorInv'
<1> SUFFICES ASSUME bu_at' = "running" PROVE VectorInv'
  BY Zenon DEF VectorInv
<1> DEFINE l == Buffer!Listed(n, k)
           d == [i \in DOMAIN bu_data_[n] |-> IF i \in Buffer!Assigned(n, k)
                THEN "0" ELSE bu_data_[n][i]]
<1>1. /\ bu_at = "running" /\ bu_size_' = [bu_size_ EXCEPT ![n] = k]
      /\ bu_list' = [bu_list EXCEPT ![n] = l]
      /\ \/ k <= bu_size_[n] /\ bu_data_' = bu_data_
         \/ k > bu_size_[n] /\ k <= Len(bu_data_[n]) /\ bu_data_' = [bu_data_ EXCEPT ![n] = d]
         \/ k > Len(bu_data_[n]) /\ bu_data_' = [bu_data_ EXCEPT ![n] = Buffer!Reserved(n, k)]
  <2>1. "undefined" # "running"
    OBVIOUS
  <2> QED BY <2>1, Zenon DEF Buffer!Resize, Buffer!Runs, Buffer!capacity_
<1>2. Holds(bu_data_[n], bu_size_[n], bu_list[n])
  BY <1>1, VectorFacts, Zenon
<1>3. l \in Seq(Element) /\ Len(l) = k
      /\ \A i \in 1 .. k : l[i] = IF i <= bu_size_[n] THEN bu_list[n][i] ELSE "0"
  <2>1. l = [i \in 1 .. k |-> IF i <= bu_size_[n] THEN bu_list[n][i] ELSE "0"]
    BY <1>2 DEF Buffer!Listed, Holds
  <2>2. \A i \in 1 .. k : l[i] \in Element
    BY <1>2, <2>1 DEF Holds, Element
  <2> HIDE DEF l
  <2>3. l \in Seq(Element) /\ Len(l) = k
    BY <2>1, <2>2
  <2> QED BY <2>1, <2>3
<1>4. CASE k <= bu_size_[n] /\ bu_data_' = bu_data_
  <2>1. Holds(bu_data_[n], k, l)
    <3> HIDE DEF l
    <3> QED BY <1>2, <1>3, <1>4 DEF Holds
  <2>2. bu_data_' = [bu_data_ EXCEPT ![n] = bu_data_[n]]
    BY <1>1, <1>4, VectorFacts
  <2> HIDE DEF l
  <2> QED BY <1>1, <2>1, <2>2, VectorSet
<1>5. CASE k > bu_size_[n] /\ k <= Len(bu_data_[n]) /\ bu_data_' = [bu_data_ EXCEPT ![n] = d]
  <2>1. d \in Seq(Element) /\ Len(d) = Len(bu_data_[n])
    BY <1>2 DEF Holds, Element
  <2>2. \A i \in 1 .. k : d[i] = IF i <= bu_size_[n] THEN bu_data_[n][i] ELSE "0"
    BY <1>2, <1>5 DEF Holds, Buffer!Assigned
  <2> HIDE DEF l, d
  <2>3. Holds(d, k, l)
    BY <1>2, <1>3, <1>5, <2>1, <2>2 DEF Holds
  <2> QED BY <1>1, <1>5, <2>3, VectorSet
<1>6. CASE k > Len(bu_data_[n]) /\ bu_data_' = [bu_data_ EXCEPT ![n] = Buffer!Reserved(n, k)]
  <2> DEFINE e == [i \in 1 .. k |-> IF i <= bu_size_[n] THEN bu_data_[n][i] ELSE "0"]
  <2>1. Buffer!Reserved(n, k) = e
    BY <1>6, Zenon DEF Buffer!Reserved, Buffer!capacity_
  <2>2. e \in Seq(Element) /\ Len(e) = k
    BY <1>2, <1>6, Longer
  <2>3. \A i \in 1 .. k : e[i] = IF i <= bu_size_[n] THEN bu_data_[n][i] ELSE "0"
    OBVIOUS
  <2> HIDE DEF l, e
  <2>4. Holds(e, k, l)
    BY <1>2, <1>3, <2>2, <2>3 DEF Holds
  <2> QED BY <1>1, <1>6, <2>1, <2>4, VectorSet
<1> QED BY <1>1, <1>4, <1>5, <1>6

LEMMA CopyAssigns ==
  ASSUME VectorInv, NEW n \in VectorNames, NEW that \in VectorNames, Buffer!CopyAssign(n, that)
  PROVE  VectorInv'
<1> SUFFICES ASSUME bu_at' = "running" PROVE VectorInv'
  BY Zenon DEF VectorInv
<1> DEFINE d == [i \in DOMAIN bu_data_[that] |-> IF i <= bu_size_[that]
         THEN bu_data_[that][i] ELSE "0"]
<1>1. /\ bu_at = "running" /\ bu_data_' = [bu_data_ EXCEPT ![n] = d]
      /\ bu_size_' = [bu_size_ EXCEPT ![n] = bu_size_[that]]
      /\ bu_list' = [bu_list EXCEPT ![n] = bu_list[that]]
  <2>1. "undefined" # "running"
    OBVIOUS
  <2> QED BY <2>1, Zenon DEF Buffer!CopyAssign, Buffer!Runs, Buffer!Undefined
<1>2. Holds(bu_data_[that], bu_size_[that], bu_list[that])
  BY <1>1, VectorFacts, Zenon
<1>3. d \in Seq(Element) /\ Len(d) = Len(bu_data_[that])
  BY <1>2 DEF Holds, Element
<1>4. \A i \in 1 .. bu_size_[that] : d[i] = bu_data_[that][i]
  BY <1>2 DEF Holds
<1> HIDE DEF d
<1>5. Holds(d, bu_size_[that], bu_list[that])
  BY <1>2, <1>3, <1>4 DEF Holds
<1> QED BY <1>1, <1>5, VectorSet

LEMMA MoveAssigns ==
  ASSUME VectorInv, NEW n \in VectorNames, NEW that \in VectorNames, Buffer!MoveAssign(n, that)
  PROVE  VectorInv'
<1> SUFFICES ASSUME bu_at' = "running" PROVE VectorInv'
  BY Zenon DEF VectorInv
<1>1. /\ bu_at = "running" /\ n # that
      /\ bu_data_' = [bu_data_ EXCEPT ![n] = bu_data_[that], ![that] = bu_data_[n]]
      /\ bu_size_' = [bu_size_ EXCEPT ![n] = bu_size_[that], ![that] = bu_size_[n]]
      /\ bu_list' = [bu_list EXCEPT ![n] = bu_list[that], ![that] = bu_list[n]]
  BY Zenon DEF Buffer!MoveAssign, Buffer!Runs, Buffer!Swapped
<1>2. AreFunctions(bu_data_, bu_size_, bu_list)
  BY <1>1, VectorFacts, Zenon
<1>3. AreFunctions(bu_data_, bu_size_, bu_list)'
  BY <1>1, <1>2 DEF AreFunctions
<1>4. ASSUME NEW m \in VectorNames PROVE Holds(bu_data_[m], bu_size_[m], bu_list[m])'
  <2>1. PICK q \in VectorNames :
          bu_data_'[m] = bu_data_[q] /\ bu_size_'[m] = bu_size_[q] /\ bu_list'[m] = bu_list[q]
    BY <1>1, <1>2 DEF AreFunctions
  <2>2. Holds(bu_data_[q], bu_size_[q], bu_list[q])
    BY <1>1, VectorFacts, Zenon
  <2> QED BY <2>1, <2>2, Zenon DEF Holds
<1> QED BY <1>3, <1>4, Zenon DEF VectorInv

LEMMA VectorDestroys ==
  ASSUME VectorInv, NEW n \in VectorNames, Buffer!Destroy(n)
  PROVE  VectorInv'
<1> SUFFICES ASSUME bu_at' = "running" PROVE VectorInv'
  BY Zenon DEF VectorInv
<1>1. /\ bu_at = "running" /\ bu_data_' = [bu_data_ EXCEPT ![n] = <<>>]
      /\ bu_size_' = [bu_size_ EXCEPT ![n] = 0] /\ bu_list' = [bu_list EXCEPT ![n] = <<>>]
  <2>1. "undefined" # "running"
    OBVIOUS
  <2> QED BY <2>1, Zenon DEF Buffer!Destroy, Buffer!Runs, Buffer!Undefined
<1>2. Holds(<<>>, 0, <<>>)
  BY DEF Holds
<1> QED BY <1>1, <1>2, VectorSet

LEMMA VectorSteps == VectorInv /\ [Buffer!Next]_Buffer!vars => VectorInv'
<1> SUFFICES ASSUME VectorInv, [Buffer!Next]_Buffer!vars PROVE VectorInv'
  OBVIOUS
<1>1. CASE UNCHANGED <<Buffer!vectorVars, bu_at>>
  BY <1>1, Zenon DEF VectorInv, AreFunctions, Holds, Buffer!vectorVars
<1>2. CASE Buffer!VectorNext
  <2>1. \A m \in 1 .. MaxElements : m \in Nat /\ m - 1 \in Nat
    BY StorageAssumption DEF StorageAssumption
  <2> QED BY <1>2, <2>1, Reserves, PushesBack, Resizes, CopyAssigns, MoveAssigns,
           VectorDestroys, Zenon
          DEF Buffer!VectorNext
<1>3. CASE Buffer!StreamNext /\ UNCHANGED Buffer!vectorVars
  <2>1. bu_at = "running"
    BY <1>3, Zenon DEF Buffer!StreamNext, Buffer!Seek, Buffer!try_parse_fixed_width,
       Buffer!try_parse_variable_exp_golomb, Buffer!ReadsStream
  <2> QED BY <1>3, <2>1, Zenon DEF VectorInv, AreFunctions, Holds, Buffer!vectorVars
<1> QED BY <1>1, <1>2, <1>3, Zenon DEF Buffer!Next, Buffer!vars

(* Every vector holds what the one of the library would hold, whatever was    *)
(* reserved, cut off, copied and moved: VectorsHoldTheirLists, for any        *)
(* vectors, elements and sizes.                                               *)
THEOREM VectorsKeepTheirLists == Buffer!Spec => []Buffer!VectorsHoldTheirLists
<1>1. Buffer!Spec => []VectorInv
  BY VectorsStart, VectorSteps, PTL DEF Buffer!Spec
<1> QED BY <1>1, VectorsHoldLists, PTL

-----------------------------------------------------------------------------
LEMMA SomeIsLeast ==
  ASSUME NEW S, S \subseteq Nat, S # {}
  PROVE  \E x \in S : \A y \in S : x <= y
<1>1. PICK x \in S : \A y \in S : <<y, x>> \notin OpToRel(<, Nat)
  BY WFMin, NatLessThanWellFounded, Zenon
<1>2. \A y \in S : ~ (y < x)
  BY <1>1, Zenon DEF OpToRel
<1> QED BY <1>2

(* The items of a buffer: f counts the m free ones through, as they are linked. *)
ItemsOf(n) == 0 .. n - 1
Lists(n, head, index, given, m, f) ==
  /\ m \in 0 .. n /\ f \in [0 .. m -> Nat]
  /\ f[0] = head /\ f[m] = n
  /\ \A j \in 0 .. m - 1 : f[j] \in ItemsOf(n) \ given /\ index[f[j]] = f[j + 1]
ListsAll(n, given, m, f) ==
  /\ \A x \in ItemsOf(n) \ given : \E j \in 0 .. m - 1 : f[j] = x
  /\ \A j, k \in 0 .. m - 1 : f[j] = f[k] => j = k
  /\ Cardinality(given) + m = n
IsListed(n, head, index, given) ==
  \E m \in 0 .. n : \E f \in [0 .. m -> Nat] :
    Lists(n, head, index, given, m, f) /\ ListsAll(n, given, m, f)
ItemsTypeOK ==
  /\ mb_N \in Nat /\ mb_given \subseteq ItemsOf(mb_N) /\ mb_head_ \in Nat
  /\ mb_index \in [ItemsOf(mb_N) -> Nat]
NotYetThere == ~mb_mem_ => mb_allocator # "static_item" /\ mb_head_ = 0 /\ mb_given = {}
ItemInv ==
  /\ ItemsTypeOK /\ NotYetThere
  /\ (mb_mem_ /\ (mb_allocator = "static_item" => mb_N < ItemWord)) =>
       /\ IsListed(mb_N, mb_head_, mb_index, mb_given)
       /\ mb_failed => mb_given = ItemsOf(mb_N)

(* The path from the head goes through the free items, and stays at the end.   *)
LEMMA PathIsList ==
  ASSUME mb_N \in Nat, NEW m, NEW f, Lists(mb_N, mb_head_, mb_index, mb_given, m, f),
         ListsAll(mb_N, mb_given, m, f)
  PROVE  Blocks!FreeItems = (Blocks!Items \ mb_given) \cup {mb_N}
<1> DEFINE Next1(p) ==
             [i \in 0 .. mb_N + 1 |->
                IF i = 0 THEN mb_head_
                ELSE IF p[i - 1] \in Blocks!Items THEN mb_index[p[i - 1]] ELSE p[i - 1]]
           path == CHOOSE p : p = Next1(p)
           q == [i \in 0 .. mb_N + 1 |-> IF i <= m THEN f[i] ELSE mb_N]
<1>0. m \in 0 .. mb_N /\ f \in [0 .. m -> Nat] /\ f[0] = mb_head_ /\ f[m] = mb_N
  BY DEF Lists
<1>1. \A i \in 1 .. mb_N + 1 :
        q[i] = IF q[i - 1] \in Blocks!Items THEN mb_index[q[i - 1]] ELSE q[i - 1]
  <2> SUFFICES ASSUME NEW i \in 1 .. mb_N + 1
               PROVE  q[i] = IF q[i - 1] \in Blocks!Items THEN mb_index[q[i - 1]] ELSE q[i - 1]
    OBVIOUS
  <2>1. CASE i <= m
    <3>1. i - 1 \in 0 .. m - 1 /\ q[i - 1] = f[i - 1] /\ q[i] = f[i]
      BY <1>0, <2>1
    <3>2. f[i - 1] \in ItemsOf(mb_N) /\ mb_index[f[i - 1]] = f[(i - 1) + 1]
      BY <3>1 DEF Lists
    <3>3. (i - 1) + 1 = i
      OBVIOUS
    <3> QED BY <3>1, <3>2, <3>3 DEF Blocks!Items, ItemsOf
  <2>2. CASE ~(i <= m)
    <3>1. q[i] = mb_N /\ q[i - 1] = mb_N
      BY <1>0, <2>2
    <3>2. mb_N \notin Blocks!Items
      BY DEF Blocks!Items
    <3> QED BY <3>1, <3>2
  <2> QED BY <2>1, <2>2
<1>2. q = Next1(q)
  <2>1. q[0] = mb_head_
    BY <1>0
  <2> HIDE DEF q
  <2>2. Next1(q) = [i \in 0 .. mb_N + 1 |-> q[i]]
    BY <1>1, <2>1
  <2>3. q = [i \in 0 .. mb_N + 1 |-> q[i]]
    BY DEF q
  <2> QED BY <2>2, <2>3
<1> HIDE DEF q
<1>3. path = Next1(path)
  <2> HIDE DEF Next1
  <2> QED BY <1>2, Zenon
<1>4. Blocks!FreeItems = {path[i] : i \in 0 .. mb_N + 1}
  BY Zenon DEF Blocks!FreeItems
<1> HIDE DEF path
<1>5. \A i \in 0 .. mb_N + 1 : path[i] = q[i]
  <2> SUFFICES ASSUME \E i \in 0 .. mb_N + 1 : path[i] # q[i] PROVE FALSE
    OBVIOUS
  <2> DEFINE S == {i \in 0 .. mb_N + 1 : path[i] # q[i]}
  <2>1. PICK x \in S : \A y \in S : x <= y
    <3>1. S \subseteq Nat /\ S # {}
      OBVIOUS
    <3> HIDE DEF S
    <3> QED BY <3>1, SomeIsLeast
  <2>2. x # 0
    <3>1. path[0] = mb_head_ /\ q[0] = mb_head_
      BY <1>2, <1>3
    <3> QED BY <3>1
  <2>3. x - 1 \in 0 .. mb_N + 1 /\ x - 1 \notin S /\ x \in 1 .. mb_N + 1
    BY <2>1, <2>2
  <2>4. path[x - 1] = q[x - 1]
    BY <2>3
  <2>5. path[x] = IF path[x - 1] \in Blocks!Items THEN mb_index[path[x - 1]] ELSE path[x - 1]
    BY <1>3, <2>3
  <2> QED BY <1>1, <2>3, <2>4, <2>5
<1>6. Blocks!FreeItems = {q[i] : i \in 0 .. mb_N + 1}
  BY <1>4, <1>5
<1>7. \A i \in 0 .. mb_N + 1 : q[i] \in (Blocks!Items \ mb_given) \cup {mb_N}
  <2> SUFFICES ASSUME NEW i \in 0 .. mb_N + 1 PROVE q[i] \in (Blocks!Items \ mb_given) \cup {mb_N}
    OBVIOUS
  <2>1. CASE i \in 0 .. m - 1
    <3>1. q[i] = f[i]
      BY <1>0, <2>1 DEF q
    <3> QED BY <2>1, <3>1 DEF Lists, Blocks!Items, ItemsOf
  <2>2. CASE i \notin 0 .. m - 1
    BY <1>0, <2>2 DEF q
  <2> QED BY <2>1, <2>2
<1>8. \A x \in (Blocks!Items \ mb_given) \cup {mb_N} : \E i \in 0 .. mb_N + 1 : q[i] = x
  <2>1. q[m] = mb_N /\ m \in 0 .. mb_N + 1
    BY <1>0 DEF q
  <2>2. ASSUME NEW x \in Blocks!Items \ mb_given PROVE \E i \in 0 .. mb_N + 1 : q[i] = x
    <3>1. PICK j \in 0 .. m - 1 : f[j] = x
      BY <2>2, Zenon DEF ListsAll, Blocks!Items, ItemsOf
    <3>2. j \in 0 .. mb_N + 1 /\ q[j] = f[j]
      BY <1>0 DEF q
    <3> QED BY <3>1, <3>2
  <2> QED BY <2>1, <2>2
<1> QED BY <1>6, <1>7, <1>8

LEMMA ItemsOnce == ItemInv => Blocks!ItemsAreGivenOnce
<1> SUFFICES ASSUME ItemInv, mb_mem_, mb_allocator = "static_item" => mb_N < ItemWord
             PROVE  /\ Blocks!FreeItems = (Blocks!Items \ mb_given) \cup {mb_N}
                    /\ mb_failed => mb_given = Blocks!Items
  BY Zenon DEF Blocks!ItemsAreGivenOnce
<1>1. mb_N \in Nat /\ IsListed(mb_N, mb_head_, mb_index, mb_given)
      /\ (mb_failed => mb_given = ItemsOf(mb_N))
  BY Zenon DEF ItemInv, ItemsTypeOK
<1>2. PICK m \in 0 .. mb_N : \E f \in [0 .. m -> Nat] :
        Lists(mb_N, mb_head_, mb_index, mb_given, m, f) /\ ListsAll(mb_N, mb_given, m, f)
  BY <1>1, Zenon DEF IsListed
<1> QED BY <1>1, <1>2, PathIsList, Zenon DEF Blocks!Items, ItemsOf

(* The items as they are linked in the beginning.                              *)
LEMMA ItemsFinite ==
  ASSUME NEW n \in Nat, NEW given, given \subseteq ItemsOf(n)
  PROVE  IsFiniteSet(given) /\ Cardinality(given) \in Nat
<1>1. 0 \in Int /\ n - 1 \in Int
  OBVIOUS
<1>2. IsFiniteSet(0 .. n - 1)
  BY <1>1, FS_Interval, Zenon
<1>3. IsFiniteSet(given)
  BY <1>2, FS_Subset, Zenon DEF ItemsOf
<1> QED BY <1>3, FS_CardinalityType

LEMMA AllAreListed ==
  ASSUME NEW n \in Nat, NEW index, \A i \in ItemsOf(n) : index[i] = i + 1
  PROVE  IsListed(n, 0, index, {})
<1> DEFINE f == [i \in 0 .. n |-> i]
<1>1. Lists(n, 0, index, {}, n, f)
  BY DEF Lists, ItemsOf
<1>2. Cardinality({}) = 0
  BY FS_EmptySet
<1>3. ListsAll(n, {}, n, f)
  <2>1. \A x \in ItemsOf(n) \ {} : \E j \in 0 .. n - 1 : f[j] = x
    BY DEF ItemsOf
  <2>2. \A j, k \in 0 .. n - 1 : f[j] = f[k] => j = k
    OBVIOUS
  <2>3. Cardinality({}) + n = n
    BY <1>2
  <2> HIDE DEF f
  <2> QED BY <2>1, <2>2, <2>3, Zenon DEF ListsAll
<1>4. n \in 0 .. n /\ f \in [0 .. n -> Nat]
  OBVIOUS
<1> QED BY <1>1, <1>3, <1>4, Zenon DEF IsListed

(* The first of the list is given.                                             *)
LEMMA FirstIsGiven ==
  ASSUME NEW n \in Nat, NEW head \in ItemsOf(n), NEW index, NEW given \in SUBSET ItemsOf(n),
         IsListed(n, head, index, given)
  PROVE  head \notin given /\ IsListed(n, index[head], index, given \cup {head})
<1>0. PICK m \in 0 .. n : \E f \in [0 .. m -> Nat] :
        Lists(n, head, index, given, m, f) /\ ListsAll(n, given, m, f)
  BY Zenon DEF IsListed
<1>1. PICK f \in [0 .. m -> Nat] :
        Lists(n, head, index, given, m, f) /\ ListsAll(n, given, m, f)
  BY <1>0, Zenon
<1>2. /\ f[0] = head /\ f[m] = n
      /\ \A j \in 0 .. m - 1 : f[j] \in ItemsOf(n) \ given /\ index[f[j]] = f[j + 1]
  BY <1>1, Zenon DEF Lists
<1>3. m # 0
  BY <1>2 DEF ItemsOf
<1>4. 0 \in 0 .. m - 1 /\ m - 1 \in 0 .. n
  BY <1>3
<1>5. head \notin given /\ index[head] = f[1]
  BY <1>2, <1>4
<1> DEFINE g == [j \in 0 .. m - 1 |-> f[j + 1]]
<1>6. \A j \in 0 .. m - 1 : g[j] = f[j + 1]
  OBVIOUS
<1>7. g \in [0 .. m - 1 -> Nat]
  OBVIOUS
<1> HIDE DEF g
<1>8. \A j, k \in 0 .. m - 1 : f[j] = f[k] => j = k
  BY <1>1, Zenon DEF ListsAll
<1>9. Lists(n, index[head], index, given \cup {head}, m - 1, g)
  <2>1. g[0] = index[head] /\ g[m - 1] = n
    BY <1>2, <1>4, <1>5, <1>6
  <2>2. ASSUME NEW j \in 0 .. (m - 1) - 1
        PROVE  g[j] \in ItemsOf(n) \ (given \cup {head}) /\ index[g[j]] = g[j + 1]
    <3>1. j + 1 \in 0 .. m - 1 /\ j \in 0 .. m - 1 /\ j + 1 # 0
      OBVIOUS
    <3>2. g[j] = f[j + 1] /\ g[j + 1] = f[(j + 1) + 1]
      BY <1>6, <3>1
    <3>3. f[j + 1] # head
      BY <1>2, <1>4, <1>8, <3>1
    <3> QED BY <1>2, <3>1, <3>2, <3>3
  <2> QED BY <1>4, <1>7, <2>1, <2>2 DEF Lists
<1>10. Cardinality(given \cup {head}) = Cardinality(given) + 1 /\ Cardinality(given) \in Nat
  <2>1. IsFiniteSet(given)
    BY ItemsFinite
  <2> QED BY <1>5, <2>1, FS_AddElement, FS_CardinalityType
<1>11. ListsAll(n, given \cup {head}, m - 1, g)
  <2>1. ASSUME NEW x \in ItemsOf(n) \ (given \cup {head})
        PROVE  \E j \in 0 .. (m - 1) - 1 : g[j] = x
    <3>1. PICK k \in 0 .. m - 1 : f[k] = x
      BY <1>1, <2>1, Zenon DEF ListsAll
    <3>2. k # 0
      BY <1>2, <2>1, <3>1
    <3>3. k - 1 \in 0 .. (m - 1) - 1 /\ g[k - 1] = f[k]
      BY <1>6, <3>1, <3>2
    <3> QED BY <3>1, <3>3
  <2>2. ASSUME NEW j \in 0 .. (m - 1) - 1, NEW k \in 0 .. (m - 1) - 1, g[j] = g[k] PROVE j = k
    <3>1. j + 1 \in 0 .. m - 1 /\ k + 1 \in 0 .. m - 1 /\ f[j + 1] = f[k + 1]
      BY <1>6, <2>2
    <3>2. j + 1 = k + 1
      BY <1>8, <3>1
    <3> QED BY <3>2
  <2>3. Cardinality(given) + m = n
    BY <1>1, Zenon DEF ListsAll
  <2>4. Cardinality(given \cup {head}) + (m - 1) = n
    BY <1>10, <2>3
  <2> QED BY <2>1, <2>2, <2>4 DEF ListsAll
<1> QED BY <1>4, <1>5, <1>7, <1>9, <1>11, Zenon DEF IsListed

(* What comes back is the first of the list.                                   *)
LEMMA GivenIsListed ==
  ASSUME NEW n \in Nat, NEW head, NEW index \in [ItemsOf(n) -> Nat],
         NEW given \in SUBSET ItemsOf(n), NEW item \in given, IsListed(n, head, index, given)
  PROVE  head \in 0 .. n /\ IsListed(n, item, [index EXCEPT ![item] = head], given \ {item})
<1>0. PICK m \in 0 .. n : \E f \in [0 .. m -> Nat] :
        Lists(n, head, index, given, m, f) /\ ListsAll(n, given, m, f)
  BY Zenon DEF IsListed
<1>1. PICK f \in [0 .. m -> Nat] :
        Lists(n, head, index, given, m, f) /\ ListsAll(n, given, m, f)
  BY <1>0, Zenon
<1>2. /\ f[0] = head /\ f[m] = n
      /\ \A j \in 0 .. m - 1 : f[j] \in ItemsOf(n) \ given /\ index[f[j]] = f[j + 1]
  BY <1>1, Zenon DEF Lists
<1> DEFINE links == [index EXCEPT ![item] = head]
           g == [j \in 0 .. m + 1 |-> IF j = 0 THEN item ELSE f[j - 1]]
<1>3. head \in 0 .. n
  <2>1. CASE m = 0
    BY <1>2, <2>1
  <2>2. CASE m # 0
    <3>1. 0 \in 0 .. m - 1
      BY <2>2
    <3> QED BY <1>2, <3>1 DEF ItemsOf
  <2> QED BY <2>1, <2>2
<1>4. /\ links[item] = head /\ \A i \in ItemsOf(n) \ {item} : links[i] = index[i]
      /\ item \in ItemsOf(n) /\ item \in Nat
  BY DEF ItemsOf
<1>5. g[0] = item /\ \A j \in 1 .. m + 1 : g[j] = f[j - 1]
  OBVIOUS
<1>6. g \in [0 .. m + 1 -> Nat]
  BY <1>4
<1> HIDE DEF links, g
<1>7. IsFiniteSet(given)
  BY ItemsFinite
<1>8. Cardinality(given \ {item}) = Cardinality(given) - 1 /\ Cardinality(given) \in Nat
  BY <1>7, FS_RemoveElement, FS_CardinalityType
<1>9. Cardinality(given) >= 1
  <2>1. Cardinality(given \ {item}) \in Nat
    BY <1>7, FS_RemoveElement, FS_CardinalityType
  <2> QED BY <1>8, <2>1
<1>10. Cardinality(given) + m = n
  BY <1>1, Zenon DEF ListsAll
<1>11. m + 1 \in 0 .. n /\ Cardinality(given \ {item}) + (m + 1) = n
  BY <1>8, <1>9, <1>10
<1>12. Lists(n, item, links, given \ {item}, m + 1, g)
  <2>1. g[m + 1] = n
    BY <1>2, <1>5
  <2>2. ASSUME NEW j \in 0 .. (m + 1) - 1
        PROVE  g[j] \in ItemsOf(n) \ (given \ {item}) /\ links[g[j]] = g[j + 1]
    <3>1. CASE j = 0
      <4>1. g[j] = item /\ g[j + 1] = f[0]
        BY <1>5, <3>1
      <4> QED BY <1>2, <1>4, <4>1
    <3>2. CASE j # 0
      <4>1. j - 1 \in 0 .. m - 1 /\ g[j] = f[j - 1] /\ g[j + 1] = f[(j - 1) + 1]
        BY <1>5, <3>2
      <4>2. f[j - 1] \in ItemsOf(n) \ given /\ index[f[j - 1]] = f[(j - 1) + 1]
        BY <1>2, <4>1
      <4>3. f[j - 1] # item
        BY <4>2
      <4> QED BY <1>4, <4>1, <4>2, <4>3
    <3> QED BY <3>1, <3>2
  <2> QED BY <1>5, <1>6, <1>11, <2>1, <2>2 DEF Lists
<1>13. ListsAll(n, given \ {item}, m + 1, g)
  <2>1. ASSUME NEW x \in ItemsOf(n) \ (given \ {item})
        PROVE  \E j \in 0 .. (m + 1) - 1 : g[j] = x
    <3>1. CASE x = item
      BY <1>5, <3>1
    <3>2. CASE x # item
      <4>1. PICK k \in 0 .. m - 1 : f[k] = x
        BY <1>1, <2>1, <3>2, Zenon DEF ListsAll
      <4>2. k + 1 \in 0 .. (m + 1) - 1 /\ g[k + 1] = f[k]
        BY <1>5, <4>1
      <4> QED BY <4>1, <4>2
    <3> QED BY <3>1, <3>2
  <2>2. ASSUME NEW j \in 0 .. (m + 1) - 1, NEW k \in 0 .. (m + 1) - 1, g[j] = g[k] PROVE j = k
    <3>1. \A i \in 0 .. m - 1 : f[i] # item
      BY <1>2
    <3>2. \A i, l \in 0 .. m - 1 : f[i] = f[l] => i = l
      BY <1>1, Zenon DEF ListsAll
    <3>3. \A i \in 0 .. (m + 1) - 1 : i # 0 => i - 1 \in 0 .. m - 1 /\ g[i] = f[i - 1]
      BY <1>5
    <3>4. CASE j = 0 \/ k = 0
      BY <1>5, <2>2, <3>1, <3>3, <3>4
    <3>5. CASE j # 0 /\ k # 0
      <4>1. j - 1 = k - 1
        BY <2>2, <3>2, <3>3, <3>5
      <4> QED BY <4>1
    <3> QED BY <3>4, <3>5
  <2> QED BY <1>11, <2>1, <2>2 DEF ListsAll
<1>14. IsListed(n, item, links, given \ {item})
  BY <1>6, <1>11, <1>12, <1>13, Zenon DEF IsListed
<1> QED BY <1>3, <1>14 DEF links

LEMMA ItemsStart == Blocks!Init => ItemInv
<1> SUFFICES ASSUME Blocks!Init PROVE ItemInv
  OBVIOUS
<1>1. /\ mb_N \in (IF mb_allocator \in {"static_item", "fixed_item"} THEN ItemSizes ELSE {0})
      /\ mb_mem_ = (mb_allocator = "static_item") /\ mb_given = {} /\ mb_failed = FALSE
      /\ mb_index = IF mb_mem_ THEN Blocks!StaticLinks ELSE [i \in Blocks!Items |-> 0]
      /\ mb_head_ = 0
  BY Zenon DEF Blocks!Init, Blocks!ItemInit
<1>2. ItemSizes \subseteq Nat /\ ItemWord \in Nat \ {0}
  BY StorageAssumption, Zenon DEF StorageAssumption
<1>3. mb_N \in Nat
  BY <1>1, <1>2
<1>4. \A i \in ItemsOf(mb_N) : (i + 1) % ItemWord \in Nat
  BY <1>2, <1>3 DEF ItemsOf
<1>5. mb_index \in [ItemsOf(mb_N) -> Nat]
  <2>1. CASE mb_mem_
    BY <1>1, <1>4, <2>1 DEF Blocks!StaticLinks, Blocks!Items, ItemsOf
  <2>2. CASE ~mb_mem_
    BY <1>1, <2>2 DEF Blocks!Items, ItemsOf
  <2> QED BY <2>1, <2>2
<1>6. ItemsTypeOK
  BY <1>1, <1>3, <1>5 DEF ItemsTypeOK
<1>7. NotYetThere
  BY <1>1, Zenon DEF NotYetThere
<1>8. ASSUME mb_mem_, mb_allocator = "static_item" => mb_N < ItemWord
      PROVE  IsListed(mb_N, mb_head_, mb_index, mb_given)
  <2>1. mb_N < ItemWord
    BY <1>1, <1>8, Zenon
  <2>2. mb_index = Blocks!StaticLinks
    BY <1>1, <1>8, Zenon
  <2>3. ASSUME NEW i \in ItemsOf(mb_N) PROVE mb_index[i] = i + 1
    <3>1. mb_index[i] = (i + 1) % ItemWord /\ i + 1 \in 0 .. ItemWord - 1
      BY <1>2, <1>3, <2>1, <2>2 DEF Blocks!StaticLinks, Blocks!Items, ItemsOf
    <3> QED BY <1>2, <3>1
  <2>4. IsListed(mb_N, 0, mb_index, {})
    BY <1>3, <2>3, AllAreListed, Zenon
  <2> QED BY <1>1, <2>4, Zenon
<1> QED BY <1>1, <1>6, <1>7, <1>8, Zenon DEF ItemInv

(* allocate(1), when the items are linked.                                     *)
LEMMA ItemTaken ==
  ASSUME ItemInv, NEW links \in [ItemsOf(mb_N) -> Nat], ~mb_failed, Blocks!Take(links),
         mb_N' = mb_N, mb_allocator' = mb_allocator,
         mb_allocator \in {"static_item", "fixed_item"},
         (mb_allocator = "static_item" => mb_N < ItemWord) =>
            IsListed(mb_N, mb_head_, links, mb_given)
  PROVE  ItemInv'
<1>1. ItemsTypeOK /\ NotYetThere
  BY Zenon DEF ItemInv
<1>2. mb_N \in Nat /\ mb_given \subseteq ItemsOf(mb_N) /\ mb_head_ \in Nat
      /\ mb_index \in [ItemsOf(mb_N) -> Nat]
  BY <1>1, Zenon DEF ItemsTypeOK
<1>3. CASE mb_head_ \notin ItemsOf(mb_N)
  <2>1. mb_failed' = TRUE /\ UNCHANGED <<mb_mem_, mb_head_, mb_index, mb_given>>
    BY <1>3, Zenon DEF Blocks!Take, Blocks!Items, ItemsOf
  <2>2. ItemsTypeOK' /\ NotYetThere'
    BY <1>1, <2>1, Zenon DEF ItemsTypeOK, NotYetThere
  <2>3. ASSUME mb_mem_, mb_allocator = "static_item" => mb_N < ItemWord
        PROVE  IsListed(mb_N, mb_head_, mb_index, mb_given) /\ mb_given = ItemsOf(mb_N)
    <3>1. IsListed(mb_N, mb_head_, mb_index, mb_given)
      BY <2>3, Zenon DEF ItemInv
    <3>2. PICK m \in 0 .. mb_N : \E f \in [0 .. m -> Nat] :
            Lists(mb_N, mb_head_, mb_index, mb_given, m, f) /\ ListsAll(mb_N, mb_given, m, f)
      BY <3>1, Zenon DEF IsListed
    <3>3. PICK f \in [0 .. m -> Nat] :
            Lists(mb_N, mb_head_, mb_index, mb_given, m, f) /\ ListsAll(mb_N, mb_given, m, f)
      BY <3>2, Zenon
    <3>4. m = 0
      <4>1. m # 0 => 0 \in 0 .. m - 1
        OBVIOUS
      <4> QED BY <1>3, <3>3, <4>1 DEF Lists
    <3>5. ItemsOf(mb_N) \ mb_given = {}
      BY <3>3, <3>4 DEF ListsAll
    <3> QED BY <1>2, <3>1, <3>5
  <2>4. (mb_mem_ /\ (mb_allocator = "static_item" => mb_N < ItemWord))' =>
          /\ IsListed(mb_N', mb_head_', mb_index', mb_given')
          /\ mb_failed' => mb_given' = ItemsOf(mb_N')
    BY <2>1, <2>3, Zenon
  <2> QED BY <2>2, <2>4, Zenon DEF ItemInv, IsListed, Lists, ListsAll, ItemsOf
<1>4. CASE mb_head_ \in ItemsOf(mb_N)
  <2>1. /\ mb_mem_' = TRUE /\ mb_failed' = mb_failed /\ mb_given' = mb_given \cup {mb_head_}
        /\ mb_index' = links
        /\ IF mb_head_ \in mb_given THEN mb_head_' \in 0 .. mb_N ELSE mb_head_' = links[mb_head_]
    BY <1>4, Zenon DEF Blocks!Take, Blocks!Items, ItemsOf
  <2>2. mb_head_' \in Nat
    BY <1>2, <1>4, <2>1
  <2>3. mb_given' \subseteq ItemsOf(mb_N')
    BY <1>2, <1>4, <2>1
  <2>4. ItemsTypeOK'
    BY <1>2, <2>1, <2>2, <2>3 DEF ItemsTypeOK, ItemsOf
  <2>5. NotYetThere'
    BY <2>1, Zenon DEF NotYetThere
  <2>6. ASSUME mb_allocator = "static_item" => mb_N < ItemWord
        PROVE  IsListed(mb_N', mb_head_', mb_index', mb_given')
    <3>1. mb_given \in SUBSET ItemsOf(mb_N)
      BY <1>2
    <3>2. mb_head_ \notin mb_given
          /\ IsListed(mb_N, links[mb_head_], links, mb_given \cup {mb_head_})
      BY <1>2, <1>4, <2>6, <3>1, FirstIsGiven
    <3> QED BY <2>1, <3>2, Zenon
  <2>7. (mb_mem_ /\ (mb_allocator = "static_item" => mb_N < ItemWord))' =>
          /\ IsListed(mb_N', mb_head_', mb_index', mb_given')
          /\ mb_failed' => mb_given' = ItemsOf(mb_N')
    BY <2>1, <2>6, Zenon
  <2> QED BY <2>4, <2>5, <2>7, Zenon DEF ItemInv, IsListed, Lists, ListsAll, ItemsOf
<1> QED BY <1>3, <1>4

(* deallocate, to a list that there is.                                        *)
LEMMA ItemReturned ==
  ASSUME ItemInv, NEW item \in mb_given, NEW link \in Nat, ~mb_failed, Blocks!Return(item, link),
         mb_N' = mb_N, mb_allocator' = mb_allocator,
         (mb_allocator = "static_item" => mb_N < ItemWord) /\ mb_head_ \in 0 .. mb_N =>
            link = mb_head_
  PROVE  ItemInv'
<1>1. ItemsTypeOK /\ NotYetThere
  BY Zenon DEF ItemInv
<1>2. mb_N \in Nat /\ mb_given \subseteq ItemsOf(mb_N) /\ mb_head_ \in Nat
      /\ mb_index \in [ItemsOf(mb_N) -> Nat]
  BY <1>1, Zenon DEF ItemsTypeOK
<1>3. /\ mb_given' = mb_given \ {item} /\ mb_index' = [mb_index EXCEPT ![item] = link]
      /\ mb_head_' = item /\ mb_mem_' = mb_mem_ /\ mb_failed' = mb_failed
  BY Zenon DEF Blocks!Return
<1>4. mb_mem_
  BY <1>1, Zenon DEF NotYetThere
<1>5. ItemsTypeOK'
  BY <1>2, <1>3 DEF ItemsTypeOK, ItemsOf
<1>6. NotYetThere'
  BY <1>3, <1>4, Zenon DEF NotYetThere
<1>7. ASSUME mb_allocator = "static_item" => mb_N < ItemWord
      PROVE  IsListed(mb_N', mb_head_', mb_index', mb_given')
  <2>1. IsListed(mb_N, mb_head_, mb_index, mb_given)
    BY <1>4, <1>7, Zenon DEF ItemInv
  <2>2. mb_given \in SUBSET ItemsOf(mb_N)
    BY <1>2
  <2>3. mb_head_ \in 0 .. mb_N
        /\ IsListed(mb_N, item, [mb_index EXCEPT ![item] = mb_head_], mb_given \ {item})
    BY <1>2, <2>1, <2>2, GivenIsListed
  <2>4. link = mb_head_
    BY <1>7, <2>3, Zenon
  <2> QED BY <1>3, <2>3, <2>4, Zenon
<1>8. (mb_mem_ /\ (mb_allocator = "static_item" => mb_N < ItemWord))' =>
        /\ IsListed(mb_N', mb_head_', mb_index', mb_given')
        /\ mb_failed' => mb_given' = ItemsOf(mb_N')
  BY <1>3, <1>7, Zenon
<1> QED BY <1>5, <1>6, <1>8, Zenon DEF ItemInv, IsListed, Lists, ListsAll, ItemsOf

LEMMA ItemsStep == ItemInv /\ [Blocks!Next]_Blocks!vars => ItemInv'
<1> SUFFICES ASSUME ItemInv, [Blocks!Next]_Blocks!vars PROVE ItemInv'
  OBVIOUS
<1>1. ASSUME UNCHANGED <<mb_allocator, mb_N, mb_mem_, mb_head_, mb_index, mb_given, mb_failed>>
      PROVE  ItemInv'
  BY <1>1, Zenon DEF ItemInv, ItemsTypeOK, NotYetThere, IsListed, Lists, ListsAll, ItemsOf
<1>0. mb_N \in Nat /\ mb_head_ \in Nat /\ mb_index \in [ItemsOf(mb_N) -> Nat]
  BY Zenon DEF ItemInv, ItemsTypeOK
<1>2. ASSUME UNCHANGED <<mb_allocator, mb_N>>, Blocks!AllocateStatic PROVE ItemInv'
  <2>1. mb_allocator = "static_item" /\ ~mb_failed /\ Blocks!Take(mb_index)
    BY <1>2, Zenon DEF Blocks!AllocateStatic
  <2>2. mb_mem_
    BY <2>1, Zenon DEF ItemInv, NotYetThere
  <2>3. (mb_allocator = "static_item" => mb_N < ItemWord) =>
          IsListed(mb_N, mb_head_, mb_index, mb_given)
    BY <2>2, Zenon DEF ItemInv
  <2>4. /\ mb_allocator \in {"static_item", "fixed_item"}
        /\ mb_N' = mb_N /\ mb_allocator' = mb_allocator
    BY <1>2, <2>1
  <2> QED BY <1>0, <2>1, <2>3, <2>4, ItemTaken, Zenon
<1>3. ASSUME UNCHANGED <<mb_allocator, mb_N>>, Blocks!AllocateFixed PROVE ItemInv'
  <2> DEFINE links == IF mb_mem_ THEN mb_index ELSE Blocks!FixedLinks
  <2>1. mb_allocator = "fixed_item" /\ ~mb_failed /\ Blocks!Take(links)
    BY <1>3, Zenon DEF Blocks!AllocateFixed
  <2>2. links \in [ItemsOf(mb_N) -> Nat]
    BY <1>0 DEF Blocks!FixedLinks, Blocks!Items, ItemsOf
  <2>3. IsListed(mb_N, mb_head_, links, mb_given)
    <3>1. CASE mb_mem_
      <4>1. "static_item" # "fixed_item"
        OBVIOUS
      <4> QED BY <2>1, <3>1, <4>1, Zenon DEF ItemInv
    <3>2. CASE ~mb_mem_
      <4>1. mb_head_ = 0 /\ mb_given = {} /\ links = Blocks!FixedLinks
        BY <3>2, Zenon DEF ItemInv, NotYetThere
      <4>2. \A i \in ItemsOf(mb_N) : Blocks!FixedLinks[i] = i + 1
        BY DEF Blocks!FixedLinks, Blocks!Items, ItemsOf
      <4>3. IsListed(mb_N, 0, Blocks!FixedLinks, {})
        BY <1>0, <4>2, AllAreListed
      <4> QED BY <4>1, <4>3, Zenon
    <3> QED BY <3>1, <3>2
  <2>4. /\ mb_allocator \in {"static_item", "fixed_item"}
        /\ mb_N' = mb_N /\ mb_allocator' = mb_allocator
    BY <1>3, <2>1
  <2> HIDE DEF links
  <2> QED BY <2>1, <2>2, <2>3, <2>4, ItemTaken, Zenon
<1>4. ASSUME UNCHANGED <<mb_allocator, mb_N>>, NEW item \in mb_given, Blocks!DeallocateStatic(item)
      PROVE  ItemInv'
  <2>1. mb_allocator = "static_item" /\ ~mb_failed /\ Blocks!Return(item, mb_head_ % ItemWord)
        /\ mb_N' = mb_N /\ mb_allocator' = mb_allocator
    BY <1>4, Zenon DEF Blocks!DeallocateStatic
  <2>2. ItemWord \in Nat \ {0}
    BY StorageAssumption, Zenon DEF StorageAssumption
  <2>3. mb_head_ % ItemWord \in Nat
    BY <1>0, <2>2
  <2>4. ASSUME mb_allocator = "static_item" => mb_N < ItemWord, mb_head_ \in 0 .. mb_N
        PROVE  mb_head_ % ItemWord = mb_head_
    <3>1. mb_N < ItemWord
      BY <2>1, <2>4, Zenon
    <3>2. mb_head_ \in 0 .. ItemWord - 1
      BY <1>0, <2>2, <2>4, <3>1
    <3> QED BY <2>2, <3>2
  <2> DEFINE link == mb_head_ % ItemWord
  <2>5. link \in Nat /\ Blocks!Return(item, link)
        /\ ((mb_allocator = "static_item" => mb_N < ItemWord) /\ mb_head_ \in 0 .. mb_N =>
               link = mb_head_)
    BY <2>1, <2>3, <2>4, Zenon
  <2> HIDE DEF link
  <2> QED BY <2>1, <2>5, ItemReturned, Zenon
<1>5. ASSUME UNCHANGED <<mb_allocator, mb_N>>, NEW item \in mb_given, Blocks!DeallocateFixed(item)
      PROVE  ItemInv'
  <2>1. ~mb_failed /\ Blocks!Return(item, mb_head_) /\ mb_N' = mb_N /\ mb_allocator' = mb_allocator
    BY <1>5, Zenon DEF Blocks!DeallocateFixed
  <2> QED BY <1>0, <2>1, ItemReturned, Zenon
<1>6. ASSUME Blocks!ItemNext, UNCHANGED <<mb_allocator, mb_N>> PROVE ItemInv'
  BY <1>2, <1>3, <1>4, <1>5, <1>6, Zenon DEF Blocks!ItemNext
<1> QED BY <1>1, <1>6, Zenon DEF Blocks!Next, Blocks!vars, Blocks!itemVars

(* Items are given once and come back: ItemsAreGivenOnce of the allocators of *)
(* items, for any number of items and any width of the index.                *)
THEOREM ItemsHaveOneTaker == Blocks!Spec => []Blocks!ItemsAreGivenOnce
<1>1. Blocks!Spec => []ItemInv
  BY ItemsStart, ItemsStep, PTL DEF Blocks!Spec
<1> QED BY <1>1, ItemsOnce, PTL

-----------------------------------------------------------------------------
(* The rings: what was kept last is one place behind the next one to be       *)
(* written, and what was kept before is behind that, round the ring.          *)
Behind(next, k) == IF k <= next THEN next - k ELSE RingPlaces + next - k
RingHolds(ring, next, kept) ==
  /\ ring \in [0 .. RingPlaces - 1 -> Element] /\ next \in 0 .. RingPlaces - 1
  /\ kept \in Seq(Element) /\ Len(kept) <= RingPlaces
  /\ \A i \in 1 .. Len(kept) : kept[i] = ring[Behind(next, Len(kept) - i + 1)]
RingInv ==
  /\ bu_what = "circular_buffer" =>
       /\ RingHolds(bu_ring, bu_total_ % RingPlaces, bu_kept)
       /\ bu_total_ \in Nat
       /\ Len(bu_kept) = IF bu_total_ < RingPlaces THEN bu_total_ ELSE RingPlaces
  /\ bu_what = "CircularBuffer" =>
       /\ RingHolds(bu_ring, bu_next, bu_kept)
       /\ bu_total_ = Len(bu_kept)

LEMMA RingHasPlaces == RingPlaces \in Nat /\ RingPlaces >= 1
<1>1. RingPlaces \in Nat \ {0}
  BY StorageAssumption, Zenon DEF StorageAssumption
<1> QED BY <1>1

(* A number and its remainder; the next number's, and those of two that are   *)
(* less than a round apart.                                                   *)
LEMMA Remainder ==
  ASSUME NEW n \in Nat, n >= 1, NEW a \in Nat
  PROVE  \E q \in Nat : \E rest \in 0 .. n - 1 : a = q * n + rest /\ a % n = rest
<1>1. a = n * (a \div n) + (a % n)
  OBVIOUS
<1>2. a % n \in 0 .. n - 1 /\ a \div n \in Int
  OBVIOUS
<1> DEFINE q == a \div n
           rest == a % n
<1>3. q \in Int /\ rest \in 0 .. n - 1 /\ a = n * q + rest
  BY <1>1, <1>2
<1> HIDE DEF q, rest
<1>4. q >= 0
  <2> SUFFICES ASSUME q <= -1 PROVE FALSE
    BY <1>3
  <2>1. n * q <= n * (-1)
    BY <1>3
  <2> QED BY <1>3, <2>1
<1>5. n * q = q * n
  BY <1>3
<1> QED BY <1>3, <1>4, <1>5 DEF rest

LEMMA RemainderIs ==
  ASSUME NEW n \in Nat, n >= 1, NEW q \in Nat, NEW rest \in 0 .. n - 1
  PROVE  (q * n + rest) % n = rest
<1>1. q * n + rest \in Nat
  OBVIOUS
<1>2. PICK p \in Nat, s \in 0 .. n - 1 : q * n + rest = p * n + s /\ (q * n + rest) % n = s
  BY <1>1, Remainder
<1> DEFINE k == q - p
<1>3. k \in Int /\ s - rest = n * k
  BY <1>2
<1> HIDE DEF k
<1>4. CASE k <= -1
  <2>1. n * k <= n * (-1)
    BY <1>3, <1>4
  <2> QED BY <1>3, <2>1
<1>5. CASE k >= 1
  <2>1. n * k >= n
    BY <1>3, <1>5
  <2> QED BY <1>3, <2>1
<1>6. CASE k = 0
  BY <1>2, <1>3, <1>6
<1> QED BY <1>3, <1>4, <1>5, <1>6

LEMMA NextRemainder ==
  ASSUME NEW n \in Nat, n >= 1, NEW a \in Nat
  PROVE  (a + 1) % n = IF (a % n) + 1 = n THEN 0 ELSE (a % n) + 1
<1>1. PICK q \in Nat, rest \in 0 .. n - 1 : a = q * n + rest /\ a % n = rest
  BY Remainder
<1>2. CASE rest + 1 = n
  <2> DEFINE m == q * n
  <2>0. m \in Int /\ a = m + rest
    BY <1>1
  <2>1. a + 1 = q * n + n
    <3> HIDE DEF m
    <3>1. a + 1 = m + n
      BY <1>2, <2>0
    <3> QED BY <3>1, Zenon DEF m
  <2>2. q * n + n = (q + 1) * n
    BY <1>1
  <2>3. (q + 1) * n + 0 = (q + 1) * n /\ q + 1 \in Nat
    BY <1>1
  <2>4. 0 \in 0 .. n - 1
    OBVIOUS
  <2>5. ((q + 1) * n + 0) % n = 0
    BY <2>3, <2>4, RemainderIs
  <2>6. (a + 1) % n = 0
    BY <2>1, <2>2, <2>3, <2>5, Zenon
  <2> QED BY <1>1, <1>2, <2>6
<1>3. CASE rest + 1 # n
  <2>1. a + 1 = q * n + (rest + 1) /\ rest + 1 \in 0 .. n - 1
    BY <1>1, <1>3
  <2> QED BY <1>1, <1>3, <2>1, RemainderIs
<1> QED BY <1>2, <1>3

LEMMA RemaindersDiffer ==
  ASSUME NEW n \in Nat, n >= 1, NEW a \in Nat, NEW b \in Nat, a < b, b - a < n
  PROVE  a % n # b % n
<1> SUFFICES ASSUME a % n = b % n PROVE FALSE
  OBVIOUS
<1>1. PICK q \in Nat, rest \in 0 .. n - 1 : a = q * n + rest /\ a % n = rest
  BY Remainder
<1>2. PICK p \in Nat, s \in 0 .. n - 1 : b = p * n + s /\ b % n = s
  BY Remainder
<1> DEFINE k == p - q
<1>3. k \in Int /\ b - a = n * k
  BY <1>1, <1>2
<1> HIDE DEF k
<1>4. CASE k <= 0
  <2>1. n * k <= 0
    BY <1>3, <1>4
  <2> QED BY <1>3, <2>1
<1>5. CASE k >= 1
  <2>1. n * k >= n
    BY <1>3, <1>5
  <2> QED BY <1>3, <2>1
<1> QED BY <1>3, <1>4, <1>5

LEMMA RemainderBehind ==
  ASSUME NEW a \in Nat, NEW k \in 1 .. RingPlaces, k <= a
  PROVE  (a - k) % RingPlaces = Behind(a % RingPlaces, k)
<1>0. RingPlaces \in Nat /\ RingPlaces >= 1
  BY RingHasPlaces
<1>1. PICK q \in Nat, rest \in 0 .. RingPlaces - 1 :
        a = q * RingPlaces + rest /\ a % RingPlaces = rest
  BY <1>0, Remainder
<1>2. CASE k <= rest
  <2>1. a - k = q * RingPlaces + (rest - k) /\ rest - k \in 0 .. RingPlaces - 1
    BY <1>0, <1>1, <1>2
  <2> QED BY <1>0, <1>1, <1>2, <2>1, RemainderIs DEF Behind
<1>3. CASE ~ (k <= rest)
  <2>1. q # 0
    BY <1>0, <1>1, <1>3
  <2>2. q - 1 \in Nat /\ RingPlaces + rest - k \in 0 .. RingPlaces - 1
    BY <1>0, <1>1, <1>3, <2>1
  <2>3. a - k = (q - 1) * RingPlaces + (RingPlaces + rest - k)
    BY <1>0, <1>1
  <2> QED BY <1>0, <1>1, <1>3, <2>2, <2>3, RemainderIs DEF Behind
<1> QED BY <1>2, <1>3

(* A remainder of what is at most twice the size.                             *)
LEMMA SmallRemainder ==
  ASSUME NEW next \in 0 .. RingPlaces - 1, NEW k \in 1 .. RingPlaces
  PROVE  (RingPlaces + next - k) % RingPlaces = Behind(next, k)
<1>0. RingPlaces \in Nat /\ RingPlaces >= 1
  BY RingHasPlaces
<1>1. RingPlaces + next \in Nat /\ k <= RingPlaces + next
  BY <1>0
<1>2. RingPlaces + next = 1 * RingPlaces + next /\ 1 \in Nat
  BY <1>0
<1>3. (1 * RingPlaces + next) % RingPlaces = next
  BY <1>0, <1>2, RemainderIs
<1>4. (RingPlaces + next) % RingPlaces = next
  BY <1>2, <1>3, Zenon
<1>5. \A a \in Nat : k <= a /\ a % RingPlaces = next => (a - k) % RingPlaces = Behind(next, k)
  BY RemainderBehind, Zenon
<1>6. (RingPlaces + next) - k = RingPlaces + next - k
  BY <1>0
<1>7. ((RingPlaces + next) - k) % RingPlaces = Behind(next, k)
  BY <1>1, <1>4, <1>5, Zenon
<1> QED BY <1>6, <1>7, Zenon

-----------------------------------------------------------------------------
(* What is pushed is behind the next place, what was there one place further, *)
(* and what has come round is what was kept first.                            *)
LEMMA RingPushed ==
  ASSUME NEW ring, NEW next, NEW kept, RingHolds(ring, next, kept), NEW v \in Element,
         NEW next1, next1 = IF next + 1 = RingPlaces THEN 0 ELSE next + 1
  PROVE  /\ RingHolds([ring EXCEPT ![next] = v], next1, Buffer!LastOf(Append(kept, v)))
         /\ Len(Buffer!LastOf(Append(kept, v))) =
              IF Len(kept) < RingPlaces THEN Len(kept) + 1 ELSE RingPlaces
<1> DEFINE ring1 == [ring EXCEPT ![next] = v]
           more == Append(kept, v)
           kept1 == Buffer!LastOf(more)
<1>0. RingPlaces \in Nat /\ RingPlaces >= 1
  BY RingHasPlaces
<1>1. /\ ring \in [0 .. RingPlaces - 1 -> Element] /\ next \in 0 .. RingPlaces - 1
      /\ kept \in Seq(Element) /\ Len(kept) <= RingPlaces /\ Len(kept) \in Nat
      /\ \A i \in 1 .. Len(kept) : kept[i] = ring[Behind(next, Len(kept) - i + 1)]
  BY DEF RingHolds
<1>2. /\ more \in Seq(Element) /\ Len(more) = Len(kept) + 1 /\ more[Len(kept) + 1] = v
      /\ \A i \in 1 .. Len(kept) : more[i] = kept[i]
  BY <1>1
<1>3. ring1 \in [0 .. RingPlaces - 1 -> Element] /\ next1 \in 0 .. RingPlaces - 1 /\ ring1[next] = v
  BY <1>0, <1>1
<1>4. \A k \in 2 .. RingPlaces : ring1[Behind(next1, k)] = ring[Behind(next, k - 1)]
  <2> SUFFICES ASSUME NEW k \in 2 .. RingPlaces
               PROVE  ring1[Behind(next1, k)] = ring[Behind(next, k - 1)]
    OBVIOUS
  <2>1. Behind(next1, k) = Behind(next, k - 1) /\ Behind(next, k - 1) \in 0 .. RingPlaces - 1
        /\ Behind(next, k - 1) # next
    BY <1>0, <1>1 DEF Behind
  <2> QED BY <1>1, <2>1
<1>5. Behind(next1, 1) = next
  BY <1>0, <1>1 DEF Behind
<1>6. CASE Len(kept) < RingPlaces
  <2>1. kept1 = more
    BY <1>0, <1>1, <1>2, <1>6 DEF Buffer!LastOf
  <2>2. ASSUME NEW i \in 1 .. Len(kept1) PROVE kept1[i] = ring1[Behind(next1, Len(kept1) - i + 1)]
    <3>1. CASE i = Len(kept) + 1
      <4>1. Len(kept1) - i + 1 = 1
        BY <1>1, <1>2, <2>1, <3>1
      <4> QED BY <1>2, <1>3, <1>5, <2>1, <3>1, <4>1
    <3>2. CASE i \in 1 .. Len(kept)
      <4>1. Len(kept1) - i + 1 \in 2 .. RingPlaces /\ (Len(kept1) - i + 1) - 1 = Len(kept) - i + 1
        BY <1>0, <1>1, <1>2, <1>6, <2>1, <3>2
      <4>2. ring1[Behind(next1, Len(kept1) - i + 1)] = ring[Behind(next, Len(kept) - i + 1)]
        BY <1>4, <4>1
      <4> QED BY <1>1, <1>2, <2>1, <3>2, <4>2
    <3> QED BY <1>1, <1>2, <2>1, <2>2, <3>1, <3>2
  <2>3. Len(kept1) <= RingPlaces /\ kept1 \in Seq(Element)
    BY <1>0, <1>1, <1>2, <1>6, <2>1
  <2> QED BY <1>2, <1>3, <1>6, <2>1, <2>2, <2>3 DEF RingHolds
<1>7. CASE ~ (Len(kept) < RingPlaces)
  <2>1. Len(kept) = RingPlaces
    BY <1>0, <1>1, <1>7
  <2>2. kept1 = Tail(more)
    BY <1>0, <1>2, <2>1 DEF Buffer!LastOf
  <2>3. more # <<>>
    BY <1>1, <1>2
  <2>4. /\ kept1 \in Seq(Element) /\ Len(kept1) = RingPlaces
        /\ \A i \in 1 .. Len(kept1) : kept1[i] = more[i + 1]
    BY <1>1, <1>2, <2>1, <2>2, <2>3
  <2>5. ASSUME NEW i \in 1 .. Len(kept1) PROVE kept1[i] = ring1[Behind(next1, Len(kept1) - i + 1)]
    <3>1. CASE i = RingPlaces
      <4>1. Len(kept1) - i + 1 = 1 /\ kept1[i] = v
        BY <1>0, <1>2, <2>1, <2>4, <3>1
      <4> QED BY <1>3, <1>5, <4>1
    <3>2. CASE i # RingPlaces
      <4>1. /\ Len(kept1) - i + 1 \in 2 .. RingPlaces /\ i + 1 \in 1 .. Len(kept)
            /\ (Len(kept1) - i + 1) - 1 = Len(kept) - (i + 1) + 1
        BY <1>0, <2>1, <2>4, <3>2
      <4>2. ring1[Behind(next1, Len(kept1) - i + 1)] = ring[Behind(next, Len(kept) - (i + 1) + 1)]
        BY <1>4, <4>1
      <4>3. kept1[i] = kept[i + 1]
        BY <1>2, <2>4, <4>1
      <4> QED BY <1>1, <4>1, <4>2, <4>3
    <3> QED BY <3>1, <3>2
  <2>6. RingHolds(ring1, next1, kept1)
    <3> HIDE DEF kept1, ring1
    <3> QED BY <1>0, <1>3, <2>4, <2>5 DEF RingHolds
  <2>7. Len(kept1) = IF Len(kept) < RingPlaces THEN Len(kept) + 1 ELSE RingPlaces
    <3> HIDE DEF kept1
    <3> QED BY <1>7, <2>4
  <2> QED BY <2>6, <2>7, Zenon
<1> QED BY <1>6, <1>7

(* What is kept second is first when the first is taken.                      *)
LEMMA RingPopped ==
  ASSUME NEW ring, NEW next, NEW kept, RingHolds(ring, next, kept), Len(kept) > 0
  PROVE  RingHolds(ring, next, Tail(kept)) /\ Len(Tail(kept)) = Len(kept) - 1
<1>1. /\ ring \in [0 .. RingPlaces - 1 -> Element] /\ next \in 0 .. RingPlaces - 1
      /\ kept \in Seq(Element) /\ Len(kept) <= RingPlaces /\ Len(kept) \in Nat
      /\ \A i \in 1 .. Len(kept) : kept[i] = ring[Behind(next, Len(kept) - i + 1)]
  BY DEF RingHolds
<1>2. kept # <<>>
  BY <1>1
<1>3. /\ Tail(kept) \in Seq(Element) /\ Len(Tail(kept)) = Len(kept) - 1
      /\ \A i \in 1 .. Len(Tail(kept)) : Tail(kept)[i] = kept[i + 1]
  BY <1>1, <1>2
<1>4. ASSUME NEW i \in 1 .. Len(Tail(kept))
      PROVE  Tail(kept)[i] = ring[Behind(next, Len(Tail(kept)) - i + 1)]
  <2>1. i + 1 \in 1 .. Len(kept) /\ Len(kept) - (i + 1) + 1 = Len(Tail(kept)) - i + 1
    BY <1>1, <1>3
  <2> QED BY <1>1, <1>3, <2>1
<1>5. Len(Tail(kept)) <= RingPlaces
  BY RingHasPlaces, <1>1, <1>3
<1> QED BY <1>1, <1>3, <1>4, <1>5 DEF RingHolds

LEMMA RingsShowTheLast == RingInv => Buffer!RingsKeepTheLast
<1> SUFFICES ASSUME RingInv, bu_what \in {"circular_buffer", "CircularBuffer"}
             PROVE  Buffer!Shown = bu_kept
  BY Zenon DEF Buffer!RingsKeepTheLast
<1>0. RingPlaces \in Nat /\ RingPlaces >= 1
  BY RingHasPlaces
<1>1. /\ Buffer!size = Len(bu_kept) /\ bu_kept \in Seq(Element) /\ Len(bu_kept) \in 0 .. RingPlaces
  BY <1>0 DEF RingInv, RingHolds, Buffer!size, Buffer!Least
<1>2. ASSUME NEW i \in 1 .. Len(bu_kept)
      PROVE  bu_kept[i] = bu_ring[(Buffer!begin + i - 1) % RingPlaces]
  <2> DEFINE k == Len(bu_kept) - i + 1
  <2>0. k \in 1 .. RingPlaces
    BY <1>0, <1>1
  <2>1. CASE bu_what = "circular_buffer"
    <3>1. /\ RingHolds(bu_ring, bu_total_ % RingPlaces, bu_kept) /\ bu_total_ \in Nat
          /\ Len(bu_kept) <= bu_total_
      BY <1>0, <2>1 DEF RingInv
    <3>2. Buffer!begin = bu_total_ - Len(bu_kept)
      BY <1>1, <2>1 DEF Buffer!begin
    <3>3. Buffer!begin + i - 1 = bu_total_ - k /\ k <= bu_total_
      BY <1>1, <3>1, <3>2
    <3>4. (bu_total_ - k) % RingPlaces = Behind(bu_total_ % RingPlaces, k)
      BY <2>0, <3>1, <3>3, RemainderBehind
    <3> QED BY <3>1, <3>3, <3>4 DEF RingHolds
  <2>2. CASE bu_what = "CircularBuffer"
    <3>1. RingHolds(bu_ring, bu_next, bu_kept)
      BY <2>2 DEF RingInv
    <3>2. Buffer!begin = RingPlaces + bu_next - Len(bu_kept)
      BY <1>1, <2>2 DEF Buffer!begin
    <3>3. bu_next \in 0 .. RingPlaces - 1
      BY <3>1 DEF RingHolds
    <3>4. Buffer!begin + i - 1 = RingPlaces + bu_next - k
      BY <1>0, <1>1, <3>2, <3>3
    <3>5. (RingPlaces + bu_next - k) % RingPlaces = Behind(bu_next, k)
      BY <2>0, <3>3, SmallRemainder
    <3> QED BY <3>1, <3>4, <3>5 DEF RingHolds
  <2> QED BY <2>1, <2>2
<1>3. bu_kept = [i \in 1 .. Len(bu_kept) |-> bu_kept[i]]
  BY <1>1
<1>4. Buffer!Shown = [i \in 1 .. Len(bu_kept) |-> bu_ring[(Buffer!begin + i - 1) % RingPlaces]]
  BY <1>1 DEF Buffer!Shown
<1> QED BY <1>2, <1>3, <1>4

LEMMA RingsStart == Buffer!Init => RingInv
<1> SUFFICES ASSUME Buffer!RingInit PROVE RingInv
  BY DEF Buffer!Init
<1>1. /\ bu_ring = [i \in 0 .. RingPlaces - 1 |-> "0"] /\ bu_total_ = 0 /\ bu_next = 0
      /\ bu_kept = <<>>
  BY DEF Buffer!RingInit
<1>2. 0 % RingPlaces = 0 /\ 0 \in 0 .. RingPlaces - 1 /\ 0 < RingPlaces
  <2>1. 0 \in 0 .. RingPlaces - 1 /\ 0 * RingPlaces + 0 = 0 /\ 0 \in Nat
    BY RingHasPlaces
  <2>2. (0 * RingPlaces + 0) % RingPlaces = 0
    BY RingHasPlaces, <2>1, RemainderIs
  <2> QED BY RingHasPlaces, <2>1, <2>2
<1>3. bu_kept \in Seq(Element) /\ Len(bu_kept) = 0 /\ bu_ring \in [0 .. RingPlaces - 1 -> Element]
  BY <1>1 DEF Element
<1>4. RingHolds(bu_ring, 0, bu_kept)
  <2>1. \A i \in 1 .. Len(bu_kept) : bu_kept[i] = bu_ring[Behind(0, Len(bu_kept) - i + 1)]
    BY <1>3
  <2>2. 0 \in 0 .. RingPlaces - 1 /\ Len(bu_kept) <= RingPlaces
    BY <1>3, RingHasPlaces
  <2> QED BY <1>3, <2>1, <2>2, Zenon DEF RingHolds
<1>5. bu_total_ % RingPlaces = 0 /\ bu_total_ \in Nat
  BY <1>1, <1>2, Zenon
<1>6. Len(bu_kept) = 0 /\ bu_total_ < RingPlaces
  BY <1>1, <1>2, <1>3, Zenon
<1> QED BY <1>1, <1>4, <1>5, <1>6, Zenon DEF RingInv

LEMMA RingsStep == RingInv /\ [Buffer!Next]_Buffer!vars => RingInv'
<1> SUFFICES ASSUME RingInv, [Buffer!Next]_Buffer!vars PROVE RingInv'
  OBVIOUS
<1>0. RingPlaces \in Nat /\ RingPlaces >= 1
  BY RingHasPlaces
<1>1. ASSUME UNCHANGED <<bu_what, bu_ring, bu_total_, bu_next, bu_kept>> PROVE RingInv'
  BY <1>1 DEF RingInv, RingHolds
<1>2. ASSUME NEW v \in Element, Buffer!PushTotal(v), bu_what' = bu_what PROVE RingInv'
  <2>1. /\ bu_what = "circular_buffer" /\ bu_ring' = [bu_ring EXCEPT ![bu_total_ % RingPlaces] = v]
        /\ bu_total_' = bu_total_ + 1 /\ bu_kept' = Buffer!LastOf(Append(bu_kept, v))
    BY <1>2, Zenon DEF Buffer!PushTotal
  <2>2. /\ RingHolds(bu_ring, bu_total_ % RingPlaces, bu_kept) /\ bu_total_ \in Nat
        /\ Len(bu_kept) = IF bu_total_ < RingPlaces THEN bu_total_ ELSE RingPlaces
    BY <2>1 DEF RingInv
  <2>3. (bu_total_ + 1) % RingPlaces =
          IF (bu_total_ % RingPlaces) + 1 = RingPlaces THEN 0 ELSE (bu_total_ % RingPlaces) + 1
    BY <1>0, <2>2, NextRemainder
  <2>4. /\ RingHolds(bu_ring', bu_total_' % RingPlaces, bu_kept')
        /\ Len(bu_kept') = IF Len(bu_kept) < RingPlaces THEN Len(bu_kept) + 1 ELSE RingPlaces
    BY <2>1, <2>2, <2>3, RingPushed, Zenon
  <2>5. /\ bu_total_' \in Nat
        /\ Len(bu_kept') = IF bu_total_' < RingPlaces THEN bu_total_' ELSE RingPlaces
    BY <1>0, <2>1, <2>2, <2>4
  <2> QED BY <1>2, <2>1, <2>4, <2>5 DEF RingInv
<1>3. ASSUME NEW v \in Element, Buffer!Push(v), bu_what' = bu_what PROVE RingInv'
  <2>1. /\ bu_what = "CircularBuffer" /\ bu_ring' = [bu_ring EXCEPT ![bu_next] = v]
        /\ bu_next' = (bu_next + 1) % RingPlaces
        /\ bu_total_' = Buffer!Least(bu_total_ + 1, RingPlaces)
        /\ bu_kept' = Buffer!LastOf(Append(bu_kept, v))
    BY <1>3, Zenon DEF Buffer!Push
  <2>2. RingHolds(bu_ring, bu_next, bu_kept) /\ bu_total_ = Len(bu_kept)
    BY <2>1 DEF RingInv
  <2>3. bu_next \in 0 .. RingPlaces - 1 /\ Len(bu_kept) \in 0 .. RingPlaces
    BY <1>0, <2>2 DEF RingHolds
  <2>4. bu_next \in Nat /\ bu_next % RingPlaces = bu_next
    BY <1>0, <2>3
  <2>5. bu_next' = IF bu_next + 1 = RingPlaces THEN 0 ELSE bu_next + 1
    BY <1>0, <2>1, <2>4, NextRemainder
  <2>6. /\ RingHolds(bu_ring', bu_next', bu_kept')
        /\ Len(bu_kept') = IF Len(bu_kept) < RingPlaces THEN Len(bu_kept) + 1 ELSE RingPlaces
    BY <2>1, <2>2, <2>5, RingPushed, Zenon
  <2>7. bu_total_' = Len(bu_kept')
    BY <1>0, <2>1, <2>2, <2>3, <2>6 DEF Buffer!Least
  <2> QED BY <1>3, <2>1, <2>6, <2>7 DEF RingInv
<1>4. ASSUME Buffer!Pop, bu_what' = bu_what PROVE RingInv'
  <2>1. /\ bu_what = "CircularBuffer" /\ bu_total_ > 0 /\ bu_total_' = bu_total_ - 1
        /\ bu_kept' = Tail(bu_kept) /\ bu_ring' = bu_ring /\ bu_next' = bu_next
    BY <1>4, Zenon DEF Buffer!Pop
  <2>2. RingHolds(bu_ring, bu_next, bu_kept) /\ bu_total_ = Len(bu_kept)
    BY <2>1 DEF RingInv
  <2>3. RingHolds(bu_ring, bu_next, Tail(bu_kept)) /\ Len(Tail(bu_kept)) = Len(bu_kept) - 1
    BY <2>1, <2>2, RingPopped
  <2> QED BY <1>4, <2>1, <2>2, <2>3 DEF RingInv
<1>5. CASE UNCHANGED Buffer!vars
  BY <1>1, <1>5, Zenon DEF Buffer!vars, Buffer!ringVars
<1>6. CASE Buffer!Next
  <2>1. bu_what' = bu_what
    BY <1>6, Zenon DEF Buffer!Next
  <2>2. CASE Buffer!RingNext
    BY <1>2, <1>3, <1>4, <2>1, <2>2, Zenon DEF Buffer!RingNext, Element
  <2>3. CASE ~Buffer!RingNext
    BY <1>1, <1>6, <2>1, <2>3, Zenon DEF Buffer!Next, Buffer!ringVars
  <2> QED BY <2>2, <2>3
<1> QED BY <1>5, <1>6

(* A ring shows, or gives back, what a queue that forgets the oldest would    *)
(* hold: RingsKeepTheLast, for any number of places and any elements.         *)
THEOREM RingsForgetTheOldest == Buffer!Spec => []Buffer!RingsKeepTheLast
<1>1. Buffer!Spec => []RingInv
  BY RingsStart, RingsStep, PTL DEF Buffer!Spec
<1> QED BY <1>1, RingsShowTheLast, PTL

-----------------------------------------------------------------------------
(* The cache that counts uses: a slot in use is the first with its key, and   *)
(* has what was stored for it; nothing else is stored.                        *)
CacheSlots == 1 .. CachePlaces
CacheKey == CacheKeys \cup {""}
CacheValue == CacheValues \cup {""}
FlatTypeOK(keys, values, count, stored) ==
  /\ keys \in [CacheSlots -> CacheKey] /\ values \in [CacheSlots -> CacheValue]
  /\ count \in [CacheSlots -> Nat] /\ stored \in [DOMAIN stored -> CacheValue]
UsedAreFirst(keys, values, count, stored) ==
  \A i \in CacheSlots : count[i] # 0 =>
    /\ \A j \in 1 .. i - 1 : keys[j] # keys[i]
    /\ keys[i] \in DOMAIN stored /\ stored[keys[i]] = values[i]
StoredAreUsed(keys, count, stored) ==
  \A k \in DOMAIN stored : \E i \in CacheSlots : count[i] # 0 /\ keys[i] = k
FlatInv ==
  /\ FlatTypeOK(lc_keys_, lc_values_, lc_use_count_, lc_stored)
  /\ UsedAreFirst(lc_keys_, lc_values_, lc_use_count_, lc_stored)
  /\ StoredAreUsed(lc_keys_, lc_use_count_, lc_stored)

LEMMA CacheHasPlaces == CachePlaces \in Nat /\ CachePlaces >= 1
<1>1. CachePlaces \in Nat \ {0}
  BY StorageAssumption, Zenon DEF StorageAssumption
<1> QED BY <1>1

LEMMA SlotsAre == Structure!Slots = CacheSlots
  BY DEF Structure!Slots, CacheSlots

LEMMA LeastIs ==
  ASSUME NEW S, S \subseteq Nat, S # {}
  PROVE  Structure!Min(S) \in S /\ \A y \in S : Structure!Min(S) <= y
<1>1. PICK x \in S : \A y \in S : x <= y
  BY SomeIsLeast, Zenon
<1>2. Structure!Min(S) = CHOOSE z \in S : \A y \in S : z <= y
  BY DEF Structure!Min
<1> QED BY <1>1, <1>2, Zenon

(* The slot of a key that is found.                                           *)
LEMMA FoundIs ==
  ASSUME FlatInv, NEW key, NEW i
  PROVE  i \in Structure!try_find_index(key)
           <=> i \in CacheSlots /\ lc_keys_[i] = key /\ lc_use_count_[i] # 0
<1>1. i \in Structure!try_find_index(key) <=>
        /\ i \in CacheSlots /\ lc_keys_[i] = key /\ lc_use_count_[i] # 0
        /\ \A j \in 1 .. i - 1 : lc_keys_[j] # key
  BY SlotsAre DEF Structure!try_find_index
<1>2. (i \in CacheSlots /\ lc_keys_[i] = key /\ lc_use_count_[i] # 0)
        => \A j \in 1 .. i - 1 : lc_keys_[j] # key
  BY Zenon DEF FlatInv, UsedAreFirst
<1> QED BY <1>1, <1>2, Zenon

LEMMA FoundOnce ==
  ASSUME FlatInv, NEW i \in CacheSlots, NEW j \in CacheSlots, lc_use_count_[i] # 0,
         lc_use_count_[j] # 0, lc_keys_[i] = lc_keys_[j]
  PROVE  i = j
<1>1. i < j => i \in 1 .. j - 1
  BY DEF CacheSlots
<1>2. j < i => j \in 1 .. i - 1
  BY DEF CacheSlots
<1>3. ~(i < j) /\ ~(j < i)
  BY <1>1, <1>2, Zenon DEF FlatInv, UsedAreFirst
<1> QED BY <1>3, CacheHasPlaces DEF CacheSlots

LEMMA FlatFinds ==
  FlatInv => /\ \A k \in CacheKeys : k \in DOMAIN lc_stored <=> Structure!try_find_index(k) # {}
             /\ \A k \in DOMAIN lc_stored :
                  \A i \in Structure!try_find_index(k) : lc_values_[i] = lc_stored[k]
<1> SUFFICES ASSUME FlatInv, NEW k
             PROVE  /\ k \in DOMAIN lc_stored <=> Structure!try_find_index(k) # {}
                    /\ \A i \in Structure!try_find_index(k) : lc_values_[i] = lc_stored[k]
  BY Zenon
<1>1. \A i : i \in Structure!try_find_index(k)
               <=> i \in CacheSlots /\ lc_keys_[i] = k /\ lc_use_count_[i] # 0
  BY FoundIs, Zenon
<1>2. k \in DOMAIN lc_stored => Structure!try_find_index(k) # {}
  BY <1>1, Zenon DEF FlatInv, StoredAreUsed
<1>3. ASSUME NEW i \in Structure!try_find_index(k)
      PROVE  k \in DOMAIN lc_stored /\ lc_values_[i] = lc_stored[k]
  BY <1>1, <1>3, Zenon DEF FlatInv, UsedAreFirst
<1> QED BY <1>2, <1>3, Zenon

(* A slot that is chosen: its own if the key is found, else the first of those*)
(* that are used least, which is no later than an unused one with the key.    *)
ChosenFor(key, index) ==
  /\ index \in CacheSlots
  /\ \A j \in 1 .. index - 1 : lc_keys_[j] # key
  /\ \A i \in CacheSlots : lc_use_count_[i] # 0 /\ lc_keys_[i] = key => i = index
LEMMA LeastUsedIsChosen ==
  ASSUME FlatInv, NEW key, Structure!try_find_index(key) = {}
  PROVE  ChosenFor(key, Structure!MinElement)
<1> DEFINE least == {i \in CacheSlots : \A j \in CacheSlots : lc_use_count_[i] <= lc_use_count_[j]}
           counts == {lc_use_count_[i] : i \in CacheSlots}
<1>1. lc_use_count_ \in [CacheSlots -> Nat]
  BY DEF FlatInv, FlatTypeOK
<1>2. counts \subseteq Nat /\ counts # {}
  BY <1>1, CacheHasPlaces DEF CacheSlots
<1>3. PICK c \in counts : \A d \in counts : c <= d
  BY <1>2, SomeIsLeast, Zenon
<1>4. least # {}
  BY <1>3
<1>5. least \subseteq Nat
  BY DEF CacheSlots
<1>6. Structure!MinElement = Structure!Min(least)
  BY SlotsAre DEF Structure!MinElement
<1> DEFINE m == Structure!MinElement
<1>7. m \in least /\ \A y \in least : m <= y
  BY <1>4, <1>5, <1>6, LeastIs, Zenon
<1> HIDE DEF m
<1>8. m \in CacheSlots /\ \A j \in CacheSlots : lc_use_count_[m] <= lc_use_count_[j]
  BY <1>7
<1>9. \A i \in CacheSlots : lc_use_count_[i] # 0 => lc_keys_[i] # key
  BY FoundIs, Zenon
<1>10. ASSUME NEW j \in 1 .. m - 1, lc_keys_[j] = key PROVE FALSE
  <2>1. j \in CacheSlots /\ j < m
    BY <1>8, <1>10, CacheHasPlaces DEF CacheSlots
  <2>2. lc_use_count_[j] = 0
    BY <1>9, <1>10, <2>1, Zenon
  <2>3. j \in least
    BY <1>1, <2>1, <2>2
  <2> QED BY <1>7, <1>8, <2>1, <2>3 DEF CacheSlots
<1>11. ChosenFor(key, m)
  BY <1>8, <1>9, <1>10, Zenon DEF ChosenFor
<1> QED BY <1>11 DEF m

LEMMA FoundIsChosen ==
  ASSUME FlatInv, NEW key, Structure!try_find_index(key) # {}
  PROVE  /\ ChosenFor(key, Structure!Min(Structure!try_find_index(key)))
         /\ lc_use_count_[Structure!Min(Structure!try_find_index(key))] # 0
         /\ lc_keys_[Structure!Min(Structure!try_find_index(key))] = key
<1> DEFINE found == Structure!try_find_index(key)
           m == Structure!Min(found)
<1>1. \A i : i \in found <=> i \in CacheSlots /\ lc_keys_[i] = key /\ lc_use_count_[i] # 0
  BY FoundIs, Zenon
<1>2. found \subseteq Nat
  BY <1>1 DEF CacheSlots
<1>3. m \in found
  BY <1>2, LeastIs, Zenon
<1> HIDE DEF m, found
<1>4. m \in CacheSlots /\ lc_keys_[m] = key /\ lc_use_count_[m] # 0
  BY <1>1, <1>3, Zenon
<1>5. \A j \in 1 .. m - 1 : lc_keys_[j] # key
  BY <1>4, Zenon DEF FlatInv, UsedAreFirst
<1>6. \A i \in CacheSlots : lc_use_count_[i] # 0 /\ lc_keys_[i] = key => i = m
  BY <1>4, FoundOnce, Zenon
<1> QED BY <1>4, <1>5, <1>6, Zenon DEF m, found, ChosenFor

(* The chosen slot gets the key, its value and a use; what it had before is   *)
(* no longer stored.                                                          *)
LEMMA SlotGiven ==
  ASSUME FlatInv, NEW key \in CacheKey, NEW v \in CacheValue, NEW index, ChosenFor(key, index),
         NEW n \in Nat, n # 0, NEW s1, s1 \in [DOMAIN s1 -> CacheValue],
         lc_keys_' = [lc_keys_ EXCEPT ![index] = key],
         lc_values_' = [lc_values_ EXCEPT ![index] = v],
         lc_use_count_' = [lc_use_count_ EXCEPT ![index] = n],
         lc_stored' = s1, key \in DOMAIN s1, s1[key] = v,
         \A k : k # key => /\ k \in DOMAIN s1 <=>
                                k \in DOMAIN lc_stored
                                  /\ ~(lc_use_count_[index] # 0 /\ lc_keys_[index] = k)
                           /\ k \in DOMAIN s1 => s1[k] = lc_stored[k]
  PROVE  FlatInv'
<1>1. /\ lc_keys_ \in [CacheSlots -> CacheKey] /\ lc_values_ \in [CacheSlots -> CacheValue]
      /\ lc_use_count_ \in [CacheSlots -> Nat]
  BY DEF FlatInv, FlatTypeOK
<1>2. index \in CacheSlots
  BY DEF ChosenFor
<1>3. FlatTypeOK(lc_keys_', lc_values_', lc_use_count_', lc_stored')
  BY <1>1, <1>2 DEF FlatTypeOK
<1>4. /\ lc_keys_'[index] = key /\ lc_values_'[index] = v /\ lc_use_count_'[index] = n
      /\ \A i \in CacheSlots \ {index} :
           /\ lc_keys_'[i] = lc_keys_[i] /\ lc_values_'[i] = lc_values_[i]
           /\ lc_use_count_'[i] = lc_use_count_[i]
  BY <1>1, <1>2
<1>5. ASSUME NEW i \in CacheSlots, lc_use_count_'[i] # 0
      PROVE  /\ \A j \in 1 .. i - 1 : lc_keys_'[j] # lc_keys_'[i]
             /\ lc_keys_'[i] \in DOMAIN lc_stored' /\ lc_stored'[lc_keys_'[i]] = lc_values_'[i]
  <2>0. \A j \in 1 .. i - 1 : j \in CacheSlots /\ j # i
    BY CacheHasPlaces DEF CacheSlots
  <2>1. CASE i = index
    <3>1. \A j \in 1 .. i - 1 : lc_keys_'[j] = lc_keys_[j]
      BY <1>4, <2>0, <2>1, Zenon
    <3> QED BY <1>4, <2>1, <3>1, Zenon DEF ChosenFor
  <2>2. CASE i # index
    <3>1. lc_use_count_[i] # 0 /\ lc_keys_'[i] = lc_keys_[i] /\ lc_values_'[i] = lc_values_[i]
      BY <1>4, <1>5, <2>2, Zenon
    <3>2. /\ \A j \in 1 .. i - 1 : lc_keys_[j] # lc_keys_[i]
          /\ lc_keys_[i] \in DOMAIN lc_stored /\ lc_stored[lc_keys_[i]] = lc_values_[i]
      BY <3>1, Zenon DEF FlatInv, UsedAreFirst
    <3>3. lc_keys_[i] # key
      BY <2>2, <3>1, Zenon DEF ChosenFor
    <3>4. ~(lc_use_count_[index] # 0 /\ lc_keys_[index] = lc_keys_[i])
      BY <1>2, <2>2, <3>1, FoundOnce, Zenon
    <3>5. \A j \in 1 .. i - 1 : lc_keys_'[j] # lc_keys_[i]
      BY <1>4, <2>0, <3>2, <3>3, Zenon
    <3> QED BY <3>1, <3>2, <3>3, <3>4, <3>5, Zenon
  <2> QED BY <2>1, <2>2
<1>6. ASSUME NEW k \in DOMAIN lc_stored'
      PROVE  \E i \in CacheSlots : lc_use_count_'[i] # 0 /\ lc_keys_'[i] = k
  <2>1. CASE k = key
    BY <1>2, <1>4, <2>1, Zenon
  <2>2. CASE k # key
    <3>1. k \in DOMAIN lc_stored /\ ~(lc_use_count_[index] # 0 /\ lc_keys_[index] = k)
      BY <1>6, <2>2, Zenon
    <3>2. PICK i \in CacheSlots : lc_use_count_[i] # 0 /\ lc_keys_[i] = k
      BY <3>1, Zenon DEF FlatInv, StoredAreUsed
    <3>3. i # index
      BY <3>1, <3>2, Zenon
    <3> QED BY <1>4, <3>2, <3>3, Zenon
  <2> QED BY <2>1, <2>2
<1> QED BY <1>3, <1>5, <1>6, Zenon DEF FlatInv, UsedAreFirst, StoredAreUsed

LEMMA WithTyped ==
  ASSUME NEW S, NEW f, f \in [DOMAIN f -> S], NEW k, NEW v \in S
  PROVE  Structure!With(f, k, v) \in [DOMAIN f \cup {k} -> S]
  BY DEF Structure!With

LEMMA WithoutTyped ==
  ASSUME NEW S, NEW f, f \in [DOMAIN f -> S], NEW k
  PROVE  Structure!Without(f, k) \in [DOMAIN f \ {k} -> S]
  BY DEF Structure!Without

LEMMA FlatAssigned ==
  ASSUME FlatInv, NEW key \in CacheKey, NEW v \in CacheValue, Structure!AssignFlat(key, v)
  PROVE  FlatInv'
<1> DEFINE found == Structure!try_find_index(key)
           index == IF found # {} THEN Structure!Min(found) ELSE Structure!MinElement
           n == IF found # {} THEN lc_use_count_[index] + 1 ELSE 1
           old == IF found # {} \/ lc_use_count_[index] = 0 THEN lc_stored
                  ELSE Structure!Without(lc_stored, lc_keys_[index])
           s1 == Structure!With(old, key, v)
<1>1. /\ lc_keys_' = [lc_keys_ EXCEPT ![index] = key]
      /\ lc_values_' = [lc_values_ EXCEPT ![index] = v] /\ lc_stored' = s1
      /\ lc_use_count_' = [lc_use_count_ EXCEPT ![index] = IF found # {} THEN @ + 1 ELSE 1]
  BY Zenon DEF Structure!AssignFlat
<1>2. ChosenFor(key, index)
  BY LeastUsedIsChosen, FoundIsChosen, Zenon
<1>3. found # {} => lc_use_count_[index] # 0 /\ lc_keys_[index] = key
  BY FoundIsChosen, Zenon
<1>4. index \in CacheSlots
  BY <1>2 DEF ChosenFor
<1> HIDE DEF found, index
<1>5. /\ lc_use_count_ \in [CacheSlots -> Nat] /\ lc_stored \in [DOMAIN lc_stored -> CacheValue]
  BY DEF FlatInv, FlatTypeOK
<1>6. n \in Nat /\ n # 0 /\ lc_use_count_' = [lc_use_count_ EXCEPT ![index] = n]
  BY <1>1, <1>4, <1>5
<1>7. /\ old \in [DOMAIN old -> CacheValue]
      /\ \A k : k # key => /\ k \in DOMAIN old <=>
                                k \in DOMAIN lc_stored
                                  /\ ~(lc_use_count_[index] # 0 /\ lc_keys_[index] = k)
                           /\ k \in DOMAIN old => old[k] = lc_stored[k]
  <2>1. CASE found # {} \/ lc_use_count_[index] = 0
    BY <1>3, <1>5, <2>1, Zenon
  <2>2. CASE ~(found # {} \/ lc_use_count_[index] = 0)
    <3>1. old = Structure!Without(lc_stored, lc_keys_[index])
      BY <2>2, Zenon
    <3> HIDE DEF old
    <3>2. /\ DOMAIN old = DOMAIN lc_stored \ {lc_keys_[index]}
          /\ \A k \in DOMAIN lc_stored \ {lc_keys_[index]} : old[k] = lc_stored[k]
      BY <3>1 DEF Structure!Without
    <3>3. old \in [DOMAIN old -> CacheValue]
      BY <1>5, <3>1, <3>2, WithoutTyped, Zenon
    <3> QED BY <2>2, <3>2, <3>3, Zenon
  <2> QED BY <2>1, <2>2
<1> HIDE DEF old
<1>a. s1 = Structure!With(old, key, v)
  OBVIOUS
<1> HIDE DEF s1
<1>8. /\ DOMAIN s1 = DOMAIN old \cup {key} /\ s1[key] = v
      /\ \A k \in DOMAIN old : k # key => s1[k] = old[k]
  BY <1>a DEF Structure!With
<1>9. s1 \in [DOMAIN s1 -> CacheValue]
  <2>1. s1 \in [DOMAIN old \cup {key} -> CacheValue]
    BY <1>7, <1>a, WithTyped, Zenon
  <2> QED BY <1>8, <2>1, Zenon
<1>10. \A k : k # key => /\ k \in DOMAIN s1 <=>
                              k \in DOMAIN lc_stored
                                /\ ~(lc_use_count_[index] # 0 /\ lc_keys_[index] = k)
                         /\ k \in DOMAIN s1 => s1[k] = lc_stored[k]
  <2>1. \A k : k # key => (k \in DOMAIN s1 <=> k \in DOMAIN old)
    BY <1>8, Zenon
  <2> QED BY <1>7, <1>8, <2>1, Zenon
<1>11. key \in DOMAIN s1 /\ s1[key] = v
  BY <1>8, Zenon
<1> HIDE DEF n
<1> QED BY <1>1, <1>2, <1>6, <1>9, <1>10, <1>11, SlotGiven, Zenon

LEMMA FlatInvalidated ==
  ASSUME FlatInv, NEW key, Structure!InvalidateFlat(key)
  PROVE  FlatInv'
<1>1. PICK index \in Structure!try_find_index(key) :
        /\ lc_use_count_' = [lc_use_count_ EXCEPT ![index] = 0]
        /\ lc_values_' = [lc_values_ EXCEPT ![index] = ""]
  BY Zenon DEF Structure!InvalidateFlat
<1>2. lc_keys_' = lc_keys_ /\ lc_stored' = Structure!Without(lc_stored, key)
  BY Zenon DEF Structure!InvalidateFlat
<1>3. index \in CacheSlots /\ lc_keys_[index] = key /\ lc_use_count_[index] # 0
  BY FoundIs, Zenon
<1>4. /\ lc_keys_ \in [CacheSlots -> CacheKey] /\ lc_values_ \in [CacheSlots -> CacheValue]
      /\ lc_use_count_ \in [CacheSlots -> Nat] /\ lc_stored \in [DOMAIN lc_stored -> CacheValue]
  BY DEF FlatInv, FlatTypeOK
<1>5. /\ DOMAIN lc_stored' = DOMAIN lc_stored \ {key}
      /\ \A x \in DOMAIN lc_stored \ {key} : lc_stored'[x] = lc_stored[x]
  BY <1>2 DEF Structure!Without
<1>6. lc_stored' \in [DOMAIN lc_stored' -> CacheValue]
  BY <1>2, <1>4, <1>5, WithoutTyped, Zenon
<1>7. "" \in CacheValue
  BY DEF CacheValue
<1>8. FlatTypeOK(lc_keys_', lc_values_', lc_use_count_', lc_stored')
  BY <1>1, <1>2, <1>3, <1>4, <1>6, <1>7 DEF FlatTypeOK
<1>9. /\ lc_use_count_'[index] = 0
      /\ \A i \in CacheSlots \ {index} :
           lc_values_'[i] = lc_values_[i] /\ lc_use_count_'[i] = lc_use_count_[i]
  BY <1>1, <1>3, <1>4
<1>10. ASSUME NEW i \in CacheSlots, lc_use_count_'[i] # 0
       PROVE  /\ \A j \in 1 .. i - 1 : lc_keys_'[j] # lc_keys_'[i]
              /\ lc_keys_'[i] \in DOMAIN lc_stored' /\ lc_stored'[lc_keys_'[i]] = lc_values_'[i]
  <2>1. i # index
    BY <1>9, <1>10, Zenon
  <2>2. lc_use_count_[i] # 0 /\ lc_values_'[i] = lc_values_[i]
    BY <1>9, <1>10, <2>1, Zenon
  <2>3. /\ \A j \in 1 .. i - 1 : lc_keys_[j] # lc_keys_[i]
        /\ lc_keys_[i] \in DOMAIN lc_stored /\ lc_stored[lc_keys_[i]] = lc_values_[i]
    BY <2>2, Zenon DEF FlatInv, UsedAreFirst
  <2>4. lc_keys_[i] # key
    BY <1>3, <2>1, <2>2, FoundOnce, Zenon
  <2> QED BY <1>2, <1>5, <2>2, <2>3, <2>4, Zenon
<1>11. ASSUME NEW k \in DOMAIN lc_stored'
       PROVE  \E i \in CacheSlots : lc_use_count_'[i] # 0 /\ lc_keys_'[i] = k
  <2>1. k \in DOMAIN lc_stored /\ k # key
    BY <1>5, <1>11, Zenon
  <2>2. PICK i \in CacheSlots : lc_use_count_[i] # 0 /\ lc_keys_[i] = k
    BY <2>1, Zenon DEF FlatInv, StoredAreUsed
  <2>3. i # index
    BY <1>3, <2>1, <2>2, Zenon
  <2> QED BY <1>2, <1>9, <2>2, <2>3, Zenon
<1> QED BY <1>8, <1>10, <1>11, Zenon DEF FlatInv, UsedAreFirst, StoredAreUsed

-----------------------------------------------------------------------------
(* The cache that keeps its entries in order: as long as no more keys were    *)
(* taken in than there are entries, those with a key are the first of them,   *)
(* each with the key's own value.                                             *)
HashTypeOK(order, entry, put) ==
  /\ order \in [CacheSlots -> CacheSlots]
  /\ \A i, j \in CacheSlots : order[i] = order[j] => i = j
  /\ \A e \in CacheSlots : \E i \in CacheSlots : order[i] = e
  /\ entry \in [DOMAIN entry -> CacheSlots] /\ DOMAIN put = DOMAIN entry
OwnEntries(order, entry, taken) ==
  /\ \A k, l \in DOMAIN entry : entry[k] = entry[l] => k = l
  /\ \A k \in DOMAIN entry : \E i \in CacheSlots : i <= taken /\ order[i] = entry[k]
HashInv ==
  /\ HashTypeOK(lc_used_order_, lc_entry, lc_put)
  /\ lc_value \in [CacheSlots -> CacheValue] /\ lc_taken \in 0 .. CachePlaces + 1
  /\ lc_taken <= CachePlaces =>
       /\ OwnEntries(lc_used_order_, lc_entry, lc_taken)
       /\ \A k \in DOMAIN lc_put : lc_value[lc_entry[k]] = lc_put[k]

LEMMA HashFinds ==
  HashInv => /\ DOMAIN lc_put = DOMAIN lc_entry
             /\ lc_taken <= CachePlaces =>
                  \A k \in DOMAIN lc_put : lc_value[lc_entry[k]] = lc_put[k]
  BY Zenon DEF HashInv, HashTypeOK

(* An entry goes to the front; those before it go one place further, the      *)
(* others stay.                                                               *)
LEMMA FrontIs ==
  ASSUME HashTypeOK(lc_used_order_, lc_entry, lc_put), NEW at \in CacheSlots
  PROVE  /\ Structure!ToFront(lc_used_order_[at]) \in [CacheSlots -> CacheSlots]
         /\ Structure!ToFront(lc_used_order_[at])[1] = lc_used_order_[at]
         /\ \A i \in CacheSlots : i < at =>
              Structure!ToFront(lc_used_order_[at])[i + 1] = lc_used_order_[i]
         /\ \A i \in CacheSlots : i > at =>
              Structure!ToFront(lc_used_order_[at])[i] = lc_used_order_[i]
<1> DEFINE e == lc_used_order_[at]
           f == Structure!ToFront(e)
<1>0. CachePlaces \in Nat /\ CachePlaces >= 1
  BY CacheHasPlaces
<1>1. /\ lc_used_order_ \in [CacheSlots -> CacheSlots]
      /\ \A i, j \in CacheSlots : lc_used_order_[i] = lc_used_order_[j] => i = j
  BY Zenon DEF HashTypeOK
<1>2. (CHOOSE i \in CacheSlots : lc_used_order_[i] = e) = at
  BY <1>1, Zenon
<1>3. f = [i \in CacheSlots |-> IF i = 1 THEN e ELSE lc_used_order_[IF i <= at THEN i - 1 ELSE i]]
  BY <1>2, SlotsAre DEF Structure!ToFront
<1>4. e \in CacheSlots
  BY <1>1
<1> HIDE DEF e, f
<1>5. f \in [CacheSlots -> CacheSlots] /\ f[1] = e
  BY <1>0, <1>1, <1>3, <1>4 DEF CacheSlots
<1>6. ASSUME NEW i \in CacheSlots, i < at PROVE f[i + 1] = lc_used_order_[i]
  <2>1. i + 1 \in CacheSlots /\ i + 1 # 1 /\ i + 1 <= at /\ (i + 1) - 1 = i
    BY <1>0, <1>6 DEF CacheSlots
  <2> QED BY <1>3, <2>1
<1>7. ASSUME NEW i \in CacheSlots, i > at PROVE f[i] = lc_used_order_[i]
  BY <1>0, <1>3, <1>7 DEF CacheSlots
<1> QED BY <1>5, <1>6, <1>7, Zenon DEF e, f

(* So the order stays one of all entries.                                     *)
LEMMA FrontIsOrder ==
  ASSUME HashTypeOK(lc_used_order_, lc_entry, lc_put), NEW at \in CacheSlots, NEW f,
         f = Structure!ToFront(lc_used_order_[at])
  PROVE  /\ f \in [CacheSlots -> CacheSlots]
         /\ \A i, j \in CacheSlots : f[i] = f[j] => i = j
         /\ \A e \in CacheSlots : \E i \in CacheSlots : f[i] = e
         /\ \A i \in CacheSlots : \E j \in CacheSlots :
              f[j] = lc_used_order_[i] /\ (i <= at => j <= i + 1) /\ (i >= at => j <= i)
<1>0. CachePlaces \in Nat /\ CachePlaces >= 1 /\ 1 \in CacheSlots
  BY CacheHasPlaces DEF CacheSlots
<1>1. /\ lc_used_order_ \in [CacheSlots -> CacheSlots]
      /\ \A i, j \in CacheSlots : lc_used_order_[i] = lc_used_order_[j] => i = j
      /\ \A e \in CacheSlots : \E i \in CacheSlots : lc_used_order_[i] = e
  BY Zenon DEF HashTypeOK
<1>2. /\ f \in [CacheSlots -> CacheSlots] /\ f[1] = lc_used_order_[at]
      /\ \A i \in CacheSlots : i < at => f[i + 1] = lc_used_order_[i]
      /\ \A i \in CacheSlots : i > at => f[i] = lc_used_order_[i]
  BY FrontIs, Zenon
<1> DEFINE back(i) == IF i = 1 THEN at ELSE IF i <= at THEN i - 1 ELSE i
<1>3. ASSUME NEW i \in CacheSlots PROVE back(i) \in CacheSlots /\ f[i] = lc_used_order_[back(i)]
  <2>1. CASE i = 1
    BY <1>2, <2>1
  <2>2. CASE i # 1 /\ i <= at
    <3>1. i - 1 \in CacheSlots /\ i - 1 < at /\ (i - 1) + 1 = i
      BY <1>0, <2>2 DEF CacheSlots
    <3> QED BY <1>2, <2>2, <3>1
  <2>3. CASE i # 1 /\ ~(i <= at)
    <3>1. i > at
      BY <2>3 DEF CacheSlots
    <3> QED BY <1>2, <2>3, <3>1
  <2> QED BY <2>1, <2>2, <2>3
<1> HIDE DEF back
<1>4. ASSUME NEW i \in CacheSlots, NEW j \in CacheSlots, f[i] = f[j] PROVE i = j
  <2>1. back(i) = back(j)
    <3>1. /\ back(i) \in CacheSlots /\ f[i] = lc_used_order_[back(i)]
          /\ back(j) \in CacheSlots /\ f[j] = lc_used_order_[back(j)]
      BY <1>3
    <3> DEFINE b == back(i)
               c == back(j)
    <3>2. b \in CacheSlots /\ c \in CacheSlots /\ lc_used_order_[b] = lc_used_order_[c]
      BY <1>4, <3>1
    <3> HIDE DEF b, c
    <3>3. b = c
      BY <1>1, <3>2
    <3> QED BY <3>3 DEF b, c
  <2> QED BY <1>0, <2>1 DEF CacheSlots, back
<1>5. ASSUME NEW i \in CacheSlots
      PROVE  \E j \in CacheSlots :
               f[j] = lc_used_order_[i] /\ (i <= at => j <= i + 1) /\ (i >= at => j <= i)
  <2>1. CASE i = at
    BY <1>0, <1>2, <2>1 DEF CacheSlots
  <2>2. CASE i < at
    <3>1. i + 1 \in CacheSlots
      BY <1>0, <2>2 DEF CacheSlots
    <3> QED BY <1>2, <2>2, <3>1 DEF CacheSlots
  <2>3. CASE i > at
    BY <1>2, <2>3 DEF CacheSlots
  <2> QED BY <2>1, <2>2, <2>3 DEF CacheSlots
<1>6. ASSUME NEW e \in CacheSlots PROVE \E i \in CacheSlots : f[i] = e
  BY <1>1, <1>5, Zenon
<1> QED BY <1>2, <1>4, <1>5, <1>6, Zenon

LEMMA HashAssigned ==
  ASSUME HashInv, NEW key, NEW v \in CacheValue, Structure!AssignHash(key, v)
  PROVE  HashInv'
<1> DEFINE known == key \in DOMAIN lc_entry
           e == IF known THEN lc_entry[key] ELSE lc_used_order_[CachePlaces]
           s1 == Structure!With(lc_entry, key, e)
           p1 == Structure!With(lc_put, key, v)
           f == Structure!ToFront(e)
<1>0. CachePlaces \in Nat /\ CachePlaces >= 1 /\ CachePlaces \in CacheSlots /\ 1 \in CacheSlots
  BY CacheHasPlaces DEF CacheSlots
<1>1. /\ lc_entry' = s1 /\ lc_put' = p1 /\ lc_used_order_' = f
      /\ lc_value' = [lc_value EXCEPT ![e] = v]
      /\ lc_taken' = IF known THEN lc_taken ELSE Structure!Min({lc_taken + 1, CachePlaces + 1})
  BY Zenon DEF Structure!AssignHash
<1>2. /\ HashTypeOK(lc_used_order_, lc_entry, lc_put)
      /\ lc_value \in [CacheSlots -> CacheValue] /\ lc_taken \in 0 .. CachePlaces + 1
  BY Zenon DEF HashInv
<1>3. /\ lc_used_order_ \in [CacheSlots -> CacheSlots]
      /\ \A i, j \in CacheSlots : lc_used_order_[i] = lc_used_order_[j] => i = j
      /\ \A x \in CacheSlots : \E i \in CacheSlots : lc_used_order_[i] = x
      /\ lc_entry \in [DOMAIN lc_entry -> CacheSlots] /\ DOMAIN lc_put = DOMAIN lc_entry
  BY <1>2, Zenon DEF HashTypeOK
<1>4. e \in CacheSlots
  BY <1>0, <1>3
<1>5. known => e = lc_entry[key]
  BY Zenon
<1>6. ~known => e = lc_used_order_[CachePlaces]
  BY Zenon
<1> HIDE DEF e
<1>7. PICK at \in CacheSlots : lc_used_order_[at] = e
  BY <1>3, <1>4, Zenon
<1>8. /\ f \in [CacheSlots -> CacheSlots]
      /\ \A i, j \in CacheSlots : f[i] = f[j] => i = j
      /\ \A x \in CacheSlots : \E i \in CacheSlots : f[i] = x
      /\ \A i \in CacheSlots : \E j \in CacheSlots :
           f[j] = lc_used_order_[i] /\ (i <= at => j <= i + 1) /\ (i >= at => j <= i)
  BY <1>2, <1>7, FrontIsOrder, Zenon
<1>9. f[1] = e /\ 1 \in CacheSlots
  BY <1>0, <1>2, <1>7, FrontIs, Zenon
<1>a. s1 = Structure!With(lc_entry, key, e) /\ p1 = Structure!With(lc_put, key, v)
  OBVIOUS
<1> HIDE DEF f, s1, p1
<1>10. /\ DOMAIN s1 = DOMAIN lc_entry \cup {key} /\ s1[key] = e
       /\ \A k \in DOMAIN lc_entry : k # key => s1[k] = lc_entry[k]
  BY <1>a DEF Structure!With
<1>11. /\ DOMAIN p1 = DOMAIN lc_entry \cup {key} /\ p1[key] = v
       /\ \A k \in DOMAIN lc_entry : k # key => p1[k] = lc_put[k]
  BY <1>3, <1>a DEF Structure!With
<1>12. s1 \in [DOMAIN s1 -> CacheSlots]
  <2>1. s1 \in [DOMAIN lc_entry \cup {key} -> CacheSlots]
    BY <1>3, <1>4, <1>a, WithTyped, Zenon
  <2> QED BY <1>10, <2>1, Zenon
<1>13. HashTypeOK(lc_used_order_', lc_entry', lc_put')
  BY <1>1, <1>8, <1>10, <1>11, <1>12, Zenon DEF HashTypeOK
<1>14. lc_taken' = IF known THEN lc_taken
                   ELSE IF lc_taken <= CachePlaces THEN lc_taken + 1 ELSE CachePlaces + 1
  <2> DEFINE both == {lc_taken + 1, CachePlaces + 1}
  <2>1. both \subseteq Nat /\ both # {}
    BY <1>0, <1>2
  <2>2. Structure!Min(both) \in both /\ \A y \in both : Structure!Min(both) <= y
    BY <2>1, LeastIs, Zenon
  <2> DEFINE m == Structure!Min(both)
  <2>3. /\ m = lc_taken + 1 \/ m = CachePlaces + 1
        /\ m <= lc_taken + 1 /\ m <= CachePlaces + 1
    BY <2>2, Zenon
  <2> HIDE DEF m
  <2>4. m = IF lc_taken <= CachePlaces THEN lc_taken + 1 ELSE CachePlaces + 1
    BY <1>0, <1>2, <2>3
  <2> QED BY <1>1, <2>4, Zenon DEF m
<1>15. lc_value' \in [CacheSlots -> CacheValue] /\ lc_taken' \in 0 .. CachePlaces + 1
  <2>1. lc_value' \in [CacheSlots -> CacheValue]
    BY <1>1, <1>2
  <2>2. lc_taken' \in 0 .. CachePlaces + 1
    BY <1>0, <1>2, <1>14
  <2> QED BY <2>1, <2>2
<1>16. ASSUME lc_taken' <= CachePlaces
       PROVE  /\ OwnEntries(lc_used_order_', lc_entry', lc_taken')
              /\ \A k \in DOMAIN lc_put' : lc_value'[lc_entry'[k]] = lc_put'[k]
  <2>1. lc_taken <= CachePlaces /\ lc_taken \in Nat /\ lc_taken' \in Nat
    BY <1>0, <1>2, <1>14, <1>16
  <2>2. /\ \A k, l \in DOMAIN lc_entry : lc_entry[k] = lc_entry[l] => k = l
        /\ \A k \in DOMAIN lc_entry : \E i \in CacheSlots :
             i <= lc_taken /\ lc_used_order_[i] = lc_entry[k]
        /\ \A k \in DOMAIN lc_put : lc_value[lc_entry[k]] = lc_put[k]
    BY <2>1, Zenon DEF HashInv, OwnEntries
  <2>3. \A k \in DOMAIN lc_entry : k # key => lc_entry[k] # e
    <3>1. CASE known
      BY <1>5, <2>2, <3>1, Zenon
    <3>2. CASE ~known
      <4>1. lc_taken < CachePlaces
        BY <1>0, <1>14, <1>16, <2>1, <3>2
      <4>2. ASSUME NEW k \in DOMAIN lc_entry PROVE lc_entry[k] # e
        <5>1. PICK i \in CacheSlots : i <= lc_taken /\ lc_used_order_[i] = lc_entry[k]
          BY <2>2, Zenon
        <5>2. i # CachePlaces
          BY <1>0, <2>1, <4>1, <5>1 DEF CacheSlots
        <5> QED BY <1>0, <1>3, <1>6, <3>2, <5>1, <5>2, Zenon
      <4> QED BY <4>2, Zenon
    <3> QED BY <3>1, <3>2
  <2>4. ASSUME NEW k \in DOMAIN lc_entry', NEW l \in DOMAIN lc_entry', lc_entry'[k] = lc_entry'[l]
        PROVE  k = l
    <3>1. /\ k = key => lc_entry'[k] = e
          /\ k # key => k \in DOMAIN lc_entry /\ lc_entry'[k] = lc_entry[k]
          /\ l = key => lc_entry'[l] = e
          /\ l # key => l \in DOMAIN lc_entry /\ lc_entry'[l] = lc_entry[l]
      BY <1>1, <1>10, <2>4, Zenon
    <3> QED BY <2>2, <2>3, <2>4, <3>1, Zenon
  <2>5. lc_taken' >= 1
    <3>1. CASE known
      <4>1. PICK i \in CacheSlots : i <= lc_taken
        BY <2>2, <3>1, Zenon
      <4> QED BY <1>14, <2>1, <3>1, <4>1 DEF CacheSlots
    <3>2. CASE ~known
      BY <1>14, <2>1, <3>2
    <3> QED BY <3>1, <3>2
  <2>6. ASSUME NEW k \in DOMAIN lc_entry'
        PROVE  \E i \in CacheSlots : i <= lc_taken' /\ lc_used_order_'[i] = lc_entry'[k]
    <3>1. CASE k = key
      BY <1>1, <1>9, <1>10, <2>5, <3>1, Zenon
    <3>2. CASE k # key
      <4>1. k \in DOMAIN lc_entry /\ lc_entry'[k] = lc_entry[k]
        BY <1>1, <1>10, <2>6, <3>2, Zenon
      <4>2. PICK i \in CacheSlots : i <= lc_taken /\ lc_used_order_[i] = lc_entry[k]
        BY <2>2, <4>1, Zenon
      <4>3. PICK j \in CacheSlots : /\ f[j] = lc_used_order_[i]
                                    /\ i <= at => j <= i + 1 
                                    /\ i >= at => j <= i
        BY <1>8, Zenon
      <4>4. j <= lc_taken'
        <5>1. CASE known
          <6>1. PICK h \in CacheSlots : h <= lc_taken /\ lc_used_order_[h] = lc_entry[key]
            BY <2>2, <5>1, Zenon
          <6>2. h = at
            BY <1>3, <1>5, <1>7, <5>1, <6>1, Zenon
          <6>3. i # at
            BY <1>7, <2>3, <3>2, <4>1, <4>2, Zenon
          <6> QED BY <1>14, <2>1, <4>2, <4>3, <5>1, <6>1, <6>2, <6>3 DEF CacheSlots
        <5>2. CASE ~known
          <6>1. lc_taken' = lc_taken + 1
            BY <1>14, <2>1, <5>2
          <6> QED BY <2>1, <4>2, <4>3, <6>1 DEF CacheSlots
        <5> QED BY <5>1, <5>2
      <4> QED BY <1>1, <4>1, <4>2, <4>3, <4>4, Zenon
    <3> QED BY <3>1, <3>2
  <2>7. ASSUME NEW k \in DOMAIN lc_put' PROVE lc_value'[lc_entry'[k]] = lc_put'[k]
    <3>1. lc_value'[e] = v /\ \A x \in CacheSlots : x # e => lc_value'[x] = lc_value[x]
      BY <1>1, <1>2, <1>4
    <3>2. CASE k = key
      BY <1>1, <1>10, <1>11, <3>1, <3>2, Zenon
    <3>3. CASE k # key
      <4>1. k \in DOMAIN lc_entry /\ lc_entry'[k] = lc_entry[k] /\ lc_put'[k] = lc_put[k]
        BY <1>1, <1>10, <1>11, <2>7, <3>3, Zenon
      <4>2. lc_entry[k] # e /\ lc_entry[k] \in CacheSlots
        BY <1>3, <2>3, <3>3, <4>1
      <4> QED BY <1>3, <2>2, <3>1, <4>1, <4>2, Zenon
    <3> QED BY <3>2, <3>3
  <2> QED BY <2>4, <2>6, <2>7, Zenon DEF OwnEntries
<1> QED BY <1>13, <1>15, <1>16, Zenon DEF HashInv

LEMMA HashInvalidated ==
  ASSUME HashInv, NEW key, Structure!InvalidateHash(key)
  PROVE  HashInv'
<1>1. /\ key \in DOMAIN lc_entry /\ lc_value' = [lc_value EXCEPT ![lc_entry[key]] = ""]
      /\ lc_entry' = Structure!Without(lc_entry, key) /\ lc_put' = Structure!Without(lc_put, key)
      /\ lc_used_order_' = lc_used_order_ /\ lc_taken' = lc_taken
  BY Zenon DEF Structure!InvalidateHash
<1>2. /\ lc_used_order_ \in [CacheSlots -> CacheSlots]
      /\ \A i, j \in CacheSlots : lc_used_order_[i] = lc_used_order_[j] => i = j
      /\ \A x \in CacheSlots : \E i \in CacheSlots : lc_used_order_[i] = x
      /\ lc_entry \in [DOMAIN lc_entry -> CacheSlots] /\ DOMAIN lc_put = DOMAIN lc_entry
      /\ lc_value \in [CacheSlots -> CacheValue] /\ lc_taken \in 0 .. CachePlaces + 1
  BY Zenon DEF HashInv, HashTypeOK
<1>3. /\ DOMAIN lc_entry' = DOMAIN lc_entry \ {key}
      /\ \A k \in DOMAIN lc_entry \ {key} : lc_entry'[k] = lc_entry[k]
  BY <1>1 DEF Structure!Without
<1>4. /\ DOMAIN lc_put' = DOMAIN lc_entry \ {key}
      /\ \A k \in DOMAIN lc_entry \ {key} : lc_put'[k] = lc_put[k]
  BY <1>1, <1>2 DEF Structure!Without
<1>5. lc_entry' \in [DOMAIN lc_entry' -> CacheSlots]
  BY <1>1, <1>2, <1>3, WithoutTyped, Zenon
<1>6. HashTypeOK(lc_used_order_', lc_entry', lc_put')
  BY <1>1, <1>2, <1>3, <1>4, <1>5, Zenon DEF HashTypeOK
<1>7. "" \in CacheValue
  BY DEF CacheValue
<1>8. lc_value' \in [CacheSlots -> CacheValue] /\ lc_taken' \in 0 .. CachePlaces + 1
  BY <1>1, <1>2, <1>7
<1>9. ASSUME lc_taken' <= CachePlaces
      PROVE  /\ OwnEntries(lc_used_order_', lc_entry', lc_taken')
             /\ \A k \in DOMAIN lc_put' : lc_value'[lc_entry'[k]] = lc_put'[k]
  <2>1. /\ \A k, l \in DOMAIN lc_entry : lc_entry[k] = lc_entry[l] => k = l
        /\ \A k \in DOMAIN lc_entry : \E i \in CacheSlots :
             i <= lc_taken /\ lc_used_order_[i] = lc_entry[k]
        /\ \A k \in DOMAIN lc_put : lc_value[lc_entry[k]] = lc_put[k]
    BY <1>1, <1>9, Zenon DEF HashInv, OwnEntries
  <2>2. OwnEntries(lc_used_order_', lc_entry', lc_taken')
    <3>1. ASSUME NEW k \in DOMAIN lc_entry'
          PROVE  k \in DOMAIN lc_entry /\ lc_entry'[k] = lc_entry[k]
      BY <1>3, <3>1, Zenon
    <3>2. \A k, l \in DOMAIN lc_entry' : lc_entry'[k] = lc_entry'[l] => k = l
      BY <2>1, <3>1, Zenon
    <3>3. ASSUME NEW k \in DOMAIN lc_entry'
          PROVE  \E i \in CacheSlots : i <= lc_taken' /\ lc_used_order_'[i] = lc_entry'[k]
      <4>1. PICK i \in CacheSlots : i <= lc_taken /\ lc_used_order_[i] = lc_entry[k]
        BY <2>1, <3>1, <3>3, Zenon
      <4>2. i <= lc_taken' /\ lc_used_order_'[i] = lc_entry'[k]
        BY <1>1, <3>1, <3>3, <4>1
      <4> QED BY <4>2, Zenon
    <3> QED BY <3>2, <3>3, Zenon DEF OwnEntries
  <2>3. ASSUME NEW k \in DOMAIN lc_put' PROVE lc_value'[lc_entry'[k]] = lc_put'[k]
    <3>1. /\ k \in DOMAIN lc_entry /\ k # key /\ lc_entry'[k] = lc_entry[k]
          /\ lc_put'[k] = lc_put[k]
      BY <1>3, <1>4, <2>3, Zenon
    <3>2. lc_entry[k] # lc_entry[key] /\ lc_entry[k] \in CacheSlots /\ lc_entry[key] \in CacheSlots
      BY <1>1, <1>2, <2>1, <3>1
    <3>3. lc_value'[lc_entry[k]] = lc_value[lc_entry[k]]
      BY <1>1, <1>2, <3>2
    <3> QED BY <1>2, <2>1, <3>1, <3>3, Zenon
  <2> QED BY <2>2, <2>3, Zenon
<1> QED BY <1>6, <1>8, <1>9, Zenon DEF HashInv

-----------------------------------------------------------------------------
LEMMA CachesStart == Structure!Init => FlatInv /\ HashInv
<1> SUFFICES ASSUME Structure!CachesInit PROVE FlatInv /\ HashInv
  BY Zenon DEF Structure!Init
<1>0. CachePlaces \in Nat /\ CachePlaces >= 1
  BY CacheHasPlaces
<1>1. /\ lc_keys_ = [i \in CacheSlots |-> ""] /\ lc_values_ = [i \in CacheSlots |-> ""]
      /\ lc_use_count_ = [i \in CacheSlots |-> 0] /\ lc_stored = [k \in {} |-> ""]
      /\ lc_entry = [k \in {} |-> 0] /\ lc_value = [i \in CacheSlots |-> ""]
      /\ lc_used_order_ = [i \in CacheSlots |-> i] /\ lc_put = [k \in {} |-> ""] /\ lc_taken = 0
  BY SlotsAre DEF Structure!CachesInit
<1>2. FlatInv
  BY <1>1 DEF FlatInv, FlatTypeOK, UsedAreFirst, StoredAreUsed, CacheKey, CacheValue
<1>3. HashTypeOK(lc_used_order_, lc_entry, lc_put)
  BY <1>1 DEF HashTypeOK
<1>4. OwnEntries(lc_used_order_, lc_entry, lc_taken)
  BY <1>1 DEF OwnEntries
<1>5. lc_value \in [CacheSlots -> CacheValue] /\ lc_taken \in 0 .. CachePlaces + 1
  <2>1. lc_value \in [CacheSlots -> CacheValue]
    BY <1>1 DEF CacheValue
  <2>2. lc_taken \in 0 .. CachePlaces + 1
    <3>1. lc_taken = 0
      BY <1>1, Zenon
    <3> QED BY <1>0, <3>1
  <2> QED BY <2>1, <2>2
<1> QED BY <1>1, <1>2, <1>3, <1>4, <1>5 DEF HashInv

LEMMA CachesStep == FlatInv /\ HashInv /\ [Structure!Next]_Structure!vars => FlatInv' /\ HashInv'
<1> SUFFICES ASSUME FlatInv, HashInv, [Structure!Next]_Structure!vars PROVE FlatInv' /\ HashInv'
  OBVIOUS
<1>1. ASSUME UNCHANGED Structure!flat PROVE FlatInv'
  BY <1>1 DEF Structure!flat, FlatInv, FlatTypeOK, UsedAreFirst, StoredAreUsed
<1>2. ASSUME UNCHANGED Structure!hash PROVE HashInv'
  BY <1>2 DEF Structure!hash, HashInv, HashTypeOK, OwnEntries
<1>3. ASSUME UNCHANGED Structure!caches PROVE FlatInv' /\ HashInv'
  BY <1>1, <1>2, <1>3, Zenon DEF Structure!caches
<1>4. ASSUME NEW key \in CacheKeys, Structure!Flat(key) PROVE FlatInv' /\ HashInv'
  <2>1. UNCHANGED Structure!hash
    BY <1>4, Zenon DEF Structure!Flat, Structure!InvalidateFlat, Structure!AssignFlat
  <2>2. FlatInv'
    BY <1>4, FlatInvalidated, FlatAssigned, Zenon DEF Structure!Flat, CacheKey, CacheValue
  <2> QED BY <1>2, <2>1, <2>2
<1>5. ASSUME NEW key \in CacheKeys, Structure!Hash(key) PROVE FlatInv' /\ HashInv'
  <2>1. UNCHANGED Structure!flat
    BY <1>5, Zenon DEF Structure!Hash, Structure!InvalidateHash, Structure!AssignHash
  <2>2. HashInv'
    BY <1>5, HashInvalidated, HashAssigned, Zenon DEF Structure!Hash, CacheValue
  <2> QED BY <1>1, <2>1, <2>2
<1>6. ASSUME NEW v, Structure!Insert(v) \/ Structure!Erase(v) PROVE UNCHANGED Structure!caches
  BY <1>6, Zenon DEF Structure!Insert, Structure!Erase
<1>7. ASSUME Structure!Visit \/ Structure!Process PROVE UNCHANGED Structure!caches
  BY <1>7, Zenon DEF Structure!Visit, Structure!Process
<1>8. ASSUME NEW v, Structure!Begin(v) \/ \E w : Structure!Join(v, w) \/ Structure!Cut(v, w)
      PROVE  UNCHANGED Structure!caches
  BY <1>8, Zenon DEF Structure!Begin, Structure!Join, Structure!Cut
<1>9. CASE UNCHANGED Structure!vars
  BY <1>3, <1>9, Zenon DEF Structure!vars
<1>10. CASE Structure!Next
  BY <1>3, <1>4, <1>5, <1>6, <1>7, <1>8, <1>10, Zenon DEF Structure!Next, Structure!Caching
<1> QED BY <1>9, <1>10

(* A key that a cache has not given up is found, with what was assigned to it *)
(* last: CachedIsFound, for any keys, values and number of places.            *)
THEOREM CachesFindTheirKeys == Structure!Spec => []Structure!CachedIsFound
<1>1. Structure!Spec => [](FlatInv /\ HashInv)
  BY CachesStart, CachesStep, PTL DEF Structure!Spec
<1>2. FlatInv /\ HashInv => Structure!CachedIsFound
  BY FlatFinds, HashFinds, Zenon DEF Structure!CachedIsFound
<1> QED BY <1>1, <1>2, PTL

-----------------------------------------------------------------------------
(* The errors: each has the number of its condition and the place that was    *)
(* next when it was raised; what it said is there until the next round.       *)
ErrorDomains == {"posix", "win32"}
ErrorsTypeOK ==
  /\ di_incidents_ \in [ErrorDomains -> [0 .. ErrorPlaces - 1 -> ErrorTexts \cup {""}]]
  /\ di_raised \in [ErrorDomains -> Nat]
  /\ di_next_incident_ \in [ErrorDomains -> 0 .. ErrorPlaces - 1]
  /\ \A d \in ErrorDomains : di_next_incident_[d] = di_raised[d] % ErrorPlaces
Numbered(code, which) ==
  \/ code.domain = "posix" /\ code.condition = which
  \/ /\ code.domain = "win32" /\ which \in Diagnosis!Keys
     /\ code.condition = Diagnosis!condition_table[which]
SaysStill(e) ==
  /\ e.at \in Nat /\ e.at < di_raised[e.code.domain]
  /\ e.code.incident = e.at % ErrorPlaces
  /\ di_raised[e.code.domain] - e.at <= ErrorPlaces =>
       di_incidents_[e.code.domain][e.code.incident] = e.said
ErrorsInv ==
  /\ ErrorsTypeOK
  /\ \A e \in di_errors : Numbered(e.code, e.which) /\ SaysStill(e)
  /\ \A c \in di_conditions : Numbered(c.code, c.which)

LEMMA ErrorsHavePlaces == ErrorPlaces \in Nat /\ ErrorPlaces >= 1
<1>1. ErrorPlaces \in Nat \ {0}
  BY StorageAssumption, Zenon DEF StorageAssumption
<1> QED BY <1>1

(* The table gives numbers to keys in their order, so no two have the same.   *)
LEMMA KeysAreCounted == \A S : Diagnosis!Cardinality(S) = Cardinality(S)
  BY DEF Diagnosis!Cardinality, Cardinality

LEMMA KeysAreFinite == Diagnosis!Keys \subseteq Nat /\ IsFiniteSet(Diagnosis!Keys)
<1>1. Diagnosis!Keys \subseteq Nat
  BY DEF Diagnosis!Keys
<1>2. \E n \in Nat : \A k \in Diagnosis!Keys : k <= n
  <2>1. \A k \in Diagnosis!Keys : k <= 1000
    BY DEF Diagnosis!Keys
  <2> QED BY <2>1
<1> QED BY <1>1, <1>2, FS_BoundedSetOfNaturals

LEMMA NumbersRise ==
  ASSUME NEW a \in Diagnosis!Keys, NEW b \in Diagnosis!Keys, a < b
  PROVE  Diagnosis!condition_table[a] # Diagnosis!condition_table[b]
<1> DEFINE S == {j \in Diagnosis!Keys : j < a}
           T == {j \in Diagnosis!Keys : j < b}
<1>1. Diagnosis!Keys \subseteq Nat /\ IsFiniteSet(Diagnosis!Keys)
  BY KeysAreFinite
<1>2. /\ Diagnosis!condition_table[a] = Cardinality(S)
      /\ Diagnosis!condition_table[b] = Cardinality(T)
  BY KeysAreCounted DEF Diagnosis!condition_table
<1>3. S \subseteq T
  <2>1. a \in Nat /\ b \in Nat /\ \A j \in Diagnosis!Keys : j \in Nat
    BY <1>1, Zenon
  <2>2. \A j \in Nat : j < a => j < b
    BY <2>1
  <2> QED BY <2>1, <2>2, Zenon
<1>4. a \in T /\ a \notin S
  BY <1>1
<1>5. IsFiniteSet(T)
  BY <1>1, FS_Subset
<1>6. Cardinality(S) = Cardinality(T) => S = T
  BY <1>3, <1>5, FS_Subset
<1> HIDE DEF S, T
<1> QED BY <1>2, <1>4, <1>6, Zenon

LEMMA NumbersDiffer ==
  ASSUME NEW a \in Diagnosis!Keys, NEW b \in Diagnosis!Keys,
         Diagnosis!condition_table[a] = Diagnosis!condition_table[b]
  PROVE  a = b
<1>1. ~(a < b) /\ ~(b < a)
  BY NumbersRise, Zenon
<1> QED BY <1>1, KeysAreFinite

LEMMA ErrorsAreEqual ==
  ErrorsInv => Diagnosis!ErrorsSayTheirIncident /\ Diagnosis!ErrorsEqualTheirCondition
<1> SUFFICES ASSUME ErrorsInv
             PROVE  Diagnosis!ErrorsSayTheirIncident /\ Diagnosis!ErrorsEqualTheirCondition
  OBVIOUS
<1>1. Diagnosis!ErrorsSayTheirIncident
  BY Zenon DEF ErrorsInv, SaysStill, Diagnosis!ErrorsSayTheirIncident, Diagnosis!message
<1>2. ASSUME NEW e \in di_errors, NEW c \in di_conditions
      PROVE  Diagnosis!Equals(e, c) <=> e.code.domain = c.code.domain /\ e.which = c.which
  <2>1. Numbered(e.code, e.which) /\ Numbered(c.code, c.which)
    BY Zenon DEF ErrorsInv
  <2>2. Diagnosis!Equals(e, c) <=>
          e.code.domain = c.code.domain /\ e.code.condition = c.code.condition
    BY DEF Diagnosis!Equals, Diagnosis!equivalent, Diagnosis!same_condition
  <2>3. CASE e.code.domain = "posix" /\ c.code.domain = "posix"
    BY <2>1, <2>2, <2>3 DEF Numbered
  <2>4. CASE e.code.domain = "win32" /\ c.code.domain = "win32"
    <3>1. /\ e.which \in Diagnosis!Keys /\ e.code.condition = Diagnosis!condition_table[e.which]
          /\ c.which \in Diagnosis!Keys /\ c.code.condition = Diagnosis!condition_table[c.which]
      BY <2>1, <2>4 DEF Numbered
    <3>2. e.code.condition = c.code.condition <=> e.which = c.which
      BY <3>1, NumbersDiffer, Zenon
    <3> QED BY <2>2, <2>4, <3>2, Zenon
  <2>5. CASE e.code.domain # c.code.domain
    BY <2>2, <2>5, Zenon
  <2> QED BY <2>1, <2>3, <2>4, <2>5, Zenon DEF Numbered
<1> QED BY <1>1, <1>2, Zenon DEF Diagnosis!ErrorsEqualTheirCondition

LEMMA ErrorsStart == Diagnosis!Init => ErrorsInv
<1> SUFFICES ASSUME Diagnosis!ErrorInit PROVE ErrorsInv
  BY Zenon DEF Diagnosis!Init
<1>1. /\ di_incidents_ = [d \in ErrorDomains |-> [i \in 0 .. ErrorPlaces - 1 |-> ""]]
      /\ di_next_incident_ = [d \in ErrorDomains |-> 0] /\ di_raised = [d \in ErrorDomains |-> 0]
      /\ di_errors = {} /\ di_conditions = {}
  BY DEF Diagnosis!ErrorInit, Diagnosis!Domains, ErrorDomains
<1>2. 0 % ErrorPlaces = 0 /\ 0 \in 0 .. ErrorPlaces - 1
  BY ErrorsHavePlaces
<1>3. ErrorsTypeOK
  BY <1>1, <1>2 DEF ErrorsTypeOK
<1> QED BY <1>1, <1>3, Zenon DEF ErrorsInv

(* Noting one more leaves what the others of the last round said.             *)
LEMMA OthersSayStill ==
  ASSUME ErrorsTypeOK, NEW d \in ErrorDomains, NEW text \in ErrorTexts, Diagnosis!Note(d, text)
  PROVE  /\ ErrorsTypeOK'
         /\ \A e : e.code.domain \in ErrorDomains /\ SaysStill(e) => SaysStill(e)'
<1>0. ErrorPlaces \in Nat /\ ErrorPlaces >= 1
  BY ErrorsHavePlaces
<1>1. /\ di_incidents_ \in [ErrorDomains -> [0 .. ErrorPlaces - 1 -> ErrorTexts \cup {""}]]
      /\ di_raised \in [ErrorDomains -> Nat]
      /\ di_next_incident_ \in [ErrorDomains -> 0 .. ErrorPlaces - 1]
      /\ \A x \in ErrorDomains : di_next_incident_[x] = di_raised[x] % ErrorPlaces
  BY DEF ErrorsTypeOK
<1> DEFINE p == di_next_incident_[d]
<1>2. /\ di_incidents_' = [di_incidents_ EXCEPT ![d][p] = text]
      /\ di_next_incident_' = [di_next_incident_ EXCEPT ![d] = (p + 1) % ErrorPlaces]
      /\ di_raised' = [di_raised EXCEPT ![d] = di_raised[d] + 1]
  BY DEF Diagnosis!Note
<1>3. p \in 0 .. ErrorPlaces - 1 /\ p = di_raised[d] % ErrorPlaces /\ di_raised[d] \in Nat
  BY <1>1
<1> HIDE DEF p
<1>4. (p + 1) % ErrorPlaces = (di_raised[d] + 1) % ErrorPlaces
  <2>1. p \in Nat /\ p % ErrorPlaces = p
    BY <1>0, <1>3
  <2>2. (p + 1) % ErrorPlaces = IF p + 1 = ErrorPlaces THEN 0 ELSE p + 1
    BY <1>0, <2>1, NextRemainder
  <2>3. (di_raised[d] + 1) % ErrorPlaces = IF p + 1 = ErrorPlaces THEN 0 ELSE p + 1
    BY <1>0, <1>3, NextRemainder
  <2> QED BY <2>2, <2>3
<1>5. (p + 1) % ErrorPlaces \in 0 .. ErrorPlaces - 1
  BY <1>0, <1>3
<1>6. ErrorsTypeOK'
  <2>1. di_incidents_' \in [ErrorDomains -> [0 .. ErrorPlaces - 1 -> ErrorTexts \cup {""}]]
    BY <1>1, <1>2, <1>3
  <2>2. di_raised' \in [ErrorDomains -> Nat]
    <3>1. di_raised[d] + 1 \in Nat
      BY <1>3
    <3> QED BY <1>1, <1>2, <3>1
  <2>3. di_next_incident_' \in [ErrorDomains -> 0 .. ErrorPlaces - 1]
    BY <1>1, <1>2, <1>5
  <2>4. ASSUME NEW x \in ErrorDomains PROVE di_next_incident_'[x] = di_raised'[x] % ErrorPlaces
    <3>1. CASE x = d
      <4>1. di_next_incident_'[x] = (p + 1) % ErrorPlaces /\ di_raised'[x] = di_raised[d] + 1
        BY <1>1, <1>2, <3>1
      <4> QED BY <1>4, <4>1, Zenon
    <3>2. CASE x # d
      <4>1. di_next_incident_'[x] = di_next_incident_[x] /\ di_raised'[x] = di_raised[x]
        BY <1>1, <1>2, <3>2
      <4> QED BY <1>1, <4>1, Zenon
    <3> QED BY <3>1, <3>2
  <2> QED BY <2>1, <2>2, <2>3, <2>4, Zenon DEF ErrorsTypeOK
<1>7. ASSUME NEW e, e.code.domain \in ErrorDomains, SaysStill(e) PROVE SaysStill(e)'
  <2> DEFINE x == e.code.domain
             i == e.code.incident
  <2>1. /\ e.at \in Nat /\ e.at < di_raised[x] /\ i = e.at % ErrorPlaces /\ x \in ErrorDomains
        /\ di_raised[x] - e.at <= ErrorPlaces => di_incidents_[x][i] = e.said
    BY <1>7, Zenon DEF SaysStill
  <2> DEFINE a == e.at
  <2>2. a \in Nat /\ a < di_raised[x] /\ i = a % ErrorPlaces /\ i \in 0 .. ErrorPlaces - 1
    BY <1>0, <2>1
  <2>3. CASE x # d
    <3>1. di_incidents_'[x] = di_incidents_[x] /\ di_raised'[x] = di_raised[x]
      BY <1>1, <1>2, <2>1, <2>3
    <3> QED BY <2>1, <3>1, Zenon DEF SaysStill
  <2>4. CASE x = d
    <3>1. di_raised'[x] = di_raised[x] + 1 /\ di_raised[x] \in Nat
      BY <1>1, <1>2, <2>1, <2>4
    <3>2. a < di_raised'[x]
      BY <2>2, <3>1
    <3>3. ASSUME di_raised'[x] - a <= ErrorPlaces PROVE di_incidents_'[x][i] = e.said
      <4>1. di_raised[x] - a < ErrorPlaces /\ di_raised[x] - a <= ErrorPlaces
        BY <1>0, <2>2, <3>1, <3>3
      <4>2. i # p
        BY <1>0, <1>3, <2>2, <2>4, <3>1, <4>1, RemaindersDiffer
      <4>3. di_incidents_'[x][i] = di_incidents_[x][i]
        BY <1>1, <1>2, <1>3, <2>2, <2>4, <4>2
      <4> QED BY <2>1, <4>1, <4>3, Zenon
    <3> QED BY <2>1, <3>2, <3>3, Zenon DEF SaysStill
  <2> QED BY <2>3, <2>4
<1> QED BY <1>6, <1>7, Zenon

(* An error that is raised says what was noted for it.                        *)
LEMMA RaisedSays ==
  ASSUME ErrorsTypeOK, NEW d \in ErrorDomains, NEW text \in ErrorTexts, Diagnosis!Note(d, text),
         NEW which, NEW condition,
         NEW e, e = Diagnosis!Error(d, which, condition, text)
  PROVE  /\ e.code.domain = d /\ e.code.condition = condition /\ e.which = which
         /\ SaysStill(e)'
<1> DEFINE p == di_next_incident_[d]
           n == di_raised[d]
<1>0. ErrorPlaces \in Nat /\ ErrorPlaces >= 1
  BY ErrorsHavePlaces
<1>1. /\ di_incidents_ \in [ErrorDomains -> [0 .. ErrorPlaces - 1 -> ErrorTexts \cup {""}]]
      /\ di_raised \in [ErrorDomains -> Nat] /\ n \in Nat
      /\ p \in 0 .. ErrorPlaces - 1 /\ p = n % ErrorPlaces
  BY DEF ErrorsTypeOK
<1>2. /\ di_incidents_' = [di_incidents_ EXCEPT ![d][p] = text]
      /\ di_raised' = [di_raised EXCEPT ![d] = n + 1]
  BY DEF Diagnosis!Note
<1>3. e = [code |-> [domain |-> d, condition |-> condition, incident |-> p], which |-> which,
           said |-> text, at |-> n]
  BY DEF Diagnosis!Error, Diagnosis!Code
<1> HIDE DEF p, n
<1>4. di_raised'[d] = n + 1 /\ di_incidents_'[d][p] = text
  BY <1>1, <1>2
<1>5. n < di_raised'[d]
  <2>0. n \in Nat
    BY <1>1, Zenon
  <2>1. n < n + 1
    BY <2>0
  <2> QED BY <1>4, <2>1, Zenon
<1>6. /\ e.code.domain = d /\ e.code.condition = condition /\ e.code.incident = p
      /\ e.which = which /\ e.said = text /\ e.at = n
  BY <1>3
<1>7. /\ e.at \in Nat /\ e.at < di_raised'[e.code.domain]
      /\ e.code.incident = e.at % ErrorPlaces
      /\ di_incidents_'[e.code.domain][e.code.incident] = e.said
  BY <1>1, <1>4, <1>5, <1>6, Zenon
<1> QED BY <1>6, <1>7, Zenon DEF SaysStill

-----------------------------------------------------------------------------
LEMMA ErrorsStep == ErrorsInv /\ [Diagnosis!Next]_Diagnosis!vars => ErrorsInv'
<1> SUFFICES ASSUME ErrorsInv, [Diagnosis!Next]_Diagnosis!vars PROVE ErrorsInv'
  OBVIOUS
<1>0. /\ ErrorsTypeOK /\ \A e \in di_errors : Numbered(e.code, e.which) /\ SaysStill(e)
      /\ \A c \in di_conditions : Numbered(c.code, c.which)
  BY Zenon DEF ErrorsInv
<1>1. ASSUME UNCHANGED Diagnosis!errorVars PROVE ErrorsInv'
  BY <1>1 DEF ErrorsInv, ErrorsTypeOK, SaysStill, Diagnosis!errorVars
<1>2. ASSUME NEW d \in ErrorDomains, NEW text \in ErrorTexts, Diagnosis!Note(d, text),
             di_conditions' = di_conditions,
             NEW e1, e1 = Diagnosis!Error(d, e1.which, e1.code.condition, text),
             Numbered(e1.code, e1.which), di_errors' \subseteq di_errors \cup {e1}
      PROVE  ErrorsInv'
  <2>1. ErrorsTypeOK' /\ \A e : e.code.domain \in ErrorDomains /\ SaysStill(e) => SaysStill(e)'
    BY <1>0, <1>2, OthersSayStill
  <2>2. SaysStill(e1)'
    <3>1. \A which, condition :
            e1 = Diagnosis!Error(d, which, condition, text) => SaysStill(e1)'
      BY <1>0, <1>2, RaisedSays
    <3> QED BY <1>2, <3>1, Zenon
  <2>3. \A code, which : Numbered(code, which) => code.domain \in ErrorDomains
    BY DEF Numbered, ErrorDomains
  <2>4. ASSUME NEW e \in di_errors' PROVE Numbered(e.code, e.which) /\ SaysStill(e)'
    BY <1>0, <1>2, <2>1, <2>2, <2>3, <2>4, Zenon
  <2>5. \A c \in di_conditions' : Numbered(c.code, c.which)
    BY <1>0, <1>2, Zenon
  <2> QED BY <2>1, <2>4, <2>5 DEF ErrorsInv
<1>3. ASSUME NEW c, NEW text \in ErrorTexts, Diagnosis!RaisePosix(c, text) PROVE ErrorsInv'
  <2>1. /\ Diagnosis!Note("posix", text) /\ di_conditions' = di_conditions
        /\ di_errors' = di_errors \cup {Diagnosis!Error("posix", c, c, text)}
    BY <1>3, Zenon DEF Diagnosis!RaisePosix
  <2>2. PICK e1 : e1 = Diagnosis!Error("posix", c, c, text)
    OBVIOUS
  <2>3. e1.which = c /\ e1.code.condition = c /\ e1.code.domain = "posix"
    BY <2>2 DEF Diagnosis!Error, Diagnosis!Code
  <2>4. "posix" \in ErrorDomains /\ Numbered(e1.code, e1.which)
    BY <2>3 DEF ErrorDomains, Numbered
  <2> QED BY <1>2, <2>1, <2>2, <2>3, <2>4, Zenon
<1>4. ASSUME NEW c, NEW text \in ErrorTexts, Diagnosis!RaiseWin32(c, text) PROVE ErrorsInv'
  <2> DEFINE number == Diagnosis!condition_table[c]
  <2>1. /\ Diagnosis!Note("win32", text) /\ di_conditions' = di_conditions
        /\ \/ c \in Diagnosis!Keys
              /\ di_errors' = di_errors \cup {Diagnosis!Error("win32", c, number, text)}
           \/ di_errors' = di_errors
    BY <1>4, Zenon DEF Diagnosis!RaiseWin32
  <2>2. "win32" \in ErrorDomains
    BY DEF ErrorDomains
  <2>3. CASE /\ c \in Diagnosis!Keys
             /\ di_errors' = di_errors \cup {Diagnosis!Error("win32", c, number, text)}
    <3>2. PICK e1 : e1 = Diagnosis!Error("win32", c, number, text)
      OBVIOUS
    <3>3. e1.which = c /\ e1.code.condition = number /\ e1.code.domain = "win32"
      BY <3>2 DEF Diagnosis!Error, Diagnosis!Code
    <3>4. Numbered(e1.code, e1.which)
      BY <2>3, <3>3, Zenon DEF Numbered
    <3> QED BY <1>2, <2>1, <2>2, <2>3, <3>2, <3>3, <3>4, Zenon
  <2>4. CASE di_errors' = di_errors
    <3>1. ErrorsTypeOK' /\ \A e : e.code.domain \in ErrorDomains /\ SaysStill(e) => SaysStill(e)'
      BY <1>0, <2>1, <2>2, OthersSayStill
    <3>2. \A code, which : Numbered(code, which) => code.domain \in ErrorDomains
      BY DEF Numbered, ErrorDomains
    <3>3. \A e \in di_errors' : Numbered(e.code, e.which) /\ SaysStill(e)'
      BY <1>0, <2>4, <3>1, <3>2, Zenon
    <3> QED BY <1>0, <2>1, <3>1, <3>3 DEF ErrorsInv
  <2> QED BY <2>1, <2>3, <2>4, Zenon
<1>5. ASSUME NEW d, NEW which, NEW condition, Numbered(Diagnosis!Code(d, condition, 0), which),
             UNCHANGED <<di_incidents_, di_next_incident_, di_raised, di_errors>>,
             di_conditions' \subseteq di_conditions \cup {Diagnosis!Expected(d, which, condition)}
      PROVE  ErrorsInv'
  <2>1. PICK c1 : c1 = Diagnosis!Expected(d, which, condition)
    OBVIOUS
  <2>2. Numbered(c1.code, c1.which)
    BY <1>5, <2>1 DEF Diagnosis!Expected
  <2>3. \A c \in di_conditions' : Numbered(c.code, c.which)
    BY <1>0, <1>5, <2>1, <2>2, Zenon
  <2> QED BY <1>0, <1>5, <2>3 DEF ErrorsInv, ErrorsTypeOK, SaysStill
<1>6. ASSUME NEW c, Diagnosis!ExpectPosix(c) PROVE ErrorsInv'
  <2>1. Numbered(Diagnosis!Code("posix", c, 0), c)
    BY DEF Numbered, Diagnosis!Code
  <2>2. /\ UNCHANGED <<di_incidents_, di_next_incident_, di_raised, di_errors>>
        /\ di_conditions' = di_conditions \cup {Diagnosis!Expected("posix", c, c)}
    BY <1>6, Zenon DEF Diagnosis!ExpectPosix
  <2> QED BY <1>5, <2>1, <2>2, Zenon
<1>7. ASSUME NEW c, Diagnosis!ExpectWin32(c) PROVE ErrorsInv'
  <2> DEFINE number == Diagnosis!condition_table[c]
  <2>1. /\ UNCHANGED <<di_incidents_, di_next_incident_, di_raised, di_errors>>
        /\ \/ /\ c \in Diagnosis!Keys
              /\ di_conditions' = di_conditions \cup {Diagnosis!Expected("win32", c, number)}
           \/ di_conditions' = di_conditions
    BY <1>7, Zenon DEF Diagnosis!ExpectWin32
  <2>2. CASE /\ c \in Diagnosis!Keys
             /\ di_conditions' = di_conditions \cup {Diagnosis!Expected("win32", c, number)}
    <3>2. Numbered(Diagnosis!Code("win32", number, 0), c)
      BY <2>2 DEF Numbered, Diagnosis!Code
    <3> QED BY <1>5, <2>1, <2>2, <3>2, Zenon
  <2>3. CASE di_conditions' = di_conditions
    BY <1>0, <2>1, <2>3 DEF ErrorsInv, ErrorsTypeOK, SaysStill
  <2> QED BY <2>1, <2>2, <2>3, Zenon
<1>8. CASE UNCHANGED Diagnosis!vars
  BY <1>1, <1>8, Zenon DEF Diagnosis!vars
<1>9. CASE Diagnosis!Next
  <2>1. Diagnosis!ErrorNext \/ UNCHANGED Diagnosis!errorVars
    BY <1>9, Zenon DEF Diagnosis!Next
  <2>2. CASE Diagnosis!ErrorNext
    BY <1>3, <1>4, <1>6, <1>7, <2>2, Zenon DEF Diagnosis!ErrorNext
  <2> QED BY <1>1, <2>1, <2>2, Zenon
<1> QED BY <1>8, <1>9

(* An error says what it was raised with until its domain has come round, and *)
(* equals the conditions of its domain and number only, for any number of     *)
(* places, any numbers and texts: ErrorsSayTheirIncident and                  *)
(* ErrorsEqualTheirCondition.                                                 *)
THEOREM ErrorsKeepTheirSay ==
  Diagnosis!Spec =>
    [](Diagnosis!ErrorsSayTheirIncident /\ Diagnosis!ErrorsEqualTheirCondition)
<1>1. Diagnosis!Spec => []ErrorsInv
  BY ErrorsStart, ErrorsStep, PTL DEF Diagnosis!Spec
<1> QED BY <1>1, ErrorsAreEqual, PTL

-----------------------------------------------------------------------------
(* The composition plays each of its parts. *)
LEMMA MemoryIsPlayed ==
  /\ GroupInit => Init
  /\ [GroupNext]_groupVars => [Next]_vars
  BY Zenon DEF GroupInit, GroupNext, groupVars

LEMMA BlocksArePlayed ==
  /\ GroupInit => Blocks!Init
  /\ [GroupNext]_groupVars => [Blocks!Next]_Blocks!vars
<1>1. UNCHANGED mbVars => UNCHANGED Blocks!vars
  BY Zenon DEF mbVars, Blocks!vars, Blocks!staticVars, Blocks!largeVars, Blocks!itemVars
<1> QED BY <1>1, Zenon DEF GroupInit, GroupNext, groupVars

LEMMA PointersArePlayed ==
  /\ GroupInit => Pointer!Init
  /\ [GroupNext]_groupVars => [Pointer!Next]_Pointer!vars
<1>1. UNCHANGED spVars => UNCHANGED Pointer!vars
  BY Zenon DEF spVars, Pointer!vars, Pointer!countedVars
<1> QED BY <1>1, Zenon DEF GroupInit, GroupNext, groupVars

LEMMA BuffersArePlayed ==
  /\ GroupInit => Buffer!Init
  /\ [GroupNext]_groupVars => [Buffer!Next]_Buffer!vars
<1>1. UNCHANGED buVars => UNCHANGED Buffer!vars
  BY Zenon DEF buVars, Buffer!vars, Buffer!vectorVars, Buffer!ringVars, Buffer!bitVars,
     Buffer!streamVars
<1> QED BY <1>1, Zenon DEF GroupInit, GroupNext, groupVars

LEMMA MachineIsPlayed ==
  /\ GroupInit => Machine!Init
  /\ [GroupNext]_groupVars => [Machine!Next]_Machine!vars
  BY Zenon DEF GroupInit, GroupNext, groupVars, smVars, Machine!vars

LEMMA StructuresArePlayed ==
  /\ GroupInit => Structure!Init
  /\ [GroupNext]_groupVars => [Structure!Next]_Structure!vars
<1>1. UNCHANGED stVars => UNCHANGED Structure!vars
  BY Zenon DEF stVars, Structure!vars, Structure!tree, Structure!graph,
     Structure!traversal, Structure!caches, Structure!flat, Structure!hash
<1> QED BY <1>1, Zenon DEF GroupInit, GroupNext, groupVars

LEMMA DiagnosisIsPlayed ==
  /\ GroupInit => Diagnosis!Init
  /\ [GroupNext]_groupVars => [Diagnosis!Next]_Diagnosis!vars
<1>1. UNCHANGED diVars => UNCHANGED Diagnosis!vars
  BY Zenon DEF diVars, Diagnosis!vars, Diagnosis!errorVars, Diagnosis!logVars
<1> QED BY <1>1, Zenon DEF GroupInit, GroupNext, groupVars

(* The composition implements the specification of the shared memory and of   *)
(* each part beside it.                                                       *)
THEOREM StorageIsPlayed ==
  GroupSpec => /\ Spec /\ Blocks!Spec /\ Pointer!Spec /\ Buffer!Spec /\ Machine!Spec
               /\ Structure!Spec /\ Diagnosis!Spec
<1>1. GroupSpec => Spec
  BY MemoryIsPlayed, PTL DEF GroupSpec, Spec
<1>2. GroupSpec => Blocks!Spec
  BY BlocksArePlayed, PTL DEF GroupSpec, Blocks!Spec
<1>3. GroupSpec => Pointer!Spec
  BY PointersArePlayed, PTL DEF GroupSpec, Pointer!Spec
<1>4. GroupSpec => Buffer!Spec
  BY BuffersArePlayed, PTL DEF GroupSpec, Buffer!Spec
<1>5. GroupSpec => Machine!Spec
  BY MachineIsPlayed, PTL DEF GroupSpec, Machine!Spec
<1>6. GroupSpec => Structure!Spec
  BY StructuresArePlayed, PTL DEF GroupSpec, Structure!Spec
<1>7. GroupSpec => Diagnosis!Spec
  BY DiagnosisIsPlayed, PTL DEF GroupSpec, Diagnosis!Spec
<1> QED BY <1>1, <1>2, <1>3, <1>4, <1>5, <1>6, <1>7

(* Items, objects, what a vector cuts off, the buffer of a machine and the    *)
(* places of rings, caches and incidents have one owner: StorageHasOneOwner   *)
(* of the composition.                                                        *)
THEOREM GroupKeepsStorage == GroupSpec => []StorageHasOneOwner
<1>1. /\ Blocks!ItemsAreGivenOnce /\ Pointer!DeletedWithTheLast /\ Pointer!OwnedOnce
      /\ Pointer!NothingUndefined /\ Buffer!VectorsHoldTheirLists /\ Machine!OneStateAtATime
      /\ Buffer!RingsKeepTheLast /\ Structure!CachedIsFound
      /\ Diagnosis!ErrorsSayTheirIncident /\ Diagnosis!ErrorsEqualTheirCondition
      => StorageHasOneOwner
  BY Zenon DEF StorageHasOneOwner
<1> QED BY <1>1, StorageIsPlayed, ItemsHaveOneTaker, ObjectsHaveOneOwner, VectorsKeepTheirLists,
           OneStateIsActive, RingsForgetTheOldest, CachesFindTheirKeys, ErrorsKeepTheirSay, PTL
=============================================================================
