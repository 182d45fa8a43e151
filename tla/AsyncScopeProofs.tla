-------------------------- MODULE AsyncScopeProofs --------------------------
(***************************************************************************)
(* What AsyncScope.tla promises for every nesting of scopes, any finite    *)
(* number of tasks and any number of workers: its types, and that no scope *)
(* is destroyed before the last access of its tasks.                       *)
(***************************************************************************)
EXTENDS AsyncScope, FiniteSetTheorems, SequenceTheorems, TLAPS

USE ScopeAssumption

(* The inductive invariant: ScopesAreSafe but for what follows from it.      *)
IInv == TypeOK /\ OnePlace /\ ReferencesAreCounted /\ JoinersGoOnOnce

-----------------------------------------------------------------------------
LEMMA OwnersAreCoroutines ==
  /\ Owners \subseteq Tasks \cup {Main} /\ Main \in Owners
  /\ \A t \in Tasks : Parent[t] \in Owners /\ Parent[t] # t
  BY DEF Owners

LEMMA InitTypeOK == Init => TypeOK
  BY DEF Init, TypeOK, Labels, Places

(* A coroutine that goes back to the loop was run by a worker that holds no  *)
(* mutex, if by any.                                                         *)
LEMMA BackKeepsTypes ==
  ASSUME TypeOK, OnePlace, NEW c \in Tasks \cup {Main}, BackToLoop(c)
  PROVE  /\ at' \in [Workers -> Places]
         /\ cur' \in [Workers -> Tasks \cup {NoTask}]
         /\ \A w \in Workers : at'[w] \in {"test", "wait"} <=> at[w] \in {"test", "wait"}
         /\ \A w \in Workers : cur'[w] # NoTask => at'[w] = "resumed"
  BY DEF TypeOK, OnePlace, RunsUnlocked, BackToLoop, Places

(* A notification moves sleepers only, to where they want the mutex.         *)
LEMMA NotifyKeepsTypes ==
  ASSUME TypeOK, NotifyOne \/ NotifyAll
  PROVE  /\ at' \in [Workers -> Places]
         /\ \A w \in Workers : at'[w] = at[w] \/ (at[w] = "asleep" /\ at'[w] = "lock")
<1>1. CASE NotifyAll
  BY <1>1 DEF TypeOK, NotifyAll, Asleep, Places
<1>2. CASE NotifyOne
  BY <1>2 DEF TypeOK, NotifyOne, Asleep, Places
<1> QED BY <1>1, <1>2

(* What can be counted. *)
LEMMA Countable ==
  ASSUME NEW o
  PROVE  /\ IsFiniteSet(Counted(o)) /\ Cardinality(Counted(o)) \in Nat
         /\ IsFiniteSet(Counted(o)') /\ Cardinality(Counted(o)') \in Nat
         /\ Cardinality(Counted(o)) = 0 <=> Counted(o) = {}
<1>1. Counted(o) \subseteq Tasks /\ Counted(o)' \subseteq Tasks
  BY DEF Counted, Children
<1> QED BY <1>1, FS_Subset, FS_CardinalityType, FS_EmptySet

(* The count of a scope bounds the references, and its parity is the joiner. *)
LEMMA CountIs ==
  ASSUME IInv, NEW o \in Owners
  PROVE  \E k \in Nat :
           /\ ref_count[o] = 2 * k + (IF joiner[o] THEN 1 ELSE 0)
           /\ Cardinality(Counted(o)) <= k
<1>1. IsCounted(o) /\ ref_count[o] \in Nat
  BY DEF IInv, TypeOK, ReferencesAreCounted
<1> QED BY <1>1 DEF IsCounted, ref_increment, joiner_flag

LEMMA CountIntro ==
  ASSUME NEW o \in Owners, NEW k \in Nat,
         ref_count'[o] = 2 * k + (IF joiner'[o] THEN 1 ELSE 0),
         Cardinality(Counted(o)') <= k
  PROVE  IsCounted(o)'
<1>1. k \in 0..ref_count'[o]
  OBVIOUS
<1> QED BY <1>1 DEF IsCounted, ref_increment, joiner_flag

(* A task that counts has a reference. *)
LEMMA CountedHasReference ==
  ASSUME IInv, NEW t \in Tasks, pc[t] \in Counts
  PROVE  ref_count[Parent[t]] >= 2
<1> DEFINE o == Parent[t]
<1>1. o \in Owners /\ Counted(o) # {}
  BY OwnersAreCoroutines DEF Counted, Children
<1>2. PICK k \in Nat : /\ ref_count[o] = 2 * k + (IF joiner[o] THEN 1 ELSE 0)
                       /\ Cardinality(Counted(o)) <= k
  BY <1>1, CountIs
<1>3. k >= 1
  BY <1>1, <1>2, Countable
<1> QED BY <1>2, <1>3

LEMMA StepTypeOK ==
  ASSUME IInv, NEW c \in Tasks \cup {Main}, Step(c)
  PROVE  TypeOK'
<1> USE OwnersAreCoroutines DEF IInv, TypeOK, scopes, loop
<1>1. ASSUME NEW t \in Tasks, Spawn(c, t) PROVE TypeOK'
  <2>1. ref_count' \in [Owners -> Nat]
    BY <1>1 DEF Spawn, ref_increment
  <2>2. pc' \in [Tasks \cup {Main} -> Labels]
    BY <1>1 DEF Spawn, Labels
  <2> QED BY <1>1, <2>1, <2>2 DEF Spawn
<1>2. CASE c \in Owners /\ JoinReady(c)
  BY <1>2 DEF JoinReady, Goto, Labels
<1>3. CASE c \in Owners /\ JoinSuspend(c)
  <2>1. ref_count' \in [Owners -> Nat] /\ joiner' \in [Owners -> BOOLEAN]
    BY <1>3 DEF JoinSuspend, joiner_flag
  <2>2. pc' \in [Tasks \cup {Main} -> Labels]
    <3>1. pc' = [pc EXCEPT ![c] = "suspended"] \/ pc' = [pc EXCEPT ![c] = "joined"]
      BY <1>3 DEF JoinSuspend, Goto
    <3> QED BY <3>1 DEF Labels
  <2>3. CASE BackToLoop(c)
    BY <1>3, <2>1, <2>2, <2>3, BackKeepsTypes DEF JoinSuspend
  <2>4. CASE UNCHANGED <<at, cur>>
    BY <1>3, <2>1, <2>2, <2>4 DEF JoinSuspend
  <2> QED BY <1>3, <2>3, <2>4 DEF JoinSuspend
<1>4. CASE c \in Owners /\ Leave(c)
  BY <1>4 DEF Leave, Goto, Labels
<1>5. CASE Acquire
  BY <1>5 DEF Acquire, Goto, Labels
<1>6. CASE c \in Tasks /\ Enqueue(c)
  <2>1. queue' \in Seq(Tasks)
    BY <1>6 DEF Enqueue
  <2>2. pc' \in [Tasks \cup {Main} -> Labels]
    BY <1>6 DEF Enqueue, Labels
  <2> QED BY <1>6, <2>1, <2>2, NotifyKeepsTypes DEF Enqueue
<1>7. CASE c \in Tasks /\ Finish(c)
  BY <1>7 DEF Finish, Goto, Labels
<1>8. CASE c \in Tasks /\ Load(c)
  BY <1>8 DEF Load, Goto, Labels
<1>9. CASE c \in Tasks /\ Subtract(c)
  <2>1. ref_count[Parent[c]] >= 2
    BY <1>9, CountedHasReference DEF Subtract, Goto, Counts
  <2>2. ref_count' \in [Owners -> Nat] /\ oldValue' \in [Tasks -> Nat]
    BY <1>9, <2>1 DEF Subtract, ref_increment
  <2>3. pc' \in [Tasks \cup {Main} -> Labels]
    BY <1>9 DEF Subtract, Goto, Labels
  <2> QED BY <1>9, <2>2, <2>3 DEF Subtract
<1>10. CASE c \in Tasks /\ Compare(c)
  <2>1. pc' \in [Tasks \cup {Main} -> Labels]
    BY ZenonT(30), <1>10 DEF Compare, Labels
  <2>2. CASE BackToLoop(c)
    BY <1>10, <2>1, <2>2, BackKeepsTypes DEF Compare
  <2>3. CASE /\ cur' = [w \in Workers |-> IF cur[w] = c THEN Parent[c] ELSE cur[w]]
             /\ Parent[c] # Main /\ UNCHANGED at
    BY <1>10, <2>1, <2>3 DEF Compare
  <2> QED BY <1>10, <2>2, <2>3 DEF Compare
<1> QED BY <1>1, <1>2, <1>3, <1>4, <1>5, <1>6, <1>7, <1>8, <1>9, <1>10 DEF Step

LEMMA RunTypeOK ==
  ASSUME TypeOK, NEW w \in Workers, Run(w) \/ WakeSpuriously(w)
  PROVE  TypeOK'
<1> USE DEF TypeOK, scopes, Places
<1>1. CASE Lock(w)
  BY <1>1 DEF Lock
<1>2. CASE Test(w)
  <2>1. CASE ~stop[w] /\ queue # <<>> /\ Test(w) /\ queue' = Tail(queue)
    <3>1. Head(queue) \in Tasks /\ Tail(queue) \in Seq(Tasks)
      BY <2>1
    <3>2. pc' \in [Tasks \cup {Main} -> Labels]
      BY <2>1, <3>1 DEF Test, Labels
    <3>3. at' = [at EXCEPT ![w] = "resumed"] /\ mut' = NoThread /\ cur' = [cur EXCEPT ![w] = Head(queue)]
          /\ mut = w
      BY <2>1 DEF Test
    <3>4. UNCHANGED <<scopes, oldValue, stop>>
      BY <2>1 DEF Test
    <3> QED BY <2>1, <3>1, <3>2, <3>3, <3>4
  <2>2. CASE UNCHANGED <<pc, queue, cur>>
    BY ZenonT(30), <1>2, <2>2 DEF Test
  <2> QED BY <1>2, <2>1, <2>2 DEF Test
<1>3. CASE Wait(w)
  BY <1>3 DEF Wait
<1>4. CASE WakeSpuriously(w)
  BY <1>4 DEF WakeSpuriously
<1> QED BY <1>1, <1>2, <1>3, <1>4 DEF Run

LEMMA StopTypeOK ==
  ASSUME TypeOK, Stop
  PROVE  TypeOK'
<1> USE DEF TypeOK, scopes, loop, Labels, Goto
<1>1. ASSUME NEW w \in Workers, RequestStop(w) PROVE TypeOK'
  BY <1>1 DEF RequestStop
<1>2. CASE StopCallback
  BY <1>2, NotifyKeepsTypes DEF StopCallback
<1>3. CASE Exit
  BY <1>3 DEF Exit
<1> QED BY <1>1, <1>2, <1>3 DEF Stop

LEMMA NextTypeOK == IInv /\ [Next]_vars => TypeOK'
<1> SUFFICES ASSUME IInv, [Next]_vars PROVE TypeOK'
  OBVIOUS
<1>1. CASE UNCHANGED vars
  BY <1>1 DEF IInv, TypeOK, vars, scopes, loop
<1> QED BY <1>1, StepTypeOK, RunTypeOK, StopTypeOK DEF Next, IInv

-----------------------------------------------------------------------------
(* Every coroutine stays in one place.                                       *)

LEMMA InitOnePlace == Init => OnePlace
  BY DEF Init, OnePlace, WaitsOnce, RunsUnlocked, ArrivesAlone

(* What the queue holds are tasks. *)
LEMMA QueueOfTasks ==
  ASSUME TypeOK
  PROVE  Len(queue) \in Nat /\ \A i \in 1..Len(queue) : queue[i] \in Tasks
  BY DEF TypeOK

(* A step that leaves the queue alone, and brings nobody to the loop or away *)
(* from it.                                                                  *)
LEMMA StaysInPlace ==
  ASSUME TypeOK, OnePlace, UNCHANGED queue, RunsUnlocked',
         \A t \in Tasks : pc[t] = "queued" => pc'[t] = "queued",
         \A t \in Tasks : pc'[t] = "arriving" => pc[t] = "arriving",
         \A o \in Owners : pc[o] = "spawning" => pc'[o] = "spawning"
  PROVE  OnePlace'
<1>1. WaitsOnce'
  BY QueueOfTasks DEF OnePlace, WaitsOnce
<1>2. ArrivesAlone'
  BY OwnersAreCoroutines DEF OnePlace, ArrivesAlone, Children
<1> QED BY <1>1, <1>2 DEF OnePlace

LEMMA SpawnOnePlace ==
  ASSUME IInv, NEW c \in Tasks \cup {Main}, NEW t \in Tasks, Spawn(c, t)
  PROVE  OnePlace'
<1>1. /\ pc[c] = "body" /\ pc[t] = "new" /\ Parent[t] = c /\ pc'[c] = "spawning"
      /\ pc'[t] = "arriving" /\ \A u \in Tasks \cup {Main} : u # c /\ u # t => pc'[u] = pc[u]
  BY OwnersAreCoroutines DEF IInv, TypeOK, Spawn
<1>2. WaitsOnce'
  <2>1. queue' = queue
    BY DEF Spawn, loop
  <2> QED BY <1>1, <2>1, QueueOfTasks DEF IInv, OnePlace, WaitsOnce
<1>3. ArrivesAlone'
  BY <1>1, OwnersAreCoroutines DEF IInv, OnePlace, ArrivesAlone, Children
<1>4. RunsUnlocked'
  BY DEF Spawn, loop, IInv, OnePlace, RunsUnlocked
<1> QED BY <1>2, <1>3, <1>4 DEF OnePlace

LEMMA EnqueueOnePlace ==
  ASSUME IInv, NEW t \in Tasks, Enqueue(t)
  PROVE  OnePlace'
<1>1. /\ pc[t] = "arriving" /\ pc[Parent[t]] = "spawning" /\ pc'[t] = "queued"
      /\ pc'[Parent[t]] = "body"
      /\ \A u \in Tasks \cup {Main} : u # Parent[t] /\ u # t => pc'[u] = pc[u]
  BY OwnersAreCoroutines DEF IInv, TypeOK, OnePlace, ArrivesAlone, Enqueue
<1>2. WaitsOnce'
  <2>1. /\ Len(queue) \in Nat /\ Len(queue') = Len(queue) + 1 /\ queue'[Len(queue) + 1] = t
        /\ \A i \in 1..Len(queue) : queue'[i] = queue[i] /\ queue[i] \in Tasks
    BY DEF Enqueue, IInv, TypeOK
  <2>2. \A i \in 1..Len(queue) : queue[i] # t /\ queue[i] # Parent[t]
    BY <1>1 DEF IInv, OnePlace, WaitsOnce
  <2>3. ASSUME NEW i \in 1..Len(queue') PROVE i \in 1..Len(queue) \/ i = Len(queue) + 1
    BY <2>1
  <2>4. \A i \in 1..Len(queue') : pc'[queue'[i]] = "queued"
    BY <1>1, <2>1, <2>2, <2>3 DEF IInv, OnePlace, WaitsOnce
  <2>5. \A i, j \in 1..Len(queue') : queue'[i] = queue'[j] => i = j
    BY <2>1, <2>2, <2>3 DEF IInv, OnePlace, WaitsOnce
  <2> QED BY <2>4, <2>5 DEF WaitsOnce
<1>3. RunsUnlocked'
  BY NotifyKeepsTypes DEF Enqueue, IInv, OnePlace, RunsUnlocked
<1>4. ArrivesAlone'
  <2>1. ASSUME NEW u \in Tasks, pc'[u] = "arriving"
        PROVE  pc[u] = "arriving" /\ Parent[u] # Parent[t] /\ Parent[u] # t
    BY <1>1, <2>1, OwnersAreCoroutines DEF IInv, OnePlace, ArrivesAlone, Children
  <2> QED BY <1>1, <2>1, OwnersAreCoroutines DEF IInv, OnePlace, ArrivesAlone, Children
<1> QED BY <1>2, <1>3, <1>4 DEF OnePlace

LEMMA StepOnePlace ==
  ASSUME IInv, NEW c \in Tasks \cup {Main}, Step(c)
  PROVE  OnePlace'
<1> USE OwnersAreCoroutines DEF IInv, scopes, loop
<1> DEFINE Kept == /\ \A t \in Tasks : pc[t] = "queued" => pc'[t] = "queued"
                   /\ \A t \in Tasks : pc'[t] = "arriving" => pc[t] = "arriving"
                   /\ \A o \in Owners : pc[o] = "spawning" => pc'[o] = "spawning"
<1>0. UNCHANGED <<at, cur>> => RunsUnlocked'
  BY DEF OnePlace, RunsUnlocked
<1>1. CASE c \in Owners /\ JoinReady(c)
  <2>1. Kept
    BY <1>1 DEF JoinReady, Goto, TypeOK
  <2> QED BY <1>0, <1>1, <2>1, StaysInPlace DEF JoinReady
<1>2. CASE c \in Owners /\ JoinSuspend(c)
  <2>1. RunsUnlocked'
    BY <1>0, <1>2, BackKeepsTypes DEF JoinSuspend, RunsUnlocked
  <2>2. Kept
    BY <1>2 DEF JoinSuspend, Goto, TypeOK
  <2> QED BY <1>2, <2>1, <2>2, StaysInPlace DEF JoinSuspend
<1>3. CASE c \in Owners /\ Leave(c)
  <2>1. Kept
    BY <1>3 DEF Leave, Goto, TypeOK
  <2> QED BY <1>0, <1>3, <2>1, StaysInPlace DEF Leave
<1>4. CASE Acquire
  <2>1. Kept
    BY <1>4 DEF Acquire, Goto, TypeOK
  <2> QED BY <1>0, <1>4, <2>1, StaysInPlace DEF Acquire
<1>5. CASE c \in Tasks /\ (Finish(c) \/ Load(c) \/ Subtract(c))
  <2>1. Kept
    BY <1>5 DEF Finish, Load, Subtract, Goto, TypeOK
  <2> QED BY <1>0, <1>5, <2>1, StaysInPlace DEF Finish, Load, Subtract
<1>6. CASE c \in Tasks /\ Compare(c)
  <2>1. RunsUnlocked'
    BY <1>6, BackKeepsTypes DEF Compare, OnePlace, RunsUnlocked
  <2>2. IsLast(c) => pc[Parent[c]] = "suspended"
    BY <1>6 DEF Compare, JoinersGoOnOnce, GoesOnOnce, Resumes, Children
  <2>3. Kept
    BY ZenonT(30), <1>6, <2>2 DEF Compare, TypeOK
  <2> QED BY <1>6, <2>1, <2>3, StaysInPlace DEF Compare
<1> QED BY <1>1, <1>2, <1>3, <1>4, <1>5, <1>6, SpawnOnePlace, EnqueueOnePlace DEF Step

LEMMA DequeueOnePlace ==
  ASSUME IInv, NEW w \in Workers, Test(w), queue # <<>>, queue' = Tail(queue),
         ~(UNCHANGED queue)
  PROVE  OnePlace'
<1> DEFINE n == Len(queue)
           h == Head(queue)
<1>1. /\ n \in Nat /\ n > 0 /\ h = queue[1] /\ h \in Tasks
      /\ Len(queue') = n - 1 /\ \A i \in 1..(n - 1) : queue'[i] = queue[i + 1]
  BY DEF IInv, TypeOK
<1>2. \A i \in 1..n : queue[i] \in Tasks
  BY QueueOfTasks DEF IInv
<1>3. /\ \A i \in 1..n : pc[queue[i]] = "queued"
      /\ \A i, j \in 1..n : queue[i] = queue[j] => i = j
  BY DEF IInv, OnePlace, WaitsOnce
<1>4. /\ pc' = [pc EXCEPT ![h] = "body"]
      /\ cur' = [cur EXCEPT ![w] = h] /\ at' = [at EXCEPT ![w] = "resumed"]
  BY DEF Test
<1>6. pc'[h] = "body" /\ \A u \in Tasks \cup {Main} : u # h => pc'[u] = pc[u]
  BY <1>1, <1>4 DEF IInv, TypeOK
<1> HIDE DEF n, h
<1>5. 1 \in 1..n /\ pc[h] = "queued"
  <2>1. 1 \in 1..n
    BY <1>1
  <2> QED BY <1>1, <1>3, <2>1
<1>7. ASSUME NEW i \in 1..(n - 1)
      PROVE  i + 1 \in 1..n /\ queue'[i] = queue[i + 1] /\ queue'[i] \in Tasks /\ queue'[i] # h
  <2>1. i + 1 \in 1..n /\ i + 1 # 1
    BY <1>1
  <2>2. queue'[i] = queue[i + 1]
    BY <1>1
  <2> QED BY <1>1, <1>2, <1>3, <1>5, <2>1, <2>2
<1>8. WaitsOnce'
  <2>1. ASSUME NEW i \in 1..(n - 1) PROVE pc'[queue'[i]] = "queued"
    <3> DEFINE j == i + 1
    <3>0. j \in 1..n /\ queue'[i] = queue[j]
      BY <1>7
    <3> HIDE DEF j
    <3>1. pc[queue'[i]] = "queued"
      BY <1>3, <3>0
    <3>2. queue'[i] \in Tasks \cup {Main} /\ queue'[i] # h
      BY <1>7
    <3> QED BY <1>6, <3>1, <3>2
  <2>2. ASSUME NEW i \in 1..(n - 1), NEW j \in 1..(n - 1), queue'[i] = queue'[j]
        PROVE  i = j
    <3>1. i + 1 = j + 1
      BY <1>3, <1>7, <2>2
    <3> QED BY <1>1, <3>1
  <2> QED BY <1>1, <2>1, <2>2 DEF WaitsOnce
<1>9. RunsUnlocked'
  BY <1>4 DEF IInv, TypeOK, OnePlace, RunsUnlocked
<1>10. ArrivesAlone'
  <2>1. \A u \in Tasks : pc'[u] = "arriving" => pc[u] = "arriving"
    BY <1>6
  <2>2. \A o \in Owners : pc[o] = "spawning" => pc'[o] = "spawning"
    BY <1>5, <1>6, OwnersAreCoroutines
  <2> QED BY <2>1, <2>2, OwnersAreCoroutines DEF IInv, OnePlace, ArrivesAlone, Children
<1> QED BY <1>8, <1>9, <1>10 DEF OnePlace

LEMMA RunOnePlace ==
  ASSUME IInv, NEW w \in Workers, Run(w) \/ WakeSpuriously(w)
  PROVE  OnePlace'
<1>1. CASE UNCHANGED <<pc, queue, cur>>
  <2>1. RunsUnlocked'
    BY <1>1 DEF IInv, TypeOK, OnePlace, RunsUnlocked, Run, Lock, Test, Wait, WakeSpuriously
  <2> QED BY <1>1, <2>1, StaysInPlace DEF IInv
<1>2. CASE Test(w) /\ queue # <<>> /\ queue' = Tail(queue)
  <2>1. ~(UNCHANGED queue)
    BY <1>2 DEF IInv, TypeOK
  <2> QED BY <1>2, <2>1, DequeueOnePlace
<1> QED BY <1>1, <1>2 DEF Run, Lock, Test, Wait, WakeSpuriously, scopes

LEMMA StopOnePlace ==
  ASSUME IInv, Stop
  PROVE  OnePlace'
<1>1. UNCHANGED <<queue, cur>>
  BY DEF Stop, RequestStop, StopCallback, Exit, loop
<1>2. RunsUnlocked'
  BY NotifyKeepsTypes DEF Stop, RequestStop, StopCallback, Exit, loop, IInv, OnePlace, RunsUnlocked
<1>3. /\ \A t \in Tasks : pc'[t] = pc[t]
      /\ \A o \in Owners : pc[o] = "spawning" => pc'[o] = "spawning"
  BY OwnersAreCoroutines DEF Stop, RequestStop, StopCallback, Exit, Goto, IInv, TypeOK
<1> QED BY <1>1, <1>2, <1>3, StaysInPlace DEF IInv

LEMMA NextOnePlace == IInv /\ [Next]_vars => OnePlace'
<1> SUFFICES ASSUME IInv, [Next]_vars PROVE OnePlace'
  OBVIOUS
<1>1. CASE UNCHANGED vars
  BY <1>1 DEF IInv, OnePlace, WaitsOnce, RunsUnlocked, ArrivesAlone, vars, scopes, loop
<1> QED BY <1>1, StepOnePlace, RunOnePlace, StopOnePlace DEF Next

-----------------------------------------------------------------------------
(* The count of each scope covers the tasks that count.                      *)

LEMMA InitReferences == Init => ReferencesAreCounted /\ JoinersGoOnOnce
<1> SUFFICES ASSUME Init PROVE ReferencesAreCounted /\ JoinersGoOnOnce
  OBVIOUS
<1>1. \A t \in Tasks : pc[t] = "new"
  BY DEF Init
<1>2. \A o \in Owners : pc[o] \in {"body", "new"}
  BY OwnersAreCoroutines DEF Init
<1>3. ASSUME NEW o \in Owners PROVE IsCounted(o) /\ GoesOnOnce(o)
  <2>1. ref_count[o] = 0 /\ ~joiner[o] /\ ~gone[o]
    BY DEF Init
  <2>2. Counted(o) = {}
    BY <1>1 DEF Counted, Children, Counts
  <2>3. 0 \in 0..ref_count[o] /\ Cardinality(Counted(o)) = 0
    BY <2>1, <2>2, FS_EmptySet
  <2>4. IsCounted(o)
    BY <2>1, <2>3 DEF IsCounted, ref_increment, joiner_flag
  <2>5. GoesOnOnce(o)
    BY <1>1, <1>2, <2>1, <2>2 DEF GoesOnOnce, Children, Resumes, Past
  <2> QED BY <2>4, <2>5
<1> QED BY <1>3 DEF ReferencesAreCounted, JoinersGoOnOnce

(* A scope whose references, and whose tasks that count, are what they were. *)
LEMMA CountKept ==
  ASSUME IInv, NEW o \in Owners, ref_count'[o] = ref_count[o], joiner'[o] = joiner[o],
         \A t \in Children(o) : pc'[t] \in Counts => pc[t] \in Counts
  PROVE  IsCounted(o)'
<1>1. Counted(o)' \subseteq Counted(o)
  BY DEF Counted, Children
<1>2. PICK k \in Nat : /\ ref_count[o] = 2 * k + (IF joiner[o] THEN 1 ELSE 0)
                       /\ Cardinality(Counted(o)) <= k
  BY CountIs
<1>3. Cardinality(Counted(o)') <= Cardinality(Counted(o))
  BY <1>1, Countable, FS_Subset
<1>4. Cardinality(Counted(o)') <= k
  BY <1>2, <1>3, Countable
<1> QED BY <1>2, <1>4, CountIntro

(* A scope whose owner has not come nearer to its end, nor its tasks to a    *)
(* resumption.                                                               *)
LEMMA GoesOnKept ==
  ASSUME IInv, NEW o \in Owners, joiner'[o] = joiner[o], gone'[o] = gone[o],
         \A t \in Children(o) : pc'[t] \in Counts => pc[t] \in Counts,
         \A t \in Children(o) : pc'[t] = "new" => pc[t] = "new",
         \A t \in Children(o) : Resumes(t)' => Resumes(t),
         pc'[o] \in Past <=> pc[o] \in Past,
         pc'[o] = "suspended" <=> pc[o] = "suspended",
         pc'[o] = "joining" => pc[o] = "joining"
  PROVE  GoesOnOnce(o)'
<1>1. Counted(o)' \subseteq Counted(o)
  BY DEF Counted, Children
<1>2. GoesOnOnce(o)
  BY DEF IInv, JoinersGoOnOnce
<1>3. Children(o)' = Children(o)
  BY DEF Children
<1> QED BY <1>1, <1>2, <1>3 DEF GoesOnOnce

(* No reference, no task that counts. *)
LEMMA ZeroCountsNone ==
  ASSUME IInv, NEW o \in Owners, ref_count[o] = 0
  PROVE  Counted(o) = {}
<1>1. PICK k \in Nat : /\ ref_count[o] = 2 * k + (IF joiner[o] THEN 1 ELSE 0)
                       /\ Cardinality(Counted(o)) <= k
  BY CountIs
<1>2. k = 0
  BY <1>1
<1> QED BY <1>1, <1>2, Countable

(* The task that finds its own reference and the joiner's, and no other, is  *)
(* the last that counts, and the owner waits for it.                         *)
LEMMA LastIsAlone ==
  ASSUME IInv, NEW t \in Tasks, pc[t] \in Counts, ref_count[Parent[t]] = 3
  PROVE  /\ pc[Parent[t]] = "suspended"
         /\ Counted(Parent[t]) = {t}
         /\ \A u \in Children(Parent[t]) : ~Resumes(u)
<1> DEFINE o == Parent[t]
<1>1. o \in Owners /\ t \in Counted(o)
  BY OwnersAreCoroutines DEF Counted, Children
<1>2. PICK k \in Nat : /\ ref_count[o] = 2 * k + (IF joiner[o] THEN 1 ELSE 0)
                       /\ Cardinality(Counted(o)) <= k
  BY <1>1, CountIs
<1>3. joiner[o] /\ k = 1
  BY <1>2
<1>4. GoesOnOnce(o)
  BY <1>1 DEF IInv, JoinersGoOnOnce
<1>5. pc[o] = "suspended" /\ \A u \in Children(o) : ~Resumes(u)
  BY <1>1, <1>3, <1>4 DEF GoesOnOnce
<1>6. Counted(o) = {t}
  <2>1. Cardinality(Counted(o)) = 1
    BY <1>1, <1>2, <1>3, Countable
  <2>2. \E x : Counted(o) = {x}
    BY <2>1, Countable, FS_Singleton
  <2> QED BY <1>1, <2>2
<1> QED BY <1>5, <1>6

-----------------------------------------------------------------------------
(* The steps, for the count and for what it is good for.                     *)

LEMMA SpawnReferences ==
  ASSUME IInv, NEW c \in Tasks \cup {Main}, NEW t \in Tasks, Spawn(c, t), NEW o \in Owners
  PROVE  IsCounted(o)' /\ GoesOnOnce(o)'
<1>1. /\ pc[c] = "body" /\ pc[t] = "new" /\ Parent[t] = c /\ pc'[c] = "spawning"
      /\ pc'[t] = "arriving" /\ \A u \in Tasks \cup {Main} : u # c /\ u # t => pc'[u] = pc[u]
      /\ c \in Owners
  BY OwnersAreCoroutines DEF IInv, TypeOK, Spawn
<1>2. /\ UNCHANGED <<joiner, gone, oldValue>>
      /\ ref_count' = [ref_count EXCEPT ![c] = @ + 2]
  BY DEF Spawn, ref_increment
<1>3. \A u \in Tasks : Resumes(u)' => Resumes(u)
  BY <1>1, <1>2 DEF Resumes, IsLast
<1>4. CASE o = c
  <2>1. PICK k \in Nat : /\ ref_count[c] = 2 * k + (IF joiner[c] THEN 1 ELSE 0)
                         /\ Cardinality(Counted(c)) <= k
    BY <1>1, CountIs
  <2>2. Counted(c)' \subseteq Counted(c) \cup {t}
    BY <1>1, OwnersAreCoroutines DEF Counted, Children, Counts
  <2>3. /\ IsFiniteSet(Counted(c) \cup {t})
        /\ Cardinality(Counted(c) \cup {t}) <= Cardinality(Counted(c)) + 1
    <3> DEFINE C == Counted(c)
    <3>1. IsFiniteSet(C) /\ Cardinality(C) \in Nat
      BY Countable
    <3> HIDE DEF C
    <3>2. /\ IsFiniteSet(C \cup {t})
          /\ Cardinality(C \cup {t}) = IF t \in C THEN Cardinality(C) ELSE Cardinality(C) + 1
      BY <3>1, FS_AddElement
    <3>3. Cardinality(C \cup {t}) <= Cardinality(C) + 1
      BY <3>1, <3>2
    <3> QED BY <3>2, <3>3 DEF C
  <2>4. Cardinality(Counted(c)') <= k + 1
    <3>1. Cardinality(Counted(c)') <= Cardinality(Counted(c) \cup {t})
      BY <2>2, <2>3, FS_Subset
    <3>2. Cardinality(Counted(c) \cup {t}) \in Nat
      BY <2>3, FS_CardinalityType
    <3> QED BY <2>1, <2>3, <3>1, <3>2, Countable
  <2>5. ref_count'[c] = 2 * (k + 1) + (IF joiner'[c] THEN 1 ELSE 0)
    BY <1>1, <1>2, <2>1 DEF IInv, TypeOK
  <2>6. IsCounted(c)'
    BY <1>1, <2>4, <2>5, CountIntro
  <2>7. GoesOnOnce(c)
    BY <1>1 DEF IInv, JoinersGoOnOnce
  <2>8. GoesOnOnce(c)'
    BY <1>1, <1>2, <1>3, <2>7 DEF GoesOnOnce, Past, Children
  <2> QED BY <1>4, <2>6, <2>8
<1>5. CASE o # c
  <2>1. /\ \A u \in Children(o) : pc'[u] \in Counts => pc[u] \in Counts
        /\ \A u \in Children(o) : pc'[u] = "new" => pc[u] = "new"
    BY <1>1, <1>5 DEF Children, Counts
  <2>2. /\ pc'[o] \in Past <=> pc[o] \in Past
        /\ pc'[o] = "suspended" <=> pc[o] = "suspended"
        /\ pc'[o] = "joining" => pc[o] = "joining"
    BY <1>1, <1>5, OwnersAreCoroutines DEF Past
  <2>3. ref_count'[o] = ref_count[o] /\ joiner'[o] = joiner[o] /\ gone'[o] = gone[o]
    BY <1>2, <1>5 DEF IInv, TypeOK
  <2>4. \A u \in Children(o) : Resumes(u)' => Resumes(u)
    BY <1>3 DEF Children
  <2> QED BY <2>1, <2>2, <2>3, <2>4, CountKept, GoesOnKept
<1> QED BY <1>4, <1>5

(* What the steps leave alone of the scopes that they are not about. *)
LEMMA OthersKept ==
  ASSUME IInv, NEW o \in Owners,
         ref_count'[o] = ref_count[o], joiner'[o] = joiner[o], gone'[o] = gone[o],
         \A t \in Tasks : pc'[t] \in Counts => pc[t] \in Counts,
         \A t \in Tasks : pc'[t] = "new" => pc[t] = "new",
         \A t \in Children(o) : Resumes(t)' => Resumes(t),
         pc'[o] \in Past <=> pc[o] \in Past,
         pc'[o] = "suspended" <=> pc[o] = "suspended",
         pc'[o] = "joining" => pc[o] = "joining"
  PROVE  IsCounted(o)' /\ GoesOnOnce(o)'
<1>1. \A t \in Children(o) : t \in Tasks
  BY DEF Children
<1> QED BY <1>1, CountKept, GoesOnKept

(* The owner's steps, once the tasks are spawned. *)
LEMMA JoinReferences ==
  ASSUME IInv, NEW c \in Owners, JoinReady(c) \/ JoinSuspend(c), NEW o \in Owners
  PROVE  IsCounted(o)' /\ GoesOnOnce(o)'
<1>1. \/ /\ JoinReady(c) /\ pc[c] = "body"
         /\ pc' = [pc EXCEPT ![c] = IF ref_count[c] = 0 THEN "joined" ELSE "joining"]
      \/ /\ JoinSuspend(c) /\ pc[c] = "joining"
         /\ pc' = [pc EXCEPT ![c] = IF ref_count[c] = 0 THEN "joined" ELSE "suspended"]
  BY DEF JoinReady, JoinSuspend, Goto
<1>2. /\ pc'[c] \in {"joined", "joining", "suspended"} /\ pc[c] \in {"body", "joining"}
      /\ \A u \in Tasks \cup {Main} : u # c => pc'[u] = pc[u]
  BY <1>1, OwnersAreCoroutines DEF IInv, TypeOK
<1>3. UNCHANGED <<gone, oldValue>>
  BY DEF JoinReady, JoinSuspend, scopes
<1>4. /\ \A u \in Tasks : pc'[u] \in Counts => pc[u] \in Counts
      /\ \A u \in Tasks : pc'[u] = "new" => pc[u] = "new"
      /\ \A u \in Tasks : Resumes(u)' => Resumes(u)
  BY <1>2, <1>3 DEF Counts, Resumes, IsLast
<1>5. CASE o # c
  <2>1. ref_count'[o] = ref_count[o] /\ joiner'[o] = joiner[o] /\ gone'[o] = gone[o]
    BY <1>3, <1>5 DEF JoinReady, JoinSuspend, scopes, IInv, TypeOK
  <2>2. pc'[o] = pc[o] /\ \A t \in Children(o) : t \in Tasks
    BY <1>2, <1>5, OwnersAreCoroutines DEF Children
  <2> QED BY <1>4, <2>1, <2>2, OthersKept
<1>6. CASE o = c
  <2>1. GoesOnOnce(o) /\ Children(o) \subseteq Tasks /\ Children(o)' = Children(o)
    BY DEF IInv, JoinersGoOnOnce, Children
  <2>2. ~joiner[o] /\ ~gone[o] /\ \A u \in Children(o) : ~Resumes(u)
    BY <1>2, <1>6, <2>1 DEF GoesOnOnce, Past
  <2>3. \A u \in Children(o) : pc[u] # "new"
    BY <1>1, <1>6, <2>1 DEF GoesOnOnce, JoinReady
  <2>4. Counted(o)' \subseteq Counted(o)
    BY <1>4, <2>1 DEF Counted
  <2>5. pc'[o] \in Past => Counted(o)' = {}
    <3>1. pc'[o] \in Past => ref_count[o] = 0
      BY <1>1, <1>6, OwnersAreCoroutines DEF IInv, TypeOK, Past
    <3> QED BY <2>4, <3>1, ZeroCountsNone
  <2>6. joiner'[o] => pc'[o] \in Past \cup {"suspended"}
    <3>1. CASE JoinReady(c)
      BY <2>2, <3>1, <1>6 DEF JoinReady, scopes
    <3>2. CASE JoinSuspend(c)
      BY <1>1, <1>6, <3>2, OwnersAreCoroutines DEF JoinSuspend, Goto, IInv, TypeOK, Past
    <3> QED BY <3>1, <3>2
  <2>7. GoesOnOnce(o)'
    BY <1>3, <1>4, <2>1, <2>2, <2>3, <2>5, <2>6 DEF GoesOnOnce
  <2>8. CASE JoinReady(c)
    BY <1>4, <2>1, <2>7, <2>8, CountKept DEF JoinReady, scopes
  <2>9. CASE JoinSuspend(c)
    <3>1. PICK k \in Nat : /\ ref_count[o] = 2 * k + (IF joiner[o] THEN 1 ELSE 0)
                           /\ Cardinality(Counted(o)) <= k
      BY CountIs
    <3>2. ref_count'[o] = ref_count[o] + 1 /\ joiner'[o]
      BY <1>6, <2>9 DEF JoinSuspend, joiner_flag, IInv, TypeOK
    <3>3. ref_count'[o] = 2 * k + (IF joiner'[o] THEN 1 ELSE 0)
      BY <2>2, <3>1, <3>2
    <3>4. Cardinality(Counted(o)') <= k
      <4>1. Cardinality(Counted(o)') <= Cardinality(Counted(o))
        BY <2>4, Countable, FS_Subset
      <4> QED BY <3>1, <4>1, Countable
    <3> QED BY <2>7, <3>3, <3>4, CountIntro
  <2> QED BY <2>8, <2>9
<1> QED BY <1>5, <1>6

LEMMA LeaveReferences ==
  ASSUME IInv, NEW c \in Owners, Leave(c), NEW o \in Owners
  PROVE  IsCounted(o)' /\ GoesOnOnce(o)'
<1>1. /\ pc[c] \in {"acquired", "joined"} /\ pc'[c] \in {"stop", "load"}
      /\ pc'[c] = "stop" => c = Main
      /\ pc[c] = "acquired" => c = Main
      /\ \A u \in Tasks \cup {Main} : u # c => pc'[u] = pc[u]
  BY OwnersAreCoroutines DEF IInv, TypeOK, Leave, Goto
<1>2. UNCHANGED <<ref_count, joiner, oldValue>> /\ gone' = [gone EXCEPT ![c] = TRUE]
  BY DEF Leave
<1>3. /\ \A u \in Tasks : pc'[u] \in Counts => pc[u] \in Counts
      /\ \A u \in Tasks : pc'[u] = "new" => pc[u] = "new"
      /\ \A u \in Tasks : Resumes(u)' => Resumes(u)
  BY <1>1, <1>2 DEF Counts, Resumes, IsLast
<1>4. pc'[o] \in Past <=> pc[o] \in Past
  BY <1>1, OwnersAreCoroutines DEF Past
<1>5. /\ pc'[o] = "suspended" <=> pc[o] = "suspended"
      /\ pc'[o] = "joining" => pc[o] = "joining"
  BY <1>1, OwnersAreCoroutines
<1>6. Children(o) \subseteq Tasks /\ Children(o)' = Children(o)
  BY DEF Children
<1>7. CASE o # c
  <2>1. gone'[o] = gone[o]
    BY <1>2, <1>7 DEF IInv, TypeOK
  <2> QED BY <1>2, <1>3, <1>4, <1>5, <1>6, <2>1, OthersKept
<1>8. CASE o = c
  <2>1. GoesOnOnce(o)
    BY DEF IInv, JoinersGoOnOnce
  <2>2. Counted(o)' \subseteq Counted(o)
    BY <1>3, <1>6 DEF Counted
  <2>3. pc[o] \in Past
    BY <1>1, <1>8 DEF Past
  <2>4. GoesOnOnce(o)'
    BY <1>2, <1>3, <1>4, <1>5, <1>6, <2>1, <2>2, <2>3 DEF GoesOnOnce
  <2> QED BY <1>2, <1>3, <1>6, <2>4, CountKept
<1> QED BY <1>7, <1>8

(* The tasks' steps that take no reference and resume nobody. *)
LEMMA QuietReferences ==
  ASSUME IInv, NEW o \in Owners,
         \/ Acquire
         \/ \E t \in Tasks : Enqueue(t) \/ Finish(t)
         \/ \E w \in Workers : Run(w) \/ WakeSpuriously(w)
         \/ Stop
         \/ UNCHANGED vars
  PROVE  IsCounted(o)' /\ GoesOnOnce(o)'
<1> USE OwnersAreCoroutines
<1> DEFINE Kept == /\ \A t \in Tasks : pc'[t] \in Counts => pc[t] \in Counts
                   /\ \A t \in Tasks : pc'[t] = "new" => pc[t] = "new"
                   /\ \A t \in Tasks : pc'[t] = "compare" => pc[t] = "compare"
                   /\ pc'[o] \in Past <=> pc[o] \in Past
                   /\ pc'[o] = "suspended" <=> pc[o] = "suspended"
                   /\ pc'[o] = "joining" => pc[o] = "joining"
<1>1. UNCHANGED <<scopes, oldValue>>
  BY DEF Acquire, Enqueue, Finish, Run, Lock, Test, Wait, WakeSpuriously, Stop, RequestStop,
         StopCallback, Exit, vars
<1>2. ASSUME UNCHANGED pc PROVE Kept
  BY <1>2 DEF Kept
<1>3. ASSUME Acquire PROVE Kept
  BY <1>3 DEF Acquire, Goto, IInv, TypeOK, Counts, Past
<1>4. ASSUME NEW t \in Tasks, Enqueue(t) PROVE Kept
  <2>1. /\ pc[t] = "arriving" /\ pc[Parent[t]] = "spawning" /\ pc'[t] = "queued"
        /\ pc'[Parent[t]] = "body"
        /\ \A u \in Tasks \cup {Main} : u # Parent[t] /\ u # t => pc'[u] = pc[u]
    BY <1>4 DEF IInv, TypeOK, OnePlace, ArrivesAlone, Enqueue
  <2> QED BY <2>1 DEF Counts, Past
<1>5. ASSUME NEW t \in Tasks, Finish(t) PROVE Kept
  BY <1>5 DEF Finish, Goto, IInv, TypeOK, Counts, Past
<1>6. ASSUME NEW w \in Workers, Test(w), queue # <<>>, queue' = Tail(queue),
             pc' = [pc EXCEPT ![Head(queue)] = "body"]
      PROVE  Kept
  <2>1. Len(queue) \in Nat /\ Len(queue) > 0 /\ Head(queue) = queue[1] /\ Head(queue) \in Tasks
    BY <1>6 DEF IInv, TypeOK
  <2>2. 1 \in 1..Len(queue)
    BY <2>1
  <2>3. pc[Head(queue)] = "queued"
    BY <2>1, <2>2 DEF IInv, OnePlace, WaitsOnce
  <2>4. pc'[Head(queue)] = "body" /\ \A u \in Tasks \cup {Main} : u # Head(queue) => pc'[u] = pc[u]
    BY <1>6, <2>1 DEF IInv, TypeOK
  <2> QED BY <2>1, <2>3, <2>4 DEF Counts, Past
<1>7. ASSUME Stop PROVE Kept
  BY <1>7 DEF Stop, RequestStop, StopCallback, Exit, Goto, IInv, TypeOK, Counts, Past
<1>8. Kept
  BY <1>2, <1>3, <1>4, <1>5, <1>6, <1>7 DEF Run, Lock, Test, Wait, WakeSpuriously, vars
<1>9. \A t \in Children(o) : Resumes(t)' => Resumes(t)
  BY <1>1, <1>8 DEF Children, Resumes, IsLast
<1> QED BY <1>1, <1>8, <1>9, OthersKept DEF scopes

(* A task on its way to the comparison with a value that is not the last, or *)
(* that is.                                                                  *)
LEMMA ArrivesAtCompare ==
  ASSUME IInv, NEW t \in Tasks, NEW o \in Owners, pc[t] \in {"load", "subtract"},
         pc' = [pc EXCEPT ![t] = "compare"] \/ pc' = [pc EXCEPT ![t] = "subtract"],
         oldValue' = [oldValue EXCEPT ![t] = ref_count[Parent[t]]],
         UNCHANGED <<joiner, gone>>
  PROVE  GoesOnOnce(o)'
<1>1. /\ pc'[t] \in {"compare", "subtract"}
      /\ \A u \in Tasks \cup {Main} : u # t => pc'[u] = pc[u]
  BY DEF IInv, TypeOK
<1>2. /\ \A u \in Tasks : pc'[u] \in Counts => pc[u] \in Counts
      /\ \A u \in Tasks : pc'[u] = "new" => pc[u] = "new"
      /\ \A u \in Tasks : u # t /\ Resumes(u)' => Resumes(u)
  BY <1>1 DEF Counts, Resumes, IsLast, IInv, TypeOK
<1>3. /\ pc'[o] \in Past <=> pc[o] \in Past
      /\ pc'[o] = "suspended" <=> pc[o] = "suspended"
      /\ pc'[o] = "joining" => pc[o] = "joining"
  BY <1>1, OwnersAreCoroutines DEF Past
<1>4. Children(o)' = Children(o) /\ Children(o) \subseteq Tasks
  BY DEF Children
<1>5. CASE Resumes(t)' /\ Parent[t] = o
  <2>1. ref_count[o] = 3 /\ pc'[t] = "compare"
    BY <1>5 DEF Resumes, IsLast, IInv, TypeOK, joiner_flag, ref_increment
  <2>2. /\ pc[o] = "suspended" /\ Counted(o) = {t}
        /\ \A u \in Children(o) : ~Resumes(u)
    BY <1>5, <2>1, LastIsAlone DEF Counts
  <2>3. Counted(o)' = {}
    BY <1>2, <1>4, <2>1, <2>2 DEF Counted, Counts
  <2>4. GoesOnOnce(o)
    BY DEF IInv, JoinersGoOnOnce
  <2> QED BY <1>2, <1>3, <1>4, <2>2, <2>3, <2>4 DEF GoesOnOnce
<1>6. CASE ~(Resumes(t)' /\ Parent[t] = o)
  <2>1. \A u \in Children(o) : Resumes(u)' => Resumes(u)
    BY <1>2, <1>6 DEF Children
  <2> QED BY <1>2, <1>3, <1>4, <2>1, GoesOnKept
<1> QED BY <1>5, <1>6

LEMMA LoadReferences ==
  ASSUME IInv, NEW t \in Tasks, Load(t), NEW o \in Owners
  PROVE  IsCounted(o)' /\ GoesOnOnce(o)'
<1>1. /\ pc[t] \in {"load", "subtract"} /\ pc[t] \in Counts
      /\ pc' = [pc EXCEPT ![t] = "compare"] \/ pc' = [pc EXCEPT ![t] = "subtract"]
      /\ oldValue' = [oldValue EXCEPT ![t] = ref_count[Parent[t]]]
      /\ UNCHANGED <<ref_count, joiner, gone>>
  BY DEF Load, Goto, scopes, Counts
<1>2. GoesOnOnce(o)'
  BY <1>1, ArrivesAtCompare
<1>3. \A u \in Children(o) : pc'[u] \in Counts => pc[u] \in Counts
  BY <1>1 DEF Children, IInv, TypeOK
<1> QED BY <1>1, <1>2, <1>3, CountKept

LEMMA SubtractReferences ==
  ASSUME IInv, NEW t \in Tasks, Subtract(t), NEW o \in Owners
  PROVE  IsCounted(o)' /\ GoesOnOnce(o)'
<1>1. /\ pc[t] \in {"load", "subtract"} /\ pc[t] \in Counts
      /\ pc' = [pc EXCEPT ![t] = "compare"]
      /\ oldValue' = [oldValue EXCEPT ![t] = ref_count[Parent[t]]]
      /\ ref_count' = [ref_count EXCEPT ![Parent[t]] = @ - 2]
      /\ UNCHANGED <<joiner, gone>>
  BY DEF Subtract, Goto, ref_increment, Counts
<1>2. GoesOnOnce(o)'
  BY <1>1, ArrivesAtCompare
<1>3. \A u \in Tasks : u # t => pc'[u] = pc[u]
  BY <1>1 DEF IInv, TypeOK
<1>4. pc'[t] = "compare" /\ t \in Tasks \cup {Main}
  BY <1>1 DEF IInv, TypeOK
<1>5. CASE o # Parent[t]
  <2>1. \A u \in Children(o) : pc'[u] \in Counts => pc[u] \in Counts
    BY <1>3, <1>5 DEF Children
  <2>2. ref_count'[o] = ref_count[o]
    BY <1>1, <1>5 DEF IInv, TypeOK
  <2> QED BY <1>1, <1>2, <2>1, <2>2, CountKept
<1>6. CASE o = Parent[t]
  <2>1. t \in Counted(o)
    BY <1>1, <1>6 DEF Counted, Children
  <2>2. Counted(o)' \subseteq Counted(o) \ {t}
    BY <1>3, <1>4 DEF Counted, Children, Counts
  <2>3. PICK k \in Nat : /\ ref_count[o] = 2 * k + (IF joiner[o] THEN 1 ELSE 0)
                         /\ Cardinality(Counted(o)) <= k
    BY CountIs
  <2>4. /\ IsFiniteSet(Counted(o) \ {t})
        /\ Cardinality(Counted(o) \ {t}) = Cardinality(Counted(o)) - 1
    <3> DEFINE C == Counted(o)
    <3>1. IsFiniteSet(C) /\ t \in C
      BY <2>1, Countable
    <3> HIDE DEF C
    <3>2. IsFiniteSet(C \ {t}) /\ Cardinality(C \ {t}) = Cardinality(C) - 1
      BY <3>1, FS_RemoveElement
    <3> QED BY <3>2 DEF C
  <2>5. Cardinality(Counted(o)') <= Cardinality(Counted(o)) - 1
    BY <2>2, <2>4, FS_Subset
  <2>6. Cardinality(Counted(o)') <= k - 1 /\ k - 1 \in Nat
    BY <2>3, <2>5, Countable
  <2>7. ref_count'[o] = 2 * (k - 1) + (IF joiner'[o] THEN 1 ELSE 0)
    BY <1>1, <1>6, <2>3 DEF IInv, TypeOK
  <2>8. IsCounted(o)'
    BY <2>6, <2>7, CountIntro
  <2> QED BY <1>2, <2>8
<1> QED BY <1>5, <1>6

LEMMA CompareReferences ==
  ASSUME IInv, NEW t \in Tasks, Compare(t), NEW o \in Owners
  PROVE  IsCounted(o)' /\ GoesOnOnce(o)'
<1>1. /\ pc[t] = "compare" /\ UNCHANGED <<ref_count, joiner, gone, oldValue>>
      /\ IF IsLast(t) THEN pc' = [pc EXCEPT ![t] = "done", ![Parent[t]] = "joined"]
                       ELSE pc' = [pc EXCEPT ![t] = "done"]
  BY DEF Compare, scopes
<1> DEFINE p == Parent[t]
<1>2. /\ p \in Owners /\ p # t /\ p \in Tasks \cup {Main} /\ t \in Tasks \cup {Main}
      /\ pc'[t] = "done" /\ \A u \in Tasks \cup {Main} : u # t /\ u # p => pc'[u] = pc[u]
      /\ IF IsLast(t) THEN pc'[p] = "joined" ELSE pc'[p] = pc[p]
  BY <1>1, OwnersAreCoroutines DEF IInv, TypeOK
<1>3. GoesOnOnce(p)
  BY <1>2 DEF IInv, JoinersGoOnOnce
<1>4. IsLast(t) => /\ pc[p] = "suspended" /\ Counted(p) = {}
                  /\ \A u \in Children(p) \ {t} : ~Resumes(u)
  BY <1>1, <1>3 DEF GoesOnOnce, Resumes, Children
<1>5. /\ \A u \in Tasks : pc'[u] \in Counts => pc[u] \in Counts
      /\ \A u \in Tasks : pc'[u] = "new" => pc[u] = "new"
      /\ \A u \in Tasks : Resumes(u)' => Resumes(u) /\ u # t
  BY <1>1, <1>2, <1>4 DEF Counts, Resumes, IsLast
<1>6. Children(o)' = Children(o) /\ Children(o) \subseteq Tasks
  BY DEF Children
<1>7. CASE o = p /\ IsLast(t)
  <2>1. Counted(o)' = {}
    BY <1>4, <1>5, <1>6, <1>7 DEF Counted
  <2>2. \A u \in Children(o) : ~Resumes(u)'
    BY <1>4, <1>5, <1>6, <1>7
  <2>3. pc'[o] = "joined" /\ \A u \in Children(o) : pc[u] # "new"
    BY <1>2, <1>3, <1>4, <1>7 DEF GoesOnOnce
  <2>4. GoesOnOnce(o)'
    BY <1>1, <1>5, <1>6, <2>1, <2>2, <2>3 DEF GoesOnOnce, Past
  <2> QED BY <1>1, <1>5, <1>6, <2>4, CountKept
<1>8. CASE ~(o = p /\ IsLast(t))
  <2>1. /\ pc'[o] \in Past <=> pc[o] \in Past
        /\ pc'[o] = "suspended" <=> pc[o] = "suspended"
        /\ pc'[o] = "joining" => pc[o] = "joining"
    BY <1>1, <1>2, <1>8, OwnersAreCoroutines DEF Past
  <2> QED BY <1>1, <1>5, <1>6, <2>1, OthersKept
<1> QED BY <1>7, <1>8

LEMMA NextReferences == IInv /\ [Next]_vars => ReferencesAreCounted' /\ JoinersGoOnOnce'
<1> SUFFICES ASSUME IInv, [Next]_vars, NEW o \in Owners
             PROVE  IsCounted(o)' /\ GoesOnOnce(o)'
  BY DEF ReferencesAreCounted, JoinersGoOnOnce, Owners
<1>1. ASSUME NEW c \in Tasks \cup {Main}, Step(c)
      PROVE  IsCounted(o)' /\ GoesOnOnce(o)'
  BY <1>1, SpawnReferences, JoinReferences, LeaveReferences, QuietReferences, LoadReferences,
     SubtractReferences, CompareReferences DEF Step
<1> QED BY <1>1, QuietReferences DEF Next

-----------------------------------------------------------------------------
(* Every reachable state satisfies the inductive invariant.                  *)
THEOREM Invariance == Spec => []IInv
<1>1. Init => IInv
  BY InitTypeOK, InitOnePlace, InitReferences DEF IInv
<1>2. IInv /\ [Next]_vars => IInv'
  BY NextTypeOK, NextOnePlace, NextReferences DEF IInv
<1> QED BY <1>1, <1>2, PTL DEF Spec

(* TypeOK for any nesting of scopes: every variable of the scopes and of the *)
(* event loop has its type, and the mutex is held by the worker inside.      *)
THEOREM TypeCorrect == Spec => []TypeOK
<1>1. IInv => TypeOK
  BY DEF IInv
<1> QED BY <1>1, Invariance, PTL

(* "the completion of those concurrent operations happens before the         *)
(* destruction of resources": async_scope's reference count keeps each scope *)
(* alive for as long as notify_task_finished of a task of it may touch it,   *)
(* however the scopes are nested and whichever worker finishes last.         *)
THEOREM ScopesOutliveTheirTasks == Spec => []ScopesAreSafe
<1>1. IInv => ScopeOutlivesTasks
  <2> SUFFICES ASSUME IInv, NEW t \in Tasks, gone[Parent[t]] PROVE ~Touches(t)
    BY DEF ScopeOutlivesTasks
  <2>1. GoesOnOnce(Parent[t]) /\ t \in Children(Parent[t])
    BY OwnersAreCoroutines DEF IInv, JoinersGoOnOnce, Children
  <2>2. pc[Parent[t]] \in Past /\ pc[Parent[t]] # "suspended"
    BY <2>1 DEF GoesOnOnce, Past
  <2>3. pc[t] \notin Counts /\ ~Resumes(t)
    BY <2>1, <2>2 DEF GoesOnOnce, Counted
  <2> QED BY <2>3 DEF Touches, Counts, Resumes
<1>2. IInv => ScopesAreSafe
  BY <1>1 DEF IInv, ScopesAreSafe
<1> QED BY <1>2, Invariance, PTL
=============================================================================
