----------------------------- MODULE LockedQueue -----------------------------
(***************************************************************************)
(* locked_queue of src/core/locked_queue.hpp: a FIFO queue under a mutex   *)
(* whose push waits on full_ and whose pop waits on empty_.  Everything a  *)
(* thread does between taking the mutex and releasing it (to return or to  *)
(* wait) is one action.  A notified thread competes for the mutex with     *)
(* every thread that calls push or pop anew, and tests its condition       *)
(* again.  A thread that both pushes and pops is a producer and a consumer *)
(* that never call at the same time.                                       *)
(***************************************************************************)
EXTENDS Integers, Sequences, FiniteSets

CONSTANTS
  Producers, Consumers,  \* the threads that push, and those that pop
  Items, NoItem,
  Bound                  \* the template parameter; zero is "unbounded"

ASSUME LockedAssumption ==
  /\ IsFiniteSet(Producers) /\ IsFiniteSet(Consumers) /\ Producers \cap Consumers = {}
  /\ NoItem \notin Items
  /\ Bound \in Nat

VARIABLES
  queue,  \* queue_
  pc,     \* "idle", "asleep" on full_ or empty_, or "notified": in need of the mutex
  item,   \* item[p]: the argument of the push p is in
  got     \* got[c]: the item the last pop of c returned

vars == <<queue, pc, item, got>>

Threads == Producers \cup Consumers

Init ==
  /\ queue = <<>>
  /\ pc = [t \in Threads |-> "idle"]
  /\ item = [p \in Producers |-> NoItem]
  /\ got = [c \in Consumers |-> NoItem]

IsFull == Bound > 0 /\ Len(queue) >= Bound

Asleep(group)   == {t \in group : pc[t] = "asleep"}
Notified(group) == {t \in group : pc[t] = "notified"}

(* wait() gives the mutex up and sleeps. *)
Sleep(t) == pc' = [pc EXCEPT ![t] = "asleep"]

(* t notifies one of the sleepers, if there is one, and returns. *)
NotifyOne(t, sleepers) ==
  IF sleepers = {}
  THEN pc' = [pc EXCEPT ![t] = "idle"]
  ELSE \E s \in sleepers : pc' = [pc EXCEPT ![t] = "idle", ![s] = "notified"]

-----------------------------------------------------------------------------
EnqueueNotifyIfEmpty(p, x) ==  \* mutant: notifies only when the queue was empty
  /\ queue' = Append(queue, x)
  /\ item' = [item EXCEPT ![p] = NoItem]
  /\ NotifyOne(p, IF queue = <<>> THEN Asleep(Consumers) ELSE {})

Enqueue(p, x) ==
  /\ queue' = Append(queue, x)
  /\ item' = [item EXCEPT ![p] = NoItem]
  /\ NotifyOne(p, Asleep(Consumers))

DequeueSilently(c) ==  \* mutant: forgets full_.notify_one()
  /\ got' = [got EXCEPT ![c] = Head(queue)]
  /\ queue' = Tail(queue)
  /\ NotifyOne(c, {})

Dequeue(c) ==
  /\ got' = [got EXCEPT ![c] = Head(queue)]
  /\ queue' = Tail(queue)
  /\ NotifyOne(c, IF Bound > 0 THEN Asleep(Producers) ELSE {})

(* push, when it has the mutex with argument x *)
PushLocked(p, x) ==
  \/ ~IsFull /\ Enqueue(p, x)
  \/ IsFull /\ Sleep(p) /\ item' = [item EXCEPT ![p] = x] /\ UNCHANGED queue

PopLocked(c) ==
  \/ queue # <<>> /\ Dequeue(c)
  \/ queue = <<>> /\ Sleep(c) /\ UNCHANGED <<queue, got>>

Push(p) == pc[p] = "idle" /\ (\E x \in Items : PushLocked(p, x)) /\ UNCHANGED got
Pop(c)  == pc[c] = "idle" /\ PopLocked(c) /\ UNCHANGED item

ResumePushUnchecked(p) ==  \* mutant: waits in an if, not in a loop
  pc[p] = "notified" /\ Enqueue(p, item[p]) /\ UNCHANGED got

ResumePush(p) == pc[p] = "notified" /\ PushLocked(p, item[p]) /\ UNCHANGED got
ResumePop(c)  == pc[c] = "notified" /\ PopLocked(c) /\ UNCHANGED item

(* try_push and try_pop return false where push and pop would wait. *)
TryPush(p) ==
  /\ pc[p] = "idle"
  /\ \/ ~IsFull /\ (\E x \in Items : Enqueue(p, x)) /\ UNCHANGED got
     \/ IsFull /\ UNCHANGED vars

TryPop(c) ==
  /\ pc[c] = "idle"
  /\ \/ queue # <<>> /\ Dequeue(c) /\ UNCHANGED item
     \/ queue = <<>> /\ UNCHANGED vars

(* A condition variable may wake a thread nobody notified. *)
WakeSpuriously(t) ==
  /\ pc[t] = "asleep"
  /\ pc' = [pc EXCEPT ![t] = "notified"]
  /\ UNCHANGED <<queue, item, got>>

Next ==
  \/ \E p \in Producers : Push(p) \/ ResumePush(p) \/ TryPush(p)
  \/ \E c \in Consumers : Pop(c) \/ ResumePop(c) \/ TryPop(c)
  \/ \E t \in Threads : WakeSpuriously(t)

Spec == Init /\ [][Next]_vars

(* A notified thread gets the mutex some time.  Nobody has to call again. *)
FairSpec ==
  /\ Spec
  /\ \A p \in Producers : WF_vars(ResumePush(p))
  /\ \A c \in Consumers : WF_vars(ResumePop(c))

-----------------------------------------------------------------------------
(* Every variable has its type, and a push that is not idle holds its item.  *)
TypeOK ==
  /\ queue \in Seq(Items)
  /\ pc \in [Threads -> {"idle", "asleep", "notified"}]
  /\ item \in [Producers -> Items \cup {NoItem}]
  /\ \A p \in Producers : pc[p] # "idle" => item[p] \in Items
  /\ got \in [Consumers -> Items \cup {NoItem}]

(* No wakeup is lost: while a pop sleeps on empty_, every item in the queue  *)
(* has a notified pop to fetch it, and while a push sleeps on full_, every   *)
(* free place has a notified push to fill it, whoever barges in.             *)
PopsAreWoken ==
  Asleep(Consumers) # {} => Len(queue) <= Cardinality(Notified(Consumers))
PushesAreWoken ==
  Asleep(Producers) # {} => Bound - Len(queue) <= Cardinality(Notified(Producers))
WakeupsSuffice == PopsAreWoken /\ PushesAreWoken

(* The queue implements a bounded FIFO queue. *)
Fifo == INSTANCE BoundedFifo WITH Capacity <- Bound
FifoSpec == Fifo!Spec

(* Threads that are in push or pop already do not stay asleep beside an item *)
(* or a free place, even if nobody calls the queue again.                    *)
NobodyOversleeps ==
  /\ []<>(queue = <<>> \/ Asleep(Consumers) = {})
  /\ []<>(IsFull \/ Asleep(Producers) = {})
=============================================================================
