----------------------------- MODULE AsyncScope -----------------------------
(***************************************************************************)
(* src/exercises/minimal-coroutine.cpp: an async_scope counts the tasks    *)
(* spawned in it and resumes the coroutine that joins it when the last one *)
(* finishes; the tasks are multiplexed by a manual_event_loop onto worker  *)
(* threads.  main() owns a scope, and so does a task with tasks of its own *)
(* (nested_scopes): a scope is named by its owner.                         *)
(*                                                                         *)
(* A spawned task runs on the spawning thread up to `co_await              *)
(* loop.schedule()', which puts it into the loop's queue.  Every access to *)
(* ref_count and every section under the loop's mutex is a step.           *)
(***************************************************************************)
EXTENDS Integers, Sequences, FiniteSets

CONSTANTS
  Main,     \* main()
  Tasks,
  Parent,   \* Parent[t]: the owner of the scope t is spawned in
  Workers   \* threads that call loop.run()

Owners   == {Main} \cup {Parent[t] : t \in Tasks}
NoThread == "nobody"
NoTask   == 0

ASSUME ScopeAssumption ==
  /\ IsFiniteSet(Tasks) /\ IsFiniteSet(Workers) /\ Workers # {}
  /\ Main \notin Tasks /\ NoTask \notin Tasks \cup {Main} /\ NoThread \notin Workers
  /\ Parent \in [Tasks -> Tasks \cup {Main}] /\ \A t \in Tasks : Parent[t] # t

(* The configuration the run checks: main() spawns a task with two tasks of  *)
(* its own and one without.                                                  *)
NestedScopes == [t \in Tasks |-> IF t \in {2, 3} THEN 1 ELSE Main]

VARIABLES
  ref_count,  \* ref_count[o]: of the scope that o owns
  joiner,     \* joiner[o]: its joiner is set
  gone,       \* gone[o]: it has been destroyed
  pc,         \* where each coroutine (main() is one) is
  oldValue,   \* oldValue[t], in notify_task_finished
  queue,      \* the event loop's list
  mut,        \* the loop's mutex: the worker that holds it, or NoThread
  at,         \* where each worker is in run()
  cur,        \* the coroutine it has resumed, or NoTask
  stop        \* its stop was requested

scopes == <<ref_count, joiner, gone>>
loop   == <<queue, mut, at, cur, stop>>
vars   == <<scopes, pc, oldValue, loop>>

joiner_flag   == 1
ref_increment == 2

Children(o) == {t \in Tasks : Parent[t] = o}

Init ==
  /\ ref_count = [o \in Owners |-> 0]
  /\ joiner = [o \in Owners |-> FALSE]
  /\ gone = [o \in Owners |-> FALSE]
  /\ pc = [c \in Tasks \cup {Main} |-> IF c = Main THEN "body" ELSE "new"]
  /\ oldValue = [t \in Tasks |-> 0]
  /\ queue = <<>> /\ mut = NoThread
  /\ at = [w \in Workers |-> "lock"]
  /\ cur = [w \in Workers |-> NoTask]
  /\ stop = [w \in Workers |-> FALSE]

Goto(c, from, to) == pc[c] = from /\ pc' = [pc EXCEPT ![c] = to]

(* cv.notify_one() and notify_all(): a worker notified wants the mutex *)
Asleep == {w \in Workers : at[w] = "asleep"}
NotifyOne ==
  IF Asleep = {} THEN UNCHANGED at ELSE \E w \in Asleep : at' = [at EXCEPT ![w] = "lock"]
NotifyAll == at' = [w \in Workers |-> IF w \in Asleep THEN "lock" ELSE at[w]]

(* The coroutine a worker runs suspends, or ends: resume() returns to run(). *)
BackToLoop(c) ==
  /\ at' = [w \in Workers |-> IF cur[w] = c THEN "lock" ELSE at[w]]
  /\ cur' = [w \in Workers |-> IF cur[w] = c THEN NoTask ELSE cur[w]]

-----------------------------------------------------------------------------
(* The owner of a scope spawns its tasks, one after the other, and joins.    *)

Spawn(o, t) ==  \* add_ref
  /\ pc[o] = "body" /\ pc[t] = "new" /\ Parent[t] = o
  /\ ref_count' = [ref_count EXCEPT ![o] = @ + ref_increment]
  /\ pc' = [pc EXCEPT ![o] = "spawning", ![t] = "arriving"]
  /\ UNCHANGED <<joiner, gone, oldValue, loop>>

EnqueueSilently(t) ==  \* mutant: wakes nobody
  /\ pc[t] = "arriving" /\ mut = NoThread
  /\ queue' = Append(queue, t)
  /\ pc' = [pc EXCEPT ![t] = "queued", ![Parent[t]] = "body"]
  /\ UNCHANGED <<scopes, oldValue, mut, at, cur, stop>>

Enqueue(t) ==
  /\ pc[t] = "arriving" /\ mut = NoThread
  /\ queue' = Append(queue, t)
  /\ NotifyOne
  /\ pc' = [pc EXCEPT ![t] = "queued", ![Parent[t]] = "body"]
  /\ UNCHANGED <<scopes, oldValue, mut, cur, stop>>

(* join_awaiter::await_ready *)
JoinReady(o) ==
  /\ \A t \in Children(o) : pc[t] # "new"
  /\ Goto(o, "body", IF ref_count[o] = 0 THEN "joined" ELSE "joining")
  /\ UNCHANGED <<scopes, oldValue, loop>>

(* join_awaiter::await_suspend *)
JoinSuspend(o) ==
  /\ joiner' = [joiner EXCEPT ![o] = TRUE]
  /\ ref_count' = [ref_count EXCEPT ![o] = @ + joiner_flag]
  /\ IF ref_count[o] # 0
     THEN Goto(o, "joining", "suspended") /\ BackToLoop(o)
     ELSE Goto(o, "joining", "joined") /\ UNCHANGED <<at, cur>>
  /\ UNCHANGED <<gone, oldValue, queue, mut, stop>>

(* sync_wait: main() joins in a coroutine of its own, whose end, on whichever *)
(* thread, releases the semaphore that main() acquires.                    *)
Acquire ==
  /\ Goto(Main, "joined", "acquired")
  /\ UNCHANGED <<scopes, oldValue, loop>>

(* the owner leaves the block, or the coroutine, the scope is a local of *)
Leave(o) ==
  /\ IF o = Main THEN Goto(o, "acquired", "stop") ELSE Goto(o, "joined", "load")
  /\ gone' = [gone EXCEPT ![o] = TRUE]
  /\ UNCHANGED <<ref_count, joiner, oldValue, loop>>

-----------------------------------------------------------------------------
(* A task without tasks of its own ends; then notify_task_finished.          *)

Finish(t) ==
  /\ t \notin Owners
  /\ Goto(t, "body", "load")
  /\ UNCHANGED <<scopes, oldValue, loop>>

Load(t) ==
  LET old == ref_count[Parent[t]]
  IN  /\ oldValue' = [oldValue EXCEPT ![t] = old]
      /\ Goto(t, "load", IF old > joiner_flag + ref_increment THEN "subtract" ELSE "compare")
      /\ UNCHANGED <<scopes, loop>>

SubtractStale(t) ==  \* mutant: goes on with the value loaded before
  /\ ref_count' = [ref_count EXCEPT ![Parent[t]] = @ - ref_increment]
  /\ Goto(t, "subtract", "compare")
  /\ UNCHANGED <<joiner, gone, oldValue, loop>>

Subtract(t) ==
  /\ oldValue' = [oldValue EXCEPT ![t] = ref_count[Parent[t]]]
  /\ ref_count' = [ref_count EXCEPT ![Parent[t]] = @ - ref_increment]
  /\ Goto(t, "subtract", "compare")
  /\ UNCHANGED <<joiner, gone, loop>>

IsLastEager(t) == oldValue[t] <= joiner_flag + 2 * ref_increment  \* mutant: one task too early
IsLast(t) == oldValue[t] = joiner_flag + ref_increment

(* joiner.resume(): the thread runs the owner; main() goes on by itself      *)
Compare(t) ==
  LET o == Parent[t]
  IN  /\ pc[t] = "compare"
      /\ IF IsLast(t)
         THEN /\ pc' = [pc EXCEPT ![t] = "done", ![o] = "joined"]
              /\ IF o = Main THEN BackToLoop(t)
                 ELSE /\ cur' = [w \in Workers |-> IF cur[w] = t THEN o ELSE cur[w]]
                      /\ UNCHANGED at
         ELSE pc' = [pc EXCEPT ![t] = "done"] /\ BackToLoop(t)
      /\ UNCHANGED <<scopes, oldValue, queue, mut, stop>>

-----------------------------------------------------------------------------
(* manual_event_loop::run                                                    *)

Lock(w) ==
  /\ at[w] = "lock" /\ mut = NoThread
  /\ mut' = w /\ at' = [at EXCEPT ![w] = "test"]
  /\ UNCHANGED <<scopes, pc, oldValue, queue, cur, stop>>

(* the predicate of cv.wait, and the test for a stop *)
Test(w) ==
  /\ at[w] = "test"
  /\ \/ /\ stop[w] /\ at' = [at EXCEPT ![w] = "left"]
        /\ mut' = NoThread
        /\ UNCHANGED <<pc, queue, cur>>
     \/ /\ ~stop[w] /\ queue # <<>>
        /\ queue' = Tail(queue)
        /\ cur' = [cur EXCEPT ![w] = Head(queue)]
        /\ pc' = [pc EXCEPT ![Head(queue)] = "body"]
        /\ at' = [at EXCEPT ![w] = "resumed"]
        /\ mut' = NoThread
     \/ /\ ~stop[w] /\ queue = <<>>
        /\ at' = [at EXCEPT ![w] = "wait"]
        /\ UNCHANGED <<pc, queue, cur, mut>>
  /\ UNCHANGED <<scopes, oldValue, stop>>

(* cv.wait gives the mutex up and sleeps *)
Wait(w) ==
  /\ at[w] = "wait" /\ at' = [at EXCEPT ![w] = "asleep"]
  /\ mut' = NoThread
  /\ UNCHANGED <<scopes, pc, oldValue, queue, cur, stop>>

WakeSpuriously(w) ==
  /\ at[w] = "asleep" /\ at' = [at EXCEPT ![w] = "lock"]
  /\ UNCHANGED <<scopes, pc, oldValue, queue, mut, cur, stop>>

(* ~jthread, for each worker: request_stop() sets the flag and calls the     *)
(* stop_callback; then join().                                               *)
RequestStop(w) ==
  /\ Goto(Main, "stop", "callback")
  /\ \A v \in Workers : stop[v] => at[v] = "left"
  /\ ~stop[w] /\ stop' = [stop EXCEPT ![w] = TRUE]
  /\ UNCHANGED <<scopes, oldValue, queue, mut, at, cur>>

StopCallbackUnlocked ==  \* mutant: notifies without the mutex
  /\ Goto(Main, "callback", "stop")
  /\ NotifyAll
  /\ UNCHANGED <<scopes, oldValue, queue, mut, cur, stop>>

StopCallback ==
  /\ Goto(Main, "callback", "stop") /\ mut = NoThread
  /\ NotifyAll
  /\ UNCHANGED <<scopes, oldValue, queue, mut, cur, stop>>

Exit ==
  /\ Goto(Main, "stop", "exit")
  /\ \A w \in Workers : at[w] = "left"
  /\ UNCHANGED <<scopes, oldValue, loop>>

-----------------------------------------------------------------------------
(* What a coroutine does next, on whichever thread runs it.                  *)
Step(c) ==
  \/ \E t \in Tasks : Spawn(c, t)
  \/ c \in Owners /\ (JoinReady(c) \/ JoinSuspend(c) \/ Leave(c))
  \/ c = Main /\ Acquire
  \/ c \in Tasks /\ (Enqueue(c) \/ Finish(c) \/ Load(c) \/ Subtract(c) \/ Compare(c))

Run(w) == Lock(w) \/ Test(w) \/ Wait(w)
Stop == (\E w \in Workers : RequestStop(w)) \/ StopCallback \/ Exit

Next ==
  \/ \E c \in Tasks \cup {Main} : Step(c)
  \/ \E w \in Workers : Run(w) \/ WakeSpuriously(w)
  \/ Stop

Spec == Init /\ [][Next]_vars

(* Every thread keeps running, and gets a mutex that is free time and again. *)
FairSpec ==
  /\ Spec
  /\ \A c \in Tasks \cup {Main} : SF_vars(Step(c))
  /\ \A w \in Workers : SF_vars(Run(w))
  /\ SF_vars(Stop)

-----------------------------------------------------------------------------
Labels == {"new", "arriving", "queued", "body", "spawning", "joining", "suspended", "joined",
           "acquired", "load", "subtract", "compare", "done", "stop", "callback", "exit"}
Places == {"lock", "test", "wait", "asleep", "resumed", "left"}

(* Every variable has its type, and the mutex is held by the worker inside.  *)
TypeOK ==
  /\ ref_count \in [Owners -> Nat]
  /\ joiner \in [Owners -> BOOLEAN] /\ gone \in [Owners -> BOOLEAN]
  /\ pc \in [Tasks \cup {Main} -> Labels]
  /\ oldValue \in [Tasks -> Nat]
  /\ queue \in Seq(Tasks)
  /\ mut \in Workers \cup {NoThread}
  /\ at \in [Workers -> Places]
  /\ cur \in [Workers -> Tasks \cup {NoTask}]
  /\ stop \in [Workers -> BOOLEAN]
  /\ \A w \in Workers : at[w] \in {"test", "wait"} <=> mut = w

(* The accesses to a scope that notify_task_finished still has to make. *)
Touches(t) ==
  \/ pc[t] \in {"arriving", "queued", "body", "spawning", "joining", "suspended", "joined",
                "load", "subtract"}
  \/ pc[t] = "compare" /\ IsLast(t)

(* "the completion of those concurrent operations happens before the         *)
(* destruction of resources": a scope is not destroyed while a task of it    *)
(* has not finished, or is still going to touch the scope.                   *)
ScopeOutlivesTasks == \A t \in Tasks : gone[Parent[t]] => ~Touches(t)

(* A task that took the last reference for itself, before the owner came to  *)
(* join: it has neither given the reference back nor seen a joiner.          *)
Missed(o) ==
  /\ \A t \in Children(o) : pc[t] \in {"compare", "done"}
  /\ \E t \in Children(o) : oldValue[t] = ref_increment
  /\ ref_count[o] \in {ref_increment, ref_increment + joiner_flag}

(* "wait until all tasks have completed": who joins goes on, unless the last *)
(* task has missed him.                                                      *)
JoinReturnsUnlessMissed ==
  \A o \in Owners :
    pc[o] = "suspended" ~> pc[o] # "suspended" \/ \E p \in Owners : Missed(p)

(* A task in the loop's queue is resumed by some worker.                     *)
QueuedTasksRun == \A t \in Tasks : pc[t] = "queued" ~> pc[t] # "queued"

(* Once main() has joined its scope, both loops stop and the program ends.   *)
MainEnds == pc[Main] = "joined" ~> pc[Main] = "exit"

-----------------------------------------------------------------------------
(* Why no scope dies too early.  A task counts as long as it has not got     *)
(* past the subtraction.                                                     *)
Counts == {"arriving", "queued", "body", "spawning", "joining", "suspended", "joined",
           "load", "subtract"}
Counted(o) == {t \in Children(o) : pc[t] \in Counts}
Resumes(t) == pc[t] = "compare" /\ IsLast(t)
Past == {"joined", "acquired", "load", "subtract", "compare", "done", "stop", "callback", "exit"}

(* ref_count holds a reference for each task that counts (and those of tasks *)
(* that kept theirs), and its lowest bit says whether the joiner is set.     *)
IsCounted(o) ==
  \E k \in 0..ref_count[o] :
    /\ ref_count[o] = ref_increment * k + (IF joiner[o] THEN joiner_flag ELSE 0)
    /\ Cardinality(Counted(o)) <= k
ReferencesAreCounted == \A o \in Owners : IsCounted(o)

(* The owner goes on when no task counts any more, whoever resumes him, and  *)
(* at most one task does.                                                    *)
GoesOnOnce(o) ==
  /\ joiner[o] => pc[o] \in Past \cup {"suspended"}
  /\ pc[o] \in Past \cup {"joining", "suspended"} => \A t \in Children(o) : pc[t] # "new"
  /\ pc[o] \in Past => Counted(o) = {}
  /\ gone[o] => pc[o] \in Past
  /\ \A t \in Children(o) : Resumes(t) =>
       /\ pc[o] = "suspended" /\ Counted(o) = {}
       /\ \A u \in Children(o) \ {t} : ~Resumes(u)
JoinersGoOnOnce == \A o \in Owners : GoesOnOnce(o)

(* A coroutine is in one place: it waits once in the queue, it is being put  *)
(* there by its owner, or a worker that holds no mutex runs it.              *)
WaitsOnce ==
  /\ \A i \in 1..Len(queue) : pc[queue[i]] = "queued"
  /\ \A i, j \in 1..Len(queue) : queue[i] = queue[j] => i = j
RunsUnlocked == \A w \in Workers : cur[w] # NoTask => at[w] = "resumed"
ArrivesAlone ==
  \A t \in Tasks : pc[t] = "arriving" =>
    /\ pc[Parent[t]] = "spawning"
    /\ \A u \in Children(Parent[t]) \ {t} : pc[u] # "arriving"
OnePlace == WaitsOnce /\ RunsUnlocked /\ ArrivesAlone

(* The scopes' variables are of their types, and none dies too early.        *)
ScopesAreSafe ==
  TypeOK /\ OnePlace /\ ReferencesAreCounted /\ JoinersGoOnOnce /\ ScopeOutlivesTasks
=============================================================================
