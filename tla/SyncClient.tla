----------------------------- MODULE SyncClient -----------------------------
(***************************************************************************)
(* SyncClient.java: tasks run one after the other on an executor, a thread *)
(* dequeues and dispatches the events of the queue they create, and the    *)
(* user's thread posts the tasks.  What the daemon answers is external: a  *)
(* call succeeds, or fails, and always fails while the service is away.    *)
(***************************************************************************)
EXTENDS Integers, Sequences, FiniteSets

CONSTANTS MaxTasks, MaxQueues, MaxEvents, MaxLost  \* bounds of the behaviours followed

VARIABLES
  service,      \* binder is not null
  eventQueue,   \* its handle; 0 is null
  queues,       \* the handles the daemon has
  created,      \* how many it has given out
  pending,      \* the events that wait in the daemon's queue
  posted, tasks,  \* how many tasks were posted; those not begun, oldest first
  executor,     \* "idle", or where it is in DestroyEventQueueTask
  thread,       \* eventQueueDispatchThread: "new", "test", "ask", "wait", "deliver", "ended", "dead"
  asked,        \* the handle of the call the thread waits in
  interrupted,
  currentState, \* the last state queried, "null" or "known"
  destroyed,    \* history: a destroy has begun
  events, lost  \* how many events there were, and how often the service went away

vars == <<service, eventQueue, queues, created, pending, posted, tasks, executor, thread, asked,
          interrupted, currentState, destroyed, events, lost>>
daemon == <<queues, created, pending, events>>
dispatcher == <<thread, asked, interrupted>>

Init ==
  /\ service = FALSE /\ eventQueue = 0
  /\ queues = {} /\ created = 0 /\ pending = 0
  /\ posted = 0 /\ tasks = <<>> /\ executor = "idle"
  /\ thread = "new" /\ asked = 0 /\ interrupted = FALSE
  /\ currentState = "null" /\ destroyed = FALSE
  /\ events = 0 /\ lost = 0

OnServiceConnected ==
  /\ ~service /\ service' = TRUE
  /\ UNCHANGED <<eventQueue, daemon, posted, tasks, executor, dispatcher, currentState, destroyed, lost>>

OnServiceDisconnected ==
  /\ service /\ lost < MaxLost /\ service' = FALSE /\ lost' = lost + 1
  /\ UNCHANGED <<eventQueue, daemon, posted, tasks, executor, dispatcher, currentState, destroyed>>

(* createEventQueue, destroyEventQueue, querySystemState, enableFeature: the *)
(* last captures currentState when it is called.                             *)
Post(kind) ==
  /\ posted < MaxTasks /\ posted' = posted + 1
  /\ tasks' = Append(tasks, [kind |-> kind, state |-> currentState])
  /\ UNCHANGED <<service, eventQueue, daemon, executor, dispatcher, currentState, destroyed, lost>>

Begins(kind) == executor = "idle" /\ tasks # <<>> /\ Head(tasks).kind = kind /\ tasks' = Tail(tasks)

-----------------------------------------------------------------------------
CreateEventQueueStartingFirst ==  \* mutant: starts the thread before it asks for the queue
  /\ Begins("create")
  /\ thread' = IF eventQueue = 0 /\ thread = "new" THEN "test" ELSE thread
  /\ \/ UNCHANGED <<eventQueue, queues, created>>
     \/ /\ eventQueue = 0 /\ service /\ created < MaxQueues
        /\ created' = created + 1 /\ queues' = queues \cup {created + 1}
        /\ eventQueue' = created + 1
  /\ UNCHANGED <<service, pending, events, posted, executor, asked, interrupted, currentState, destroyed, lost>>

(* CreateEventQueueTask.  start() throws for a thread that was started       *)
(* before, and leaves the new queue without a dispatcher.                    *)
CreateEventQueue ==
  /\ Begins("create")
  /\ \/ UNCHANGED <<eventQueue, queues, created, thread>>  \* it exists, or the call fails
     \/ /\ eventQueue = 0 /\ service /\ created < MaxQueues
        /\ created' = created + 1 /\ queues' = queues \cup {created + 1}
        /\ eventQueue' = created + 1
        /\ thread' = IF thread = "new" THEN "test" ELSE thread
  /\ UNCHANGED <<service, pending, events, posted, executor, asked, interrupted, currentState, destroyed, lost>>

(* DestroyEventQueueTask: the call to the daemon ... *)
DestroyEventQueue ==
  /\ Begins("destroy")
  /\ \/ UNCHANGED <<queues, pending, executor, destroyed>>  \* there is none, or the call fails
     \/ /\ eventQueue # 0 /\ service
        /\ queues' = queues \ {eventQueue} /\ pending' = 0
        /\ executor' = "destroyed" /\ destroyed' = TRUE
  /\ UNCHANGED <<service, eventQueue, created, events, posted, dispatcher, currentState, lost>>

(* ... then eventQueue = null ... *)
DestroyForgets ==
  /\ executor = "destroyed" /\ executor' = "forgotten" /\ eventQueue' = 0
  /\ UNCHANGED <<service, daemon, posted, tasks, dispatcher, currentState, destroyed, lost>>

(* ... then the interrupt, which means nothing to a thread that has ended. *)
DestroyInterrupts ==
  /\ executor = "forgotten" /\ executor' = "idle"
  /\ interrupted' = (interrupted \/ thread \in {"test", "ask", "wait", "deliver"})
  /\ UNCHANGED <<service, eventQueue, daemon, posted, tasks, thread, asked, currentState, destroyed, lost>>

(* QuerySystemStateTask and the observer that keeps what it found. *)
QuerySystemState ==
  /\ Begins("query")
  /\ \/ currentState' = "null"
     \/ service /\ currentState' = "known"
  /\ UNCHANGED <<service, eventQueue, daemon, posted, executor, dispatcher, destroyed, lost>>

(* EnableFeatureTask, LoginTask, LinkDeviceTask: a call, and its result. *)
CallDaemon ==
  /\ Begins("enable")
  /\ UNCHANGED <<service, eventQueue, daemon, posted, executor, dispatcher, currentState, destroyed, lost>>

-----------------------------------------------------------------------------
(* while (!interrupted()) clears the flag it reads. *)
DispatchTests ==
  /\ thread = "test"
  /\ thread' = IF interrupted THEN "ended" ELSE "ask"
  /\ interrupted' = FALSE
  /\ UNCHANGED <<service, eventQueue, daemon, posted, tasks, executor, asked, currentState, destroyed, lost>>

(* An exception nobody catches ends the application. *)
DispatchAsks ==
  /\ thread = "ask"
  /\ IF eventQueue = 0 THEN thread' = "dead" /\ UNCHANGED asked
     ELSE thread' = "wait" /\ asked' = eventQueue
  /\ UNCHANGED <<service, eventQueue, daemon, posted, tasks, executor, interrupted, currentState, destroyed, lost>>

EndsWithoutEvents ==  \* mutant: a call that returns no events ends the loop
  /\ thread = "wait"
  /\ pending' = 0
  /\ thread' = IF pending > 0 THEN "deliver" ELSE "ended"
  /\ UNCHANGED <<service, eventQueue, queues, created, events, posted, tasks, executor, asked,
                 interrupted, currentState, destroyed, lost>>

(* EventsDequeue returns the events there are, or fails, or times out. *)
DispatchAnswered ==
  /\ thread = "wait" /\ thread' = "deliver"
  /\ \/ service /\ asked \in queues /\ pending' = 0
     \/ (~service \/ asked \notin queues \/ pending = 0) /\ UNCHANGED pending
  /\ UNCHANGED <<service, eventQueue, queues, created, events, posted, tasks, executor, asked,
                 interrupted, currentState, destroyed, lost>>

Dispatch ==
  /\ thread = "deliver"
  /\ thread' = IF eventQueue = 0 THEN "dead" ELSE "test"
  /\ UNCHANGED <<service, eventQueue, daemon, posted, tasks, executor, asked, interrupted,
                 currentState, destroyed, lost>>

DaemonQueuesEvent ==
  /\ queues # {} /\ events < MaxEvents
  /\ events' = events + 1 /\ pending' = pending + 1
  /\ UNCHANGED <<service, eventQueue, queues, created, posted, tasks, executor, dispatcher,
                 currentState, destroyed, lost>>

DispatchThread == DispatchTests \/ DispatchAsks \/ DispatchAnswered \/ Dispatch

(* A crash of the application ends the behaviour. *)
Next ==
  /\ thread # "dead"
  /\ \/ OnServiceConnected \/ OnServiceDisconnected
     \/ \E kind \in {"create", "destroy", "query", "enable"} : Post(kind)
     \/ CreateEventQueue \/ DestroyEventQueue \/ DestroyForgets \/ DestroyInterrupts
     \/ QuerySystemState \/ CallDaemon
     \/ DispatchThread \/ DaemonQueuesEvent

Fairness == WF_vars(thread # "dead" /\ DispatchThread)

Spec == Init /\ [][Next]_vars /\ Fairness

-----------------------------------------------------------------------------
(* The dispatch thread dereferences a null eventQueue only where a destroy *)
(* has set it: it is never started without a queue.                        *)
NullOnlyAfterDestroy ==
  /\ thread \in {"ask", "deliver"} /\ eventQueue = 0 => destroyed
  /\ thread = "dead" => destroyed

(* The client knows every queue it has in the daemon, and knows none that    *)
(* the daemon has destroyed but while a destroy is on.                       *)
HandleIsLive ==
  /\ queues \subseteq {eventQueue}
  /\ eventQueue # 0 => eventQueue \in queues \/ executor = "destroyed"

(* Until somebody destroys the queue, its events are fetched while the       *)
(* service is there.                                                         *)
EventsAreFetched == []<>(pending = 0 \/ destroyed \/ ~service)
=============================================================================
