----------------------------- MODULE ClipSession -----------------------------
(***************************************************************************)
(* How the Android client of src/exercises/clipserver keeps its session:   *)
(* ClipManager.java starts and restarts it, MessageManager.java connects,  *)
(* authenticates, pings and receives.  The threads are the UI thread, the  *)
(* single thread of MessageManager's executor, the timer of ClipManager's  *)
(* executor, and one receive thread per connection made.  They share the   *)
(* volatile fields channel, receiveThreadContinue, token and reconnecting. *)
(*                                                                         *)
(* close() makes a blocked read of the channel throw, so a channel that is *)
(* replaced is closed, and nobody reads it any more: only the current one  *)
(* needs a state.                                                          *)
(***************************************************************************)
EXTENDS Integers, Sequences, FiniteSets

CONSTANTS
  Receivers,    \* receive threads that can be alive at the same time
  MaxFaults,    \* bound on lost connections and failed connects
  MaxEvents,    \* bound on what the user does (restarts, clips, sleeps in a ping) and on messages
  MaxTimers     \* bound on restarts scheduled

Nobody == "nobody"
Executor == "executor"

ASSUME SessionAssumption ==
  /\ IsFiniteSet(Receivers) /\ Receivers # {}
  /\ Nobody \notin Receivers /\ Executor \notin Receivers
  /\ MaxFaults \in Nat /\ MaxEvents \in Nat
  /\ MaxTimers \in Nat \ {0}  \* a restart that is scheduled is counted

VARIABLES
  ui,           \* the UI thread: "closed" before onCreate, "idle", or where it is in start()
  connectDone,  \* result of the ConnectTask start() waits for
  registered,   \* the observer of the AuthenticateTask is in its list
  authDone,     \* result of the AuthenticateTask
  listener,     \* the clipboard listener: "never" started, "running", "cancelled"
  reconnecting, \* ClipManager.reconnecting
  timers,       \* restarts scheduled
  message,      \* CLIP_MANAGER_RESTART is in the UI thread's queue
  jobs, task,   \* MessageManager's executor: its queue, and what it is doing
  awake,        \* the heartbeat is scheduled
  channel,      \* "none", "opening", "connected" or "closed"
  link,         \* the server can be reached over the channel
  mail,         \* "none", the "request" to authenticate, or its "reply", under way
  receiving,    \* receiveThreadContinue
  rcv,          \* where each receive thread is
  interrupted,  \* its interrupt status
  newest,       \* receiveThread
  reporter,     \* who holds disconnectObservers, in notifyDisconnect
  abandoned, awaited, \* rpchandlers: observers of tasks that gave up, then the waiting one's
  token,        \* token # 0
  faults, events, \* what the environment has done
  crash         \* the exception that killed the application, or "none"

start   == <<ui, connectDone, registered, authDone, listener>>
timing  == <<reconnecting, timers, message>>
exec    == <<jobs, task, awake>>
conn    == <<channel, link, mail>>
threads == <<receiving, rcv, interrupted, newest, reporter>>
auth    == <<abandoned, awaited, token>>
env     == <<faults, events, crash>>
vars    == <<start, timing, exec, conn, threads, auth, env>>

Init ==
  /\ ui = "closed" /\ connectDone = "pending" /\ registered = FALSE /\ authDone = "pending"
  /\ listener = "never"
  /\ reconnecting = FALSE /\ timers = 0 /\ message = FALSE
  /\ jobs = <<>> /\ task = "idle" /\ awake = FALSE
  /\ channel = "none" /\ link = FALSE /\ mail = "none"
  /\ receiving = TRUE
  /\ rcv = [r \in Receivers |-> "none"]
  /\ interrupted = [r \in Receivers |-> FALSE]
  /\ newest = Nobody /\ reporter = Nobody
  /\ abandoned = 0 /\ awaited = FALSE /\ token = FALSE
  /\ faults = 0 /\ events = 0 /\ crash = "none"

(* channel.close(): what is under way is lost, and reads in progress throw. *)
ReadsFail == [r \in Receivers |-> IF rcv[r] = "read" THEN "failed" ELSE rcv[r]]
CloseChannel == channel' = "closed" /\ link' = FALSE /\ mail' = "none"

-----------------------------------------------------------------------------
(* The UI thread.  onCreate calls start(), which submits a ConnectTask.       *)
OnCreate ==
  /\ ui = "closed" /\ ui' = "get"
  /\ jobs' = <<"connect">>
  /\ UNCHANGED <<connectDone, registered, authDone, listener, timing, task, awake, conn, threads, auth, env>>

(* stop() dereferences the listener's task.                                  *)
DisconnectIfConnected ==
  IF channel = "connected"
  THEN /\ receiving' = FALSE
       /\ interrupted' = [interrupted EXCEPT ![newest] = (rcv[newest] # "none")]
       /\ rcv' = ReadsFail
       /\ CloseChannel
  ELSE UNCHANGED <<receiving, interrupted, rcv, conn>>

Restart ==
  /\ ui = "idle"
  /\ \/ /\ listener = "never" /\ crash' = "no listener"
        /\ UNCHANGED <<ui, connectDone, listener, jobs, receiving, interrupted, rcv, conn>>
     \/ /\ listener # "never" /\ listener' = "cancelled"
        /\ DisconnectIfConnected
        /\ jobs' = Append(jobs, "connect") /\ connectDone' = "pending" /\ ui' = "get"
        /\ UNCHANGED crash
  /\ UNCHANGED <<registered, authDone, reconnecting, timers, task, awake, newest, reporter, auth, faults>>

Event == events < MaxEvents /\ events' = events + 1

RestartBySettings ==
  /\ Event
  /\ Restart
  /\ UNCHANGED message

RestartByMessage ==
  /\ message /\ message' = FALSE
  /\ Restart
  /\ UNCHANGED events

ConnectedStillReconnecting ==  \* mutant: a failed connect leaves reconnecting set
  /\ ui = "get" /\ connectDone # "pending" /\ connectDone' = "pending"
  /\ IF connectDone = "true"
     THEN /\ ui' = "adding" /\ jobs' = Append(jobs, "authenticate")
          /\ registered' = FALSE /\ authDone' = "pending"
     ELSE ui' = "idle" /\ UNCHANGED <<jobs, registered, authDone>>
  /\ UNCHANGED <<listener, timing, task, awake, conn, threads, auth, env>>

(* result.get() of the connect returns *)
Connected ==
  /\ ui = "get" /\ connectDone # "pending" /\ connectDone' = "pending"
  /\ IF connectDone = "true"
     THEN /\ ui' = "adding" /\ jobs' = Append(jobs, "authenticate")
          /\ registered' = FALSE /\ authDone' = "pending"
          /\ UNCHANGED reconnecting
     ELSE /\ ui' = "idle" /\ reconnecting' = FALSE
          /\ UNCHANGED <<jobs, registered, authDone>>
  /\ UNCHANGED <<listener, timers, message, task, awake, conn, threads, auth, env>>

(* whenDone adds the observer, and then tests isDone() *)
AddObserver ==
  /\ ui = "adding" /\ ui' = "checking"
  /\ registered' = TRUE
  /\ UNCHANGED <<connectDone, authDone, listener, timing, exec, conn, threads, auth, env>>

ObserveSuccess ==  \* mutant: resets reconnecting only after success, not finally
  /\ listener' = IF authDone = "true" THEN "running" ELSE listener
  /\ reconnecting' = (reconnecting /\ authDone # "true")

ObserveAuthenticated ==
  /\ listener' = IF authDone = "true" THEN "running" ELSE listener
  /\ reconnecting' = FALSE

CheckDone ==
  /\ ui = "checking" /\ ui' = "idle"
  /\ IF authDone # "pending" THEN ObserveAuthenticated ELSE UNCHANGED <<listener, reconnecting>>
  /\ UNCHANGED <<connectDone, registered, authDone, timers, message, exec, conn, threads, auth, env>>

Wake ==
  /\ ui = "idle" /\ ~awake /\ awake' = TRUE
  /\ UNCHANGED <<start, timing, jobs, task, conn, threads, auth, env>>

Sleep ==
  /\ ui = "idle" /\ awake /\ awake' = FALSE
  /\ UNCHANGED <<start, timing, jobs, task, conn, threads, auth, env>>

(* cancel(true) interrupts a ping in its write, which closes the channel *)
SleepInPing ==
  /\ Event
  /\ ui = "idle" /\ awake /\ awake' = FALSE
  /\ task = "idle" /\ channel = "connected"
  /\ task' = "send failed"
  /\ CloseChannel /\ rcv' = ReadsFail
  /\ UNCHANGED <<start, timing, jobs, receiving, interrupted, newest, reporter, auth, faults, crash>>

UI == Connected \/ AddObserver \/ CheckDone \/ RestartByMessage

-----------------------------------------------------------------------------
(* MessageManager's executor.                                                *)
TakeConnect ==
  /\ task = "idle" /\ jobs # <<>> /\ Head(jobs) = "connect"
  /\ jobs' = Tail(jobs)
  /\ IF channel = "connected"
     THEN task' = "spawn" /\ connectDone' = "true" /\ UNCHANGED conn
     ELSE task' = "connect" /\ channel' = "opening" /\ UNCHANGED <<connectDone, link, mail>>
  /\ UNCHANGED <<ui, registered, authDone, listener, timing, awake, threads, auth, env>>

ConnectSpins ==  \* mutant: goes on waiting for a channel that was closed
  /\ task = "connect" /\ channel = "opening"
  /\ \/ /\ channel' = "connected" /\ link' = TRUE /\ mail' = "none"
        /\ connectDone' = "true" /\ task' = "spawn"
        /\ UNCHANGED faults
     \/ /\ faults < MaxFaults /\ faults' = faults + 1
        /\ task' = "connect failed"
        /\ UNCHANGED <<conn, connectDone>>
  /\ UNCHANGED <<ui, registered, authDone, listener, timing, jobs, awake, threads, auth, events, crash>>

Connect ==
  /\ task = "connect"
  /\ \/ /\ channel = "opening"
        /\ channel' = "connected" /\ link' = TRUE /\ mail' = "none"
        /\ connectDone' = "true" /\ task' = "spawn"
        /\ UNCHANGED faults
     \/ /\ channel = "opening" /\ faults < MaxFaults /\ faults' = faults + 1
        /\ task' = "connect failed"
        /\ UNCHANGED <<conn, connectDone>>
     \/ /\ channel = "closed"
        /\ task' = "connect failed"
        /\ UNCHANGED <<conn, connectDone, faults>>
  /\ UNCHANGED <<ui, registered, authDone, listener, timing, jobs, awake, threads, auth, events, crash>>

(* the observer of a connect that succeeded *)
Spawn ==
  /\ task = "spawn" /\ task' = "idle"
  /\ receiving' = TRUE
  /\ \E r \in Receivers :
       /\ rcv[r] = "none" /\ rcv' = [rcv EXCEPT ![r] = "loop"]
       /\ newest' = r
  /\ UNCHANGED <<start, timing, jobs, awake, conn, interrupted, reporter, auth, env>>

(* A write to a connected channel may succeed although the link is lost.     *)
Sent      == channel = "connected"
SendFails == channel = "closed" \/ (channel = "connected" /\ ~link)

TakeAuthenticate ==
  /\ task = "idle" /\ jobs # <<>> /\ Head(jobs) = "authenticate"
  /\ jobs' = Tail(jobs)
  /\ token' = FALSE
  /\ \/ /\ Sent /\ task' = "await" /\ awaited' = TRUE
        /\ mail' = IF link THEN "request" ELSE "none"
        /\ UNCHANGED abandoned
     \/ /\ SendFails /\ task' = "authenticate failed"
        /\ abandoned' = 1  \* one is as good as many
        /\ UNCHANGED <<awaited, mail>>
  /\ UNCHANGED <<start, timing, awake, channel, link, threads, env>>

(* latch.await() returns *)
Await ==
  /\ task = "await" /\ ~awaited
  /\ task' = "authenticated" /\ authDone' = IF token THEN "true" ELSE "false"
  /\ UNCHANGED <<ui, connectDone, registered, listener, timing, jobs, awake, conn, threads, auth, env>>

NotifyAuthenticated ==
  /\ task = "authenticated" /\ task' = "idle"
  /\ IF registered THEN ObserveAuthenticated ELSE UNCHANGED <<listener, reconnecting>>
  /\ UNCHANGED <<ui, connectDone, registered, authDone, timers, message, jobs, awake, conn, threads, auth, env>>

-----------------------------------------------------------------------------
(* notifyDisconnect: under the lock of disconnectObservers, its first        *)
(* observer closes whatever channel is current by now, its second schedules  *)
(* a restart and prints the reason, which is null if a receive thread left   *)
(* its loop without an exception.                                            *)
CloseCurrent(who) ==
  /\ reporter = Nobody /\ reporter' = who
  /\ CloseChannel
  /\ UNCHANGED <<start, timing, exec, receiving, interrupted, newest, auth, env>>

ScheduleRestart(reason) ==
  IF reconnecting
  THEN UNCHANGED <<reconnecting, timers, crash>>
  ELSE /\ reconnecting' = TRUE
       /\ IF reason = "null"
          THEN crash' = "null reason" /\ UNCHANGED timers
          ELSE timers' = (IF timers < MaxTimers THEN timers + 1 ELSE timers) /\ UNCHANGED crash

ReportByExecutor ==
  /\ \/ /\ task \in {"connect failed", "authenticate failed", "send failed"}
        /\ CloseCurrent(Executor) /\ rcv' = ReadsFail
     \/ /\ reporter = Executor /\ reporter' = Nobody
        /\ ScheduleRestart("exception")
        /\ task' = IF task = "authenticate failed" THEN "authenticated" ELSE "idle"
        /\ connectDone' = IF task = "connect failed" THEN "false" ELSE connectDone
        /\ authDone' = IF task = "authenticate failed" THEN "false" ELSE authDone
        /\ UNCHANGED <<ui, registered, listener, message, jobs, awake, conn, receiving, rcv,
                       interrupted, newest, auth, faults, events>>

Execute ==
  \/ TakeConnect \/ Connect \/ Spawn \/ TakeAuthenticate \/ Await \/ NotifyAuthenticated
  \/ ReportByExecutor

(* Between two pings, and before a restart, ten seconds pass, in which every *)
(* thread does what it can without waiting for the network.                  *)
Quiet ==
  /\ ((ui = "idle" /\ ~message) \/ (ui = "get" /\ connectDone = "pending"))
  /\ reporter = Nobody /\ mail = "none"
  /\ ((task = "await" /\ awaited) \/ (task = "idle" /\ jobs = <<>>))
  /\ \A r \in Receivers : rcv[r] \in {"none", "read"}

(* MessageManager's executor sends a notify or a sync response, or a ping.   *)
SendingFails ==
  /\ task = "idle" /\ SendFails
  /\ task' = "send failed"
  /\ UNCHANGED <<start, timing, jobs, awake, conn, threads, auth, faults, crash>>

PostFails == Event /\ SendingFails
PingFails == awake /\ Quiet /\ SendingFails /\ UNCHANGED events

(* ClipManager's executor *)
Timer ==
  /\ timers > 0 /\ timers' = timers - 1
  /\ Quiet
  /\ message' = TRUE
  /\ UNCHANGED <<start, reconnecting, exec, conn, threads, auth, env>>

-----------------------------------------------------------------------------
(* A receive thread.                                                         *)
Loop(r) ==
  /\ rcv[r] = "loop"
  /\ \/ /\ ~(receiving /\ channel = "connected")
        /\ rcv' = [rcv EXCEPT ![r] = "ended"]
        /\ UNCHANGED conn
     \/ /\ receiving /\ channel = "connected" /\ ~interrupted[r]
        /\ rcv' = [rcv EXCEPT ![r] = "read"]
        /\ UNCHANGED conn
     \/ /\ receiving /\ channel = "connected" /\ interrupted[r]  \* closed by interrupt
        /\ rcv' = [ReadsFail EXCEPT ![r] = "failed"]
        /\ CloseChannel
  /\ UNCHANGED <<start, timing, exec, receiving, interrupted, newest, reporter, auth, env>>

Read(r) ==
  /\ rcv[r] = "read"
  /\ \/ mail = "reply" /\ mail' = "none" /\ rcv' = [rcv EXCEPT ![r] = "reply"]
     \/ ~link /\ UNCHANGED mail /\ rcv' = [rcv EXCEPT ![r] = "failed"]
  /\ UNCHANGED <<start, timing, exec, channel, link, receiving, interrupted, newest, reporter, auth, env>>

(* a notify or a sync request of the server *)
ReadOther(r) ==
  /\ Event
  /\ rcv[r] = "read" /\ link /\ mail # "reply"
  /\ rcv' = [rcv EXCEPT ![r] = "other"]
  /\ UNCHANGED <<start, timing, exec, conn, receiving, interrupted, newest, reporter, auth, faults, crash>>

HandleOther(r) ==
  /\ rcv[r] = "other" /\ rcv' = [rcv EXCEPT ![r] = "loop"]
  /\ UNCHANGED <<start, timing, exec, conn, receiving, interrupted, newest, reporter, auth, env>>

(* the reply goes to the observer at the head of the queue *)
HandleReply(r) ==
  /\ rcv[r] = "reply" /\ rcv' = [rcv EXCEPT ![r] = "loop"]
  /\ \/ abandoned > 0 /\ abandoned' = abandoned - 1 /\ token' = TRUE /\ UNCHANGED awaited
     \/ abandoned = 0 /\ awaited /\ awaited' = FALSE /\ token' = TRUE /\ UNCHANGED abandoned
     \/ abandoned = 0 /\ ~awaited /\ UNCHANGED auth
  /\ UNCHANGED <<start, timing, exec, conn, receiving, interrupted, newest, reporter, env>>

Report(r) ==
  \/ /\ rcv[r] \in {"failed", "ended"} /\ CloseCurrent(r)
     /\ rcv' = ReadsFail
  \/ /\ reporter = r /\ reporter' = Nobody
     /\ ScheduleRestart(IF rcv[r] = "ended" THEN "null" ELSE "exception")
     /\ rcv' = [rcv EXCEPT ![r] = "none"] /\ interrupted' = [interrupted EXCEPT ![r] = FALSE]
     /\ UNCHANGED <<start, message, exec, conn, receiving, newest, auth, faults, events>>

Receive(r) == Loop(r) \/ Read(r) \/ HandleOther(r) \/ HandleReply(r) \/ Report(r)

-----------------------------------------------------------------------------
(* The server and the network.                                               *)
Reply ==
  /\ mail = "request" /\ mail' = "reply"
  /\ UNCHANGED <<start, timing, exec, channel, link, threads, auth, env>>

LoseLink ==
  /\ link /\ faults < MaxFaults /\ faults' = faults + 1
  /\ link' = FALSE
  /\ mail' \in {"none"} \cup (IF mail = "reply" THEN {"reply"} ELSE {})
  /\ UNCHANGED <<start, timing, exec, channel, threads, auth, events, crash>>

Next ==
  /\ crash = "none"
  /\ \/ OnCreate \/ UI \/ RestartBySettings \/ Wake \/ Sleep \/ SleepInPing
     \/ Execute \/ PostFails \/ PingFails \/ Timer
     \/ \E r \in Receivers : Receive(r) \/ ReadOther(r)
     \/ Reply \/ LoseLink

Spec == Init /\ [][Next]_vars

(* Every thread keeps running; the timer goes off, the heartbeat pings while *)
(* it is scheduled, and a server that can be reached replies.                *)
Going(A) == crash = "none" /\ A
Fairness ==
  /\ WF_vars(Going(UI)) /\ WF_vars(Going(Execute)) /\ SF_vars(Going(Timer))
  /\ WF_vars(Going(PingFails))
  /\ WF_vars(Going(Reply))
  /\ \A r \in Receivers : WF_vars(Going(Receive(r)))

FairSpec == Spec /\ Fairness

-----------------------------------------------------------------------------
(* Every variable has its type: where the threads are and what they have     *)
(* heard, the flags they share, what is counted, and the receive threads.    *)
StartOK ==
  /\ ui \in {"closed", "idle", "get", "adding", "checking"}
  /\ connectDone \in {"pending", "true", "false"} /\ authDone \in {"pending", "true", "false"}
  /\ listener \in {"never", "running", "cancelled"}

ServiceOK ==
  /\ task \in {"idle", "connect", "connect failed", "spawn", "await", "authenticate failed",
               "authenticated", "send failed"}
  /\ channel \in {"none", "opening", "connected", "closed"}
  /\ mail \in {"none", "request", "reply"}
  /\ newest \in Receivers \cup {Nobody} /\ reporter \in Receivers \cup {Nobody, Executor}
  /\ crash \in {"none", "no listener", "null reason"}

FlagsOK ==
  /\ registered \in BOOLEAN /\ reconnecting \in BOOLEAN /\ message \in BOOLEAN
  /\ awake \in BOOLEAN /\ link \in BOOLEAN /\ receiving \in BOOLEAN
  /\ awaited \in BOOLEAN /\ token \in BOOLEAN

BoundsOK ==
  /\ timers \in 0..MaxTimers /\ abandoned \in 0..1
  /\ faults \in 0..MaxFaults /\ events \in 0..MaxEvents

ReceiversOK ==
  /\ rcv \in [Receivers -> {"none", "loop", "read", "other", "reply", "failed", "ended"}]
  /\ interrupted \in [Receivers -> BOOLEAN]

TypeOK ==
  /\ StartOK /\ ServiceOK /\ FlagsOK /\ BoundsOK /\ ReceiversOK
  /\ jobs \in {<<>>, <<"connect">>, <<"authenticate">>, <<"authenticate", "connect">>}

(* While reconnecting is set, which keeps notifyDisconnect from scheduling a *)
(* restart, a restart is on its way, or under way and will clear it.         *)
ReconnectingEnds ==
  reconnecting =>
    \/ timers > 0 \/ message
    \/ ui # "idle"
    \/ jobs # <<>> \/ task \in {"await", "authenticate failed", "authenticated"}
    \/ crash # "none"

(* The session is up. *)
Up ==
  /\ channel = "connected" /\ link /\ token
  /\ listener = "running"
  /\ rcv[newest] = "read"

(* A task waits for a reply that cannot come any more. *)
Stuck ==
  /\ task = "await" /\ awaited /\ mail = "none"
  /\ \A r \in Receivers : rcv[r] # "reply"

(* While the heartbeat runs the session always comes up again, unless the    *)
(* application crashes or an authentication waits for a lost reply for ever. *)
RecoversUnlessStuck == <>[]awake => []<>(Up \/ Stuck \/ crash # "none")

(* start() blocks the UI thread in result.get(): for ever only behind such a *)
(* task, or if the application crashes.                                      *)
BlockedOnlyIfStuck == []<>(ui # "get" \/ Stuck \/ crash # "none")

(* An authentication is asked for, or under way. *)
Authenticating ==
  \/ jobs \in {<<"authenticate">>, <<"authenticate", "connect">>}
  \/ task \in {"await", "authenticate failed", "authenticated"}

(* A start is followed by one connect and then by one authentication, whose  *)
(* observer nobody replaces before it was told.                              *)
StartsAreFollowed ==
  /\ ui = "closed" => jobs = <<>> /\ connectDone = "pending"
  /\ ui = "get" =>
       \/ connectDone # "pending" /\ jobs = <<>> /\ ~Authenticating
       \/ /\ connectDone = "pending"
          /\ \/ jobs \in {<<"connect">>, <<"authenticate", "connect">>}
             \/ jobs = <<>> /\ task \in {"connect", "connect failed"}
  /\ ui \in {"adding", "checking", "idle"} =>
       connectDone = "pending" /\ jobs \in {<<>>, <<"authenticate">>}
  /\ task \in {"connect", "connect failed"} => ui = "get" /\ connectDone = "pending" /\ jobs = <<>>
  /\ Authenticating /\ ~registered => ui = "adding"
  /\ ui \in {"adding", "checking"} /\ authDone = "pending" =>
       jobs = <<"authenticate">> \/ task \in {"await", "authenticate failed"}
  /\ jobs \in {<<"authenticate">>, <<"authenticate", "connect">>} =>
       task \in {"idle", "spawn", "send failed"}
  /\ reporter = Executor => task \in {"connect failed", "authenticate failed", "send failed"}

(* The session's variables are of their types, a start is followed to its    *)
(* end, and so is a reconnect.                                               *)
ReconnectingIsKept == TypeOK /\ StartsAreFollowed /\ ReconnectingEnds
=============================================================================
