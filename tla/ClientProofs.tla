---------------------------- MODULE ClientProofs ----------------------------
(***************************************************************************)
(* What the clients that MCClipSession plays promise: the Windows client,  *)
(* the Android sync client, the clip buffer and the asset provider, for    *)
(* any callers, contents, texts, urls and bounds; and the Android session, *)
(* for any receive threads and bounds.  They share no state.               *)
(***************************************************************************)
EXTENDS MCClipSession, Functions, FiniteSetTheorems, SequenceTheorems, TLAPS

-----------------------------------------------------------------------------
(* Assets: the property with types, and where the constructor has got to.    *)
Replies == [url : Accepted, how : {"active", "complete", "failed"}]
AssetsTypeOK ==
  /\ as_gets \in Seq(Replies) /\ as_progress \in [Accepted -> Nat]
  /\ as_asked \in Nat /\ as_futures \in Seq(Nat) /\ as_listeners \in Seq(Nat)
ListenersFollow ==
  \/ Len(as_listeners) = Len(as_futures)
  \/ /\ as_at = "new" /\ Len(as_futures) = Len(as_listeners) + 1
     /\ Ids[as_asked] \in Accepted /\ as_progress[Ids[as_asked]] # Assets!None
     /\ as_progress[Ids[as_asked]] = as_futures[Len(as_futures)]
ProviderFinds ==
  /\ \A k \in DOMAIN as_gets : as_gets[k].how = "active" <=> as_progress[as_gets[k].url] = k
  /\ \A u \in Accepted : as_progress[u] # Assets!None =>
       as_progress[u] \in DOMAIN as_gets /\ as_gets[as_progress[u]].url = u
AssetsAreShared ==
  /\ AssetsTypeOK /\ ListenersFollow /\ ProviderFinds
  /\ \A i \in DOMAIN as_listeners : as_listeners[i] = as_futures[i]

-----------------------------------------------------------------------------
(* Sync client: the types; the daemon has no queue it has not given out.     *)
SyncTypeOK ==
  /\ sc_created \in Nat /\ sc_queues \subseteq 1..sc_created /\ sc_eventQueue \in 0..sc_created
  /\ sc_executor \in {"idle", "destroyed", "forgotten"}
  /\ sc_thread \in {"new", "test", "ask", "wait", "deliver", "ended", "dead"}

(* Until a destroy begins, the thread has been started if there is a queue   *)
(* and only then; and a destroy has taken the queue from the daemon.         *)
StartedWithQueue ==
  /\ ~sc_destroyed => sc_executor = "idle" /\ (sc_eventQueue = 0 <=> sc_thread = "new")
  /\ sc_executor = "destroyed" => sc_queues = {}

QueuesAreKnown == SyncTypeOK /\ StartedWithQueue /\ QueueIsShared

-----------------------------------------------------------------------------
(* Clips: types.  *)
Known == cb_deleted \cup cb_files \cup Range(cb_buffer)
BookTypeOK ==
  /\ cb_made \in Nat /\ cb_buffer \in Seq(Clipbook!Clips) /\ IsInjective(cb_buffer)
  /\ cb_files \subseteq Clipbook!Clips /\ IsFiniteSet(cb_files)
  /\ cb_deleted \subseteq Clipbook!Clips /\ cb_echoed \subseteq Clipbook!Clips
  /\ cb_adding \in {<<>>} \cup (Clipbook!Clips \X Nat)
  /\ cb_arriving \in Clipbook!Clips \cup {Clipbook!NoClip} /\ cb_clipboard \in Texts \cup {""}
  /\ \A c \in Known : c.id <= cb_made

(* A clip on its way to the buffer is nowhere else and of its kind; the      *)
(* text of a remote one in the buffer is in the cache, or the clip on disk.  *)
OnTheirWay ==
  /\ cb_adding # <<>> => /\ ~cb_adding[1].remote /\ cb_adding[1] \notin Known
                         /\ cb_adding[1].id <= cb_made
  /\ cb_arriving # Clipbook!NoClip => /\ cb_arriving.remote /\ cb_arriving.text \in cb_cache
                                      /\ cb_arriving.id <= cb_made /\ cb_arriving \notin Known
RemoteIsCached ==
  \A c \in Range(cb_buffer) : c.remote => c.text \in cb_cache \/ c \in cb_files

ClipsAreKept ==
  BookTypeOK /\ cb_persistence = cb_files /\ OnTheirWay /\ RemoteIsCached /\ ClipsGoOneWay

-----------------------------------------------------------------------------
(* Windows: the types.  *)
Places == {"none", "delay", "connect", "failed", "auth", "sending", "early", "waiting", "over",
           "thrown"}
SyncPlaces == {"idle", "sending", "early", "waiting", "served", "null"}
Steps == {"none", "called", "passed", "false", "thrown"} \cup Windows!Owning
Buffers == Windows!Tasks \cup {Windows!Null, Windows!Kept}
Answers ==
  {Windows!NoAnswer}
    \cup [to : Contents, has : BOOLEAN, step : {"responding", "content", "sending"}]
WindowsTypeOK ==
  /\ win_attempt \in Windows!Attempts /\ win_scheduling \in Nat
       /\ win_pc \in [Windows!Attempts -> Places]
  /\ win_sends \in [Windows!Tasks -> Steps] /\ win_sendbuf \in Buffers /\ win_io \in Buffers
  /\ win_rpchandler \in [{"auth", "sync"} -> Seq(Windows!Attempts \cup Callers)]
  /\ win_rpchandler["auth"] \in Seq(Windows!Attempts) /\ win_rpchandler["sync"] \in Seq(Callers)
  /\ win_mail \subseteq Windows!Requests
  /\ win_sync \in [Callers -> SyncPlaces] /\ win_answer \in Answers /\ win_faults \in Nat

(* Windows: one reconnect at a time, and the flag is set for as long as it   *)
(* goes on.                                                                  *)
Before == {"none", "delay", "connect", "failed", "auth"}
Ended == {"none", "over", "thrown"}
AttemptsInTurn ==
  /\ win_scheduling > 0 => ~win_reconnecting
  /\ \A a \in Windows!Attempts : a > win_attempt => win_pc[a] = "none"
  /\ \A a \in Windows!Attempts \ {0} : win_pc[a] \notin Ended => win_reconnecting /\ a = win_attempt

(* Windows: a reconnect that has got through is connected or has ignored a   *)
(* Disconnected, one that has failed has yet to raise it or ignored it.      *)
Down ==
  /\ Windows!DownOnlyIfIgnored
  /\ \A a \in Windows!Attempts \ {0} :
       /\ win_pc[a] \in {"auth", "sending", "early", "waiting"} => win_connected \/ win_ignored
       /\ win_pc[a] = "failed" => win_failing \/ win_ignored

(* Windows: without a fault of the network there is a link, or the first     *)
(* attempt has not connected and nothing has been sent.                      *)
FreshLink ==
  /\ win_faults = 0 /\ ~win_link =>
       /\ win_pc[0] \in {"none", "connect"} /\ win_attempt = 0 /\ win_scheduling = 0
       /\ ~win_connected /\ ~win_receiving /\ ~win_pinging
       /\ win_io = Windows!Null /\ win_answer = Windows!NoAnswer
            /\ \A m \in Windows!Tasks : win_sends[m] = "none"
  /\ win_failing => win_faults > 0

(* Windows: until two tasks have passed the test, one at a time is beyond    *)
(* it; until two have overlapped, what is sent is what is in sendbuf, and    *)
(* the system sends it all.                                                  *)
Beyond == {"passed"} \cup Windows!Owning
Raceless ==
  \/ win_raced
  \/ /\ \A m, n \in Windows!Tasks : win_sends[m] \in Beyond /\ win_sends[n] \in Beyond => m = n
     /\ \A m \in Windows!Tasks : win_sends[m] = "passed" => win_sendbuf = Windows!Null
OneOwner ==
  \/ win_overlapped
  \/ /\ win_io # Windows!Null => win_io = win_sendbuf
     /\ win_io # Windows!Null \/ win_sendsignal => win_sendbuf \in Windows!Tasks
     /\ \A m \in Windows!Tasks : win_sends[m] \in {"header", "data"} => win_sendbytes = 0
Turns == Windows!SendsTakeTurns /\ Raceless /\ OneOwner

(* Windows: a reply is under way to a call that has been made and whose      *)
(* message has been sent; and for every message that is still to be sent, as *)
(* for every reply, there is a handler.                                      *)
Unsent == {"called", "passed", "header", "data"}
Began(m) == \/ \E a \in Windows!Attempts : m = <<"auth", a>> /\ win_pc[a] \notin Before
            \/ \E c \in Callers : m = <<"sync", c>> /\ win_sync[c] # "idle"
Pending(kind) ==
  {m \in Windows!Requests : m[1] = kind
    /\ (m \in win_mail \/ win_io = m \/ win_sends[m] \in Unsent)}
Replied ==
  win_overlapped \/ \A m \in win_mail : Began(m) /\ win_io # m /\ win_sends[m] \notin Unsent
Suffice ==
  win_overlapped \/ \A kind \in {"auth", "sync"} :
    IsFiniteSet(Pending(kind)) /\ Cardinality(Pending(kind)) <= Len(win_rpchandler[kind])

(* The inductive invariant of the Windows client. *)
SessionIsUp == AttemptsInTurn /\ Down
HandlersSuffice == Replied /\ Suffice
WindowsIsUp ==
  WindowsTypeOK /\ SessionIsUp /\ FreshLink /\ Turns /\ Windows!CallersWaitForTheirs
    /\ HandlersSuffice

-----------------------------------------------------------------------------
LEMMA ElementsOf ==
  ASSUME NEW S, NEW q \in Seq(S), NEW k \in DOMAIN q PROVE q[k] \in S /\ k \in Nat \ {0}
OBVIOUS

(* What a request finds or makes the next one for the url will find.         *)
LEMMA RequestFinds ==
  ASSUME AssetsTypeOK, ProviderFinds, NEW u \in Accepted, Assets!Request(u)
  PROVE  /\ as_gets' \in Seq(Replies) /\ as_progress' \in [Accepted -> Nat] /\ ProviderFinds'
         /\ as_progress'[u] # Assets!None
         /\ as_progress[u] # Assets!None => as_progress'[u] = as_progress[u]
<1> DEFINE S == Replies
           r == [url |-> u, how |-> "active"]
<1>1. as_gets \in Seq(S) /\ as_progress \in [Accepted -> Nat] /\ r \in S
  BY DEF AssetsTypeOK, Replies
<1>2. CASE as_progress[u] # Assets!None
  <2>1. as_gets' = as_gets /\ as_progress' = as_progress
    BY <1>1, <1>2 DEF Assets!Request
  <2> QED BY <1>1, <1>2, <2>1 DEF ProviderFinds
<1>3. CASE as_progress[u] = Assets!None
  <2>1. as_gets' = Append(as_gets, r) /\ as_progress' = [as_progress EXCEPT ![u] = Len(as_gets')]
    BY <1>3 DEF Assets!Request, Assets!Get
  <2> HIDE DEF S
  <2>2. /\ as_gets' \in Seq(S) /\ Len(as_gets) \in Nat /\ Len(as_gets') = Len(as_gets) + 1
        /\ as_gets'[Len(as_gets) + 1] = r
        /\ \A k \in 1..Len(as_gets) : as_gets'[k] = as_gets[k]
        /\ DOMAIN as_gets = 1..Len(as_gets) /\ DOMAIN as_gets' = 1..(Len(as_gets) + 1)
    BY <1>1, <2>1
  <2>3. /\ as_progress' \in [Accepted -> Nat] /\ as_progress'[u] = Len(as_gets) + 1
        /\ \A v \in Accepted : v # u => as_progress'[v] = as_progress[v]
    BY <1>1, <2>1, <2>2
  <2>4. \A k \in 1..Len(as_gets) : as_gets[k] \in Replies
    BY <1>1, <2>2 DEF S
  <2>5. ASSUME NEW k \in DOMAIN as_gets'
        PROVE  as_gets'[k].how = "active" <=> as_progress'[as_gets'[k].url] = k
    <3>1. CASE k = Len(as_gets) + 1
      BY <2>2, <2>3, <3>1
    <3>2. CASE k \in 1..Len(as_gets)
      <4>1. as_gets'[k] = as_gets[k] /\ as_gets[k].url \in Accepted
        BY <2>2, <2>4, <3>2 DEF Replies
      <4>2. CASE as_gets[k].url = u
        BY <1>3, <2>2, <2>3, <3>2, <4>1, <4>2 DEF ProviderFinds, Assets!None
      <4> QED BY <2>2, <2>3, <3>2, <4>1, <4>2 DEF ProviderFinds
    <3> QED BY <2>2, <2>5, <3>1, <3>2
  <2>6. ASSUME NEW v \in Accepted, as_progress'[v] # Assets!None
        PROVE  as_progress'[v] \in DOMAIN as_gets' /\ as_gets'[as_progress'[v]].url = v
    BY <2>2, <2>3, <2>6 DEF ProviderFinds
  <2> QED BY <1>3, <2>2, <2>3, <2>5, <2>6 DEF S, ProviderFinds, Assets!None
<1> QED BY <1>2, <1>3

LEMMA ReplyEndsOnce ==
  ASSUME AssetsAreShared, NEW k \in DOMAIN as_gets, NEW how \in {"failed", "complete"},
         Assets!ReplyEnds(k, how)
  PROVE  AssetsAreShared'
<1> DEFINE u == as_gets[k].url
<1>1. as_gets \in Seq(Replies) /\ as_progress \in [Accepted -> Nat]
  BY DEF AssetsAreShared, AssetsTypeOK
<1>2. u \in Accepted /\ as_gets[k] \in Replies /\ k \in Nat \ {0} /\ as_gets[k].how = "active"
  <2>1. as_gets[k] \in Replies /\ k \in Nat \ {0}
    BY <1>1, ElementsOf
  <2> QED BY <2>1 DEF Assets!ReplyEnds, Replies
<1>3. as_progress[u] = k
  BY <1>2 DEF AssetsAreShared, ProviderFinds
<1>4. /\ as_gets' = [as_gets EXCEPT ![k].how = how]
      /\ as_progress' = [as_progress EXCEPT ![u] = Assets!None]
      /\ UNCHANGED <<as_asked, as_futures, as_listeners, as_at>> /\ as_at # "new"
  BY DEF Assets!ReplyEnds, Assets!test
<1> HIDE DEF u
<1>5. /\ DOMAIN as_gets' = DOMAIN as_gets /\ Len(as_gets') = Len(as_gets)
      /\ as_gets' \in Seq(Replies)
      /\ \A j \in DOMAIN as_gets : as_gets'[j].url = as_gets[j].url
      /\ \A j \in DOMAIN as_gets : j # k => as_gets'[j] = as_gets[j]
      /\ as_gets'[k].how = how
  BY <1>1, <1>2, <1>4 DEF Replies
<1>6. /\ as_progress' \in [Accepted -> Nat] /\ as_progress'[u] = 0
      /\ \A v \in Accepted : v # u => as_progress'[v] = as_progress[v]
  BY <1>1, <1>2, <1>4 DEF Assets!None
<1>7. \A j \in DOMAIN as_gets : as_gets[j].url \in Accepted /\ j \in Nat \ {0}
  <2>1. \A j \in DOMAIN as_gets : as_gets[j] \in Replies /\ j \in Nat \ {0}
    BY <1>1, ElementsOf
  <2> QED BY <2>1 DEF Replies
<1>8. ASSUME NEW j \in DOMAIN as_gets
      PROVE  as_gets'[j].how = "active" <=> as_progress'[as_gets'[j].url] = j
  <2>1. CASE j = k
    BY <1>2, <1>5, <1>6, <2>1 DEF u
  <2>2. CASE j # k /\ as_gets[j].url = u
    BY <1>3, <1>5, <1>6, <1>7, <2>2 DEF AssetsAreShared, ProviderFinds
  <2>3. CASE j # k /\ as_gets[j].url # u
    BY <1>5, <1>6, <1>7, <2>3 DEF AssetsAreShared, ProviderFinds
  <2> QED BY <2>1, <2>2, <2>3
<1>9. ASSUME NEW v \in Accepted, as_progress'[v] # Assets!None
      PROVE  as_progress'[v] \in DOMAIN as_gets' /\ as_gets'[as_progress'[v]].url = v
  BY <1>5, <1>6, <1>9 DEF AssetsAreShared, ProviderFinds, Assets!None
<1> QED BY <1>4, <1>5, <1>6, <1>8, <1>9
    DEF AssetsAreShared, AssetsTypeOK, ListenersFollow, ProviderFinds

LEMMA AssetsStep == AssetsAreShared /\ [Assets!Next]_Assets!vars => AssetsAreShared'
<1> SUFFICES ASSUME AssetsAreShared, [Assets!Next]_Assets!vars PROVE AssetsAreShared'
  OBVIOUS
<1>1. CASE Assets!MakeFuture
  <2> DEFINE u == Ids[as_asked + 1]
  <2>1. CASE u \in Accepted /\ Assets!Request(u) /\ as_futures' = Append(as_futures, as_progress'[u])
    <3>1. /\ as_gets' \in Seq(Replies) /\ as_progress' \in [Accepted -> Nat] /\ ProviderFinds'
          /\ as_progress'[u] # Assets!None
      BY <2>1, RequestFinds DEF AssetsAreShared
    <3>2. as_at' = "new" /\ as_asked' = as_asked + 1 /\ UNCHANGED as_listeners
            /\ Len(as_listeners) = Len(as_futures)
      BY <1>1 DEF Assets!MakeFuture
    <3> HIDE DEF u
    <3>3. /\ as_futures' \in Seq(Nat) /\ Len(as_futures') = Len(as_futures) + 1
          /\ as_futures'[Len(as_futures')] = as_progress'[u]
          /\ \A i \in DOMAIN as_futures : as_futures'[i] = as_futures[i]
          /\ DOMAIN as_listeners = DOMAIN as_futures
      BY <2>1, <3>1, <3>2 DEF AssetsAreShared, AssetsTypeOK
    <3>4. u = Ids[as_asked']
      BY <3>2 DEF u
    <3>5. as_asked' \in Nat /\ as_listeners' \in Seq(Nat)
            /\ \A i \in DOMAIN as_listeners' : as_listeners'[i] = as_futures'[i]
      BY <3>2, <3>3 DEF AssetsAreShared, AssetsTypeOK
    <3>6. ListenersFollow'
      BY <2>1, <3>1, <3>2, <3>3, <3>4 DEF ListenersFollow
    <3> QED BY <3>1, <3>3, <3>5, <3>6 DEF AssetsAreShared, AssetsTypeOK
  <2>2. CASE UNCHANGED <<Assets!provider, as_futures>>
    BY <1>1, <2>2 DEF Assets!MakeFuture, Assets!provider, AssetsAreShared, AssetsTypeOK,
                      ListenersFollow, ProviderFinds
  <2> QED BY <1>1, <2>1, <2>2 DEF Assets!MakeFuture
<1>2. CASE Assets!MakeListener
  <2> DEFINE u == Ids[as_asked]
  <2>1. /\ as_at = "new" /\ Len(as_futures) = Len(as_listeners) + 1 /\ u \in Accepted
        /\ as_progress[u] # Assets!None /\ as_progress[u] = as_futures[Len(as_futures)]
    BY <1>2 DEF Assets!MakeListener, AssetsAreShared, AssetsTypeOK, ListenersFollow
  <2>2. /\ as_gets' \in Seq(Replies) /\ as_progress' \in [Accepted -> Nat] /\ ProviderFinds'
        /\ as_progress'[u] = as_progress[u]
    BY <1>2, <2>1, RequestFinds DEF AssetsAreShared, Assets!MakeListener
  <2>3. as_listeners' = Append(as_listeners, as_progress'[u])
        /\ UNCHANGED <<as_at, as_asked, as_futures>>
    BY <1>2 DEF Assets!MakeListener
  <2> HIDE DEF u
  <2>4. /\ as_listeners' \in Seq(Nat) /\ Len(as_listeners') = Len(as_futures)
        /\ \A i \in DOMAIN as_listeners : as_listeners'[i] = as_listeners[i]
        /\ DOMAIN as_listeners' = DOMAIN as_listeners \cup {Len(as_futures)}
        /\ as_listeners'[Len(as_futures)] = as_futures[Len(as_futures)]
    BY <2>1, <2>2, <2>3 DEF AssetsAreShared, AssetsTypeOK
  <2> QED BY <2>2, <2>3, <2>4 DEF AssetsAreShared, AssetsTypeOK, ListenersFollow
<1>3. CASE Assets!Go \/ Assets!EventLoop \/ UNCHANGED Assets!vars
  <2>1. UNCHANGED <<Assets!provider, Assets!test>>
          /\ (as_at' = as_at \/ Len(as_listeners) = Len(as_futures))
    BY <1>3 DEF Assets!Go, Assets!EventLoop, Assets!Update, Assets!TimerEvent,
                Assets!WaiterReturns, Assets!BeginWait, Assets!vars, Assets!provider,
                Assets!test, AssetsAreShared, ListenersFollow
  <2> QED BY <2>1 DEF Assets!provider, Assets!test, AssetsAreShared, AssetsTypeOK,
                      ListenersFollow, ProviderFinds
<1>4. CASE \E k \in DOMAIN as_gets : Assets!Fails(k) \/ Assets!Finishes(k)
  BY <1>4, ReplyEndsOnce DEF Assets!Fails, Assets!Finishes
<1> QED BY <1>1, <1>2, <1>3, <1>4 DEF Assets!Next

(* A listener hears of the reply that its future waits for, and the provider  *)
(* finds the replies under way, one for a url, and none that has ended, for   *)
(* any ids and whatever the network does.                                     *)
THEOREM RepliesAreShared == Assets!Spec => []SharedWhileInProgress
<1>1. Assets!Init => AssetsAreShared
  BY DEF Assets!Init, AssetsAreShared, AssetsTypeOK, ListenersFollow, ProviderFinds, Replies,
         Assets!None
<1>2. AssetsAreShared => SharedWhileInProgress
  BY DEF AssetsAreShared, ProviderFinds, SharedWhileInProgress, Assets!SharedWhileInProgress
<1> QED BY <1>1, <1>2, AssetsStep, PTL DEF Assets!Spec

-----------------------------------------------------------------------------
LEMMA SyncStep ==
  ASSUME QueuesAreKnown, [SyncClients!Next]_SyncClients!vars PROVE QueuesAreKnown'
<1> USE DEF QueuesAreKnown, SyncTypeOK, StartedWithQueue, QueueIsShared,
            SyncClients!NullOnlyAfterDestroy, SyncClients!HandleIsLive
<1>1. CASE SyncClients!OnServiceConnected \/ SyncClients!OnServiceDisconnected
           \/ (\E kind \in {"create", "destroy", "query", "enable"} : SyncClients!Post(kind))
           \/ SyncClients!QuerySystemState \/ SyncClients!CallDaemon
           \/ SyncClients!DaemonQueuesEvent \/ UNCHANGED SyncClients!vars
  BY <1>1 DEF SyncClients!OnServiceConnected, SyncClients!OnServiceDisconnected,
              SyncClients!Post, SyncClients!QuerySystemState, SyncClients!CallDaemon,
              SyncClients!Begins, SyncClients!DaemonQueuesEvent, SyncClients!daemon,
              SyncClients!dispatcher, SyncClients!vars
<1>2. CASE SyncClients!CreateEventQueue
  <2>1. CASE UNCHANGED <<sc_eventQueue, sc_queues, sc_created, sc_thread>>
    BY <1>2, <2>1 DEF SyncClients!CreateEventQueue, SyncClients!Begins
  <2>2. CASE /\ sc_eventQueue = 0 /\ sc_created' = sc_created + 1
                  /\ sc_queues' = sc_queues \cup {sc_created + 1}
             /\ sc_eventQueue' = sc_created + 1
             /\ sc_thread' = IF sc_thread = "new" THEN "test" ELSE sc_thread
    <3>1. sc_queues = {} /\ sc_executor' = sc_executor /\ sc_destroyed' = sc_destroyed
            /\ sc_executor = "idle"
      BY <1>2, <2>2 DEF SyncClients!CreateEventQueue, SyncClients!Begins
    <3> QED BY <2>2, <3>1
  <2> QED BY <1>2, <2>1, <2>2 DEF SyncClients!CreateEventQueue
<1>3. CASE SyncClients!DestroyEventQueue
  <2>1. /\ sc_executor = "idle" /\ UNCHANGED <<sc_eventQueue, sc_created, sc_thread>>
        /\ \/ UNCHANGED <<sc_queues, sc_executor, sc_destroyed>>
           \/ sc_executor' = "destroyed" /\ sc_destroyed'
                /\ sc_queues' = sc_queues \ {sc_eventQueue}
    BY <1>3 DEF SyncClients!DestroyEventQueue, SyncClients!Begins, SyncClients!dispatcher
  <2>2. CASE UNCHANGED <<sc_queues, sc_executor, sc_destroyed>>
    BY <2>1, <2>2
  <2>3. CASE sc_executor' = "destroyed" /\ sc_destroyed' /\ sc_queues' = sc_queues \ {sc_eventQueue}
    <3>1. sc_queues' = {}
      BY <2>3
    <3> QED BY <2>1, <2>3, <3>1
  <2> QED BY <2>1, <2>2, <2>3
<1>4. CASE SyncClients!DestroyForgets \/ SyncClients!DestroyInterrupts
  <2>1. /\ UNCHANGED <<sc_queues, sc_created, sc_thread, sc_destroyed>>
        /\ \/ sc_executor = "destroyed" /\ sc_executor' = "forgotten" /\ sc_eventQueue' = 0
           \/ sc_executor = "forgotten" /\ sc_executor' = "idle" /\ UNCHANGED sc_eventQueue
    BY <1>4 DEF SyncClients!DestroyForgets, SyncClients!DestroyInterrupts, SyncClients!daemon,
                SyncClients!dispatcher
  <2> QED BY <2>1
<1>5. CASE SyncClients!DispatchThread
  BY <1>5 DEF SyncClients!DispatchThread, SyncClients!DispatchTests, SyncClients!DispatchAsks,
              SyncClients!DispatchAnswered, SyncClients!Dispatch, SyncClients!daemon
<1> QED BY <1>1, <1>2, <1>3, <1>4, <1>5 DEF SyncClients!Next

(* For any bounds: the dispatch thread is never started without a queue, and *)
(* client and daemon agree about the queue there is.                         *)
THEOREM QueuesAreShared == SyncClients!Spec => []QueueIsShared
<1>1. SyncClients!Init => QueuesAreKnown
  <2> SUFFICES ASSUME SyncClients!Init PROVE QueuesAreKnown
    OBVIOUS
  <2> USE DEF SyncClients!Init
  <2>1. SyncTypeOK /\ SyncClients!HandleIsLive
    BY DEF SyncTypeOK, SyncClients!HandleIsLive
  <2>2. StartedWithQueue /\ SyncClients!NullOnlyAfterDestroy
    BY DEF StartedWithQueue, SyncClients!NullOnlyAfterDestroy
  <2> QED BY <2>1, <2>2 DEF QueuesAreKnown, QueueIsShared
<1>2. QueuesAreKnown /\ [SyncClients!Next]_SyncClients!vars => QueuesAreKnown'
  BY SyncStep
<1>3. QueuesAreKnown => QueueIsShared
  BY DEF QueuesAreKnown
<1> QED BY <1>1, <1>2, <1>3, PTL DEF SyncClients!Spec

-----------------------------------------------------------------------------
(* A sequence whose elements are those of another at different places. *)
LEMMA Picked ==
  ASSUME NEW S, NEW s \in Seq(S), IsInjective(s), NEW t \in Seq(S),
         NEW p \in [1..Len(t) -> 1..Len(s)],
         \A i, j \in 1..Len(t) : i # j => p[i] # p[j],
         \A j \in 1..Len(t) : t[j] = s[p[j]]
  PROVE  IsInjective(t) /\ Range(t) \subseteq Range(s)
<1>1. DOMAIN s = 1..Len(s) /\ DOMAIN t = 1..Len(t)
  BY LenProperties
<1>2. IsInjective(t)
  <2> SUFFICES ASSUME NEW i \in 1..Len(t), NEW j \in 1..Len(t), t[i] = t[j] PROVE i = j
    BY <1>1, Zenon DEF IsInjective
  <2>1. p[i] \in DOMAIN s /\ p[j] \in DOMAIN s /\ s[p[i]] = s[p[j]]
    BY <1>1
  <2>2. p[i] = p[j]
    BY <2>1, Zenon DEF IsInjective
  <2> QED BY <2>2
<1>3. Range(t) \subseteq Range(s)
  BY <1>1 DEF Range
<1> QED BY <1>2, <1>3

LEMMA SliceOnce ==
  ASSUME NEW S, NEW s \in Seq(S), IsInjective(s),
         NEW m \in Nat \ {0}, NEW n \in Nat, n <= Len(s)
  PROVE  /\ SubSeq(s, m, n) \in Seq(S) /\ IsInjective(SubSeq(s, m, n))
         /\ Range(SubSeq(s, m, n)) \subseteq Range(s)
<1> DEFINE t == SubSeq(s, m, n)
           p == [j \in 1..Len(t) |-> m + j - 1]
<1>1. Len(s) \in Nat /\ \A i \in 1..Len(s) : s[i] \in S
  BY LenProperties
<1>2. \A i \in m..n : s[i] \in S
  BY <1>1
<1>3. /\ t \in Seq(S) /\ Len(t) = IF m <= n THEN n - m + 1 ELSE 0
      /\ \A i \in 1..n - m + 1 : t[i] = s[m + i - 1]
  BY <1>2, SubSeqProperties
<1> HIDE DEF t
<1>4. \A j \in 1..Len(t) : m + j - 1 \in 1..Len(s) /\ t[j] = s[m + j - 1]
  <2>1. \A j \in 1..Len(t) : j \in Nat /\ j \in 1..n - m + 1 /\ m <= n
    BY <1>3
  <2>2. \A j \in 1..Len(t) : m + j - 1 \in 1..Len(s)
    BY <1>1, <2>1
  <2> QED BY <1>3, <2>1, <2>2
<1>5. /\ p \in [1..Len(t) -> 1..Len(s)] /\ \A j \in 1..Len(t) : t[j] = s[p[j]]
      /\ \A i, j \in 1..Len(t) : i # j => p[i] # p[j]
  BY <1>4
<1> HIDE DEF p
<1>6. IsInjective(t) /\ Range(t) \subseteq Range(s)
  BY <1>3, <1>5, Picked
<1> QED BY <1>3, <1>6 DEF t

LEMMA AppendedOnce ==
  ASSUME NEW S, NEW s \in Seq(S), IsInjective(s), NEW x \in S, x \notin Range(s)
  PROVE  /\ Append(s, x) \in Seq(S) /\ IsInjective(Append(s, x))
         /\ Range(Append(s, x)) = Range(s) \cup {x}
<1> DEFINE t == Append(s, x)
<1>1. /\ t \in Seq(S) /\ Len(t) = Len(s) + 1 /\ t[Len(s) + 1] = x
      /\ \A i \in 1..Len(s) : t[i] = s[i]
  BY AppendProperties
<1>2. /\ Len(s) \in Nat /\ DOMAIN s = 1..Len(s)
  BY LenProperties
<1> HIDE DEF t
<1>3. DOMAIN t = 1..Len(s) + 1
  BY <1>1, LenProperties
<1>4. \A i \in 1..Len(s) + 1 : i \in 1..Len(s) \/ i = Len(s) + 1
  BY <1>2
<1>5. 1..Len(s) \subseteq 1..Len(s) + 1 /\ Len(s) + 1 \in 1..Len(s) + 1
  BY <1>2
<1>6. \A i \in 1..Len(s) : t[i] # x
  BY <1>1, <1>2 DEF Range
<1>7. IsInjective(t)
  <2> SUFFICES ASSUME NEW i \in 1..Len(s) + 1, NEW j \in 1..Len(s) + 1, t[i] = t[j] PROVE i = j
    BY <1>3, Zenon DEF IsInjective
  <2>1. CASE i \in 1..Len(s) /\ j \in 1..Len(s)
    BY <1>1, <1>2, <2>1 DEF IsInjective
  <2> QED BY <1>1, <1>4, <1>6, <2>1
<1>8. Range(t) = Range(s) \cup {x}
  BY <1>1, <1>2, <1>3, <1>4, <1>5 DEF Range
<1> QED BY <1>1, <1>7, <1>8 DEF t

LEMMA RemovedOnce ==
  ASSUME NEW S, NEW s \in Seq(S), IsInjective(s), NEW i \in 1..Len(s)
  PROVE  /\ Clipbook!RemoveAt(s, i) \in Seq(S) /\ IsInjective(Clipbook!RemoveAt(s, i))
         /\ Range(Clipbook!RemoveAt(s, i)) \subseteq Range(s) \ {s[i]}
<1> DEFINE l == SubSeq(s, 1, i - 1)
           r == SubSeq(s, i + 1, Len(s))
           t == l \o r
           p == [j \in 1..Len(t) |-> IF j < i THEN j ELSE j + 1]
<1>1. /\ Len(s) \in Nat /\ DOMAIN s = 1..Len(s) /\ i \in Nat /\ i - 1 \in Nat /\ i + 1 \in Nat
      /\ i <= Len(s) /\ \A j \in 1..Len(s) : s[j] \in S
  BY LenProperties
<1>2. (\A j \in 1..(i - 1) : s[j] \in S) /\ (\A j \in (i + 1)..Len(s) : s[j] \in S)
  BY <1>1
<1>3. /\ l \in Seq(S) /\ Len(l) = IF 1 <= i - 1 THEN (i - 1) - 1 + 1 ELSE 0
      /\ \A j \in 1..(i - 1) - 1 + 1 : l[j] = s[1 + j - 1]
  BY <1>1, <1>2, SubSeqProperties
<1>4. /\ r \in Seq(S) /\ Len(r) = IF i + 1 <= Len(s) THEN Len(s) - (i + 1) + 1 ELSE 0
      /\ \A j \in 1..Len(s) - (i + 1) + 1 : r[j] = s[(i + 1) + j - 1]
  BY <1>1, <1>2, SubSeqProperties
<1> HIDE DEF l, r
<1>5. /\ t \in Seq(S) /\ Len(t) = Len(l) + Len(r)
      /\ \A j \in 1..Len(l) + Len(r) : t[j] = IF j <= Len(l) THEN l[j] ELSE r[j - Len(l)]
  BY <1>3, <1>4, ConcatProperties
<1> HIDE DEF t
<1>6. Len(l) = i - 1 /\ Len(r) = Len(s) - i /\ Len(t) = Len(s) - 1
  <2>1. Len(l) = i - 1
    BY <1>1, <1>3
  <2>2. Len(r) = Len(s) - i
    <3>1. CASE i + 1 <= Len(s)
      <4>1. Len(r) = Len(s) - (i + 1) + 1
        BY <1>4, <3>1
      <4>2. \A n, m \in Nat : n - (m + 1) + 1 = n - m
        OBVIOUS
      <4> QED BY <1>1, <4>1, <4>2
    <3>2. CASE ~(i + 1 <= Len(s))
      <4>1. i = Len(s)
        <5>1. \A n, m \in Nat : m <= n /\ ~(m + 1 <= n) => m = n
          OBVIOUS
        <5> QED BY <1>1, <3>2, <5>1
      <4>2. Len(r) = 0
        BY <1>4, <3>2
      <4> QED BY <1>1, <4>1, <4>2
    <3> QED BY <3>1, <3>2
  <2> QED BY <1>1, <1>5, <2>1, <2>2
<1>7. ASSUME NEW j \in 1..Len(t)
      PROVE  /\ j < i => j \in 1..Len(s) /\ j # i /\ t[j] = s[j]
             /\ ~(j < i) => j + 1 \in 1..Len(s) /\ j + 1 # i /\ t[j] = s[j + 1]
  <2>1. CASE j < i
    <3>1. t[j] = l[j] /\ l[j] = s[1 + j - 1] /\ 1 + j - 1 = j
      BY <1>1, <1>3, <1>5, <1>6, <2>1
    <3> QED BY <1>1, <1>6, <2>1, <3>1
  <2>2. CASE ~(j < i)
    <3>1. j - (i - 1) \in 1..Len(s) - (i + 1) + 1 /\ (i + 1) + (j - (i - 1)) - 1 = j + 1
      BY <1>1, <1>6, <2>2
    <3>2. t[j] = r[j - (i - 1)] /\ r[j - (i - 1)] = s[j + 1]
      <4>1. j \in 1..Len(l) + Len(r) /\ ~(j <= Len(l)) /\ j - Len(l) = j - (i - 1)
        BY <1>1, <1>5, <1>6, <2>2
      <4>2. t[j] = r[j - (i - 1)]
        BY <1>5, <4>1
      <4>3. r[j - (i - 1)] = s[(i + 1) + (j - (i - 1)) - 1]
        BY <1>4, <3>1
      <4> QED BY <3>1, <4>2, <4>3
    <3> QED BY <1>1, <1>6, <2>2, <3>2
  <2> QED BY <2>1, <2>2
<1>8. /\ p \in [1..Len(t) -> 1..Len(s)] /\ \A j \in 1..Len(t) : t[j] = s[p[j]] /\ p[j] # i
  BY <1>7
<1>9. \A j, k \in 1..Len(t) : j # k => p[j] # p[k]
  BY <1>1, <1>6
<1> HIDE DEF p
<1>10. IsInjective(t) /\ Range(t) \subseteq Range(s)
  BY <1>5, <1>8, <1>9, Picked
<1>11. s[i] \notin Range(t)
  <2>1. DOMAIN t = 1..Len(t)
    BY <1>5, LenProperties
  <2>2. \A j \in 1..Len(t) : t[j] # s[i]
    BY <1>1, <1>8 DEF IsInjective
  <2> QED BY <2>1, <2>2 DEF Range
<1>12. Clipbook!RemoveAt(s, i) = t
  BY DEF t, l, r, Clipbook!RemoveAt
<1> QED BY <1>5, <1>10, <1>11, <1>12

LEMMA EvictedOnce ==
  ASSUME MaxClips \in Nat, NEW S, NEW b \in Seq(S), IsInjective(b)
  PROVE  /\ Clipbook!Evicted(b) \in Seq(S) /\ IsInjective(Clipbook!Evicted(b))
         /\ Range(Clipbook!Evicted(b)) \subseteq Range(b)
<1>1. CASE Len(b) > MaxClips
  <2> DEFINE t == Tail(b)
             p == [j \in 1..Len(t) |-> j + 1]
  <2>1. Len(b) \in Nat /\ b # <<>>
    BY <1>1, LenProperties, EmptySeq
  <2>2. /\ t \in Seq(S) /\ Len(t) = Len(b) - 1 /\ \A i \in 1..Len(t) : t[i] = b[i + 1]
    BY <2>1, HeadTailProperties
  <2> HIDE DEF t
  <2>3. /\ p \in [1..Len(t) -> 1..Len(b)] /\ \A j \in 1..Len(t) : t[j] = b[p[j]]
        /\ \A i, j \in 1..Len(t) : i # j => p[i] # p[j]
    BY <2>1, <2>2
  <2> HIDE DEF p
  <2>4. IsInjective(t) /\ Range(t) \subseteq Range(b)
    BY <2>2, <2>3, Picked
  <2> QED BY <1>1, <2>2, <2>4 DEF t, Clipbook!Evicted
<1>2. CASE ~(Len(b) > MaxClips)
  BY <1>2 DEF Clipbook!Evicted
<1> QED BY <1>1, <1>2

LEMMA RangeIsFinite ==
  ASSUME NEW S, NEW s \in Seq(S) PROVE IsFiniteSet(Range(s))
<1>1. Len(s) \in Nat /\ DOMAIN s = 1..Len(s) /\ s \in [1..Len(s) -> S]
  BY LenProperties
<1>2. s \in Surjection(1..Len(s), Range(s))
  BY <1>1 DEF Surjection, Range
<1>3. IsFiniteSet(1..Len(s))
  BY <1>1, FS_Interval
<1> QED BY <1>2, <1>3, FS_Surjection

(* Some of the elements of a finite set in some order.                       *)
LEMMA Ordered ==
  ASSUME NEW S, IsFiniteSet(S), NEW order \in Clipbook!SetToSeqs(S)
  PROVE  order \in Seq(S) /\ IsInjective(order) /\ Range(order) \subseteq S
<1> DEFINE n == Cardinality(S)
<1>1. n \in Nat
  BY FS_CardinalityType
<1>a. Clipbook!Cardinality(S) = n
  BY DEF Clipbook!Cardinality, Cardinality
<1> HIDE DEF n
<1>2. /\ order \in [1..n -> S] /\ \A i, j \in 1..n : i # j => order[i] # order[j]
  BY <1>a DEF Clipbook!SetToSeqs
<1>3. order \in Seq(S)
  BY <1>1, <1>2, IsASeq
<1>4. IsInjective(order)
  BY <1>2, Zenon DEF IsInjective
<1> QED BY <1>3, <1>4, RangeOfSeq

-----------------------------------------------------------------------------
ClipConstants == MaxClips \in Nat /\ MaxMade \in Nat

LEMMA SameRange == \A f : Clipbook!Range(f) = Range(f)
BY DEF Clipbook!Range, Range

(* What comes to the end of the buffer, or of a part of it.                  *)
LEMMA BufferGrows ==
  ASSUME ClipConstants, ClipsAreKept, NEW b \in Seq(Clipbook!Clips), IsInjective(b),
         Range(b) \subseteq Range(cb_buffer),
         NEW x \in Clipbook!Clips, x \notin Range(cb_buffer),
         cb_buffer' = Clipbook!Evicted(Append(b, x))
  PROVE  /\ cb_buffer' \in Seq(Clipbook!Clips) /\ IsInjective(cb_buffer')
         /\ Range(cb_buffer') \subseteq Range(cb_buffer) \cup {x}
<1>1. /\ Append(b, x) \in Seq(Clipbook!Clips) /\ IsInjective(Append(b, x))
      /\ Range(Append(b, x)) = Range(b) \cup {x}
  <2>1. x \notin Range(b)
    OBVIOUS
  <2> QED BY <2>1, AppendedOnce
<1> QED BY <1>1, EvictedOnce DEF ClipConstants

LEMMA IdsAreKnown ==
  ASSUME ClipConstants, ClipsAreKept
  PROVE  /\ Known \subseteq Clipbook!Clips /\ \A c \in Clipbook!Clips : c.id \in Nat
         /\ cb_adding # <<>> => cb_adding[1] \in Clipbook!Clips /\ cb_adding[2] \in Nat
         /\ cb_arriving # Clipbook!NoClip => cb_arriving \in Clipbook!Clips
<1>1. Range(cb_buffer) \subseteq Clipbook!Clips
  BY RangeOfSeq DEF ClipsAreKept, BookTypeOK
<1>2. \A c \in Clipbook!Clips : c.id \in Nat
  BY DEF ClipConstants, Clipbook!Clips
<1>3. Known \subseteq Clipbook!Clips
  BY <1>1 DEF ClipsAreKept, BookTypeOK, Known
<1> QED BY <1>2, <1>3 DEF ClipsAreKept, BookTypeOK

LEMMA PollFindsKeeps ==
  ASSUME ClipConstants, ClipsAreKept, Clipbook!PollFinds PROVE ClipsAreKept'
<1> DEFINE n == [id |-> cb_made + 1, text |-> cb_clipboard, remote |-> FALSE]
<1>1. /\ n \in Clipbook!Clips /\ n.id = cb_made + 1 /\ n.remote = FALSE /\ cb_made \in Nat
  <2>1. cb_made \in Nat /\ cb_made < MaxMade /\ MaxMade \in Nat /\ cb_clipboard \in Texts
    BY DEF ClipConstants, ClipsAreKept, BookTypeOK, Clipbook!PollFinds
  <2>2. cb_made + 1 \in 1..MaxMade
    BY <2>1
  <2> QED BY <2>1, <2>2 DEF Clipbook!Clips
<1>2. cb_adding' = <<n, Len(cb_buffer)>> /\ cb_made' = cb_made + 1 /\ Len(cb_buffer) \in Nat
  BY LenProperties DEF Clipbook!PollFinds, ClipsAreKept, BookTypeOK
<1> HIDE DEF n
<1>3. /\ UNCHANGED <<cb_buffer, cb_cache, cb_files, cb_persistence, cb_clipboard, cb_arriving,
                     cb_echoed, cb_deleted>>
      /\ Known' = Known
  BY DEF Clipbook!PollFinds, Known
<1>4. /\ \A c \in Known : c.id \in Nat /\ c.id <= cb_made
      /\ cb_arriving # Clipbook!NoClip => cb_arriving.id \in Nat /\ cb_arriving.id <= cb_made
  BY IdsAreKnown DEF ClipsAreKept, BookTypeOK, OnTheirWay
<1>5. n \notin Known
  BY <1>1, <1>4
<1>6. BookTypeOK'
  <2>1. cb_adding' \in Clipbook!Clips \X Nat /\ cb_made' \in Nat
    BY <1>1, <1>2
  <2>2. \A c \in Known' : c.id <= cb_made'
    BY <1>1, <1>2, <1>3, <1>4
  <2> QED BY <1>3, <2>1, <2>2 DEF ClipsAreKept, BookTypeOK
<1>7. OnTheirWay'
  <2>1. cb_adding'[1] = n
    BY <1>2
  <2>2. cb_adding' # <<>>
          => ~cb_adding'[1].remote /\ cb_adding'[1] \notin Known' /\ cb_adding'[1].id <= cb_made'
    BY <1>1, <1>2, <1>3, <1>5, <2>1
  <2>3. cb_arriving' # Clipbook!NoClip =>
          /\ cb_arriving'.remote /\ cb_arriving'.text \in cb_cache'
          /\ cb_arriving'.id <= cb_made' /\ cb_arriving' \notin Known'
    BY <1>1, <1>2, <1>3, <1>4 DEF ClipsAreKept, OnTheirWay
  <2> QED BY <2>2, <2>3 DEF OnTheirWay
<1> QED BY <1>3, <1>6, <1>7
        DEF ClipsAreKept, RemoteIsCached, ClipsGoOneWay, Clipbook!RemoteNotEchoed,
            Clipbook!DeletedStaysDeleted, Clipbook!Range, Range

LEMMA ArriveKeeps ==
  ASSUME ClipConstants, ClipsAreKept, NEW text \in Texts, Clipbook!Arrive(text)
  PROVE  ClipsAreKept'
<1> DEFINE n == [id |-> cb_made + 1, text |-> text, remote |-> TRUE]
<1>1. /\ n \in Clipbook!Clips /\ n.id = cb_made + 1 /\ n.remote = TRUE /\ cb_made \in Nat
      /\ n.text = text
  <2>1. cb_made \in Nat /\ cb_made < MaxMade /\ MaxMade \in Nat /\ text \in Texts
    BY DEF ClipConstants, ClipsAreKept, BookTypeOK, Clipbook!Arrive
  <2>2. cb_made + 1 \in 1..MaxMade
    BY <2>1
  <2> QED BY <2>1, <2>2 DEF Clipbook!Clips
<1>2. cb_arriving' = n /\ cb_made' = cb_made + 1 /\ cb_cache' = cb_cache \cup {text}
  BY DEF Clipbook!Arrive
<1> HIDE DEF n
<1>3. /\ UNCHANGED <<cb_buffer, cb_files, cb_persistence, cb_clipboard, cb_adding, cb_echoed,
                     cb_deleted>>
      /\ Known' = Known
  BY DEF Clipbook!Arrive, Known
<1>4. /\ \A c \in Known : c.id \in Nat /\ c.id <= cb_made
      /\ cb_adding # <<>> => cb_adding[1].id \in Nat /\ cb_adding[1].id <= cb_made
  BY IdsAreKnown DEF ClipsAreKept, BookTypeOK, OnTheirWay
<1>5. n \notin Known
  BY <1>1, <1>4
<1>6. BookTypeOK'
  <2>1. cb_arriving' \in Clipbook!Clips /\ cb_made' \in Nat
    BY <1>1, <1>2
  <2>2. \A c \in Known' : c.id <= cb_made'
    BY <1>1, <1>2, <1>3, <1>4
  <2> QED BY <1>3, <2>1, <2>2 DEF ClipsAreKept, BookTypeOK
<1>7. OnTheirWay'
  <2>1. cb_adding' # <<>>
          => ~cb_adding'[1].remote /\ cb_adding'[1] \notin Known' /\ cb_adding'[1].id <= cb_made'
    BY <1>1, <1>2, <1>3, <1>4 DEF ClipsAreKept, OnTheirWay
  <2>2. /\ cb_arriving'.remote /\ cb_arriving'.text \in cb_cache'
        /\ cb_arriving'.id <= cb_made' /\ cb_arriving' \notin Known'
    BY <1>1, <1>2, <1>3, <1>5
  <2> QED BY <2>1, <2>2 DEF OnTheirWay
<1>8. RemoteIsCached'
  BY <1>2, <1>3 DEF ClipsAreKept, RemoteIsCached
<1> QED BY <1>3, <1>6, <1>7, <1>8
        DEF ClipsAreKept, ClipsGoOneWay, Clipbook!RemoteNotEchoed,
            Clipbook!DeletedStaysDeleted, Clipbook!Range, Range

LEMMA PollAddsKeeps ==
  ASSUME ClipConstants, ClipsAreKept, Clipbook!PollAdds PROVE ClipsAreKept'
<1> DEFINE x == cb_adding[1]
           n == cb_adding[2]
           b == SubSeq(cb_buffer, 1, n)
<1>1. /\ cb_adding # <<>> /\ n <= Len(cb_buffer) /\ cb_adding' = <<>>
      /\ cb_buffer' = Clipbook!Evicted(Append(b, x))
      /\ UNCHANGED <<cb_cache, cb_files, cb_persistence, cb_clipboard, cb_arriving, cb_made,
                     cb_echoed, cb_deleted>>
  BY DEF Clipbook!PollAdds
<1>2. x \in Clipbook!Clips /\ n \in Nat /\ x \notin Known /\ x.remote = FALSE /\ x.id <= cb_made
  BY <1>1, IdsAreKnown DEF ClipsAreKept, OnTheirWay, Clipbook!Clips
<1>3. x \notin Range(cb_buffer) /\ x \notin cb_deleted
  BY <1>2 DEF Known
<1> HIDE DEF x, n
<1>4. b \in Seq(Clipbook!Clips) /\ IsInjective(b) /\ Range(b) \subseteq Range(cb_buffer)
  <2>1. cb_buffer \in Seq(Clipbook!Clips) /\ IsInjective(cb_buffer)
    BY DEF ClipsAreKept, BookTypeOK
  <2> QED BY <1>1, <1>2, <2>1, SliceOnce
<1> HIDE DEF b
<1>5. /\ cb_buffer' \in Seq(Clipbook!Clips) /\ IsInjective(cb_buffer')
      /\ Range(cb_buffer') \subseteq Range(cb_buffer) \cup {x}
  BY <1>1, <1>2, <1>3, <1>4, BufferGrows
<1>6. Known' \subseteq Known \cup {x}
  BY <1>1, <1>5 DEF Known
<1>7. BookTypeOK'
  BY <1>1, <1>2, <1>5, <1>6 DEF ClipsAreKept, BookTypeOK
<1>8. OnTheirWay'
  <2>1. cb_arriving # Clipbook!NoClip => cb_arriving.remote /\ cb_arriving # x
    BY <1>2 DEF ClipsAreKept, OnTheirWay
  <2> QED BY <1>1, <1>6, <2>1 DEF ClipsAreKept, OnTheirWay
<1>9. RemoteIsCached'
  BY <1>1, <1>2, <1>5 DEF ClipsAreKept, RemoteIsCached
<1>10. ClipsGoOneWay'
  BY <1>1, <1>3, <1>5, SameRange
     DEF ClipsAreKept, ClipsGoOneWay, Clipbook!RemoteNotEchoed, Clipbook!DeletedStaysDeleted
<1> QED BY <1>1, <1>7, <1>8, <1>9, <1>10 DEF ClipsAreKept

LEMMA ArrivedAddsKeeps ==
  ASSUME ClipConstants, ClipsAreKept, Clipbook!ArrivedAdds PROVE ClipsAreKept'
<1> DEFINE x == cb_arriving
<1>1. /\ x # Clipbook!NoClip /\ cb_arriving' = Clipbook!NoClip
      /\ cb_buffer' = Clipbook!Evicted(Append(cb_buffer, x))
      /\ UNCHANGED <<cb_cache, cb_files, cb_persistence, cb_clipboard, cb_adding, cb_made,
                     cb_echoed, cb_deleted>>
  BY DEF Clipbook!ArrivedAdds
<1>2. /\ x \in Clipbook!Clips /\ x \notin Known /\ x.remote /\ x.id <= cb_made
           /\ x.text \in cb_cache
  BY <1>1, IdsAreKnown DEF ClipsAreKept, OnTheirWay
<1>3. x \notin Range(cb_buffer) /\ x \notin cb_deleted
  BY <1>2 DEF Known
<1>4. cb_buffer \in Seq(Clipbook!Clips) /\ IsInjective(cb_buffer)
  BY DEF ClipsAreKept, BookTypeOK
<1> HIDE DEF x
<1>5. /\ cb_buffer' \in Seq(Clipbook!Clips) /\ IsInjective(cb_buffer')
      /\ Range(cb_buffer') \subseteq Range(cb_buffer) \cup {x}
  BY <1>1, <1>2, <1>3, <1>4, BufferGrows
<1>6. Known' \subseteq Known \cup {x}
  BY <1>1, <1>5 DEF Known
<1>7. BookTypeOK'
  BY <1>1, <1>2, <1>5, <1>6 DEF ClipsAreKept, BookTypeOK
<1>8. OnTheirWay'
  <2>1. cb_adding # <<>> => ~cb_adding[1].remote /\ cb_adding[1] # x
    BY <1>2 DEF ClipsAreKept, OnTheirWay
  <2> QED BY <1>1, <1>6, <2>1 DEF ClipsAreKept, OnTheirWay
<1>9. RemoteIsCached'
  BY <1>1, <1>2, <1>5 DEF ClipsAreKept, RemoteIsCached
<1>10. ClipsGoOneWay'
  BY <1>1, <1>3, <1>5, SameRange
     DEF ClipsAreKept, ClipsGoOneWay, Clipbook!RemoteNotEchoed, Clipbook!DeletedStaysDeleted
<1> QED BY <1>1, <1>7, <1>8, <1>9, <1>10 DEF ClipsAreKept

LEMMA RefreshKeeps ==
  ASSUME ClipConstants, ClipsAreKept, Clipbook!Refresh PROVE ClipsAreKept'
<1> DEFINE new == {c \in Range(cb_buffer) : c \notin cb_files}
<1>1. cb_persistence = cb_files
  BY DEF ClipsAreKept
<1>2. /\ cb_files' = cb_files \cup new /\ cb_persistence' = cb_files \cup new
      /\ cb_echoed' = cb_echoed \cup {c \in new : c.text \notin cb_cache}
      /\ UNCHANGED <<cb_buffer, cb_cache, cb_clipboard, cb_adding, cb_arriving, cb_made,
                     cb_deleted>>
  BY <1>1, SameRange DEF Clipbook!Refresh
<1>3. new \subseteq Range(cb_buffer) /\ Range(cb_buffer) \subseteq Clipbook!Clips
      /\ IsFiniteSet(Range(cb_buffer))
  BY RangeOfSeq, RangeIsFinite DEF ClipsAreKept, BookTypeOK
<1>4. \A c \in new : c.text \notin cb_cache => ~c.remote
  BY DEF ClipsAreKept, RemoteIsCached
<1> HIDE DEF new
<1>5. Known' = Known
  BY <1>2, <1>3 DEF Known
<1>6. IsFiniteSet(cb_files')
  <2>1. IsFiniteSet(new)
    BY <1>3, FS_Subset
  <2> QED BY <1>2, <2>1, FS_Union DEF ClipsAreKept, BookTypeOK
<1>7. BookTypeOK'
  BY <1>2, <1>3, <1>5, <1>6 DEF ClipsAreKept, BookTypeOK
<1>8. OnTheirWay' /\ RemoteIsCached'
  BY <1>2, <1>5 DEF ClipsAreKept, OnTheirWay, RemoteIsCached
<1>9. Clipbook!RemoteNotEchoed'
  BY <1>2, <1>4 DEF ClipsAreKept, ClipsGoOneWay, Clipbook!RemoteNotEchoed
<1>10. Clipbook!DeletedStaysDeleted'
  BY <1>2, <1>3, SameRange DEF ClipsAreKept, ClipsGoOneWay, Clipbook!DeletedStaysDeleted
<1> QED BY <1>2, <1>7, <1>8, <1>9, <1>10 DEF ClipsAreKept, ClipsGoOneWay

LEMMA DeleteKeeps ==
  ASSUME ClipConstants, ClipsAreKept, NEW c \in Clipbook!Clips, Clipbook!Delete(c)
  PROVE  ClipsAreKept'
<1>1. /\ c \in cb_files /\ cb_persistence = cb_files /\ cb_files' = cb_files \ {c}
      /\ cb_persistence' = cb_files \ {c} /\ cb_deleted' = cb_deleted \cup {c}
      /\ UNCHANGED <<cb_cache, cb_clipboard, cb_adding, cb_arriving, cb_made, cb_echoed>>
  BY DEF Clipbook!Delete, ClipsAreKept
<1>2. /\ cb_buffer' \in Seq(Clipbook!Clips) /\ IsInjective(cb_buffer')
      /\ Range(cb_buffer') \subseteq Range(cb_buffer) \ {c}
  <2>1. /\ cb_buffer \in Seq(Clipbook!Clips) /\ IsInjective(cb_buffer)
        /\ DOMAIN cb_buffer = 1..Len(cb_buffer)
    BY LenProperties DEF ClipsAreKept, BookTypeOK
  <2>2. CASE c \notin Range(cb_buffer) /\ cb_buffer' = cb_buffer
    BY <2>1, <2>2
  <2>3. CASE \E i \in DOMAIN cb_buffer :
               cb_buffer[i] = c /\ cb_buffer' = Clipbook!RemoveAt(cb_buffer, i)
    <3>1. PICK i \in 1..Len(cb_buffer) :
            cb_buffer[i] = c /\ cb_buffer' = Clipbook!RemoveAt(cb_buffer, i)
      BY <2>1, <2>3
    <3> QED BY <2>1, <3>1, RemovedOnce
  <2> QED BY <2>2, <2>3, SameRange DEF Clipbook!Delete
<1>3. Known' \subseteq Known
  BY <1>1, <1>2 DEF Known
<1>4. IsFiniteSet(cb_files')
  BY <1>1, FS_Subset DEF ClipsAreKept, BookTypeOK
<1>5. BookTypeOK'
  BY <1>1, <1>2, <1>3, <1>4 DEF ClipsAreKept, BookTypeOK
<1>6. OnTheirWay'
  BY <1>1, <1>3 DEF ClipsAreKept, OnTheirWay
<1>7. RemoteIsCached'
  BY <1>1, <1>2 DEF ClipsAreKept, RemoteIsCached
<1>8. ClipsGoOneWay'
  BY <1>1, <1>2, SameRange
     DEF ClipsAreKept, ClipsGoOneWay, Clipbook!RemoteNotEchoed, Clipbook!DeletedStaysDeleted
<1> QED BY <1>1, <1>5, <1>6, <1>7, <1>8 DEF ClipsAreKept

LEMMA RestartKeeps ==
  ASSUME ClipConstants, ClipsAreKept, Clipbook!Restart PROVE ClipsAreKept'
<1>1. /\ cb_persistence' = cb_files /\ cb_cache' = {} /\ cb_adding' = <<>>
           /\ cb_arriving' = Clipbook!NoClip
      /\ UNCHANGED <<cb_files, cb_clipboard, cb_made, cb_echoed, cb_deleted>>
  BY DEF Clipbook!Restart
<1>2. /\ cb_buffer' \in Seq(Clipbook!Clips) /\ IsInjective(cb_buffer')
           /\ Range(cb_buffer') \subseteq cb_files
  <2>1. PICK order \in Clipbook!SetToSeqs(cb_files) :
          cb_buffer' = SubSeq(order, IF Len(order) > MaxClips THEN Len(order) - MaxClips + 1 ELSE 1,
                           Len(order))
    BY DEF Clipbook!Restart
  <2> DEFINE m == IF Len(order) > MaxClips THEN Len(order) - MaxClips + 1 ELSE 1
  <2>2. IsFiniteSet(cb_files) /\ cb_files \subseteq Clipbook!Clips
    BY DEF ClipsAreKept, BookTypeOK
  <2>3. order \in Seq(cb_files) /\ IsInjective(order) /\ Range(order) \subseteq cb_files
    BY <2>2, Ordered
  <2>4. order \in Seq(Clipbook!Clips) /\ Len(order) \in Nat
    BY <2>2, <2>3, LenProperties
  <2>5. m \in Nat \ {0}
    BY <2>4 DEF ClipConstants
  <2>6. cb_buffer' = SubSeq(order, m, Len(order))
    BY <2>1
  <2> HIDE DEF m
  <2>7. /\ SubSeq(order, m, Len(order)) \in Seq(Clipbook!Clips)
        /\ IsInjective(SubSeq(order, m, Len(order)))
        /\ Range(SubSeq(order, m, Len(order))) \subseteq Range(order)
    BY <2>3, <2>4, <2>5, SliceOnce
  <2> QED BY <2>3, <2>6, <2>7
<1>3. Known' \subseteq Known
  BY <1>1, <1>2 DEF Known
<1>4. BookTypeOK'
  BY <1>1, <1>2, <1>3 DEF ClipsAreKept, BookTypeOK
<1>5. OnTheirWay' /\ RemoteIsCached'
  BY <1>1, <1>2 DEF OnTheirWay, RemoteIsCached
<1>6. ClipsGoOneWay'
  BY <1>1, <1>2, SameRange
     DEF ClipsAreKept, ClipsGoOneWay, Clipbook!RemoteNotEchoed, Clipbook!DeletedStaysDeleted
<1> QED BY <1>1, <1>4, <1>5, <1>6 DEF ClipsAreKept

(* For any texts and bounds, across restarts and whatever the threads do: no *)
(* clip from the server is sent back, and none the user has deleted returns. *)
THEOREM ClipsGoOneWayOnly == ASSUME ClipConstants PROVE Clipbook!Spec => []ClipsGoOneWay
<1>1. Clipbook!Init => ClipsAreKept
  <2> SUFFICES ASSUME Clipbook!Init PROVE ClipsAreKept
    OBVIOUS
  <2>1. /\ Range(cb_buffer) = {} /\ cb_buffer \in Seq(Clipbook!Clips) /\ IsInjective(cb_buffer)
    <3>1. cb_buffer = <<>> /\ cb_buffer \in Seq(Clipbook!Clips) /\ Len(cb_buffer) = 0
      BY EmptySeq DEF Clipbook!Init
    <3>2. DOMAIN cb_buffer = {}
      BY <3>1, LenProperties
    <3> QED BY <3>1, <3>2 DEF Range, IsInjective
  <2>2. Known = {} /\ IsFiniteSet(cb_files) /\ cb_clipboard = ""
    BY <2>1, FS_EmptySet DEF Clipbook!Init, Known
  <2>3. BookTypeOK
    BY <2>1, <2>2 DEF Clipbook!Init, BookTypeOK
  <2> QED BY <2>1, <2>3, SameRange
          DEF Clipbook!Init, ClipsAreKept, OnTheirWay, RemoteIsCached, ClipsGoOneWay,
              Clipbook!RemoteNotEchoed, Clipbook!DeletedStaysDeleted
<1>2. ClipsAreKept /\ [Clipbook!Next]_Clipbook!vars => ClipsAreKept'
  <2> SUFFICES ASSUME ClipsAreKept, [Clipbook!Next]_Clipbook!vars PROVE ClipsAreKept'
    OBVIOUS
  <2>1. CASE \/ \E text \in Texts : Clipbook!Copy(text)
             \/ UNCHANGED Clipbook!vars
    <3>1. /\ UNCHANGED <<cb_buffer, cb_cache, cb_files, cb_persistence, cb_adding, cb_arriving,
                         cb_made, cb_echoed, cb_deleted>>
          /\ cb_clipboard' \in Texts \cup {""} /\ Known' = Known
      BY <2>1 DEF Clipbook!Copy, Clipbook!vars, ClipsAreKept, BookTypeOK, Known
    <3> QED BY <3>1, SameRange
            DEF ClipsAreKept, BookTypeOK, OnTheirWay, RemoteIsCached, ClipsGoOneWay,
                Clipbook!RemoteNotEchoed, Clipbook!DeletedStaysDeleted
  <2> QED BY <2>1, PollFindsKeeps, PollAddsKeeps, ArriveKeeps, ArrivedAddsKeeps, RefreshKeeps,
             DeleteKeeps, RestartKeeps DEF Clipbook!Next
<1>3. ClipsAreKept => ClipsGoOneWay
  BY DEF ClipsAreKept
<1> QED BY <1>1, <1>2, <1>3, PTL DEF Clipbook!Spec

-----------------------------------------------------------------------------
WindowsConstants == MaxAttempts \in Nat

(* A step is one of those that concern the attempts, the task of a send, or  *)
(* the receive loop; in every other the variables stay as they are.          *)
AttemptConnects(a) ==
  \/ a = 0 /\ Windows!Open
  \/ Windows!Reconnect(a) \/ Windows!ConnectSucceeds(a) \/ Windows!ConnectFails(a)
       \/ Windows!ConnectReturnsFalse(a)
RaisesDisconnected == Windows!CompletedRaises \/ Windows!ReceiveEnds \/ Windows!PingFails
TaskCalls(m) ==
  \/ \E a \in Windows!Attempts : m = <<"auth", a>> /\ Windows!Authenticate(a)
  \/ \E c \in Callers : m = <<"sync", c>> /\ Windows!Sync(c)
  \/ \E k \in Contents :
       \/ m = <<"notify", k>> /\ Windows!Notify(k)
       \/ m = <<"response", k>> /\ Windows!SyncRequest(k)
       \/ m = <<"content", k>> /\ win_answer.to = k /\ Windows!SendContent
TaskAdvances(m) == Windows!Test(m) \/ Windows!Assign(m) \/ Windows!SendContinue(m)
                     \/ Windows!Wake(m) \/ Windows!Compare(m)

LEMMA StepsOfWindows ==
  ASSUME WindowsConstants, WindowsTypeOK, Windows!Next
  PROVE  /\ ~win_crashed /\ win_scheduling <= 1
         /\ \/ \E a \in Windows!Attempts : AttemptConnects(a)
            \/ Windows!Schedule \/ RaisesDisconnected
            \/ \E m \in Windows!Tasks : TaskCalls(m) \/ TaskAdvances(m) \/ Windows!SendHeader(m)
                 \/ Windows!Returns(m)
            \/ Windows!SendCompletes \/ Windows!SendFails \/ Windows!LinkFails
            \/ \E a \in Windows!Attempts : Windows!AuthenticateReply(a)
            \/ \E c \in Callers : Windows!SyncReply(c)
<1> DEFINE Goal == \/ \E a \in Windows!Attempts : AttemptConnects(a)
                   \/ Windows!Schedule \/ RaisesDisconnected
                   \/ \E m \in Windows!Tasks : TaskCalls(m) \/ TaskAdvances(m)
                        \/ Windows!SendHeader(m) \/ Windows!Returns(m)
                   \/ Windows!SendCompletes \/ Windows!SendFails \/ Windows!LinkFails
                   \/ \E a \in Windows!Attempts : Windows!AuthenticateReply(a)
                   \/ \E c \in Callers : Windows!SyncReply(c)
<1>1. 0 \in Windows!Attempts
  BY DEF WindowsConstants, Windows!Attempts
<1>2. ASSUME NEW a \in Windows!Attempts, Windows!AttemptStep(a) \/ Windows!ConnectFails(a)
               \/ Windows!Open
      PROVE  Goal
  <2>1. <<"auth", a>> \in Windows!Tasks
    BY DEF Windows!Tasks, Windows!Requests
  <2> QED BY <1>1, <1>2, <2>1 DEF Windows!AttemptStep, AttemptConnects, TaskCalls
<1>3. ASSUME NEW m \in Windows!Tasks, Windows!SendStep(m)
      PROVE  Goal
  BY <1>3 DEF Windows!SendStep, TaskAdvances
<1>4. ASSUME NEW c \in Callers, Windows!Sync(c)
      PROVE  Goal
  <2>1. <<"sync", c>> \in Windows!Tasks
    BY DEF Windows!Tasks, Windows!Requests
  <2> QED BY <1>4, <2>1 DEF TaskCalls
<1>5. ASSUME NEW k \in Contents, Windows!Notify(k) \/ Windows!SyncRequest(k)
      PROVE  Goal
  <2>1. <<"notify", k>> \in Windows!Tasks /\ <<"response", k>> \in Windows!Tasks
    BY DEF Windows!Tasks
  <2> QED BY <1>5, <2>1 DEF TaskCalls
<1>6. ASSUME Windows!SendContent
      PROVE  Goal
  <2>1. win_answer.to \in Contents /\ <<"content", win_answer.to>> \in Windows!Tasks
    BY <1>6 DEF WindowsTypeOK, Answers, Windows!NoAnswer, Windows!SendContent, Windows!Tasks
  <2> QED BY <1>6, <2>1 DEF TaskCalls
<1>7. ASSUME Windows!Background \/ Windows!ReceiveLoop
      PROVE  Goal
  <2>1. CASE Windows!CompletedRaises \/ Windows!PingFails \/ Windows!Schedule
               \/ Windows!SendCompletes \/ Windows!SendFails
    BY <2>1 DEF RaisesDisconnected
  <2>2. CASE Windows!ReceiveLoop
    BY <2>2 DEF Windows!ReceiveLoop, RaisesDisconnected
  <2>3. CASE \E a \in Windows!Attempts : Windows!AttemptStep(a)
    <3> HIDE DEF Goal
    <3> QED BY <2>3, <1>2
  <2>4. CASE \E m \in Windows!Requests : Windows!SendStep(m)
    <3> HIDE DEF Goal
    <3> QED BY <2>4, <1>3 DEF Windows!Tasks
  <2> QED BY <1>7, <2>1, <2>2, <2>3, <2>4 DEF Windows!Background
<1>8. CASE Windows!LinkFails
  BY <1>8 DEF Windows!Next, Windows!Going
<1>9. CASE ~Windows!LinkFails
  <2> HIDE DEF Goal
  <2>1. Goal
    BY <1>1, <1>2, <1>3, <1>4, <1>5, <1>6, <1>7, <1>9 DEF Windows!Next, Windows!Going
  <2> QED BY <2>1 DEF Goal, Windows!Next, Windows!Going
<1> QED BY <1>8, <1>9

LEMMA Disconnected ==
  ASSUME WindowsTypeOK, SessionIsUp, Windows!OnDisconnected
  PROVE  SessionIsUp'
<1>1. AttemptsInTurn' /\ (win_reconnecting => win_ignored')
        /\ (~win_reconnecting => win_scheduling' > 0)
      /\ UNCHANGED <<win_pc, win_reconnecting>>
  BY DEF WindowsTypeOK, SessionIsUp, AttemptsInTurn, Windows!OnDisconnected
<1>2. \A a \in Windows!Attempts \ {0} : win_pc[a] \notin Ended => win_ignored'
  BY <1>1 DEF SessionIsUp, AttemptsInTurn
<1>3. Down'
  BY <1>1, <1>2 DEF Down, Windows!DownOnlyIfIgnored, Ended
<1> QED BY <1>1, <1>3 DEF SessionIsUp

(* An attempt moves on within what Down says of it.                          *)
LEMMA AttemptMoves ==
  ASSUME WindowsConstants, WindowsTypeOK, SessionIsUp, NEW a \in Windows!Attempts, NEW p \in Places,
         win_pc' = [win_pc EXCEPT ![a] = p],
         UNCHANGED <<win_reconnecting, win_scheduling, win_attempt, win_ignored>>,
         a = 0 \/ win_pc[a] \notin Ended, p # "none",
         win_connected => win_connected', win_failing => win_failing',
         a = 0 /\ win_pc[a] \in {"none", "connect"} /\ p \notin {"none", "connect"}
           => win_connected' \/ win_failing',
         p \in {"auth", "sending", "early", "waiting"}
           => win_pc[a] \in {"auth", "sending", "early", "waiting"} \/ win_connected',
         p = "failed" => win_failing'
  PROVE  SessionIsUp'
<1>1. /\ 0 \in Windows!Attempts /\ \A b \in Windows!Attempts : b >= 0 /\ b \in Nat
      /\ win_pc \in [Windows!Attempts -> Places] /\ win_attempt \in Windows!Attempts
  BY DEF WindowsConstants, WindowsTypeOK, Windows!Attempts
<1>2. win_pc'[a] = p /\ \A b \in Windows!Attempts : b # a => win_pc'[b] = win_pc[b]
  BY <1>1
<1>3. ~(a > win_attempt)
  BY <1>1 DEF SessionIsUp, AttemptsInTurn, Ended
<1>4. AttemptsInTurn'
  BY <1>2, <1>3 DEF SessionIsUp, AttemptsInTurn
<1>5. Down'
  BY <1>1, <1>2 DEF SessionIsUp, Down, Windows!DownOnlyIfIgnored
<1> QED BY <1>4, <1>5 DEF SessionIsUp

LEMMA AttemptOver ==
  ASSUME WindowsConstants, WindowsTypeOK, SessionIsUp, NEW a \in Windows!Attempts,
         win_pc[a] \in {"failed", "sending", "early", "waiting"}, Windows!Over(a),
         UNCHANGED <<win_connected, win_failing>>
  PROVE  SessionIsUp'
<1>1. /\ 0 \in Windows!Attempts /\ win_pc \in [Windows!Attempts -> Places]
           /\ win_attempt \in Windows!Attempts
  BY DEF WindowsConstants, WindowsTypeOK, Windows!Attempts
<1>2. /\ win_pc'[a] = "over" /\ \A b \in Windows!Attempts : b # a => win_pc'[b] = win_pc[b]
      /\ UNCHANGED <<win_scheduling, win_attempt, win_ignored>>
           /\ win_reconnecting' = (win_reconnecting /\ a = 0)
  BY <1>1 DEF Windows!Over
<1>3. a # 0 => \A b \in Windows!Attempts \ {0} : win_pc'[b] \in Ended
  BY <1>2 DEF SessionIsUp, AttemptsInTurn, Ended
<1>4. AttemptsInTurn'
  <2>1. \A b \in Windows!Attempts : b > win_attempt => win_pc'[b] = "none"
    <3>1. a # 0 => a = win_attempt
      BY DEF SessionIsUp, AttemptsInTurn, Ended
    <3>2. ~(a > win_attempt)
      BY <1>1, <3>1 DEF Windows!Attempts
    <3> QED BY <1>2, <3>2 DEF SessionIsUp, AttemptsInTurn
  <2>2. CASE a = 0
    BY <1>2, <2>1, <2>2 DEF SessionIsUp, AttemptsInTurn
  <2>3. CASE a # 0
    BY <1>2, <1>3, <2>1, <2>3 DEF SessionIsUp, AttemptsInTurn
  <2> QED BY <2>2, <2>3
<1>5. Down'
  <2>1. CASE a = 0
    BY <1>1, <1>2, <2>1 DEF SessionIsUp, Down, Windows!DownOnlyIfIgnored
  <2>2. CASE a # 0
    <3>1. ~win_connected => win_failing \/ win_ignored
      BY <2>2 DEF SessionIsUp, Down
    <3> QED BY <1>2, <1>3, <2>2, <3>1 DEF Down, Windows!DownOnlyIfIgnored, Ended
  <2> QED BY <2>1, <2>2
<1> QED BY <1>4, <1>5 DEF SessionIsUp

LEMMA Scheduled ==
  ASSUME WindowsConstants, WindowsTypeOK, SessionIsUp, Windows!Schedule
  PROVE  SessionIsUp'
<1>1. /\ win_attempt \in Windows!Attempts /\ win_attempt + 1 \in Windows!Attempts
           /\ win_attempt + 1 # 0
      /\ \A a \in Windows!Attempts : a > win_attempt + 1 => a > win_attempt /\ a # win_attempt + 1
      /\ win_attempt + 1 > win_attempt
  BY DEF WindowsConstants, WindowsTypeOK, Windows!Attempts, Windows!Schedule
<1>2. /\ win_reconnecting' /\ win_scheduling' = 0 /\ win_attempt' = win_attempt + 1
           /\ ~win_reconnecting
      /\ UNCHANGED <<win_connected, win_failing, win_ignored>>
      /\ win_pc'[win_attempt + 1] = "delay" /\ \A a \in Windows!Attempts : a # win_attempt + 1
           => win_pc'[a] = win_pc[a]
  BY <1>1 DEF Windows!Schedule, SessionIsUp, AttemptsInTurn, WindowsTypeOK, Windows!network
<1>3. \A a \in Windows!Attempts \ {0} : a # win_attempt + 1 => win_pc'[a] \in Ended
  BY <1>2 DEF SessionIsUp, AttemptsInTurn
<1>4. AttemptsInTurn'
  BY <1>1, <1>2, <1>3 DEF SessionIsUp, AttemptsInTurn
<1>5. Down'
  BY <1>1, <1>2, <1>3 DEF Down, Windows!DownOnlyIfIgnored, Ended
<1> QED BY <1>4, <1>5 DEF SessionIsUp

LEMMA SessionKeeps ==
  ASSUME WindowsConstants, WindowsTypeOK, SessionIsUp, Windows!CallersWaitForTheirs, Windows!Next
  PROVE  SessionIsUp'
<1>0. win_pc \in [Windows!Attempts -> Places] /\ 0 \in Windows!Attempts
  BY DEF WindowsConstants, WindowsTypeOK, Windows!Attempts
<1>1. CASE UNCHANGED <<win_connected, Windows!session>> /\ (win_failing => win_failing')
  BY <1>1 DEF Windows!session, SessionIsUp, AttemptsInTurn, Down, Windows!DownOnlyIfIgnored
<1>2. CASE \E a \in Windows!Attempts : AttemptConnects(a)
  <2>1. PICK a \in Windows!Attempts : AttemptConnects(a)
    BY <1>2
  <2>2. CASE (a = 0 /\ Windows!Open) \/ Windows!Reconnect(a) \/ Windows!ConnectSucceeds(a)
               \/ Windows!ConnectFails(a)
    <3>1. \/ a = 0 /\ win_pc[a] = "none" /\ win_pc' = [win_pc EXCEPT ![a] = "connect"]
             /\ UNCHANGED <<win_connected, win_failing>>
          \/ win_pc[a] = "delay" /\ win_pc' = [win_pc EXCEPT ![a] = "connect"]
             /\ UNCHANGED <<win_connected, win_failing>>
          \/ win_pc[a] = "connect" /\ win_pc' = [win_pc EXCEPT ![a] = "auth"] /\ win_connected'
             /\ win_failing' = win_failing
          \/ win_pc[a] = "connect" /\ win_pc' = [win_pc EXCEPT ![a] = "failed"] /\ win_failing'
             /\ win_connected' = win_connected
      BY <2>2
         DEF Windows!Open, Windows!Reconnect, Windows!ConnectSucceeds, Windows!ConnectFails,
             Windows!network
    <3>2. UNCHANGED <<win_reconnecting, win_scheduling, win_attempt, win_ignored>>
      BY <2>2 DEF Windows!Open, Windows!Reconnect, Windows!ConnectSucceeds, Windows!ConnectFails
    <3> QED BY <3>1, <3>2, AttemptMoves DEF Places, Ended
  <2>3. CASE Windows!ConnectReturnsFalse(a)
    BY <2>3, AttemptOver DEF Windows!ConnectReturnsFalse, Windows!network
  <2> QED BY <2>1, <2>2, <2>3 DEF AttemptConnects
<1>3. CASE Windows!Schedule
  BY <1>3, Scheduled
<1>4. CASE Windows!OnDisconnected
  BY <1>4, Disconnected
<1>5. CASE \E a \in Windows!Attempts : Windows!Authenticate(a)
  <2>1. PICK a \in Windows!Attempts : Windows!Authenticate(a)
    BY <1>5
  <2>2. win_pc[a] = "auth" /\ win_pc' = [win_pc EXCEPT ![a] = "sending"]
        /\ UNCHANGED <<win_connected, win_failing, win_reconnecting, win_scheduling, win_attempt,
                       win_ignored>>
    BY <2>1 DEF Windows!Authenticate, Windows!network
  <2> QED BY <2>2, AttemptMoves DEF Places, Ended
<1>6. CASE \E a \in Windows!Attempts : Windows!Returns(<<"auth", a>>)
  <2>1. PICK a \in Windows!Attempts : Windows!Returns(<<"auth", a>>)
    BY <1>6
  <2>2. UNCHANGED <<win_connected, win_failing>> /\ win_pc[a] \in {"sending", "early"}
    BY <2>1, <1>0 DEF Windows!Returns, Windows!network, Windows!CallersWaitForTheirs
  <2>3. Windows!ContinueLogin(a, win_sends[<<"auth", a>>])
    BY <2>1 DEF Windows!Returns, Windows!Continue
  <2>4. CASE Windows!Over(a)
    BY <2>2, <2>4, AttemptOver
  <2>5. CASE ~Windows!Over(a)
    <3>1. PICK p \in {"waiting", "thrown"} : win_pc' = [win_pc EXCEPT ![a] = p]
      BY <2>3, <2>5 DEF Windows!ContinueLogin
    <3>2. UNCHANGED <<win_reconnecting, win_scheduling, win_attempt, win_ignored>>
      BY <2>3, <2>5 DEF Windows!ContinueLogin
    <3> QED BY <2>2, <3>1, <3>2, AttemptMoves DEF Places, Ended
  <2> QED BY <2>4, <2>5
<1>7. CASE \E a \in Windows!Attempts : Windows!AuthenticateReply(a)
  <2>1. PICK a \in Windows!Attempts : Windows!AuthenticateReply(a)
    BY <1>7
  <2> DEFINE first == Head(win_rpchandler["auth"])
  <2>2. UNCHANGED <<win_connected, win_failing>>
    BY <2>1 DEF Windows!AuthenticateReply, Windows!network
  <2>3. CASE win_rpchandler["auth"] # <<>> /\ win_pc[first] \in {"sending", "waiting"}
    <3>1. first \in Windows!Attempts
      BY <2>3 DEF WindowsTypeOK
    <3>2. CASE win_pc[first] = "waiting"
      <4>1. Windows!Over(first)
        BY <2>1, <2>3, <3>2 DEF Windows!AuthenticateReply
      <4> QED BY <2>2, <3>1, <3>2, <4>1, AttemptOver
    <3>3. CASE win_pc[first] # "waiting"
      <4>1. win_pc' = [win_pc EXCEPT ![first] = "early"] /\ win_pc[first] = "sending"
            /\ UNCHANGED <<win_reconnecting, win_scheduling, win_attempt, win_ignored>>
        BY <2>1, <2>3, <3>3 DEF Windows!AuthenticateReply
      <4> HIDE DEF first
      <4> QED BY <2>2, <3>1, <4>1, AttemptMoves DEF Places, Ended
    <3> QED BY <3>2, <3>3
  <2>4. CASE ~(win_rpchandler["auth"] # <<>> /\ win_pc[first] \in {"sending", "waiting"})
    <3>1. UNCHANGED Windows!session
      BY <2>1, <2>4 DEF Windows!AuthenticateReply
    <3> QED BY <1>1, <2>2, <3>1
  <2> QED BY <2>3, <2>4
<1>8. CASE RaisesDisconnected
  BY <1>8, <1>1, <1>4
     DEF RaisesDisconnected, Windows!CompletedRaises, Windows!ReceiveEnds, Windows!PingFails
<1>9. CASE Windows!LinkFails \/ (\E c \in Callers : Windows!SyncReply(c)) \/ Windows!SendCompletes
             \/ Windows!SendFails
  <2>1. CASE Windows!LinkFails
    BY <2>1, <1>1 DEF Windows!LinkFails
  <2>2. CASE \E c \in Callers : Windows!SyncReply(c)
    BY <2>2, <1>1 DEF Windows!SyncReply, Windows!network
  <2>3. CASE Windows!SendCompletes
    BY <2>3, <1>1 DEF Windows!SendCompletes, Windows!network
  <2>4. CASE Windows!SendFails
    BY <2>4, <1>1 DEF Windows!SendFails, Windows!network
  <2> QED BY <1>9, <2>1, <2>2, <2>3, <2>4
<1>10. CASE \E m \in Windows!Tasks : Windows!SendHeader(m) \/ TaskAdvances(m)
  BY <1>10, <1>1, <1>4
     DEF Windows!SendHeader, TaskAdvances, Windows!Test, Windows!Assign, Windows!SendContinue,
         Windows!Wake, Windows!Compare, Windows!network
<1>11. CASE \E m \in Windows!Tasks : (\A a \in Windows!Attempts : m # <<"auth", a>>)
              /\ Windows!Returns(m)
  <2>1. PICK m \in Windows!Tasks : (\A a \in Windows!Attempts : m # <<"auth", a>>)
               /\ Windows!Returns(m)
    BY <1>11
  <2>2. Windows!Continue(m, win_sends[m]) /\ UNCHANGED <<win_connected, win_failing>>
    BY <2>1 DEF Windows!Returns, Windows!network
  <2>3. UNCHANGED Windows!session
    BY <2>1, <2>2 DEF Windows!Continue, Windows!ContinueSync, Windows!ContinueAnswer
  <2> QED BY <1>1, <2>2, <2>3
<1>12. CASE \E m \in Windows!Tasks : TaskCalls(m)
              /\ \A a \in Windows!Attempts : ~Windows!Authenticate(a)
  <2>1. UNCHANGED <<Windows!network, Windows!session, win_failing>>
    BY <1>12 DEF TaskCalls, Windows!Sync, Windows!Notify, Windows!SyncRequest, Windows!SendContent
  <2> QED BY <2>1, <1>1 DEF Windows!network
<1> QED
  BY <1>2, <1>3, <1>5, <1>6, <1>7, <1>8, <1>9, <1>10, <1>11, <1>12, StepsOfWindows

LEMMA QueuesKeep ==
  ASSUME WindowsTypeOK, NEW kind \in {"auth", "sync"},
         \/ \E i \in IF kind = "auth" THEN Windows!Attempts ELSE Callers : Windows!Enqueue(kind, i)
         \/ win_rpchandler[kind] # <<>>
              /\ win_rpchandler' = [win_rpchandler EXCEPT ![kind] = Tail(@)]
         \/ UNCHANGED win_rpchandler
  PROVE  /\ win_rpchandler' \in [{"auth", "sync"} -> Seq(Windows!Attempts \cup Callers)]
         /\ win_rpchandler'["auth"] \in Seq(Windows!Attempts)
              /\ win_rpchandler'["sync"] \in Seq(Callers)
<1>1. /\ win_rpchandler \in [{"auth", "sync"} -> Seq(Windows!Attempts \cup Callers)]
      /\ win_rpchandler["auth"] \in Seq(Windows!Attempts) /\ win_rpchandler["sync"] \in Seq(Callers)
  BY DEF WindowsTypeOK
<1>2. CASE \E i \in IF kind = "auth" THEN Windows!Attempts ELSE Callers : Windows!Enqueue(kind, i)
  <2>1. PICK i \in IF kind = "auth" THEN Windows!Attempts ELSE Callers : Windows!Enqueue(kind, i)
    BY <1>2
  <2>2. Append(win_rpchandler[kind], i) \in Seq(Windows!Attempts \cup Callers)
    BY <1>1
  <2>3. kind = "auth" => Append(win_rpchandler[kind], i) \in Seq(Windows!Attempts)
    BY <1>1
  <2>4. kind = "sync" => Append(win_rpchandler[kind], i) \in Seq(Callers)
    BY <1>1
  <2> QED BY <1>1, <2>1, <2>2, <2>3, <2>4 DEF Windows!Enqueue
<1>3. CASE win_rpchandler[kind] # <<>>
             /\ win_rpchandler' = [win_rpchandler EXCEPT ![kind] = Tail(@)]
  <2>1. /\ Tail(win_rpchandler[kind]) \in Seq(Windows!Attempts \cup Callers)
        /\ kind = "auth" => Tail(win_rpchandler[kind]) \in Seq(Windows!Attempts)
        /\ kind = "sync" => Tail(win_rpchandler[kind]) \in Seq(Callers)
    BY <1>1, <1>3
  <2> QED BY <1>1, <1>3, <2>1
<1> QED BY <1>1, <1>2, <1>3

(* The task's own tuple differs from the others'.                            *)
LEMMA TasksDiffer ==
  /\ \A a \in Windows!Attempts : <<"auth", a>> \in Windows!Tasks
       /\ <<"auth", a>> \in Windows!Requests
  /\ \A c \in Callers : <<"sync", c>> \in Windows!Tasks /\ <<"sync", c>> \in Windows!Requests
  /\ \A k \in Contents : /\ <<"notify", k>> \in Windows!Tasks /\ <<"response", k>> \in Windows!Tasks
                       /\ <<"content", k>> \in Windows!Tasks
  /\ \A m \in Windows!Tasks : m # Windows!Null /\ m # Windows!Kept
  /\ \A kind1, kind2, i, j : <<kind1, i>> = <<kind2, j>> <=> kind1 = kind2 /\ i = j
BY DEF Windows!Tasks, Windows!Requests, Windows!Null, Windows!Kept

LEMMA CallMoves ==
  ASSUME WindowsTypeOK, NEW m \in Windows!Tasks, NEW step, Windows!Move(m, step)
  PROVE  /\ win_sends'[m] = step /\ \A n \in Windows!Tasks : n # m => win_sends'[n] = win_sends[n]
         /\ step \in Steps => win_sends' \in [Windows!Tasks -> Steps]
BY DEF WindowsTypeOK, Windows!Move

LEMMA TypesKeep ==
  ASSUME WindowsConstants, WindowsTypeOK, Windows!CallersWaitForTheirs, Windows!Next
  PROVE  WindowsTypeOK'
<1>1. CASE \E a \in Windows!Attempts : AttemptConnects(a)
  BY <1>1
     DEF WindowsTypeOK, AttemptConnects, Windows!Open, Windows!Reconnect, Windows!ConnectSucceeds,
         Windows!ConnectFails, Windows!ConnectReturnsFalse, Windows!Over, Places, Windows!network,
         Windows!sending, Windows!replies, Windows!clips
<1>2. CASE Windows!Schedule
  <2>1. win_attempt + 1 \in Windows!Attempts
    BY <1>2 DEF WindowsConstants, WindowsTypeOK, Windows!Attempts, Windows!Schedule
  <2> QED BY <1>2, <2>1
     DEF WindowsTypeOK, Windows!Schedule, Places, Windows!network, Windows!sending, Windows!replies,
         Windows!clips
<1>3. CASE RaisesDisconnected
  BY <1>3
     DEF WindowsTypeOK, RaisesDisconnected, Windows!CompletedRaises, Windows!ReceiveEnds,
         Windows!PingFails, Windows!OnDisconnected, Windows!network, Windows!session,
         Windows!sending, Windows!replies, Windows!clips
<1>4. CASE \E m \in Windows!Tasks : TaskCalls(m)
  <2>1. CASE \E a \in Windows!Attempts : Windows!Authenticate(a)
    <3>1. PICK a \in Windows!Attempts : Windows!Authenticate(a)
      BY <2>1
    <3>2. win_sends' \in [Windows!Tasks -> Steps]
      BY <3>1, TasksDiffer, CallMoves DEF Windows!Authenticate, Windows!Call, Steps
    <3> QED BY <3>1, <3>2, QueuesKeep
       DEF WindowsTypeOK, Windows!Authenticate, Windows!Call, Places, Windows!network, Windows!clips
  <2>2. CASE \E c \in Callers : Windows!Sync(c)
    <3>1. PICK c \in Callers : Windows!Sync(c)
      BY <2>2
    <3>2. win_sends' \in [Windows!Tasks -> Steps]
      BY <3>1, TasksDiffer, CallMoves DEF Windows!Sync, Windows!Call, Steps
    <3> QED BY <3>1, <3>2, QueuesKeep
       DEF WindowsTypeOK, Windows!Sync, Windows!Call, SyncPlaces, Windows!network, Windows!session,
           Windows!clips
  <2>3. CASE \E k \in Contents : Windows!Notify(k)
    BY <2>3
       DEF WindowsTypeOK, Windows!Notify, Windows!Call, Windows!Move, Steps, Windows!network,
           Windows!session, Windows!replies
  <2>4. CASE \E k \in Contents : Windows!SyncRequest(k)
    <3>1. PICK k \in Contents : Windows!SyncRequest(k)
      BY <2>4
    <3>2. win_sends' \in [Windows!Tasks -> Steps]
      BY <3>1, TasksDiffer, CallMoves DEF Windows!SyncRequest, Windows!Call, Steps
    <3>3. win_answer' \in Answers
      BY <3>1 DEF Windows!SyncRequest, Answers
    <3> QED BY <3>1, <3>2, <3>3
       DEF WindowsTypeOK, Windows!SyncRequest, Windows!Call, Windows!network, Windows!session,
           Windows!replies
  <2>5. CASE Windows!SendContent
    <3>0. win_answer' \in Answers /\ win_answer.to \in Contents
      BY <2>5 DEF WindowsTypeOK, Windows!SendContent, Answers, Windows!NoAnswer
    <3>1. <<"content", win_answer.to>> \in Windows!Tasks
      BY <3>0, TasksDiffer
    <3>2. win_sends' \in [Windows!Tasks -> Steps]
      BY <2>5, <3>1, CallMoves DEF Windows!SendContent, Windows!Call, Steps
    <3> QED BY <2>5, <3>0, <3>2
       DEF WindowsTypeOK, Windows!SendContent, Windows!Call, Windows!network, Windows!session,
           Windows!replies
  <2> QED BY <1>4, <2>1, <2>2, <2>3, <2>4, <2>5 DEF TaskCalls
<1>5. CASE \E m \in Windows!Tasks : TaskAdvances(m)
  BY <1>5
     DEF WindowsTypeOK, TaskAdvances, Windows!Test, Windows!Assign, Windows!SendContinue,
         Windows!Wake, Windows!Compare, Windows!Move, Steps, Windows!Owning, Buffers,
         Windows!network, Windows!session, Windows!replies, Windows!clips
<1>6. CASE \E m \in Windows!Tasks : Windows!SendHeader(m)
  <2>1. PICK m \in Windows!Tasks : Windows!SendHeader(m)
    BY <1>6
  <2>2. \E step \in Steps : win_sends' = [win_sends EXCEPT ![m] = step]
    BY <2>1 DEF Windows!SendHeader, Windows!Move, Steps, Windows!Owning
  <2>3. win_sends' \in [Windows!Tasks -> Steps]
    BY <2>2 DEF WindowsTypeOK
  <2>4. win_scheduling' \in Nat /\ win_sendbuf' \in Buffers
    BY <2>1 DEF WindowsTypeOK, Windows!SendHeader, Windows!OnDisconnected, Windows!Kept,
                Windows!session, Buffers
  <2>5. UNCHANGED <<win_attempt, win_pc, win_io, win_rpchandler, win_mail, win_sync, win_answer,
                    win_faults>>
    BY <2>1 DEF Windows!SendHeader, Windows!OnDisconnected, Windows!session, Windows!replies,
                Windows!clips
  <2> QED BY <2>3, <2>4, <2>5 DEF WindowsTypeOK
<1>7. CASE \E m \in Windows!Tasks : Windows!Returns(m)
  <2>1. PICK m \in Windows!Tasks : Windows!Returns(m)
    BY <1>7
  <2>2. UNCHANGED <<win_io, win_rpchandler, win_mail, win_faults>> /\ win_sendbuf' \in Buffers
        /\ win_sends' \in [Windows!Tasks -> Steps] /\ Windows!Continue(m, win_sends[m])
    BY <2>1 DEF WindowsTypeOK, Windows!Returns, Windows!Move, Steps, Buffers, Windows!replies
  <2>3. CASE \E a \in Windows!Attempts : Windows!ContinueLogin(a, win_sends[m])
    BY <2>2, <2>3 DEF WindowsTypeOK, Windows!ContinueLogin, Windows!Over, Places
  <2>4. CASE \E c \in Callers : Windows!ContinueSync(c, win_sends[m])
    BY <2>2, <2>4 DEF WindowsTypeOK, Windows!ContinueSync, SyncPlaces, Windows!session
  <2>5. CASE \E k \in Contents : m \in {<<"response", k>>, <<"content", k>>}
                              /\ \E goes \in BOOLEAN : Windows!ContinueAnswer(goes)
    <3>0. win_sends[m] # "none"
      BY <2>1 DEF Windows!Returns
    <3>1. win_answer.step \in {"responding", "sending"}
      BY <2>5, <3>0 DEF Windows!CallersWaitForTheirs
    <3>2. win_answer # Windows!NoAnswer
      BY <3>1 DEF Windows!NoAnswer
    <3> QED BY <2>2, <2>5, <3>2 DEF WindowsTypeOK, Windows!ContinueAnswer, Answers, Windows!session
  <2>6. CASE UNCHANGED <<Windows!session, win_sync, win_answer, win_lost>>
    BY <2>2, <2>6 DEF WindowsTypeOK, Windows!session
  <2> QED BY <2>2, <2>3, <2>4, <2>5, <2>6 DEF Windows!Continue
<1>8. CASE Windows!SendCompletes \/ Windows!SendFails \/ Windows!LinkFails
  <2>1. CASE Windows!SendCompletes
    BY <2>1
       DEF WindowsTypeOK, Windows!SendCompletes, Buffers, Windows!network, Windows!session,
           Windows!sending, Windows!replies, Windows!clips
  <2>2. CASE Windows!SendFails
    BY <2>2
       DEF WindowsTypeOK, Windows!SendFails, Buffers, Windows!network, Windows!session,
           Windows!sending, Windows!replies, Windows!clips
  <2>3. CASE Windows!LinkFails
    BY <2>3
       DEF WindowsTypeOK, Windows!LinkFails, Windows!LoseMail, Windows!session, Windows!sending,
           Windows!clips
  <2> QED BY <1>8, <2>1, <2>2, <2>3
<1>9. CASE \E a \in Windows!Attempts : Windows!AuthenticateReply(a)
  <2>1. PICK a \in Windows!Attempts : Windows!AuthenticateReply(a)
    BY <1>9
  <2>2. win_attempt' \in Windows!Attempts /\ win_scheduling' \in Nat
          /\ win_pc' \in [Windows!Attempts -> Places]
    BY <2>1 DEF WindowsTypeOK, Windows!AuthenticateReply, Windows!Over, Places, Windows!session
  <2> QED BY <2>1, <2>2, QueuesKeep
     DEF WindowsTypeOK, Windows!AuthenticateReply, Windows!network, Windows!sending, Windows!clips
<1>10. CASE \E c \in Callers : Windows!SyncReply(c)
  <2>1. PICK c \in Callers : Windows!SyncReply(c)
    BY <1>10
  <2>2. win_sync' \in [Callers -> SyncPlaces]
    BY <2>1 DEF WindowsTypeOK, Windows!SyncReply, SyncPlaces
  <2> QED BY <2>1, <2>2, QueuesKeep
     DEF WindowsTypeOK, Windows!SyncReply, Windows!network, Windows!session, Windows!sending,
         Windows!clips
<1> QED
  BY <1>1, <1>2, <1>3, <1>4, <1>5, <1>6, <1>7, <1>8, <1>9, <1>10, StepsOfWindows

LEMMA FreshKeeps ==
  ASSUME WindowsConstants, WindowsTypeOK, SessionIsUp, FreshLink, Turns,
         Windows!CallersWaitForTheirs, HandlersSuffice,
         Windows!Next
  PROVE  FreshLink'
<1>1. CASE \E a \in Windows!Attempts : AttemptConnects(a)
  BY <1>1
     DEF WindowsTypeOK, FreshLink, AttemptConnects, Windows!Open, Windows!Reconnect,
         Windows!ConnectSucceeds, Windows!ConnectFails, Windows!ConnectReturnsFalse, Windows!Over,
         Windows!network, Windows!sending, Windows!replies, Windows!clips
<1>2. CASE Windows!Schedule
  BY <1>2
     DEF WindowsTypeOK, FreshLink, Windows!Schedule, Windows!network, Windows!sending,
         Windows!replies, Windows!clips
<1>3. CASE RaisesDisconnected
  BY <1>3
     DEF WindowsTypeOK, FreshLink, RaisesDisconnected, Windows!CompletedRaises, Windows!ReceiveEnds,
         Windows!PingFails, Windows!OnDisconnected, Windows!network, Windows!session,
         Windows!sending, Windows!replies, Windows!clips
<1>4. CASE \E m \in Windows!Tasks : TaskCalls(m)
  <2>1. CASE \E a \in Windows!Attempts : Windows!Authenticate(a)
    <3>1. PICK a \in Windows!Attempts : Windows!Authenticate(a)
      BY <2>1
    <3>2. win_faults' = win_faults /\ win_link' = win_link /\ win_failing' = win_failing
      BY <3>1 DEF Windows!Authenticate, Windows!network
    <3>3. ~(win_faults = 0 /\ ~win_link)
      <4>1. win_pc[a] = "auth"
        BY <3>1 DEF Windows!Authenticate
      <4>2. win_attempt = 0 /\ a # 0 => win_pc[a] = "none"
        BY DEF SessionIsUp, AttemptsInTurn, Windows!Attempts, WindowsConstants
      <4> QED BY <4>1, <4>2 DEF FreshLink
    <3> QED BY <3>2, <3>3 DEF FreshLink
  <2>2. CASE \E c \in Callers : Windows!Sync(c)
    BY <2>2 DEF FreshLink, Windows!Sync, Windows!network
  <2>3. CASE \E k \in Contents : Windows!Notify(k)
    BY <2>3 DEF FreshLink, Windows!Notify, Windows!network
  <2>4. CASE \E k \in Contents : Windows!SyncRequest(k)
    BY <2>4 DEF FreshLink, Windows!SyncRequest, Windows!network
  <2>5. CASE Windows!SendContent
    BY <2>5 DEF FreshLink, Windows!SendContent, Windows!NoAnswer, Windows!network
  <2> QED BY <1>4, <2>1, <2>2, <2>3, <2>4, <2>5 DEF TaskCalls
<1>5. CASE \E m \in Windows!Tasks : TaskAdvances(m)
  BY <1>5
     DEF WindowsTypeOK, FreshLink, TaskAdvances, Windows!Test, Windows!Assign, Windows!SendContinue,
         Windows!Wake, Windows!Compare, Windows!Move, Steps, Windows!network, Windows!session,
         Windows!replies, Windows!clips
<1>6. CASE \E m \in Windows!Tasks : Windows!SendHeader(m)
  BY <1>6
     DEF WindowsTypeOK, FreshLink, Windows!SendHeader, Windows!OnDisconnected, Windows!Move,
         Windows!session, Windows!replies, Windows!clips
<1>7. CASE \E m \in Windows!Tasks : Windows!Returns(m)
  BY <1>7 DEF FreshLink, Windows!Returns, WindowsTypeOK, Windows!network
<1>8. CASE Windows!SendCompletes \/ Windows!SendFails \/ Windows!LinkFails
  <2>1. CASE Windows!SendCompletes
    BY <2>1
       DEF WindowsTypeOK, FreshLink, Windows!SendCompletes, Windows!network, Windows!session,
           Windows!clips
  <2>2. CASE Windows!SendFails
    BY <2>2
       DEF WindowsTypeOK, FreshLink, Windows!SendFails, Windows!network, Windows!session,
           Windows!clips
  <2>3. CASE Windows!LinkFails
    BY <2>3
       DEF WindowsTypeOK, FreshLink, Windows!LinkFails, Windows!session, Windows!sending,
           Windows!clips
  <2> QED BY <1>8, <2>1, <2>2, <2>3
<1>9. CASE \E a \in Windows!Attempts : Windows!AuthenticateReply(a)
  BY <1>9
     DEF WindowsTypeOK, FreshLink, Windows!AuthenticateReply, Windows!Over, Windows!network,
         Windows!session, Windows!sending, Windows!clips
<1>10. CASE \E c \in Callers : Windows!SyncReply(c)
  BY <1>10
     DEF WindowsTypeOK, FreshLink, Windows!SyncReply, Windows!network, Windows!session,
         Windows!sending, Windows!clips
<1> QED
  BY <1>1, <1>2, <1>3, <1>4, <1>5, <1>6, <1>7, <1>8, <1>9, <1>10, StepsOfWindows

LEMMA CallersKeep ==
  ASSUME WindowsConstants, WindowsTypeOK, SessionIsUp, Windows!CallersWaitForTheirs, Windows!Next
  PROVE  Windows!CallersWaitForTheirs'
<1>1. CASE \E a \in Windows!Attempts : AttemptConnects(a)
  <2>1. PICK a \in Windows!Attempts : AttemptConnects(a)
    BY <1>1
  <2>2. UNCHANGED <<win_sends, win_answer>>
    BY <2>1 DEF AttemptConnects, Windows!Open, Windows!Reconnect, Windows!ConnectSucceeds,
                Windows!ConnectFails, Windows!ConnectReturnsFalse, Windows!sending, Windows!clips
  <2>3. UNCHANGED <<win_sync, win_contentCache>>
    BY <2>1 DEF AttemptConnects, Windows!Open, Windows!Reconnect, Windows!ConnectSucceeds,
                Windows!ConnectFails, Windows!ConnectReturnsFalse, Windows!clips
  <2>4. /\ win_pc[a] \in {"none", "delay", "connect", "failed"}
        /\ \E place \in {"connect", "auth", "failed", "over"} :
             win_pc' = [win_pc EXCEPT ![a] = place]
    BY <2>1 DEF AttemptConnects, Windows!Open, Windows!Reconnect, Windows!ConnectSucceeds,
                Windows!ConnectFails, Windows!ConnectReturnsFalse, Windows!Over
  <2>5. \A b \in Windows!Attempts :
          win_pc'[b] \in {"sending", "early"} <=> win_pc[b] \in {"sending", "early"}
    BY <2>4 DEF WindowsTypeOK
  <2> QED BY <2>2, <2>3, <2>5 DEF Windows!CallersWaitForTheirs
<1>2. CASE Windows!Schedule
  <2>1. win_attempt + 1 \in Windows!Attempts
    BY <1>2 DEF WindowsConstants, WindowsTypeOK, Windows!Attempts, Windows!Schedule
  <2>2. win_pc[win_attempt + 1] = "none"
    BY <1>2, <2>1 DEF SessionIsUp, AttemptsInTurn, WindowsTypeOK, Windows!Attempts
  <2> QED BY <1>2, <2>1, <2>2
     DEF WindowsTypeOK, Windows!CallersWaitForTheirs, Windows!Schedule, Windows!network,
         Windows!sending, Windows!replies, Windows!clips
<1>3. CASE RaisesDisconnected
  BY <1>3
     DEF WindowsTypeOK, Windows!CallersWaitForTheirs, RaisesDisconnected, Windows!CompletedRaises,
         Windows!ReceiveEnds, Windows!PingFails, Windows!OnDisconnected, Windows!network,
         Windows!session, Windows!sending, Windows!replies, Windows!clips
<1>4. CASE \E m \in Windows!Tasks : TaskCalls(m)
  <2>1. CASE \E a \in Windows!Attempts : Windows!Authenticate(a)
    BY <2>1
       DEF WindowsTypeOK, Windows!CallersWaitForTheirs, Windows!Authenticate, Windows!Call,
           Windows!Move, Windows!Tasks, Windows!Requests, Windows!network, Windows!clips
  <2>2. CASE \E c \in Callers : Windows!Sync(c)
    BY <2>2
       DEF WindowsTypeOK, Windows!CallersWaitForTheirs, Windows!Sync, Windows!Call, Windows!Move,
           Windows!Tasks, Windows!Requests, Windows!network, Windows!session, Windows!clips
  <2>3. CASE \E k \in Contents : Windows!Notify(k)
    BY <2>3
       DEF WindowsTypeOK, Windows!CallersWaitForTheirs, Windows!Notify, Windows!Call, Windows!Move,
           Windows!Tasks, Windows!network, Windows!session, Windows!replies
  <2>4. CASE \E k \in Contents : Windows!SyncRequest(k)
    BY <2>4
       DEF WindowsTypeOK, Windows!CallersWaitForTheirs, Windows!SyncRequest, Windows!Call,
           Windows!Move, Windows!Tasks, Windows!NoAnswer, Windows!network, Windows!session,
           Windows!replies
  <2>5. CASE Windows!SendContent
    BY <2>5
       DEF WindowsTypeOK, Windows!CallersWaitForTheirs, Windows!SendContent, Windows!Call,
           Windows!Move, Windows!Tasks, Answers, Windows!NoAnswer, Windows!network, Windows!session,
           Windows!replies
  <2> QED BY <1>4, <2>1, <2>2, <2>3, <2>4, <2>5 DEF TaskCalls
<1>5. CASE \E m \in Windows!Tasks : TaskAdvances(m) \/ Windows!SendHeader(m)
  <2>1. PICK m \in Windows!Tasks : TaskAdvances(m) \/ Windows!SendHeader(m)
    BY <1>5
  <2>2. /\ win_sends[m] # "none" /\ win_sends'[m] # "none" /\ \A n \in Windows!Tasks : n # m
             => win_sends'[n] = win_sends[n]
    BY <2>1
       DEF WindowsTypeOK, TaskAdvances, Windows!Test, Windows!Assign, Windows!SendHeader,
           Windows!SendContinue, Windows!Wake, Windows!Compare, Windows!Move
  <2>3. UNCHANGED <<win_pc, win_sync, win_contentCache, win_answer>>
    BY <2>1
       DEF TaskAdvances, Windows!Test, Windows!Assign, Windows!SendHeader, Windows!SendContinue,
           Windows!Wake, Windows!Compare, Windows!OnDisconnected, Windows!session, Windows!clips
  <2> QED BY <2>2, <2>3 DEF Windows!CallersWaitForTheirs, Windows!Tasks, Windows!Requests
<1>7. CASE \E m \in Windows!Tasks : Windows!Returns(m)
  <2>1. PICK m \in Windows!Tasks : Windows!Returns(m)
    BY <1>7
  <2>2. /\ UNCHANGED win_contentCache /\ Windows!Continue(m, win_sends[m])
        /\ win_sends[m] # "none" /\ win_sends'[m] = "none" /\ \A n \in Windows!Tasks : n # m
             => win_sends'[n] = win_sends[n]
    BY <2>1 DEF WindowsTypeOK, Windows!Returns, Windows!Move
  <2>3. ASSUME NEW a \in Windows!Attempts, m = <<"auth", a>>, Windows!ContinueLogin(a, win_sends[m])
        PROVE  Windows!CallersWaitForTheirs'
    <3>1. win_pc' \in [Windows!Attempts -> Places] /\ win_pc'[a] \notin {"sending", "early"}
          /\ (\A b \in Windows!Attempts : b # a => win_pc'[b] = win_pc[b])
               /\ UNCHANGED <<win_sync, win_answer>>
      BY <2>3, TypesKeep DEF WindowsTypeOK, Windows!ContinueLogin, Windows!Over
    <3> QED BY <2>2, <2>3, <3>1, TasksDiffer DEF Windows!CallersWaitForTheirs
  <2>4. ASSUME NEW c \in Callers, m = <<"sync", c>>, Windows!ContinueSync(c, win_sends[m])
        PROVE  Windows!CallersWaitForTheirs'
    <3>1. win_sync'[c] \notin {"sending", "early"}
          /\ (\A d \in Callers : d # c => win_sync'[d] = win_sync[d])
               /\ UNCHANGED <<win_pc, win_answer>>
      BY <2>2, <2>4
         DEF WindowsTypeOK, Windows!CallersWaitForTheirs, Windows!ContinueSync, Windows!session
    <3> QED BY <2>2, <2>4, <3>1, TasksDiffer DEF Windows!CallersWaitForTheirs
  <2>5. ASSUME NEW k \in Contents,
               \/ m = <<"notify", k>>
                    /\ UNCHANGED <<Windows!session, win_sync, win_answer, win_lost>>
               \/ m = <<"response", k>> /\ Windows!ContinueAnswer(win_sends[m] = "sent")
               \/ m = <<"content", k>> /\ Windows!ContinueAnswer(FALSE)
        PROVE  Windows!CallersWaitForTheirs'
    <3>1. UNCHANGED <<win_pc, win_sync>>
      BY <2>5 DEF Windows!ContinueAnswer, Windows!session
    <3>2. CASE m = <<"notify", k>>
      BY <2>2, <2>5, <3>1, <3>2, TasksDiffer DEF Windows!CallersWaitForTheirs
    <3>3. CASE m = <<"response", k>>
      <4>1. win_answer.step = "responding" /\ win_answer.to = k
        BY <2>2, <3>3 DEF Windows!CallersWaitForTheirs
      <4>2. win_answer'.step \notin {"responding", "sending"}
        BY <2>5, <3>3, TasksDiffer
           DEF Windows!ContinueAnswer, Windows!NoAnswer, WindowsTypeOK, Answers
      <4> QED BY <2>2, <3>1, <3>3, <4>1, <4>2, TasksDiffer DEF Windows!CallersWaitForTheirs
    <3>4. CASE m = <<"content", k>>
      <4>1. win_answer.step = "sending" /\ win_answer.to = k
        BY <2>2, <3>4 DEF Windows!CallersWaitForTheirs
      <4>2. win_answer'.step \notin {"responding", "sending"}
        BY <2>5, <3>4, TasksDiffer DEF Windows!ContinueAnswer, Windows!NoAnswer
      <4> QED BY <2>2, <3>1, <3>4, <4>1, <4>2, TasksDiffer DEF Windows!CallersWaitForTheirs
    <3> QED BY <2>5, <3>2, <3>3, <3>4
  <2> QED BY <2>2, <2>3, <2>4, <2>5 DEF Windows!Continue
<1>8. CASE Windows!SendCompletes \/ Windows!SendFails \/ Windows!LinkFails
  <2>1. UNCHANGED <<win_pc, win_sync, win_sends, win_contentCache, win_answer>>
    BY <1>8
       DEF Windows!SendCompletes, Windows!SendFails, Windows!LinkFails, Windows!session,
           Windows!sending, Windows!clips
  <2> QED BY <2>1 DEF Windows!CallersWaitForTheirs
<1>9. CASE \E a \in Windows!Attempts : Windows!AuthenticateReply(a)
  BY <1>9
     DEF WindowsTypeOK, Windows!CallersWaitForTheirs, Windows!AuthenticateReply, Windows!Over,
         Windows!network, Windows!session, Windows!sending, Windows!clips
<1>10. CASE \E c \in Callers : Windows!SyncReply(c)
  BY <1>10
     DEF WindowsTypeOK, Windows!CallersWaitForTheirs, Windows!SyncReply, Windows!network,
         Windows!session, Windows!sending, Windows!clips
<1> QED
  BY <1>1, <1>2, <1>3, <1>4, <1>5, <1>7, <1>8, <1>9, <1>10, StepsOfWindows

LEMMA TurnsKeep ==
  ASSUME WindowsConstants, WindowsTypeOK, SessionIsUp, FreshLink, Turns,
         Windows!CallersWaitForTheirs, Windows!Next
  PROVE  Turns'
<1> USE DEF Turns
<1>1. CASE UNCHANGED Windows!sending /\ (win_faults > 0 => win_faults' > 0)
  BY <1>1 DEF Windows!SendsTakeTurns, Raceless, OneOwner, Windows!sending
<1>2. CASE \/ \E a \in Windows!Attempts : AttemptConnects(a) \/ Windows!AuthenticateReply(a)
           \/ Windows!Schedule \/ RaisesDisconnected \/ Windows!LinkFails
                \/ \E c \in Callers : Windows!SyncReply(c)
  <2>1. UNCHANGED Windows!sending /\ (win_faults' = win_faults \/ win_faults' = win_faults + 1)
    BY <1>2
       DEF AttemptConnects, Windows!Open, Windows!Reconnect, Windows!ConnectSucceeds,
           Windows!ConnectFails, Windows!ConnectReturnsFalse, Windows!AuthenticateReply,
           Windows!Schedule, RaisesDisconnected, Windows!CompletedRaises, Windows!ReceiveEnds,
           Windows!PingFails, Windows!LinkFails, Windows!SyncReply
  <2> QED BY <1>1, <2>1 DEF WindowsTypeOK
<1>3. CASE \E m \in Windows!Tasks : TaskCalls(m)
  <2>1. PICK m \in Windows!Tasks : TaskCalls(m)
    BY <1>3
  <2>2. win_sends[m] = "none"
    <3>1. CASE \E a \in Windows!Attempts : m = <<"auth", a>> /\ Windows!Authenticate(a)
      BY <3>1 DEF Windows!Authenticate, Windows!CallersWaitForTheirs
    <3>2. CASE \E c \in Callers : m = <<"sync", c>> /\ Windows!Sync(c)
      BY <3>2 DEF Windows!Sync, Windows!CallersWaitForTheirs
    <3>3. CASE \E k \in Contents : m = <<"notify", k>> /\ Windows!Notify(k)
      BY <3>3 DEF Windows!Notify, Windows!CallersWaitForTheirs
    <3>4. CASE \E k \in Contents : m = <<"response", k>> /\ Windows!SyncRequest(k)
      <4>1. win_answer.step = "none"
        BY <3>4 DEF Windows!SyncRequest, Windows!NoAnswer
      <4> QED BY <3>4, <4>1 DEF Windows!CallersWaitForTheirs
    <3>5. CASE \E k \in Contents : m = <<"content", k>> /\ win_answer.to = k /\ Windows!SendContent
      BY <3>5 DEF Windows!SendContent, Windows!CallersWaitForTheirs
    <3> QED BY <2>1, <3>1, <3>2, <3>3, <3>4, <3>5 DEF TaskCalls
  <2>3. Windows!Call(m) /\ UNCHANGED win_faults
    BY <2>1
       DEF TaskCalls, Windows!Authenticate, Windows!Sync, Windows!Notify, Windows!SyncRequest,
           Windows!SendContent
  <2>4. /\ win_sends'[m] = "called" /\ \A n \in Windows!Tasks : n # m
             => win_sends'[n] = win_sends[n]
        /\ UNCHANGED <<win_sendbuf, win_sendbytes, win_io, win_sendsignal, win_raced,
                       win_overlapped, win_crashed, win_faults>>
    BY <2>3, CallMoves DEF Windows!Call
  <2> QED BY <2>2, <2>4 DEF Windows!SendsTakeTurns, Raceless, OneOwner, Windows!Owning, Beyond
<1>4. CASE \E m \in Windows!Tasks : Windows!Test(m)
  <2>1. PICK m \in Windows!Tasks : Windows!Test(m)
    BY <1>4
  <2>2. /\ win_sends[m] = "called" /\ \A n \in Windows!Tasks : n # m => win_sends'[n] = win_sends[n]
        /\ win_sends'[m] = IF win_sendbuf = Windows!Null /\ win_sendbytes = 0 THEN "passed"
             ELSE "false"
        /\ win_raced' = (win_raced \/ (win_sendbuf = Windows!Null /\ win_sendbytes = 0
                              /\ \E n \in Windows!Tasks : win_sends[n] = "passed"))
        /\ UNCHANGED <<win_sendbuf, win_sendbytes, win_io, win_sendsignal, win_overlapped,
                       win_crashed, win_faults>>
    BY <2>1, CallMoves DEF Windows!Test
  <2>3. Windows!SendsTakeTurns'
    BY <2>2 DEF Windows!SendsTakeTurns, Windows!Owning
  <2>4. OneOwner'
    BY <2>2 DEF OneOwner
  <2>5. Raceless'
    <3>0. SUFFICES ASSUME ~win_raced'
                   PROVE  Raceless'
      BY DEF Raceless
    <3>1. ~win_raced /\ ~win_overlapped
      BY <2>2, <3>0 DEF Windows!SendsTakeTurns
    <3>2. CASE win_sendbuf = Windows!Null /\ win_sendbytes = 0
      <4>1. \A n \in Windows!Tasks : win_sends[n] \notin Beyond
        BY <2>2, <3>0, <3>1, <3>2, TasksDiffer DEF Windows!SendsTakeTurns, Beyond
      <4> QED BY <2>2, <3>2, <4>1 DEF Raceless
    <3>3. CASE ~(win_sendbuf = Windows!Null /\ win_sendbytes = 0)
      BY <2>2, <3>1, <3>3 DEF Raceless, Beyond, Windows!Owning
    <3> QED BY <3>2, <3>3
  <2> QED BY <2>3, <2>4, <2>5
<1>5. CASE \E m \in Windows!Tasks : Windows!Assign(m)
  <2>1. PICK m \in Windows!Tasks : Windows!Assign(m)
    BY <1>5
  <2>2. /\ win_sends[m] = "passed" /\ \A n \in Windows!Tasks : n # m => win_sends'[n] = win_sends[n]
        /\ win_overlapped' = (win_overlapped \/ win_sendbuf # Windows!Null)
        /\ \/ win_sends'[m] = "thrown" /\ win_sendbuf' = win_sendbuf
              /\ win_sendbytes' = IF win_io # Windows!Null THEN win_sendbytes ELSE 0
           \/ win_sends'[m] \in {"header", "data"} /\ win_sendbuf' = m /\ win_sendbytes' = 0
                /\ win_io = Windows!Null
        /\ UNCHANGED <<win_io, win_sendsignal, win_raced, win_crashed, win_faults>>
    BY <2>1, CallMoves DEF Windows!Assign
  <2>3. m # Windows!Null /\ m # Windows!Kept /\ Windows!Null # Windows!Kept
    BY TasksDiffer DEF Windows!Null, Windows!Kept
  <2>4. OneOwner'
    BY <2>2, <2>3 DEF OneOwner, Windows!SendsTakeTurns
  <2>5. Raceless'
    BY <2>2, <2>3 DEF Raceless, Beyond, Windows!Owning
  <2>6. Windows!SendsTakeTurns'
    <3>1. win_overlapped' => win_raced'
      BY <2>2 DEF Windows!SendsTakeTurns, Raceless
    <3>2. win_crashed' => win_overlapped'
      BY <2>2 DEF Windows!SendsTakeTurns
    <3>3. CASE ~win_overlapped'
      <4>1. win_sendbuf = Windows!Null /\ ~win_overlapped /\ win_io = Windows!Null
              /\ ~win_sendsignal
        BY <2>2, <3>3, TasksDiffer DEF OneOwner
      <4>2. \A n \in Windows!Tasks : win_sends[n] \notin Windows!Owning
        BY <4>1, TasksDiffer DEF Windows!SendsTakeTurns
      <4>3. \A n \in Windows!Tasks : n # Windows!Null
        BY TasksDiffer
      <4>4. CASE win_sends'[m] = "thrown" /\ win_sendbuf' = win_sendbuf
        BY <2>2, <2>3, <3>1, <3>2, <4>1, <4>2, <4>3, <4>4 DEF Windows!SendsTakeTurns, Windows!Owning
      <4>5. CASE win_sends'[m] \in {"header", "data"} /\ win_sendbuf' = m
        BY <2>2, <2>3, <3>1, <3>2, <4>1, <4>2, <4>3, <4>5 DEF Windows!SendsTakeTurns, Windows!Owning
      <4> QED BY <2>2, <4>4, <4>5
    <3> QED BY <3>1, <3>2, <3>3 DEF Windows!SendsTakeTurns
  <2> QED BY <2>4, <2>5, <2>6
<1>6. CASE \E m \in Windows!Tasks : Windows!SendHeader(m)
  <2>1. PICK m \in Windows!Tasks : Windows!SendHeader(m)
    BY <1>6
  <2>2. /\ win_sends[m] = "header" /\ \A n \in Windows!Tasks : n # m => win_sends'[n] = win_sends[n]
        /\ \/ win_sends'[m] = (IF win_sendbuf = Windows!Null THEN "thrown" ELSE "data")
                /\ win_sendbuf' = win_sendbuf
           \/ win_sends'[m] = "false" /\ win_sendbuf # Windows!Null /\ ~win_link
              /\ win_sendbuf' = IF win_sendbuf = m THEN Windows!Kept ELSE win_sendbuf
        /\ UNCHANGED <<win_io, win_sendbytes, win_sendsignal, win_raced, win_overlapped,
                       win_crashed, win_faults>>
    BY <2>1, CallMoves DEF Windows!SendHeader
  <2>3. m # Windows!Null /\ m # Windows!Kept /\ Windows!Null # Windows!Kept
    BY TasksDiffer DEF Windows!Null, Windows!Kept
  <2>4. ~win_link => win_faults > 0
    BY <2>2 DEF FreshLink, WindowsTypeOK
  <2>5. OneOwner'
    BY <2>2, <2>3 DEF OneOwner, Windows!SendsTakeTurns, Windows!Owning
  <2>6. Raceless'
    BY <2>2, <2>3 DEF Raceless, Beyond, Windows!Owning
  <2>7. Windows!SendsTakeTurns'
    <3>1. CASE win_overlapped
      BY <2>2, <3>1 DEF Windows!SendsTakeTurns
    <3>2. CASE ~win_overlapped
      <4>1. win_sendbuf = m /\ ~win_sendsignal /\ win_io # m
        BY <2>2, <3>2 DEF Windows!SendsTakeTurns, Windows!Owning
      <4>2. \A n \in Windows!Tasks : n # Windows!Null /\ n # Windows!Kept
        BY TasksDiffer
      <4>3. CASE win_sends'[m] = "data" /\ win_sendbuf' = m
        BY <2>2, <2>3, <3>2, <4>1, <4>2, <4>3 DEF Windows!SendsTakeTurns, Windows!Owning
      <4>4. CASE win_sends'[m] = "false" /\ win_sendbuf' = Windows!Kept /\ ~win_link
        BY <2>2, <2>3, <2>4, <3>2, <4>1, <4>2, <4>4 DEF Windows!SendsTakeTurns, Windows!Owning
      <4> QED BY <2>2, <2>3, <4>1, <4>3, <4>4
    <3> QED BY <3>1, <3>2
  <2> QED BY <2>5, <2>6, <2>7
<1>7. CASE \E m \in Windows!Tasks : Windows!SendContinue(m)
  <2>1. PICK m \in Windows!Tasks : Windows!SendContinue(m)
    BY <1>7
  <2>2. /\ win_sends[m] = "data" /\ \A n \in Windows!Tasks : n # m => win_sends'[n] = win_sends[n]
        /\ \/ (win_sendbuf = Windows!Null \/ win_io # Windows!Null \/ win_sendbytes = 1)
                /\ win_sends'[m] = "thrown" /\ win_io' = win_io
           \/ win_sendbuf # Windows!Null /\ win_io = Windows!Null /\ win_sends'[m] = "wait"
                /\ win_io' = win_sendbuf
        /\ UNCHANGED <<win_sendbuf, win_sendbytes, win_sendsignal, win_raced, win_overlapped,
                       win_crashed, win_faults>>
    BY <2>1, CallMoves DEF Windows!SendContinue
  <2>3. m # Windows!Null /\ m # Windows!Kept /\ Windows!Null # Windows!Kept
    BY TasksDiffer DEF Windows!Null, Windows!Kept
  <2>5. OneOwner'
    BY <2>2, <2>3 DEF OneOwner, Windows!SendsTakeTurns, Windows!Owning
  <2>6. Raceless'
    BY <2>2, <2>3 DEF Raceless, Beyond, Windows!Owning
  <2>7. Windows!SendsTakeTurns'
    <3>1. CASE win_overlapped
      BY <2>2, <3>1 DEF Windows!SendsTakeTurns
    <3>2. CASE ~win_overlapped
      <4>1. win_sendbuf = m /\ ~win_sendsignal /\ win_io = Windows!Null /\ win_sendbytes = 0
        BY <2>2, <3>2 DEF Windows!SendsTakeTurns, OneOwner, Windows!Owning
      <4>2. win_sends'[m] = "wait" /\ win_io' = m
        BY <2>2, <2>3, <4>1
      <4> QED BY <2>2, <2>3, <3>2, <4>1, <4>2 DEF Windows!SendsTakeTurns, Windows!Owning
    <3> QED BY <3>1, <3>2
  <2> QED BY <2>5, <2>6, <2>7
<1>8. CASE \E m \in Windows!Tasks : Windows!Wake(m) \/ Windows!Compare(m) \/ Windows!Returns(m)
  <2>1. PICK m \in Windows!Tasks : Windows!Wake(m) \/ Windows!Compare(m) \/ Windows!Returns(m)
    BY <1>8
  <2>2. /\ \A n \in Windows!Tasks : n # m => win_sends'[n] = win_sends[n]
        /\ \/ win_sends[m] = "wait" /\ win_sendsignal /\ win_sends'[m] = "woken" /\ ~win_sendsignal'
              /\ UNCHANGED <<win_sendbuf, win_sendbytes>>
           \/ win_sends[m] = "woken" /\ win_sends'[m] \in {"sent", "short", "thrown"}
              /\ (win_sends'[m] = "thrown" => win_sendbuf = Windows!Null)
              /\ UNCHANGED <<win_sendbuf, win_sendbytes, win_sendsignal>>
           \/ win_sends[m] \in {"sent", "short"} /\ win_sends'[m] = "none"
              /\ win_sendbuf' = Windows!Null /\ win_sendbytes' = 0 /\ UNCHANGED win_sendsignal
           \/ win_sends[m] \in {"false", "thrown"} /\ win_sends'[m] = "none"
              /\ UNCHANGED <<win_sendbuf, win_sendbytes, win_sendsignal>>
        /\ UNCHANGED <<win_io, win_raced, win_overlapped, win_crashed, win_faults>>
    BY <2>1, CallMoves DEF Windows!Wake, Windows!Compare, Windows!Returns
  <2>3. m # Windows!Null /\ m # Windows!Kept /\ Windows!Null # Windows!Kept
    BY TasksDiffer DEF Windows!Null, Windows!Kept
  <2>5. OneOwner'
    BY <2>2, <2>3 DEF OneOwner, Windows!SendsTakeTurns, Windows!Owning
  <2>6. Raceless'
    BY <2>2, <2>3 DEF Raceless, Beyond, Windows!Owning
  <2>7. Windows!SendsTakeTurns'
    <3>1. CASE win_overlapped
      BY <2>2, <3>1 DEF Windows!SendsTakeTurns
    <3>2. CASE ~win_overlapped
      <4>1. win_sends[m] \in Windows!Owning => win_sendbuf = m /\ \A n \in Windows!Tasks : n # m
              => win_sends[n] \notin Windows!Owning
        BY <3>2 DEF Windows!SendsTakeTurns
      <4>2. CASE win_sends[m] = "wait" /\ win_sendsignal
        BY <2>2, <2>3, <3>2, <4>1, <4>2 DEF Windows!SendsTakeTurns, Windows!Owning
      <4>3. CASE win_sends[m] = "woken"
        BY <2>2, <2>3, <3>2, <4>1, <4>3 DEF Windows!SendsTakeTurns, Windows!Owning
      <4>4. CASE win_sends[m] \in {"sent", "short"}
        <5>1. win_io = Windows!Null /\ ~win_sendsignal
          BY <2>2, <3>2, <4>1, <4>4 DEF Windows!SendsTakeTurns, OneOwner, Windows!Owning
        <5> QED BY <2>2, <2>3, <3>2, <4>1, <4>4, <5>1, TasksDiffer
           DEF Windows!SendsTakeTurns, Windows!Owning
      <4>5. CASE win_sends[m] \in {"false", "thrown"}
        BY <2>2, <2>3, <3>2, <4>5 DEF Windows!SendsTakeTurns, Windows!Owning
      <4> QED BY <2>2, <4>2, <4>3, <4>4, <4>5
    <3> QED BY <3>1, <3>2
  <2> QED BY <2>5, <2>6, <2>7
<1>9. CASE Windows!SendCompletes \/ Windows!SendFails
  <2>2. /\ win_io # Windows!Null
        /\ \/ win_sendbuf = Windows!Null /\ win_crashed'
                /\ UNCHANGED <<win_sendbytes, win_io, win_sendsignal>>
           \/ win_sendbuf # Windows!Null /\ win_sendbytes' = 1 /\ win_io' = Windows!Null
                /\ win_sendsignal' /\ UNCHANGED win_crashed
           \/ win_io' = Windows!Null /\ win_sendsignal' /\ UNCHANGED <<win_sendbytes, win_crashed>>
        /\ UNCHANGED <<win_sendbuf, win_sends, win_raced, win_overlapped, win_faults>>
    BY <1>9 DEF Windows!SendCompletes, Windows!SendFails
  <2>3. OneOwner'
    BY <2>2 DEF OneOwner, Windows!SendsTakeTurns, Windows!Owning
  <2>4. Raceless'
    BY <2>2 DEF Raceless
  <2>5. Windows!SendsTakeTurns'
    BY <2>2 DEF Windows!SendsTakeTurns, OneOwner, Windows!Owning
  <2> QED BY <2>3, <2>4, <2>5
<1> QED
  BY <1>2, <1>3, <1>4, <1>5, <1>6, <1>7, <1>8, <1>9, StepsOfWindows DEF TaskAdvances

(* The handlers still suffice if none has gone and nothing more is pending.  *)
LEMMA NothingPends ==
  ASSUME WindowsTypeOK, Suffice, ~win_overlapped, NEW kind \in {"auth", "sync"},
         Pending(kind)' \subseteq Pending(kind), win_rpchandler'[kind] = win_rpchandler[kind]
  PROVE  IsFiniteSet(Pending(kind)') /\ Cardinality(Pending(kind)') <= Len(win_rpchandler'[kind])
<1>1. IsFiniteSet(Pending(kind)) /\ Cardinality(Pending(kind)) <= Len(win_rpchandler[kind])
  BY DEF Suffice
<1>2. /\ IsFiniteSet(Pending(kind)')
      /\ Cardinality(Pending(kind)') <= Cardinality(Pending(kind))
  BY <1>1, FS_Subset
<1>3. /\ Cardinality(Pending(kind)) \in Nat /\ Cardinality(Pending(kind)') \in Nat
      /\ Len(win_rpchandler[kind]) \in Nat
  BY <1>1, <1>2, FS_CardinalityType DEF WindowsTypeOK
<1> QED BY <1>1, <1>2, <1>3

(* A call queues its handler and is pending from then on.                    *)
LEMMA OneMorePends ==
  ASSUME WindowsTypeOK, Suffice, ~win_overlapped, NEW kind \in {"auth", "sync"},
         NEW m, NEW i, Pending(kind)' \subseteq Pending(kind) \cup {m}, Windows!Enqueue(kind, i)
  PROVE  IsFiniteSet(Pending(kind)') /\ Cardinality(Pending(kind)') <= Len(win_rpchandler'[kind])
<1> DEFINE more == Pending(kind) \cup {m}
<1>1. IsFiniteSet(Pending(kind)) /\ Cardinality(Pending(kind)) <= Len(win_rpchandler[kind])
  BY DEF Suffice
<1>2. IsFiniteSet(more) /\ (Cardinality(more) = Cardinality(Pending(kind))
                            \/ Cardinality(more) = Cardinality(Pending(kind)) + 1)
  BY <1>1, FS_AddElement
<1>3. IsFiniteSet(Pending(kind)') /\ Cardinality(Pending(kind)') <= Cardinality(more)
  BY <1>2, FS_Subset
<1>4. /\ Cardinality(Pending(kind)) \in Nat /\ Cardinality(Pending(kind)') \in Nat
      /\ Cardinality(more) \in Nat
  BY <1>1, <1>2, <1>3, FS_CardinalityType
<1>5. /\ Len(win_rpchandler[kind]) \in Nat
      /\ Len(win_rpchandler'[kind]) = Len(win_rpchandler[kind]) + 1
  <2>1. win_rpchandler[kind] \in Seq(Windows!Attempts \cup Callers)
        /\ win_rpchandler'[kind] = Append(win_rpchandler[kind], i)
    BY DEF WindowsTypeOK, Windows!Enqueue
  <2> HIDE DEF more
  <2> QED BY <2>1
<1> HIDE DEF more
<1> QED BY <1>1, <1>2, <1>3, <1>4, <1>5

(* A reply takes the first handler with it, and there is one.                *)
LEMMA OneLessPends ==
  ASSUME WindowsTypeOK, Suffice, ~win_overlapped, NEW kind \in {"auth", "sync"},
         NEW m \in Pending(kind), Pending(kind)' \subseteq Pending(kind) \ {m},
         win_rpchandler[kind] # <<>> => win_rpchandler' = [win_rpchandler EXCEPT ![kind] = Tail(@)]
  PROVE  IsFiniteSet(Pending(kind)') /\ Cardinality(Pending(kind)') <= Len(win_rpchandler'[kind])
<1> DEFINE less == Pending(kind) \ {m}
<1>1. IsFiniteSet(Pending(kind)) /\ Cardinality(Pending(kind)) <= Len(win_rpchandler[kind])
  BY DEF Suffice
<1>2. IsFiniteSet(less) /\ Cardinality(less) = Cardinality(Pending(kind)) - 1
  BY <1>1, FS_RemoveElement
<1>3. IsFiniteSet(Pending(kind)') /\ Cardinality(Pending(kind)') <= Cardinality(less)
  BY <1>2, FS_Subset
<1>4. /\ Cardinality(Pending(kind)) \in Nat /\ Cardinality(Pending(kind)') \in Nat
      /\ Cardinality(less) \in Nat
  BY <1>1, <1>2, <1>3, FS_CardinalityType
<1> HIDE DEF less
<1>5. win_rpchandler[kind] \in Seq(Windows!Attempts \cup Callers) /\ Len(win_rpchandler[kind]) >= 1
  BY <1>1, <1>2, <1>4 DEF WindowsTypeOK
<1>6. win_rpchandler[kind] # <<>>
  BY <1>5
<1>7. win_rpchandler'[kind] = Tail(win_rpchandler[kind])
  BY <1>6 DEF WindowsTypeOK
<1>8. Len(win_rpchandler'[kind]) = Len(win_rpchandler[kind]) - 1
        /\ Len(win_rpchandler[kind]) \in Nat
  BY <1>5, <1>6, <1>7
<1> QED BY <1>1, <1>2, <1>3, <1>4, <1>8

LEMMA BeganStays ==
  ASSUME WindowsConstants, WindowsTypeOK, SessionIsUp, Windows!CallersWaitForTheirs, Windows!Next,
         NEW m, Began(m)
  PROVE  Began(m)'
<1>1. /\ \A a \in Windows!Attempts : win_pc[a] \notin Before => win_pc'[a] \notin Before
      /\ \A c \in Callers : win_sync[c] # "idle" => win_sync'[c] # "idle"
  <2>1. CASE \E a \in Windows!Attempts : AttemptConnects(a)
    BY <2>1
       DEF WindowsTypeOK, AttemptConnects, Windows!Open, Windows!Reconnect, Windows!ConnectSucceeds,
           Windows!ConnectFails, Windows!ConnectReturnsFalse, Windows!Over, Before
  <2>2. CASE Windows!Schedule
    <3>1. win_attempt + 1 \in Windows!Attempts
      BY <2>2 DEF WindowsConstants, WindowsTypeOK, Windows!Attempts, Windows!Schedule
    <3>2. win_pc[win_attempt + 1] = "none"
      BY <2>2, <3>1 DEF SessionIsUp, AttemptsInTurn, WindowsTypeOK, Windows!Attempts
    <3> QED BY <2>2, <3>1, <3>2 DEF WindowsTypeOK, Windows!Schedule, Before
  <2>3. CASE RaisesDisconnected \/ Windows!SendCompletes \/ Windows!SendFails \/ Windows!LinkFails
    BY <2>3
       DEF RaisesDisconnected, Windows!CompletedRaises, Windows!ReceiveEnds, Windows!PingFails,
           Windows!OnDisconnected, Windows!SendCompletes, Windows!SendFails, Windows!LinkFails,
           Windows!session
  <2>4. CASE \E n \in Windows!Tasks : TaskCalls(n)
    <3>1. CASE \E a \in Windows!Attempts : Windows!Authenticate(a)
      BY <3>1 DEF WindowsTypeOK, Windows!Authenticate, Before
    <3>2. CASE \E c \in Callers : Windows!Sync(c)
      BY <3>2 DEF WindowsTypeOK, Windows!Sync, Windows!session
    <3>3. CASE Windows!SendContent \/ \E k \in Contents : Windows!Notify(k)
                 \/ Windows!SyncRequest(k)
      BY <3>3 DEF Windows!SendContent, Windows!Notify, Windows!SyncRequest, Windows!session
    <3> QED BY <2>4, <3>1, <3>2, <3>3 DEF TaskCalls
  <2>5. CASE \E n \in Windows!Tasks : TaskAdvances(n) \/ Windows!SendHeader(n)
    BY <2>5
       DEF TaskAdvances, Windows!Test, Windows!Assign, Windows!SendContinue, Windows!Wake,
           Windows!Compare, Windows!SendHeader, Windows!OnDisconnected, Windows!session
  <2>6. CASE \E n \in Windows!Tasks : Windows!Returns(n)
    <3>1. PICK n \in Windows!Tasks : Windows!Returns(n)
      BY <2>6
    <3>2. Windows!Continue(n, win_sends[n])
      BY <3>1 DEF Windows!Returns
    <3>3. CASE \E a \in Windows!Attempts : Windows!ContinueLogin(a, win_sends[n])
      BY <3>3 DEF WindowsTypeOK, Windows!ContinueLogin, Windows!Over, Before
    <3>4. CASE \E c \in Callers : Windows!ContinueSync(c, win_sends[n])
      BY <3>4 DEF WindowsTypeOK, Windows!ContinueSync, Windows!session
    <3>5. CASE UNCHANGED <<Windows!session, win_sync>>
      BY <3>5 DEF Windows!session
    <3> QED BY <3>2, <3>3, <3>4, <3>5 DEF Windows!Continue, Windows!ContinueAnswer
  <2>7. CASE \E a \in Windows!Attempts : Windows!AuthenticateReply(a)
    BY <2>7 DEF WindowsTypeOK, Windows!AuthenticateReply, Windows!Over, Before, Windows!session
  <2>8. CASE \E c \in Callers : Windows!SyncReply(c)
    BY <2>8 DEF WindowsTypeOK, Windows!SyncReply, Windows!session
  <2> QED BY <2>1, <2>2, <2>3, <2>4, <2>5, <2>6, <2>7, <2>8, StepsOfWindows
<1> QED BY <1>1 DEF Began

(* Whose handler is queued after whose, and what is under way, once no two   *)
(* sends have overlapped.                                                    *)
LEMMA HandlersKeep ==
  ASSUME WindowsConstants, WindowsTypeOK, SessionIsUp, Turns, Windows!CallersWaitForTheirs,
         HandlersSuffice, Windows!Next
  PROVE  HandlersSuffice'
<1>0. SUFFICES ASSUME ~win_overlapped'
               PROVE  HandlersSuffice'
  BY DEF HandlersSuffice, Replied, Suffice
<1>1. /\ ~win_overlapped /\ Suffice /\ win_mail \subseteq Windows!Requests
      /\ \A m \in win_mail : Began(m) /\ win_io # m /\ win_sends[m] \notin Unsent
  <2>1. ~win_overlapped
    BY <1>0, StepsOfWindows
       DEF AttemptConnects, Windows!Open, Windows!Reconnect, Windows!ConnectSucceeds,
           Windows!ConnectFails, Windows!ConnectReturnsFalse, Windows!Schedule, RaisesDisconnected,
           Windows!CompletedRaises, Windows!ReceiveEnds, Windows!PingFails, TaskCalls,
           Windows!Authenticate, Windows!Sync, Windows!Notify, Windows!SyncRequest,
           Windows!SendContent, Windows!Call, TaskAdvances, Windows!Test, Windows!Assign,
           Windows!SendContinue, Windows!Wake, Windows!Compare, Windows!SendHeader, Windows!Returns,
           Windows!SendCompletes, Windows!SendFails, Windows!LinkFails, Windows!AuthenticateReply,
           Windows!SyncReply, Windows!sending
  <2> QED BY <2>1 DEF HandlersSuffice, Replied, WindowsTypeOK
<1>2. ASSUME \A n \in Windows!Requests : win_sends'[n] \in Unsent => win_sends[n] \in Unsent,
             win_io' = win_io \/ win_io' = Windows!Null
               \/ (win_io' \in Windows!Tasks /\ win_sends[win_io'] \in Unsent
                                        /\ win_sends'[win_io'] \notin Unsent
                                             /\ win_mail' = win_mail),
             win_mail' \subseteq win_mail, UNCHANGED win_rpchandler
      PROVE  HandlersSuffice'
  <2>1. \A m \in win_mail' : Began(m)' /\ win_io' # m /\ win_sends'[m] \notin Unsent
    BY <1>1, <1>2, BeganStays, TasksDiffer DEF Windows!Tasks
  <2>2. \A kind \in {"auth", "sync"} : Pending(kind)' \subseteq Pending(kind)
    BY <1>2, TasksDiffer DEF Pending, Windows!Tasks
  <2> QED BY <1>1, <1>2, <2>1, <2>2, NothingPends DEF HandlersSuffice, Replied, Suffice
<1>3. CASE \/ \E a \in Windows!Attempts : AttemptConnects(a)
           \/ Windows!Schedule \/ RaisesDisconnected \/ Windows!LinkFails \/ Windows!SendFails
  <2>1. UNCHANGED <<win_sends, win_rpchandler>> /\ win_mail' \subseteq win_mail
                    /\ (win_io' = win_io \/ win_io' = Windows!Null)
    BY <1>3
       DEF AttemptConnects, Windows!Open, Windows!Reconnect, Windows!ConnectSucceeds,
           Windows!ConnectFails, Windows!ConnectReturnsFalse, Windows!Schedule, RaisesDisconnected,
           Windows!CompletedRaises, Windows!ReceiveEnds, Windows!PingFails, Windows!LinkFails,
           Windows!LoseMail, Windows!SendFails, Windows!sending, Windows!replies
  <2> QED BY <1>2, <2>1
<1>4. CASE \E m \in Windows!Tasks : TaskAdvances(m) \/ Windows!SendHeader(m) \/ Windows!Returns(m)
  <2>1. PICK m \in Windows!Tasks : TaskAdvances(m) \/ Windows!SendHeader(m) \/ Windows!Returns(m)
    BY <1>4
  <2>2. /\ \A n \in Windows!Tasks : n # m => win_sends'[n] = win_sends[n]
        /\ win_sends'[m] \in Unsent => win_sends[m] \in Unsent
        /\ UNCHANGED <<win_mail, win_rpchandler>>
    BY <2>1, CallMoves
       DEF Windows!Test, Windows!Assign, Windows!SendContinue, Windows!Wake, Windows!Compare,
           Windows!SendHeader, Windows!Returns, TaskAdvances, Unsent, Windows!replies
  <2>3. win_io' = win_io
          \/ (win_io' = win_sendbuf /\ win_sends[m] = "data" /\ win_sends'[m] = "wait")
    BY <2>1, CallMoves
       DEF Windows!Test, Windows!Assign, Windows!SendContinue, Windows!Wake, Windows!Compare,
           Windows!SendHeader, Windows!Returns, TaskAdvances
  <2>4. win_sends[m] = "data" => win_sendbuf = m
    BY <1>1 DEF Turns, Windows!SendsTakeTurns, Windows!Owning
  <2> QED BY <1>2, <2>2, <2>3, <2>4 DEF Unsent, Windows!Tasks
<1>5. CASE \E k \in Contents : Windows!Notify(k) \/ Windows!SyncRequest(k)
             \/ (k = win_answer.to /\ Windows!SendContent)
  <2>1. PICK k \in Contents : Windows!Notify(k) \/ Windows!SyncRequest(k)
               \/ (k = win_answer.to /\ Windows!SendContent)
    BY <1>5
  <2>2. \E n \in Windows!Tasks \ Windows!Requests : Windows!Call(n)
    BY <2>1, TasksDiffer
       DEF Windows!Notify, Windows!SyncRequest, Windows!SendContent, Windows!Requests
  <2>3. UNCHANGED <<win_io, win_mail, win_rpchandler>>
                    /\ \A n \in Windows!Requests : win_sends'[n] = win_sends[n]
    BY <2>1, <2>2, CallMoves
       DEF Windows!Notify, Windows!SyncRequest, Windows!SendContent, Windows!Call, Windows!replies,
           Windows!Tasks
  <2> QED BY <1>2, <2>3
<1>6. ASSUME NEW kind \in {"auth", "sync"}, NEW i, <<kind, i>> \in Windows!Requests,
             ~Began(<<kind, i>>),
             Windows!Enqueue(kind, i), Windows!Call(<<kind, i>>), UNCHANGED win_mail
      PROVE  HandlersSuffice'
  <2> DEFINE m == <<kind, i>>
  <2>1. /\ m \in Windows!Tasks /\ m[1] = kind /\ \A n \in Windows!Tasks : n # m
             => win_sends'[n] = win_sends[n]
        /\ UNCHANGED <<win_io, win_mail>>
    BY <1>6, CallMoves DEF Windows!Call, Windows!Tasks
  <2>2. m \notin win_mail
    BY <1>1, <1>6
  <2> HIDE DEF m
  <2>3. \A n \in win_mail' : Began(n)' /\ win_io' # n /\ win_sends'[n] \notin Unsent
    BY <1>1, <2>1, <2>2, BeganStays DEF Windows!Tasks
  <2>4. \A kind2 \in {"auth", "sync"} :
          IF kind2 = kind THEN Pending(kind2)' \subseteq Pending(kind2) \cup {m}
          ELSE Pending(kind2)' \subseteq Pending(kind2)
            /\ win_rpchandler'[kind2] = win_rpchandler[kind2]
    <3>1. \A kind2 \in {"auth", "sync"} : kind2 # kind
            => win_rpchandler'[kind2] = win_rpchandler[kind2]
      BY <1>6 DEF Windows!Enqueue, WindowsTypeOK
    <3>2. \A kind2 \in {"auth", "sync"} :
            IF kind2 = kind THEN Pending(kind2)' \subseteq Pending(kind2) \cup {m}
            ELSE Pending(kind2)' \subseteq Pending(kind2)
      BY <2>1 DEF Pending, Windows!Tasks
    <3> QED BY <3>1, <3>2
  <2> QED BY <1>1, <1>6, <2>3, <2>4, NothingPends, OneMorePends
     DEF HandlersSuffice, Replied, Suffice
<1>7. CASE \E a \in Windows!Attempts : Windows!Authenticate(a)
  <2>1. PICK a \in Windows!Attempts : Windows!Authenticate(a)
    BY <1>7
  <2>2. ~Began(<<"auth", a>>)
    BY <2>1, TasksDiffer DEF Windows!Authenticate, Began, Before
  <2> QED BY <1>6, <2>1, <2>2, TasksDiffer DEF Windows!Authenticate
<1>8. CASE \E c \in Callers : Windows!Sync(c)
  <2>1. PICK c \in Callers : Windows!Sync(c)
    BY <1>8
  <2>2. ~Began(<<"sync", c>>)
    BY <2>1, TasksDiffer DEF Windows!Sync, Began
  <2> QED BY <1>6, <2>1, <2>2, TasksDiffer DEF Windows!Sync
<1>9. CASE Windows!SendCompletes
  <2>1. win_sendbuf # Windows!Null /\ win_io = win_sendbuf /\ win_io \in Windows!Tasks
    <3>1. win_io # Windows!Null /\ win_io = win_sendbuf
      BY <1>1, <1>9 DEF Turns, OneOwner, Windows!SendCompletes
    <3> QED BY <1>1, <3>1 DEF Turns, OneOwner
  <2>2. /\ win_io' = Windows!Null /\ win_mail' \subseteq win_mail
             \cup ({win_io} \cap Windows!Requests)
        /\ UNCHANGED <<win_sends, win_rpchandler>>
    BY <1>9, <2>1 DEF Windows!SendCompletes
  <2>3. win_sends[win_io] = "wait"
    BY <1>1, <2>1 DEF Turns, Windows!SendsTakeTurns
  <2>4. win_io \in Windows!Requests => Began(win_io)
    <3>1. CASE \E a \in Windows!Attempts : win_io = <<"auth", a>>
      BY <2>3, <3>1 DEF Windows!CallersWaitForTheirs, Began, Before
    <3>2. CASE \E c \in Callers : win_io = <<"sync", c>>
      BY <2>3, <3>2 DEF Windows!CallersWaitForTheirs, Began
    <3> QED BY <3>1, <3>2 DEF Windows!Requests
  <2>5. \A m \in win_mail' : Began(m)' /\ win_io' # m /\ win_sends'[m] \notin Unsent
    BY <1>1, <2>1, <2>2, <2>3, <2>4, BeganStays, TasksDiffer DEF Unsent, Windows!Tasks
  <2>6. \A kind \in {"auth", "sync"} : Pending(kind)' \subseteq Pending(kind)
    BY <1>1, <2>2, TasksDiffer DEF Pending, Windows!Tasks
  <2> QED BY <1>1, <2>2, <2>5, <2>6, NothingPends DEF HandlersSuffice, Replied, Suffice
<1>10. ASSUME NEW kind \in {"auth", "sync"}, NEW m \in win_mail, m[1] = kind,
              win_mail' = win_mail \ {m},
              UNCHANGED <<win_io, win_sends>>,
              win_rpchandler' = IF win_rpchandler[kind] = <<>> THEN win_rpchandler
                            ELSE [win_rpchandler EXCEPT ![kind] = Tail(@)]
       PROVE  HandlersSuffice'
  <2>1. \A n \in win_mail' : Began(n)' /\ win_io' # n /\ win_sends'[n] \notin Unsent
    BY <1>1, <1>10, BeganStays
  <2>2. m \in Pending(kind) /\ Pending(kind)' \subseteq Pending(kind) \ {m}
    BY <1>1, <1>10 DEF Pending
  <2>3. \A kind2 \in {"auth", "sync"} : Pending(kind2)' \subseteq Pending(kind2)
    BY <1>10 DEF Pending
  <2>4. \A kind2 \in {"auth", "sync"} : kind2 # kind
          => win_rpchandler'[kind2] = win_rpchandler[kind2]
    BY <1>10 DEF WindowsTypeOK
  <2> QED BY <1>1, <1>10, <2>1, <2>2, <2>3, <2>4, NothingPends, OneLessPends
     DEF HandlersSuffice, Replied, Suffice
<1>11. CASE \E a \in Windows!Attempts : Windows!AuthenticateReply(a)
  <2>1. PICK a \in Windows!Attempts : Windows!AuthenticateReply(a)
    BY <1>11
  <2> QED BY <1>10, <2>1 DEF Windows!AuthenticateReply, Windows!sending
<1>12. CASE \E c \in Callers : Windows!SyncReply(c)
  <2>1. PICK c \in Callers : Windows!SyncReply(c)
    BY <1>12
  <2> QED BY <1>10, <2>1 DEF Windows!SyncReply, Windows!sending
<1> QED BY <1>3, <1>4, <1>5, <1>7, <1>8, <1>9, <1>11, <1>12, StepsOfWindows DEF TaskCalls

LEMMA WindowsBegins ==
  ASSUME WindowsConstants, Windows!Init
  PROVE  WindowsIsUp
<1>1. 0 \in Windows!Attempts /\ Windows!Null # Windows!Kept
  BY DEF WindowsConstants, Windows!Attempts, Windows!Null, Windows!Kept
<1>2. WindowsTypeOK
  BY <1>1 DEF Windows!Init, WindowsTypeOK, Places, SyncPlaces, Steps, Buffers, Answers
<1>3. SessionIsUp
  BY <1>1 DEF Windows!Init, SessionIsUp, AttemptsInTurn, Down, Windows!DownOnlyIfIgnored, Ended
<1>4. FreshLink
  BY <1>1 DEF Windows!Init, FreshLink
<1>5. Turns
  BY <1>1, TasksDiffer
     DEF Windows!Init, Turns, Windows!SendsTakeTurns, Raceless, OneOwner, Windows!Owning, Beyond
<1>6. Windows!CallersWaitForTheirs
  BY TasksDiffer DEF Windows!Init, Windows!CallersWaitForTheirs, Windows!NoAnswer
<1>7. HandlersSuffice
  <2>1. \A kind \in {"auth", "sync"} : Pending(kind) = {} /\ Len(win_rpchandler[kind]) = 0
    BY TasksDiffer DEF Windows!Init, Pending, Unsent, Windows!Tasks
  <2>2. IsFiniteSet({}) /\ Cardinality({}) = 0
    BY FS_EmptySet
  <2>3. ASSUME NEW kind \in {"auth", "sync"}
        PROVE  IsFiniteSet(Pending(kind)) /\ Cardinality(Pending(kind)) <= Len(win_rpchandler[kind])
    <3>1. Pending(kind) = {} /\ Len(win_rpchandler[kind]) = 0
      BY <2>1
    <3>2. IsFiniteSet(Pending(kind)) /\ Cardinality(Pending(kind)) = 0
      BY <2>2, <3>1
    <3> QED BY <3>1, <3>2
  <2>4. Replied
    BY DEF Windows!Init, Replied
  <2> QED BY <2>3, <2>4 DEF HandlersSuffice, Suffice
<1> QED BY <1>2, <1>3, <1>4, <1>5, <1>6, <1>7 DEF WindowsIsUp

LEMMA WindowsStays ==
  ASSUME WindowsConstants, WindowsIsUp, [Windows!Next]_(Windows!vars)
  PROVE  WindowsIsUp'
<1>1. CASE Windows!Next
  BY <1>1, TypesKeep, SessionKeeps, FreshKeeps, TurnsKeep, CallersKeep, HandlersKeep DEF WindowsIsUp
<1>2. CASE UNCHANGED Windows!vars
  <2>1. UNCHANGED <<Windows!network, Windows!session, win_failing, Windows!sending,
                    Windows!replies, win_sync, Windows!clips, win_faults, win_lost>>
    BY <1>2 DEF Windows!vars
  <2>2. WindowsTypeOK' /\ SessionIsUp' /\ FreshLink'
    BY <2>1
       DEF WindowsIsUp, WindowsTypeOK, SessionIsUp, AttemptsInTurn, Down, Windows!DownOnlyIfIgnored,
           FreshLink, Windows!network, Windows!session, Windows!sending, Windows!replies,
           Windows!clips
  <2>3. Turns' /\ Windows!CallersWaitForTheirs'
    BY <2>1
       DEF WindowsIsUp, Turns, Windows!SendsTakeTurns, Raceless, OneOwner,
           Windows!CallersWaitForTheirs, Windows!session, Windows!sending, Windows!clips
  <2>4. HandlersSuffice'
    BY <2>1
       DEF WindowsIsUp, HandlersSuffice, Replied, Suffice, Began, Pending, Windows!session,
           Windows!sending, Windows!replies
  <2> QED BY <2>2, <2>3, <2>4 DEF WindowsIsUp
<1> QED BY <1>1, <1>2

(* The operators WindowsSession has of FiniteSets are those of this module.  *)
LEMMA WindowsCounts ==
  ASSUME NEW S, IsFiniteSet(S) PROVE Windows!Cardinality(S) = Cardinality(S)
BY DEF Windows!Cardinality, Cardinality

(* What WindowsKeepsUp says of MessageManager.cs and ClipManager.cs, for any *)
(* tasks, contents, reconnects and faults: until two tasks have tested       *)
(* sendbuf before either assigned it, sends take turns, each task is woken   *)
(* by its own completion and no completion finds sendbuf null; until two     *)
(* sends have overlapped, every reply finds a handler of its type; and a     *)
(* client that is down is on its way up, or has ignored a loss.              *)
THEOREM WindowsClientKeepsUp ==
  ASSUME WindowsConstants PROVE Windows!Spec => []WindowsKeepsUp
<1>1. Windows!Init => WindowsIsUp
  BY WindowsBegins
<1>2. WindowsIsUp /\ [Windows!Next]_(Windows!vars) => WindowsIsUp'
  BY WindowsStays
<1>3. WindowsIsUp => WindowsKeepsUp
  <2> SUFFICES ASSUME WindowsIsUp PROVE WindowsKeepsUp
    OBVIOUS
  <2>1. Windows!RepliesFindHandlers
    <3>1. SUFFICES ASSUME ~win_overlapped, NEW kind \in {"auth", "sync"}
                   PROVE  Windows!Cardinality({m \in win_mail : m[1] = kind})
                            <= Len(win_rpchandler[kind])
      BY DEF Windows!RepliesFindHandlers
    <3> DEFINE due == {m \in win_mail : m[1] = kind}
    <3>2. /\ IsFiniteSet(Pending(kind))
          /\ Cardinality(Pending(kind)) <= Len(win_rpchandler[kind])
          /\ Len(win_rpchandler[kind]) \in Nat
      BY <3>1 DEF WindowsIsUp, HandlersSuffice, Suffice, WindowsTypeOK
    <3>3. due \subseteq Pending(kind)
      BY DEF WindowsIsUp, WindowsTypeOK, Pending
    <3>4. IsFiniteSet(due) /\ Cardinality(due) <= Cardinality(Pending(kind))
      BY <3>2, <3>3, FS_Subset
    <3>5. Cardinality(due) \in Nat /\ Cardinality(Pending(kind)) \in Nat
      BY <3>2, <3>4, FS_CardinalityType
    <3>6. Windows!Cardinality(due) = Cardinality(due)
      BY <3>4, WindowsCounts
    <3> HIDE DEF due
    <3>7. Windows!Cardinality(due) <= Len(win_rpchandler[kind])
      BY <3>2, <3>4, <3>5, <3>6
    <3> QED BY <3>7 DEF due
  <2> QED BY <2>1 DEF WindowsIsUp, SessionIsUp, Down, Turns, WindowsKeepsUp
<1> QED BY <1>1, <1>2, <1>3, PTL DEF Windows!Spec

-----------------------------------------------------------------------------
(* The Android session: the flag that keeps restarts from being scheduled is *)
(* never left behind, because a start is followed to its end.                *)

(* The queues of the executor, as they come about and as they are worked off.*)

LEMMA JobsDiffer ==
  /\ <<>> # <<"connect">> /\ <<>> # <<"authenticate">> /\ <<>> # <<"authenticate", "connect">>
  /\ <<"connect">> # <<"authenticate">> /\ <<"connect">> # <<"authenticate", "connect">>
  /\ <<"authenticate">> # <<"authenticate", "connect">>
  OBVIOUS

LEMMA TwoAppended ==
  ASSUME NEW a, NEW b
  PROVE  Append(<<a>>, b) = <<a, b>>
<1> DEFINE S == {a, b}
           s == Append(<<a>>, b)
           q == <<a, b>>
<1>1. s \in Seq(S) /\ q \in Seq(S) /\ Len(s) = 2 /\ Len(q) = 2
  OBVIOUS
<1>2. s[1] = q[1] /\ s[2] = q[2]
  OBVIOUS
<1>3. \A i \in 1..2 : s[i] = q[i]
  BY <1>2
<1> HIDE DEF S, s, q
<1> QED BY <1>1, <1>3, SeqEqual DEF s, q

LEMMA JobsAppended ==
  /\ Append(<<>>, "connect") = <<"connect">>
  /\ Append(<<>>, "authenticate") = <<"authenticate">>
  /\ Append(<<"authenticate">>, "connect") = <<"authenticate", "connect">>
<1>1. Append(<<>>, "connect") = <<"connect">>
  OBVIOUS
<1>2. Append(<<>>, "authenticate") = <<"authenticate">>
  OBVIOUS
<1>3. Append(<<"authenticate">>, "connect") = <<"authenticate", "connect">>
  BY TwoAppended
<1> QED BY <1>1, <1>2, <1>3

LEMMA JobsTaken ==
  /\ Head(<<"connect">>) = "connect" /\ Tail(<<"connect">>) = <<>>
  /\ Head(<<"authenticate">>) = "authenticate" /\ Tail(<<"authenticate">>) = <<>>
  /\ Head(<<"authenticate", "connect">>) = "authenticate"
  /\ Tail(<<"authenticate", "connect">>) = <<"connect">>
<1>1. Head(<<"connect">>) = "connect" /\ Tail(<<"connect">>) = <<>>
  OBVIOUS
<1>2. Head(<<"authenticate">>) = "authenticate" /\ Tail(<<"authenticate">>) = <<>>
  OBVIOUS
<1>3. Head(<<"authenticate", "connect">>) = "authenticate"
  OBVIOUS
<1>4. Tail(<<"authenticate", "connect">>) = <<"connect">>
  OBVIOUS
<1> QED BY <1>1, <1>2, <1>3, <1>4

USE SessionAssumption DEF SessionAssumption

LEMMA InitInv == Init => ReconnectingIsKept
<1> SUFFICES ASSUME Init PROVE ReconnectingIsKept
  OBVIOUS
<1>1. TypeOK
  <2>1. StartOK /\ ServiceOK /\ FlagsOK
    BY DEF Init, StartOK, ServiceOK, FlagsOK
  <2>2. BoundsOK /\ ReceiversOK
    BY DEF Init, BoundsOK, ReceiversOK
  <2> QED BY <2>1, <2>2 DEF Init, TypeOK
<1>2. StartsAreFollowed
  BY JobsDiffer DEF Init, StartsAreFollowed, Authenticating, Nobody, Executor
<1>3. ReconnectingEnds
  BY DEF Init, ReconnectingEnds
<1> QED BY <1>1, <1>2, <1>3 DEF ReconnectingIsKept


-----------------------------------------------------------------------------
(* Every step keeps the types of the variables. *)
LEMMA StepTypes ==
  ASSUME TypeOK, Next
  PROVE  StartOK' /\ ServiceOK' /\ FlagsOK' /\ BoundsOK' /\ ReceiversOK'
<1> USE DEF Next, OnCreate, UI, Connected, AddObserver, CheckDone, ObserveAuthenticated,
            RestartByMessage, RestartBySettings, Restart, DisconnectIfConnected, Event,
            Wake, Sleep, SleepInPing, Execute, TakeConnect, Connect, Spawn, TakeAuthenticate,
            Await, NotifyAuthenticated, ReportByExecutor, PostFails, PingFails, SendingFails,
            Timer, Receive, ReadOther, Loop, Read, HandleOther, HandleReply, Report,
            CloseCurrent, CloseChannel, ScheduleRestart, Reply, LoseLink,
            start, timing, exec, conn, threads, auth, env
<1>1. StartOK'
  <2>1. ui' \in {"closed", "idle", "get", "adding", "checking"}
    BY DEF TypeOK, StartOK
  <2>2. connectDone' \in {"pending", "true", "false"} /\ authDone' \in {"pending", "true", "false"}
    BY ZenonT(30) DEF TypeOK, StartOK
  <2>3. listener' \in {"never", "running", "cancelled"}
    BY DEF TypeOK, StartOK
  <2> QED BY <2>1, <2>2, <2>3 DEF StartOK
<1>5. ServiceOK'
  <2>1. task' \in {"idle", "connect", "connect failed", "spawn", "await", "authenticate failed",
                   "authenticated", "send failed"}
    BY ZenonT(30) DEF TypeOK, ServiceOK
  <2>2. /\ channel' \in {"none", "opening", "connected", "closed"}
        /\ mail' \in {"none", "request", "reply"}
    BY ZenonT(30) DEF TypeOK, ServiceOK
  <2>3. newest' \in Receivers \cup {Nobody} /\ reporter' \in Receivers \cup {Nobody, Executor}
    BY ZenonT(30) DEF TypeOK, ServiceOK
  <2>4. crash' \in {"none", "no listener", "null reason"}
    BY DEF TypeOK, ServiceOK
  <2> QED BY <2>1, <2>2, <2>3, <2>4 DEF ServiceOK
<1>2. FlagsOK'
  <2>1. registered' \in BOOLEAN /\ reconnecting' \in BOOLEAN
    BY DEF TypeOK, FlagsOK
  <2>2. message' \in BOOLEAN /\ awake' \in BOOLEAN
    BY DEF TypeOK, FlagsOK
  <2>3. link' \in BOOLEAN /\ receiving' \in BOOLEAN
    BY DEF TypeOK, FlagsOK
  <2>4. awaited' \in BOOLEAN /\ token' \in BOOLEAN
    BY DEF TypeOK, FlagsOK
  <2> QED BY <2>1, <2>2, <2>3, <2>4 DEF FlagsOK
<1>3. BoundsOK'
  <2>1. \/ timers' = timers
        \/ timers > 0 /\ timers' = timers - 1
        \/ timers < MaxTimers /\ timers' = timers + 1
    OBVIOUS
  <2>2. abandoned' \in {abandoned, 1} \/ (abandoned > 0 /\ abandoned' = abandoned - 1)
    OBVIOUS
  <2>3. /\ faults' = faults \/ (faults < MaxFaults /\ faults' = faults + 1)
        /\ events' = events \/ (events < MaxEvents /\ events' = events + 1)
    OBVIOUS
  <2>4. BoundsOK
    BY DEF TypeOK
  <2> QED
    <3> USE ONLY SessionAssumption, <2>1, <2>2, <2>3, <2>4 DEF SessionAssumption, BoundsOK
    <3> QED OBVIOUS
<1>4. ReceiversOK'
  BY ZenonT(30) DEF TypeOK, ReceiversOK, ReadsFail
<1> QED BY <1>1, <1>2, <1>3, <1>4, <1>5

LEMMA StepTypeOK ==
  ASSUME ReconnectingIsKept, Next
  PROVE  TypeOK'
<1> USE JobsDiffer, JobsAppended, JobsTaken
    DEF ReconnectingIsKept, StartsAreFollowed, exec
<1>1. jobs' \in {<<>>, <<"connect">>, <<"authenticate">>, <<"authenticate", "connect">>}
  BY DEF TypeOK, Next, OnCreate, UI, Connected, AddObserver, CheckDone, RestartByMessage,
         RestartBySettings, Restart, Wake, Sleep, SleepInPing, Execute, TakeConnect, Connect,
         Spawn, TakeAuthenticate, Await, NotifyAuthenticated, ReportByExecutor, PostFails,
         PingFails, SendingFails, Timer, Receive, ReadOther, Loop, Read, HandleOther,
         HandleReply, Report, CloseCurrent, Reply, LoseLink
<1> QED BY <1>1, StepTypes DEF TypeOK

-----------------------------------------------------------------------------
(* Every step follows each start to its end,                                 *)
LEMMA StepFollows ==
  ASSUME ReconnectingIsKept, Next
  PROVE  StartsAreFollowed'
<1> USE JobsDiffer, JobsAppended, JobsTaken
    DEF ReconnectingIsKept, TypeOK, StartOK, ServiceOK, StartsAreFollowed, Authenticating, Nobody, Executor,
        start, timing, exec, conn, threads, auth, env
<1>1. CASE OnCreate
  BY <1>1 DEF OnCreate
<1>2. CASE RestartByMessage \/ RestartBySettings
  BY <1>2 DEF RestartByMessage, RestartBySettings, Restart
<1>3. CASE Connected
  BY <1>3 DEF Connected
<1>4. CASE AddObserver \/ CheckDone
  BY <1>4 DEF AddObserver, CheckDone
<1>5. CASE Wake \/ Sleep \/ SleepInPing
  BY <1>5 DEF Wake, Sleep, SleepInPing
<1>6. CASE TakeConnect
  BY <1>6 DEF TakeConnect
<1>7. CASE Connect
  BY <1>7 DEF Connect
<1>8. CASE Spawn
  BY <1>8 DEF Spawn
<1>9. CASE TakeAuthenticate
  BY <1>9 DEF TakeAuthenticate
<1>10. CASE Await
  BY <1>10 DEF Await
<1>11. CASE NotifyAuthenticated
  BY <1>11 DEF NotifyAuthenticated
<1>12. CASE ReportByExecutor
  BY <1>12 DEF ReportByExecutor, CloseCurrent
<1>13. CASE PostFails \/ PingFails
  BY <1>13 DEF PostFails, PingFails, SendingFails
<1>14. CASE Timer
  BY <1>14 DEF Timer
<1>15. ASSUME NEW r \in Receivers, Receive(r) \/ ReadOther(r)
       PROVE  StartsAreFollowed'
  BY ZenonT(30), <1>15
  DEF Receive, ReadOther, Loop, Read, HandleOther, HandleReply, Report, CloseCurrent
<1>16. CASE Reply \/ LoseLink
  BY <1>16 DEF Reply, LoseLink
<1> QED
  BY <1>1, <1>2, <1>3, <1>4, <1>5, <1>6, <1>7, <1>8, <1>9, <1>10, <1>11, <1>12, <1>13, <1>14,
     <1>15, <1>16
  DEF Next, UI, Execute

(* A restart is scheduled, and counted, unless one is under way already. *)
LEMMA RestartIsScheduled ==
  ASSUME TypeOK, NEW reason, ScheduleRestart(reason)
  PROVE  UNCHANGED <<reconnecting, timers, crash>> \/ timers' > 0 \/ crash' # "none"
<1>1. \/ UNCHANGED <<reconnecting, timers, crash>>
      \/ crash' # "none"
      \/ timers' = IF timers < MaxTimers THEN timers + 1 ELSE timers
  BY DEF ScheduleRestart
<1>2. timers \in 0..MaxTimers
  BY DEF TypeOK, BoundsOK
<1>3. CASE timers' = IF timers < MaxTimers THEN timers + 1 ELSE timers
  BY <1>2, <1>3
<1> QED BY <1>1, <1>3

(* and leaves the flag set only while something will clear it.               *)
LEMMA StepEnds ==
  ASSUME ReconnectingIsKept, Next
  PROVE  ReconnectingEnds'
<1> USE DEF ReconnectingIsKept, ReconnectingEnds, start, timing, exec, conn, threads, auth, env
<1>1. CASE OnCreate
  BY <1>1 DEF OnCreate
<1>2. CASE RestartByMessage \/ RestartBySettings
  BY <1>2 DEF RestartByMessage, RestartBySettings, Restart
<1>3. CASE Connected \/ AddObserver
  BY <1>3 DEF Connected, AddObserver
(* A start that has not heard of its authentication has one under way.       *)
<1>4. CASE CheckDone
  BY <1>4, JobsDiffer DEF CheckDone, ObserveAuthenticated, StartsAreFollowed
<1>5. CASE Wake \/ Sleep \/ SleepInPing
  BY <1>5 DEF Wake, Sleep, SleepInPing
<1>6. CASE TakeConnect \/ Connect \/ Spawn
  BY <1>6, JobsDiffer, JobsTaken DEF TakeConnect, Connect, Spawn, StartsAreFollowed, TypeOK
<1>7. CASE TakeAuthenticate \/ Await
  BY <1>7 DEF TakeAuthenticate, Await
(* An observer that is not registered yet is about to look for itself.       *)
<1>8. CASE NotifyAuthenticated
  BY <1>8 DEF NotifyAuthenticated, ObserveAuthenticated, StartsAreFollowed, Authenticating
(* The restart of a report is scheduled, or one is on its way: a connect     *)
(* that failed has the UI thread waiting.                                    *)
<1>9. CASE ReportByExecutor
  BY <1>9, RestartIsScheduled DEF ReportByExecutor, CloseCurrent, StartsAreFollowed
<1>10. CASE PostFails \/ PingFails
  BY <1>10 DEF PostFails, PingFails, SendingFails
<1>11. CASE Timer
  BY <1>11 DEF Timer
<1>12. ASSUME NEW r \in Receivers, Receive(r) \/ ReadOther(r)
       PROVE  ReconnectingEnds'
  BY <1>12, RestartIsScheduled
  DEF Receive, ReadOther, Loop, Read, HandleOther, HandleReply, Report, CloseCurrent
<1>13. CASE Reply \/ LoseLink
  BY <1>13 DEF Reply, LoseLink
<1> QED
  BY <1>1, <1>2, <1>3, <1>4, <1>5, <1>6, <1>7, <1>8, <1>9, <1>10, <1>11, <1>12, <1>13
  DEF Next, UI, Execute

LEMMA Stuttering ==
  ASSUME ReconnectingIsKept, UNCHANGED vars
  PROVE  ReconnectingIsKept'
<1>1. /\ ui' = ui /\ connectDone' = connectDone /\ authDone' = authDone
      /\ listener' = listener /\ task' = task /\ channel' = channel /\ mail' = mail
      /\ newest' = newest /\ reporter' = reporter /\ crash' = crash
      /\ rcv' = rcv /\ interrupted' = interrupted /\ jobs' = jobs
  BY DEF vars, start, timing, exec, conn, threads, auth, env
<1>2. /\ registered' = registered /\ reconnecting' = reconnecting /\ message' = message
      /\ awake' = awake /\ link' = link /\ receiving' = receiving
      /\ awaited' = awaited /\ token' = token
  BY DEF vars, start, timing, exec, conn, threads, auth, env
<1>3. timers' = timers /\ abandoned' = abandoned /\ faults' = faults /\ events' = events
  BY DEF vars, start, timing, exec, conn, threads, auth, env
<1>4. StartOK' /\ ServiceOK' /\ ReceiversOK'
  <2>1. StartOK /\ ServiceOK /\ ReceiversOK
    BY DEF ReconnectingIsKept, TypeOK
  <2>2. StartOK'
    BY <1>1, <2>1 DEF StartOK
  <2>3. ServiceOK'
    BY <1>1, <2>1 DEF ServiceOK
  <2>4. ReceiversOK'
    BY <1>1, <2>1 DEF ReceiversOK
  <2> QED BY <2>2, <2>3, <2>4
<1>5. FlagsOK'
  BY <1>2 DEF ReconnectingIsKept, TypeOK, FlagsOK
<1>6. BoundsOK'
  BY <1>3 DEF ReconnectingIsKept, TypeOK, BoundsOK
<1>7. StartsAreFollowed' /\ ReconnectingEnds'
  BY <1>1, <1>2, <1>3 DEF ReconnectingIsKept, StartsAreFollowed, Authenticating, ReconnectingEnds
<1> QED BY <1>1, <1>4, <1>5, <1>6, <1>7 DEF ReconnectingIsKept, TypeOK

(* Reconnecting is set only while a restart is scheduled, under way, or about *)
(* to be reported: the Android client never suppresses restarts for good, for *)
(* however many receive threads, failures and events of the user.             *)
THEOREM ReconnectingAlwaysEnds == Spec => []ReconnectingIsKept
<1>1. ReconnectingIsKept /\ [Next]_vars => ReconnectingIsKept'
  <2> SUFFICES ASSUME ReconnectingIsKept, [Next]_vars PROVE ReconnectingIsKept'
    OBVIOUS
  <2>1. CASE Next
    BY <2>1, StepTypeOK, StepFollows, StepEnds DEF ReconnectingIsKept
  <2>2. CASE UNCHANGED vars
    BY <2>2, Stuttering
  <2> QED BY <2>1, <2>2
<1> QED BY InitInv, <1>1, PTL DEF Spec
=============================================================================
