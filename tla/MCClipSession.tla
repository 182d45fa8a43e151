--------------------------- MODULE MCClipSession ---------------------------
(***************************************************************************)
(* The clients, side by side: the Android session, in which a new receive  *)
(* thread starts while an old one is still about, the Windows client, the  *)
(* Android sync client and the Android clip buffer; and the client of an   *)
(* HTTP server.  They share no state: a behaviour plays one part, which    *)
(* the initial state chooses, while the variables of the others stay as    *)
(* they are.                                                               *)
(***************************************************************************)
EXTENDS ClipSession

CONSTANTS
  Callers, Contents, MaxAttempts, WindowsFaults, MaxCalls,  \* of the Windows client
  MaxTasks, MaxQueues, QueueEvents, MaxLost,      \* of the sync client
  Texts, MaxClips, MaxMade, MaxStarts,            \* of the clip buffer
  Ids, Accepted                                   \* of the asset provider

VARIABLES
  part,
  win_link, win_connected, win_receiving, win_pinging, win_reconnecting, win_scheduling,
  win_attempt, win_pc,
  win_ignored, win_failing, win_sendbuf, win_sendbytes, win_io, win_sendsignal, win_sends,
  win_raced, win_overlapped, win_crashed, win_rpchandler, win_mail, win_sync, win_contentCache,
  win_answer, win_faults, win_lost,
  sc_service, sc_eventQueue, sc_queues, sc_created, sc_pending, sc_posted, sc_tasks, sc_executor,
  sc_thread, sc_asked, sc_interrupted, sc_currentState, sc_destroyed, sc_events, sc_lost,
  cb_buffer, cb_cache, cb_files, cb_persistence, cb_clipboard, cb_lastClip, cb_adding,
  cb_arriving, cb_refresh, cb_made, cb_starts, cb_echoed, cb_deleted,
  as_gets, as_progress, as_asked, as_futures, as_listeners, as_at, as_next, as_exit, as_timeout,
  as_complete

windows == <<win_link, win_connected, win_receiving, win_pinging, win_reconnecting,
             win_scheduling, win_attempt,
             win_pc, win_ignored, win_failing, win_sendbuf, win_sendbytes, win_io, win_sendsignal,
             win_sends, win_raced, win_overlapped, win_crashed, win_rpchandler, win_mail, win_sync,
             win_contentCache, win_answer, win_faults, win_lost>>
syncclient == <<sc_service, sc_eventQueue, sc_queues, sc_created, sc_pending, sc_posted, sc_tasks,
                sc_executor, sc_thread, sc_asked, sc_interrupted, sc_currentState, sc_destroyed,
                sc_events, sc_lost>>
clipbook == <<cb_buffer, cb_cache, cb_files, cb_persistence, cb_clipboard, cb_lastClip, cb_adding,
              cb_arriving, cb_refresh, cb_made, cb_starts, cb_echoed, cb_deleted>>
assets == <<as_gets, as_progress, as_asked, as_futures, as_listeners, as_at, as_next, as_exit,
            as_timeout, as_complete>>

ASSUME Overlapping == Cardinality(Receivers) > 1

Windows == INSTANCE WindowsSession WITH
  Clips <- Contents, MaxFaults <- WindowsFaults,
  link <- win_link, connected <- win_connected, receiving <- win_receiving, pinging <- win_pinging,
  reconnecting <- win_reconnecting, scheduling <- win_scheduling, attempt <- win_attempt, pc <- win_pc,
  ignored <- win_ignored, failing <- win_failing, sendbuf <- win_sendbuf,
  sendbytes <- win_sendbytes, io <- win_io, sendsignal <- win_sendsignal, sends <- win_sends,
  raced <- win_raced, overlapped <- win_overlapped, crashed <- win_crashed,
  rpchandler <- win_rpchandler, mail <- win_mail, sync <- win_sync,
  contentCache <- win_contentCache, answer <- win_answer, faults <- win_faults, lost <- win_lost

(* Bounds: how many calls of Sync, clips announced or asked for and faults a *)
(* behaviour has, one less once two tasks have raced for sendbuf.  Calls are *)
(* numbered in the order they come in.                                       *)
Calls == Cardinality({c \in Callers : win_sync'[c] # "idle"})
Others == Cardinality(win_contentCache') + IF win_answer'.step = "none" THEN 0 ELSE 1
WindowsBound ==
  /\ \A c, d \in Callers : c < d /\ win_sync'[d] # "idle" => win_sync'[c] # "idle"
  /\ Calls + Others + win_faults' <= IF win_raced' THEN MaxCalls - 1 ELSE MaxCalls

SyncClients == INSTANCE SyncClient WITH
  MaxEvents <- QueueEvents,
  service <- sc_service, eventQueue <- sc_eventQueue, queues <- sc_queues, created <- sc_created,
  pending <- sc_pending, posted <- sc_posted, tasks <- sc_tasks, executor <- sc_executor,
  thread <- sc_thread, asked <- sc_asked, interrupted <- sc_interrupted,
  currentState <- sc_currentState, destroyed <- sc_destroyed, events <- sc_events, lost <- sc_lost

Clipbook == INSTANCE ClipBook WITH
  buffer <- cb_buffer, cache <- cb_cache, files <- cb_files, persistence <- cb_persistence,
  clipboard <- cb_clipboard, lastClip <- cb_lastClip, adding <- cb_adding,
  arriving <- cb_arriving, refresh <- cb_refresh, made <- cb_made, starts <- cb_starts,
  echoed <- cb_echoed, deleted <- cb_deleted

(* The first id of the application is not a url. *)
FourIds == <<"adec83e1", "Jack", "Jill", "arcticfox">>

Assets == INSTANCE AssetProvider WITH
  gets <- as_gets, progress <- as_progress, asked <- as_asked, futures <- as_futures,
  listeners <- as_listeners, at <- as_at, next <- as_next, exit <- as_exit,
  timeout <- as_timeout, complete <- as_complete

GroupInit ==
  /\ Init /\ Windows!Init /\ SyncClients!Init /\ Clipbook!Init /\ Assets!Init
  /\ part \in {"android", "windows", "sync", "clips", "assets"}

GroupNext ==
  /\ UNCHANGED part
  /\ \/ part = "android" /\ Next /\ UNCHANGED <<windows, syncclient, clipbook, assets>>
     \/ part = "windows" /\ Windows!Next /\ WindowsBound
        /\ UNCHANGED <<vars, syncclient, clipbook, assets>>
     \/ part = "sync" /\ SyncClients!Next /\ UNCHANGED <<vars, windows, clipbook, assets>>
     \/ part = "clips" /\ Clipbook!Next /\ UNCHANGED <<vars, windows, syncclient, assets>>
     \/ part = "assets" /\ Assets!Next /\ UNCHANGED <<vars, windows, syncclient, clipbook>>

groupVars == <<part, vars, windows, syncclient, clipbook, assets>>

(* No step that fairness requires is enabled in a part that is not played.   *)
GroupSpec ==
  /\ GroupInit /\ [][GroupNext]_groupVars
  /\ Fairness /\ Windows!Fairness /\ SyncClients!Fairness /\ Assets!Fairness

-----------------------------------------------------------------------------
(* Windows: every reply under way has a handler in the queue of its type, a  *)
(* client that is down is on its way up, or has ignored a loss, and sendbuf  *)
(* is one task's at a time until two have both passed the test before either *)
(* assigned it.                                                              *)
WindowsKeepsUp ==
  /\ Windows!RepliesFindHandlers
  /\ Windows!DownOnlyIfIgnored
  /\ Windows!CallersWaitForTheirs
  /\ Windows!SendsTakeTurns

(* Windows: the flag that suppresses reconnects is reset, and a call of Sync *)
(* returns, unless a reply was lost or went astray, or sends have overlapped.*)
WindowsGoesOn == Windows!FlagIsReset /\ Windows!SyncReturns

(* Sync client: the dispatch thread meets a null queue only where a destroy  *)
(* has set it, and client and daemon agree about the queue there is.         *)
QueueIsShared == SyncClients!NullOnlyAfterDestroy /\ SyncClients!HandleIsLive

(* Sync client: the events of a queue nobody destroys are fetched.           *)
EventsAreFetched == SyncClients!EventsAreFetched

(* Clips: none that came from the server is sent back to it, and what the    *)
(* user has deleted does not come back.                                      *)
ClipsGoOneWay == Clipbook!RemoteNotEchoed /\ Clipbook!DeletedStaysDeleted

(* Assets: a future and its listener share a reply, and the provider finds   *)
(* the replies under way, no others.                                         *)
SharedWhileInProgress == Assets!SharedWhileInProgress

(* Assets: the application quits once one asset is complete.                 *)
QuitsOnceOneIsComplete == Assets!QuitsOnceOneIsComplete
=============================================================================
