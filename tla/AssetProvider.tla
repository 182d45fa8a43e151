--------------------------- MODULE AssetProvider ---------------------------
(***************************************************************************)
(* src/tests/qt-network/main.h: an application requests assets over HTTP   *)
(* and waits for each of them in turn in a nested event loop, for 100 ms   *)
(* at most, round after round.  A request for a url whose reply is under   *)
(* way gets its status.  Everything happens on the event loop's thread;    *)
(* what the network does is external, and the disk cache is left empty.    *)
(***************************************************************************)
EXTENDS Integers, Sequences

CONSTANTS Ids, Accepted  \* the ids Test asks for, a sequence, and those with an http url

VARIABLES
  gets,       \* the replies and their statuses, [url, how], in the order they were asked for
  progress,   \* url -> the one HttpAssetProvider::progress has for it, by number, or None
  asked,      \* how many of the ids Test's constructor has gone through
  futures,    \* Test::futures, each by the number of its status
  listeners,  \* Test::listeners, alike
  at,         \* "new"; then "timer" between rounds, "wait" in AssetWaiter, "quit"
  next,       \* the future of Update's loop
  exit, timeout,  \* of the AssetWaiter
  complete    \* Test::complete, up to 2

vars ==
  <<gets, progress, asked, futures, listeners, at, next, exit, timeout, complete>>
provider == <<gets, progress>>
test == <<asked, futures, listeners>>

None == 0

Init ==
  /\ gets = <<>> /\ progress = [u \in Accepted |-> None]
  /\ asked = 0 /\ futures = <<>> /\ listeners = <<>>
  /\ at = "new" /\ next = 1 /\ exit = FALSE /\ timeout = FALSE /\ complete = 0

Get(u) == Append(gets, [url |-> u, how |-> "active"])

RequestAnyway(u) ==  \* mutant: get_status_ does not look for the url
  /\ gets' = Get(u)
  /\ progress' = [progress EXCEPT ![u] = Len(gets')]

(* get_status_: it makes a reply only if progress has no status of the url.  *)
Request(u) ==
  /\ gets' = IF progress[u] = None THEN Get(u) ELSE gets
  /\ progress' = [progress EXCEPT ![u] = IF @ = None THEN Len(gets') ELSE @]

(* Test's constructor requests each id twice: for a future and a listener.   *)
MakeFuture ==
  /\ at = "new" /\ asked < Len(Ids) /\ Len(listeners) = Len(futures)
  /\ asked' = asked + 1
  /\ \/ /\ Ids[asked'] \in Accepted /\ Request(Ids[asked'])
        /\ futures' = Append(futures, progress'[Ids[asked']])
     \/ Ids[asked'] \notin Accepted /\ UNCHANGED <<provider, futures>>
  /\ UNCHANGED <<listeners, at, next, exit, timeout, complete>>

MakeListener ==
  /\ at = "new" /\ Len(listeners) < Len(futures)
  /\ Request(Ids[asked])
  /\ listeners' = Append(listeners, progress'[Ids[asked]])
  /\ UNCHANGED <<asked, futures, at, next, exit, timeout, complete>>

(* The timer calls Update. *)
Go ==
  /\ at = "new" /\ asked = Len(Ids) /\ Len(listeners) = Len(futures)
  /\ at' = "timer"
  /\ UNCHANGED <<provider, test, next, exit, timeout, complete>>

-----------------------------------------------------------------------------
(* A waiter that begins after its status is complete gets no on_complete.    *)
BeginWait == at' = "wait" /\ exit' = FALSE /\ timeout' = FALSE

Update ==
  /\ at = "timer" /\ futures # <<>> /\ next' = 1
  /\ BeginWait
  /\ UNCHANGED <<provider, test, complete>>

TimerNeverSet ==  \* mutant: the waiter is made without a time
  /\ at = "wait" /\ ~timeout /\ exit
  /\ timeout' = TRUE
  /\ UNCHANGED <<provider, test, at, next, exit, complete>>

TimerEvent ==
  /\ at = "wait" /\ ~timeout
  /\ timeout' = TRUE
  /\ UNCHANGED <<provider, test, at, next, exit, complete>>

(* A future is counted in every round that finds it complete. *)
Counted ==
  IF gets[futures[next]].how = "complete" /\ complete < 2 THEN complete + 1 ELSE complete

(* The waiter returns; Update goes on to the next future, or ends the round. *)
WaiterReturns ==
  /\ at = "wait" /\ (exit \/ timeout)
  /\ complete' = Counted
  /\ IF next < Len(futures)
     THEN next' = next + 1 /\ BeginWait
     ELSE /\ at' = IF Counted >= 2 THEN "quit" ELSE "timer"
          /\ UNCHANGED <<next, exit, timeout>>
  /\ UNCHANGED <<provider, test>>

-----------------------------------------------------------------------------
(* A reply emits finished, after error if it failed: the status is complete, *)
(* its waiter hears of it, and the provider forgets the url.                 *)
ReplyEnds(k, how) ==
  /\ at \in {"timer", "wait"} /\ gets[k].how = "active"
  /\ gets' = [gets EXCEPT ![k].how = how]
  /\ exit' = (exit \/ (at = "wait" /\ futures[next] = k))
  /\ progress' = [progress EXCEPT ![gets[k].url] = None]
  /\ UNCHANGED <<test, at, next, timeout, complete>>

Fails(k) == ReplyEnds(k, "failed")
Finishes(k) == ReplyEnds(k, "complete")

EventLoop == Update \/ TimerEvent \/ WaiterReturns

Next ==
  \/ MakeFuture \/ MakeListener \/ Go \/ EventLoop
  \/ \E k \in DOMAIN gets : Fails(k) \/ Finishes(k)

(* Timers go off.  The network owes nobody an answer. *)
Fairness == WF_vars(EventLoop)

Spec == Init /\ [][Next]_vars /\ Fairness

-----------------------------------------------------------------------------
(* A listener hears of the very reply that its future waits for, and the     *)
(* provider finds the replies under way, one for a url, and none that ended. *)
SharedWhileInProgress ==
  /\ \A i \in DOMAIN listeners : listeners[i] = futures[i]
  /\ \A k \in DOMAIN gets : gets[k].how = "active" <=> progress[gets[k].url] = k
  /\ \A u \in Accepted : progress[u] # None =>
       progress[u] \in DOMAIN gets /\ gets[progress[u]].url = u

(* One asset is enough for the application to quit ("complete >= 2" counts a *)
(* future again in every round), although the network may leave the others   *)
(* unanswered, and although a waiter that begins late hears no on_complete.  *)
QuitsOnceOneIsComplete ==
  []<>(at = "quit" \/ \A i \in DOMAIN futures : gets[futures[i]].how # "complete")
=============================================================================
