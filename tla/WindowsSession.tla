--------------------------- MODULE WindowsSession ---------------------------
(***************************************************************************)
(* The Windows clip client: MessageManager.cs and ClipManager.cs.  Login   *)
(* attempts (the constructor's, then one per reconnect) connect and        *)
(* authenticate; tasks sync contents.  A reply is handed to whoever is     *)
(* first in the queue of handlers for its type, whichever request it       *)
(* answers.  Every send is a task of its own.  The tasks share sendbuf,    *)
(* sendbytes, sendev and sendsignal, and no lock joins their steps: a task *)
(* tests sendbuf, assigns it, sends what it finds there, and resets it; and*)
(* whoever finds the flag of ClipManager clear sets it in a later step.    *)
(* Bytes, sizes and JSON are left out; sendbytes says whether all was sent.*)
(* Once a task has found sendbuf taken when it came to assign it, what     *)
(* sendbytes amounts to and what the server makes of the bytes is chosen.  *)
(***************************************************************************)
EXTENDS Integers, Sequences, FiniteSets, SequencesExt

CONSTANTS
  Callers,      \* the tasks that call Sync, each for a content of its own (numbers)
  Clips,        \* the contents this client announces, and is asked for (numbers)
  MaxAttempts,  \* bounds the reconnects followed
  MaxFaults     \* bounds the connections lost and the connects that fail

Attempts == 0..MaxAttempts   \* 0 is the constructor's

(* What is sent, and the task that sends it. *)
Requests == ({"auth"} \X Attempts) \cup ({"sync"} \X Callers)
Tasks == Requests \cup ({"notify", "response", "content"} \X Clips)

Null == <<"null", 0>>        \* nothing is being sent
Kept == <<"kept", 0>>        \* a header could not be sent: sendbuf is not reset
NoAnswer == [to |-> 0, has |-> FALSE, step |-> "none"]

VARIABLES
  link,           \* the connection as the network sees it
  connected,      \* socket.Connected
  receiving,      \* the receive loop of the connection runs
  pinging,        \* a ping is scheduled
  reconnecting,   \* the flag of ClipManager
  scheduling,     \* how many tasks have found it clear and are about to set it
  attempt,        \* the last attempt begun
  pc,             \* pc[a]: "none", "delay", "connect", "failed", "auth", "sending", "early"
                  \* (replied to while it sends), "waiting", "over" or "thrown"
  failing,        \* a completion has woken its waiter and is about to raise Disconnected
  sendbuf,        \* the task whose message is in it, Null or Kept
  sendbytes,      \* 1 if all of what was sent last has gone
  io,             \* what SendAsync is sending, or Null
  sendsignal,     \* the AutoResetEvent is set
  sends,          \* sends[m]: how far the task is: "none"; "called"; "passed" the test of
                  \* sendbuf; "header", "data", "wait", "woken", "sent" or "short"; or it is
                  \* to return "false", or has "thrown"
  rpchandler,     \* the queues of handlers, by whom they are of
  mail,           \* the requests whose reply is under way
  sync,           \* sync[c]: "idle", "sending", "early", "waiting", "served" or "null"
  contentCache,   \* the contents announced
  answer,         \* to the request for a content: whether it has it, and how far it is
  faults,         \* how often the network has failed
  ignored, lost,  \* history: a Disconnected was ignored; a reply was lost or went astray
  raced,          \* history: two tasks had passed the test, and neither had assigned sendbuf
  overlapped,     \* history: a task found sendbuf taken when it came to assign it
  crashed         \* a completion found sendbuf null: the exception ends the process

network == <<link, connected, receiving, pinging>>
session == <<reconnecting, scheduling, attempt, pc, ignored>>
sending == <<sendbuf, sendbytes, io, sendsignal, sends, raced, overlapped, crashed>>
replies == <<rpchandler, mail>>
clips == <<contentCache, answer>>
vars == <<network, session, failing, sending, replies, sync, clips, faults, lost>>

Init ==
  /\ link = FALSE /\ connected = FALSE /\ receiving = FALSE /\ pinging = FALSE
  /\ reconnecting = FALSE /\ scheduling = 0 /\ failing = FALSE
  /\ attempt = 0 /\ pc = [a \in Attempts |-> "none"]
  /\ sendbuf = Null /\ sendbytes = 0 /\ io = Null /\ sendsignal = FALSE
  /\ sends = [m \in Tasks |-> "none"]
  /\ rpchandler = [kind \in {"auth", "sync"} |-> <<>>] /\ mail = {}
  /\ sync = [c \in Callers |-> "idle"]
  /\ contentCache = {} /\ answer = NoAnswer
  /\ faults = 0 /\ ignored = FALSE /\ lost = FALSE
  /\ raced = FALSE /\ overlapped = FALSE /\ crashed = FALSE

(* What closes a connection takes the replies under way with it. *)
LoseMail ==
  /\ link' = FALSE
  /\ mail' = {} /\ lost' = (lost \/ mail # {})

-----------------------------------------------------------------------------
(* OnDisconnected: MessageManager's handler disconnects the socket, then     *)
(* ClipManager's tests the flag.  Of two tasks that both find it clear each  *)
(* would begin an attempt; nothing is followed from there on.                *)
OnDisconnected ==
  /\ connected' = FALSE
  /\ IF reconnecting THEN ignored' = TRUE /\ UNCHANGED scheduling
     ELSE scheduling' = scheduling + 1 /\ UNCHANGED ignored
  /\ UNCHANGED <<pc, attempt, reconnecting>>

(* "reconnecting = true", and a timer for the attempt *)
Schedule ==
  /\ scheduling = 1 /\ attempt < MaxAttempts
  /\ scheduling' = 0 /\ attempt' = attempt + 1
  /\ reconnecting' = TRUE
  /\ pc' = [pc EXCEPT ![attempt + 1] = "delay"]
  /\ UNCHANGED <<network, failing, ignored, sending, replies, sync, clips, faults, lost>>

OverButFlagged(a) ==  \* mutant: the flag is reset only by a login that succeeds
  /\ pc' = [pc EXCEPT ![a] = "over"]
  /\ reconnecting' = (reconnecting /\ ~(a > 0 /\ pc[a] \in {"early", "waiting"}))
  /\ UNCHANGED <<scheduling, attempt, ignored>>

(* The attempt is over, successful or not: "reconnecting = false". *)
Over(a) ==
  /\ pc' = [pc EXCEPT ![a] = "over"]
  /\ reconnecting' = (reconnecting /\ a = 0)
  /\ UNCHANGED <<scheduling, attempt, ignored>>

(* The constructor of ClipManager, on a thread of its own. *)
Open ==
  /\ pc[0] = "none" /\ pc' = [pc EXCEPT ![0] = "connect"]
  /\ UNCHANGED <<network, reconnecting, scheduling, attempt, failing, ignored, sending, replies,
                 sync, clips, faults, lost>>

(* The timer of the reconnect; the last connection's receive loop and what   *)
(* sendev was sending have ended by then.                                    *)
Reconnect(a) ==
  /\ pc[a] = "delay" /\ ~receiving /\ io = Null
  /\ pc' = [pc EXCEPT ![a] = "connect"]
  /\ UNCHANGED <<network, reconnecting, scheduling, attempt, failing, ignored, sending, replies,
                 sync, clips, faults, lost>>

(* Connect: on success a receive loop and a ping begin. *)
ConnectSucceeds(a) ==
  /\ pc[a] = "connect" /\ ~failing
  /\ link' = TRUE /\ connected' = TRUE /\ receiving' = TRUE /\ pinging' = TRUE
  /\ pc' = [pc EXCEPT ![a] = "auth"]
  /\ UNCHANGED <<reconnecting, scheduling, attempt, failing, ignored, sending, replies, sync,
                 clips, faults, lost>>

(* On failure ConnectCompleted sets connectsignal, which lets the attempt go *)
(* on, and raises Disconnected, before or after the attempt is over.         *)
ConnectFails(a) ==
  /\ pc[a] = "connect" /\ ~failing /\ faults < MaxFaults
  /\ faults' = faults + 1 /\ failing' = TRUE
  /\ pc' = [pc EXCEPT ![a] = "failed"]
  /\ UNCHANGED <<network, reconnecting, scheduling, attempt, ignored, sending, replies, sync,
                 clips, lost>>

ConnectReturnsFalse(a) ==
  /\ pc[a] = "failed" /\ Over(a)
  /\ UNCHANGED <<network, failing, sending, replies, sync, clips, faults, lost>>

(* ConnectCompleted and SendCompleted, once they have set their signal       *)
CompletedRaises ==
  /\ failing /\ failing' = FALSE
  /\ OnDisconnected
  /\ UNCHANGED <<link, receiving, pinging, sending, replies, sync, clips, faults, lost>>

-----------------------------------------------------------------------------
(* The task of a Send or a SendContent *)
Move(m, step) == sends' = [sends EXCEPT ![m] = step]
Call(m) == /\ Move(m, "called")
           /\ UNCHANGED <<sendbuf, sendbytes, io, sendsignal, raced, overlapped, crashed>>

TestsBytesOnly(m) ==  \* mutant: the test leaves sendbuf out
  /\ sends[m] = "called"
  /\ raced' = (raced \/ (sendbytes = 0 /\ \E n \in Tasks : sends[n] = "passed"))
  /\ Move(m, IF sendbytes = 0 THEN "passed" ELSE "false")
  /\ UNCHANGED <<network, session, failing, sendbuf, sendbytes, io, sendsignal, overlapped,
                 crashed, replies, sync, clips, faults, lost>>

(* "TODO: queue for concurrent sends" *)
Test(m) ==
  /\ sends[m] = "called"
  /\ LET proceed == sendbuf = Null /\ sendbytes = 0
     IN  /\ raced' = (raced \/ (proceed /\ \E n \in Tasks : sends[n] = "passed"))
         /\ Move(m, IF proceed THEN "passed" ELSE "false")
  /\ UNCHANGED <<network, session, failing, sendbuf, sendbytes, io, sendsignal, overlapped,
                 crashed, replies, sync, clips, faults, lost>>

(* SetBuffer throws while sendev is in use; GetBytes throws, behind          *)
(* "sendbytes = 0", if there is no content.                                  *)
Assign(m) ==
  /\ sends[m] = "passed"
  /\ overlapped' = (overlapped \/ sendbuf # Null)
  /\ IF io # Null \/ (m[1] = "content" /\ ~answer.has)
     THEN /\ Move(m, "thrown") /\ UNCHANGED sendbuf
          /\ sendbytes' = IF io # Null THEN sendbytes ELSE 0
     ELSE /\ Move(m, IF m[1] = "content" THEN "data" ELSE "header")
          /\ sendbuf' = m /\ sendbytes' = 0
  /\ UNCHANGED <<network, session, failing, io, sendsignal, raced, crashed, replies, sync,
                 clips, faults, lost>>

(* SendHeader, which a content does without: over a broken link it may throw *)
(* and raise Disconnected; sendbuf is not reset then.                        *)
SendHeader(m) ==
  /\ sends[m] = "header"
  /\ \/ /\ Move(m, IF sendbuf = Null THEN "thrown" ELSE "data")
        /\ sendbuf # Null => connected
        /\ UNCHANGED <<connected, session, sendbuf>>
     \/ /\ sendbuf # Null /\ ~link /\ Move(m, "false") /\ OnDisconnected
        /\ sendbuf' = IF sendbuf = m THEN Kept ELSE sendbuf
  /\ UNCHANGED <<link, receiving, pinging, failing, sendbytes, io, sendsignal, raced,
                 overlapped, crashed, replies, sync, clips, faults, lost>>

(* SendContinue sends what sendbuf holds.  It throws if that is nothing, if  *)
(* sendev is in use, or if more than that has been counted as sent.          *)
SendContinue(m) ==
  /\ sends[m] = "data"
  /\ \/ /\ sendbuf = Null \/ io # Null \/ sendbytes = 1
        /\ Move(m, "thrown") /\ UNCHANGED io
     \/ /\ sendbuf # Null /\ io = Null /\ Move(m, "wait")
        /\ io' = sendbuf
  /\ UNCHANGED <<network, session, failing, sendbuf, sendbytes, sendsignal, raced, overlapped,
                 crashed, replies, sync, clips, faults, lost>>

(* sendsignal.WaitOne *)
Wake(m) ==
  /\ sends[m] = "wait" /\ sendsignal
  /\ sendsignal' = FALSE /\ Move(m, "woken")
  /\ UNCHANGED <<network, session, failing, sendbuf, sendbytes, io, raced, overlapped, crashed,
                 replies, sync, clips, faults, lost>>

(* "proceed = sendbytes == sendbuf.Length" *)
Compare(m) ==
  /\ sends[m] = "woken"
  /\ IF sendbuf = Null THEN Move(m, "thrown")
     ELSE \E all \in IF overlapped THEN BOOLEAN ELSE {sendbytes = 1} :
            Move(m, IF all THEN "sent" ELSE "short")
  /\ UNCHANGED <<network, session, failing, sendbuf, sendbytes, io, sendsignal, raced,
                 overlapped, crashed, replies, sync, clips, faults, lost>>

(* What the continuation does with the result.  An exception goes through    *)
(* Authenticate's into the attempt, past "reconnecting = false"; a Sync      *)
(* whose handler has run returns the content although its send failed: the   *)
(* reply was another's.                                                      *)
ContinueLogin(a, how) ==
  /\ IF (how = "sent" /\ pc[a] = "early") \/ how \in {"short", "false"} THEN Over(a)
     ELSE /\ pc' = [pc EXCEPT ![a] = IF how = "sent" THEN "waiting" ELSE "thrown"]
          /\ UNCHANGED <<reconnecting, scheduling, attempt, ignored>>
  /\ lost' = (lost \/ (pc[a] = "early" /\ how # "sent"))
  /\ UNCHANGED <<sync, answer>>

ContinueSync(c, how) ==
  /\ sync' = [sync EXCEPT ![c] = IF how = "thrown" THEN "null" ELSE IF @ = "early" THEN "served"
                                 ELSE IF how = "sent" THEN "waiting" ELSE "null"]
  /\ lost' = (lost \/ (sync[c] = "early" /\ how # "sent"))
  /\ UNCHANGED <<session, answer>>

ContinueAnswer(goes) ==
  /\ answer' = IF goes THEN [answer EXCEPT !.step = "content"] ELSE NoAnswer
  /\ UNCHANGED <<session, sync, lost>>

Continue(m, how) ==
  \/ \E a \in Attempts : m = <<"auth", a>> /\ ContinueLogin(a, how)
  \/ \E c \in Callers : m = <<"sync", c>> /\ ContinueSync(c, how)
  \/ \E k \in Clips : \/ m = <<"notify", k>> /\ UNCHANGED <<session, sync, answer, lost>>
                      \/ m = <<"response", k>> /\ ContinueAnswer(how = "sent")
                      \/ m = <<"content", k>> /\ ContinueAnswer(FALSE)

(* Who has waited resets sendbuf and sendbytes, whosever they are by then.   *)
Returns(m) ==
  /\ sends[m] \in {"sent", "short", "false", "thrown"}
  /\ IF sends[m] \in {"sent", "short"} THEN sendbuf' = Null /\ sendbytes' = 0
     ELSE UNCHANGED <<sendbuf, sendbytes>>
  /\ Move(m, "none") /\ Continue(m, sends[m])
  /\ UNCHANGED <<network, failing, io, sendsignal, raced, overlapped, crashed, replies,
                 contentCache, faults>>

-----------------------------------------------------------------------------
(* SendCompleted, once all is sent: it reads sendbuf before it sets the      *)
(* signal.  A request reaches the server over an intact link; of one that    *)
(* another task's header or message ran into nobody knows.                   *)
SendCompletes ==
  /\ io # Null /\ connected
  /\ IF sendbuf = Null
     THEN crashed' = TRUE /\ UNCHANGED <<sendbytes, io, sendsignal, mail, lost>>
     ELSE /\ sendbytes' = 1 /\ io' = Null /\ sendsignal' = TRUE
          /\ UNCHANGED crashed
          /\ \E arrives \in IF overlapped THEN BOOLEAN ELSE {TRUE} :
               /\ mail' = IF link /\ arrives THEN mail \cup ({io} \cap Requests) ELSE mail
               /\ lost' = (lost \/ (io \in Requests /\ ~(link /\ arrives)))
  /\ UNCHANGED <<network, session, failing, sendbuf, sends, raced, overlapped, rpchandler, sync,
                 clips, faults>>

(* SendCompleted with an error; the socket is not connected any more.        *)
SendFails ==
  /\ io # Null /\ ~link /\ ~failing
  /\ io' = Null /\ sendsignal' = TRUE /\ failing' = TRUE
  /\ UNCHANGED <<network, session, sendbuf, sendbytes, sends, raced, overlapped, crashed,
                 replies, sync, clips, faults, lost>>

-----------------------------------------------------------------------------
Enqueue(kind, i) == rpchandler' = [rpchandler EXCEPT ![kind] = Append(@, i)]

(* Authenticate: the handler is queued first; it stays if the send fails. *)
Authenticate(a) ==
  /\ pc[a] = "auth" /\ pc' = [pc EXCEPT ![a] = "sending"]
  /\ Enqueue("auth", a) /\ Call(<<"auth", a>>)
  /\ UNCHANGED <<network, reconnecting, scheduling, attempt, ignored, failing, mail, sync,
                 clips, faults, lost>>

(* Sync, called by the task ContentAvailable starts (which the server raises *)
(* for clients that have logged in): if nothing is sent, the handler stays.  *)
Sync(c) ==
  /\ sync[c] = "idle" /\ connected /\ pc[0] = "over"
  /\ sync' = [sync EXCEPT ![c] = "sending"]
  /\ Enqueue("sync", c) /\ Call(<<"sync", c>>)
  /\ UNCHANGED <<network, session, failing, mail, clips, faults, lost>>

(* Notify, which the window calls whether there is a connection or not *)
Notify(k) ==
  /\ k \notin contentCache /\ pc[0] = "over"
  /\ contentCache' = contentCache \cup {k}
  /\ Call(<<"notify", k>>)
  /\ UNCHANGED <<network, session, failing, replies, sync, answer, faults, lost>>

(* A SYNC_REQUEST comes in, perhaps for what an earlier process announced;   *)
(* bound: one at a time.  The handler sends the response, and the task that  *)
(* continues it the content.                                                 *)
SyncRequest(k) ==
  /\ receiving /\ link /\ pc[0] = "over" /\ answer = NoAnswer
  /\ answer' = [to |-> k, has |-> k \in contentCache, step |-> "responding"]
  /\ Call(<<"response", k>>)
  /\ UNCHANGED <<network, session, failing, replies, sync, contentCache, faults, lost>>

SendContent ==
  /\ answer.step = "content" /\ answer' = [answer EXCEPT !.step = "sending"]
  /\ Call(<<"content", answer.to>>)
  /\ UNCHANGED <<network, session, failing, replies, sync, contentCache, faults, lost>>

-----------------------------------------------------------------------------
(* The receive loop gives a reply to the first handler of its type, if there *)
(* is one.  The server answers cached contents at once and the others later: *)
(* replies come in any order.                                                *)
AuthenticateReply(a) ==
  /\ receiving /\ link /\ <<"auth", a>> \in mail
  /\ mail' = mail \ {<<"auth", a>>}
  /\ LET queue == rpchandler["auth"]
         first == Head(queue)
         found == queue # <<>> /\ pc[first] \in {"sending", "waiting"}
     IN  /\ IF ~found THEN UNCHANGED session
            ELSE IF pc[first] = "waiting" THEN Over(first)
            ELSE /\ pc' = [pc EXCEPT ![first] = "early"]
                 /\ UNCHANGED <<reconnecting, scheduling, attempt, ignored>>
         /\ lost' = (lost \/ ~found)
         /\ rpchandler' = IF queue = <<>> THEN rpchandler
                          ELSE [rpchandler EXCEPT !["auth"] = Tail(@)]
  /\ UNCHANGED <<network, failing, sending, sync, clips, faults>>

(* The handler receives the content itself.                                  *)
SyncReply(c) ==
  /\ receiving /\ link /\ <<"sync", c>> \in mail
  /\ mail' = mail \ {<<"sync", c>>}
  /\ LET queue == rpchandler["sync"]
         first == Head(queue)
         found == queue # <<>> /\ sync[first] \in {"sending", "waiting"}
     IN  /\ sync' = IF ~found THEN sync
                    ELSE [sync EXCEPT ![first] = IF @ = "waiting" THEN "served" ELSE "early"]
         /\ lost' = (lost \/ ~found)
         /\ rpchandler' = IF queue = <<>> THEN rpchandler
                          ELSE [rpchandler EXCEPT !["sync"] = Tail(@)]
  /\ UNCHANGED <<network, session, failing, sending, clips, faults>>

LinkFails ==
  /\ link /\ faults < MaxFaults
  /\ faults' = faults + 1 /\ LoseMail
  /\ UNCHANGED <<connected, receiving, pinging, session, failing, sending, rpchandler, sync,
                 clips>>

(* The loop ends: zero bytes raise nothing, an error raises Disconnected. *)
ReceiveEnds ==
  /\ receiving /\ ~link /\ receiving' = FALSE
  /\ \/ UNCHANGED <<connected, session>>
     \/ connected /\ OnDisconnected
  /\ UNCHANGED <<link, pinging, failing, sending, replies, sync, clips, faults, lost>>

(* A ping that fails is the last of its connection. *)
PingFails ==
  /\ pinging /\ ~link /\ pinging' = FALSE
  /\ OnDisconnected
  /\ UNCHANGED <<link, receiving, failing, sending, replies, sync, clips, faults, lost>>

AttemptStep(a) ==
  Reconnect(a) \/ ConnectSucceeds(a) \/ ConnectReturnsFalse(a) \/ Authenticate(a)
ReceiveLoop ==
  \/ \E a \in Attempts : AuthenticateReply(a)
  \/ \E c \in Callers : SyncReply(c)
  \/ ReceiveEnds
SendStep(m) ==
  Test(m) \/ Assign(m) \/ SendHeader(m) \/ SendContinue(m) \/ Wake(m) \/ Compare(m) \/ Returns(m)

(* Timers go off, the pool runs its tasks, the system completes a send or    *)
(* fails it, the server answers over an intact link.                         *)
Background ==
  \/ \E a \in Attempts : AttemptStep(a)
  \/ \E m \in Requests : SendStep(m)
  \/ Schedule \/ CompletedRaises \/ SendCompletes \/ SendFails \/ PingFails

Going(A) == ~crashed /\ scheduling <= 1 /\ A

Next ==
  Going(\/ Background \/ ReceiveLoop
        \/ \E m \in Tasks \ Requests : SendStep(m)
        \/ Open \/ \E a \in Attempts : ConnectFails(a)
        \/ \E c \in Callers : Sync(c)
        \/ \E k \in Clips : Notify(k) \/ SyncRequest(k)
        \/ SendContent \/ LinkFails)

Fairness ==
  /\ WF_vars(Going(Schedule \/ \E a \in Attempts : AttemptStep(a)))
  /\ WF_vars(Going(\E m \in Requests : SendStep(m)))
  /\ WF_vars(Going(CompletedRaises \/ SendCompletes \/ SendFails))
  /\ WF_vars(Going(PingFails \/ ReceiveLoop))

Spec == Init /\ [][Next]_vars /\ Fairness

-----------------------------------------------------------------------------
Owning == {"header", "data", "wait", "woken", "sent", "short"}

(* Every reply under way has a handler in the queue of its type, unless one  *)
(* message was sent twice.  Without one the bytes of a content would be      *)
(* taken for the next header.                                                *)
RepliesFindHandlers ==
  overlapped \/ \A kind \in {"auth", "sync"} :
    Cardinality({m \in mail : m[1] = kind}) <= Len(rpchandler[kind])

(* A client that is not connected is on its way to be, unless a Disconnected *)
(* came while the flag was set: that one is not made up for.                 *)
DownOnlyIfIgnored ==
  ~connected => \/ reconnecting \/ scheduling > 0 \/ failing \/ ignored
                \/ pc[0] \in {"none", "connect"}

(* A login, a call of Sync and an answer wait for the send they began, and   *)
(* for no other.                                                             *)
CallersWaitForTheirs ==
  /\ \A a \in Attempts : sends[<<"auth", a>>] # "none" <=> pc[a] \in {"sending", "early"}
  /\ \A c \in Callers : sends[<<"sync", c>>] # "none" <=> sync[c] \in {"sending", "early"}
  /\ \A k \in Clips :
       /\ sends[<<"notify", k>>] # "none" => k \in contentCache
       /\ sends[<<"response", k>>] # "none" <=> answer.step = "responding" /\ answer.to = k
       /\ sends[<<"content", k>>] # "none" <=> answer.step = "sending" /\ answer.to = k

(* Only two tasks that have both tested sendbuf before either assigned it    *)
(* can find it taken.  Until that happens it belongs to the one task that is *)
(* between its assignment and its reset, which waits for its own message and *)
(* for no signal but the one it will get; sendbuf is given up for good only  *)
(* if a header met a broken link; and no completion finds it null.           *)
SendsTakeTurns ==
  /\ overlapped => raced
  /\ crashed => overlapped
  /\ overlapped \/
       /\ \A m \in Tasks :
            /\ sends[m] \in Owning <=> sendbuf = m
            /\ sends[m] = "wait" <=> sendbuf = m /\ (io = m \/ sendsignal)
       /\ ~(io # Null /\ sendsignal)
       /\ sendbuf = Kept => faults > 0

(* The flag that suppresses reconnects is reset, unless a reply has been lost *)
(* or spent on a task that did not wait for it, or two sends have overlapped. *)
FlagIsReset == []<>(~reconnecting \/ scheduling > 1 \/ lost \/ overlapped)

(* A call of Sync returns, with a content (perhaps not its own) or without,  *)
(* under the same proviso: a refused send takes the content of the next      *)
(* caller with it.                                                           *)
SyncReturns ==
  \A c \in Callers :
    []<>(sync[c] \notin {"sending", "early", "waiting"} \/ scheduling > 1 \/ lost \/ overlapped)
=============================================================================
