--------------------------- MODULE MCLockedQueue ---------------------------
(***************************************************************************)
(* The queues with locks, and what is built of them, side by side.  They   *)
(* share no state: a behaviour plays one part, which the initial state     *)
(* chooses, while the variables of the others stay as they are, so that    *)
(* TLC explores the sum of the state spaces.  LockedQueue has more threads *)
(* on each side than places, so that sleepers, notified threads and        *)
(* callers meet.                                                           *)
(***************************************************************************)
EXTENDS LockedQueue

CONSTANTS
  i1, i2,                          \* items
  Writers, Readers, Batches, Cap,  \* of the read-write queue
  Clients, MaxCalls,               \* of the channel
  Ids, MaxPackets                  \* of the server

VARIABLES
  part,
  rw_writequeue, rw_readqueue, rw_pc, rw_call,
  ch_session, ch_pc, ch_request, ch_pendingSend, ch_pendingRecv, ch_up, ch_down, ch_waiting,
  ch_incoming, ch_at, ch_terminated, ch_raced,
  sv_fromDevice, sv_fromServer, sv_packet, sv_actors, sv_workList, sv_running, sv_rpcs, sv_tag,
  sv_terminated, sv_sent, sv_received

readwrite == <<rw_writequeue, rw_readqueue, rw_pc, rw_call>>
channel == <<ch_session, ch_pc, ch_request, ch_pendingSend, ch_pendingRecv, ch_up, ch_down,
             ch_waiting, ch_incoming, ch_at, ch_terminated, ch_raced>>
server == <<sv_fromDevice, sv_fromServer, sv_packet, sv_actors, sv_workList, sv_running, sv_rpcs,
            sv_tag, sv_terminated, sv_sent, sv_received>>

ASSUME Crowded == Cardinality(Producers) > Bound /\ Cardinality(Consumers) > Bound

Vectors == {<<i1>>, <<i2>>, <<i1, i2>>}

ReadWrite == INSTANCE ReadWriteQueue WITH
  writequeue <- rw_writequeue, readqueue <- rw_readqueue, pc <- rw_pc, call <- rw_call

Channel == INSTANCE RpcChannel WITH
  session <- ch_session, pc <- ch_pc, request <- ch_request, pendingSend <- ch_pendingSend,
  pendingRecv <- ch_pendingRecv, up <- ch_up, down <- ch_down, waiting <- ch_waiting,
  incoming <- ch_incoming, at <- ch_at, terminated <- ch_terminated, raced <- ch_raced

Server == INSTANCE RpcServer WITH
  fromDevice <- sv_fromDevice, fromServer <- sv_fromServer, packet <- sv_packet,
  actors <- sv_actors, workList <- sv_workList, running <- sv_running, rpcs <- sv_rpcs,
  tag <- sv_tag, terminated <- sv_terminated, sent <- sv_sent, received <- sv_received

GroupInit ==
  /\ Init /\ ReadWrite!Init /\ Channel!Init /\ Server!Init
  /\ part \in {"locked", "readwrite", "channel", "server"}

GroupNext ==
  /\ UNCHANGED part
  /\ \/ part = "locked" /\ Next /\ UNCHANGED <<readwrite, channel, server>>
     \/ part = "readwrite" /\ ReadWrite!Next /\ UNCHANGED <<vars, channel, server>>
     \/ part = "channel" /\ Channel!Next /\ UNCHANGED <<vars, readwrite, server>>
     \/ part = "server" /\ Server!Next /\ UNCHANGED <<vars, readwrite, channel>>

groupVars == <<part, vars, readwrite, channel, server>>

(* No step that fairness requires is enabled in a part that is not played.   *)
GroupSpec ==
  /\ GroupInit /\ [][GroupNext]_groupVars
  /\ \A p \in Producers : WF_vars(ResumePush(p))
  /\ \A c \in Consumers : WF_vars(ResumePop(c))
  /\ ReadWrite!Fairness /\ Channel!Fairness /\ Server!Fairness

-----------------------------------------------------------------------------
(* The two deques of the read-write queue are one FIFO queue, in which the   *)
(* vector of a push appears as a whole.                                      *)
OneQueue == ReadWrite!OneQueue

(* A push of one item sleeps only while the writers' deque is full, and a    *)
(* reader does not oversleep an item.                                        *)
ReaderWakes == []ReadWrite!SleepingItemsHaveNoRoom /\ ReadWrite!ReaderWakes

(* A request is answered once: by the channel unless clients have raced on   *)
(* the counter, and by the server, whose handler lives as long as a work     *)
(* points to it.                                                             *)
AnsweredOnce == Channel!RepliedOnce /\ Server!AnsweredOnce /\ Server!HandlersOutliveWorks

(* A call on the channel returns, and the server answers every request,      *)
(* unless a second one for its target ends the program.                      *)
RequestsAreAnswered == Channel!CallsReturn /\ Server!RequestsAreAnswered
=============================================================================
