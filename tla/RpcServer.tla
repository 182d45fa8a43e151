----------------------------- MODULE RpcServer -----------------------------
(***************************************************************************)
(* src/exercises/rpc2.cpp: a device sends packets of requests, the server  *)
(* thread turns each into a handler and posts it to the actor of the       *)
(* target's id, and the actor's thread runs it and pushes the response.    *)
(* A request is named by its target; what its method computes is left out. *)
(***************************************************************************)
EXTENDS Integers, Sequences, FiniteSets, SequencesExt

CONSTANTS Ids, MaxPackets  \* targets; MaxPackets bounds what the device sends

VARIABLES
  fromDevice, fromServer,  \* the two channels
  packet,      \* the requests of the packet in Dispatcher::handle still to handle
  actors,      \* ActorPool's map: the ids with an actor
  workList,    \* workList[id]: the tags of the works posted to the actor
  running,     \* running[id]: the tag its thread has run and not popped, or 0
  rpcs,        \* rpcs[id]: the tags of the handlers in the service's registry
  tag,         \* tag[id]: the registry's next
  terminated,  \* an Actor was destroyed with its thread still joinable
  sent, received  \* history: packets sent; sets of <<id, tag>> whose response arrived

vars == <<fromDevice, fromServer, packet, actors, workList, running, rpcs, tag, terminated, sent, received>>

Init ==
  /\ fromDevice = <<>> /\ fromServer = <<>> /\ packet = <<>>
  /\ actors = {} /\ terminated = FALSE
  /\ workList = [id \in Ids |-> <<>>] /\ running = [id \in Ids |-> 0]
  /\ rpcs = [id \in Ids |-> {}] /\ tag = [id \in Ids |-> 1]
  /\ sent = 0 /\ received = <<>>

DeviceSends(requests) ==
  /\ sent < MaxPackets /\ sent' = sent + 1
  /\ fromDevice' = Append(fromDevice, requests)
  /\ UNCHANGED <<fromServer, packet, actors, workList, running, rpcs, tag, terminated, received>>

DeviceReceives ==
  /\ fromServer # <<>>
  /\ fromServer' = Tail(fromServer) /\ received' = Append(received, Head(fromServer))
  /\ UNCHANGED <<fromDevice, packet, actors, workList, running, rpcs, tag, terminated, sent>>

ServerReceives ==
  /\ packet = <<>> /\ fromDevice # <<>>
  /\ packet' = Head(fromDevice) /\ fromDevice' = Tail(fromDevice)
  /\ UNCHANGED <<fromServer, actors, workList, running, rpcs, tag, terminated, sent, received>>

(* RpcRegistry::adopt: the registry owns the handler from here on. *)
Adopt(id) ==
  /\ rpcs' = [rpcs EXCEPT ![id] = @ \cup {tag[id]}]
  /\ tag' = [tag EXCEPT ![id] = @ + 1]

(* Rpc::execute posts a work with a bare pointer to the rpc. *)
Execute(id) == workList' = [workList EXCEPT ![id] = Append(@, tag[id])]

(* Dispatcher::handle, one request.  get_or_create_actor makes an actor      *)
(* before it looks for one: if the id has one already the new one is         *)
(* destroyed, with the thread its constructor has started.                   *)
Handle ==
  /\ packet # <<>> /\ packet' = Tail(packet)
  /\ LET id == Head(packet) IN
       \/ /\ id \in actors /\ terminated' = TRUE
          /\ UNCHANGED <<actors, rpcs, workList, tag>>
       \/ /\ id \notin actors /\ actors' = actors \cup {id}
          /\ Adopt(id) /\ Execute(id)
          /\ UNCHANGED terminated
  /\ UNCHANGED <<fromDevice, fromServer, running, sent, received>>

(* Actor::run_once, under the actor's mutex: the work stays in the list      *)
(* while it runs.  It calls the method and the complete handler.             *)
Run(id) ==
  /\ workList[id] # <<>> /\ running[id] = 0
  /\ running' = [running EXCEPT ![id] = Head(workList[id])]
  /\ fromServer' = Append(fromServer, <<id, Head(workList[id])>>)
  /\ UNCHANGED <<fromDevice, packet, actors, workList, rpcs, tag, terminated, sent, received>>

PopWork(id) ==
  /\ running[id] # 0
  /\ workList' = [workList EXCEPT ![id] = Tail(@)]
  /\ running' = [running EXCEPT ![id] = 0]
  /\ UNCHANGED <<fromDevice, fromServer, packet, actors, rpcs, tag, terminated, sent, received>>

Requests == {<<i>> : i \in Ids} \cup {<<i, j>> : i, j \in Ids}

Next ==
  /\ ~terminated
  /\ \/ \E r \in Requests : DeviceSends(r)
     \/ DeviceReceives \/ ServerReceives \/ Handle
     \/ \E id \in Ids : Run(id) \/ PopWork(id)

(* Every thread loops for ever, sleeping 100 ms at most. *)
Fairness ==
  /\ WF_vars(~terminated /\ DeviceReceives)
  /\ WF_vars(~terminated /\ (ServerReceives \/ Handle))
  /\ \A id \in Ids : WF_vars(~terminated /\ (Run(id) \/ PopWork(id)))

Spec == Init /\ [][Next]_vars /\ Fairness

-----------------------------------------------------------------------------
(* A work holds a bare pointer to its rpc: the handler that owns it is in    *)
(* the registry for as long as the work is in the list.                      *)
HandlersOutliveWorks ==
  \A id \in Ids : Range(workList[id]) \subseteq rpcs[id]

(* No request is answered twice, on whichever threads it was served.         *)
AnsweredOnce == IsInjective(received \o fromServer)

(* Every request handled is answered, unless a second one for its target     *)
(* has ended the program.                                                    *)
RequestsAreAnswered ==
  \A id \in Ids : id \in actors ~> terminated \/ \E i \in DOMAIN received : received[i][1] = id
=============================================================================
