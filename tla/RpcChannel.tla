----------------------------- MODULE RpcChannel -----------------------------
(***************************************************************************)
(* src/exercises/rpc.cpp: clients send requests and wait for a future, one *)
(* dispatcher moves requests to the network and matches the replies with   *)
(* the clients that wait.  The queues hold pointers to the clients' stack  *)
(* frames, named by the client: its next call has its state in the same    *)
(* place.  The network hands what is sent back, a round later.             *)
(***************************************************************************)
EXTENDS Integers, Sequences

CONSTANTS Clients, MaxCalls  \* MaxCalls bounds the sessions drawn

VARIABLES
  session,     \* the static counter in channel::send
  pc,          \* pc[c]: "idle", "counted", "pending" (in reply.wait()) or "replied"
  request,     \* request[c]: the session in the state of c's last call
  pendingSend, pendingRecv,  \* clients
  up, down,    \* sessions: network_buffer_up and network_buffer_down
  waiting, incoming,  \* what dispatch has drained
  at,          \* the dispatcher's thread: "new", "flush", "drain" or "match"
  terminated,  \* set_value has thrown in the dispatcher's thread
  raced        \* history: two threads were in ++session at once

vars == <<session, pc, request, pendingSend, pendingRecv, up, down, waiting, incoming, at, terminated, raced>>

Init ==
  /\ session = 0
  /\ pc = [c \in Clients |-> "idle"] /\ request = [c \in Clients |-> 0]
  /\ pendingSend = <<>> /\ pendingRecv = <<>>
  /\ up = <<>> /\ down = <<>> /\ waiting = <<>> /\ incoming = <<>>
  /\ at = "new" /\ terminated = FALSE /\ raced = FALSE

-----------------------------------------------------------------------------
(* ++session is a read and a write of a plain int. *)
Count(c) ==
  /\ pc[c] = "idle" /\ session < MaxCalls
  /\ pc' = [pc EXCEPT ![c] = "counted"]
  /\ request' = [request EXCEPT ![c] = session + 1]
  /\ raced' = (raced \/ \E d \in Clients : pc[d] = "counted")
  /\ UNCHANGED <<session, pendingSend, pendingRecv, up, down, waiting, incoming, at, terminated>>

Send(c) ==
  /\ pc[c] = "counted"
  /\ session' = request[c]
  /\ pendingSend' = Append(pendingSend, c)
  /\ pc' = [pc EXCEPT ![c] = "pending"]
  /\ UNCHANGED <<request, pendingRecv, up, down, waiting, incoming, at, terminated, raced>>

Return(c) ==
  /\ pc[c] = "replied" /\ pc' = [pc EXCEPT ![c] = "idle"]
  /\ UNCHANGED <<session, request, pendingSend, pendingRecv, up, down, waiting, incoming, at, terminated, raced>>

-----------------------------------------------------------------------------
Start ==
  /\ at = "new" /\ at' = "flush"
  /\ UNCHANGED <<session, pc, request, pendingSend, pendingRecv, up, down, waiting, incoming, terminated, raced>>

Flush ==
  /\ at = "flush" /\ at' = "drain"
  /\ down' = down \o up /\ up' = <<>>
  /\ UNCHANGED <<session, pc, request, pendingSend, pendingRecv, waiting, incoming, terminated, raced>>

DispatchRegisteringFirst ==  \* mutant: enters the new requests before it drains those that wait
  /\ at = "drain" /\ at' = "match"
  /\ pendingSend' = <<>>
  /\ waiting' = pendingRecv \o pendingSend /\ pendingRecv' = <<>>
  /\ incoming' = down /\ down' = <<>>
  /\ up' = up \o [i \in DOMAIN pendingSend |-> request[pendingSend[i]]]
  /\ UNCHANGED <<session, pc, request, terminated, raced>>

(* dispatch, up to the loop over the replies.  pending_send is the one queue *)
(* others use meanwhile, and it is drained under its mutex.                  *)
Dispatch ==
  /\ at = "drain" /\ at' = "match"
  /\ pendingSend' = <<>>
  /\ waiting' = pendingRecv /\ pendingRecv' = pendingSend
  /\ incoming' = down /\ down' = <<>>
  /\ up' = up \o [i \in DOMAIN pendingSend |-> request[pendingSend[i]]]
  /\ UNCHANGED <<session, pc, request, terminated, raced>>

MatchLast ==  \* mutant: the last match gets the reply
  /\ at = "match" /\ incoming # <<>>
  /\ incoming' = Tail(incoming)
  /\ LET c == waiting[Len(waiting)] IN
       /\ terminated' = (pc[c] # "pending")
       /\ pc' = IF pc[c] = "pending" THEN [pc EXCEPT ![c] = "replied"] ELSE pc
  /\ UNCHANGED <<session, request, pendingSend, pendingRecv, up, down, waiting, at, raced>>

(* The first client in waiting whose state has the reply's session gets it,  *)
(* returned already or not; a promise that has its value throws.             *)
Match ==
  /\ at = "match" /\ incoming # <<>>
  /\ incoming' = Tail(incoming)
  /\ LET Hit(i) == request[waiting[i]] = Head(incoming)
     IN  \/ (\A i \in DOMAIN waiting : ~Hit(i)) /\ UNCHANGED <<pc, terminated>>
         \/ \E i \in DOMAIN waiting :
              LET c == waiting[i]
              IN  /\ Hit(i) /\ \A j \in 1..(i - 1) : ~Hit(j)
                  /\ \/ /\ pc[c] = "pending" /\ UNCHANGED terminated
                        /\ pc' = [pc EXCEPT ![c] = "replied"]
                     \/ pc[c] # "pending" /\ terminated' = TRUE /\ UNCHANGED pc
  /\ UNCHANGED <<session, request, pendingSend, pendingRecv, up, down, waiting, at, raced>>

(* Whoever was waiting and had no reply in this round is forgotten. *)
EndRound ==
  /\ at = "match" /\ incoming = <<>>
  /\ at' = "flush" /\ waiting' = <<>>
  /\ UNCHANGED <<session, pc, request, pendingSend, pendingRecv, up, down, incoming, terminated, raced>>

Dispatcher == Flush \/ Dispatch \/ Match \/ EndRound

Next ==
  /\ ~terminated
  /\ Start \/ Dispatcher \/ \E c \in Clients : Count(c) \/ Send(c) \/ Return(c)

Fairness ==
  /\ WF_vars(~terminated /\ Dispatcher)
  /\ \A c \in Clients : WF_vars(~terminated /\ (Send(c) \/ Return(c)))

Spec == Init /\ [][Next]_vars /\ Fairness

-----------------------------------------------------------------------------
(* Unless two clients have raced on the counter (main() has one), set_value  *)
(* is called once for each call, though a reply is compared with clients     *)
(* that have returned, or called again.                                      *)
RepliedOnce == terminated => raced

(* Every call returns, with the same proviso.                                *)
CallsReturn ==
  \A c \in Clients : pc[c] = "pending" /\ at # "new" ~> pc[c] # "pending" \/ raced
=============================================================================
