----------------------------- MODULE ClipServer -----------------------------
(***************************************************************************)
(* The clipboard server of src/exercises/clipserver/Server.                *)
(*                                                                         *)
(* A fixed pool of handler threads each accepts a connection, serves it    *)
(* until its receiver is closed and accepts the next.  The handlers share  *)
(* the glb_* maps under one recursive mutex, but two things escape it:     *)
(* the maps hold POINTERS to the accepted socket on a thread's stack, and  *)
(* a failed send to another connection closes that connection through the  *)
(* receiver of the thread that was sending.  The `accepted' socket of a    *)
(* thread occupies the same stack slot in every iteration of its loop, so  *)
(* a pointer that outlives a connection designates the thread's next one:  *)
(* a thread identifies its slot and a `remote' is a thread.                *)
(*                                                                         *)
(* A handler runs under the lock from its first line to its last: it is    *)
(* one action, except for the blocking receive inside the sync_response    *)
(* handler, during which the lock stays held (pc = "content").             *)
(***************************************************************************)
EXTENDS Naturals, FiniteSets

CONSTANTS
  Threads,     \* handler threads, and the socket slots on their stacks
  Devices,     \* device ids of the clients; 0 is the id no device has
  Users,       \* user ids of the accounts; 0 is the id no user has
  UserOf,      \* the account each device is configured for
  Contents,    \* content ids
  MaxSeconds,  \* bound on the clock seconds in which tokens are generated
  Asserts,     \* TRUE in a build that keeps assert()
  SendFails,   \* TRUE if a send to a vanished client may report an error
  Repeats,     \* TRUE if a device may connect or authenticate when it already has
  SameSecond   \* TRUE if two authentications may fall in one clock second

ASSUME ClipAssumption ==
  /\ Devices \subseteq Nat \ {0}
  /\ Users \subseteq Nat \ {0}
  /\ UserOf \in [Devices -> Users]
  /\ MaxSeconds \in Nat \ {0}
  /\ {Asserts, SendFails, Repeats, SameSecond} \subseteq BOOLEAN

(* The configuration the runs check: all devices are user 1's.               *)
OneUser == [d \in Devices |-> 1]

VARIABLES
  now,        \* the last clock second in which a token was generated
  held,       \* held[d]: the token the client of device d uses
  pc,         \* where each handler thread is
  closed,     \* closed_ of the receiver of each thread's current connection
  sock,       \* the accepted socket in each slot: handle valid, error_ set
  link,       \* the client at the other end of each slot's connection
  rx,         \* the content a thread is receiving inside the lock
  glb_connections,              \* device -> [remote, token, user]
  accounts,                     \* user -> (device -> remote): account.connections
  contents,                     \* user -> content -> [devices, buffer]
  glb_token_to_device_id,
  glb_token_to_user_id,
  glb_content_id_to_connection, \* the pending requests: who waits for which content
  fault                         \* why the process died, or "none"

threads == <<pc, closed, sock, rx>>
clients == <<now, held>>
tables  == <<glb_connections, accounts, glb_token_to_device_id,
             glb_token_to_user_id, glb_content_id_to_connection>>
vars    == <<threads, clients, link, tables, contents, fault>>

DeviceIds == Devices \cup {0}
UserIds   == Users \cup {0}
Tokens    == 0..MaxSeconds

-----------------------------------------------------------------------------
(* std::map: insert or assign a key, erase a set of keys *)
Put(f, k, v) == [x \in DOMAIN f \cup {k} |-> IF x = k THEN v ELSE f[x]]
Erase(f, S)  == [x \in DOMAIN f \ S |-> f[x]]

Idle     == [device |-> 0, up |-> FALSE, asked |-> {}, synced |-> TRUE]
Unknown  == [devices |-> {}, buffer |-> "none"]
Nothing  == [user |-> 0, content |-> 0, size |-> 0]
Fresh    == [valid |-> FALSE, err |-> FALSE]
Empty    == [x \in {} |-> 0]

(* socket::is_open, and glb_lock, held across steps only by a thread that is *)
(* receiving content                                                         *)
IsOpen(s) == sock[s].valid /\ ~sock[s].err
LockFree  == \A t \in Threads : pc[t] # "content"

(* The slots of S a send reports an error for; a send to a client that is    *)
(* still there succeeds, one to a socket that is not open is skipped         *)
FailSets(S) == IF SendFails THEN SUBSET {s \in S : IsOpen(s) /\ ~link[s].up} ELSE {{}}

Known(token) == token \in DOMAIN glb_token_to_user_id
Cached(c)    == c.buffer # "none"

Init ==
  /\ now = 1
  /\ held = [d \in Devices |-> 0]
  /\ pc = [t \in Threads |-> "accept"]
  /\ closed = [t \in Threads |-> FALSE]
  /\ sock = [t \in Threads |-> Fresh]
  /\ link = [t \in Threads |-> Idle]
  /\ rx = [t \in Threads |-> Nothing]
  /\ glb_connections = Empty
  /\ accounts = [u \in UserIds |-> Empty]
  /\ contents = [u \in UserIds |-> [c \in Contents |-> Unknown]]
  /\ glb_token_to_device_id = Empty
  /\ glb_token_to_user_id = Empty
  /\ glb_content_id_to_connection = {}
  /\ fault = "none"

Crash(why) == fault' = why /\ UNCHANGED <<threads, clients, link, tables, contents>>

-----------------------------------------------------------------------------
(* receiver::on_close for a set F of slots, on tables C, A, D, U, P.  The    *)
(* search compares handles, so two closed sockets (handle INVALID) are equal *)
(* to it, and takes the first match in the order of device ids.              *)
SameHandle(s, r) == s = r \/ (~sock[s].valid /\ ~sock[r].valid)
Found(s, C) ==
  LET match == {d \in DOMAIN C : SameHandle(s, C[d].remote)}
  IN  {d \in match : \A e \in match : d <= e}

(* mutants: on_close forgets one of its four erasures *)
KeepAccounts(gone, C, A) == glb_connections' = Erase(C, gone) /\ accounts' = A
KeepUserTokens(tokens, D, U) ==
  glb_token_to_device_id' = Erase(D, tokens) /\ glb_token_to_user_id' = U
KeepPending(gone, P) == glb_content_id_to_connection' = P

EraseConnections(gone, C, A) ==
  /\ glb_connections' = Erase(C, gone)
  /\ accounts' = [u \in UserIds |-> Erase(A[u], {d \in gone : C[d].user = u})]
EraseTokens(tokens, D, U) ==
  /\ glb_token_to_device_id' = Erase(D, tokens)
  /\ glb_token_to_user_id' = Erase(U, tokens)
ErasePending(gone, P) == glb_content_id_to_connection' = {p \in P : p.device \notin gone}

OnClose(F, C, A, D, U, P) ==
  LET gone == UNION {Found(s, C) : s \in F}
  IN  /\ EraseConnections(gone, C, A)
      /\ EraseTokens({C[d].token : d \in gone}, D, U)
      /\ ErasePending(gone, P)

(* receiver::close from thread t for each slot of F whose send failed: the   *)
(* tables, the sockets, and closed_ of t's OWN receiver                      *)
CloseFailed(t, F, C, A, D, U, P) ==
  /\ OnClose(F, C, A, D, U, P)
  /\ sock' = [s \in Threads |-> IF s \in F THEN [valid |-> FALSE, err |-> TRUE] ELSE sock[s]]
  /\ closed' = IF F = {} THEN closed ELSE [closed EXCEPT ![t] = TRUE]

Close(t) ==
  /\ OnClose({t}, glb_connections, accounts, glb_token_to_device_id,
             glb_token_to_user_id, glb_content_id_to_connection)
  /\ sock' = [sock EXCEPT ![t].valid = FALSE]
  /\ closed' = [closed EXCEPT ![t] = TRUE]
  /\ pc' = [pc EXCEPT ![t] = "leave"]
  /\ UNCHANGED <<clients, link, rx, contents, fault>>

-----------------------------------------------------------------------------
(* The loop of a handler thread: accept, receive a message, leave when the   *)
(* receiver is closed.                                                       *)

Served(d) == {t \in Threads : link[t].device = d}

Accept(t, d) ==
  /\ pc[t] = "accept"
  /\ Repeats \/ Served(d) = {}
  /\ pc' = [pc EXCEPT ![t] = "recv"]
  /\ sock' = [sock EXCEPT ![t].valid = TRUE]
  /\ link' = [link EXCEPT ![t] = [device |-> d, up |-> TRUE, asked |-> {}, synced |-> TRUE]]
  /\ UNCHANGED <<closed, rx, clients, tables, contents, fault>>

(* header and payload have been read; the handler now waits for the lock *)
Receive(t) ==
  /\ pc[t] = "recv" /\ ~closed[t] /\ IsOpen(t) /\ link[t].synced
  /\ pc' = [pc EXCEPT ![t] = "serve"]
  /\ UNCHANGED <<closed, sock, rx, clients, link, tables, contents, fault>>

(* the end of the loop body destroys `accepted', which closes its handle *)
Leave(t) ==
  /\ pc[t] = "leave" \/ (pc[t] = "recv" /\ closed[t])
  /\ pc' = [pc EXCEPT ![t] = "accept"]
  /\ closed' = [closed EXCEPT ![t] = FALSE]
  /\ sock' = [sock EXCEPT ![t] = Fresh]
  /\ link' = [link EXCEPT ![t] = Idle]
  /\ rx' = [rx EXCEPT ![t] = Nothing]
  /\ UNCHANGED <<clients, tables, contents, fault>>

(* mutant: the end of the stream goes unnoticed *)
InterruptedOnlyByAnswer(t) == pc[t] = "interrupted" /\ ~closed[t] /\ LockFree /\ Close(t)
(* dispatch: end of stream, or on_interrupt without an error *)
Interrupted(t) ==
  /\ ~closed[t] /\ LockFree
  /\ \/ pc[t] = "recv" /\ IsOpen(t) /\ ~link[t].up
     \/ pc[t] = "interrupted"
  /\ Close(t)

(* dispatch: the socket has an error, perhaps one another thread left there, *)
(* perhaps the one for which the handler has already closed it               *)
Error(t) ==
  /\ pc[t] \in {"recv", "failed"} /\ LockFree
  /\ sock[t].err
  /\ Close(t)

(* the client of slot t goes away *)
Vanish(t) ==
  /\ link[t].up
  /\ link' = [link EXCEPT ![t].up = FALSE]
  /\ UNCHANGED <<threads, clients, tables, contents, fault>>

-----------------------------------------------------------------------------
(* The message handlers *)

Serving(t) == pc[t] = "serve" /\ LockFree
Return(t)  == pc' = [pc EXCEPT ![t] = IF sock'[t].err THEN "failed" ELSE "recv"]

Authenticate(t) ==
  LET d == link[t].device
      u == UserOf[d]
  IN  /\ Serving(t)
      /\ Repeats \/ d \notin DOMAIN glb_connections
      /\ \E token \in (IF SameSecond THEN {now, now + 1} ELSE {now + 1}) \cap Tokens,
            F \in FailSets({t}) :
           LET inserted == IF d \in DOMAIN accounts[u] THEN accounts
                           ELSE [accounts EXCEPT ![u] = Put(@, d, t)]
           IN  /\ CloseFailed(t, F,
                    Put(glb_connections, d, [remote |-> t, token |-> token, user |-> u]),
                    inserted,
                    Put(glb_token_to_device_id, token, d),
                    Put(glb_token_to_user_id, token, u),
                    glb_content_id_to_connection)
               /\ now' = token
               /\ held' = IF F = {} /\ IsOpen(t) /\ link[t].up
                          THEN [held EXCEPT ![d] = token] ELSE held
      /\ Return(t)
      /\ UNCHANGED <<link, rx, contents, fault>>

Unregistering(t, F) ==
  CloseFailed(t, F, glb_connections, accounts, glb_token_to_device_id,
              glb_token_to_user_id, glb_content_id_to_connection)

RefreshIndex(t) ==
  /\ Serving(t)
  /\ \E F \in FailSets({t}) : Unregistering(t, F)
  /\ Return(t)
  /\ UNCHANGED <<clients, link, rx, contents, fault>>

(* Erasing a connection from the set the loop iterates over invalidates the  *)
(* loop's iterator: the process goes on or dies.                             *)
NotifyAvailable(t, c) ==
  LET token == held[link[t].device]
      user  == glb_token_to_user_id[token]
      self  == glb_token_to_device_id[token]
      peers == DOMAIN accounts[user] \ {self}
  IN  /\ Serving(t)
      /\ Known(token)
      /\ \E F \in FailSets({accounts[user][d] : d \in peers}) :
           \/ /\ Unregistering(t, F)
              /\ Return(t)
              /\ contents' = [contents EXCEPT ![user][c].devices = @ \cup {self}]
              /\ UNCHANGED <<clients, link, rx, fault>>
           \/ /\ \E s \in F : Found(s, glb_connections) \cap DOMAIN accounts[user] # {}
              /\ Crash("iterator")

NotifyRefused(t) ==
  /\ Serving(t)
  /\ ~Known(held[link[t].device])
  /\ UNCHANGED <<closed, sock, rx, clients, link, tables, contents, fault>>
  /\ Return(t)

(* The lookups of an unknown token insert it, mapped to device 0 and user 0 *)
Lookup(map, token) == IF token \in DOMAIN map THEN map ELSE Put(map, token, 0)

SyncRequest(t, c) ==
  LET token  == held[link[t].device]
      D      == Lookup(glb_token_to_device_id, token)
      U      == Lookup(glb_token_to_user_id, token)
      node   == contents[U[token]][c]
      asked  == node.devices \ {D[token]}
      entry  == [content |-> c, remote |-> t, device |-> D[token]]
      remote == [d \in asked \cap DOMAIN glb_connections |-> glb_connections[d].remote]
      slots  == {remote[d] : d \in DOMAIN remote}
  IN  /\ Serving(t)
      /\ \/ /\ node.devices = {}                                \* no such content
            /\ CloseFailed(t, {}, glb_connections, accounts, D, U, glb_content_id_to_connection)
            /\ Return(t)
            /\ UNCHANGED <<clients, link, rx, contents, fault>>
         \/ /\ Cached(node)                                     \* answer from the cache
            /\ \E F \in FailSets({t}) :
                 IF Asserts /\ (F # {} \/ sock[t].err)
                 THEN Crash("assert")
                 ELSE /\ CloseFailed(t, F, glb_connections, accounts, D, U,
                                     glb_content_id_to_connection)
                      /\ Return(t)
                      /\ UNCHANGED <<clients, link, rx, contents, fault>>
         \/ /\ node.devices # {} /\ ~Cached(node)               \* forward to the holders
            /\ IF asked \subseteq DOMAIN glb_connections
               THEN \E F \in FailSets(slots) :
                      /\ CloseFailed(t, F, glb_connections, accounts, D, U,
                                     glb_content_id_to_connection \cup {entry})
                      /\ link' = [s \in Threads |->
                                    IF s \in slots \ F /\ IsOpen(s) /\ link[s].up
                                    THEN [link[s] EXCEPT !.asked = @ \cup {c}] ELSE link[s]]
                      /\ Return(t)
                      /\ UNCHANGED <<clients, rx, contents, fault>>
               ELSE Crash("null")

(* A client answers only what it was asked, with the content (size 1) or,    *)
(* when its cache does not have it, with nothing (size 0).                   *)
Requests(c) == {p \in glb_content_id_to_connection : p.content = c}
(* mutant: only the requests of open connections are taken off the list *)
AnsweredIfOpen(c) == glb_content_id_to_connection' =
  glb_content_id_to_connection \ {p \in Requests(c) : IsOpen(p.remote)}
Answered(c) == glb_content_id_to_connection' = glb_content_id_to_connection \ Requests(c)
Unasked(l, c) == [l EXCEPT !.asked = @ \ {c}]
OtherTables == <<glb_connections, accounts, glb_token_to_device_id, glb_token_to_user_id>>

SyncResponse(t, c, size) ==
  LET token == held[link[t].device]
      user  == glb_token_to_user_id[token]
      taken == Known(token) /\ contents[user][c].devices # {}
  IN  /\ Serving(t)
      /\ c \in link[t].asked
      /\ UNCHANGED <<closed, sock, clients, OtherTables, fault>>
      /\ \/ /\ taken /\ IsOpen(t)
            /\ pc' = [pc EXCEPT ![t] = "content"]
            /\ rx' = [rx EXCEPT ![t] = [user |-> user, content |-> c, size |-> size]]
            /\ link' = [link EXCEPT ![t] = Unasked(@, c)]
            /\ UNCHANGED <<glb_content_id_to_connection, contents>>
         \/ /\ taken /\ ~IsOpen(t)                              \* closed by another thread
            /\ contents' = [contents EXCEPT ![user][c].buffer = "none"]
            /\ Answered(c)
            /\ link' = [link EXCEPT ![t] = Unasked(@, c)]
            /\ Return(t)
            /\ UNCHANGED rx
         \/ /\ ~taken                                           \* the bytes stay unread
            /\ link' = [link EXCEPT ![t] = [Unasked(@, c) EXCEPT !.synced = (size = 0)]]
            /\ Return(t)
            /\ UNCHANGED <<glb_content_id_to_connection, rx, contents>>

(* The second half of the handler, once the receive has returned: cache what *)
(* came, forward it to the requestors if `proceed', forget the requests.     *)
Requestors(t) == {p.remote : p \in Requests(rx[t].content)}
DeadEnds(t)   == {s \in Requestors(t) : sock[s].err \/ (~sock[s].valid /\ rx[t].size > 0)}

Cache(t, buffer) ==
  contents' = [contents EXCEPT ![rx[t].user][rx[t].content].buffer = buffer]

Finish(t, interrupted, failed) ==
  /\ Answered(rx[t].content)
  /\ sock' = [s \in Threads |-> IF s \in failed THEN [sock[s] EXCEPT !.err = TRUE] ELSE sock[s]]
  /\ IF interrupted THEN pc' = [pc EXCEPT ![t] = "interrupted"] ELSE Return(t)
  /\ rx' = [rx EXCEPT ![t] = Nothing]
  /\ UNCHANGED <<closed, clients, OtherTables, fault>>

(* a byte block sent to a dead end fails, and stops the loop if its error is *)
(* new: any of the dead ends before the stop may be marked                   *)
Forward(t, buffer, interrupted) ==
  \E F \in FailSets(Requestors(t)), G \in SUBSET DeadEnds(t) :
    IF Asserts /\ (F # {} \/ DeadEnds(t) # {})
    THEN Crash("assert")
    ELSE Cache(t, buffer) /\ Finish(t, interrupted, F \cup G) /\ UNCHANGED link

ContentWhole(t) ==
  /\ pc[t] = "content"
  /\ Forward(t, IF rx[t].size = 0 THEN "none" ELSE "whole", rx[t].size = 0)

(* End of stream in mid-content is no error: what came is forwarded as whole *)
ContentCut(t) ==
  /\ pc[t] = "content" /\ rx[t].size > 0 /\ ~link[t].up
  /\ IF Asserts THEN Crash("assert") ELSE Forward(t, "partial", TRUE)

ContentReset(t) ==
  /\ pc[t] = "content" /\ rx[t].size > 0 /\ ~link[t].up
  /\ IF Asserts THEN Crash("assert")
     ELSE Cache(t, "partial") /\ Finish(t, FALSE, {t}) /\ UNCHANGED link

NoTimeout(t) == FALSE  \* mutant: on_accept sets no receive timeout

(* The receive timeout expires; on_interrupt clears the error and pings, and *)
(* the rest of the content will be taken for a header.                       *)
ContentLate(t) ==
  /\ pc[t] = "content" /\ rx[t].size > 0
  /\ IF Asserts THEN Crash("assert")
     ELSE /\ Cache(t, "partial") /\ Finish(t, FALSE, {})
          /\ link' = [link EXCEPT ![t].synced = FALSE]

-----------------------------------------------------------------------------
Loop(t) ==
  \/ \E d \in Devices : Accept(t, d)
  \/ Receive(t) \/ Leave(t) \/ Interrupted(t) \/ Error(t)

Handle(t) ==
  \/ Authenticate(t) \/ RefreshIndex(t) \/ NotifyRefused(t)
  \/ \E c \in Contents :
       NotifyAvailable(t, c) \/ SyncRequest(t, c) \/ \E n \in {0, 1} : SyncResponse(t, c, n)
  \/ ContentWhole(t) \/ ContentCut(t) \/ ContentReset(t) \/ ContentLate(t)

Step(t) == fault = "none" /\ (Loop(t) \/ Handle(t) \/ Vanish(t))
Next == \E t \in Threads : Step(t)

Spec == Init /\ [][Next]_vars

(* The receive timeout on_accept sets ends every blocking receive, and a     *)
(* thread that waits for the mutex gets it.  A client owes nothing: it need  *)
(* neither send the content it announced nor go away.                        *)
Unblock(t) == \/ Leave(t)
              \/ ContentReset(t) \/ ContentLate(t)
              \/ rx[t].size = 0 /\ ContentWhole(t)

Fairness ==
  \A t \in Threads :
    /\ WF_vars(fault = "none" /\ Unblock(t))
    /\ SF_vars(fault = "none" /\ (Interrupted(t) \/ Error(t)))
    /\ SF_vars(fault = "none" /\ pc[t] = "serve" /\ Handle(t))

FairSpec == Spec /\ Fairness

-----------------------------------------------------------------------------
(* Every variable holds values of its type; a slot that serves nobody has no *)
(* handle and no client.                                                     *)
TypeOK ==
  /\ now \in Tokens
  /\ held \in [Devices -> Tokens]
  /\ pc \in [Threads -> {"accept", "recv", "serve", "content", "interrupted", "failed", "leave"}]
  /\ closed \in [Threads -> BOOLEAN]
  /\ sock \in [Threads -> [valid : BOOLEAN, err : BOOLEAN]]
  /\ link \in [Threads -> [device : DeviceIds, up : BOOLEAN, asked : SUBSET Contents,
                           synced : BOOLEAN]]
  /\ rx \in [Threads -> [user : UserIds, content : Contents \cup {0}, size : {0, 1}]]
  /\ DOMAIN glb_connections \subseteq Devices
  /\ \A d \in DOMAIN glb_connections :
       glb_connections[d] \in [remote : Threads, token : Tokens, user : Users]
  /\ DOMAIN accounts = UserIds
  /\ \A u \in UserIds : /\ DOMAIN accounts[u] \subseteq Devices
                        /\ \A d \in DOMAIN accounts[u] : accounts[u][d] \in Threads
  /\ contents \in [UserIds -> [Contents -> [devices : SUBSET DeviceIds,
                                           buffer : {"none", "whole", "partial"}]]]
  /\ glb_token_to_device_id \in [DOMAIN glb_token_to_device_id -> DeviceIds]
  /\ glb_token_to_user_id \in [DOMAIN glb_token_to_user_id -> UserIds]
  /\ glb_content_id_to_connection \subseteq
       [content : Contents, remote : Threads, device : DeviceIds]
  /\ fault \in {"none", "null", "iterator", "assert"}
  /\ \A t \in Threads : pc[t] = "accept" <=> link[t].device = 0

(* The two token maps always know the same tokens and agree on the account   *)
(* of each, whatever the order of authentications, lookups of unknown tokens *)
(* and closed connections: every handler tests one map and reads the other.  *)
TokenMapsAgree ==
  /\ DOMAIN glb_token_to_device_id = DOMAIN glb_token_to_user_id
  /\ \A k \in DOMAIN glb_token_to_user_id :
       LET d == glb_token_to_device_id[k]
       IN  glb_token_to_user_id[k] = IF d = 0 THEN 0 ELSE UserOf[d]

(* The registry (device -> connection) and the connection sets of the        *)
(* accounts list the same devices, each under its own account, although they *)
(* are searched by different keys and need not list the same sockets.        *)
RegistryMatchesAccounts ==
  /\ \A d \in DOMAIN glb_connections : glb_connections[d].user = UserOf[d]
  /\ \A u \in UserIds :
       DOMAIN accounts[u] = {d \in DOMAIN glb_connections : UserOf[d] = u}

(* A request is pending only for a content its account knows and the server  *)
(* has not cached: whoever asks after the content came is answered at once,  *)
(* whoever asked before has been taken off the list.                         *)
PendingOnlyUncached ==
  \A p \in glb_content_id_to_connection :
    LET node == contents[IF p.device = 0 THEN 0 ELSE UserOf[p.device]][p.content]
    IN  node.devices # {} /\ ~Cached(node)

(* on_close: "remove connections from data structures on exit": a registered *)
(* connection is one its slot still serves, for that device.                 *)
NoEndedConnections ==
  \A d \in DOMAIN glb_connections : link[glb_connections[d].remote].device = d

(* notify: "forward notify to all connected clients": the socket the account *)
(* forwards to is the one the device authenticated on last.                  *)
NotifyReachesConnected ==
  \A u \in Users : \A d \in DOMAIN accounts[u] :
    d \in DOMAIN glb_connections => accounts[u][d] = glb_connections[d].remote

(* sync_response: "forward to original requestor": if the server knew the    *)
(* requestor when it asked, it is still at the other end of its slot.        *)
KnownRequestorsConnected ==
  \A p \in glb_content_id_to_connection : p.device # 0 => link[p.remote].device = p.device

(* The tokens that stand for a device are those of registered connections:   *)
(* none survives its connection, none is taken from a living one, and none   *)
(* is used by the client of another device.                                  *)
TokensOfTheRegistered ==
  /\ {k \in DOMAIN glb_token_to_device_id : glb_token_to_device_id[k] # 0}
       = {glb_connections[d].token : d \in DOMAIN glb_connections}
  /\ \A d \in DOMAIN glb_connections :
       LET k == glb_connections[d].token
       IN  /\ glb_token_to_device_id[k] = d /\ k \in 1..now
           /\ \A e \in Devices : held[e] = k => e = d
  /\ \A e \in Devices : held[e] <= now

(* Each device has one slot, whose handle is valid, and whose receiver is    *)
(* open, from accept to close; close leaves nothing of the connection behind *)
(* in the registry and among the requests.                                   *)
SlotsInOrder ==
  /\ \A s, t \in Threads : s # t /\ link[s].device = link[t].device => link[t].device = 0
  /\ \A t \in Threads : /\ pc[t] \notin {"accept", "leave"} => sock[t].valid
                        /\ pc[t] # "leave" => ~closed[t]
  /\ \A d \in DOMAIN glb_connections : pc[glb_connections[d].remote] # "leave"
  /\ \A p \in glb_content_id_to_connection :
       p.device # 0 => /\ p.device \in DOMAIN glb_connections
                       /\ glb_connections[p.device].remote = p.remote

(* A thread that is receiving content inside the lock gets out of it, or the *)
(* process is dead: a client that stops sending stalls the others for no     *)
(* longer than the receive timeout.                                          *)
LockIsReleased ==
  \A t \in Threads : pc[t] = "content" ~> (pc[t] # "content" \/ fault # "none")

(* A thread whose client has gone returns to accept, so the pool of handlers *)
(* is not used up by dead connections.                                       *)
SlotIsReused ==
  \A t \in Threads : (link[t].device # 0 /\ ~link[t].up) ~> (pc[t] = "accept" \/ fault # "none")

(* The tables agree with each other: the two token maps, and the registry    *)
(* with the accounts.                                                        *)
TablesAgree == TypeOK /\ TokenMapsAgree /\ RegistryMatchesAccounts

(* sync_request: "ask the device(s) that notified of this content": unless a *)
(* send fails or a device comes back, all that ends the process is a request *)
(* for a content that only knows holders of which one has gone.              *)
DiesOfGoneHolders ==
  fault # "none" =>
    /\ fault = "null"
    /\ \E u \in UserIds, c \in Contents :
         /\ ~Cached(contents[u][c])
         /\ ~(contents[u][c].devices \subseteq DOMAIN glb_connections)

(* The registry, the pending requests and the tokens speak of the connected  *)
(* only, while the assumptions of the run hold, and what still names others, *)
(* the holders of a content, is what ends the process.                       *)
OnlyOfTheConnected ==
  /\ SlotsInOrder /\ NoEndedConnections /\ KnownRequestorsConnected
  /\ TokensOfTheRegistered /\ DiesOfGoneHolders
=============================================================================
