-------------------------- MODULE ClipServerProofs --------------------------
(***************************************************************************)
(* What ClipServer.tla promises for any number of handler threads, devices *)
(* and accounts: how its tables agree, that one thread receives content at *)
(* a time, and, while no send fails and no device comes twice, that        *)
(* notifications, requests and tokens are about connected clients only.    *)
(***************************************************************************)
EXTENDS ClipServer, TLAPS

USE ClipAssumption

(* Type correctness and the agreement of the tables, for given tables.       *)
TablesOK(C, A, D, U, P) ==
  /\ DOMAIN C \subseteq Devices
  /\ \A d \in DOMAIN C : C[d] \in [remote : Threads, token : Tokens, user : Users]
  /\ \A d \in DOMAIN C : C[d].user = UserOf[d]
  /\ DOMAIN A = UserIds
  /\ \A u \in UserIds : \A d \in DOMAIN A[u] : A[u][d] \in Threads
  /\ \A u \in UserIds : DOMAIN A[u] = {d \in DOMAIN C : UserOf[d] = u}
  /\ D \in [DOMAIN D -> DeviceIds]
  /\ U \in [DOMAIN U -> UserIds]
  /\ DOMAIN D = DOMAIN U
  /\ \A k \in DOMAIN U : U[k] = IF D[k] = 0 THEN 0 ELSE UserOf[D[k]]
  /\ P \subseteq [content : Contents, remote : Threads, device : DeviceIds]

Tables == TablesOK(glb_connections, accounts, glb_token_to_device_id, glb_token_to_user_id,
                   glb_content_id_to_connection)

(* and for the threads, the sockets, the clients and the contents            *)
Places == {"accept", "recv", "serve", "content", "interrupted", "failed", "leave"}
Links  == [device : DeviceIds, up : BOOLEAN, asked : SUBSET Contents, synced : BOOLEAN]
Nodes  == [devices : SUBSET DeviceIds, buffer : {"none", "whole", "partial"}]
ThreadsOK ==
  /\ pc \in [Threads -> Places]
  /\ closed \in [Threads -> BOOLEAN]
  /\ sock \in [Threads -> [valid : BOOLEAN, err : BOOLEAN]]
  /\ link \in [Threads -> Links]
  /\ \A t \in Threads : pc[t] = "accept" <=> link[t].device = 0
(* glb_lock: at most one thread is inside the blocking receive of the        *)
(* sync_response handler, and only there it has a content to finish.         *)
OneReceiver ==
  /\ \A s, t \in Threads : pc[s] = "content" /\ pc[t] = "content" => s = t
  /\ \A t \in Threads :
       IF pc[t] = "content" THEN rx[t].content \in Contents ELSE rx[t] = Nothing
ReceiversOK ==
  /\ rx \in [Threads -> [user : UserIds, content : Contents \cup {0}, size : {0, 1}]]
  /\ OneReceiver
OthersOK ==
  /\ now \in Tokens
  /\ held \in [Devices -> Tokens]
  /\ contents \in [UserIds -> [Contents -> Nodes]]
  /\ fault \in {"none", "null", "iterator", "assert"}

(* The inductive invariant of every configuration. *)
IInv == Tables /\ ThreadsOK /\ ReceiversOK /\ OthersOK

LEMMA IInvIs == IInv <=> TablesAgree /\ OneReceiver
  BY DEF IInv, Tables, TablesOK, ThreadsOK, ReceiversOK, OthersOK, Places, Links, Nodes,
         TablesAgree, TypeOK, TokenMapsAgree, RegistryMatchesAccounts

-----------------------------------------------------------------------------
(* The operations on the tables.                                             *)

LEMMA DevicesArePositive ==
  /\ 0 \notin Devices /\ 0 \notin Users /\ 0 \in UserIds /\ 0 \in DeviceIds /\ 0 \in Tokens
  /\ Devices \subseteq DeviceIds /\ Users \subseteq UserIds
  /\ \A d \in Devices : UserOf[d] \in Users
  BY DEF DeviceIds, UserIds, Tokens

LEMMA InitTables == Init => Tables
<1> SUFFICES ASSUME Init PROVE Tables
  OBVIOUS
<1>1. DOMAIN Empty = {}
  BY DEF Empty
<1>2. Empty \in [DOMAIN Empty -> DeviceIds] /\ Empty \in [DOMAIN Empty -> UserIds]
  BY DEF Empty
<1> QED BY <1>1, <1>2 DEF Init, Tables, TablesOK

(* on_close keeps the tables in agreement, whichever slots it is called for. *)
LEMMA OnCloseKeepsTables ==
  ASSUME NEW C, NEW A, NEW D, NEW U, NEW P, TablesOK(C, A, D, U, P),
         NEW F, OnClose(F, C, A, D, U, P)
  PROVE  Tables'
<1> DEFINE gone == UNION {Found(s, C) : s \in F}
           tokens == {C[d].token : d \in gone}
<1>1. gone \subseteq DOMAIN C
  BY DEF Found
<1>2. /\ glb_connections' = Erase(C, gone)
      /\ accounts' = [u \in UserIds |-> Erase(A[u], {d \in gone : C[d].user = u})]
      /\ glb_token_to_device_id' = Erase(D, tokens)
      /\ glb_token_to_user_id' = Erase(U, tokens)
      /\ glb_content_id_to_connection' = {p \in P : p.device \notin gone}
  BY DEF OnClose, EraseConnections, EraseTokens, ErasePending
<1> HIDE DEF gone, tokens
<1> USE DEF TablesOK
<1>3. /\ DOMAIN glb_connections' = DOMAIN C \ gone
      /\ \A d \in DOMAIN C \ gone : glb_connections'[d] = C[d]
  BY <1>2 DEF Erase
<1>4. /\ DOMAIN accounts' = UserIds
      /\ \A u \in UserIds : DOMAIN accounts'[u] = DOMAIN A[u] \ gone
      /\ \A u \in UserIds : \A d \in DOMAIN accounts'[u] : accounts'[u][d] = A[u][d]
  <2>1. ASSUME NEW u \in UserIds
        PROVE  /\ DOMAIN accounts'[u] = DOMAIN A[u] \ {d \in gone : C[d].user = u}
               /\ \A d \in DOMAIN accounts'[u] : accounts'[u][d] = A[u][d]
    BY <1>2 DEF Erase
  <2>2. ASSUME NEW u \in UserIds
        PROVE  DOMAIN A[u] \ {d \in gone : C[d].user = u} = DOMAIN A[u] \ gone
    BY <1>1
  <2> QED BY <1>2, <2>1, <2>2
<1>5. /\ DOMAIN glb_token_to_device_id' = DOMAIN D \ tokens
      /\ DOMAIN glb_token_to_user_id' = DOMAIN U \ tokens
      /\ \A k \in DOMAIN D \ tokens : glb_token_to_device_id'[k] = D[k] /\ glb_token_to_user_id'[k] = U[k]
      /\ glb_token_to_device_id' \in [DOMAIN glb_token_to_device_id' -> DeviceIds]
      /\ glb_token_to_user_id' \in [DOMAIN glb_token_to_user_id' -> UserIds]
  BY <1>2 DEF Erase
<1>6. \A u \in UserIds : DOMAIN accounts'[u] = {d \in DOMAIN glb_connections' : UserOf[d] = u}
  BY <1>3, <1>4
<1>7. \A k \in DOMAIN glb_token_to_user_id' :
        glb_token_to_user_id'[k] = IF glb_token_to_device_id'[k] = 0 THEN 0
                                   ELSE UserOf[glb_token_to_device_id'[k]]
  BY <1>5
<1>8. /\ DOMAIN glb_connections' \subseteq Devices
      /\ \A d \in DOMAIN glb_connections' :
           /\ glb_connections'[d] \in [remote : Threads, token : Tokens, user : Users]
           /\ glb_connections'[d].user = UserOf[d]
  BY <1>3
<1>9. \A u \in UserIds : \A d \in DOMAIN accounts'[u] : accounts'[u][d] \in Threads
  BY <1>4
<1> QED BY <1>2, <1>4, <1>5, <1>6, <1>7, <1>8, <1>9 DEF Tables

(* A lookup, which inserts an unknown token in both maps. *)
LEMMA LookupKeepsTables ==
  ASSUME NEW C, NEW A, NEW D, NEW U, NEW P, TablesOK(C, A, D, U, P), NEW token,
         NEW Q \in SUBSET [content : Contents, remote : Threads, device : DeviceIds]
  PROVE  /\ TablesOK(C, A, Lookup(D, token), Lookup(U, token), P \cup Q)
         /\ token \in DOMAIN Lookup(D, token) /\ token \in DOMAIN Lookup(U, token)
         /\ Lookup(D, token)[token] \in DeviceIds /\ Lookup(U, token)[token] \in UserIds
<1> USE DEF TablesOK
<1>1. CASE token \in DOMAIN D
  BY <1>1 DEF Lookup
<1>2. CASE token \notin DOMAIN D
  <2> DEFINE E == Put(D, token, 0)
             V == Put(U, token, 0)
  <2>1. /\ Lookup(D, token) = E /\ Lookup(U, token) = V
    BY <1>2 DEF Lookup
  <2>2. /\ DOMAIN E = DOMAIN D \cup {token} /\ DOMAIN V = DOMAIN D \cup {token}
        /\ E[token] = 0 /\ V[token] = 0
        /\ \A k \in DOMAIN D : E[k] = D[k] /\ V[k] = U[k]
    BY <1>2 DEF Put
  <2>3. E \in [DOMAIN E -> DeviceIds] /\ V \in [DOMAIN V -> UserIds]
    BY DevicesArePositive DEF Put
  <2> HIDE DEF E, V
  <2>4. \A k \in DOMAIN V : V[k] = IF E[k] = 0 THEN 0 ELSE UserOf[E[k]]
    BY <2>2
  <2> QED BY <2>1, <2>2, <2>3, <2>4, DevicesArePositive
<1> QED BY <1>1, <1>2

(* What Authenticate puts into the tables. *)
Inserted(A, u, d, t) == IF d \in DOMAIN A[u] THEN A ELSE [A EXCEPT ![u] = Put(@, d, t)]

LEMMA AuthenticateKeepsTables ==
  ASSUME NEW C, NEW A, NEW D, NEW U, NEW P, TablesOK(C, A, D, U, P),
         NEW d \in Devices, NEW t \in Threads, NEW token \in Tokens
  PROVE  TablesOK(Put(C, d, [remote |-> t, token |-> token, user |-> UserOf[d]]),
                  Inserted(A, UserOf[d], d, t), Put(D, token, d), Put(U, token, UserOf[d]), P)
<1> USE DevicesArePositive DEF TablesOK
<1> DEFINE n == [remote |-> t, token |-> token, user |-> UserOf[d]]
           C1 == Put(C, d, n)
           A1 == Inserted(A, UserOf[d], d, t)
           D1 == Put(D, token, d)
           U1 == Put(U, token, UserOf[d])
<1>1. n \in [remote : Threads, token : Tokens, user : Users] /\ n.user = UserOf[d]
  OBVIOUS
<1>2. /\ DOMAIN C1 = DOMAIN C \cup {d} /\ C1[d] = n
      /\ \A e \in DOMAIN C : e # d => C1[e] = C[e]
  BY DEF Put
<1>3. /\ DOMAIN D1 = DOMAIN D \cup {token} /\ DOMAIN U1 = DOMAIN U \cup {token}
      /\ D1[token] = d /\ U1[token] = UserOf[d]
      /\ \A k \in DOMAIN D : k # token => D1[k] = D[k] /\ U1[k] = U[k]
  BY DEF Put
<1>4. D1 \in [DOMAIN D1 -> DeviceIds] /\ U1 \in [DOMAIN U1 -> UserIds]
  BY DEF Put
<1>5. /\ DOMAIN A1 = UserIds
      /\ \A u \in UserIds : DOMAIN A1[u] = DOMAIN A[u] \cup (IF u = UserOf[d] THEN {d} ELSE {})
      /\ \A u \in UserIds : \A e \in DOMAIN A1[u] : A1[u][e] \in Threads
  <2>1. CASE d \in DOMAIN A[UserOf[d]]
    BY <2>1 DEF Inserted
  <2>2. CASE d \notin DOMAIN A[UserOf[d]]
    <3>1. A1 = [A EXCEPT ![UserOf[d]] = Put(A[UserOf[d]], d, t)]
      BY <2>2 DEF Inserted
    <3>2. /\ DOMAIN A1 = UserIds /\ A1[UserOf[d]] = Put(A[UserOf[d]], d, t)
          /\ \A u \in UserIds : u # UserOf[d] => A1[u] = A[u]
      BY <3>1
    <3>3. /\ DOMAIN A1[UserOf[d]] = DOMAIN A[UserOf[d]] \cup {d}
          /\ \A e \in DOMAIN A1[UserOf[d]] : A1[UserOf[d]][e] \in Threads
      BY <3>2 DEF Put
    <3> QED BY <3>2, <3>3
  <2> QED BY <2>1, <2>2
<1> HIDE DEF n, C1, A1, D1, U1
<1>6. \A u \in UserIds : DOMAIN A1[u] = {e \in DOMAIN C1 : UserOf[e] = u}
  BY <1>2, <1>5
<1>7. \A k \in DOMAIN U1 : U1[k] = IF D1[k] = 0 THEN 0 ELSE UserOf[D1[k]]
  BY <1>3
<1>8. \A e \in DOMAIN C1 : /\ C1[e] \in [remote : Threads, token : Tokens, user : Users]
                          /\ C1[e].user = UserOf[e]
  BY <1>1, <1>2
<1> QED BY <1>2, <1>3, <1>4, <1>5, <1>6, <1>7, <1>8 DEF n, C1, A1, D1, U1

-----------------------------------------------------------------------------
(* The pieces the actions are made of.                                       *)

LEMMA OtherKeepsTables ==
  ASSUME Tables, UNCHANGED OtherTables,
         glb_content_id_to_connection' \subseteq glb_content_id_to_connection
  PROVE  Tables'
BY DEF Tables, TablesOK, OtherTables

LEMMA UnchangedKeepsTables ==
  ASSUME Tables, UNCHANGED tables
  PROVE  Tables'
BY OtherKeepsTables DEF tables, OtherTables

LEMMA CloseFailedIsTyped ==
  ASSUME ThreadsOK, NEW t \in Threads, NEW F, NEW C, NEW A, NEW D, NEW U, NEW P,
         CloseFailed(t, F, C, A, D, U, P)
  PROVE  /\ sock' \in [Threads -> [valid : BOOLEAN, err : BOOLEAN]]
         /\ closed' \in [Threads -> BOOLEAN]
BY DEF CloseFailed, ThreadsOK

LEMMA ReturnMoves ==
  ASSUME ThreadsOK, NEW t \in Threads, Return(t)
  PROVE  /\ pc' \in [Threads -> Places]
         /\ pc'[t] \in {"recv", "failed"}
         /\ \A s \in Threads : s # t => pc'[s] = pc[s]
BY DEF ThreadsOK, Return, Places

LEMMA ServedHasDevice ==
  ASSUME IInv, NEW t \in Threads, pc[t] # "accept"
  PROVE  link[t].device \in Devices /\ held[link[t].device] \in Tokens
BY DevicesArePositive DEF IInv, ThreadsOK, OthersOK, DeviceIds, Links

(* A thread that goes on without content leaves the receivers as they are.   *)
LEMMA ReceiversStay ==
  ASSUME ThreadsOK, ReceiversOK, NEW t \in Threads, pc[t] # "content", pc'[t] # "content",
         \A s \in Threads : s # t => pc'[s] = pc[s], UNCHANGED rx
  PROVE  ReceiversOK'
BY DEF ReceiversOK, OneReceiver

LEMMA ReceiverLeaves ==
  ASSUME ThreadsOK, ReceiversOK, NEW t \in Threads, pc'[t] # "content",
         \A s \in Threads : s # t => pc'[s] = pc[s],
         rx' = [rx EXCEPT ![t] = Nothing]
  PROVE  ReceiversOK'
<1>1. Nothing \in [user : UserIds, content : Contents \cup {0}, size : {0, 1}]
  BY DEF Nothing, UserIds
<1> QED BY <1>1 DEF ReceiversOK, OneReceiver

(* What a handler that answers at once leaves of the invariant, when it      *)
(* changes the clients' links only in what they are asked.                   *)
LEMMA HandlerReturns ==
  ASSUME IInv, NEW t \in Threads, Serving(t), Return(t), UNCHANGED rx,
         sock' \in [Threads -> [valid : BOOLEAN, err : BOOLEAN]],
         closed' \in [Threads -> BOOLEAN],
         link' \in [Threads -> Links], \A s \in Threads : link'[s].device = link[s].device
  PROVE  ThreadsOK' /\ ReceiversOK'
<1> USE DEF IInv
<1>1. pc[t] = "serve"
  BY DEF Serving
<1>2. ThreadsOK'
  BY <1>1, ReturnMoves DEF ThreadsOK
<1>3. ReceiversOK'
  BY <1>1, ReturnMoves, ReceiversStay
<1> QED BY <1>2, <1>3

LEMMA CrashKeeps ==
  ASSUME IInv, NEW why \in {"null", "iterator", "assert"}, Crash(why)
  PROVE  IInv'
<1> USE DEF IInv, Crash
<1>1. Tables'
  BY UnchangedKeepsTables
<1>2. ThreadsOK' /\ ReceiversOK' /\ OthersOK'
  BY DEF threads, clients, ThreadsOK, ReceiversOK, OneReceiver, OthersOK
<1> QED BY <1>1, <1>2

-----------------------------------------------------------------------------
(* The loop of a thread.                                                     *)

LEMMA CloseKeeps ==
  ASSUME IInv, NEW t \in Threads, pc[t] \in {"recv", "interrupted", "failed"}, Close(t)
  PROVE  IInv'
<1> USE DEF IInv
<1>1. Tables'
  BY OnCloseKeepsTables DEF Close, Tables
<1>2. /\ pc' = [pc EXCEPT ![t] = "leave"] /\ UNCHANGED <<link, rx, now, held, contents, fault>>
      /\ sock' = [sock EXCEPT ![t].valid = FALSE] /\ closed' = [closed EXCEPT ![t] = TRUE]
  BY DEF Close, clients
<1>3. ThreadsOK'
  BY <1>2 DEF ThreadsOK, Places
<1>4. ReceiversOK'
  BY <1>2, ReceiversStay DEF ThreadsOK
<1>5. OthersOK'
  BY <1>2 DEF OthersOK
<1> QED BY <1>1, <1>3, <1>4, <1>5

LEMMA LoopKeeps ==
  ASSUME IInv, NEW t \in Threads, Loop(t) \/ Vanish(t)
  PROVE  IInv'
<1> USE DEF IInv
<1>1. ASSUME NEW d \in Devices, Accept(t, d) PROVE IInv'
  <2> DEFINE new == [device |-> d, up |-> TRUE, asked |-> {}, synced |-> TRUE]
  <2>1. /\ pc[t] = "accept" /\ pc' = [pc EXCEPT ![t] = "recv"]
        /\ sock' = [sock EXCEPT ![t].valid = TRUE]
        /\ link' = [link EXCEPT ![t] = new]
        /\ UNCHANGED <<closed, rx, clients, tables, contents, fault>>
    BY <1>1 DEF Accept
  <2>2. new \in Links /\ new.device # 0
    BY DevicesArePositive DEF Links
  <2> HIDE DEF new
  <2>3. ThreadsOK'
    <3>1. sock' \in [Threads -> [valid : BOOLEAN, err : BOOLEAN]]
      BY <2>1 DEF ThreadsOK
    <3> QED BY <2>1, <2>2, <3>1 DEF ThreadsOK, Places
  <2>4. ReceiversOK'
    BY <2>1, ReceiversStay DEF ThreadsOK
  <2>5. Tables' /\ OthersOK'
    BY <2>1, UnchangedKeepsTables DEF OthersOK, clients
  <2> QED BY <2>3, <2>4, <2>5
<1>2. CASE Receive(t)
  <2>1. /\ pc[t] = "recv" /\ pc' = [pc EXCEPT ![t] = "serve"]
        /\ UNCHANGED <<closed, sock, rx, clients, link, tables, contents, fault>>
    BY <1>2 DEF Receive
  <2>2. ThreadsOK'
    BY <2>1 DEF ThreadsOK, Places
  <2>3. ReceiversOK'
    BY <2>1, ReceiversStay DEF ThreadsOK
  <2>4. Tables' /\ OthersOK'
    BY <2>1, UnchangedKeepsTables DEF OthersOK, clients
  <2> QED BY <2>2, <2>3, <2>4
<1>3. CASE Leave(t)
  <2>1. /\ pc[t] \in {"leave", "recv"} /\ pc' = [pc EXCEPT ![t] = "accept"]
        /\ closed' = [closed EXCEPT ![t] = FALSE] /\ sock' = [sock EXCEPT ![t] = Fresh]
        /\ link' = [link EXCEPT ![t] = Idle] /\ rx' = [rx EXCEPT ![t] = Nothing]
        /\ UNCHANGED <<clients, tables, contents, fault>>
    BY <1>3 DEF Leave
  <2>2. Idle \in Links /\ Idle.device = 0
    BY DevicesArePositive DEF Idle, Links
  <2>3. Fresh \in [valid : BOOLEAN, err : BOOLEAN]
    BY DEF Fresh
  <2>4. ThreadsOK'
    BY <2>1, <2>2, <2>3 DEF ThreadsOK, Places
  <2>5. ReceiversOK'
    BY <2>1, ReceiverLeaves DEF ThreadsOK
  <2>6. Tables' /\ OthersOK'
    BY <2>1, UnchangedKeepsTables DEF OthersOK, clients
  <2> QED BY <2>4, <2>5, <2>6
<1>4. CASE Interrupted(t)
  BY <1>4, CloseKeeps DEF Interrupted
<1>5. CASE Error(t)
  BY <1>5, CloseKeeps DEF Error
<1>6. CASE Vanish(t)
  <2>1. ThreadsOK'
    BY <1>6 DEF Vanish, ThreadsOK, Links, threads
  <2>2. ReceiversOK' /\ OthersOK'
    BY <1>6 DEF Vanish, ReceiversOK, OneReceiver, OthersOK, threads, clients
  <2>3. Tables'
    BY <1>6, UnchangedKeepsTables DEF Vanish
  <2> QED BY <2>1, <2>2, <2>3
<1> QED BY <1>1, <1>2, <1>3, <1>4, <1>5, <1>6 DEF Loop

-----------------------------------------------------------------------------
(* The handlers.                                                             *)

(* After a close of other connections, with the links and the receivers as   *)
(* they were.                                                                *)
LEMMA UnregisteringKeeps ==
  ASSUME IInv, NEW t \in Threads, Serving(t), Return(t),
         NEW F, NEW C, NEW A, NEW D, NEW U, NEW P, TablesOK(C, A, D, U, P),
         CloseFailed(t, F, C, A, D, U, P), UNCHANGED rx,
         link' \in [Threads -> Links], \A s \in Threads : link'[s].device = link[s].device
  PROVE  Tables' /\ ThreadsOK' /\ ReceiversOK'
<1>1. Tables'
  BY OnCloseKeepsTables DEF CloseFailed
<1>2. ThreadsOK' /\ ReceiversOK'
  BY CloseFailedIsTyped, HandlerReturns DEF IInv
<1> QED BY <1>1, <1>2

LEMMA AuthenticateKeeps ==
  ASSUME IInv, NEW t \in Threads, Authenticate(t)
  PROVE  IInv'
<1> DEFINE d == link[t].device
           u == UserOf[d]
           n(k) == [remote |-> t, token |-> k, user |-> u]
<1>1. /\ Serving(t) /\ Return(t) /\ UNCHANGED <<link, rx, contents, fault>>
      /\ \E token \in Tokens, F \in FailSets({t}) :
           /\ CloseFailed(t, F, Put(glb_connections, d, n(token)), Inserted(accounts, u, d, t),
                Put(glb_token_to_device_id, token, d), Put(glb_token_to_user_id, token, u),
                glb_content_id_to_connection)
           /\ now' = token
           /\ held' = held \/ held' = [held EXCEPT ![d] = token]
  BY DEF Authenticate, Inserted
<1>2. PICK token \in Tokens, F \in FailSets({t}) :
           /\ CloseFailed(t, F, Put(glb_connections, d, n(token)), Inserted(accounts, u, d, t),
                Put(glb_token_to_device_id, token, d), Put(glb_token_to_user_id, token, u),
                glb_content_id_to_connection)
           /\ now' = token
           /\ held' = held \/ held' = [held EXCEPT ![d] = token]
  BY <1>1
<1>3. d \in Devices
  BY <1>1, ServedHasDevice DEF Serving
<1> HIDE DEF d
<1>4. TablesOK(Put(glb_connections, d, n(token)), Inserted(accounts, u, d, t),
               Put(glb_token_to_device_id, token, d), Put(glb_token_to_user_id, token, u),
               glb_content_id_to_connection)
  BY <1>3, AuthenticateKeepsTables DEF IInv, Tables
<1> HIDE DEF u, n
<1>5. link' \in [Threads -> Links] /\ \A s \in Threads : link'[s].device = link[s].device
  BY <1>1 DEF IInv, ThreadsOK
<1>6. Tables' /\ ThreadsOK' /\ ReceiversOK'
  BY <1>1, <1>2, <1>4, <1>5, UnregisteringKeeps
<1>7. OthersOK'
  BY <1>1, <1>2, <1>3 DEF IInv, OthersOK
<1> QED BY <1>6, <1>7 DEF IInv

LEMMA RefreshIndexKeeps ==
  ASSUME IInv, NEW t \in Threads, RefreshIndex(t)
  PROVE  IInv'
<1>1. /\ Serving(t) /\ Return(t) /\ UNCHANGED <<clients, link, rx, contents, fault>>
      /\ \E F \in FailSets({t}) : Unregistering(t, F)
  BY DEF RefreshIndex
<1>2. link' \in [Threads -> Links] /\ \A s \in Threads : link'[s].device = link[s].device
  BY <1>1 DEF IInv, ThreadsOK
<1>3. Tables' /\ ThreadsOK' /\ ReceiversOK'
  BY <1>1, <1>2, UnregisteringKeeps DEF IInv, Tables, Unregistering
<1>4. OthersOK'
  BY <1>1 DEF IInv, OthersOK, clients
<1> QED BY <1>3, <1>4 DEF IInv

LEMMA NotifyKeeps ==
  ASSUME IInv, NEW t \in Threads,
         NotifyRefused(t) \/ \E c \in Contents : NotifyAvailable(t, c)
  PROVE  IInv'
<1>1. CASE NotifyRefused(t)
  <2>1. /\ Serving(t) /\ Return(t)
        /\ UNCHANGED <<closed, sock, rx, clients, link, tables, contents, fault>>
    BY <1>1 DEF NotifyRefused
  <2>2. ThreadsOK' /\ ReceiversOK'
    BY <2>1, HandlerReturns DEF IInv, ThreadsOK
  <2>3. Tables' /\ OthersOK'
    BY <2>1, UnchangedKeepsTables DEF IInv, OthersOK, clients
  <2> QED BY <2>2, <2>3 DEF IInv
<1>2. ASSUME NEW c \in Contents, NotifyAvailable(t, c) PROVE IInv'
  <2> DEFINE token == held[link[t].device]
             user  == glb_token_to_user_id[token]
             self  == glb_token_to_device_id[token]
  <2>1. /\ Serving(t) /\ Known(token)
        /\ \E F : \/ /\ Unregistering(t, F)
                     /\ Return(t)
                     /\ contents' = [contents EXCEPT ![user][c].devices = @ \cup {self}]
                     /\ UNCHANGED <<clients, link, rx, fault>>
                  \/ Crash("iterator")
    BY <1>2 DEF NotifyAvailable
  <2>2. user \in UserIds /\ self \in DeviceIds
    BY <2>1 DEF Known, IInv, Tables, TablesOK
  <2> HIDE DEF user, self, token
  <2>3. CASE Crash("iterator")
    BY <2>3, CrashKeeps
  <2>4. ASSUME NEW F, Unregistering(t, F), Return(t),
               contents' = [contents EXCEPT ![user][c].devices = @ \cup {self}],
               UNCHANGED <<clients, link, rx, fault>>
        PROVE  IInv'
    <3>1. link' \in [Threads -> Links] /\ \A s \in Threads : link'[s].device = link[s].device
      BY <2>4 DEF IInv, ThreadsOK
    <3>2. Tables' /\ ThreadsOK' /\ ReceiversOK'
      BY <2>1, <2>4, <3>1, UnregisteringKeeps DEF IInv, Tables, Unregistering
    <3>3. contents' \in [UserIds -> [Contents -> Nodes]]
      BY SMTT(30), <2>2, <2>4 DEF IInv, OthersOK, Nodes
    <3>4. OthersOK'
      BY <2>4, <3>3 DEF IInv, OthersOK, clients
    <3> QED BY <3>2, <3>4 DEF IInv
  <2> QED BY <2>1, <2>3, <2>4
<1> QED BY <1>1, <1>2

LEMMA SyncRequestKeeps ==
  ASSUME IInv, NEW t \in Threads, NEW c \in Contents, SyncRequest(t, c)
  PROVE  IInv'
<1> DEFINE token == held[link[t].device]
           D == Lookup(glb_token_to_device_id, token)
           U == Lookup(glb_token_to_user_id, token)
           P == glb_content_id_to_connection
           entry == [content |-> c, remote |-> t, device |-> D[token]]
           Answer(Q) ==
             /\ \E F : CloseFailed(t, F, glb_connections, accounts, D, U, P \cup Q)
             /\ Return(t) /\ UNCHANGED <<clients, rx, contents, fault>>
             /\ link' \in [Threads -> Links]
             /\ \A s \in Threads : link'[s].device = link[s].device
<1>1. link \in [Threads -> Links]
  BY DEF IInv, ThreadsOK
<1>2. \A S : LET linked == [s \in Threads |-> IF s \in S
                                THEN [link[s] EXCEPT !.asked = @ \cup {c}] ELSE link[s]]
             IN  linked \in [Threads -> Links] /\ \A s \in Threads : linked[s].device = link[s].device
  BY <1>1 DEF Links
<1>3. P \cup {} = P
  OBVIOUS
<1>4. Serving(t)
  BY DEF SyncRequest
<1>5. Answer({}) \/ Answer({entry}) \/ Crash("assert") \/ Crash("null")
  <2> DEFINE node   == contents[U[token]][c]
             asked  == node.devices \ {D[token]}
             remote == [d \in asked \cap DOMAIN glb_connections |-> glb_connections[d].remote]
             slots  == {remote[d] : d \in DOMAIN remote}
             asking(F) == [s \in Threads |-> IF s \in slots \ F /\ IsOpen(s) /\ link[s].up
                                             THEN [link[s] EXCEPT !.asked = @ \cup {c}] ELSE link[s]]
             Here(F)    == /\ CloseFailed(t, F, glb_connections, accounts, D, U, P)
                           /\ Return(t)
                           /\ UNCHANGED <<clients, link, rx, contents, fault>>
             Onwards(F) == /\ CloseFailed(t, F, glb_connections, accounts, D, U, P \cup {entry})
                           /\ link' = asking(F)
                           /\ Return(t)
                           /\ UNCHANGED <<clients, rx, contents, fault>>
  <2>1. \/ Here({})
        \/ \E F \in FailSets({t}) : Crash("assert") \/ Here(F)
        \/ \E F \in FailSets(slots) : Onwards(F)
        \/ Crash("null")
    BY DEF SyncRequest
  <2>2. ASSUME NEW F, Here(F) PROVE Answer({})
    <3> HIDE DEF entry, D, U, P, token
    <3> QED BY <2>2, <1>1, <1>3
  <2>3. ASSUME NEW F, Onwards(F) PROVE Answer({entry})
    <3>1. asking(F) \in [Threads -> Links] /\ \A s \in Threads : asking(F)[s].device = link[s].device
      <4> DEFINE asked1 == {s \in Threads : s \in slots \ F /\ IsOpen(s) /\ link[s].up}
      <4>1. asking(F) = [s \in Threads |-> IF s \in asked1
                                           THEN [link[s] EXCEPT !.asked = @ \cup {c}] ELSE link[s]]
        <5> HIDE DEF slots
        <5> QED OBVIOUS
      <4> HIDE DEF asking, asked1
      <4> QED BY <4>1, <1>2
    <3> HIDE DEF asking, entry, D, U, P, token
    <3> QED BY <2>3, <3>1
  <2> HIDE DEF Here, Onwards, Answer
  <2> QED BY <2>1, <2>2, <2>3
<1>6. /\ TablesOK(glb_connections, accounts, D, U, P \cup {})
      /\ TablesOK(glb_connections, accounts, D, U, P \cup {entry})
  <2>1. D[token] \in DeviceIds
    BY LookupKeepsTables DEF IInv, Tables
  <2>2. {entry} \in SUBSET [content : Contents, remote : Threads, device : DeviceIds]
    BY <2>1
  <2> QED BY <2>2, LookupKeepsTables DEF IInv, Tables
<1>7. ASSUME NEW Q \in {{}, {entry}}, Answer(Q)
      PROVE  IInv'
  <2> HIDE DEF entry, D, U, P, token
  <2>1. Tables' /\ ThreadsOK' /\ ReceiversOK'
    BY <1>4, <1>6, <1>7, UnregisteringKeeps
  <2>2. OthersOK'
    BY <1>7 DEF IInv, OthersOK, clients
  <2> QED BY <2>1, <2>2 DEF IInv
<1>8. ASSUME Crash("assert") \/ Crash("null") PROVE IInv'
  BY <1>8, CrashKeeps
<1> HIDE DEF Answer
<1> QED BY <1>5, <1>7, <1>8

LEMMA CachingIsTyped ==
  ASSUME NEW f \in [UserIds -> [Contents -> Nodes]], NEW u \in UserIds, NEW c \in Contents,
         NEW buffer \in {"none", "whole", "partial"}
  PROVE  [f EXCEPT ![u][c].buffer = buffer] \in [UserIds -> [Contents -> Nodes]]
<1>1. f[u][c] \in Nodes
  OBVIOUS
<1>2. [f[u][c] EXCEPT !.buffer = buffer] \in Nodes
  BY <1>1 DEF Nodes
<1> QED BY <1>2

LEMMA UnaskedIsTyped ==
  ASSUME NEW l \in Links, NEW c, NEW b \in BOOLEAN
  PROVE  /\ Unasked(l, c) \in Links /\ Unasked(l, c).device = l.device
         /\ [Unasked(l, c) EXCEPT !.synced = b] \in Links
         /\ [Unasked(l, c) EXCEPT !.synced = b].device = l.device
<1> DEFINE m == Unasked(l, c)
<1>1. m \in Links /\ m.device = l.device
  BY DEF Unasked, Links
<1> HIDE DEF m
<1>2. [m EXCEPT !.synced = b] \in Links /\ [m EXCEPT !.synced = b].device = m.device
  BY <1>1 DEF Links
<1> QED BY <1>1, <1>2 DEF m

LEMMA SyncResponseKeeps ==
  ASSUME IInv, NEW t \in Threads, NEW c \in Contents, NEW size \in {0, 1}, SyncResponse(t, c, size)
  PROVE  IInv'
<1> DEFINE token == held[link[t].device]
           user  == glb_token_to_user_id[token]
           taken == Known(token) /\ contents[user][c].devices # {}
<1>1. Serving(t) /\ UNCHANGED <<closed, sock, clients, OtherTables, fault>>
  BY DEF SyncResponse
<1>2. /\ link' \in [Threads -> Links]
      /\ \A s \in Threads : link'[s].device = link[s].device
  <2> DEFINE l == Unasked(link[t], c)
             m == [l EXCEPT !.synced = (size = 0)]
  <2>1. link' = [link EXCEPT ![t] = l] \/ link' = [link EXCEPT ![t] = m]
    BY DEF SyncResponse
  <2>2. /\ l \in Links /\ l.device = link[t].device
        /\ m \in Links /\ m.device = link[t].device
    <3>1. link[t] \in Links /\ (size = 0) \in BOOLEAN
      BY DEF IInv, ThreadsOK
    <3> QED BY <3>1, UnaskedIsTyped
  <2> HIDE DEF l, m
  <2> QED BY <2>1, <2>2 DEF IInv, ThreadsOK
<1>3. ASSUME taken PROVE user \in UserIds
  BY <1>3 DEF Known, IInv, Tables, TablesOK
<1>4. \/ /\ taken
         /\ pc' = [pc EXCEPT ![t] = "content"]
         /\ rx' = [rx EXCEPT ![t] = [user |-> user, content |-> c, size |-> size]]
         /\ UNCHANGED <<glb_content_id_to_connection, contents>>
      \/ /\ taken
         /\ contents' = [contents EXCEPT ![user][c].buffer = "none"]
         /\ Answered(c) /\ Return(t) /\ UNCHANGED rx
      \/ Return(t) /\ UNCHANGED <<glb_content_id_to_connection, rx, contents>>
  BY DEF SyncResponse
<1> HIDE DEF user, taken
<1>5. Tables'
  <2>1. glb_content_id_to_connection' \subseteq glb_content_id_to_connection
    BY <1>4 DEF Answered
  <2> QED BY <1>1, <2>1, OtherKeepsTables DEF IInv
<1>6. OthersOK'
  <2>1. contents' \in [UserIds -> [Contents -> Nodes]]
    <3>1. contents \in [UserIds -> [Contents -> Nodes]]
      BY DEF IInv, OthersOK
    <3>2. ASSUME taken, contents' = [contents EXCEPT ![user][c].buffer = "none"]
          PROVE  contents' \in [UserIds -> [Contents -> Nodes]]
      BY <1>3, <3>1, <3>2, CachingIsTyped
    <3> QED BY <1>4, <3>1, <3>2
  <2> QED BY <1>1, <2>1 DEF IInv, OthersOK, clients
<1>7. ASSUME taken, pc' = [pc EXCEPT ![t] = "content"],
             rx' = [rx EXCEPT ![t] = [user |-> user, content |-> c, size |-> size]]
      PROVE  ThreadsOK' /\ ReceiversOK'
  <2>1. pc[t] = "serve" /\ \A s \in Threads : pc[s] # "content"
    BY <1>1 DEF Serving, LockFree
  <2>2. /\ pc' \in [Threads -> Places] /\ pc'[t] = "content"
        /\ \A s \in Threads : s # t => pc'[s] = pc[s]
    BY <1>7 DEF IInv, ThreadsOK, Places
  <2>3. ThreadsOK'
    BY <1>1, <1>2, <2>1, <2>2 DEF IInv, ThreadsOK
  <2>4. rx' \in [Threads -> [user : UserIds, content : Contents \cup {0}, size : {0, 1}]]
    BY <1>3, <1>7 DEF IInv, ReceiversOK
  <2>5. OneReceiver'
    BY <1>7, <2>1, <2>2 DEF IInv, ReceiversOK, OneReceiver
  <2> QED BY <2>3, <2>4, <2>5 DEF ReceiversOK
<1>8. ASSUME Return(t), UNCHANGED rx PROVE ThreadsOK' /\ ReceiversOK'
  <2>1. sock' \in [Threads -> [valid : BOOLEAN, err : BOOLEAN]] /\ closed' \in [Threads -> BOOLEAN]
    BY <1>1 DEF IInv, ThreadsOK
  <2> QED BY <1>1, <1>2, <1>8, <2>1, HandlerReturns
<1>9. ThreadsOK' /\ ReceiversOK'
  BY <1>4, <1>7, <1>8
<1> QED BY <1>5, <1>6, <1>9 DEF IInv

(* The end of a receive, whichever sockets were marked.                      *)
LEMMA FinishKeeps ==
  ASSUME IInv, NEW t \in Threads, pc[t] = "content",
         NEW buffer \in {"none", "whole", "partial"}, NEW interrupted, NEW failed,
         Cache(t, buffer), Finish(t, interrupted, failed),
         link' \in [Threads -> Links], \A s \in Threads : link'[s].device = link[s].device
  PROVE  IInv'
<1>1. /\ Answered(rx[t].content)
      /\ sock' = [s \in Threads |-> IF s \in failed THEN [sock[s] EXCEPT !.err = TRUE] ELSE sock[s]]
      /\ pc' = [pc EXCEPT ![t] = "interrupted"] \/ Return(t)
      /\ rx' = [rx EXCEPT ![t] = Nothing]
      /\ UNCHANGED <<closed, clients, OtherTables, fault>>
  BY DEF Finish
<1>2. Tables'
  <2>1. glb_content_id_to_connection' \subseteq glb_content_id_to_connection
    BY <1>1 DEF Answered
  <2> QED BY <1>1, <2>1, OtherKeepsTables DEF IInv
<1>3. /\ pc' \in [Threads -> Places] /\ pc'[t] \in {"recv", "failed", "interrupted"}
      /\ \A s \in Threads : s # t => pc'[s] = pc[s]
  <2>1. CASE Return(t)
    BY <2>1, ReturnMoves DEF IInv
  <2>2. CASE pc' = [pc EXCEPT ![t] = "interrupted"]
    BY <2>2 DEF IInv, ThreadsOK, Places
  <2> QED BY <1>1, <2>1, <2>2
<1>4. sock' \in [Threads -> [valid : BOOLEAN, err : BOOLEAN]]
  BY <1>1 DEF IInv, ThreadsOK
<1>5. ThreadsOK'
  BY <1>1, <1>3, <1>4 DEF IInv, ThreadsOK
<1>6. ReceiversOK'
  BY <1>1, <1>3, ReceiverLeaves DEF IInv
<1>7. OthersOK'
  <2>1. rx[t].user \in UserIds /\ rx[t].content \in Contents
    BY DEF IInv, ReceiversOK, OneReceiver
  <2>2. contents' \in [UserIds -> [Contents -> Nodes]]
    <3> DEFINE u == rx[t].user
               c == rx[t].content
    <3>1. contents' = [contents EXCEPT ![u][c].buffer = buffer] /\ u \in UserIds /\ c \in Contents
      BY <2>1 DEF Cache
    <3>2. contents \in [UserIds -> [Contents -> Nodes]]
      BY DEF IInv, OthersOK
    <3> HIDE DEF u, c
    <3> QED BY <3>1, <3>2, CachingIsTyped
  <2> QED BY <1>1, <2>2 DEF IInv, OthersOK, clients
<1> QED BY <1>2, <1>5, <1>6, <1>7 DEF IInv

LEMMA ContentKeeps ==
  ASSUME IInv, NEW t \in Threads,
         ContentWhole(t) \/ ContentCut(t) \/ ContentReset(t) \/ ContentLate(t)
  PROVE  IInv'
<1>1. /\ pc[t] = "content"
      /\ \/ Crash("assert")
         \/ /\ \E buffer \in {"none", "whole", "partial"} : \E interrupted, failed :
                 Cache(t, buffer) /\ Finish(t, interrupted, failed)
            /\ link' = link \/ link' = [link EXCEPT ![t].synced = FALSE]
  <2>1. ASSUME NEW buffer \in {"none", "whole", "partial"}, NEW interrupted,
               Forward(t, buffer, interrupted)
        PROVE  Crash("assert") \/ \E F : Cache(t, buffer) /\ Finish(t, interrupted, F) /\ link' = link
    BY <2>1 DEF Forward
  <2>2. CASE ContentWhole(t)
    BY <2>1, <2>2 DEF ContentWhole
  <2>3. CASE ContentCut(t)
    BY <2>1, <2>3 DEF ContentCut
  <2>4. CASE ContentReset(t)
    BY <2>4 DEF ContentReset
  <2>5. CASE ContentLate(t)
    BY <2>5 DEF ContentLate
  <2> QED BY <2>2, <2>3, <2>4, <2>5
<1>2. ASSUME link' = link \/ link' = [link EXCEPT ![t].synced = FALSE]
      PROVE  /\ link' \in [Threads -> Links]
             /\ \A s \in Threads : link'[s].device = link[s].device
  <2>1. link \in [Threads -> Links]
    BY DEF IInv, ThreadsOK
  <2>2. [link[t] EXCEPT !.synced = FALSE] \in Links
    BY <2>1 DEF Links
  <2>3. [link[t] EXCEPT !.synced = FALSE].device = link[t].device
    BY <2>1 DEF Links
  <2> QED BY <1>2, <2>1, <2>2, <2>3
<1> QED BY <1>1, <1>2, CrashKeeps, FinishKeeps

LEMMA InitIInv == Init => IInv
<1> SUFFICES ASSUME Init PROVE IInv
  OBVIOUS
<1>1. ThreadsOK
  <2>1. Idle \in Links /\ Idle.device = 0 /\ Fresh \in [valid : BOOLEAN, err : BOOLEAN]
    BY DevicesArePositive DEF Idle, Links, Fresh
  <2> QED BY <2>1 DEF Init, ThreadsOK, Places
<1>2. ReceiversOK
  <2>1. Nothing \in [user : UserIds, content : Contents \cup {0}, size : {0, 1}]
    BY DEF Nothing, UserIds
  <2> QED BY <2>1 DEF Init, ReceiversOK, OneReceiver
<1>3. OthersOK
  <2>1. Unknown \in Nodes
    BY DEF Unknown, Nodes
  <2>2. 1 \in Tokens /\ 0 \in Tokens
    BY DEF Tokens
  <2> QED BY <2>1, <2>2 DEF Init, OthersOK
<1> QED BY <1>1, <1>2, <1>3, InitTables DEF IInv

LEMMA NextIInv == IInv /\ [Next]_vars => IInv'
<1> SUFFICES ASSUME IInv, [Next]_vars PROVE IInv'
  OBVIOUS
<1>1. CASE UNCHANGED vars
  <2>1. Tables'
    BY <1>1, UnchangedKeepsTables DEF vars, IInv
  <2> QED BY <1>1, <2>1 DEF vars, threads, clients, IInv, ThreadsOK, ReceiversOK, OneReceiver,
            OthersOK
<1>2. ASSUME NEW t \in Threads, Step(t) PROVE IInv'
  <2>1. CASE Loop(t) \/ Vanish(t)
    BY <2>1, LoopKeeps
  <2>2. CASE Handle(t)
    BY <2>2, AuthenticateKeeps, RefreshIndexKeeps, NotifyKeeps, SyncRequestKeeps,
       SyncResponseKeeps, ContentKeeps DEF Handle
  <2> QED BY <1>2, <2>1, <2>2 DEF Step
<1> QED BY <1>1, <1>2 DEF Next

THEOREM Invariance == Spec => []IInv
BY InitIInv, NextIInv, PTL DEF Spec

(* The registry and the connection sets of the accounts list the same        *)
(* devices, each under its own account, and the two token maps know the same *)
(* tokens and agree on their accounts, whatever fails (on_close and the      *)
(* handlers of main.cpp).                                                    *)
THEOREM TablesAlwaysAgree == Spec => []TablesAgree
BY Invariance, IInvIs, PTL

-----------------------------------------------------------------------------
(* The pending requests.                                                     *)

Account(d) == IF d = 0 THEN 0 ELSE UserOf[d]
Waits(p)   == LET node == contents[Account(p.device)][p.content]
              IN  node.devices # {} /\ ~Cached(node)

LEMMA PendingIs == PendingOnlyUncached <=> \A p \in glb_content_id_to_connection : Waits(p)
BY DEF PendingOnlyUncached, Waits, Account

LEMMA RequestsAreTyped ==
  ASSUME IInv, NEW p \in glb_content_id_to_connection
  PROVE  p.content \in Contents /\ p.device \in DeviceIds /\ Account(p.device) \in UserIds
BY DevicesArePositive DEF IInv, Tables, TablesOK, DeviceIds, Account

LEMMA PendingShrinks ==
  ASSUME PendingOnlyUncached, UNCHANGED contents,
         glb_content_id_to_connection' \subseteq glb_content_id_to_connection
  PROVE  PendingOnlyUncached'
BY PendingIs DEF PendingOnlyUncached

(* Closing takes requests off the list and adds none. *)
LEMMA ClosingAddsNoRequest ==
  ASSUME NEW F, NEW C, NEW A, NEW D, NEW U, NEW P, OnClose(F, C, A, D, U, P)
  PROVE  glb_content_id_to_connection' \subseteq P
BY DEF OnClose, ErasePending

LEMMA CachingAnswersAll ==
  ASSUME IInv, PendingOnlyUncached, NEW u \in UserIds, NEW c \in Contents, NEW buffer,
         contents' = [contents EXCEPT ![u][c].buffer = buffer], Answered(c)
  PROVE  PendingOnlyUncached'
<1> SUFFICES ASSUME NEW p \in glb_content_id_to_connection' PROVE Waits(p)'
  BY PendingIs DEF PendingOnlyUncached, Waits, Account
<1>1. p \in glb_content_id_to_connection /\ p.content # c
  BY DEF Answered, Requests
<1>2. Waits(p)
  BY <1>1, PendingIs
<1>3. p.content \in Contents /\ Account(p.device) \in UserIds
  BY <1>1, RequestsAreTyped
<1>4. contents'[Account(p.device)][p.content] = contents[Account(p.device)][p.content]
  BY <1>1, <1>3 DEF IInv, OthersOK
<1> QED BY <1>2, <1>4 DEF Waits

LEMMA NotifyingKeepsPending ==
  ASSUME IInv, PendingOnlyUncached, NEW t \in Threads, NEW c \in Contents, NotifyAvailable(t, c)
  PROVE  PendingOnlyUncached'
<1> DEFINE token == held[link[t].device]
           user  == glb_token_to_user_id[token]
           self  == glb_token_to_device_id[token]
<1>1. \/ /\ glb_content_id_to_connection' \subseteq glb_content_id_to_connection
         /\ contents' = [contents EXCEPT ![user][c].devices = @ \cup {self}]
      \/ UNCHANGED <<glb_content_id_to_connection, contents>>
  BY ClosingAddsNoRequest DEF NotifyAvailable, Unregistering, CloseFailed, Crash, tables
<1>2. user \in UserIds /\ self \in DeviceIds
  BY DEF NotifyAvailable, Known, IInv, Tables, TablesOK
<1> HIDE DEF user, self
<1>3. CASE UNCHANGED <<glb_content_id_to_connection, contents>>
  BY <1>3, PendingShrinks
<1>4. ASSUME glb_content_id_to_connection' \subseteq glb_content_id_to_connection,
             contents' = [contents EXCEPT ![user][c].devices = @ \cup {self}]
      PROVE  PendingOnlyUncached'
  <2> SUFFICES ASSUME NEW p \in glb_content_id_to_connection' PROVE Waits(p)'
    BY PendingIs DEF PendingOnlyUncached, Waits, Account
  <2>1. p \in glb_content_id_to_connection /\ Waits(p)
    BY <1>4, PendingIs
  <2> DEFINE a == Account(p.device)
  <2>2. p.content \in Contents /\ a \in UserIds
    BY <2>1, RequestsAreTyped
  <2>3. contents \in [UserIds -> [Contents -> Nodes]]
    BY DEF IInv, OthersOK
  <2> HIDE DEF a
  <2>4. \/ contents'[a][p.content] = contents[a][p.content]
        \/ contents'[a][p.content] = [contents[a][p.content] EXCEPT !.devices = @ \cup {self}]
    BY <1>2, <1>4, <2>2, <2>3
  <2>5. contents[a][p.content] \in Nodes
    BY <2>2, <2>3
  <2>6. /\ contents[a][p.content].devices \subseteq contents'[a][p.content].devices
        /\ contents'[a][p.content].buffer = contents[a][p.content].buffer
    BY <2>4, <2>5 DEF Nodes
  <2> QED BY <2>1, <2>6 DEF Waits, Cached, a
<1> QED BY <1>1, <1>3, <1>4

LEMMA AskingKeepsPending ==
  ASSUME IInv, PendingOnlyUncached, NEW t \in Threads, NEW c \in Contents, SyncRequest(t, c)
  PROVE  PendingOnlyUncached'
<1> DEFINE token == held[link[t].device]
           D == Lookup(glb_token_to_device_id, token)
           U == Lookup(glb_token_to_user_id, token)
           node == contents[U[token]][c]
           entry == [content |-> c, remote |-> t, device |-> D[token]]
<1>1. /\ UNCHANGED contents
      /\ \/ glb_content_id_to_connection' \subseteq glb_content_id_to_connection
         \/ /\ node.devices # {} /\ ~Cached(node)
            /\ glb_content_id_to_connection' \subseteq glb_content_id_to_connection \cup {entry}
  BY ClosingAddsNoRequest DEF SyncRequest, CloseFailed, Crash, tables
<1>2. U[token] = Account(D[token])
  <2>1. /\ TablesOK(glb_connections, accounts, D, U, glb_content_id_to_connection \cup {})
        /\ token \in DOMAIN U
    BY LookupKeepsTables DEF IInv, Tables
  <2> HIDE DEF D, U, token
  <2> QED BY <2>1 DEF TablesOK, Account
<1> HIDE DEF D, U, token
<1>3. CASE glb_content_id_to_connection' \subseteq glb_content_id_to_connection
  BY <1>1, <1>3, PendingShrinks
<1>4. ASSUME node.devices # {}, ~Cached(node),
             glb_content_id_to_connection' \subseteq glb_content_id_to_connection \cup {entry}
      PROVE  PendingOnlyUncached'
  <2> SUFFICES ASSUME NEW p \in glb_content_id_to_connection' PROVE Waits(p)'
    BY PendingIs DEF PendingOnlyUncached, Waits, Account
  <2>1. CASE p = entry
    BY <1>1, <1>2, <1>4, <2>1 DEF Waits
  <2>2. CASE p \in glb_content_id_to_connection
    BY <1>1, <2>2, PendingIs DEF Waits
  <2> QED BY <1>4, <2>1, <2>2
<1> HIDE DEF node, entry
<1> QED BY <1>1, <1>3, <1>4

LEMMA AnsweringKeepsPending ==
  ASSUME IInv, PendingOnlyUncached, NEW t \in Threads,
         \/ \E c \in Contents, n \in {0, 1} : SyncResponse(t, c, n)
         \/ ContentWhole(t) \/ ContentCut(t) \/ ContentReset(t) \/ ContentLate(t)
  PROVE  PendingOnlyUncached'
<1>1. ASSUME NEW c \in Contents, NEW n \in {0, 1}, SyncResponse(t, c, n)
      PROVE  PendingOnlyUncached'
  <2> DEFINE token == held[link[t].device]
             user  == glb_token_to_user_id[token]
  <2>1. \/ UNCHANGED <<glb_content_id_to_connection, contents>>
        \/ /\ Known(token) /\ Answered(c)
           /\ contents' = [contents EXCEPT ![user][c].buffer = "none"]
    BY <1>1 DEF SyncResponse
  <2>2. Known(token) => user \in UserIds
    BY DEF Known, IInv, Tables, TablesOK
  <2> HIDE DEF token, user
  <2> QED BY <2>1, <2>2, CachingAnswersAll, PendingShrinks
<1>2. ASSUME ContentWhole(t) \/ ContentCut(t) \/ ContentReset(t) \/ ContentLate(t)
      PROVE  PendingOnlyUncached'
  <2>1. /\ pc[t] = "content"
        /\ \/ UNCHANGED <<glb_content_id_to_connection, contents>>
           \/ \E buffer : Cache(t, buffer) /\ Answered(rx[t].content)
    BY <1>2 DEF ContentWhole, ContentCut, ContentReset, ContentLate, Forward, Finish, Crash, tables
  <2>2. rx[t].user \in UserIds /\ rx[t].content \in Contents
    BY <2>1 DEF IInv, ReceiversOK, OneReceiver
  <2> QED BY <2>1, <2>2, CachingAnswersAll, PendingShrinks DEF Cache
<1> QED BY <1>1, <1>2

LEMMA NextPending == IInv /\ PendingOnlyUncached /\ [Next]_vars => PendingOnlyUncached'
<1> SUFFICES ASSUME IInv, PendingOnlyUncached, [Next]_vars PROVE PendingOnlyUncached'
  OBVIOUS
<1>1. CASE UNCHANGED vars
  BY <1>1, PendingShrinks DEF vars, tables
<1>2. ASSUME NEW t \in Threads, Step(t) PROVE PendingOnlyUncached'
  <2>1. CASE Vanish(t) \/ Loop(t)
    <3>1. /\ UNCHANGED contents
          /\ glb_content_id_to_connection' \subseteq glb_content_id_to_connection
      BY <2>1, ClosingAddsNoRequest
      DEF Loop, Vanish, Accept, Receive, Leave, Interrupted, Error, Close, tables
    <3> QED BY <3>1, PendingShrinks
  <2>2. CASE Authenticate(t) \/ RefreshIndex(t) \/ NotifyRefused(t)
    <3>1. /\ UNCHANGED contents
          /\ glb_content_id_to_connection' \subseteq glb_content_id_to_connection
      BY <2>2, ClosingAddsNoRequest
      DEF Authenticate, RefreshIndex, NotifyRefused, Unregistering, CloseFailed, tables
    <3> QED BY <3>1, PendingShrinks
  <2> QED BY <1>2, <2>1, <2>2, NotifyingKeepsPending, AskingKeepsPending, AnsweringKeepsPending
      DEF Step, Handle
<1> QED BY <1>1, <1>2 DEF Next

(* A request stays on the list only while its account knows holders of the   *)
(* content and the server has not cached it: whoever asked before the answer *)
(* came has been served and taken off, whoever asks after is served at once  *)
(* (the sync_request and sync_response handlers).                            *)
THEOREM RequestsWaitForContent == Spec => []PendingOnlyUncached
<1>1. Init => PendingOnlyUncached
  BY DEF Init, PendingOnlyUncached
<1> QED BY <1>1, Invariance, NextPending, PTL DEF Spec

-----------------------------------------------------------------------------
(* Notifications reach the connected, if no device comes twice.              *)

Gone(F, C)     == UNION {Found(s, C) : s \in F}
TokensOf(S, C) == {C[d].token : d \in S}

Erased(gone, C, A, D, P) ==
  /\ DOMAIN glb_connections' = DOMAIN C \ gone
  /\ \A d \in DOMAIN C \ gone : glb_connections'[d] = C[d]
  /\ \A u \in UserIds : DOMAIN accounts'[u] = DOMAIN A[u] \ gone
  /\ \A u \in UserIds : \A d \in DOMAIN accounts'[u] : accounts'[u][d] = A[u][d]
  /\ DOMAIN glb_token_to_device_id' = DOMAIN D \ TokensOf(gone, C)
  /\ \A k \in DOMAIN D \ TokensOf(gone, C) : glb_token_to_device_id'[k] = D[k]
  /\ glb_content_id_to_connection' = {p \in P : p.device \notin gone}

LEMMA OnCloseErases ==
  ASSUME NEW C, NEW A, NEW D, NEW U, NEW P, TablesOK(C, A, D, U, P),
         NEW F, OnClose(F, C, A, D, U, P)
  PROVE  Erased(Gone(F, C), C, A, D, P)
<1> DEFINE gone == Gone(F, C)
           tokens == TokensOf(gone, C)
<1>1. gone \subseteq DOMAIN C
  BY DEF Found, Gone
<1>2. /\ glb_connections' = Erase(C, gone)
      /\ accounts' = [u \in UserIds |-> Erase(A[u], {d \in gone : C[d].user = u})]
      /\ glb_token_to_device_id' = Erase(D, tokens)
      /\ glb_content_id_to_connection' = {p \in P : p.device \notin gone}
  BY DEF OnClose, EraseConnections, EraseTokens, ErasePending, Gone, TokensOf
<1> HIDE DEF gone, tokens
<1>3. ASSUME NEW u \in UserIds
      PROVE  /\ DOMAIN accounts'[u] = DOMAIN A[u] \ {d \in gone : C[d].user = u}
             /\ \A d \in DOMAIN accounts'[u] : accounts'[u][d] = A[u][d]
  BY <1>2 DEF Erase
<1>4. ASSUME NEW u \in UserIds
      PROVE  DOMAIN A[u] \ {d \in gone : C[d].user = u} = DOMAIN A[u] \ gone
  BY <1>1 DEF TablesOK
<1>5. /\ DOMAIN glb_connections' = DOMAIN C \ gone
      /\ \A d \in DOMAIN C \ gone : glb_connections'[d] = C[d]
      /\ DOMAIN glb_token_to_device_id' = DOMAIN D \ tokens
      /\ \A k \in DOMAIN D \ tokens : glb_token_to_device_id'[k] = D[k]
  BY <1>2 DEF Erase
<1>6. \A u \in UserIds : DOMAIN accounts'[u] = DOMAIN A[u] \ gone
  BY <1>3, <1>4
<1> QED BY <1>2, <1>3, <1>5, <1>6 DEF gone, tokens, Erased

Reaches(C, A) == \A u \in Users : \A d \in DOMAIN A[u] : d \in DOMAIN C => A[u][d] = C[d].remote

LEMMA OnCloseKeepsReaches ==
  ASSUME NEW C, NEW A, NEW D, NEW U, NEW P, TablesOK(C, A, D, U, P), Reaches(C, A),
         NEW F, OnClose(F, C, A, D, U, P)
  PROVE  NotifyReachesConnected'
<1> DEFINE gone == Gone(F, C)
<1>1. Erased(gone, C, A, D, P)
  BY OnCloseErases
<1> HIDE DEF gone
<1>2. \A u \in Users : \A d \in DOMAIN accounts'[u] :
        d \in DOMAIN glb_connections' => accounts'[u][d] = glb_connections'[d].remote
  BY <1>1, DevicesArePositive DEF Reaches, Erased
<1> QED BY <1>2 DEF NotifyReachesConnected

(* A device that registers has no connection in its account yet.             *)
LEMMA AuthenticatingReaches ==
  ASSUME NEW C, NEW A, NEW D, NEW U, NEW P, TablesOK(C, A, D, U, P), Reaches(C, A),
         NEW d \in Devices, d \notin DOMAIN C, NEW t \in Threads, NEW token
  PROVE  Reaches(Put(C, d, [remote |-> t, token |-> token, user |-> UserOf[d]]),
                 Inserted(A, UserOf[d], d, t))
<1> DEFINE n == [remote |-> t, token |-> token, user |-> UserOf[d]]
           C1 == Put(C, d, n)
           A1 == Inserted(A, UserOf[d], d, t)
<1>1. /\ DOMAIN C1 = DOMAIN C \cup {d} /\ C1[d].remote = t
      /\ \A e \in DOMAIN C : e # d => C1[e] = C[e]
  BY DEF Put
<1>2. d \notin DOMAIN A[UserOf[d]] /\ UserOf[d] \in UserIds /\ DOMAIN A = UserIds
  BY DevicesArePositive DEF TablesOK
<1>3. /\ A1[UserOf[d]] = Put(A[UserOf[d]], d, t)
      /\ \A u \in UserIds : u # UserOf[d] => A1[u] = A[u]
  BY <1>2 DEF Inserted
<1>4. /\ DOMAIN A1[UserOf[d]] = DOMAIN A[UserOf[d]] \cup {d} /\ A1[UserOf[d]][d] = t
      /\ \A e \in DOMAIN A[UserOf[d]] : A1[UserOf[d]][e] = A[UserOf[d]][e]
  <2> HIDE DEF A1
  <2> QED BY <1>2, <1>3 DEF Put
<1>5. \A u \in Users : u # UserOf[d] => d \notin DOMAIN A[u]
  BY DevicesArePositive DEF TablesOK
<1> HIDE DEF n, C1, A1
<1>6. ASSUME NEW u \in Users, NEW e \in DOMAIN A1[u], e \in DOMAIN C1
      PROVE  A1[u][e] = C1[e].remote
  <2>1. CASE e = d
    BY <1>1, <1>2, <1>3, <1>4, <1>5, <2>1, <1>6, DevicesArePositive
  <2>2. CASE e # d
    <3>1. e \in DOMAIN A[u] /\ A1[u][e] = A[u][e]
      BY <1>3, <1>4, <1>6, <2>2, DevicesArePositive
    <3>2. e \in DOMAIN C /\ C1[e] = C[e]
      BY <1>1, <1>6, <2>2
    <3>3. A[u][e] = C[e].remote
      BY <3>1, <3>2 DEF Reaches
    <3> QED BY <3>1, <3>2, <3>3
  <2> QED BY <2>1, <2>2
<1> QED BY <1>6 DEF Reaches, C1, A1, n

LEMMA NextReaches ==
  ASSUME ~Repeats
  PROVE  IInv /\ NotifyReachesConnected /\ [Next]_vars => NotifyReachesConnected'
<1> SUFFICES ASSUME IInv, NotifyReachesConnected, [Next]_vars PROVE NotifyReachesConnected'
  OBVIOUS
<1> DEFINE C == glb_connections
           A == accounts
           D == glb_token_to_device_id
           U == glb_token_to_user_id
           P == glb_content_id_to_connection
<1>1. Reaches(C, A) /\ TablesOK(C, A, D, U, P)
  BY DEF Reaches, NotifyReachesConnected, IInv, Tables
<1>2. ASSUME UNCHANGED <<C, A>> PROVE NotifyReachesConnected'
  BY <1>2 DEF NotifyReachesConnected
<1>3. ASSUME NEW F, OnClose(F, C, A, D, U, P) PROVE NotifyReachesConnected'
  BY <1>1, <1>3, OnCloseKeepsReaches
<1>4. CASE UNCHANGED vars
  BY <1>2, <1>4 DEF vars, tables
<1>5. ASSUME NEW t \in Threads, Step(t) PROVE NotifyReachesConnected'
  <2>1. CASE Vanish(t) \/ Loop(t)
    <3>1. UNCHANGED <<C, A>> \/ OnClose({t}, C, A, D, U, P)
      BY <2>1 DEF Loop, Vanish, Accept, Receive, Leave, Interrupted, Error, Close, tables
    <3> QED BY <1>2, <1>3, <3>1
  <2>2. CASE \/ RefreshIndex(t) \/ NotifyRefused(t)
             \/ \E c \in Contents : NotifyAvailable(t, c)
    <3>1. UNCHANGED <<C, A>> \/ \E F : OnClose(F, C, A, D, U, P)
      BY <2>2
      DEF RefreshIndex, NotifyRefused, NotifyAvailable, Unregistering, CloseFailed, Crash, tables
    <3> QED BY <1>2, <1>3, <3>1
  <2>3. CASE Authenticate(t)
    <3> DEFINE d == link[t].device
               n(k) == [remote |-> t, token |-> k, user |-> UserOf[d]]
    <3>1. PICK token \in Tokens, F \in FailSets({t}) :
             OnClose(F, Put(C, d, n(token)), Inserted(A, UserOf[d], d, t),
                     Put(D, token, d), Put(U, token, UserOf[d]), P)
      BY <2>3 DEF Authenticate, CloseFailed, Inserted
    <3>2. d \in Devices /\ d \notin DOMAIN C
      <4>1. pc[t] = "serve" /\ d \notin DOMAIN C
        BY <2>3 DEF Authenticate, Serving
      <4> QED BY <4>1, ServedHasDevice
    <3>3. TablesOK(Put(C, d, n(token)), Inserted(A, UserOf[d], d, t),
                   Put(D, token, d), Put(U, token, UserOf[d]), P)
      BY <1>1, <3>2, AuthenticateKeepsTables
    <3>4. Reaches(Put(C, d, n(token)), Inserted(A, UserOf[d], d, t))
      BY <1>1, <3>2, AuthenticatingReaches
    <3> HIDE DEF d, n, C, A, D, U, P
    <3> QED BY <3>1, <3>3, <3>4, OnCloseKeepsReaches
  <2>4. ASSUME NEW c \in Contents, SyncRequest(t, c) PROVE NotifyReachesConnected'
    <3> DEFINE token == held[link[t].device]
               D1 == Lookup(D, token)
               U1 == Lookup(U, token)
               entry == [content |-> c, remote |-> t, device |-> D1[token]]
    <3>1. \/ UNCHANGED <<C, A>>
          \/ \E F : OnClose(F, C, A, D1, U1, P) \/ OnClose(F, C, A, D1, U1, P \cup {entry})
      BY <2>4 DEF SyncRequest, CloseFailed, Crash, tables
    <3>2. D1[token] \in DeviceIds /\ TablesOK(C, A, D1, U1, P \cup {})
      BY <1>1, LookupKeepsTables
    <3>3. {entry} \in SUBSET [content : Contents, remote : Threads, device : DeviceIds]
      BY <3>2
    <3>4. TablesOK(C, A, D1, U1, P) /\ TablesOK(C, A, D1, U1, P \cup {entry})
      <4>1. P \cup {} = P
        OBVIOUS
      <4> QED BY <1>1, <3>2, <3>3, <4>1, LookupKeepsTables
    <3> HIDE DEF D1, U1, entry, C, A, P
    <3> QED BY <1>1, <1>2, <3>1, <3>4, OnCloseKeepsReaches
  <2>5. CASE \/ \E c \in Contents, n \in {0, 1} : SyncResponse(t, c, n)
             \/ ContentWhole(t) \/ ContentCut(t) \/ ContentReset(t) \/ ContentLate(t)
    <3>1. UNCHANGED <<C, A>>
      BY <2>5 DEF SyncResponse, ContentWhole, ContentCut, ContentReset, ContentLate, Forward,
                  Finish, Crash, tables, OtherTables
    <3> QED BY <1>2, <3>1
  <2> QED BY <1>5, <2>1, <2>2, <2>3, <2>4, <2>5 DEF Step, Handle
<1> QED BY <1>4, <1>5 DEF Next

(* When no device comes back while its last connection is registered, the    *)
(* socket an account forwards a notification to is the one its device        *)
(* authenticated on last, even if sends fail and sockets are closed under    *)
(* their threads (the notify and authenticate handlers).                     *)
THEOREM NotificationsReach ==
  ASSUME ~Repeats
  PROVE  Spec => []NotifyReachesConnected
<1>1. Init => NotifyReachesConnected
  BY DevicesArePositive DEF Init, NotifyReachesConnected, Empty
<1>2. IInv /\ NotifyReachesConnected /\ [Next]_vars => NotifyReachesConnected'
  BY NextReaches
<1> QED BY <1>1, <1>2, Invariance, PTL DEF Spec

-----------------------------------------------------------------------------
(* The orderly configuration: no send fails, no device comes twice, one      *)
(* authentication a second, and a build without assertions.                  *)

Orderly == ~SendFails /\ ~Repeats /\ ~SameSecond /\ ~Asserts
OInv    == IInv /\ OnlyOfTheConnected

LEMMA NoSendFails == ASSUME Orderly, NEW S, NEW F \in FailSets(S) PROVE F = {}
BY DEF Orderly, FailSets

(* A close without failed sends erases nothing. *)
LEMMA NothingErased ==
  ASSUME NEW C, NEW A, NEW D, NEW U, NEW P, TablesOK(C, A, D, U, P), ThreadsOK,
         NEW t, CloseFailed(t, {}, C, A, D, U, P)
  PROVE  /\ DOMAIN glb_connections' = DOMAIN C
         /\ \A d \in DOMAIN C : glb_connections'[d] = C[d]
         /\ DOMAIN glb_token_to_device_id' = DOMAIN D
         /\ \A k \in DOMAIN D : glb_token_to_device_id'[k] = D[k]
         /\ glb_content_id_to_connection' = P
         /\ sock' = sock /\ closed' = closed
<1>1. Gone({}, C) = {} /\ TokensOf({}, C) = {}
  BY DEF Gone, TokensOf
<1>2. Erased(Gone({}, C), C, A, D, P)
  BY OnCloseErases DEF CloseFailed
<1>3. sock' = sock /\ closed' = closed
  BY DEF CloseFailed, ThreadsOK
<1>4. glb_content_id_to_connection' = P
  <2>1. glb_content_id_to_connection' = {p \in P : p.device \notin {}}
    BY <1>1, <1>2 DEF Erased
  <2> QED BY <2>1
<1> QED BY <1>1, <1>2, <1>3, <1>4 DEF Erased

(* What a step leaves of the registry, the tokens and the slots when it adds *)
(* nothing to them.                                                          *)
SameRegistry ==
  /\ DOMAIN glb_connections' = DOMAIN glb_connections
  /\ \A d \in DOMAIN glb_connections : glb_connections'[d] = glb_connections[d]
SameTokens ==
  /\ DOMAIN glb_token_to_device_id \subseteq DOMAIN glb_token_to_device_id'
  /\ \A k \in DOMAIN glb_token_to_device_id' :
       IF k \in DOMAIN glb_token_to_device_id
       THEN glb_token_to_device_id'[k] = glb_token_to_device_id[k]
       ELSE glb_token_to_device_id'[k] = 0
SameSlots ==
  \A s \in Threads :
    /\ link'[s].device = link[s].device
    /\ sock[s].valid => sock'[s].valid
    /\ closed'[s] => closed[s]
    /\ pc'[s] \in {"accept", "leave"} <=> pc[s] \in {"accept", "leave"}
    /\ pc'[s] = "leave" <=> pc[s] = "leave"
(* A request that joins the list is the one of a connection that is served. *)
JoinsInOrder(p) ==
  p.device # 0 => /\ p.device \in DOMAIN glb_connections
                  /\ glb_connections[p.device].remote = p.remote
                  /\ link[p.remote].device = p.device

LEMMA StaysOrderly ==
  ASSUME OInv, fault = "none", fault' = "none", UNCHANGED clients,
         SameRegistry, SameTokens, SameSlots,
         \A p \in glb_content_id_to_connection' :
           p \in glb_content_id_to_connection \/ (p.remote \in Threads /\ JoinsInOrder(p))
  PROVE  OnlyOfTheConnected'
<1> USE DEF OInv, OnlyOfTheConnected
<1>1. \A d \in DOMAIN glb_connections : glb_connections[d].remote \in Threads
  BY DEF IInv, Tables, TablesOK
<1>2. \A p \in glb_content_id_to_connection' : p.remote \in Threads
  BY DEF IInv, Tables, TablesOK
<1>3. SlotsInOrder'
  <2>1. \A s, t \in Threads : s # t /\ link'[s].device = link'[t].device => link'[t].device = 0
    BY DEF SlotsInOrder, SameSlots
  <2>2. \A t \in Threads : /\ pc'[t] \notin {"accept", "leave"} => sock'[t].valid
                           /\ pc'[t] # "leave" => ~closed'[t]
    BY DEF SlotsInOrder, SameSlots
  <2>3. \A d \in DOMAIN glb_connections' : pc'[glb_connections'[d].remote] # "leave"
    BY <1>1 DEF SlotsInOrder, SameSlots, SameRegistry
  <2>4. \A p \in glb_content_id_to_connection' :
          p.device # 0 => /\ p.device \in DOMAIN glb_connections'
                          /\ glb_connections'[p.device].remote = p.remote
    BY DEF SlotsInOrder, JoinsInOrder, SameRegistry
  <2> QED BY <2>1, <2>2, <2>3, <2>4 DEF SlotsInOrder
<1>4. NoEndedConnections'
  BY <1>1 DEF NoEndedConnections, SameRegistry, SameSlots
<1>5. KnownRequestorsConnected'
  BY <1>2 DEF KnownRequestorsConnected, JoinsInOrder, SameSlots
<1>6. TokensOfTheRegistered'
  <2>1. \A k : k \in DOMAIN glb_token_to_device_id' /\ glb_token_to_device_id'[k] # 0
               <=> k \in DOMAIN glb_token_to_device_id /\ glb_token_to_device_id[k] # 0
    BY DEF SameTokens
  <2>2. {k \in DOMAIN glb_token_to_device_id' : glb_token_to_device_id'[k] # 0}
          = {glb_connections'[d].token : d \in DOMAIN glb_connections'}
    <3>1. {k \in DOMAIN glb_token_to_device_id' : glb_token_to_device_id'[k] # 0}
            = {k \in DOMAIN glb_token_to_device_id : glb_token_to_device_id[k] # 0}
      BY <2>1
    <3>2. {glb_connections'[d].token : d \in DOMAIN glb_connections'}
            = {glb_connections[d].token : d \in DOMAIN glb_connections}
      BY DEF SameRegistry
    <3> QED BY <3>1, <3>2 DEF TokensOfTheRegistered
  <2>3. ASSUME NEW d \in DOMAIN glb_connections
        PROVE  /\ glb_token_to_device_id'[glb_connections[d].token] = d
               /\ glb_connections[d].token \in 1..now'
               /\ \A e \in Devices : held'[e] = glb_connections[d].token => e = d
    <3> DEFINE k == glb_connections[d].token
    <3>1. k \in DOMAIN glb_token_to_device_id /\ glb_token_to_device_id[k] = d
      BY DEF TokensOfTheRegistered
    <3>2. glb_token_to_device_id'[k] = d
      <4> HIDE DEF k
      <4> QED BY <3>1 DEF SameTokens
    <3> QED BY <3>2 DEF TokensOfTheRegistered, clients
  <2>4. \A e \in Devices : held'[e] <= now'
    BY DEF TokensOfTheRegistered, clients
  <2> QED BY <2>2, <2>3, <2>4 DEF TokensOfTheRegistered, SameRegistry
<1>7. DiesOfGoneHolders'
  BY DEF DiesOfGoneHolders
<1> QED BY <1>3, <1>4, <1>5, <1>6, <1>7

(* The registry, requests and tokens are of slots whose client is there.     *)
LEMMA RegisteredSlots ==
  ASSUME OInv
  PROVE  /\ \A d \in DOMAIN glb_connections :
              /\ d \in Devices /\ glb_connections[d].remote \in Threads
              /\ link[glb_connections[d].remote].device = d
              /\ glb_connections[d].token \in DOMAIN glb_token_to_device_id
              /\ glb_token_to_device_id[glb_connections[d].token] = d
         /\ \A p \in glb_content_id_to_connection : p.remote \in Threads
BY DevicesArePositive
DEF OInv, OnlyOfTheConnected, NoEndedConnections, TokensOfTheRegistered, IInv, Tables, TablesOK

LEMMA AcceptIsOrderly ==
  ASSUME Orderly, OInv, fault = "none", NEW t \in Threads, NEW d \in Devices, Accept(t, d)
  PROVE  OnlyOfTheConnected'
<1> USE DEF OInv, OnlyOfTheConnected
<1> DEFINE new == [device |-> d, up |-> TRUE, asked |-> {}, synced |-> TRUE]
<1>1. /\ pc[t] = "accept" /\ Served(d) = {}
      /\ pc' = [pc EXCEPT ![t] = "recv"]
      /\ sock' = [sock EXCEPT ![t].valid = TRUE]
      /\ link' = [link EXCEPT ![t] = new]
      /\ UNCHANGED <<closed, rx, clients, tables, contents, fault>>
  BY DEF Accept, Orderly
<1>2. new.device = d
  OBVIOUS
<1> HIDE DEF new
<1>3. link[t].device = 0 /\ \A s \in Threads : link[s].device # d
  BY <1>1 DEF Served, IInv, ThreadsOK
<1>4. /\ \A s \in Threads : s # t => link'[s] = link[s] /\ pc'[s] = pc[s] /\ sock'[s] = sock[s]
      /\ pc'[t] = "recv" /\ link'[t].device = d /\ sock'[t].valid
  <2>1. sock'[t] = [sock[t] EXCEPT !.valid = TRUE] /\ sock[t] \in [valid : BOOLEAN, err : BOOLEAN]
    BY <1>1 DEF IInv, ThreadsOK
  <2>2. sock'[t].valid
    BY <2>1
  <2> QED BY <1>1, <1>2, <2>2 DEF IInv, ThreadsOK
<1>5. \A e \in DOMAIN glb_connections : glb_connections[e].remote # t
  BY <1>3, RegisteredSlots, DevicesArePositive
<1>6. SlotsInOrder'
  <2>1. \A s, r \in Threads : s # r /\ link'[s].device = link'[r].device => link'[r].device = 0
    BY <1>3, <1>4 DEF SlotsInOrder
  <2>2. \A s \in Threads : /\ pc'[s] \notin {"accept", "leave"} => sock'[s].valid
                           /\ pc'[s] # "leave" => ~closed'[s]
    BY <1>1, <1>4 DEF SlotsInOrder
  <2>3. \A e \in DOMAIN glb_connections : pc'[glb_connections[e].remote] # "leave"
    BY <1>4, <1>5, RegisteredSlots DEF SlotsInOrder
  <2> QED BY <1>1, <2>1, <2>2, <2>3 DEF SlotsInOrder, tables
<1>7. NoEndedConnections'
  BY <1>1, <1>4, <1>5, RegisteredSlots DEF NoEndedConnections, tables
<1>8. KnownRequestorsConnected'
  <2>1. \A p \in glb_content_id_to_connection : p.device # 0 => p.remote # t
    BY <1>5 DEF SlotsInOrder
  <2> QED BY <1>1, <1>4, <2>1, RegisteredSlots DEF KnownRequestorsConnected, tables
<1>9. TokensOfTheRegistered' /\ DiesOfGoneHolders'
  BY <1>1 DEF TokensOfTheRegistered, DiesOfGoneHolders, tables, clients
<1> QED BY <1>6, <1>7, <1>8, <1>9

LEMMA LeaveIsOrderly ==
  ASSUME OInv, fault = "none", NEW t \in Threads, Leave(t)
  PROVE  OnlyOfTheConnected'
<1> USE DEF OInv, OnlyOfTheConnected
<1>1. /\ pc[t] = "leave"
      /\ pc' = [pc EXCEPT ![t] = "accept"] /\ closed' = [closed EXCEPT ![t] = FALSE]
      /\ sock' = [sock EXCEPT ![t] = Fresh] /\ link' = [link EXCEPT ![t] = Idle]
      /\ UNCHANGED <<clients, tables, contents, fault>>
  BY DEF Leave, SlotsInOrder
<1>2. /\ \A s \in Threads : s # t => /\ link'[s] = link[s] /\ pc'[s] = pc[s]
                                     /\ sock'[s] = sock[s] /\ closed'[s] = closed[s]
      /\ pc'[t] = "accept" /\ link'[t].device = 0 /\ ~closed'[t]
  BY <1>1 DEF IInv, ThreadsOK, Idle
<1>3. \A e \in DOMAIN glb_connections : glb_connections[e].remote # t
  BY <1>1 DEF SlotsInOrder
<1>4. SlotsInOrder'
  <2>1. \A s, r \in Threads : s # r /\ link'[s].device = link'[r].device => link'[r].device = 0
    BY <1>2 DEF SlotsInOrder
  <2>2. \A s \in Threads : /\ pc'[s] \notin {"accept", "leave"} => sock'[s].valid
                           /\ pc'[s] # "leave" => ~closed'[s]
    BY <1>2 DEF SlotsInOrder
  <2>3. \A e \in DOMAIN glb_connections : pc'[glb_connections[e].remote] # "leave"
    BY <1>2, <1>3, RegisteredSlots DEF SlotsInOrder
  <2> QED BY <1>1, <2>1, <2>2, <2>3 DEF SlotsInOrder, tables
<1>5. NoEndedConnections'
  BY <1>1, <1>2, <1>3, RegisteredSlots DEF NoEndedConnections, tables
<1>6. KnownRequestorsConnected'
  <2>1. \A p \in glb_content_id_to_connection : p.device # 0 => p.remote # t
    BY <1>3 DEF SlotsInOrder
  <2> QED BY <1>1, <1>2, <2>1, RegisteredSlots DEF KnownRequestorsConnected, tables
<1>7. TokensOfTheRegistered'
  <2>1. UNCHANGED <<clients, tables>>
    BY <1>1
  <2> QED BY <2>1 DEF TokensOfTheRegistered, tables, clients
<1>8. DiesOfGoneHolders'
  <2>1. fault' = "none"
    BY <1>1
  <2> QED BY <2>1 DEF DiesOfGoneHolders
<1> QED BY <1>8, <1>4, <1>5, <1>6, <1>7

(* A thread closes its own connection: its handle is valid, so the search    *)
(* finds the device registered with this slot, and no other.                 *)
LEMMA ClosingFindsOwn ==
  ASSUME OInv, NEW t \in Threads, sock[t].valid
  PROVE  Gone({t}, glb_connections) = {d \in DOMAIN glb_connections : glb_connections[d].remote = t}
<1> DEFINE own == {d \in DOMAIN glb_connections : glb_connections[d].remote = t}
<1>1. {d \in DOMAIN glb_connections : SameHandle(t, glb_connections[d].remote)} = own
  BY DEF SameHandle
<1>2. \A d, e \in own : d = e
  BY RegisteredSlots
<1>3. \A d \in own : d \in Nat
  BY RegisteredSlots
<1>4. Found(t, glb_connections) = {d \in own : \A e \in own : d <= e}
  BY <1>1 DEF Found
<1> HIDE DEF own
<1>5. {d \in own : \A e \in own : d <= e} = own
  BY <1>2, <1>3
<1> QED BY <1>4, <1>5 DEF Gone, own

LEMMA CloseIsOrderly ==
  ASSUME OInv, fault = "none", NEW t \in Threads, pc[t] \in {"recv", "interrupted", "failed"},
         Close(t)
  PROVE  OnlyOfTheConnected'
<1> USE DEF OInv, OnlyOfTheConnected
<1> DEFINE own == {d \in DOMAIN glb_connections : glb_connections[d].remote = t}
<1>1. /\ sock' = [sock EXCEPT ![t].valid = FALSE] /\ closed' = [closed EXCEPT ![t] = TRUE]
      /\ pc' = [pc EXCEPT ![t] = "leave"]
      /\ UNCHANGED <<clients, link, rx, contents, fault>>
  BY DEF Close
<1>2. sock[t].valid
  BY DEF SlotsInOrder
<1>3. Erased(own, glb_connections, accounts, glb_token_to_device_id, glb_content_id_to_connection)
  <2>1. Gone({t}, glb_connections) = own
    BY <1>2, ClosingFindsOwn
  <2>2. OnClose({t}, glb_connections, accounts, glb_token_to_device_id, glb_token_to_user_id,
                glb_content_id_to_connection)
    BY DEF Close
  <2>3. Erased(Gone({t}, glb_connections), glb_connections, accounts, glb_token_to_device_id,
               glb_content_id_to_connection)
    BY <2>2, OnCloseErases DEF IInv, Tables
  <2> QED BY <2>1, <2>3
<1>4. /\ \A s \in Threads : s # t => /\ pc'[s] = pc[s] /\ sock'[s] = sock[s]
                                     /\ closed'[s] = closed[s]
      /\ pc'[t] = "leave"
  BY <1>1 DEF IInv, ThreadsOK
<1>5. /\ DOMAIN glb_connections' = {d \in DOMAIN glb_connections : glb_connections[d].remote # t}
      /\ \A d \in DOMAIN glb_connections' : /\ d \in DOMAIN glb_connections
                                            /\ glb_connections'[d] = glb_connections[d]
  BY <1>3 DEF Erased
<1>6. \A p \in glb_content_id_to_connection' :
        p \in glb_content_id_to_connection /\ p.device \notin own
  BY <1>3 DEF Erased
<1>7. SlotsInOrder'
  <2>1. \A s, r \in Threads : s # r /\ link'[s].device = link'[r].device => link'[r].device = 0
    BY <1>1 DEF SlotsInOrder
  <2>2. \A s \in Threads : /\ pc'[s] \notin {"accept", "leave"} => sock'[s].valid
                           /\ pc'[s] # "leave" => ~closed'[s]
    BY <1>4 DEF SlotsInOrder
  <2>3. \A e \in DOMAIN glb_connections' : pc'[glb_connections'[e].remote] # "leave"
    BY <1>4, <1>5, RegisteredSlots DEF SlotsInOrder
  <2>4. \A p \in glb_content_id_to_connection' :
          p.device # 0 => /\ p.device \in DOMAIN glb_connections'
                          /\ glb_connections'[p.device].remote = p.remote
    BY <1>5, <1>6 DEF SlotsInOrder
  <2> QED BY <2>1, <2>2, <2>3, <2>4 DEF SlotsInOrder
<1>8. NoEndedConnections' /\ KnownRequestorsConnected' /\ DiesOfGoneHolders'
  BY <1>1, <1>5, <1>6 DEF NoEndedConnections, KnownRequestorsConnected, DiesOfGoneHolders
<1>9. TokensOfTheRegistered'
  <2> DEFINE C == glb_connections
             D == glb_token_to_device_id
             gone == TokensOf(own, C)
  <2>1. /\ DOMAIN D' = DOMAIN D \ gone
        /\ \A k \in DOMAIN D \ gone : D'[k] = D[k]
    BY <1>3 DEF Erased
  <2>2. \A d \in DOMAIN C' : C[d].token \notin gone /\ d \in DOMAIN C
    <3>1. \A d \in DOMAIN C', e \in own : C[d].token # C[e].token
      BY <1>5, RegisteredSlots
    <3> QED BY <1>5, <3>1 DEF TokensOf
  <2>3. \A k : k \in DOMAIN D' /\ D'[k] # 0 <=> \E d \in DOMAIN C' : k = C'[d].token
    <3>1. ASSUME NEW k, k \in DOMAIN D', D'[k] # 0 PROVE \E d \in DOMAIN C' : k = C'[d].token
      <4>1. k \in DOMAIN D /\ D[k] # 0 /\ k \notin gone
        BY <2>1, <3>1
      <4>2. PICK d \in DOMAIN C : k = C[d].token
        <5>1. k \in {j \in DOMAIN D : D[j] # 0}
          BY <4>1
        <5> QED BY <5>1 DEF TokensOfTheRegistered
      <4>3. d \notin own
        BY <4>1, <4>2 DEF TokensOf
      <4> QED BY <1>5, <4>2, <4>3
    <3>2. ASSUME NEW d \in DOMAIN C' PROVE C'[d].token \in DOMAIN D' /\ D'[C'[d].token] # 0
      <4>1. C'[d] = C[d] /\ d \in DOMAIN C /\ C[d].token \notin gone
        BY <1>5, <2>2
      <4>2. C[d].token \in DOMAIN D /\ D[C[d].token] = d /\ d # 0
        BY <4>1, RegisteredSlots, DevicesArePositive
      <4> QED BY <2>1, <4>1, <4>2
    <3> QED BY <3>1, <3>2
  <2>4. {k \in DOMAIN D' : D'[k] # 0} = {C'[d].token : d \in DOMAIN C'}
    <3> HIDE DEF C, D
    <3> QED BY <2>3
  <2>5. ASSUME NEW d \in DOMAIN C'
        PROVE  /\ D'[C'[d].token] = d /\ C'[d].token \in 1..now'
               /\ \A e \in Devices : held'[e] = C'[d].token => e = d
    <3>1. C'[d] = C[d] /\ d \in DOMAIN C /\ C[d].token \notin gone
      BY <1>5, <2>2
    <3>2. D'[C[d].token] = D[C[d].token]
      BY <2>1, <3>1, RegisteredSlots
    <3> QED BY <1>1, <3>1, <3>2 DEF TokensOfTheRegistered, clients
  <2>6. \A e \in Devices : held'[e] <= now'
    BY <1>1 DEF TokensOfTheRegistered, clients
  <2> QED BY <2>4, <2>5, <2>6 DEF TokensOfTheRegistered
<1> QED BY <1>7, <1>8, <1>9

LEMMA AuthenticateIsOrderly ==
  ASSUME Orderly, OInv, fault = "none", NEW t \in Threads, Authenticate(t)
  PROVE  OnlyOfTheConnected'
<1> USE DEF OInv, OnlyOfTheConnected
<1> DEFINE d == link[t].device
           C == glb_connections
           D == glb_token_to_device_id
           token == now + 1
           n == [remote |-> t, token |-> token, user |-> UserOf[d]]
           C1 == Put(C, d, n)
           D1 == Put(D, token, d)
           A1 == Inserted(accounts, UserOf[d], d, t)
           U1 == Put(glb_token_to_user_id, token, UserOf[d])
<1>1. /\ pc[t] = "serve" /\ d \notin DOMAIN C /\ Return(t)
      /\ UNCHANGED <<link, rx, contents, fault>>
  BY DEF Authenticate, Serving, Orderly
<1>2. /\ token \in Tokens
      /\ CloseFailed(t, {}, C1, A1, D1, U1, glb_content_id_to_connection)
      /\ now' = token
      /\ held' = held \/ held' = [held EXCEPT ![d] = token]
  <2>1. PICK k \in {now + 1} \cap Tokens, F \in FailSets({t}) :
           /\ CloseFailed(t, F, Put(C, d, [remote |-> t, token |-> k, user |-> UserOf[d]]), A1,
                          Put(D, k, d), Put(glb_token_to_user_id, k, UserOf[d]),
                          glb_content_id_to_connection)
           /\ now' = k
           /\ held' = held \/ held' = [held EXCEPT ![d] = k]
    BY DEF Authenticate, Inserted, Orderly
  <2>2. k = token /\ F = {}
    BY <2>1, NoSendFails
  <2> QED BY <2>1, <2>2
<1>3. d \in Devices
  BY <1>1, ServedHasDevice
<1>4. TablesOK(C1, A1, D1, U1, glb_content_id_to_connection)
  BY <1>2, <1>3, AuthenticateKeepsTables DEF IInv, Tables
<1>5. /\ DOMAIN C1 = DOMAIN C \cup {d} /\ C1[d] = n
      /\ \A e \in DOMAIN C : C1[e] = C[e]
      /\ DOMAIN D1 = DOMAIN D \cup {token} /\ D1[token] = d
      /\ \A k \in DOMAIN D : k # token => D1[k] = D[k]
  BY <1>1 DEF Put
<1>6. n.remote = t /\ n.token = token
  OBVIOUS
<1> HIDE DEF C1, D1, A1, U1, n, token
<1>7. /\ DOMAIN C' = DOMAIN C \cup {d} /\ C'[d] = n
      /\ \A e \in DOMAIN C : C'[e] = C[e]
      /\ DOMAIN D' = DOMAIN D \cup {token} /\ D'[token] = d
      /\ \A k \in DOMAIN D : k # token => D'[k] = D[k]
      /\ glb_content_id_to_connection' = glb_content_id_to_connection
      /\ sock' = sock /\ closed' = closed
  BY <1>2, <1>4, <1>5, NothingErased DEF IInv
<1>8. pc'[t] \in {"recv", "failed"} /\ \A s \in Threads : s # t => pc'[s] = pc[s]
  BY <1>1, ReturnMoves DEF IInv
<1>9. SlotsInOrder'
  <2>1. \A s, r \in Threads : s # r /\ link'[s].device = link'[r].device => link'[r].device = 0
    BY <1>1 DEF SlotsInOrder
  <2>2. \A s \in Threads : /\ pc'[s] \notin {"accept", "leave"} => sock'[s].valid
                           /\ pc'[s] # "leave" => ~closed'[s]
    BY <1>1, <1>7, <1>8 DEF SlotsInOrder
  <2>3. \A e \in DOMAIN C' : pc'[C'[e].remote] # "leave"
    BY <1>6, <1>7, <1>8, RegisteredSlots DEF SlotsInOrder
  <2>4. \A p \in glb_content_id_to_connection' :
          p.device # 0 => p.device \in DOMAIN C' /\ C'[p.device].remote = p.remote
    BY <1>7 DEF SlotsInOrder
  <2> QED BY <2>1, <2>2, <2>3, <2>4 DEF SlotsInOrder
<1>10. NoEndedConnections'
  BY <1>1, <1>6, <1>7 DEF NoEndedConnections
<1>11. KnownRequestorsConnected' /\ DiesOfGoneHolders'
  BY <1>1, <1>7 DEF KnownRequestorsConnected, DiesOfGoneHolders
<1>12. TokensOfTheRegistered'
  <2>1. now \in Nat /\ token = now + 1 /\ \A e \in Devices : held[e] \in Nat
    BY DEF token, IInv, OthersOK, Tokens
  <2>2. \A e \in DOMAIN C : C[e].token \in 1..now /\ C[e].token # token
    BY <2>1 DEF TokensOfTheRegistered
  <2>3. \A k : k \in DOMAIN D' /\ D'[k] # 0 <=> \E e \in DOMAIN C' : k = C'[e].token
    <3>1. \A k : k \in DOMAIN D /\ D[k] # 0 <=> \E e \in DOMAIN C : k = C[e].token
      <4>1. \A k : k \in {j \in DOMAIN D : D[j] # 0} <=> k \in {C[e].token : e \in DOMAIN C}
        BY DEF TokensOfTheRegistered
      <4> QED BY <4>1
    <3>2. ASSUME NEW k, k # token
          PROVE  k \in DOMAIN D' /\ D'[k] # 0 <=> \E e \in DOMAIN C' : k = C'[e].token
      <4>1. k \in DOMAIN D' /\ D'[k] # 0 <=> k \in DOMAIN D /\ D[k] # 0
        BY <1>7, <3>2
      <4>2. (\E e \in DOMAIN C' : k = C'[e].token) <=> \E e \in DOMAIN C : k = C[e].token
        BY <1>6, <1>7, <3>2
      <4> QED BY <3>1, <4>1, <4>2
    <3>3. token \in DOMAIN D' /\ D'[token] # 0 /\ \E e \in DOMAIN C' : token = C'[e].token
      BY <1>3, <1>6, <1>7, DevicesArePositive
    <3> QED BY <3>2, <3>3
  <2>4. {k \in DOMAIN D' : D'[k] # 0} = {C'[e].token : e \in DOMAIN C'}
    <3> HIDE DEF C, D
    <3> QED BY <2>3
  <2>5. ASSUME NEW e \in DOMAIN C'
        PROVE  /\ D'[C'[e].token] = e /\ C'[e].token \in 1..now'
               /\ \A f \in Devices : held'[f] = C'[e].token => f = e
    <3>1. CASE e = d
      <4>1. C'[e].token = token /\ \A f \in Devices : held[f] # token
        BY <1>6, <1>7, <2>1, <3>1 DEF TokensOfTheRegistered
      <4>2. token \in 1..now'
        BY <1>2, <2>1
      <4>3. \A f \in Devices : held'[f] = token => f = d
        BY <1>2, <4>1 DEF IInv, OthersOK
      <4> QED BY <1>7, <3>1, <4>1, <4>2, <4>3
    <3>2. CASE e # d
      <4>1. e \in DOMAIN C /\ C'[e] = C[e]
        BY <1>7, <3>2
      <4>2. D'[C[e].token] = e
        BY <1>7, <2>2, <4>1, RegisteredSlots
      <4>3. C[e].token \in 1..now'
        BY <1>2, <2>1, <2>2, <4>1
      <4>4. \A f \in Devices : held'[f] = C[e].token => f = e
        <5>1. \A f \in Devices : held'[f] = held[f] \/ held'[f] = token
          BY <1>2 DEF IInv, OthersOK
        <5> QED BY <2>2, <4>1, <5>1 DEF TokensOfTheRegistered
      <4> QED BY <4>1, <4>2, <4>3, <4>4
    <3> QED BY <3>1, <3>2
  <2>6. \A e \in Devices : held'[e] <= now'
    <3>1. \A e \in Devices : held'[e] = held[e] \/ held'[e] = token
      BY <1>2 DEF IInv, OthersOK
    <3>2. \A e \in Devices : held[e] <= now
      BY DEF TokensOfTheRegistered
    <3> QED BY <1>2, <2>1, <3>1, <3>2
  <2> QED BY <2>4, <2>5, <2>6 DEF TokensOfTheRegistered
<1> QED BY <1>9, <1>10, <1>11, <1>12

LEMMA FrozenIsOrderly ==
  ASSUME OnlyOfTheConnected, UNCHANGED <<threads, clients, link, tables>>, DiesOfGoneHolders'
  PROVE  OnlyOfTheConnected'
<1>1. (SlotsInOrder /\ NoEndedConnections /\ KnownRequestorsConnected)'
  BY DEF threads, tables, OnlyOfTheConnected, SlotsInOrder, NoEndedConnections,
         KnownRequestorsConnected
<1>2. TokensOfTheRegistered'
  BY DEF clients, tables, OnlyOfTheConnected, TokensOfTheRegistered
<1> QED BY <1>1, <1>2 DEF OnlyOfTheConnected

(* A request for a content: when the token the client uses stands for a      *)
(* device, it is this connection's.                                          *)
LEMMA RequestorIsServed ==
  ASSUME OInv, NEW t \in Threads, pc[t] # "accept",
         held[link[t].device] \in DOMAIN glb_token_to_device_id,
         glb_token_to_device_id[held[link[t].device]] # 0
  PROVE  LET d == glb_token_to_device_id[held[link[t].device]]
         IN  d \in DOMAIN glb_connections /\ glb_connections[d].remote = t /\ link[t].device = d
<1> DEFINE k == held[link[t].device]
<1>1. k \in {j \in DOMAIN glb_token_to_device_id : glb_token_to_device_id[j] # 0}
  OBVIOUS
<1>2. PICK d \in DOMAIN glb_connections : glb_connections[d].token = k
  BY <1>1 DEF OInv, OnlyOfTheConnected, TokensOfTheRegistered
<1>3. glb_token_to_device_id[k] = d /\ link[t].device = d
  BY <1>2, ServedHasDevice DEF OInv, OnlyOfTheConnected, TokensOfTheRegistered
<1>4. link[glb_connections[d].remote].device = d /\ glb_connections[d].remote \in Threads /\ d # 0
  BY RegisteredSlots, DevicesArePositive
<1>5. glb_connections[d].remote = t
  BY <1>3, <1>4 DEF OInv, OnlyOfTheConnected, SlotsInOrder
<1> QED BY <1>3, <1>5

LEMMA SyncRequestIsOrderly ==
  ASSUME Orderly, OInv, fault = "none", NEW t \in Threads, NEW c \in Contents, SyncRequest(t, c)
  PROVE  OnlyOfTheConnected'
<1> DEFINE token == held[link[t].device]
           D == Lookup(glb_token_to_device_id, token)
           U == Lookup(glb_token_to_user_id, token)
           P == glb_content_id_to_connection
           node == contents[U[token]][c]
           asked == node.devices \ {D[token]}
           entry == [content |-> c, remote |-> t, device |-> D[token]]
           remote == [d \in asked \cap DOMAIN glb_connections |-> glb_connections[d].remote]
           slots  == {remote[d] : d \in DOMAIN remote}
           asking(F) == [s \in Threads |-> IF s \in slots \ F /\ IsOpen(s) /\ link[s].up
                                           THEN [link[s] EXCEPT !.asked = @ \cup {c}] ELSE link[s]]
           Goes(Q) == /\ CloseFailed(t, {}, glb_connections, accounts, D, U, P \cup Q)
                      /\ Return(t) /\ UNCHANGED <<clients, fault>>
                      /\ \A s \in Threads : link'[s].device = link[s].device
<1>1. pc[t] = "serve"
  BY DEF SyncRequest, Serving
<1>2. \/ Goes({}) \/ Goes({entry})
      \/ ~Cached(node) /\ ~(asked \subseteq DOMAIN glb_connections) /\ Crash("null")
  <2> DEFINE Here(F)    == /\ CloseFailed(t, F, glb_connections, accounts, D, U, P)
                           /\ Return(t)
                           /\ UNCHANGED <<clients, link, rx, contents, fault>>
             Onwards(F) == /\ CloseFailed(t, F, glb_connections, accounts, D, U, P \cup {entry})
                           /\ link' = asking(F)
                           /\ Return(t)
                           /\ UNCHANGED <<clients, rx, contents, fault>>
  <2>1. \/ Here({})
        \/ \E F \in FailSets({t}) : Here(F)
        \/ \E F \in FailSets(slots) : Onwards(F)
        \/ ~Cached(node) /\ ~(asked \subseteq DOMAIN glb_connections) /\ Crash("null")
        \/ \E F \in FailSets({t}) : Asserts
    BY DEF SyncRequest
  <2>2. ASSUME Here({}) PROVE Goes({})
    <3>1. P \cup {} = P
      OBVIOUS
    <3> HIDE DEF P, D, U, token
    <3> QED BY <2>2, <3>1
  <2>3. ASSUME NEW F, F = {}, Onwards(F) PROVE Goes({entry})
    <3>1. link \in [Threads -> Links]
      BY DEF OInv, IInv, ThreadsOK
    <3>2. \A s \in Threads : asking(F)[s].device = link[s].device
      <4> HIDE DEF slots
      <4> QED BY <3>1 DEF Links
    <3> HIDE DEF asking, entry, D, U, P, token
    <3> QED BY <2>3, <3>2
  <2>4. ~Asserts
    BY DEF Orderly
  <2> HIDE DEF Here, Onwards, Goes, node, asked, slots
  <2> QED BY <2>1, <2>2, <2>3, <2>4, NoSendFails
<1>3. /\ TablesOK(glb_connections, accounts, D, U, P \cup {})
      /\ TablesOK(glb_connections, accounts, D, U, P \cup {entry})
      /\ U[token] \in UserIds
  <2>1. D[token] \in DeviceIds /\ U[token] \in UserIds
    BY LookupKeepsTables DEF OInv, IInv, Tables
  <2>2. {entry} \in SUBSET [content : Contents, remote : Threads, device : DeviceIds]
    BY <2>1
  <2> QED BY <2>1, <2>2, LookupKeepsTables DEF OInv, IInv, Tables
<1>4. /\ DOMAIN glb_token_to_device_id \subseteq DOMAIN D
      /\ \A k \in DOMAIN D : IF k \in DOMAIN glb_token_to_device_id
                             THEN D[k] = glb_token_to_device_id[k] ELSE D[k] = 0
  BY DEF Lookup, Put
<1>5. JoinsInOrder(entry)
  <2>1. CASE token \in DOMAIN glb_token_to_device_id /\ D[token] # 0
    <3>1. D[token] = glb_token_to_device_id[token]
      BY <2>1, <1>4
    <3>2. /\ D[token] \in DOMAIN glb_connections /\ glb_connections[D[token]].remote = t
          /\ link[t].device = D[token]
      BY <1>1, <2>1, <3>1, RequestorIsServed
    <3> HIDE DEF D
    <3> QED BY <3>2 DEF JoinsInOrder
  <2>2. CASE token \notin DOMAIN glb_token_to_device_id
    <3>1. D[token] = 0
      BY <2>2 DEF Lookup, Put
    <3> HIDE DEF D, token
    <3> QED BY <3>1 DEF JoinsInOrder
  <2>3. CASE D[token] = 0
    <3> HIDE DEF D, token
    <3> QED BY <2>3 DEF JoinsInOrder
  <2> QED BY <2>1, <2>2, <2>3
<1>6. entry.remote = t
  OBVIOUS
<1>7. ASSUME NEW Q \in {{}, {entry}}, Goes(Q) PROVE OnlyOfTheConnected'
  <2> HIDE DEF D, U, P, token, entry
  <2>1. /\ SameRegistry
        /\ DOMAIN glb_token_to_device_id' = DOMAIN D
        /\ \A k \in DOMAIN D : glb_token_to_device_id'[k] = D[k]
        /\ glb_content_id_to_connection' = P \cup Q
        /\ sock' = sock /\ closed' = closed
    <3>1. TablesOK(glb_connections, accounts, D, U, P \cup Q) /\ ThreadsOK
      BY <1>3 DEF OInv, IInv
    <3>2. CloseFailed(t, {}, glb_connections, accounts, D, U, P \cup Q)
      BY <1>7
    <3> HIDE DEF Goes
    <3> QED BY <3>1, <3>2, NothingErased DEF SameRegistry
  <2>2. SameTokens
    BY <1>4, <2>1 DEF SameTokens
  <2>3. SameSlots
    BY <1>1, <1>7, <2>1, ReturnMoves DEF SameSlots, OInv, IInv
  <2>4. \A p \in glb_content_id_to_connection' :
          p \in glb_content_id_to_connection \/ (p.remote \in Threads /\ JoinsInOrder(p))
    <3>1. \A p \in glb_content_id_to_connection' : p \in P \/ p = entry
      BY <2>1
    <3> HIDE DEF Goes
    <3> QED BY <1>5, <1>6, <3>1 DEF P
  <2> QED BY <1>7, <2>1, <2>2, <2>3, <2>4, StaysOrderly
<1>8. ASSUME ~Cached(node), ~(asked \subseteq DOMAIN glb_connections), Crash("null")
      PROVE  OnlyOfTheConnected'
  <2>1. ~(contents[U[token]][c].devices \subseteq DOMAIN glb_connections)
    BY <1>8
  <2>2. DiesOfGoneHolders'
    <3> HIDE DEF U, token
    <3> QED BY <1>3, <1>8, <2>1 DEF DiesOfGoneHolders, Crash, tables, Cached
  <2>3. UNCHANGED <<threads, clients, link, tables, contents>>
    BY <1>8 DEF Crash
  <2> HIDE DEF U, token, node, asked
  <2>4. OnlyOfTheConnected /\ UNCHANGED <<threads, clients, link, tables>>
    BY <2>3 DEF OInv
  <2> QED BY <2>2, <2>4, FrozenIsOrderly
<1> HIDE DEF Goes, node, asked, entry
<1> QED BY <1>2, <1>7, <1>8

LEMMA UnregisteringIsOrderly ==
  ASSUME Orderly, OInv, fault = "none", NEW t \in Threads, pc[t] = "serve", Return(t),
         NEW S, NEW F \in FailSets(S), Unregistering(t, F),
         UNCHANGED <<clients, link, fault>>
  PROVE  OnlyOfTheConnected'
<1>1. /\ SameRegistry
      /\ DOMAIN glb_token_to_device_id' = DOMAIN glb_token_to_device_id
      /\ \A k \in DOMAIN glb_token_to_device_id :
           glb_token_to_device_id'[k] = glb_token_to_device_id[k]
      /\ glb_content_id_to_connection' = glb_content_id_to_connection
      /\ sock' = sock /\ closed' = closed
  <2>1. CloseFailed(t, {}, glb_connections, accounts, glb_token_to_device_id,
                    glb_token_to_user_id, glb_content_id_to_connection)
    BY NoSendFails DEF Unregistering
  <2> QED BY <2>1, NothingErased DEF SameRegistry, OInv, IInv, Tables
<1>2. SameTokens
  BY <1>1 DEF SameTokens
<1>3. SameSlots
  BY <1>1, ReturnMoves DEF SameSlots, OInv, IInv
<1> QED BY <1>1, <1>2, <1>3, StaysOrderly

LEMMA HandlersAreOrderly ==
  ASSUME Orderly, OInv, fault = "none", NEW t \in Threads, Handle(t)
  PROVE  OnlyOfTheConnected'
<1>1. CASE RefreshIndex(t)
  BY <1>1, UnregisteringIsOrderly DEF RefreshIndex, Serving
<1>2. CASE NotifyRefused(t)
  <2>1. /\ pc[t] = "serve" /\ Return(t)
        /\ UNCHANGED <<closed, sock, rx, clients, link, tables, contents, fault>>
    BY <1>2 DEF NotifyRefused, Serving
  <2>2. SameRegistry /\ SameTokens
    BY <2>1 DEF SameRegistry, SameTokens, tables
  <2>3. SameSlots
    BY <2>1, ReturnMoves DEF SameSlots, OInv, IInv
  <2> QED BY <2>1, <2>2, <2>3, StaysOrderly DEF tables
<1>3. ASSUME NEW c \in Contents, NotifyAvailable(t, c) PROVE OnlyOfTheConnected'
  <2> DEFINE user == glb_token_to_user_id[held[link[t].device]]
             self == glb_token_to_device_id[held[link[t].device]]
             peers == {accounts[user][d] : d \in DOMAIN accounts[user] \ {self}}
  <2>1. PICK F \in FailSets(peers) :
          \/ Unregistering(t, F) /\ Return(t) /\ UNCHANGED <<clients, link, rx, fault>>
          \/ \E s \in F : Found(s, glb_connections) \cap DOMAIN accounts[user] # {}
    BY <1>3 DEF NotifyAvailable
  <2>2. pc[t] = "serve" /\ F = {}
    BY <1>3, NoSendFails DEF NotifyAvailable, Serving
  <2> HIDE DEF peers, user, self
  <2> QED BY <2>1, <2>2, UnregisteringIsOrderly
<1>4. ASSUME \/ \E c \in Contents, n \in {0, 1} : SyncResponse(t, c, n)
             \/ ContentWhole(t) \/ ContentCut(t) \/ ContentReset(t) \/ ContentLate(t)
      PROVE  OnlyOfTheConnected'
  <2>1. /\ pc[t] \in {"serve", "content"}
        /\ UNCHANGED <<closed, clients, OtherTables, fault>>
        /\ \E failed : sock' = sock \/ sock' = [s \in Threads |-> IF s \in failed
                                          THEN [sock[s] EXCEPT !.err = TRUE] ELSE sock[s]]
        /\ \/ pc' = [pc EXCEPT ![t] = "content"] \/ pc' = [pc EXCEPT ![t] = "interrupted"]
           \/ Return(t)
        /\ \E c : Answered(c) \/ UNCHANGED glb_content_id_to_connection
    <3>1. ~Asserts
      BY DEF Orderly
    <3>2. ASSUME NEW c \in Contents, NEW n \in {0, 1}, SyncResponse(t, c, n)
          PROVE  /\ pc[t] = "serve" /\ UNCHANGED <<sock, closed, clients, OtherTables, fault>>
                 /\ pc' = [pc EXCEPT ![t] = "content"] \/ Return(t)
                 /\ Answered(c) \/ UNCHANGED glb_content_id_to_connection
      BY <3>2 DEF SyncResponse, Serving
    <3>3. ASSUME NEW i, NEW F, Finish(t, i, F)
          PROVE  /\ UNCHANGED <<closed, clients, OtherTables, fault>>
                 /\ sock' = [s \in Threads |-> IF s \in F THEN [sock[s] EXCEPT !.err = TRUE]
                                               ELSE sock[s]]
                 /\ pc' = [pc EXCEPT ![t] = "interrupted"] \/ Return(t)
                 /\ Answered(rx[t].content)
      BY <3>3 DEF Finish
    <3>4. ASSUME ContentWhole(t) \/ ContentCut(t) \/ ContentReset(t) \/ ContentLate(t)
          PROVE  pc[t] = "content" /\ \E i, F : Finish(t, i, F)
      BY <3>1, <3>4 DEF ContentWhole, ContentCut, ContentReset, ContentLate, Forward
    <3> QED BY <1>4, <3>2, <3>3, <3>4
  <2>2. \A s \in Threads : link'[s].device = link[s].device
    <3>1. \/ link' = link \/ link' = [link EXCEPT ![t].synced = FALSE]
          \/ \E c : link' = [link EXCEPT ![t] = Unasked(link[t], c)]
          \/ \E c : \E b \in BOOLEAN :
               link' = [link EXCEPT ![t] = [Unasked(link[t], c) EXCEPT !.synced = b]]
      <4>1. ASSUME NEW c \in Contents, NEW n \in {0, 1}, SyncResponse(t, c, n)
            PROVE  \/ link' = [link EXCEPT ![t] = Unasked(link[t], c)]
                   \/ \E b \in BOOLEAN :
                        link' = [link EXCEPT ![t] = [Unasked(link[t], c) EXCEPT !.synced = b]]
        <5>1. (n = 0) \in BOOLEAN
          OBVIOUS
        <5> QED BY <4>1, <5>1 DEF SyncResponse
      <4>2. ASSUME ContentWhole(t) \/ ContentCut(t) \/ ContentReset(t) \/ ContentLate(t)
            PROVE  link' = link \/ link' = [link EXCEPT ![t].synced = FALSE]
        <5>1. CASE ContentWhole(t) \/ ContentCut(t)
          BY <5>1 DEF ContentWhole, ContentCut, Forward, Crash
        <5>2. CASE ContentReset(t)
          BY <5>2 DEF ContentReset, Crash
        <5>3. CASE ContentLate(t)
          BY <5>3 DEF ContentLate, Crash
        <5> QED BY <4>2, <5>1, <5>2, <5>3
      <4> QED BY <1>4, <4>1, <4>2
    <3>2. link \in [Threads -> Links]
      BY DEF OInv, IInv, ThreadsOK
    <3>3. ASSUME NEW c
          PROVE  /\ Unasked(link[t], c).device = link[t].device
                 /\ \A b \in BOOLEAN :
                      [Unasked(link[t], c) EXCEPT !.synced = b].device = link[t].device
      BY <3>2, UnaskedIsTyped
    <3>4. [link[t] EXCEPT !.synced = FALSE].device = link[t].device
      BY <3>2 DEF Links
    <3>5. CASE link' = link
      BY <3>5
    <3>6. ASSUME NEW l, l.device = link[t].device, link' = [link EXCEPT ![t] = l]
          PROVE  \A s \in Threads : link'[s].device = link[s].device
      BY <3>2, <3>6
    <3>7. CASE link' = [link EXCEPT ![t].synced = FALSE]
      BY <3>4, <3>6, <3>7
    <3> QED BY <3>1, <3>3, <3>5, <3>6, <3>7
  <2>3. \A s \in Threads : sock'[s].valid = sock[s].valid
    BY <2>1 DEF OInv, IInv, ThreadsOK
  <2>4. /\ pc'[t] \in {"content", "interrupted", "recv", "failed"}
        /\ \A s \in Threads : s # t => pc'[s] = pc[s]
    BY <2>1, ReturnMoves DEF OInv, IInv, ThreadsOK
  <2>5. SameSlots
    BY <2>1, <2>2, <2>3, <2>4 DEF SameSlots
  <2>6. SameRegistry /\ SameTokens
    BY <2>1 DEF SameRegistry, SameTokens, OtherTables
  <2>7. \A p \in glb_content_id_to_connection' : p \in glb_content_id_to_connection
    BY <2>1 DEF Answered
  <2> QED BY <2>1, <2>5, <2>6, <2>7, StaysOrderly
<1> QED BY <1>1, <1>2, <1>3, <1>4, AuthenticateIsOrderly, SyncRequestIsOrderly DEF Handle

LEMMA NextOrderly == Orderly => (OInv /\ [Next]_vars => OInv')
<1> SUFFICES ASSUME Orderly, OInv, [Next]_vars PROVE OnlyOfTheConnected'
  BY NextIInv DEF OInv
<1>1. CASE UNCHANGED vars
  BY <1>1, FrozenIsOrderly DEF vars, OInv, OnlyOfTheConnected, DiesOfGoneHolders, tables
<1>2. ASSUME NEW t \in Threads, Step(t) PROVE OnlyOfTheConnected'
  <2>1. fault = "none"
    BY <1>2 DEF Step
  <2>2. ASSUME NEW d \in Devices, Accept(t, d) PROVE OnlyOfTheConnected'
    BY <2>1, <2>2, AcceptIsOrderly
  <2>3. CASE Leave(t)
    BY <2>1, <2>3, LeaveIsOrderly
  <2>4. CASE Interrupted(t) \/ Error(t)
    BY <2>1, <2>4, CloseIsOrderly DEF Interrupted, Error
  <2>5. CASE Receive(t) \/ Vanish(t)
    <3>1. SameRegistry /\ SameTokens /\ UNCHANGED <<clients, fault, glb_content_id_to_connection>>
      BY <2>5 DEF Receive, Vanish, SameRegistry, SameTokens, tables
    <3>2. SameSlots
      <4>1. CASE Receive(t)
        BY <4>1 DEF Receive, SameSlots, OInv, IInv, ThreadsOK
      <4>2. CASE Vanish(t)
        BY <4>2 DEF Vanish, SameSlots, threads, OInv, IInv, ThreadsOK, Links
      <4> QED BY <2>5, <4>1, <4>2
    <3> QED BY <2>1, <3>1, <3>2, StaysOrderly
  <2>6. CASE Handle(t)
    BY <2>1, <2>6, HandlersAreOrderly
  <2> QED BY <1>2, <2>2, <2>3, <2>4, <2>5, <2>6 DEF Step, Loop
<1> QED BY <1>1, <1>2 DEF Next

LEMMA InitOrderly == Init => OnlyOfTheConnected
<1> SUFFICES ASSUME Init PROVE OnlyOfTheConnected
  OBVIOUS
<1>1. SlotsInOrder
  BY DEF Init, SlotsInOrder, Idle, Empty
<1>2. TokensOfTheRegistered
  BY DEF Init, TokensOfTheRegistered, Empty
<1>3. NoEndedConnections /\ KnownRequestorsConnected /\ DiesOfGoneHolders
  BY DEF Init, NoEndedConnections, KnownRequestorsConnected, DiesOfGoneHolders, Empty
<1> QED BY <1>1, <1>2, <1>3 DEF OnlyOfTheConnected

(* While no send fails, no device comes twice and no two authentications     *)
(* fall in one second, and with assertions compiled out: the registry, the   *)
(* pending requests and the tokens speak only of connected clients, on_close *)
(* leaves nothing of a connection behind, and all that ends the process is a *)
(* request for a content of which a holder has gone (sync_request).          *)
THEOREM TablesAreOfTheConnected ==
  ASSUME Orderly
  PROVE  Spec => []OnlyOfTheConnected
<1>1. Init => OInv
  BY InitIInv, InitOrderly DEF OInv
<1>2. OInv /\ [Next]_vars => OInv'
  BY NextOrderly
<1>3. OInv => OnlyOfTheConnected
  BY DEF OInv
<1> QED BY <1>1, <1>2, <1>3, PTL DEF Spec
=============================================================================
