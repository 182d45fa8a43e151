---------------------------- MODULE ActorFibers ------------------------------
(***************************************************************************)
(* Actor, Fiber and Continuation of rpc2.cpp.  The thread of an actor runs *)
(* a work with the mutex held that post locks; a fiber goes from one work  *)
(* to the next by posting a continuation to the actor that hosts it.  A    *)
(* continuation is a value: it can be copied, kept, and used again by any  *)
(* thread.  Who starts a fiber is taken to have set its callbacks and to   *)
(* add no works to it after that, and pools to keep their actors.          *)
(***************************************************************************)
EXTENDS Naturals, Sequences

CONSTANTS Actors, Fibers,
          HostOf,      \* fiber -> the actor that created it
          Works,       \* bound on the works of a fiber
          MaxPosts     \* bound on how often is posted

Nobody == "nobody"
Client == "client"                   \* a thread that is no actor's
Steps == {"next", "terminate"}       \* quit and fail terminate; their callbacks are alike

VARIABLES
  mutex,         \* actor -> who holds its mutex
  work_list,     \* actor -> what is posted: [fiber, step, by], by whose thread
  waits,         \* actor -> the calls its thread is about to post, and waits for a mutex with
  fibers,        \* actor -> the fibers it keeps alive
  works,         \* fiber -> how many works its work_list has
  next_work_id, dispose,
  started,       \* the fibers whose continuation has been given out
  posts          \* how often has been posted

vars == <<mutex, work_list, waits, fibers, works, next_work_id, dispose, started, posts>>

Init ==
  /\ mutex = [a \in Actors |-> Nobody] /\ work_list = [a \in Actors |-> <<>>]
  /\ waits = [a \in Actors |-> {}] /\ fibers = [a \in Actors |-> {}]
  /\ works = [f \in Fibers |-> 0] /\ next_work_id = [f \in Fibers |-> 0]
  /\ dispose = {} /\ started = {} /\ posts = 0

(* Actor::create_fiber, Fiber::then and Fiber::start.  create_fiber takes no *)
(* lock; it is taken not to run while the actor's thread erases a fiber.     *)
CreateFiber(f) ==
  /\ f \notin fibers[HostOf[f]] /\ f \notin started
  /\ fibers' = [fibers EXCEPT ![HostOf[f]] = @ \cup {f}]
  /\ UNCHANGED <<mutex, work_list, waits, works, next_work_id, dispose, started, posts>>
Then(f) ==
  /\ f \in fibers[HostOf[f]] \ started /\ works[f] < Works
  /\ works' = [works EXCEPT ![f] = @ + 1]
  /\ UNCHANGED <<mutex, work_list, waits, fibers, next_work_id, dispose, started, posts>>
Start(f) ==
  /\ f \in fibers[HostOf[f]] \ started
  /\ started' = started \cup {f}
  /\ UNCHANGED <<mutex, work_list, waits, fibers, works, next_work_id, dispose, posts>>

(* Actor::post *)
Post(a, f, step, by) ==
  /\ mutex[a] = Nobody /\ posts < MaxPosts /\ posts' = posts + 1
  /\ work_list' = [work_list EXCEPT ![a] = Append(@, [fiber |-> f, step |-> step, by |-> by])]

(* Continuation::next, quit or fail, by a thread that is no actor's *)
Call(f, step) ==
  /\ f \in started /\ Post(HostOf[f], f, step, Client)
  /\ UNCHANGED <<mutex, waits, fibers, works, next_work_id, dispose, started>>

(* Actor::run_once locks the mutex and runs the first work in place:         *)
(* Continuation::run_once_here, or the callback of terminate_here.           *)
RunOnce(a) ==
  /\ mutex[a] = Nobody /\ work_list[a] # <<>>
  /\ mutex' = [mutex EXCEPT ![a] = a]
  /\ LET f == Head(work_list[a]).fiber
     IN  IF Head(work_list[a]).step = "terminate" THEN UNCHANGED <<next_work_id, dispose>>
         ELSE /\ next_work_id' = [next_work_id EXCEPT ![f] = @ + 1]
              /\ dispose' = IF next_work_id[f] < works[f] THEN dispose ELSE dispose \cup {f}
  /\ UNCHANGED <<work_list, waits, fibers, works, started, posts>>

(* The work or the callback calls next, quit or fail of a continuation that  *)
(* it was given or has come by.                                              *)
WorkCalls(a, f, step) ==
  /\ mutex[a] = a /\ waits[a] = {} /\ f \in started
  /\ LET w == Head(work_list[a]) IN w.step = "terminate" \/ w.fiber \notin dispose
  /\ waits' = [waits EXCEPT ![a] = {<<f, step>>}]
  /\ UNCHANGED <<mutex, work_list, fibers, works, next_work_id, dispose, started, posts>>

PostsRecursively(a, f, step) ==  \* mutant: a mutex that its holder may lock again
  LET h == HostOf[f]
  IN  /\ <<f, step>> \in waits[a]
      /\ mutex[h] \in {Nobody, a} /\ posts < MaxPosts /\ posts' = posts + 1
      /\ work_list' =
           [work_list EXCEPT ![h] = Append(@, [fiber |-> f, step |-> step, by |-> a])]
      /\ waits' = [waits EXCEPT ![a] = {}]
      /\ UNCHANGED <<mutex, fibers, works, next_work_id, dispose, started>>

(* It has found the mutex of the host free.                                  *)
WorkPosts(a, f, step) ==
  /\ <<f, step>> \in waits[a] /\ Post(HostOf[f], f, step, a)
  /\ waits' = [waits EXCEPT ![a] = {}]
  /\ UNCHANGED <<mutex, fibers, works, next_work_id, dispose, started>>

(* The work returns; after its callback terminate_here erases the fiber.     *)
Return(a) ==
  /\ mutex[a] = a /\ waits[a] = {}
  /\ LET w == Head(work_list[a])
     IN  fibers' = IF w.step = "next" THEN fibers ELSE [fibers EXCEPT ![a] = @ \ {w.fiber}]
  /\ work_list' = [work_list EXCEPT ![a] = Tail(@)]
  /\ mutex' = [mutex EXCEPT ![a] = Nobody]
  /\ UNCHANGED <<waits, works, next_work_id, dispose, started, posts>>

Next ==
  \/ \E f \in Fibers : CreateFiber(f) \/ Then(f) \/ Start(f) \/ \E s \in Steps : Call(f, s)
  \/ \E a \in Actors :
       \/ RunOnce(a) \/ Return(a)
       \/ \E f \in Fibers, s \in Steps : WorkCalls(a, f, s) \/ WorkPosts(a, f, s)

Spec == Init /\ [][Next]_vars

-----------------------------------------------------------------------------
(* Whatever continues a fiber was posted by another thread than the one that *)
(* runs its works, which waits while its mutex is held; works are run one    *)
(* after the other, and the fiber is disposed of once there is none left.    *)
ContinuedByOthers ==
  /\ \A a \in Actors : \A i \in DOMAIN work_list[a] :
       HostOf[work_list[a][i].fiber] = a /\ work_list[a][i].by # a
  /\ \A a \in Actors : waits[a] # {} => mutex[a] = a /\ work_list[a] # <<>>
  /\ \A f \in Fibers : f \in dispose <=> next_work_id[f] > works[f]

(* The actors whose threads wait for each other's mutexes, or their own.     *)
Stuck ==
  UNION {S \in SUBSET Actors :
           \A a \in S : \E c \in waits[a] : HostOf[c[1]] \in S}

(* They stay stuck, whatever the others do: none of their fibers goes on or  *)
(* is let go, and nothing more is posted to them.                            *)
StuckForGood ==
  [][\A a \in Stuck :
       /\ a \in Stuck'
       /\ work_list'[a] = work_list[a] /\ fibers[a] \subseteq fibers'[a]
       /\ \A f \in Fibers : HostOf[f] = a => next_work_id'[f] = next_work_id[f]]_vars
=============================================================================
