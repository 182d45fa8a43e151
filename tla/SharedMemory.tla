---------------------------- MODULE SharedMemory ----------------------------
(***************************************************************************)
(* The transactional component of src/exercises/shared-memory/main.cpp and *)
(* the test threads that run transactions on it: read two fields, write    *)
(* the second, commit.  Writes go to the shared fields at once; a dirty    *)
(* bit marks them until commit or rollback, both of which tell every       *)
(* active transaction what changed.  get() reads fields, dirty and         *)
(* change_delta without a lock, so the sections of set, commit and         *)
(* rollback under dirty_lock are split where such a read can tell.         *)
(* fields_lock is only ever taken inside dirty_lock; active_lock guards    *)
(* single actions.                                                         *)
(***************************************************************************)
EXTENDS Naturals, FiniteSets

CONSTANTS Threads, Fields, Values

NoThread == "none"

ASSUME MemoryAssumption == 0 \in Values /\ NoThread \notin Threads

VARIABLES
  fields, dirty, dirty_lock, active,      \* the component
  inconsistent,                           \* the flag that ends the tests
  pc, read_field, readwrite_field, r,     \* a test thread and its choices
  shadow_fields,                          \* its transaction: the view,
  write_delta, read_delta, change_delta,  \* the sets of fields,
  log, write_inconsistency, seen,         \* the clean copy, the dirty set seen
  committed                               \* history: what the commits have written

component == <<fields, dirty, dirty_lock, active, inconsistent>>
choices   == <<read_field, readwrite_field, r>>
deltas    == <<write_delta, read_delta, change_delta>>
view      == <<shadow_fields, log, write_inconsistency, seen>>
vars      == <<component, pc, choices, deltas, view, committed>>

Init ==
  /\ fields = [f \in Fields |-> 0] /\ dirty = {} /\ dirty_lock = NoThread /\ active = {}
  /\ inconsistent = FALSE
  /\ pc = [t \in Threads |-> "idle"]
  /\ read_field \in [Threads -> Fields] /\ readwrite_field = read_field
  /\ r = [t \in Threads |-> 0]
  /\ shadow_fields = [t \in Threads |-> fields]
  /\ write_delta = [t \in Threads |-> {}] /\ read_delta = [t \in Threads |-> {}]
  /\ change_delta = [t \in Threads |-> {}]
  /\ log = [t \in Threads |-> 0] /\ write_inconsistency = [t \in Threads |-> FALSE]
  /\ seen = [t \in Threads |-> {}]
  /\ committed = fields

Goto(t, from, to) == pc[t] = from /\ pc' = [pc EXCEPT ![t] = to]
Lock(t)   == dirty_lock = NoThread /\ dirty_lock' = t
Unlock(t) == dirty_lock = t /\ dirty_lock' = NoThread

-----------------------------------------------------------------------------
(* The constructor.  What an ended transaction leaves in the locals is reset *)
(* at its end (see Reset).                                                   *)
Begin(t) ==
  /\ Goto(t, "idle", "get read_field") /\ ~inconsistent
  /\ \E f, g \in Fields, v \in Values :
       /\ read_field' = [read_field EXCEPT ![t] = f]
       /\ readwrite_field' = [readwrite_field EXCEPT ![t] = g]
       /\ r' = [r EXCEPT ![t] = v]
  /\ shadow_fields' = [shadow_fields EXCEPT ![t] = fields]
  /\ active' = active \cup {t}
  /\ UNCHANGED <<fields, dirty, dirty_lock, inconsistent, deltas, log, write_inconsistency, seen,
                 committed>>

(* get: read the field into the view, then check() without a lock            *)
Get(t) ==
  /\ Goto(t, "get read_field", "load read_field")
     \/ Goto(t, "get readwrite_field", "load readwrite_field")
  /\ LET f == IF pc[t] = "get read_field" THEN read_field[t] ELSE readwrite_field[t]
     IN  /\ shadow_fields' = [shadow_fields EXCEPT ![t][f] = fields[f]]
         /\ read_delta' = [read_delta EXCEPT ![t] = @ \cup {f}]
  /\ UNCHANGED <<component, choices, write_delta, change_delta, log, write_inconsistency, seen,
                 committed>>

LoadDirty(t) ==
  /\ Goto(t, "load read_field", "check read_field")
     \/ Goto(t, "load readwrite_field", "check readwrite_field")
  /\ seen' = [seen EXCEPT ![t] = dirty]
  /\ UNCHANGED <<component, choices, deltas, shadow_fields, log, write_inconsistency, committed>>

(* check (b), with d the dirty bits it has loaded; ^ is symmetric difference *)
ConflictsUnread(t, d, b) ==  \* mutant: the fields about to be written are not checked
  \/ change_delta[t] \cap (read_delta[t] \cup write_delta[t]) # {}
  \/ ((d \ write_delta[t]) \cup (write_delta[t] \ d)) \cap (read_delta[t] \ b) # {}
Conflicts(t, d, b) ==
  \/ change_delta[t] \cap (read_delta[t] \cup write_delta[t]) # {}
  \/ ((d \ write_delta[t]) \cup (write_delta[t] \ d)) \cap (read_delta[t] \cup b) # {}

Check(t) ==
  /\ \/ Goto(t, "check read_field",
             IF Conflicts(t, seen[t], {}) THEN "rollback" ELSE "get readwrite_field")
     \/ Goto(t, "check readwrite_field",
             IF Conflicts(t, seen[t], {}) THEN "rollback" ELSE "set")
  /\ UNCHANGED <<component, choices, deltas, view, committed>>

Consistent(t, f) ==
  f \in read_delta[t] \cup write_delta[t] => fields[f] = shadow_fields[t][f]

(* set: check under dirty_lock, log the clean copy, write, mark dirty        *)
Set(t) ==
  LET f == readwrite_field[t]
  IN  /\ Lock(t)
      /\ IF Conflicts(t, dirty, {f})
         THEN Goto(t, "set", "restore") /\ UNCHANGED <<write_delta, log, write_inconsistency>>
         ELSE /\ Goto(t, "set", "write")
              /\ write_inconsistency' = [write_inconsistency EXCEPT ![t] = @ \/ ~Consistent(t, f)]
              /\ write_delta' = [write_delta EXCEPT ![t] = @ \cup {f}]
              /\ log' = [log EXCEPT ![t] = fields[f]]
      /\ UNCHANGED <<fields, dirty, active, inconsistent, choices, read_delta, change_delta,
                     shadow_fields, seen, committed>>

Write(t) ==
  /\ Goto(t, "write", "dirty_field")
  /\ fields' = [fields EXCEPT ![readwrite_field[t]] = r[t]]
  /\ shadow_fields' = [shadow_fields EXCEPT ![t][readwrite_field[t]] = r[t]]
  /\ UNCHANGED <<dirty, dirty_lock, active, inconsistent, choices, deltas, log,
                 write_inconsistency, seen, committed>>

DirtyField(t) ==
  /\ Goto(t, "dirty_field", "commit") /\ Unlock(t)
  /\ dirty' = dirty \cup {readwrite_field[t]}
  /\ UNCHANGED <<fields, active, inconsistent, choices, deltas, view, committed>>

(* commit: check and verify the view under dirty_lock, tell the others, and  *)
(* make the written fields clean                                             *)
Commit(t) ==
  LET verified == (\A f \in Fields : Consistent(t, f)) /\ ~write_inconsistency[t]
  IN  /\ dirty_lock = NoThread
      /\ \/ /\ Conflicts(t, dirty, {}) /\ Lock(t) /\ Goto(t, "commit", "restore")
            /\ UNCHANGED inconsistent
         \/ /\ ~Conflicts(t, dirty, {}) /\ verified /\ Lock(t) /\ Goto(t, "commit", "notify")
            /\ UNCHANGED inconsistent
         \/ /\ ~Conflicts(t, dirty, {}) /\ ~verified /\ Goto(t, "commit", "end")
            /\ inconsistent' = TRUE /\ UNCHANGED dirty_lock
      /\ UNCHANGED <<fields, dirty, active, choices, deltas, view, committed>>

(* notify_change *)
NotifyNobody(t) ==  \* mutant: the active transactions are not told
  /\ Goto(t, "notify", "clean") \/ Goto(t, "rollback notify", "rollback clean")
  /\ UNCHANGED <<component, choices, deltas, view, committed>>
Notify(t) ==
  /\ Goto(t, "notify", "clean") \/ Goto(t, "rollback notify", "rollback clean")
  /\ change_delta' = [u \in Threads |-> IF u \in active THEN change_delta[u] \cup write_delta[t]
                                                       ELSE change_delta[u]]
  /\ UNCHANGED <<component, choices, write_delta, read_delta, view, committed>>

Clean(t) ==
  /\ Goto(t, "clean", "end") /\ Unlock(t)
  /\ dirty' = dirty \ write_delta[t]
  /\ committed' = [f \in Fields |-> IF f \in write_delta[t] THEN fields[f] ELSE committed[f]]
  /\ write_delta' = [write_delta EXCEPT ![t] = {}]
  /\ UNCHANGED <<fields, active, inconsistent, choices, read_delta, change_delta, view>>

-----------------------------------------------------------------------------
(* rollback, from check() (which may already hold the recursive dirty_lock)  *)
(* or from the destructor: write_delta and the log outlive it                *)
Rollback(t) ==
  /\ Goto(t, "rollback", "restore") /\ Lock(t)
  /\ UNCHANGED <<fields, dirty, active, inconsistent, choices, deltas, view, committed>>

Restore(t) ==
  /\ Goto(t, "restore", "rollback notify")
  /\ fields' = [f \in Fields |-> IF f \in write_delta[t] THEN log[t] ELSE fields[f]]
  /\ UNCHANGED <<dirty, dirty_lock, active, inconsistent, choices, deltas, view, committed>>

(* the end of the iteration: t is out of scope *)
Reset(t) ==
  /\ write_delta' = [write_delta EXCEPT ![t] = {}]
  /\ read_delta' = [read_delta EXCEPT ![t] = {}]
  /\ change_delta' = [change_delta EXCEPT ![t] = {}]
  /\ write_inconsistency' = [write_inconsistency EXCEPT ![t] = FALSE]
  /\ seen' = [seen EXCEPT ![t] = {}]
  /\ log' = [log EXCEPT ![t] = 0]

RollbackClean(t) ==
  /\ Goto(t, "rollback clean", IF t \in active THEN "end" ELSE "idle") /\ Unlock(t)
  /\ dirty' = dirty \ write_delta[t]
  /\ IF t \in active THEN UNCHANGED <<deltas, log, write_inconsistency, seen>> ELSE Reset(t)
  /\ UNCHANGED <<fields, active, inconsistent, choices, shadow_fields, committed>>

(* the destructor: leave the active list, roll back if write_delta says so   *)
End(t) ==
  /\ Goto(t, "end", IF write_delta[t] # {} THEN "rollback" ELSE "idle")
  /\ active' = active \ {t}
  /\ IF write_delta[t] # {} THEN UNCHANGED <<deltas, log, write_inconsistency, seen>> ELSE Reset(t)
  /\ UNCHANGED <<fields, dirty, dirty_lock, inconsistent, choices, shadow_fields, committed>>

Step(t) ==
  \/ Begin(t) \/ Get(t) \/ LoadDirty(t) \/ Check(t) \/ Set(t) \/ Write(t) \/ DirtyField(t)
  \/ Commit(t) \/ Notify(t) \/ Clean(t) \/ Rollback(t) \/ Restore(t) \/ RollbackClean(t) \/ End(t)

Next == \E t \in Threads : Step(t)

Spec == Init /\ [][Next]_vars
-----------------------------------------------------------------------------
Locked  == {"write", "dirty_field", "notify", "clean", "restore", "rollback notify",
            "rollback clean"}
Running == {"load read_field", "check read_field", "get readwrite_field", "load readwrite_field",
            "check readwrite_field", "set", "write", "dirty_field", "commit", "notify", "clean"}
Labels  == Locked \cup Running \cup {"idle", "get read_field", "rollback", "end"}

(* Every variable holds values of its type, and dirty_lock is held by the    *)
(* one thread that is inside a section it guards.                            *)
TypeOK ==
  /\ fields \in [Fields -> Values] /\ dirty \subseteq Fields
  /\ dirty_lock \in Threads \cup {NoThread}
  /\ active \subseteq Threads /\ inconsistent \in BOOLEAN
  /\ pc \in [Threads -> Labels]
  /\ read_field \in [Threads -> Fields] /\ readwrite_field \in [Threads -> Fields]
  /\ r \in [Threads -> Values] /\ log \in [Threads -> Values]
  /\ shadow_fields \in [Threads -> [Fields -> Values]]
  /\ {write_delta, read_delta, change_delta, seen} \subseteq [Threads -> SUBSET Fields]
  /\ write_inconsistency \in [Threads -> BOOLEAN]
  /\ committed \in [Fields -> Values]
  /\ \A t \in Threads : pc[t] \in Locked <=> dirty_lock = t

(* The test the program runs for ever: no transaction that passes its checks *)
(* finds a field it has read or written changed behind its back.             *)
NeverInconsistent == ~inconsistent

(* A transaction writes one field: what it tells the others and what it rolls *)
(* back is that field, from set to the end; and it never writes a field that *)
(* has changed since it was read.                                            *)
Unread    == {"idle", "get read_field"}
Unwritten == Unread \cup {"load read_field", "check read_field", "get readwrite_field",
                          "load readwrite_field", "check readwrite_field", "set"}
Written   == {"write", "dirty_field", "commit", "notify", "clean"}
InOrder(t) ==
  /\ pc[t] \in Running \cup {"get read_field"} => t \in active
  /\ pc[t] \in Unread => read_delta[t] = {}
  /\ pc[t] \in Unwritten => write_delta[t] = {}
  /\ pc[t] \in Written => write_delta[t] = {readwrite_field[t]}
  /\ pc[t] \in {"dirty_field", "commit"} => shadow_fields[t][readwrite_field[t]] = r[t]
  /\ pc[t] = "dirty_field" => fields[readwrite_field[t]] = r[t]
  /\ ~write_inconsistency[t]
TransactionsInOrder == \A t \in Threads : InOrder(t)

(* Why it holds.  Who holds dirty_lock changes what he has written or rolls  *)
(* back, until he has told the others; then he makes it clean.               *)
Changing == {"write", "dirty_field", "notify", "restore", "rollback notify"}
Cleaning == {"clean", "rollback clean"}

(* A field a running transaction has read still has the value it saw, or its *)
(* change has been announced to it, or is marked dirty for its next check    *)
(* and will be announced before it is cleaned, or is being made right now.   *)
ReadIsWatched(t, f) ==
  \/ fields[f] = shadow_fields[t][f]
  \/ f \in change_delta[t]
  \/ f \in dirty /\ \A u \in Threads : pc[u] \in Cleaning => f \notin write_delta[u]
  \/ \E u \in Threads : pc[u] \in Changing /\ f \in write_delta[u]
ReadsAreWatched ==
  \A t \in Threads : pc[t] \in Running =>
    \A f \in read_delta[t] \ write_delta[t] : ReadIsWatched(t, f)

(* A transaction's write is still in place and marked, unless it has been    *)
(* told, or is about to be by one that rolls the field back; and no other    *)
(* goes on with a write to the same field.                                   *)
WriteIsWatched(t, f) ==
  /\ \/ f \in dirty /\ fields[f] = r[t]
     \/ \E u \in Threads \ {t} : pc[u] \in {"restore", "rollback notify"} /\ f \in write_delta[u]
  /\ \A u \in Threads \ {t} : f \in write_delta[u] =>
       /\ pc[u] = "commit" => f \in change_delta[u]
       /\ pc[u] \notin {"write", "dirty_field", "notify"} \cup Cleaning
WritesAreWatched ==
  \A t \in Threads : pc[t] = "commit" =>
    \A f \in write_delta[t] \ change_delta[t] : WriteIsWatched(t, f)

(* ~component_transaction: "uncommitted writes" are what is rolled back: a   *)
(* field nobody has marked dirty, while nobody is inside dirty_lock, holds   *)
(* what was committed last.                                                  *)
CleanFieldsCommitted ==
  dirty_lock = NoThread => \A f \in Fields \ dirty : fields[f] = committed[f]

(* What a running transaction has touched is watched until it is announced.  *)
TouchedIsWatched == TypeOK /\ TransactionsInOrder /\ ReadsAreWatched /\ WritesAreWatched
=============================================================================
