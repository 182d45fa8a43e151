---------------------------- MODULE SmartPointers ----------------------------
(***************************************************************************)
(* smart_ptr of smartptr.cpp: a counted pointer.  release() counts down and*)
(* lets go of the control block only if it was the last, so that the       *)
(* destructor of a pointer that has been released counts down again.       *)
(*                                                                         *)
(* MyUniquePtr and unique_ptr of the course: the only pointer to an object.*)
(* unique_ptr moves by swapping, in its constructor with a pointer that was*)
(* never set.  A program uses one of the three classes.                    *)
(***************************************************************************)
EXTENDS Integers, FiniteSets

CONSTANTS Pointers, Objects

None == 0
Unset == -1   \* a pointer with no initial value
Gone == -2    \* of a unique pointer that does not exist

VARIABLES
  mutexes,         \* whether the MutexThreadPolicy is given; else nothing is locked
  ptr_, ctrl_,     \* of each pointer; a control block has the name of its object
  held,            \* pointers that exist
  count,           \* of each control block
  there, deleted,  \* control blocks that exist, objects that were deleted
  released,        \* release() was called by the program
  at,              \* "running", "undefined" or "locked"
  class,           \* "smart_ptr", "MyUniquePtr" or "unique_ptr"
  s                \* the unique pointers: ptr, the objects alive, those that no pointer owns

countedVars == <<mutexes, ptr_, ctrl_, held, count, there, deleted, released, at>>
vars == <<countedVars, class, s>>

Start ==
  [ptr |-> [p \in Pointers |-> Gone], alive |-> {}, loose |-> {}, undefined |-> FALSE]

Init ==
  /\ class \in {"smart_ptr", "MyUniquePtr", "unique_ptr"} /\ s = Start
  /\ ptr_ = [p \in Pointers |-> None] /\ ctrl_ = ptr_
  /\ mutexes \in (IF class = "smart_ptr" THEN BOOLEAN ELSE {FALSE})
  /\ held = {} /\ there = {} /\ deleted = {}
  /\ count = [o \in Objects |-> 0] /\ released = FALSE /\ at = "running"

Runs == at = "running"
Stops(where) == at' = where /\ UNCHANGED <<ptr_, ctrl_, held, count, there, deleted, released>>

(* smart_ptr(Type *, ...)                                                    *)
Construct(p, o) ==
  /\ Runs /\ p \notin held /\ o \notin there \cup deleted
  /\ held' = held \cup {p} /\ there' = there \cup {o}
  /\ ptr_' = [ptr_ EXCEPT ![p] = o] /\ ctrl_' = [ctrl_ EXCEPT ![p] = o]
  /\ count' = [count EXCEPT ![o] = 1]
  /\ UNCHANGED <<deleted, released, at>>

(* smart_ptr(const smart_ptr &): what it copies from must have a control     *)
(* block, and one that is still there.                                       *)
CopyUncounted(p, that) ==  \* mutant: the copy is not counted
  /\ Runs /\ p \notin held /\ that \in held /\ ctrl_[that] \in there
  /\ held' = held \cup {p}
  /\ ptr_' = [ptr_ EXCEPT ![p] = ptr_[that]] /\ ctrl_' = [ctrl_ EXCEPT ![p] = ctrl_[that]]
  /\ UNCHANGED <<count, there, deleted, released, at>>
Copy(p, that) ==
  /\ Runs /\ p \notin held /\ that \in held
  /\ IF ctrl_[that] \notin there THEN Stops("undefined")
     ELSE /\ held' = held \cup {p}
          /\ ptr_' = [ptr_ EXCEPT ![p] = ptr_[that]]
          /\ ctrl_' = [ctrl_ EXCEPT ![p] = ctrl_[that]]
          /\ count' = [count EXCEPT ![ctrl_[that]] = @ + 1]
          /\ UNCHANGED <<there, deleted, released, at>>

(* release(): the last one deletes the control block, with the mutex it      *)
(* holds, and the object.                                                    *)
LastOf(p) == count[ctrl_[p]] = 1
Released(p) ==
  IF LastOf(p)
  THEN /\ there' = there \ {ctrl_[p]} /\ deleted' = deleted \cup {ptr_[p]}
       /\ count' = [count EXCEPT ![ctrl_[p]] = 0]
       /\ ctrl_' = [ctrl_ EXCEPT ![p] = None] /\ ptr_' = [ptr_ EXCEPT ![p] = None]
  ELSE /\ count' = [count EXCEPT ![ctrl_[p]] = @ - 1]
       /\ UNCHANGED <<there, deleted, ctrl_, ptr_>>
CanRelease(p) == ctrl_[p] \in there /\ (mutexes => ~LastOf(p))
Release(p) ==
  /\ Runs /\ p \in held
  /\ \/ ctrl_[p] = None /\ UNCHANGED <<there, deleted, count, ctrl_, ptr_, at>>
     \/ ctrl_[p] # None /\ CanRelease(p) /\ Released(p) /\ UNCHANGED at
     \/ ctrl_[p] # None /\ ~CanRelease(p) /\ at' = "undefined"
        /\ UNCHANGED <<there, deleted, count, ctrl_, ptr_>>
  /\ released' = TRUE /\ UNCHANGED held

(* ~smart_ptr                                                                *)
Destroy(p) ==
  /\ Runs /\ p \in held /\ held' = held \ {p}
  /\ \/ ctrl_[p] = None /\ UNCHANGED <<there, deleted, count, ctrl_, ptr_, at>>
     \/ ctrl_[p] # None /\ CanRelease(p) /\ Released(p) /\ UNCHANGED at
     \/ ctrl_[p] # None /\ ~CanRelease(p) /\ at' = "undefined"
        /\ UNCHANGED <<there, deleted, count, ctrl_, ptr_>>
  /\ UNCHANGED released

(* operator=: locks what it is given, then what it has, the same mutex if    *)
(* they share it.  Assigned to itself, the last one is left with nothing to  *)
(* copy from.                                                                *)
Assign(p, that) ==
  /\ Runs /\ p \in held /\ that \in held
  /\ IF ctrl_[that] \notin there THEN Stops("undefined")
     ELSE IF mutexes /\ ctrl_[p] = ctrl_[that] THEN Stops("locked")
     ELSE IF ctrl_[p] # None /\ ~CanRelease(p) THEN Stops("undefined")
     ELSE IF p = that /\ LastOf(p) THEN Stops("undefined")
     ELSE LET o == ctrl_[that]
              last == ctrl_[p] # None /\ LastOf(p)
          IN  /\ there' = IF last THEN there \ {ctrl_[p]} ELSE there
              /\ deleted' = IF last THEN deleted \cup {ptr_[p]} ELSE deleted
              /\ ptr_' = [ptr_ EXCEPT ![p] = ptr_[that]] /\ ctrl_' = [ctrl_ EXCEPT ![p] = o]
              /\ count' = [q \in Objects |-> count[q] + (IF q = o THEN 1 ELSE 0)
                                                - (IF q = ctrl_[p] THEN 1 ELSE 0)]
              /\ UNCHANGED <<held, released, at>>

-----------------------------------------------------------------------------
(* What the operations of a unique pointer make of the state u.  Deleting    *)
(* what is not there, or what a pointer that was never set holds, is         *)
(* undefined.                                                                *)
Deleted(u, o) ==
  IF o = None THEN u
  ELSE IF o \notin u.alive THEN [u EXCEPT !.undefined = TRUE] ELSE [u EXCEPT !.alive = @ \ {o}]
New(u, o) == [u EXCEPT !.alive = @ \cup {o}, !.loose = @ \cup {o}]
Made(u, p, o) == [u EXCEPT !.ptr[p] = o, !.loose = @ \ {o}]
LetGo(u, p) == [u EXCEPT !.ptr[p] = None, !.loose = @ \cup ({u.ptr[p]} \cap Objects)]
Reset(u, p, o) == Made(Deleted(u, u.ptr[p]), p, o)
Destroyed(u, p) == [Deleted(u, u.ptr[p]) EXCEPT !.ptr[p] = Gone]

MovedFrom(u, p, that) == [u EXCEPT !.ptr[p] = u.ptr[that], !.ptr[that] = None]
SwappedFrom(u, p, that) == [u EXCEPT !.ptr[p] = u.ptr[that], !.ptr[that] = Unset]
Moved(u, p, that) ==
  IF class = "MyUniquePtr" THEN MovedFrom(u, p, that) ELSE SwappedFrom(u, p, that)

AssignedLeaking(u, p, that) ==  \* mutant: what the pointer had is not deleted
  IF p = that THEN u ELSE [u EXCEPT !.ptr[p] = u.ptr[that], !.ptr[that] = None]
AssignedReset(u, p, that) ==
  IF p = that THEN u ELSE [Reset(u, p, u.ptr[that]) EXCEPT !.ptr[that] = None]
AssignedSwap(u, p, that) == [u EXCEPT !.ptr[p] = u.ptr[that], !.ptr[that] = u.ptr[p]]
Assigned(u, p, that) ==
  IF class = "MyUniquePtr" THEN AssignedReset(u, p, that) ELSE AssignedSwap(u, p, that)

(* The program gives each object to one pointer, and deletes what it took    *)
(* back.  Pointers cannot be copied.                                         *)
UniqueNext ==
  /\ class # "smart_ptr" /\ ~s.undefined
  /\ \/ \E o \in Objects \ s.alive : s' = New(s, o)
     \/ \E o \in s.loose : s' = [Deleted(s, o) EXCEPT !.loose = @ \ {o}]
     \/ \E p \in Pointers, o \in s.loose \cup {None} :
          \/ s.ptr[p] = Gone /\ s' = Made(s, p, o)
          \/ s.ptr[p] # Gone /\ s' = Reset(s, p, o)
     \/ \E p \in Pointers : s.ptr[p] # Gone /\ (s' = LetGo(s, p) \/ s' = Destroyed(s, p))
     \/ \E p, that \in Pointers :
          /\ s.ptr[that] # Gone
          /\ \/ s.ptr[p] = Gone /\ s' = Moved(s, p, that)
             \/ s.ptr[p] # Gone /\ s' = Assigned(s, p, that)

(* What the tests of the unique pointer assert, of which each step is what   *)
(* the pointer makes of the state before it: when it is empty, who owns a    *)
(* value that was moved or released, and when it is destroyed.               *)
OneAndNone(p, q, o) == Made(Made(New(Start, o), p, o), q, None)
EmptinessTests(p, q, o) ==
  /\ Made(Start, p, None).ptr[p] = None
  /\ Made(New(Start, o), p, o).ptr[p] # None
  /\ Moved(Made(Start, p, None), q, p).ptr[q] = None
  /\ Moved(Made(New(Start, o), p, o), q, p).ptr[q] # None
  /\ Assigned(Made(Made(Start, p, None), q, None), q, p).ptr[q] = None
  /\ Assigned(OneAndNone(p, q, o), q, p).ptr
       = [OneAndNone(p, q, o).ptr EXCEPT ![q] = o, ![p] = None]
OwnershipTests(p, q, o) ==
  /\ OneAndNone(p, q, o).ptr[p] = o
  /\ LetGo(OneAndNone(p, q, o), p).ptr[p] = None
  /\ LetGo(OneAndNone(p, q, o), p).loose = {o}
ScopeTests(p, q, o, other) ==
  /\ o \notin Destroyed(OneAndNone(p, q, o), p).alive
  /\ o \notin Reset(OneAndNone(p, q, o), p, None).alive
  /\ Assigned(Made(Made(New(New(Start, o), other), p, o), q, other), p, q).alive = {other}

-----------------------------------------------------------------------------
CountedNext ==
  /\ class = "smart_ptr"
  /\ \E p \in Pointers :
       \/ Release(p) \/ Destroy(p)
       \/ \E o \in Objects : Construct(p, o)
       \/ \E that \in Pointers : Copy(p, that) \/ Assign(p, that)
  /\ UNCHANGED mutexes

Next ==
  /\ UNCHANGED class
  /\ \/ CountedNext /\ UNCHANGED s
     \/ UniqueNext /\ UNCHANGED countedVars

Spec == Init /\ [][Next]_vars

-----------------------------------------------------------------------------
(* An object is deleted with the last pointer to it and not before, through  *)
(* any copies and assignments that do not stop the program, as long as       *)
(* nobody calls release(): the destructor counts again for that pointer.     *)
DeletedWithTheLast ==
  (Runs /\ ~released) =>
    \A o \in there \cup deleted :
      /\ count[o] = Cardinality({p \in held : ctrl_[p] = o})
      /\ (o \in deleted) <=> (\A p \in held : ptr_[p] # o)

(* An object that is alive has one owner, a pointer or whoever released it,  *)
(* and no pointer owns one that is not, however they are moved, assigned and *)
(* reset: but that of MyUniquePtr keeps nothing of what it was moved from,   *)
(* while what a unique_ptr was made from by a move holds anything.           *)
OwnersOf(o) == {p \in Pointers : s.ptr[p] = o}
OwnedOnce ==
  ~s.undefined =>
    /\ \A o \in Objects :
         Cardinality(OwnersOf(o)) + (IF o \in s.loose THEN 1 ELSE 0)
           = IF o \in s.alive THEN 1 ELSE 0
    /\ class = "MyUniquePtr" =>
         /\ OwnersOf(Unset) = {}
         /\ \A p, q \in Pointers, o, other \in Objects :
              p # q /\ o # other =>
                EmptinessTests(p, q, o) /\ OwnershipTests(p, q, o) /\ ScopeTests(p, q, o, other)
NothingUndefined == class = "MyUniquePtr" => ~s.undefined
=============================================================================
