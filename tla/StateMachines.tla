---------------------------- MODULE StateMachines -----------------------------
(***************************************************************************)
(* singular_machine of ceres/state.hpp: one buffer for the object of the   *)
(* active state.  An event is offered to every state in the order they were*)
(* listed; what was active before the event is what is asked about, until  *)
(* the commit behind the last.  The constructor of a state may throw.      *)
(***************************************************************************)
EXTENDS Naturals, FiniteSets

CONSTANTS NStates,      \* states 0 .. NStates-1, of which 0 is the default
          Events,
          Transition    \* [state -> [event -> next state]], NStates for null

States == 0 .. NStates - 1
Null == NStates         \* null as a next state, nstates as an active one

VARIABLES
  curr_active, next_active,
  buffer,               \* states whose object is in the buffer
  event, i,             \* what is offered, to which state
  from,                 \* what was active when it came
  thrown,               \* a constructor has thrown
  twice,                \* an object was destroyed that was not there
  at                    \* "new", "idle", "reacting" or "gone"

vars == <<curr_active, next_active, buffer, event, i, from, thrown, twice, at>>

Init ==
  /\ curr_active = Null /\ next_active = Null /\ buffer = {}
  /\ event \in Events /\ i = 0 /\ from = Null
  /\ thrown = FALSE /\ twice = FALSE /\ at = "new"

is_active(state) == curr_active = state
Activate(state) == buffer' = buffer \cup {state} /\ next_active' = state

(* The constructor: initialize, whose recursion gives each state's own       *)
(* predecessor for the initial state, and commit.  If the default state      *)
(* throws, there is no machine.                                              *)
Construct ==
  /\ at = "new" /\ at' = "idle"
  /\ Activate(0) /\ curr_active' = 0
  /\ UNCHANGED <<event, i, from, thrown, twice>>

React(e) ==
  /\ at = "idle" /\ at' = "reacting"
  /\ event' = e /\ i' = 0 /\ from' = curr_active
  /\ UNCHANGED <<curr_active, next_active, buffer, thrown, twice>>

(* react of the reactor for one state: deactivates it and activates what     *)
(* follows, whose constructor may throw; the exception leaves react, before  *)
(* the commit.                                                               *)
ReactOne(active) ==
  /\ at = "reacting" /\ i < NStates
  /\ IF Transition[i][event] # Null /\ active = i
     THEN /\ twice' = (twice \/ i \notin buffer)
          /\ \/ /\ buffer' = (buffer \ {i}) \cup {Transition[i][event]}
                /\ next_active' = Transition[i][event]
                /\ i' = i + 1 /\ UNCHANGED <<at, thrown>>
             \/ /\ buffer' = buffer \ {i} /\ at' = "idle" /\ thrown' = TRUE
                /\ UNCHANGED <<next_active, i>>
     ELSE i' = i + 1 /\ UNCHANGED <<buffer, next_active, twice, thrown, at>>
  /\ UNCHANGED <<curr_active, event, from>>
ReactOfNext ==  \* mutant: asks about what was activated last
  ReactOne(next_active)
ReactOf == ReactOne(curr_active)

Commit ==
  /\ at = "reacting" /\ i = NStates /\ at' = "idle"
  /\ curr_active' = next_active
  /\ UNCHANGED <<next_active, buffer, event, i, from, thrown, twice>>

(* The destructor: terminate deactivates every state that is active.         *)
Terminate ==
  /\ at = "idle" /\ at' = "gone"
  /\ buffer' = buffer \ {curr_active} /\ twice' = (twice \/ curr_active \notin buffer)
  /\ UNCHANGED <<curr_active, next_active, event, i, from, thrown>>

Next == Construct \/ ReactOf \/ Commit \/ Terminate \/ \E e \in Events : React(e)

Spec == Init /\ [][Next]_vars

-----------------------------------------------------------------------------
(* Between events the buffer has the object of the active state and no       *)
(* other, each event makes at most the one step that is declared for the     *)
(* state it found, though the states behind it are asked as well, and no     *)
(* object is destroyed twice or left: unless a constructor has thrown, after *)
(* which the machine believes it is in a state whose object is gone.         *)
OneStateAtATime ==
  ~thrown =>
    /\ ~twice
    /\ at = "idle" => buffer = {curr_active} /\ next_active = curr_active
    /\ (at = "idle" /\ from # Null) =>
         curr_active = (IF Transition[from][event] = Null THEN from ELSE Transition[from][event])
    /\ at = "gone" => buffer = {}
=============================================================================
