----------------------------- MODULE MCCallbacks -----------------------------
(***************************************************************************)
(* The clip server with orderly clients and, side by side with it, what    *)
(* the repository has of callbacks: functions that own a target, signals,  *)
(* delegates and properties, coroutines and fibers.  They share no state:  *)
(* a behaviour plays one part, which the initial state chooses, while the  *)
(* variables of the others stay as they are, so that TLC explores the sum  *)
(* of the state spaces.                                                    *)
(***************************************************************************)
EXTENDS ClipServer, TLC

CONSTANTS
  Functions, MaxTargets,                            \* of functions that own a target
  SignalObjects, SlotObjects, Handles, MaxHandlers, \* of the signals of core
  Managers, Extends, Connections, Messages, MaxEmitters,  \* of the signal library
  Holders,                                          \* variables, of both signal libraries
  Functors, MaxDelegates,                           \* of delegates
  Objects, Wanted, NoWish, MaxObservers,            \* of a property
  Calls,                                            \* of coroutines
  Actors, Fibers, HostOf, Works, MaxPosts           \* of fibers

VARIABLES
  part,
  fn_sig, fn_fn, fn_heap, fn_overwritten, fn_undefined,
  sg_handlers, sg_whenhandles, sg_oncehandles, sg_slots, sg_signals, sg_handlemap, sg_mapped,
  sg_whenhandlers, sg_oncehandlers, sg_stale, sg_alive, sg_fault,
  sb_signal_state, sb_held, sb_emitter, sb_owned, sb_disconnect, sb_block, sb_filters,
  sb_connections, sb_next, sb_emission, sb_called, sb_due,
  dg_of, dg_delegates, dg_capacity, dg_slot, dg_copied, dg_lost, dg_called, dg_fault,
  dg_value, dg_changed, dg_emissions, dg_told, dg_heard,
  co_stack, co_phase, co_live, co_registry, co_to_caller, co_future, co_finals, co_fault,
  af_mutex, af_work_list, af_waits, af_fibers, af_works, af_next_work_id, af_dispose, af_started,
  af_posts

Symmetry == Permutations(Threads)

(* What main() of signal/main.cpp declares: the second manager extends the   *)
(* first.  Of a property's observers one insists on a value.  Each actor     *)
(* creates a fiber.                                                          *)
TypeLists == [sm1 |-> {"A"}, sm2 |-> {"A", "int"}]
Extended == [sm1 |-> "sm1", sm2 |-> "sm1"]
Wishes == [log |-> "-", clamp |-> "1", view |-> "-"]
EachItsOwn == [f |-> "s", g |-> "t"]

ASSUME CallbackAssumption ==
  /\ MaxTargets \in Nat /\ MaxHandlers \in Nat /\ MaxEmitters \in Nat /\ MaxDelegates \in Nat
  /\ MaxObservers \in Nat /\ Works \in Nat /\ MaxPosts \in Nat
  /\ Handles \subseteq Nat /\ IsFiniteSet(Handles)
  /\ SignalObjects \cap SlotObjects = {} /\ {"nobody", "client"} \cap SlotObjects = {}
  /\ Extends \in [DOMAIN Managers -> DOMAIN Managers]
  /\ HostOf \in [Fibers -> Actors] /\ {"nobody", "client"} \cap Actors = {}
  /\ "none" \notin Functors
  /\ \A o, p \in DOMAIN Wanted :  \* observers that insist on a value insist on one
       NoWish \in {Wanted[o], Wanted[p]} \/ Wanted[o] = Wanted[p]

fnVars ==
  <<fn_sig, fn_fn, fn_heap, fn_overwritten, fn_undefined>>
sgVars ==
  <<sg_handlers, sg_whenhandles, sg_oncehandles, sg_slots, sg_signals, sg_handlemap, sg_mapped,
    sg_whenhandlers, sg_oncehandlers, sg_stale, sg_alive, sg_fault>>
sbVars ==
  <<sb_signal_state, sb_held, sb_emitter, sb_owned, sb_disconnect, sb_block, sb_filters,
    sb_connections, sb_next, sb_emission, sb_called, sb_due>>
dgVars ==
  <<dg_of, dg_delegates, dg_capacity, dg_slot, dg_copied, dg_lost, dg_called, dg_fault,
    dg_value, dg_changed, dg_emissions, dg_told, dg_heard>>
coVars ==
  <<co_stack, co_phase, co_live, co_registry, co_to_caller, co_future, co_finals, co_fault>>
afVars ==
  <<af_mutex, af_work_list, af_waits, af_fibers, af_works, af_next_work_id, af_dispose, af_started,
    af_posts>>

Function == INSTANCE MoveOnlyFunction WITH
  sig <- fn_sig, fn <- fn_fn, heap <- fn_heap, overwritten <- fn_overwritten,
  undefined <- fn_undefined

Signals == INSTANCE Signals WITH
  handlers <- sg_handlers, whenhandles <- sg_whenhandles, oncehandles <- sg_oncehandles,
  slots <- sg_slots, signals <- sg_signals, handlemap <- sg_handlemap, mapped <- sg_mapped,
  whenhandlers <- sg_whenhandlers, oncehandlers <- sg_oncehandlers, stale <- sg_stale,
  alive <- sg_alive, fault <- sg_fault

Switchboard == INSTANCE Switchboard WITH
  signal_state <- sb_signal_state, held <- sb_held, emitter <- sb_emitter, owned <- sb_owned,
  disconnect <- sb_disconnect, block <- sb_block, filters <- sb_filters,
  connections <- sb_connections, next <- sb_next, emission <- sb_emission, called <- sb_called,
  due <- sb_due

Delegates == INSTANCE Delegates WITH
  of <- dg_of, delegates <- dg_delegates, capacity <- dg_capacity, slot <- dg_slot,
  copied <- dg_copied, lost <- dg_lost, called <- dg_called, fault <- dg_fault,
  value <- dg_value, changed <- dg_changed, emissions <- dg_emissions, told <- dg_told,
  heard <- dg_heard

Coroutines == INSTANCE Coroutines WITH
  stack <- co_stack, phase <- co_phase, live <- co_live, registry <- co_registry,
  to_caller <- co_to_caller, future <- co_future, finals <- co_finals, fault <- co_fault

Actor == INSTANCE ActorFibers WITH
  mutex <- af_mutex, work_list <- af_work_list, waits <- af_waits, fibers <- af_fibers,
  works <- af_works, next_work_id <- af_next_work_id, dispose <- af_dispose,
  started <- af_started, posts <- af_posts

GroupInit ==
  /\ part \in {"server", "Function", "Signals", "Switchboard", "Delegates", "Coroutines", "Actor"}
  /\ Init
  /\ IF part = "Function" THEN TRUE ELSE fn_sig = "plain"
  /\ Function!Init
  /\ Signals!Init
  /\ Switchboard!Init
  /\ IF part = "Delegates" THEN dg_of \in {"signal", "property"} ELSE dg_of = "signal"
  /\ IF dg_of = "property" THEN TRUE ELSE dg_value = CHOOSE o \in Objects : TRUE
  /\ Delegates!Init
  /\ Coroutines!Init
  /\ Actor!Init

GroupNext ==
  /\ UNCHANGED part
  /\ \/ part = "server" /\ Next
        /\ UNCHANGED <<fnVars, sgVars, sbVars, dgVars, coVars, afVars>>
     \/ part = "Function" /\ Function!Next
        /\ UNCHANGED <<vars, sgVars, sbVars, dgVars, coVars, afVars>>
     \/ part = "Signals" /\ Signals!Next
        /\ UNCHANGED <<vars, fnVars, sbVars, dgVars, coVars, afVars>>
     \/ part = "Switchboard" /\ Switchboard!Next
        /\ UNCHANGED <<vars, fnVars, sgVars, dgVars, coVars, afVars>>
     \/ part = "Delegates" /\ Delegates!Next
        /\ UNCHANGED <<vars, fnVars, sgVars, sbVars, coVars, afVars>>
     \/ part = "Coroutines" /\ Coroutines!Next
        /\ UNCHANGED <<vars, fnVars, sgVars, sbVars, dgVars, afVars>>
     \/ part = "Actor" /\ Actor!Next
        /\ UNCHANGED <<vars, fnVars, sgVars, sbVars, dgVars, coVars>>

groupVars == <<part, vars, fnVars, sgVars, sbVars, dgVars, coVars, afVars>>

GroupSpec == GroupInit /\ [][GroupNext]_groupVars

-----------------------------------------------------------------------------
(* What is registered is found: a handle, a slot or a name leads to the      *)
(* handler it was given for and to no other, however many were removed and   *)
(* added in between, and observers end up with the value there is.           *)
HandlersAreFound ==
  /\ part = "Signals" => Signals!HandlesMatchHandlers
  /\ part = "Switchboard" => Switchboard!NamesAreUnique /\ Switchboard!CallsWhatItFound
  /\ part = "Delegates" => Delegates!SlotsNameTheirDelegate /\ Delegates!ObserversAgree

(* What is called is there: the target of a function has one owner and the *)
(* type it is called as; a coroutine finds its promise; and a fiber is     *)
(* continued by other threads than the one that runs its works, until it   *)
(* has none left.                                                          *)
CalleesAreThere ==
  /\ part = "Function" =>
       Function!TargetsHaveOneOwner /\ Function!TypesAreKept /\ Function!TestsPass
  /\ part = "Coroutines" => Coroutines!PromiseValidUntilCompletion
  /\ part = "Actor" => Actor!ContinuedByOthers

(* Actors whose threads have come to wait for their own mutex, or for each   *)
(* other's, never run another work, and none of their fibers is let go.      *)
StuckForGood == Actor!StuckForGood
=============================================================================
