------------------------------ MODULE Delegates ------------------------------
(***************************************************************************)
(* The signal of exercises/delegates.cpp.  A delegate keeps its functor in *)
(* a storage of its own and reaches it through three functions; removing   *)
(* one forgets the functions and not the functor, and a slot is the index  *)
(* that its delegate has, which the next functor may take over.            *)
(* And the property of exercises/property.cpp, a value that tells its      *)
(* delegates of every assignment.  An observer may assign to it again: the *)
(* emission it is called by goes on when the inner one has ended, with the *)
(* reference to the value it was given.                                    *)
(***************************************************************************)
EXTENDS Naturals, Sequences, FiniteSetsExt

CONSTANTS Functors, Holders,
          MaxDelegates, \* bound on the delegates of the signal
          Objects,      \* values a property can have
          Wanted,       \* observer -> the value it insists on, or NoWish
          NoWish,
          MaxObservers  \* bound on the delegates of a property's signal

Observers == DOMAIN Wanted

None == "none"
NoSlot == [index |-> 0, functor |-> None]

VARIABLES
  of,         \* the program: "signal" or "property"
  delegates,  \* of the signal, from the first index on
  capacity,   \* of the vector
  slot,       \* holder -> its index (0 if it is detached), and whose it was
  copied,     \* a slot was copied
  lost,       \* functors that were in a storage and were never destroyed
  called,     \* what the last emission called
  fault,
  value,      \* value_
  changed,    \* the delegates of the property's signal
  emissions,  \* the emissions under way, innermost last: the next delegate of each
  told,       \* what each observer was told last
  heard       \* how many the last assignment has told, 0 if the value or they changed since

signalVars == <<delegates, capacity, slot, copied, lost, called, fault>>
propertyVars == <<value, changed, emissions, told, heard>>
vars == <<of, signalVars, propertyVars>>

SignalInit ==
  /\ delegates = <<>> /\ capacity = 0
  /\ slot = [h \in Holders |-> NoSlot] /\ copied = FALSE
  /\ lost = {} /\ called = <<>> /\ fault = "none"
PropertyInit ==
  /\ value \in Objects /\ changed = <<>> /\ emissions = <<>>
  /\ told = [o \in Observers |-> NoWish] /\ heard = 0
Init == of \in {"signal", "property"} /\ SignalInit /\ PropertyInit

Runs == fault = "none"

(* dispatch: whose three functions it has, all of them null after clear      *)
IsSet(d) == d.dispatch # None
Used(f) == \E i \in DOMAIN delegates : IsSet(delegates[i]) /\ delegates[i].dispatch = f
Cleared == {i \in DOMAIN delegates : ~IsSet(delegates[i])}

(* delegate(Functor) copies the functor to the storage, operator=(nullptr)   *)
(* clears the functions and leaves it there.                                 *)
MakeDelegate(f) == [dispatch |-> f, storage |-> f]
Forget(d) == [d EXCEPT !.dispatch = None]

(* operator=(Functor) and ~delegate: what the storage of a cleared delegate  *)
(* has is not destroyed.                                                     *)
LeftIn(ds) == {d.storage : d \in {e \in ds : ~IsSet(e)}}

(* signal::operator+= takes the first delegate that is cleared.              *)
Reuse(h, f) ==
  LET i == Min(Cleared)
  IN  /\ delegates' = [delegates EXCEPT ![i] = MakeDelegate(f)]
      /\ lost' = lost \cup LeftIn({delegates[i]})
      /\ slot' = [slot EXCEPT ![h] = [index |-> i, functor |-> f]]
      /\ UNCHANGED <<capacity, fault>>

(* emplace_back: a vector that is full copies its delegates, each with the   *)
(* copy function of its dispatch, to a larger one and destroys the old ones. *)
Append1(h, f) ==
  /\ Len(delegates) < MaxDelegates
  /\ delegates' = Append(delegates, MakeDelegate(f))
  /\ slot' = [slot EXCEPT ![h] = [index |-> Len(delegates) + 1, functor |-> f]]
  /\ capacity' = IF Len(delegates) < capacity THEN capacity
                 ELSE IF capacity = 0 THEN 1 ELSE 2 * capacity
  /\ fault' = IF Len(delegates) = capacity /\ Cleared # {} THEN "copies with null" ELSE fault
  /\ UNCHANGED lost

AddLast(h, f) ==  \* mutant: never looks for a delegate that is cleared
  /\ Runs /\ ~Used(f)
  /\ Append1(h, f)
  /\ UNCHANGED <<copied, called>>

Add(h, f) ==
  /\ Runs /\ ~Used(f)
  /\ \/ Cleared # {} /\ Reuse(h, f)
     \/ Cleared = {} /\ Append1(h, f)
  /\ UNCHANGED <<copied, called>>

(* signal::operator-=: whoever has the index now; only this slot is detached *)
Remove(h) ==
  LET i == slot[h].index
  IN  /\ Runs /\ i # 0
      /\ delegates' = [delegates EXCEPT ![i] = Forget(@)]
      /\ slot' = [slot EXCEPT ![h] = NoSlot]
      /\ UNCHANGED <<capacity, copied, lost, called, fault>>

CopySlot(g, h) ==
  /\ Runs /\ g # h /\ slot[h] # NoSlot
  /\ slot' = [slot EXCEPT ![g] = slot[h]] /\ copied' = TRUE
  /\ UNCHANGED <<delegates, capacity, lost, called, fault>>

(* signal::operator(); what a functor does to the signal is not modelled     *)
Emit ==
  /\ Runs
  /\ called' = [i \in DOMAIN SelectSeq(delegates, IsSet) |->
                  SelectSeq(delegates, IsSet)[i].storage]
  /\ UNCHANGED <<delegates, capacity, slot, copied, lost, fault>>

(* ~signal: each delegate calls the destroy function of its dispatch         *)
Destroy ==
  /\ Runs
  /\ fault' = IF Cleared = {} THEN "destroyed" ELSE "destroys with null"
  /\ lost' = lost \cup LeftIn({delegates[i] : i \in DOMAIN delegates})
  /\ delegates' = <<>> /\ called' = <<>>
  /\ slot' = [h \in Holders |-> NoSlot]
  /\ UNCHANGED <<capacity, copied>>

Emitted ==
  \/ Emit \/ Destroy
  \/ \E h \in Holders :
       \/ Remove(h)
       \/ \E f \in Functors : Add(h, f)
       \/ \E g \in Holders : CopySlot(g, h)

-----------------------------------------------------------------------------
Idle == emissions = <<>>
Innermost == emissions[Len(emissions)]

(* signal::operator+=; += while the signal emits would move its delegates    *)
Connect(o) ==
  /\ Idle /\ Len(changed) < MaxObservers /\ changed' = Append(changed, o)
  /\ UNCHANGED <<value, emissions, told, heard>>
(* signal::operator=(nullptr_t) *)
Clear ==
  /\ Idle /\ changed' = <<>> /\ heard' = 0 /\ UNCHANGED <<value, emissions, told>>

(* property_readwrite::operator=(Type) and property_base::change, which the  *)
(* friend of a read-only property calls: set, then on_change.                *)
Assign(v) ==
  /\ Idle
  /\ value' = v /\ heard' = 0
  /\ emissions' = <<1>> /\ UNCHANGED <<changed, told>>

(* operator()() and operator>> give a reference to write to.                 *)
WriteThrough(v) ==
  /\ Idle /\ v # value /\ value' = v /\ heard' = 0
  /\ UNCHANGED <<changed, emissions, told>>

(* The innermost emission calls its next delegate with the value as it is.   *)
Tell ==
  LET i == Innermost
      o == changed[i]
      rest == [emissions EXCEPT ![Len(emissions)] = i + 1]
  IN  /\ ~Idle /\ i <= Len(changed)
      /\ told' = [told EXCEPT ![o] = value]
      /\ IF Wanted[o] \in {NoWish, value} THEN emissions' = rest /\ UNCHANGED value
         ELSE value' = Wanted[o] /\ emissions' = Append(rest, 1)
      /\ UNCHANGED <<changed, heard>>
Return ==
  /\ ~Idle /\ Innermost > Len(changed)
  /\ emissions' = SubSeq(emissions, 1, Len(emissions) - 1)
  /\ heard' = IF Len(emissions) = 1 THEN Len(changed) ELSE heard
  /\ UNCHANGED <<value, changed, told>>

Observed ==
  \/ Tell \/ Return \/ Clear
  \/ \E o \in Observers : Connect(o)
  \/ \E v \in Objects : Assign(v) \/ WriteThrough(v)

-----------------------------------------------------------------------------
Next ==
  \/ of = "signal" /\ Emitted /\ UNCHANGED <<of, propertyVars>>
  \/ of = "property" /\ Observed /\ UNCHANGED <<of, signalVars>>

Spec == Init /\ [][Next]_vars

-----------------------------------------------------------------------------
(* Unless slots are copied, the slot that += returned names its functor for  *)
(* as long as it is attached, whatever is removed and added in between; the  *)
(* functions of a delegate are those of what its storage has, and only the   *)
(* destruction of a signal with a cleared delegate calls a null one.         *)
SlotsNameTheirDelegate ==
  /\ ~copied =>
       \A h \in Holders :
         slot[h] # NoSlot => delegates[slot[h].index].dispatch = slot[h].functor
  /\ \A i \in DOMAIN delegates :
       IsSet(delegates[i]) => delegates[i].dispatch = delegates[i].storage
  /\ fault # "copies with null"
  /\ fault = "destroys with null" => lost # {}
  /\ Len(delegates) <= capacity

(* Whatever observers assign in between: when the outermost emission has     *)
(* ended, every observer it called has been told the value the property has  *)
(* and not only the one its own emission began with.  (Observers that insist *)
(* on different values never come to rest.)                                  *)
ObserversAgree ==
  /\ \A i \in 1..heard : told[changed[i]] = value
  /\ Len(emissions) <= Len(changed) + 1
=============================================================================
