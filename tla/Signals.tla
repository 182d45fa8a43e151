------------------------------ MODULE Signals -------------------------------
(***************************************************************************)
(* Signal and Slot of core/Signal.hpp.  A signal keeps four handlers; a    *)
(* slot installs copies of its handlers in every signal it is connected to *)
(* and keeps the handles, which are indexes into the signal's table and    *)
(* are given again once they are free.  A handler is known by who has      *)
(* installed it: a slot, or a client of the signal itself.                 *)
(***************************************************************************)
EXTENDS Naturals, FiniteSets, FiniteSetsExt

CONSTANTS SignalObjects, SlotObjects,
          Handles,      \* the indexes of a table: 0 to 3 in the code
          MaxHandlers   \* bound on the handlers of each kind a slot has


Nobody == "nobody"
Client == "client"

VARIABLES
  handlers,       \* signal -> handle -> who installed the handler
  whenhandles, oncehandles,
  slots,          \* signal -> the slots it emits to
  signals,        \* signal -> the signals it forwards to
  handlemap,      \* slot -> signal -> the handles the slot keeps
  mapped,         \* slot -> the signals its handlemap_ has an entry for
  whenhandlers, oncehandlers,   \* slot -> how many handlers
  stale,          \* slot -> signal -> handles kept although they were freed
  alive,          \* the objects that are not destroyed
  fault

tables == <<handlers, whenhandles, oncehandles>>
wires == <<slots, signals, mapped>>
vars == <<handlers, whenhandles, oncehandles, slots, signals, handlemap, mapped, whenhandlers,
          oncehandlers, stale, alive, fault>>

Init ==
  /\ handlers = [s \in SignalObjects |-> [h \in Handles |-> Nobody]]
  /\ whenhandles = [s \in SignalObjects |-> {}] /\ oncehandles = [s \in SignalObjects |-> {}]
  /\ slots = [s \in SignalObjects |-> {}] /\ signals = [s \in SignalObjects |-> {}]
  /\ handlemap = [p \in SlotObjects |-> [s \in SignalObjects |-> {}]]
  /\ mapped = [p \in SlotObjects |-> {}]
  /\ whenhandlers = [p \in SlotObjects |-> 0] /\ oncehandlers = [p \in SlotObjects |-> 0]
  /\ stale = handlemap
  /\ alive = SignalObjects \cup SlotObjects
  /\ fault = "none"

Runs(o) == fault = "none" /\ o \in alive

-----------------------------------------------------------------------------
(* install takes the first free handles of a signal, and asserts that there  *)
(* are any; erase frees them, and so does remove.                            *)
Free(s) == {h \in Handles : handlers[s][h] = Nobody}
First(n, H) == {h \in H : Cardinality({g \in H : g < h}) < n}

(* Owner o installs w when-handlers and n once-handlers in each signal of S. *)
Install(S, o, w, n) ==
  LET whens == [s \in S |-> First(w, Free(s))]
      onces == [s \in S |-> First(n, Free(s) \ whens[s])]
      new == [s \in SignalObjects |-> IF s \in S THEN whens[s] \cup onces[s] ELSE {}]
  IN  IF \E s \in S : Cardinality(Free(s)) < w + n
      THEN fault' = "assert" /\ UNCHANGED <<tables, handlemap, stale>>
      ELSE /\ handlers' = [s \in SignalObjects |->
                             [h \in Handles |-> IF h \in new[s] THEN o ELSE handlers[s][h]]]
           /\ whenhandles' = [s \in SignalObjects |->
                whenhandles[s] \cup IF s \in S THEN whens[s] ELSE {}]
           /\ oncehandles' = [s \in SignalObjects |->
                oncehandles[s] \cup IF s \in S THEN onces[s] ELSE {}]
           /\ IF o = Client THEN UNCHANGED <<handlemap, stale>>
              ELSE /\ handlemap' = [handlemap EXCEPT ![o] = [s \in SignalObjects |-> @[s] \cup new[s]]]
                   /\ stale' = [stale EXCEPT ![o] = [s \in SignalObjects |-> @[s] \ new[s]]]
           /\ UNCHANGED fault

(* Signal::remove of the handles gone[s], for each s: whoever has installed  *)
(* what is there now.                                                        *)
RemoveWhen(gone) ==  \* mutant: forgets oncehandles_
  /\ handlers' = [s \in SignalObjects |->
                    [h \in Handles |-> IF h \in gone[s] THEN Nobody ELSE handlers[s][h]]]
  /\ whenhandles' = [s \in SignalObjects |-> whenhandles[s] \ gone[s]]
  /\ UNCHANGED oncehandles

Remove(gone) ==
  /\ handlers' = [s \in SignalObjects |->
                    [h \in Handles |-> IF h \in gone[s] THEN Nobody ELSE handlers[s][h]]]
  /\ whenhandles' = [s \in SignalObjects |-> whenhandles[s] \ gone[s]]
  /\ oncehandles' = [s \in SignalObjects |-> oncehandles[s] \ gone[s]]

(* The handles freed in this step that other slots than those of P keep.     *)
Staler(gone, P) ==
  [p \in SlotObjects |-> [s \in SignalObjects |->
     stale[p][s] \cup IF p \in P THEN {} ELSE handlemap[p][s] \cap gone[s]]]

(* Slot::disconnect of one signal s, for the slots of P *)
Unmap(P, s) ==
  LET gone == [t \in SignalObjects |-> IF t = s THEN UNION {handlemap[p][s] : p \in P} ELSE {}]
  IN  /\ Remove(gone)
      /\ handlemap' = [p \in SlotObjects |-> [handlemap[p] EXCEPT ![s] = IF p \in P THEN {} ELSE @]]
      /\ mapped' = [p \in SlotObjects |-> IF p \in P THEN mapped[p] \ {s} ELSE mapped[p]]
      /\ stale' = [p \in SlotObjects |->
                     [Staler(gone, P)[p] EXCEPT ![s] = IF p \in P THEN {} ELSE @]]

-----------------------------------------------------------------------------
(* Signal::when, Signal::once, and Signal::remove by the client that has the handle *)
SignalWhen(s) ==
  Runs(s) /\ Install({s}, Client, 1, 0) /\ UNCHANGED <<wires, whenhandlers, oncehandlers, alive>>
SignalOnce(s) ==
  Runs(s) /\ Install({s}, Client, 0, 1) /\ UNCHANGED <<wires, whenhandlers, oncehandlers, alive>>
SignalRemove(s, h) ==
  /\ Runs(s) /\ handlers[s][h] = Client
  /\ Remove([t \in SignalObjects |-> IF t = s THEN {h} ELSE {}])
  /\ UNCHANGED <<wires, handlemap, whenhandlers, oncehandlers, stale, alive, fault>>

(* Slot::when and Slot::once install the handler in every signal of handlemap_ *)
SlotWhen(p) ==
  /\ Runs(p) /\ whenhandlers[p] < MaxHandlers /\ mapped[p] \subseteq alive
  /\ Install(mapped[p], p, 1, 0)
  /\ whenhandlers' = [whenhandlers EXCEPT ![p] = @ + 1]
  /\ UNCHANGED <<wires, oncehandlers, alive>>
SlotOnce(p) ==
  /\ Runs(p) /\ oncehandlers[p] < MaxHandlers /\ mapped[p] \subseteq alive
  /\ Install(mapped[p], p, 0, 1)
  /\ oncehandlers' = [oncehandlers EXCEPT ![p] = @ + 1]
  /\ UNCHANGED <<wires, whenhandlers, alive>>

(* connect(signal, slot): the slot installs what it has, the signal enters the slot *)
Connect(s, p) ==
  /\ Runs(s) /\ Runs(p)
  /\ Install({s}, p, whenhandlers[p], oncehandlers[p])
  /\ mapped' = [mapped EXCEPT ![p] = @ \cup {s}]
  /\ slots' = [slots EXCEPT ![s] = @ \cup {p}]
  /\ UNCHANGED <<signals, whenhandlers, oncehandlers, alive>>

(* disconnect(signal, slot) *)
Disconnect(s, p) ==
  /\ Runs(s) /\ Runs(p)
  /\ Unmap({p}, s)
  /\ slots' = [slots EXCEPT ![s] = @ \ {p}]
  /\ UNCHANGED <<signals, whenhandlers, oncehandlers, alive, fault>>

(* Signal::disconnect, and Signal::clear, which clears the table as well *)
SignalDisconnect(s) ==
  /\ Runs(s) /\ slots[s] \subseteq alive
  /\ Unmap(slots[s], s)
  /\ slots' = [slots EXCEPT ![s] = {}]
  /\ signals' = [t \in SignalObjects |->
       IF t = s THEN {} ELSE IF t \in signals[s] THEN signals[t] \ {s} ELSE signals[t]]
  /\ UNCHANGED <<whenhandlers, oncehandlers, alive, fault>>

(* Slot::disconnect() removes the handles and keeps handlemap_: the slot     *)
(* goes on installing handlers in signals that no longer know it.            *)
Leave(p) ==
  /\ Remove(handlemap[p])
  /\ stale' = [Staler(handlemap[p], {p}) EXCEPT ![p] = handlemap[p]]
  /\ slots' = [s \in SignalObjects |-> IF s \in mapped[p] THEN slots[s] \ {p} ELSE slots[s]]
SlotDisconnect(p) ==
  /\ Runs(p)
  /\ IF mapped[p] \subseteq alive THEN Leave(p) /\ UNCHANGED fault
     ELSE fault' = "dangling signal" /\ UNCHANGED <<tables, slots, stale>>
  /\ UNCHANGED <<signals, mapped, handlemap, whenhandlers, oncehandlers, alive>>
SlotClear(p) ==
  /\ Runs(p) /\ mapped[p] \subseteq alive
  /\ Leave(p)
  /\ whenhandlers' = [whenhandlers EXCEPT ![p] = 0] /\ oncehandlers' = [oncehandlers EXCEPT ![p] = 0]
  /\ UNCHANGED <<signals, mapped, handlemap, alive, fault>>

(* Signal::forward; that no cycle is made is left to the caller *)
Forward(s, t) ==
  /\ Runs(s) /\ Runs(t) /\ s # t /\ s \notin signals[t]
  /\ signals' = [signals EXCEPT ![s] = @ \cup {t}]
  /\ UNCHANGED <<tables, slots, handlemap, mapped, whenhandlers, oncehandlers, stale, alive, fault>>

(* Signal::operator(), with the signals it forwards to: the once-handlers    *)
(* have run and are freed, and the slots forget theirs.                      *)
Emit(s) ==
  LET S == {s} \cup signals[s]
      gone == [t \in SignalObjects |-> IF t \in S THEN oncehandles[t] ELSE {}]
      P == UNION {slots[t] : t \in S}
  IN  /\ Runs(s)
      /\ IF S \cup P \subseteq alive
         THEN /\ Remove(gone) /\ stale' = Staler(gone, {})
              /\ oncehandlers' = [p \in SlotObjects |-> IF p \in P THEN 0 ELSE oncehandlers[p]]
              /\ UNCHANGED fault
         ELSE fault' = "dangling target" /\ UNCHANGED <<tables, stale, oncehandlers>>
      /\ UNCHANGED <<wires, handlemap, whenhandlers, alive>>

(* ~Signal and ~Slot disconnect *)
DestroySignal(s) ==
  /\ Runs(s) /\ slots[s] \subseteq alive
  /\ Unmap(slots[s], s)
  /\ slots' = [slots EXCEPT ![s] = {}] /\ signals' = [signals EXCEPT ![s] = {}]
  /\ alive' = alive \ {s}
  /\ UNCHANGED <<whenhandlers, oncehandlers, fault>>
DestroySlot(p) ==
  /\ Runs(p)
  /\ IF mapped[p] \subseteq alive THEN Leave(p) /\ UNCHANGED fault
     ELSE fault' = "dangling signal" /\ UNCHANGED <<tables, slots, stale>>
  /\ alive' = alive \ {p}
  /\ UNCHANGED <<signals, mapped, handlemap, whenhandlers, oncehandlers>>

Next ==
  \/ \E s \in SignalObjects :
       \/ SignalWhen(s) \/ SignalOnce(s) \/ SignalDisconnect(s) \/ Emit(s) \/ DestroySignal(s)
       \/ \E h \in Handles : SignalRemove(s, h)
       \/ \E t \in SignalObjects : Forward(s, t)
       \/ \E p \in SlotObjects : Connect(s, p) \/ Disconnect(s, p)
  \/ \E p \in SlotObjects :
       SlotWhen(p) \/ SlotOnce(p) \/ SlotDisconnect(p) \/ SlotClear(p) \/ DestroySlot(p)

Spec == Init /\ [][Next]_vars

-----------------------------------------------------------------------------
(* The table of a living signal has a handler exactly where one of its two   *)
(* sets has the handle; and a handle a slot keeps, unless it was freed       *)
(* behind the slot's back, is that of a handler of its own.                  *)
HandlesMatchHandlers ==
  fault = "none" =>
    \A s \in SignalObjects \cap alive :
      /\ whenhandles[s] \cap oncehandles[s] = {}
      /\ {h \in Handles : handlers[s][h] # Nobody} = whenhandles[s] \cup oncehandles[s]
      /\ \A p \in SlotObjects \cap alive :
           \A h \in handlemap[p][s] \ stale[p][s] : handlers[s][h] = p
=============================================================================
