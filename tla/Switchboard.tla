---------------------------- MODULE Switchboard -----------------------------
(***************************************************************************)
(* The signal library of exercises/signal.  A switchboard knows the        *)
(* emitters of its signals by weak pointers, an emitter its connections by *)
(* weak pointers: the signals and connections that clients hold keep them  *)
(* alive.  An emission works on a copy of the connections, so what a       *)
(* handler changes shows in the next one only.                             *)
(***************************************************************************)
EXTENDS Naturals, Sequences, FiniteSets

CONSTANTS Managers,      \* manager -> the message types of its list
          Extends,       \* manager -> the manager it extends, or itself
          Holders,       \* variables that hold a signal
          Connections,   \* the connections ever made
          Messages,
          MaxEmitters    \* bound on the emitters ever made

Keys == {<<m, t>> : m \in DOMAIN Managers, t \in UNION {Managers[n] : n \in DOMAIN Managers}}

VARIABLES
  signal_state,  \* switchboard -> the emitter it last made, 0 if none (one name of a signal each)
  held,          \* holder -> the emitter its signal owns, 0 if none
  emitter,       \* connection -> the emitter that lists it, 0 if it is not made yet
  owned,         \* the connections that clients hold
  disconnect, block,  \* connections
  filters,       \* connection -> the messages its filters stop
  connections,   \* emitter -> its list
  next,          \* the number of the next emitter
  emission,      \* the copy an emission works on
  called,        \* the connections whose slots this emission has called
  due            \* what the emission found when it began

state == <<disconnect, block, filters>>
run == <<emission, called, due>>
vars == <<signal_state, held, emitter, owned, disconnect, block, filters, connections, next,
          emission, called, due>>

(* The constructor that extends a manager takes over its switchboards.       *)
Board(m, t) == IF t \in Managers[Extends[m]] THEN <<Extends[m], t>> ELSE <<m, t>>

Alive(e) == e # 0 /\ \E h \in Holders : held[h] = e

Init ==
  /\ signal_state = [k \in Keys |-> 0] /\ held = [h \in Holders |-> 0]
  /\ emitter = [c \in Connections |-> 0] /\ owned = {}
  /\ disconnect = {} /\ block = {} /\ filters = [c \in Connections |-> {}]
  /\ connections = [e \in 1..MaxEmitters |-> <<>>] /\ next = 1
  /\ emission = [message |-> CHOOSE m \in Messages : TRUE, active |-> <<>>] /\ called = <<>> /\ due = <<>>

GetSignalAnew(h, m, t) ==  \* mutant: does not look for an emitter that lives
  LET k == Board(m, t)
  IN  /\ held[h] = 0 /\ t \in Managers[m] /\ next <= MaxEmitters
      /\ held' = [held EXCEPT ![h] = next] /\ next' = next + 1
      /\ signal_state' = [signal_state EXCEPT ![k] = next]
      /\ UNCHANGED <<emitter, owned, state, connections, run>>

(* get_signal: signal_add_if_missing_ makes an emitter if the last has expired *)
GetSignal(h, m, t) ==
  LET k == Board(m, t)
  IN  /\ held[h] = 0 /\ t \in Managers[m]
      /\ \/ Alive(signal_state[k])
            /\ held' = [held EXCEPT ![h] = signal_state[k]] /\ UNCHANGED <<signal_state, next>>
         \/ ~Alive(signal_state[k]) /\ next <= MaxEmitters
            /\ held' = [held EXCEPT ![h] = next] /\ next' = next + 1
            /\ signal_state' = [signal_state EXCEPT ![k] = next]
      /\ UNCHANGED <<emitter, owned, state, connections, run>>

(* A signal goes out of scope: with the last one of its name, so does the emitter. *)
DropSignal(h) ==
  /\ held[h] # 0 /\ held' = [held EXCEPT ![h] = 0]
  /\ UNCHANGED <<signal_state, emitter, owned, state, connections, next, run>>

(* connect throws signal_error, and changes nothing, if no signal has the name *)
Connect(c, m, t) ==
  LET e == signal_state[Board(m, t)]
  IN  /\ emitter[c] = 0 /\ t \in Managers[m] /\ Alive(e)
      /\ emitter' = [emitter EXCEPT ![c] = e] /\ owned' = owned \cup {c}
      /\ connections' = [connections EXCEPT ![e] = Append(@, c)]
      /\ UNCHANGED <<signal_state, held, state, next, run>>

(* A connection goes out of scope; what the list has of it is expired.       *)
DropConnection(c) ==
  /\ c \in owned /\ owned' = owned \ {c}
  /\ UNCHANGED <<signal_state, held, emitter, state, connections, next, run>>

(* connection::disconnect, block, unblock and filter *)
SetDisconnect(c) ==
  /\ c \in owned /\ disconnect' = disconnect \cup {c}
  /\ UNCHANGED <<signal_state, held, emitter, owned, block, filters, connections, next, run>>
SetBlock(c) ==
  /\ c \in owned /\ block' = IF c \in block THEN block \ {c} ELSE block \cup {c}
  /\ UNCHANGED <<signal_state, held, emitter, owned, disconnect, filters, connections, next, run>>
Filter(c, m) ==
  /\ c \in owned /\ filters' = [filters EXCEPT ![c] = @ \cup {m}]
  /\ UNCHANGED <<signal_state, held, emitter, owned, disconnect, block, connections, next, run>>

(* emitter_state::get_call_state: the connections that are not expired,      *)
(* disconnected or blocked, in the order of the list                         *)
Active(e) ==
  LET A == {i \in DOMAIN connections[e] : connections[e][i] \in owned \ (disconnect \cup block)}
  IN  [n \in 1..Cardinality(A) |->
         connections[e][CHOOSE i \in A : Cardinality({j \in A : j <= i}) = n]]

(* signal::emit; an emission from inside a handler is not modelled           *)
Emit(h, m) ==
  LET list == Active(held[h])
  IN  /\ held[h] # 0 /\ emission.active = <<>> /\ list # <<>>
      /\ emission' = [message |-> m,
                      active |-> [i \in DOMAIN list |-> [slot |-> list[i], filters |-> filters[list[i]]]]]
      /\ called' = <<>> /\ due' = emission'.active
      /\ UNCHANGED <<signal_state, held, emitter, owned, state, connections, next>>

(* emitter::operator() at the head of the copy: a filter that stops the      *)
(* message ends the loop, not only the call of its own slot                  *)
CallSlot ==
  LET first == Head(emission.active)
      rest == Tail(emission.active)
  IN  /\ emission.active # <<>>
      /\ \/ /\ emission.message \in first.filters
            /\ emission' = [emission EXCEPT !.active = <<>>] /\ UNCHANGED called
         \/ /\ emission.message \notin first.filters
            /\ called' = Append(called, first.slot)
            /\ emission' = [emission EXCEPT !.active = rest]
      /\ UNCHANGED <<signal_state, held, emitter, owned, state, connections, next, due>>

Next ==
  \/ CallSlot
  \/ \E h \in Holders :
       \/ DropSignal(h)
       \/ \E m \in DOMAIN Managers, t \in UNION {Managers[n] : n \in DOMAIN Managers} : GetSignal(h, m, t)
       \/ \E m \in Messages : Emit(h, m)
  \/ \E c \in Connections :
       \/ DropConnection(c) \/ SetDisconnect(c) \/ SetBlock(c)
       \/ \E m \in Messages : Filter(c, m)
       \/ \E m \in DOMAIN Managers, t \in UNION {Managers[n] : n \in DOMAIN Managers} : Connect(c, m, t)

Spec == Init /\ [][Next]_vars

-----------------------------------------------------------------------------
(* "Enforces uniqueness of signal names": an emitter that lives is the one   *)
(* its switchboard knows, so every signal of a name reaches all who have     *)
(* connected to the name while it lived.                                     *)
NamesAreUnique ==
  \A h \in Holders : held[h] # 0 => \E k \in Keys : signal_state[k] = held[h]

(* What handlers change does not touch the emission under way: it has called *)
(* the slots it found at the beginning, in their order, without a gap.       *)
CallsWhatItFound ==
  /\ \A i \in DOMAIN called : called[i] = due[i].slot
  /\ emission.active # <<>> => Len(called) + Len(emission.active) = Len(due)
=============================================================================
