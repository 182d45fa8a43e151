----------------------------- MODULE TicketQueue -----------------------------
(***************************************************************************)
(* bounded_queue of src/exercises/concurrent.cpp (the build without TEST)  *)
(* and the producers and consumers of its main().  A thread takes a ticket *)
(* and spins until the queue's position reaches its ticket and the slot is *)
(* free (push) or full (pop).  The four counters are sequentially          *)
(* consistent atomics: one action per atomic access.                       *)
(***************************************************************************)
EXTENDS Integers, Sequences

CONSTANTS
  Producers, Consumers,  \* the threads of main()
  N,                     \* capacity, the template parameter
  Production,            \* how many items main() pushes and pops
  Triers                 \* the threads that may use try_push and try_pop

ASSUME TicketAssumption ==
  /\ Producers \cap Consumers = {}
  /\ N \in Nat \ {0}
  /\ Production \in Nat
  /\ Triers \subseteq Producers \cup Consumers

VARIABLES
  head, tail,                \* head_ and tail_: the next slot to fill, to empty
  head_ticket, tail_ticket,  \* the next ticket of a push, of a pop
  buffer,                    \* buffer_
  product, consumed,         \* main()'s shared counters
  pc,                        \* where each thread is
  ticket,                    \* its ticket
  seen,                      \* the head (in a check: head or tail) it loaded
  value,                     \* the item it pushes or has read
  result                     \* the item the last pop of a consumer returned

counters == <<head, tail, head_ticket, tail_ticket>>
locals   == <<ticket, seen, value>>
vars     == <<counters, buffer, product, consumed, pc, locals, result>>

Threads == Producers \cup Consumers
Nothing == -1

Init ==
  /\ head = 0 /\ tail = 0 /\ head_ticket = 0 /\ tail_ticket = 0
  /\ buffer = [i \in 0..N - 1 |-> Nothing]
  /\ product = 0 /\ consumed = 0
  /\ pc = [t \in Threads |-> "loop"]
  /\ ticket = [t \in Threads |-> 0]
  /\ seen = [t \in Threads |-> 0]
  /\ value = [t \in Threads |-> Nothing]
  /\ result = [c \in Consumers |-> Nothing]

Goto(t, from, to) == pc[t] = from /\ pc' = [pc EXCEPT ![t] = to]

-----------------------------------------------------------------------------
(* main(): while ((value = product++) < production) queue.push (value), and  *)
(* while (consumed++ < production) queue.pop (result)                        *)
Produce(p) ==
  /\ product' = product + 1
  /\ value' = [value EXCEPT ![p] = product]
  /\ \/ product < Production /\ Goto(p, "loop", "ticket")
     \/ product < Production /\ p \in Triers /\ Goto(p, "loop", "check")
     \/ product >= Production /\ Goto(p, "loop", "done")
  /\ UNCHANGED <<counters, buffer, consumed, ticket, seen, result>>

Consume(c) ==
  /\ consumed' = consumed + 1
  /\ \/ consumed < Production /\ Goto(c, "loop", "ticket")
     \/ consumed < Production /\ c \in Triers /\ Goto(c, "loop", "check")
     \/ consumed >= Production /\ Goto(c, "loop", "done")
  /\ UNCHANGED <<counters, buffer, product, locals, result>>

(* full() and empty(): the two loads of head_ - tail_ come in either order   *)
CheckFirst(t) ==
  /\ \/ Goto(t, "check", "check tail") /\ seen' = [seen EXCEPT ![t] = head]
     \/ Goto(t, "check", "check head") /\ seen' = [seen EXCEPT ![t] = tail]
  /\ UNCHANGED <<counters, buffer, product, consumed, ticket, value, result>>

(* try_push returns false if full(), try_pop if empty(); the caller retries  *)
Refused(t, size) == size = IF t \in Producers THEN N ELSE 0
CheckSecond(t) ==
  /\ \/ Goto(t, "check tail", IF Refused(t, seen[t] - tail) THEN "check" ELSE "try ticket")
     \/ Goto(t, "check head", IF Refused(t, head - seen[t]) THEN "check" ELSE "try ticket")
  /\ UNCHANGED <<counters, buffer, product, consumed, locals, result>>

(* fetch_add on the ticket counter of the operation *)
TakeTicket(t) ==
  /\ Goto(t, "ticket", "load head") \/ Goto(t, "try ticket", "try load head")
  /\ IF t \in Producers
     THEN /\ ticket' = [ticket EXCEPT ![t] = head_ticket]
          /\ head_ticket' = head_ticket + 1
          /\ UNCHANGED tail_ticket
     ELSE /\ ticket' = [ticket EXCEPT ![t] = tail_ticket]
          /\ tail_ticket' = tail_ticket + 1
          /\ UNCHANGED head_ticket
  /\ UNCHANGED <<head, tail, buffer, product, consumed, seen, value, result>>

LoadHead(t) ==
  /\ Goto(t, "load head", "load tail") \/ Goto(t, "try load head", "try load tail")
  /\ seen' = [seen EXCEPT ![t] = head]
  /\ UNCHANGED <<counters, buffer, product, consumed, ticket, value, result>>

(* the second load of the spin, and its condition on the two values loaded   *)
MayPopUnticketed(t) == seen[t] - tail > 0                     \* mutant: whoever comes first
MayPopNotLast(t) == seen[t] - tail > 1 /\ ticket[t] = tail    \* mutant: off by one

MayPush(t) == seen[t] - tail < N /\ ticket[t] = seen[t]
MayPop(t)  == seen[t] - tail > 0 /\ ticket[t] = tail

LoadTail(t) ==
  LET granted == IF t \in Producers THEN MayPush(t) ELSE MayPop(t)
  IN  /\ \/ Goto(t, "load tail", IF granted THEN "access" ELSE "load head")
         \/ Goto(t, "try load tail", IF granted THEN "access" ELSE "try load head")
      /\ UNCHANGED <<counters, buffer, product, consumed, locals, result>>

WriteAtTicketCounter(p) ==  \* mutant: uses the shared counter, not the ticket taken
  /\ Goto(p, "access", "advance")
  /\ buffer' = [buffer EXCEPT ![(head_ticket - 1) % N] = value[p]]
  /\ UNCHANGED <<counters, product, consumed, locals, result>>

Write(p) ==
  /\ Goto(p, "access", "advance")
  /\ buffer' = [buffer EXCEPT ![ticket[p] % N] = value[p]]
  /\ UNCHANGED <<counters, product, consumed, locals, result>>

Read(c) ==
  /\ Goto(c, "access", "advance")
  /\ value' = [value EXCEPT ![c] = buffer[ticket[c] % N]]
  /\ UNCHANGED <<counters, buffer, product, consumed, ticket, seen, result>>

AdvanceHead(p) ==
  /\ Goto(p, "advance", "loop")
  /\ head' = head + 1
  /\ UNCHANGED <<tail, head_ticket, tail_ticket, buffer, product, consumed, locals, result>>

AdvanceTail(c) ==
  /\ Goto(c, "advance", "loop")
  /\ tail' = tail + 1
  /\ result' = [result EXCEPT ![c] = value[c]]
  /\ UNCHANGED <<head, head_ticket, tail_ticket, buffer, product, consumed, locals>>

Enter(t) == CheckFirst(t) \/ CheckSecond(t) \/ TakeTicket(t) \/ LoadHead(t) \/ LoadTail(t)
Push(p)  == Produce(p) \/ Enter(p) \/ Write(p) \/ AdvanceHead(p)
Pop(c)   == Consume(c) \/ Enter(c) \/ Read(c) \/ AdvanceTail(c)

Next == (\E p \in Producers : Push(p)) \/ (\E c \in Consumers : Pop(c))

Spec == Init /\ [][Next]_vars

(* Every thread of main() keeps running. *)
FairSpec == Spec /\ (\A p \in Producers : WF_vars(Push(p))) /\ (\A c \in Consumers : WF_vars(Pop(c)))

-----------------------------------------------------------------------------
Waiting   == {"load head", "load tail", "try load head", "try load tail"}
Accessing == {"access", "advance"}
Ticketed  == Waiting \cup Accessing
Checking  == {"check", "check tail", "check head"}
Labels    == {"loop", "ticket", "try ticket", "done"} \cup Ticketed \cup Checking

(* Every variable holds values of its type; the counters only count up from 0. *)
TypeOK ==
  /\ head \in Nat /\ tail \in Nat /\ head_ticket \in Nat /\ tail_ticket \in Nat
  /\ buffer \in [0..N - 1 -> Nat \cup {Nothing}]
  /\ product \in Nat /\ consumed \in Nat
  /\ pc \in [Threads -> Labels]
  /\ ticket \in [Threads -> Nat]
  /\ seen \in [Threads -> Nat]
  /\ value \in [Threads -> Nat \cup {Nothing}]
  /\ \A p \in Producers : pc[p] \in Labels \ {"loop", "done"} => value[p] \in Nat
  /\ result \in [Consumers -> Nat \cup {Nothing}]

(* The assertion of push and pop: assert (size() >= 0 && size() <= N).       *)
SizeInBounds == head - tail \in 0..N

(* At most one push and one pop are between the end of their spin and the    *)
(* increment that hands the queue on, so the plain accesses to buffer_ never *)
(* race: a push and a pop inside at once are in different slots.             *)
SlotExclusive ==
  \A s, t \in Threads :
    s # t /\ pc[s] \in Accessing /\ pc[t] \in Accessing =>
      /\ {s, t} \cap Producers # {} /\ {s, t} \cap Consumers # {}
      /\ ticket[s] % N # ticket[t] % N

(* Whose turn it is.  Tickets in hand are distinct, handed out and not yet   *)
(* served; whoever is past its spin holds the ticket being served and has    *)
(* room (an item), and nobody else touches its slot before it advances.      *)
InOrder == tail <= head /\ head - tail <= N /\ head <= head_ticket /\ tail <= tail_ticket

InHand(group, served, next) ==
  /\ \A t \in group : pc[t] \in Ticketed => served <= ticket[t] /\ ticket[t] < next
  /\ \A s, t \in group :
       s # t /\ pc[s] \in Ticketed /\ pc[t] \in Ticketed => ticket[s] # ticket[t]

Served ==
  /\ \A p \in Producers : pc[p] \in Accessing => ticket[p] = head /\ head - tail < N
  /\ \A c \in Consumers : pc[c] \in Accessing => ticket[c] = tail /\ tail < head

SeenPast == \A t \in Threads : pc[t] \in {"load tail", "try load tail"} => seen[t] <= head

SlotKept == \A t \in Threads : pc[t] = "advance" => buffer[ticket[t] % N] = value[t]

Turns ==
  /\ InOrder
  /\ InHand(Producers, head, head_ticket) /\ InHand(Consumers, tail, tail_ticket)
  /\ Served /\ SeenPast /\ SlotKept

(* The queue implements a bounded FIFO queue: an item enters with head_++,   *)
(* and leaves with tail_++ to the consumer whose turn it is.                 *)
Contents == [i \in 1..head - tail |-> buffer[(tail + i - 1) % N]]
Fifo == INSTANCE BoundedFifo WITH
          Capacity <- N, Items <- Nat, NoItem <- Nothing, queue <- Contents, got <- result
FifoNext == (\E p \in Producers : Fifo!Put(value[p])) \/ (\E c \in Consumers : Fifo!Take(c))
FifoSpec == Fifo!Init /\ [][FifoNext]_<<Contents, result>>

(* main() ends: every producer and consumer runs out of work, and the items  *)
(* produced have all been consumed.                                          *)
Terminates ==
  <>(\A t \in Threads : pc[t] = "done" /\ head = Production /\ tail = Production)

(* "push-on-full and pop-on-empty will spin; try_push/pop will return wait   *)
(* free": a thread that came through a check never has to wait for another.  *)
TryIsWaitFree ==
  \A t \in Threads : pc[t] \in {"try load head", "try load tail"} =>
    IF t \in Producers THEN ticket[t] = head /\ head - tail < N
                       ELSE ticket[t] = tail /\ head - tail > 0
=============================================================================
