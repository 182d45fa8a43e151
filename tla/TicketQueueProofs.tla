-------------------------- MODULE TicketQueueProofs --------------------------
(***************************************************************************)
(* What TicketQueue.tla promises, for every number of threads, capacity    *)
(* and production: its types, whose turn it is (Turns, the inductive       *)
(* invariant), the assertion of the code, that the plain buffer is never   *)
(* raced on, and that the queue is a bounded FIFO queue.                   *)
(***************************************************************************)
EXTENDS TicketQueue, SequenceTheorems, TLAPS

USE TicketAssumption

-----------------------------------------------------------------------------
(* The slots of two positions less than a whole turn apart are different.    *)
LEMMA SlotsDiffer ==
  ASSUME NEW a \in Nat, NEW b \in Nat, b < a, a - b < N
  PROVE  a % N # b % N
<1>1. a = N * (a \div N) + (a % N) /\ b = N * (b \div N) + (b % N)
  OBVIOUS
<1>2. a \div N \in Int /\ b \div N \in Int
  OBVIOUS
<1>3. SUFFICES ASSUME a % N = b % N PROVE FALSE
  OBVIOUS
<1> DEFINE k == a \div N - b \div N
<1>4. k \in Int /\ a - b = N * k
  BY <1>1, <1>2, <1>3
<1> HIDE DEF k
<1>5. CASE k <= 0
  <2>1. N * k <= 0
    BY <1>4, <1>5
  <2> QED BY <2>1, <1>4
<1>6. CASE k >= 1
  <2>1. N * k >= N
    BY <1>4, <1>6
  <2> QED BY <2>1, <1>4
<1> QED BY <1>4, <1>5, <1>6

(* A position falls on a slot of the buffer. *)
LEMMA SlotInBuffer == ASSUME NEW a \in Nat PROVE a % N \in 0..N - 1
  OBVIOUS

-----------------------------------------------------------------------------
LEMMA InitTypeOK == Init => TypeOK
  BY DEF Init, TypeOK, Threads, Nothing, Labels, Ticketed, Waiting, Accessing, Checking

(* What a step of thread t in the queue does to the program counters. *)
LEMMA Moves ==
  ASSUME TypeOK, NEW t \in Threads, NEW from \in Labels \ {"loop", "done"},
         NEW to \in Labels, Goto(t, from, to)
  PROVE  /\ pc' \in [Threads -> Labels] /\ pc[t] = from /\ pc'[t] = to
         /\ pc[t] \in Labels \ {"loop", "done"}
         /\ \A s \in Threads : s # t => pc'[s] = pc[s]
  BY DEF TypeOK, Goto

(* Every step keeps the types. *)
LEMMA NextTypeOK == TypeOK /\ [Next]_vars => TypeOK'
<1> SUFFICES ASSUME TypeOK, [Next]_vars PROVE TypeOK'
  OBVIOUS
<1> USE DEF TypeOK, counters, locals
<1> DEFINE Pushed == \A p \in Producers : pc[p] \in Labels \ {"loop", "done"} => value[p] \in Nat
           Moved(t) == /\ pc' \in [Threads -> Labels]
                       /\ pc[t] \in Labels \ {"loop", "done"}
                       /\ \A s \in Threads : s # t => pc'[s] = pc[s]
<1>0. /\ \A c \in Consumers : c \in Threads /\ c \notin Producers
      /\ \A p \in Producers : p \in Threads
  BY DEF Threads
<1>1. ASSUME NEW p \in Producers, Produce(p) PROVE TypeOK'
  <2>1. /\ pc' \in [Threads -> Labels]
        /\ \A q \in Producers : q # p => pc'[q] = pc[q]
    BY <1>0, <1>1 DEF Produce, Goto, Labels, Ticketed, Waiting, Accessing, Checking
  <2>2. /\ value' \in [Threads -> Nat \cup {Nothing}]
        /\ value'[p] \in Nat
        /\ \A q \in Producers : q # p => value'[q] = value[q]
    BY <1>0, <1>1 DEF Produce
  <2>3. Pushed'
    BY <2>1, <2>2
  <2> QED BY <1>1, <2>1, <2>2, <2>3 DEF Produce
<1>2. ASSUME NEW c \in Consumers, Consume(c) PROVE TypeOK'
  <2>1. pc' \in [Threads -> Labels] /\ \A q \in Producers : pc'[q] = pc[q]
    BY <1>0, <1>2 DEF Consume, Goto, Labels, Ticketed, Waiting, Accessing, Checking
  <2>2. Pushed'
    BY <1>2, <2>1 DEF Consume
  <2> QED BY <1>2, <2>1, <2>2 DEF Consume
<1>3. ASSUME NEW t \in Threads, CheckFirst(t) PROVE TypeOK'
  <2>1. Moved(t)
    BY <1>3, Moves DEF CheckFirst, Labels, Checking
  <2>2. Pushed'
    BY <1>0, <1>3, <2>1 DEF CheckFirst
  <2>3. seen' \in [Threads -> Nat]
    BY <1>3 DEF CheckFirst
  <2> QED BY <1>3, <2>1, <2>2, <2>3 DEF CheckFirst
<1>4. ASSUME NEW t \in Threads, CheckSecond(t) PROVE TypeOK'
  <2>1. Moved(t)
    BY <1>4, Moves DEF CheckSecond, Labels, Checking
  <2>2. Pushed'
    BY <1>0, <1>4, <2>1 DEF CheckSecond
  <2> QED BY <1>4, <2>1, <2>2 DEF CheckSecond
<1>5. ASSUME NEW t \in Threads, TakeTicket(t) PROVE TypeOK'
  <2>1. Moved(t)
    BY <1>5, Moves DEF TakeTicket, Labels, Ticketed, Waiting
  <2>2. Pushed'
    BY <1>0, <1>5, <2>1 DEF TakeTicket
  <2>3. /\ ticket' \in [Threads -> Nat]
        /\ head_ticket' \in Nat /\ tail_ticket' \in Nat
    <3>1. CASE t \in Producers
      <4>1. /\ ticket' = [ticket EXCEPT ![t] = head_ticket]
            /\ head_ticket' = head_ticket + 1
            /\ UNCHANGED tail_ticket
        BY <1>5, <3>1 DEF TakeTicket
      <4> QED BY <4>1
    <3>2. CASE t \notin Producers
      <4>1. /\ ticket' = [ticket EXCEPT ![t] = tail_ticket]
            /\ tail_ticket' = tail_ticket + 1
            /\ UNCHANGED head_ticket
        BY <1>5, <3>2 DEF TakeTicket
      <4> QED BY <4>1
    <3> QED BY <3>1, <3>2
  <2> QED BY <1>5, <2>1, <2>2, <2>3 DEF TakeTicket
<1>6. ASSUME NEW t \in Threads, LoadHead(t) PROVE TypeOK'
  <2>1. Moved(t)
    BY <1>6, Moves DEF LoadHead, Labels, Ticketed, Waiting
  <2>2. Pushed'
    BY <1>0, <1>6, <2>1 DEF LoadHead
  <2> QED BY <1>6, <2>1, <2>2 DEF LoadHead
<1>7. ASSUME NEW t \in Threads, LoadTail(t) PROVE TypeOK'
  <2>1. Moved(t)
    BY <1>7, Moves DEF LoadTail, Labels, Ticketed, Waiting, Accessing
  <2>2. Pushed'
    BY <1>0, <1>7, <2>1 DEF LoadTail
  <2> QED BY <1>7, <2>1, <2>2 DEF LoadTail
<1>8. ASSUME NEW p \in Producers, Write(p) PROVE TypeOK'
  <2>1. Moved(p)
    BY <1>0, <1>8, Moves DEF Write, Labels, Ticketed, Accessing
  <2>2. buffer' \in [0..N - 1 -> Nat \cup {Nothing}]
    BY <1>0, <1>8, SlotInBuffer DEF Write
  <2> QED BY <1>0, <1>8, <2>1, <2>2 DEF Write
<1>9. ASSUME NEW c \in Consumers, Read(c) PROVE TypeOK'
  <2>1. Moved(c)
    BY <1>0, <1>9, Moves DEF Read, Labels, Ticketed, Accessing
  <2>2. value' \in [Threads -> Nat \cup {Nothing}] /\ \A p \in Producers : value'[p] = value[p]
    BY <1>0, <1>9, SlotInBuffer DEF Read
  <2>3. Pushed'
    BY <1>0, <2>1, <2>2
  <2> QED BY <1>9, <2>1, <2>2, <2>3 DEF Read
<1>10. ASSUME NEW p \in Producers, AdvanceHead(p) PROVE TypeOK'
  <2>1. Moved(p)
    BY <1>0, <1>10, Moves DEF AdvanceHead, Labels, Ticketed, Accessing
  <2>2. Pushed'
    BY <1>0, <1>10, <2>1 DEF AdvanceHead
  <2> QED BY <1>10, <2>1, <2>2 DEF AdvanceHead
<1>11. ASSUME NEW c \in Consumers, AdvanceTail(c) PROVE TypeOK'
  <2>1. Moved(c)
    BY <1>0, <1>11, Moves DEF AdvanceTail, Labels, Ticketed, Accessing
  <2>2. result' \in [Consumers -> Nat \cup {Nothing}]
    BY <1>0, <1>11 DEF AdvanceTail
  <2>3. Pushed'
    BY <1>0, <1>11, <2>1 DEF AdvanceTail
  <2> QED BY <1>11, <2>1, <2>2, <2>3 DEF AdvanceTail
<1>12. CASE UNCHANGED vars
  BY <1>12 DEF vars
<1> QED
  BY <1>0, <1>1, <1>2, <1>3, <1>4, <1>5, <1>6, <1>7, <1>8, <1>9, <1>10, <1>11, <1>12
  DEF Next, Push, Pop, Enter

(* Every variable always holds a value of its type. *)
THEOREM TypeCorrect == Spec => []TypeOK
  BY InitTypeOK, NextTypeOK, PTL DEF Spec

-----------------------------------------------------------------------------
LEMMA InitTurns == Init => Turns
<1> SUFFICES ASSUME Init PROVE Turns
  OBVIOUS
<1>1. \A t \in Threads : pc[t] = "loop"
  BY DEF Init
<1>2. \A t \in Threads : pc[t] \notin Ticketed /\ pc[t] \notin Accessing
  BY <1>1 DEF Ticketed, Waiting, Accessing
<1>3. InOrder
  BY DEF Init, InOrder
<1>4. InHand(Producers, head, head_ticket) /\ InHand(Consumers, tail, tail_ticket) /\ Served
  BY <1>2 DEF InHand, Served, Threads
<1>5. SeenPast /\ SlotKept
  BY <1>1 DEF SeenPast, SlotKept
<1> QED BY <1>3, <1>4, <1>5 DEF Turns

(* A step of t that leaves the counters, the tickets and the buffer alone    *)
(* keeps the turns if t does not move into or within the accesses.           *)
LEMMA IdleTurns ==
  ASSUME TypeOK, Turns, NEW t \in Threads,
         UNCHANGED <<counters, buffer, ticket>>,
         \A s \in Threads : s # t => pc'[s] = pc[s] /\ seen'[s] = seen[s] /\ value'[s] = value[s],
         pc'[t] \notin Accessing,
         pc'[t] \in Ticketed => pc[t] \in Ticketed,
         pc'[t] \in {"load tail", "try load tail"} => seen'[t] <= head
  PROVE  Turns'
<1> USE DEF Turns, counters
<1>0. \A p \in Producers : p \in Threads
  BY DEF Threads
<1>1. \A c \in Consumers : c \in Threads
  BY DEF Threads
<1>2. InOrder'
  BY DEF InOrder
<1>3. InHand(Producers, head, head_ticket)'
  BY <1>0 DEF InHand
<1>4. InHand(Consumers, tail, tail_ticket)'
  BY <1>1 DEF InHand
<1>5. Served'
  BY <1>0, <1>1 DEF Served
<1>6. SeenPast'
  BY DEF SeenPast
<1>7. SlotKept'
  BY DEF SlotKept, Accessing
<1> QED BY <1>2, <1>3, <1>4, <1>5, <1>6, <1>7

(* Taking a ticket: it is the highest handed out, so nobody else has it.     *)
LEMMA TakeTicketTurns ==
  ASSUME TypeOK, Turns, NEW t \in Threads, TakeTicket(t)
  PROVE  Turns'
<1> USE DEF Turns
<1>9. /\ head \in Int /\ tail \in Int /\ head_ticket \in Int /\ tail_ticket \in Int /\ N \in Int
      /\ ticket \in [Threads -> Int]
  BY DEF TypeOK
<1>0. /\ \A p \in Producers : p \in Threads
      /\ \A c \in Consumers : c \in Threads /\ c \notin Producers
  BY DEF Threads
<1>1. /\ \A s \in Threads : s # t => pc'[s] = pc[s]
      /\ pc'[t] \in {"load head", "try load head"}
      /\ UNCHANGED <<head, tail, buffer, seen, value>>
  BY DEF TakeTicket, Goto, TypeOK
<1>2. UNCHANGED <<head, tail>>
  BY DEF TakeTicket
<1>3. pc'[t] \notin Accessing /\ pc'[t] # "advance" /\ pc'[t] \notin {"load tail", "try load tail"}
  BY <1>1 DEF Accessing
<1>4. SeenPast'
  BY <1>1, <1>3 DEF SeenPast
<1>5. CASE t \in Producers
  <2>1. /\ head_ticket' = head_ticket + 1
        /\ tail_ticket' = tail_ticket
    BY <1>5 DEF TakeTicket
  <2>2. ticket'[t] = head_ticket /\ \A s \in Threads : s # t => ticket'[s] = ticket[s]
    <3>1. ticket' = [ticket EXCEPT ![t] = head_ticket]
      BY <1>0, <1>5 DEF TakeTicket
    <3> QED BY <1>9, <3>1
  <2>3. InOrder'
    BY <1>2, <1>9, <2>1 DEF InOrder
  <2>4. InHand(Producers, head, head_ticket)'
    <3>1. \A s \in Producers : s # t /\ pc'[s] \in Ticketed =>
            head' <= ticket'[s] /\ ticket'[s] < head_ticket
      BY <1>0, <1>1, <2>2 DEF InHand
    <3>2. \A r, s \in Producers : r # t /\ s # t /\ r # s /\ pc'[r] \in Ticketed /\ pc'[s] \in Ticketed =>
            ticket'[r] # ticket'[s]
      BY <1>0, <1>1, <2>2 DEF InHand
    <3>3. head' <= head_ticket /\ \A s \in Producers : ticket'[s] \in Int
      BY <1>0, <1>2, <1>9, <2>2 DEF InOrder
    <3>4. \A s \in Producers : s # t /\ pc'[s] \in Ticketed => ticket'[s] < head_ticket'
      BY <1>9, <2>1, <3>1, <3>3
    <3>5. ticket'[t] < head_ticket'
      BY <1>9, <2>1, <2>2
    <3>6. \A s \in Producers : s # t /\ pc'[s] \in Ticketed => ticket'[s] # ticket'[t]
      BY <1>9, <2>2, <3>1, <3>3
    <3>7. \A s \in Producers : pc'[s] \in Ticketed => head' <= ticket'[s] /\ ticket'[s] < head_ticket'
      BY <2>2, <3>1, <3>3, <3>4, <3>5
    <3>8. \A r, s \in Producers : r # s /\ pc'[r] \in Ticketed /\ pc'[s] \in Ticketed => ticket'[r] # ticket'[s]
      BY <3>2, <3>6
    <3> QED BY <3>7, <3>8 DEF InHand, Ticketed, Waiting, Accessing
  <2>5. InHand(Consumers, tail, tail_ticket)'
    BY <1>0, <1>1, <1>5, <2>1, <2>2 DEF InHand
  <2>6. Served'
    BY <1>0, <1>1, <1>3, <1>5, <2>2 DEF Served
  <2>7. SlotKept'
    BY <1>1, <1>3, <2>2 DEF SlotKept
  <2> QED BY <1>4, <2>3, <2>4, <2>5, <2>6, <2>7
<1>6. CASE t \in Consumers
  <2>1. /\ tail_ticket' = tail_ticket + 1
        /\ head_ticket' = head_ticket
    BY <1>0, <1>6 DEF TakeTicket
  <2>2. ticket'[t] = tail_ticket /\ \A s \in Threads : s # t => ticket'[s] = ticket[s]
    <3>1. ticket' = [ticket EXCEPT ![t] = tail_ticket]
      BY <1>0, <1>6 DEF TakeTicket
    <3> QED BY <1>9, <3>1
  <2>3. InOrder'
    BY <1>2, <1>9, <2>1 DEF InOrder
  <2>4. InHand(Producers, head, head_ticket)'
    BY <1>0, <1>1, <1>6, <2>1, <2>2 DEF InHand
  <2>5. InHand(Consumers, tail, tail_ticket)'
    <3>1. \A s \in Consumers : s # t /\ pc'[s] \in Ticketed =>
            tail' <= ticket'[s] /\ ticket'[s] < tail_ticket
      BY <1>0, <1>1, <2>2 DEF InHand
    <3>2. \A r, s \in Consumers : r # t /\ s # t /\ r # s /\ pc'[r] \in Ticketed /\ pc'[s] \in Ticketed =>
            ticket'[r] # ticket'[s]
      BY <1>0, <1>1, <2>2 DEF InHand
    <3>3. tail' <= tail_ticket /\ \A s \in Consumers : ticket'[s] \in Int
      BY <1>0, <1>2, <1>9, <2>2 DEF InOrder
    <3>4. \A s \in Consumers : s # t /\ pc'[s] \in Ticketed => ticket'[s] < tail_ticket'
      BY <1>9, <2>1, <3>1, <3>3
    <3>5. ticket'[t] < tail_ticket'
      BY <1>9, <2>1, <2>2
    <3>6. \A s \in Consumers : s # t /\ pc'[s] \in Ticketed => ticket'[s] # ticket'[t]
      BY <1>9, <2>2, <3>1, <3>3
    <3>7. \A s \in Consumers : pc'[s] \in Ticketed => tail' <= ticket'[s] /\ ticket'[s] < tail_ticket'
      BY <2>2, <3>1, <3>3, <3>4, <3>5
    <3>8. \A r, s \in Consumers : r # s /\ pc'[r] \in Ticketed /\ pc'[s] \in Ticketed => ticket'[r] # ticket'[s]
      BY <3>2, <3>6
    <3> QED BY <3>7, <3>8 DEF InHand, Ticketed, Waiting, Accessing
  <2>6. Served'
    BY <1>0, <1>1, <1>3, <1>6, <2>2 DEF Served
  <2>7. SlotKept'
    BY <1>1, <1>3, <2>2 DEF SlotKept
  <2> QED BY <1>4, <2>3, <2>4, <2>5, <2>6, <2>7
<1> QED BY <1>5, <1>6 DEF Threads

(* The second load of the spin.  What was seen of head_ is at most what it   *)
(* is now, so the condition on the values seen holds of the queue.           *)
LEMMA LoadTailTurns ==
  ASSUME TypeOK, Turns, NEW t \in Threads, LoadTail(t)
  PROVE  Turns'
<1> USE DEF Turns, TypeOK
<1>0. /\ \A p \in Producers : p \in Threads
      /\ \A c \in Consumers : c \in Threads /\ c \notin Producers
  BY DEF Threads
<1>1. /\ \A s \in Threads : s # t => pc'[s] = pc[s]
      /\ pc[t] \in {"load tail", "try load tail"}
      /\ UNCHANGED <<counters, buffer, ticket, seen, value>>
  BY DEF LoadTail, Goto, locals
<1>2. pc[t] \in Ticketed /\ seen[t] <= head
  BY <1>1 DEF Ticketed, Waiting, SeenPast
<1>3. CASE IF t \in Producers THEN MayPush(t) ELSE MayPop(t)
  <2>1. pc'[t] = "access"
    BY <1>3 DEF LoadTail, Goto
  <2>2. pc'[t] # "advance" /\ pc'[t] \notin {"load tail", "try load tail"}
    BY <2>1
  <2>3. InOrder'
    BY <1>1 DEF InOrder, counters
  <2>4. InHand(Producers, head, head_ticket)'
    BY <1>0, <1>1, <1>2 DEF InHand, counters
  <2>5. InHand(Consumers, tail, tail_ticket)'
    BY <1>0, <1>1, <1>2 DEF InHand, counters
  <2>6. t \in Producers => ticket[t] = head /\ head - tail < N
    BY <1>2, <1>3 DEF MayPush, InHand
  <2>7. t \in Consumers => ticket[t] = tail /\ tail < head
    BY <1>0, <1>2, <1>3 DEF MayPop
  <2>8. Served'
    BY <1>0, <1>1, <2>6, <2>7 DEF Served, counters
  <2>9. SeenPast' /\ SlotKept'
    BY <1>1, <2>2 DEF SeenPast, SlotKept, counters
  <2> QED BY <2>3, <2>4, <2>5, <2>8, <2>9
<1>4. CASE ~ IF t \in Producers THEN MayPush(t) ELSE MayPop(t)
  <2>1. pc'[t] \in {"load head", "try load head"}
    BY <1>4 DEF LoadTail, Goto
  <2>2. pc'[t] \notin Accessing /\ pc'[t] \notin {"load tail", "try load tail"}
    BY <2>1 DEF Accessing
  <2> QED BY <1>1, <1>2, <2>2, IdleTurns
<1> QED BY <1>3, <1>4

(* Writing the slot: the head's slot is nobody else's.                       *)
LEMMA WriteTurns ==
  ASSUME TypeOK, Turns, NEW p \in Producers, Write(p)
  PROVE  Turns'
<1> USE DEF Turns
<1>0. /\ \A q \in Producers : q \in Threads
      /\ \A c \in Consumers : c \in Threads /\ c \notin Producers
  BY DEF Threads
<1>1. /\ \A s \in Threads : s # p => pc'[s] = pc[s]
      /\ pc[p] = "access" /\ pc'[p] = "advance"
  BY <1>0 DEF Write, Goto, TypeOK
<1>2. UNCHANGED <<head, tail, head_ticket, tail_ticket, ticket, seen, value>>
  BY DEF Write, counters, locals
<1>3. pc[p] \in Accessing /\ pc[p] \in Ticketed /\ pc'[p] \notin {"load tail", "try load tail"}
  BY <1>1 DEF Accessing, Ticketed
<1>4. InOrder' /\ SeenPast'
  BY <1>1, <1>2, <1>3 DEF InOrder, SeenPast
<1>5. InHand(Producers, head, head_ticket)' /\ InHand(Consumers, tail, tail_ticket)'
  BY <1>0, <1>1, <1>2, <1>3 DEF InHand
<1>6. Served'
  BY <1>0, <1>1, <1>2, <1>3 DEF Served
<1>7. SlotKept'
  <2>1. ticket[p] = head /\ head - tail < N /\ head \in Nat /\ tail \in Nat
    BY <1>3 DEF Served, TypeOK
  <2>2. /\ \A i \in 0..N - 1 : i # head % N => buffer'[i] = buffer[i]
        /\ buffer'[head % N] = value[p]
    BY <2>1, SlotInBuffer DEF Write, TypeOK
  <2>3. ASSUME NEW q \in Producers, q # p, pc[q] = "advance" PROVE FALSE
    <3>1. pc[q] \in Accessing /\ pc[q] \in Ticketed
      BY <2>3 DEF Accessing, Ticketed
    <3> QED BY <1>3, <2>1, <2>3, <3>1 DEF InHand, Served
  <2>4. ASSUME NEW c \in Consumers, pc[c] = "advance"
        PROVE  buffer'[ticket[c] % N] = buffer[ticket[c] % N]
    <3>1. ticket[c] = tail /\ tail < head
      BY <2>4 DEF Accessing, Served
    <3>2. tail % N # head % N /\ tail % N \in 0..N - 1
      BY <2>1, <3>1, SlotsDiffer, SlotInBuffer
    <3> QED BY <2>2, <3>1, <3>2
  <2>5. \A t \in Threads : t # p /\ pc[t] = "advance" => buffer'[ticket[t] % N] = value[t]
    BY <1>0, <2>3, <2>4 DEF SlotKept, Threads
  <2> QED BY <1>1, <1>2, <2>1, <2>2, <2>5 DEF SlotKept
<1> QED BY <1>4, <1>5, <1>6, <1>7

(* Reading the slot. *)
LEMMA ReadTurns ==
  ASSUME TypeOK, Turns, NEW c \in Consumers, Read(c)
  PROVE  Turns'
<1> USE DEF Turns
<1>0. /\ \A q \in Producers : q \in Threads
      /\ \A d \in Consumers : d \in Threads /\ d \notin Producers
  BY DEF Threads
<1>1. /\ \A s \in Threads : s # c => pc'[s] = pc[s]
      /\ pc[c] = "access" /\ pc'[c] = "advance"
  BY <1>0 DEF Read, Goto, TypeOK
<1>2. UNCHANGED <<head, tail, head_ticket, tail_ticket, ticket, seen, buffer>>
  BY DEF Read, counters
<1>3. pc[c] \in Accessing /\ pc[c] \in Ticketed /\ pc'[c] \notin {"load tail", "try load tail"}
  BY <1>1 DEF Accessing, Ticketed
<1>4. InOrder' /\ SeenPast'
  BY <1>1, <1>2, <1>3 DEF InOrder, SeenPast
<1>5. InHand(Producers, head, head_ticket)' /\ InHand(Consumers, tail, tail_ticket)'
  BY <1>0, <1>1, <1>2, <1>3 DEF InHand
<1>6. Served'
  BY <1>0, <1>1, <1>2, <1>3 DEF Served
<1>7. SlotKept'
  <2>1. value'[c] = buffer[ticket[c] % N] /\ \A t \in Threads : t # c => value'[t] = value[t]
    BY <1>0 DEF Read, TypeOK
  <2> QED BY <1>1, <1>2, <2>1 DEF SlotKept
<1> QED BY <1>4, <1>5, <1>6, <1>7

(* Handing the push position on: the tickets left are beyond the old head.   *)
LEMMA AdvanceHeadTurns ==
  ASSUME TypeOK, Turns, NEW p \in Producers, AdvanceHead(p)
  PROVE  Turns'
<1> USE DEF Turns
<1>0. /\ \A q \in Producers : q \in Threads
      /\ \A c \in Consumers : c \in Threads /\ c \notin Producers
  BY DEF Threads
<1>1. /\ \A s \in Threads : s # p => pc'[s] = pc[s]
      /\ pc[p] = "advance" /\ pc'[p] = "loop"
  BY <1>0 DEF AdvanceHead, Goto, TypeOK
<1>2. /\ UNCHANGED <<tail, head_ticket, tail_ticket, ticket, seen, value, buffer>>
      /\ head' = head + 1
  BY DEF AdvanceHead, locals
<1>3. /\ pc[p] \in Accessing /\ pc[p] \in Ticketed
      /\ pc'[p] \notin Accessing /\ pc'[p] \notin Ticketed
      /\ pc'[p] \notin {"load tail", "try load tail"}
  BY <1>1 DEF Accessing, Waiting, Ticketed
<1>4. head \in Int /\ tail \in Int /\ head_ticket \in Int /\ tail_ticket \in Int /\ N \in Int
      /\ ticket \in [Threads -> Int] /\ seen \in [Threads -> Int]
  BY DEF TypeOK
<1>5. ticket[p] = head /\ head - tail < N /\ head < head_ticket
  BY <1>3 DEF Served, InHand
<1>6. InOrder'
  BY <1>2, <1>4, <1>5 DEF InOrder
<1>7. InHand(Producers, head, head_ticket)'
  <2>1. \A q \in Producers : q # p /\ pc[q] \in Ticketed =>
          /\ head <= ticket[q] /\ ticket[q] # head /\ ticket[q] < head_ticket
    BY <1>3, <1>5 DEF InHand
  <2>2. \A q \in Producers : q # p /\ pc[q] \in Ticketed => head + 1 <= ticket[q] /\ ticket[q] < head_ticket
    BY <1>0, <1>4, <2>1
  <2> QED BY <1>0, <1>1, <1>2, <1>3, <2>2 DEF InHand
<1>8. InHand(Consumers, tail, tail_ticket)'
  BY <1>0, <1>1, <1>2 DEF InHand
<1>9. Served'
  <2>1. \A q \in Producers : q # p => pc[q] \notin Accessing
    BY <1>3, <1>5 DEF Served, InHand, Ticketed
  <2>2. tail < head => tail < head + 1
    BY <1>4
  <2> QED BY <1>0, <1>1, <1>2, <1>3, <2>1, <2>2 DEF Served
<1>10. SeenPast'
  <2>1. \A t \in Threads : seen[t] <= head => seen[t] <= head + 1
    BY <1>4
  <2> QED BY <1>1, <1>2, <1>3, <2>1 DEF SeenPast
<1>11. SlotKept'
  BY <1>1, <1>2 DEF SlotKept
<1> QED BY <1>6, <1>7, <1>8, <1>9, <1>10, <1>11

(* Handing the pop position on. *)
LEMMA AdvanceTailTurns ==
  ASSUME TypeOK, Turns, NEW c \in Consumers, AdvanceTail(c)
  PROVE  Turns'
<1> USE DEF Turns
<1>0. /\ \A p \in Producers : p \in Threads /\ p # c
      /\ \A d \in Consumers : d \in Threads
  BY DEF Threads
<1>1. /\ \A s \in Threads : s # c => pc'[s] = pc[s]
      /\ pc[c] = "advance" /\ pc'[c] = "loop"
  BY <1>0 DEF AdvanceTail, Goto, TypeOK
<1>2. /\ UNCHANGED <<head, head_ticket, tail_ticket, ticket, seen, value, buffer>>
      /\ tail' = tail + 1
  BY DEF AdvanceTail, locals
<1>3. /\ pc[c] \in Accessing /\ pc[c] \in Ticketed
      /\ pc'[c] \notin Accessing /\ pc'[c] \notin Ticketed
      /\ pc'[c] \notin {"load tail", "try load tail"}
  BY <1>1 DEF Accessing, Waiting, Ticketed
<1>4. head \in Int /\ tail \in Int /\ head_ticket \in Int /\ tail_ticket \in Int /\ N \in Int
      /\ ticket \in [Threads -> Int]
  BY DEF TypeOK
<1>5. ticket[c] = tail /\ tail < head /\ tail < tail_ticket
  BY <1>3 DEF Served, InHand
<1>6. InOrder'
  BY <1>2, <1>4, <1>5 DEF InOrder
<1>7. InHand(Producers, head, head_ticket)'
  BY <1>0, <1>1, <1>2 DEF InHand
<1>8. InHand(Consumers, tail, tail_ticket)'
  <2>1. \A d \in Consumers : d # c /\ pc[d] \in Ticketed =>
          /\ tail <= ticket[d] /\ ticket[d] # tail /\ ticket[d] < tail_ticket
    BY <1>3, <1>5 DEF InHand
  <2>2. \A d \in Consumers : d # c /\ pc[d] \in Ticketed => tail + 1 <= ticket[d] /\ ticket[d] < tail_ticket
    BY <1>0, <1>4, <2>1
  <2> QED BY <1>0, <1>1, <1>2, <1>3, <2>2 DEF InHand
<1>9. Served'
  <2>1. \A d \in Consumers : d # c => pc[d] \notin Accessing
    BY <1>3, <1>5 DEF Served, InHand, Ticketed
  <2>2. head - tail < N => head - (tail + 1) < N
    BY <1>4
  <2> QED BY <1>0, <1>1, <1>2, <1>3, <2>1, <2>2 DEF Served
<1>10. SeenPast'
  BY <1>1, <1>2, <1>3 DEF SeenPast
<1>11. SlotKept'
  BY <1>1, <1>2 DEF SlotKept
<1> QED BY <1>6, <1>7, <1>8, <1>9, <1>10, <1>11

(* Every step keeps the turns. *)
LEMMA NextTurns == TypeOK /\ Turns /\ [Next]_vars => Turns'
<1> SUFFICES ASSUME TypeOK, Turns, [Next]_vars PROVE Turns'
  OBVIOUS
<1>0. (\A p \in Producers : p \in Threads) /\ (\A c \in Consumers : c \in Threads)
  BY DEF Threads
<1>1. ASSUME NEW p \in Producers, Produce(p) PROVE Turns'
  <2>1. /\ \A s \in Threads : s # p => pc'[s] = pc[s] /\ seen'[s] = seen[s] /\ value'[s] = value[s]
        /\ pc'[p] \in {"ticket", "check", "done"}
    BY <1>0, <1>1 DEF Produce, Goto, TypeOK
  <2>2. pc'[p] \notin Accessing /\ pc'[p] \notin Ticketed /\ pc'[p] \notin {"load tail", "try load tail"}
    BY <2>1 DEF Accessing, Waiting, Ticketed
  <2>3. UNCHANGED <<counters, buffer, ticket>>
    BY <1>1 DEF Produce
  <2> QED BY <1>0, <2>1, <2>2, <2>3, IdleTurns
<1>2. ASSUME NEW c \in Consumers, Consume(c) PROVE Turns'
  <2>1. /\ \A s \in Threads : s # c => pc'[s] = pc[s] /\ seen'[s] = seen[s] /\ value'[s] = value[s]
        /\ pc'[c] \in {"ticket", "check", "done"}
    BY <1>0, <1>2 DEF Consume, Goto, TypeOK, locals
  <2>2. pc'[c] \notin Accessing /\ pc'[c] \notin Ticketed /\ pc'[c] \notin {"load tail", "try load tail"}
    BY <2>1 DEF Accessing, Waiting, Ticketed
  <2>3. UNCHANGED <<counters, buffer, ticket>>
    BY <1>2 DEF Consume, locals
  <2> QED BY <1>0, <2>1, <2>2, <2>3, IdleTurns
<1>3. ASSUME NEW t \in Threads, CheckFirst(t) PROVE Turns'
  <2>1. /\ \A s \in Threads : s # t => pc'[s] = pc[s] /\ seen'[s] = seen[s] /\ value'[s] = value[s]
        /\ pc'[t] \in {"check tail", "check head"}
    BY <1>3 DEF CheckFirst, Goto, TypeOK
  <2>2. pc'[t] \notin Accessing /\ pc'[t] \notin Ticketed /\ pc'[t] \notin {"load tail", "try load tail"}
    BY <2>1 DEF Accessing, Waiting, Ticketed
  <2>3. UNCHANGED <<counters, buffer, ticket>>
    BY <1>3 DEF CheckFirst
  <2> QED BY <2>1, <2>2, <2>3, IdleTurns
<1>4. ASSUME NEW t \in Threads, CheckSecond(t) PROVE Turns'
  <2>1. /\ \A s \in Threads : s # t => pc'[s] = pc[s] /\ seen'[s] = seen[s] /\ value'[s] = value[s]
        /\ pc'[t] \in {"check", "try ticket"}
    BY <1>4 DEF CheckSecond, Goto, TypeOK, locals
  <2>2. pc'[t] \notin Accessing /\ pc'[t] \notin Ticketed /\ pc'[t] \notin {"load tail", "try load tail"}
    BY <2>1 DEF Accessing, Waiting, Ticketed
  <2>3. UNCHANGED <<counters, buffer, ticket>>
    BY <1>4 DEF CheckSecond, locals
  <2> QED BY <2>1, <2>2, <2>3, IdleTurns
<1>5. ASSUME NEW t \in Threads, TakeTicket(t) PROVE Turns'
  BY <1>5, TakeTicketTurns
<1>6. ASSUME NEW t \in Threads, LoadHead(t) PROVE Turns'
  <2>1. /\ \A s \in Threads : s # t => pc'[s] = pc[s] /\ seen'[s] = seen[s] /\ value'[s] = value[s]
        /\ pc[t] \in {"load head", "try load head"} /\ pc'[t] \in {"load tail", "try load tail"}
        /\ seen'[t] = head
    BY <1>6 DEF LoadHead, Goto, TypeOK
  <2>2. pc'[t] \notin Accessing /\ pc[t] \in Ticketed
    BY <2>1 DEF Accessing, Waiting, Ticketed
  <2>4. head <= head
    BY DEF TypeOK
  <2>3. UNCHANGED <<counters, buffer, ticket>>
    BY <1>6 DEF LoadHead
  <2> QED BY <2>1, <2>2, <2>3, <2>4, IdleTurns
<1>7. ASSUME NEW t \in Threads, LoadTail(t) PROVE Turns'
  BY <1>7, LoadTailTurns
<1>8. ASSUME NEW p \in Producers, Write(p) PROVE Turns'
  BY <1>8, WriteTurns
<1>9. ASSUME NEW c \in Consumers, Read(c) PROVE Turns'
  BY <1>9, ReadTurns
<1>10. ASSUME NEW p \in Producers, AdvanceHead(p) PROVE Turns'
  BY <1>10, AdvanceHeadTurns
<1>11. ASSUME NEW c \in Consumers, AdvanceTail(c) PROVE Turns'
  BY <1>11, AdvanceTailTurns
<1>12. CASE UNCHANGED vars
  BY <1>12 DEF vars, counters, locals, Turns, InOrder, InHand, Served, SeenPast, SlotKept
<1> QED
  BY <1>0, <1>1, <1>2, <1>3, <1>4, <1>5, <1>6, <1>7, <1>8, <1>9, <1>10, <1>11, <1>12
  DEF Next, Push, Pop, Enter

(* Tickets in hand are distinct and whoever is past its spin is the one      *)
(* whose turn it is: the invariant the spins of push and pop rely on.        *)
THEOREM TurnsAreKept == Spec => []Turns
  BY InitTypeOK, NextTypeOK, InitTurns, NextTurns, PTL DEF Spec

(* The assertion of push and pop never fails. *)
THEOREM SizeIsInBounds == Spec => []SizeInBounds
<1>1. TypeOK /\ Turns => SizeInBounds
  BY DEF TypeOK, Turns, InOrder, SizeInBounds
<1> QED BY <1>1, TypeCorrect, TurnsAreKept, PTL

(* buffer_ needs no lock: no two threads are in the same slot at once.       *)
THEOREM SlotsAreExclusive == Spec => []SlotExclusive
<1>1. ASSUME TypeOK, Turns PROVE SlotExclusive
  <2> SUFFICES ASSUME NEW s \in Threads, NEW t \in Threads, s # t,
                      pc[s] \in Accessing, pc[t] \in Accessing
               PROVE  /\ {s, t} \cap Producers # {} /\ {s, t} \cap Consumers # {}
                      /\ ticket[s] % N # ticket[t] % N
    BY DEF SlotExclusive
  <2>1. pc[s] \in Ticketed /\ pc[t] \in Ticketed
    BY DEF Ticketed
  <2>2. ~(s \in Producers /\ t \in Producers)
    BY <1>1, <2>1 DEF Turns, InHand, Served
  <2>3. ~(s \in Consumers /\ t \in Consumers)
    BY <1>1, <2>1 DEF Turns, InHand, Served
  <2>4. ASSUME NEW p \in Producers, NEW c \in Consumers, pc[p] \in Accessing, pc[c] \in Accessing
        PROVE  ticket[p] % N # ticket[c] % N
    <3>1. ticket[p] = head /\ head - tail < N /\ ticket[c] = tail /\ tail < head
      BY <1>1, <2>4 DEF Turns, Served
    <3>2. head \in Nat /\ tail \in Nat
      BY <1>1 DEF TypeOK
    <3> QED BY <3>1, <3>2, SlotsDiffer
  <2>5. \/ s \in Producers /\ t \in Consumers
        \/ t \in Producers /\ s \in Consumers
    BY <2>2, <2>3 DEF Threads
  <2>6. ticket[s] % N # ticket[t] % N
    BY <2>4, <2>5
  <2> QED BY <2>5, <2>6
<1> QED BY <1>1, TypeCorrect, TurnsAreKept, PTL

-----------------------------------------------------------------------------
(* What the window of positions t..h - 1 of a buffer is as a sequence.       *)
Slots == Nat \cup {Nothing}
Window(b, t, h) == [i \in 1..h - t |-> b[(t + i - 1) % N]]

LEMMA WindowIsSeq ==
  ASSUME NEW b \in [0..N - 1 -> Slots], NEW t \in Nat, NEW h \in Nat, t <= h
  PROVE  /\ Window(b, t, h) \in Seq(Slots)
         /\ Len(Window(b, t, h)) = h - t
         /\ \A i \in 1..h - t : Window(b, t, h)[i] = b[(t + i - 1) % N]
<1>1. ASSUME NEW i \in 1..h - t PROVE (t + i - 1) % N \in 0..N - 1
  <2>1. t + i - 1 \in Nat
    OBVIOUS
  <2> QED BY <2>1, SlotInBuffer
<1>2. Window(b, t, h) \in [1..h - t -> Slots]
  BY <1>1 DEF Window
<1>3. h - t \in Nat
  OBVIOUS
<1>4. Window(b, t, h) \in Seq(Slots)
  BY <1>2, <1>3, SeqDef
<1>5. Len(Window(b, t, h)) = h - t
  BY <1>2, <1>3, <1>4, LenProperties
<1> QED BY <1>4, <1>5 DEF Window

(* Filling the head's slot and advancing appends to the window.              *)
LEMMA WindowAppend ==
  ASSUME NEW b \in [0..N - 1 -> Slots], NEW t \in Nat, NEW h \in Nat, t <= h
  PROVE  Window(b, t, h + 1) = Append(Window(b, t, h), b[h % N])
<1> DEFINE w == Window(b, t, h)
           x == Window(b, t, h + 1)
           e == b[h % N]
<1>1. w \in Seq(Slots) /\ Len(w) = h - t /\ \A i \in 1..h - t : w[i] = b[(t + i - 1) % N]
  BY WindowIsSeq
<1>2. h + 1 \in Nat /\ t <= h + 1 /\ (h + 1) - t = (h - t) + 1 /\ h - t \in Nat
  OBVIOUS
<1>3. x \in Seq(Slots) /\ Len(x) = (h + 1) - t /\ \A i \in 1..(h + 1) - t : x[i] = b[(t + i - 1) % N]
  BY <1>2, WindowIsSeq
<1>4. e \in Slots
  BY SlotInBuffer
<1> HIDE DEF w, x, e
<1>5. /\ Append(w, e) \in Seq(Slots)
      /\ Len(Append(w, e)) = (h - t) + 1
      /\ \A i \in 1..h - t : Append(w, e)[i] = w[i]
      /\ Append(w, e)[(h - t) + 1] = e
  BY <1>1, <1>4, AppendProperties
<1>6. x[(h - t) + 1] = e
  <2>1. (h - t) + 1 \in 1..(h + 1) - t /\ t + ((h - t) + 1) - 1 = h
    BY <1>2
  <2> QED BY <1>3, <2>1 DEF e
<1>7. \A i \in 1..h - t : x[i] = w[i]
  BY <1>1, <1>2, <1>3
<1>8. \A i \in 1..Len(x) : x[i] = Append(w, e)[i]
  <2> SUFFICES ASSUME NEW i \in 1..(h - t) + 1 PROVE x[i] = Append(w, e)[i]
    BY <1>2, <1>3
  <2>1. i \in 1..h - t \/ i = (h - t) + 1
    BY <1>2
  <2> QED BY <1>5, <1>6, <1>7, <2>1
<1>9. Len(x) = Len(Append(w, e))
  BY <1>2, <1>3, <1>5
<1> QED BY <1>3, <1>5, <1>8, <1>9, SeqEqual DEF w, x, e

(* Advancing the tail drops the window's head.                               *)
LEMMA WindowTail ==
  ASSUME NEW b \in [0..N - 1 -> Slots], NEW t \in Nat, NEW h \in Nat, t < h
  PROVE  /\ Window(b, t, h) # <<>>
         /\ Head(Window(b, t, h)) = b[t % N]
         /\ Window(b, t + 1, h) = Tail(Window(b, t, h))
<1> DEFINE w == Window(b, t, h)
           x == Window(b, t + 1, h)
<1>1. w \in Seq(Slots) /\ Len(w) = h - t /\ \A i \in 1..h - t : w[i] = b[(t + i - 1) % N]
  <2>1. t <= h
    OBVIOUS
  <2> QED BY <2>1, WindowIsSeq
<1>2. t + 1 \in Nat /\ t + 1 <= h /\ h - (t + 1) = (h - t) - 1 /\ h - t \in Nat \ {0}
  OBVIOUS
<1>3. x \in Seq(Slots) /\ Len(x) = h - (t + 1) /\ \A i \in 1..h - (t + 1) : x[i] = b[((t + 1) + i - 1) % N]
  BY ZenonT(30), <1>2, WindowIsSeq
<1> HIDE DEF w, x
<1>4. w # <<>>
  BY <1>1, <1>2, EmptySeq
<1>5. Head(w) = b[t % N]
  <2>1. 1 \in 1..h - t /\ t + 1 - 1 = t
    BY <1>2
  <2> QED BY <1>1, <1>4, <2>1
<1>6. /\ Tail(w) \in Seq(Slots) /\ Len(Tail(w)) = (h - t) - 1
      /\ \A i \in 1..(h - t) - 1 : Tail(w)[i] = w[i + 1]
  BY <1>1, <1>4, HeadTailProperties
<1>7. \A i \in 1..(h - t) - 1 : x[i] = Tail(w)[i]
  <2> SUFFICES ASSUME NEW i \in 1..(h - t) - 1 PROVE x[i] = Tail(w)[i]
    OBVIOUS
  <2>1. i + 1 \in 1..h - t /\ t + (i + 1) - 1 = (t + 1) + i - 1
    BY <1>2
  <2> QED BY <1>1, <1>2, <1>3, <1>6, <2>1
<1>8. x = Tail(w)
  BY <1>2, <1>3, <1>6, <1>7, SeqEqual
<1> QED BY <1>4, <1>5, <1>8 DEF w, x

-----------------------------------------------------------------------------
(* The initial queue is the empty FIFO.                                      *)
LEMMA FifoInit == Init => Fifo!Init
<1> SUFFICES ASSUME Init PROVE Fifo!Init
  OBVIOUS
<1>1. head = 0 /\ tail = 0 /\ buffer \in [0..N - 1 -> Slots]
  BY DEF Init, Slots
<1>2. Contents = Window(buffer, tail, head)
  BY DEF Contents, Window
<1>3. Contents \in Seq(Slots) /\ Len(Contents) = 0
  BY <1>1, <1>2, WindowIsSeq
<1>4. Contents = <<>>
  BY <1>3, EmptySeq
<1> QED BY <1>4 DEF Init, Fifo!Init

(* A step that moves neither position, and writes no slot between them, is   *)
(* not visible in the FIFO; head_++ puts an item and tail_++ takes one.      *)
LEMMA FifoStep == TypeOK /\ Turns /\ [Next]_vars => [FifoNext]_<<Contents, result>>
<1> SUFFICES ASSUME TypeOK, Turns, [Next]_vars PROVE [FifoNext]_<<Contents, result>>
  OBVIOUS
<1>1. /\ head \in Nat /\ tail \in Nat /\ tail <= head /\ buffer \in [0..N - 1 -> Slots]
      /\ \A p \in Producers : p \in Threads
      /\ \A c \in Consumers : c \in Threads
  BY DEF TypeOK, Turns, InOrder, Slots, Threads
<1>2. /\ Contents = Window(buffer, tail, head)
      /\ Contents' = Window(buffer', tail', head')
  BY DEF Contents, Window
<1>3. Len(Contents) = head - tail
  BY <1>1, <1>2, WindowIsSeq
<1>4. ASSUME UNCHANGED <<head, tail, buffer, result>> PROVE [FifoNext]_<<Contents, result>>
  BY <1>2, <1>4
<1>5. ASSUME NEW p \in Producers, Write(p) PROVE [FifoNext]_<<Contents, result>>
  <2>1. pc[p] \in Accessing /\ ticket[p] = head /\ head - tail < N
    BY <1>5 DEF Write, Goto, Accessing, Turns, Served
  <2>2. UNCHANGED <<head, tail, result>> /\ buffer' = [buffer EXCEPT ![head % N] = value[p]]
    BY <1>5, <2>1 DEF Write, counters
  <2>3. ASSUME NEW i \in 1..head - tail
        PROVE  buffer'[(tail + i - 1) % N] = buffer[(tail + i - 1) % N]
    <3>1. tail + i - 1 \in Nat /\ tail + i - 1 < head /\ head - (tail + i - 1) < N
      BY <1>1, <2>1
    <3>2. (tail + i - 1) % N # head % N /\ (tail + i - 1) % N \in 0..N - 1
      BY <1>1, <3>1, SlotsDiffer, SlotInBuffer
    <3> QED BY <1>1, <2>2, <3>2
  <2>4. Contents' = Contents
    BY <2>2, <2>3 DEF Contents
  <2> QED BY <2>2, <2>4
<1>6. ASSUME NEW p \in Producers, AdvanceHead(p) PROVE FifoNext
  <2>1. pc[p] = "advance" /\ ticket[p] = head /\ head - tail < N
    BY <1>6 DEF AdvanceHead, Goto, Accessing, Turns, Served
  <2>2. buffer[head % N] = value[p]
    BY <1>1, <2>1 DEF Turns, SlotKept
  <2>3. head' = head + 1 /\ UNCHANGED <<tail, buffer, result>>
    BY <1>6 DEF AdvanceHead
  <2>4. Contents' = Append(Contents, value[p])
    <3>1. Window(buffer, tail, head + 1) = Append(Window(buffer, tail, head), buffer[head % N])
      BY <1>1, WindowAppend
    <3> QED BY <1>2, <2>2, <2>3, <3>1
  <2> QED BY <1>3, <2>1, <2>3, <2>4 DEF FifoNext, Fifo!Put
<1>7. ASSUME NEW c \in Consumers, AdvanceTail(c) PROVE FifoNext
  <2>1. pc[c] = "advance" /\ ticket[c] = tail /\ tail < head
    BY <1>7 DEF AdvanceTail, Goto, Accessing, Turns, Served
  <2>2. buffer[tail % N] = value[c]
    BY <1>1, <2>1 DEF Turns, SlotKept
  <2>3. tail' = tail + 1 /\ UNCHANGED <<head, buffer>> /\ result' = [result EXCEPT ![c] = value[c]]
    BY <1>7 DEF AdvanceTail
  <2>4. Contents # <<>> /\ Head(Contents) = value[c] /\ Contents' = Tail(Contents)
    BY <1>1, <1>2, <2>1, <2>2, <2>3, WindowTail
  <2> QED BY <2>3, <2>4 DEF FifoNext, Fifo!Take
<1>8. ASSUME NEW t \in Threads, Enter(t) PROVE UNCHANGED <<head, tail, buffer, result>>
  <2>1. CASE CheckFirst(t)
    BY <2>1 DEF CheckFirst, counters
  <2>2. CASE CheckSecond(t)
    BY <2>2 DEF CheckSecond, counters
  <2>3. CASE TakeTicket(t)
    BY <2>3 DEF TakeTicket
  <2>4. CASE LoadHead(t)
    BY <2>4 DEF LoadHead, counters
  <2>5. CASE LoadTail(t)
    BY <2>5 DEF LoadTail, counters
  <2> QED BY <1>8, <2>1, <2>2, <2>3, <2>4, <2>5 DEF Enter
<1>9. ASSUME NEW p \in Producers, Produce(p) PROVE UNCHANGED <<head, tail, buffer, result>>
  BY <1>9 DEF Produce, counters
<1>10. ASSUME NEW c \in Consumers, Consume(c) PROVE UNCHANGED <<head, tail, buffer, result>>
  BY <1>10 DEF Consume, counters
<1>11. ASSUME NEW c \in Consumers, Read(c) PROVE UNCHANGED <<head, tail, buffer, result>>
  BY <1>11 DEF Read, counters
<1>12. CASE UNCHANGED vars
  BY <1>4, <1>12 DEF vars, counters
<1> QED
  BY <1>1, <1>4, <1>5, <1>6, <1>7, <1>8, <1>9, <1>10, <1>11, <1>12 DEF Next, Push, Pop

(* The queue implements a bounded FIFO queue.                                *)
THEOREM QueueIsFifo == Spec => FifoSpec
  BY FifoInit, FifoStep, TypeCorrect, TurnsAreKept, PTL DEF Spec, FifoSpec
=============================================================================
