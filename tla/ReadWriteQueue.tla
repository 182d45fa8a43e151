--------------------------- MODULE ReadWriteQueue ---------------------------
(***************************************************************************)
(* readwrite_locked_queue of src/exercises/read_write_queue.cpp: writers   *)
(* append to one deque, readers take from another, and a reader that finds *)
(* its own empty swaps them.  A pop holds readmutex_ to its end, also      *)
(* while it sleeps on readable_; each section under writemutex_ is one     *)
(* action.  The condition of push(vector) is the wrong way round           *)
(* in the code: it waits while there IS room for the whole vector.         *)
(***************************************************************************)
EXTENDS Integers, Sequences

CONSTANTS
  Writers, Readers,
  Batches,  \* the arguments of the calls: sequences of items
  Bound,    \* the template parameter; zero is "unbounded"
  Cap       \* bounds the model: no writer is followed past so many items

VARIABLES
  writequeue, readqueue,
  pc,     \* "idle", "asleep" on writable_ or readable_, or "notified"
  call    \* call[w]: the overload w has called, and its argument

vars == <<writequeue, readqueue, pc, call>>

Threads == Writers \cup Readers
NoCall == [of |-> "none", arg |-> <<>>]
Calls == {[of |-> "item", arg |-> b] : b \in {x \in Batches : Len(x) = 1}}
           \cup {[of |-> "vector", arg |-> b] : b \in {x \in Batches : Bound = 0 \/ Len(x) <= Bound}}

Init ==
  /\ writequeue = <<>> /\ readqueue = <<>>
  /\ pc = [t \in Threads |-> "idle"]
  /\ call = [w \in Writers |-> NoCall]

Asleep(group) == {t \in group : pc[t] = "asleep"}

HasWriteCapacity(n) == Bound = 0 \/ Len(writequeue) + n <= Bound
IsWriteFull == Bound > 0 /\ Len(writequeue) >= Bound

MustWait(c) == IF c.of = "item" THEN IsWriteFull ELSE HasWriteCapacity(Len(c.arg))

(* push, from where it has writemutex_, to its return or to the wait *)
PushLockedSilently(w, c) ==  \* mutant: forgets readable_.notify_one()
  \/ /\ MustWait(c)
     /\ pc' = [pc EXCEPT ![w] = "asleep"]
     /\ call' = [call EXCEPT ![w] = c]
     /\ UNCHANGED <<writequeue, readqueue>>
  \/ /\ ~MustWait(c) /\ Len(writequeue \o c.arg) <= Cap
     /\ writequeue' = writequeue \o c.arg
     /\ pc' = [pc EXCEPT ![w] = "idle"]
     /\ call' = [call EXCEPT ![w] = NoCall]
     /\ UNCHANGED readqueue

PushLocked(w, c) ==
  \/ /\ MustWait(c)
     /\ pc' = [pc EXCEPT ![w] = "asleep"]
     /\ call' = [call EXCEPT ![w] = c]
     /\ UNCHANGED <<writequeue, readqueue>>
  \/ /\ ~MustWait(c) /\ Len(writequeue \o c.arg) <= Cap
     /\ writequeue' = writequeue \o c.arg
     /\ pc' = [t \in Threads |-> IF t = w THEN "idle"
                                 ELSE IF t \in Asleep(Readers) THEN "notified" ELSE pc[t]]
     /\ call' = [call EXCEPT ![w] = NoCall]
     /\ UNCHANGED readqueue

Push(w) == pc[w] = "idle" /\ \E c \in Calls : PushLocked(w, c)
ResumePush(w) == pc[w] = "notified" /\ PushLocked(w, call[w])

SwapOverwriting(r) ==  \* mutant: swaps before testing whether its own deque is empty
  /\ \/ /\ readqueue \o writequeue = <<>>
        /\ pc' = [pc EXCEPT ![r] = "asleep"]
        /\ UNCHANGED <<writequeue, readqueue>>
     \/ /\ writequeue # <<>>
        /\ writequeue' = readqueue /\ readqueue' = Tail(writequeue)
        /\ pc' = [t \in Threads |-> IF t = r THEN "idle"
                                    ELSE IF t \in Asleep(Writers) THEN "notified" ELSE pc[t]]
  /\ UNCHANGED call

(* pop, from where it has the mutexes it needs.  A notified reader swaps again. *)
PopLocked(r) ==
  /\ \/ /\ readqueue # <<>>
        /\ readqueue' = Tail(readqueue)
        /\ pc' = [pc EXCEPT ![r] = "idle"]
        /\ UNCHANGED writequeue
     \/ /\ readqueue \o writequeue = <<>>
        /\ pc' = [pc EXCEPT ![r] = "asleep"]
        /\ UNCHANGED <<writequeue, readqueue>>
     \/ /\ readqueue = <<>> /\ writequeue # <<>>
        /\ readqueue' = Tail(writequeue) /\ writequeue' = <<>>
        /\ pc' = [t \in Threads |-> IF t = r THEN "idle"
                                    ELSE IF t \in Asleep(Writers) THEN "notified" ELSE pc[t]]
  /\ UNCHANGED call

(* Whoever is in pop, asleep or not, has readmutex_. *)
Pop(r) == (\A s \in Readers : pc[s] = "idle") /\ PopLocked(r)
ResumePop(r) == pc[r] = "notified" /\ PopLocked(r)

WakeSpuriously(t) ==
  /\ pc[t] = "asleep"
  /\ pc' = [pc EXCEPT ![t] = "notified"]
  /\ UNCHANGED <<writequeue, readqueue, call>>

Next ==
  \/ \E w \in Writers : Push(w) \/ ResumePush(w)
  \/ \E r \in Readers : Pop(r) \/ ResumePop(r)
  \/ \E t \in Threads : WakeSpuriously(t)

Spec == Init /\ [][Next]_vars

(* A notified thread gets the mutex some time.  Nobody has to call again. *)
Fairness ==
  /\ \A w \in Writers : WF_vars(ResumePush(w))
  /\ \A r \in Readers : WF_vars(ResumePop(r))

-----------------------------------------------------------------------------
Inside == readqueue \o writequeue

(* Two deques are one queue: a step adds one whole vector at the end ("contents *)
(* must appear atomically"), or takes the oldest item, or changes nothing. *)
OneQueue ==
  [][\/ Inside' = Inside
     \/ \E b \in Batches : Inside' = Inside \o b
     \/ Inside # <<>> /\ Inside' = Tail(Inside)]_vars

(* push(item) keeps the bound, push(vector) does not: the writers' deque is*)
(* within it or was left by a vector that found no room, and a sleeping    *)
(* push(item) has no room: nobody forgot to wake it.                       *)
SleepingItemsHaveNoRoom ==
  \A w \in Asleep(Writers) : call[w].of = "item" => IsWriteFull

(* A reader does not stay asleep, with readmutex_ in its hands, beside an item. *)
ReaderWakes == []<>(Inside = <<>> \/ Asleep(Readers) = {})
=============================================================================
