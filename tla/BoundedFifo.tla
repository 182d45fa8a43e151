----------------------------- MODULE BoundedFifo -----------------------------
(***************************************************************************)
(* What a bounded multi-producer multi-consumer queue promises: items come *)
(* out in the order they went in, each to one consumer, and never more     *)
(* than Capacity are inside (any number if Capacity is zero).              *)
(***************************************************************************)
EXTENDS Naturals, Sequences

CONSTANTS Capacity, Consumers, Items, NoItem

VARIABLES
  queue,  \* the items inside, oldest first
  got     \* got[c]: the item consumer c took last

vars == <<queue, got>>

Init == queue = <<>> /\ got = [c \in Consumers |-> NoItem]

Put(item) ==
  /\ Capacity = 0 \/ Len(queue) < Capacity
  /\ queue' = Append(queue, item)
  /\ UNCHANGED got

Take(c) ==
  /\ queue # <<>>
  /\ got' = [got EXCEPT ![c] = Head(queue)]
  /\ queue' = Tail(queue)

Next == (\E item \in Items : Put(item)) \/ (\E c \in Consumers : Take(c))

Spec == Init /\ [][Next]_vars
=============================================================================
