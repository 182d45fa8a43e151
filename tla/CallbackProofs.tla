--------------------------- MODULE CallbackProofs ---------------------------
(***************************************************************************)
(* Proofs about what the repository has of callbacks, as MCCallbacks puts  *)
(* it side by side: functions that own their target, the signals of core,  *)
(* the signal library, delegates and properties, coroutines and fibers.    *)
(* Each has an inductive invariant of its own and a theorem about its own  *)
(* specification; that the composition implements every one of those gives *)
(* the invariants that its run checks.                                     *)
(***************************************************************************)
EXTENDS MCCallbacks, Functions, FiniteSetTheorems, SequenceTheorems, WellFoundedInduction, TLAPS

(* Zenon does not know numbers. *)
LEMMA FewDiffer == 0 # 1 /\ 0 # 2 /\ 1 # 2
  OBVIOUS

-----------------------------------------------------------------------------
(* Functions that own their target: as long as nothing undefined was done,   *)
(* the functions that are alive and the targets that live go together, each  *)
(* with one other; and types differ only once a target was assigned over.    *)
FnTypes == Function!Callables \cup {Function!Null}
OwnerOf(A) == [alive : BOOLEAN, type : FnTypes, address : A]
FnType == OwnerOf(0..MaxTargets)
FunctionTypeOK ==
  /\ fn_sig \in Function!Signatures
  /\ fn_fn \in [Functions -> FnType]
  /\ fn_heap \in [Function!Targets -> [type : FnTypes, live : BOOLEAN]]
OwnersDiffer ==
  \A w, v \in Functions : fn_fn[w].address = fn_fn[v].address => w = v \/ fn_fn[w].address = 0
DeadOwnNothing == \A w \in Functions : fn_fn[w].alive \/ fn_fn[w].address = 0
OwnedLive == \A w \in Functions : fn_fn[w].address = 0 \/ fn_heap[fn_fn[w].address].live
LiveAreOwned ==
  \A a \in Function!Targets : fn_heap[a].live => \E w \in Functions : fn_fn[w].address = a
FreshAreDead == \A a \in Function!Targets : fn_heap[a].type = Function!Null => ~fn_heap[a].live
TypesAgree ==
  fn_overwritten \/ \A w \in Functions :
    fn_fn[w].address = 0 \/ fn_fn[w].type = fn_heap[fn_fn[w].address].type
OwnersMatchTargets ==
  /\ OwnersDiffer /\ DeadOwnNothing /\ OwnedLive /\ LiveAreOwned /\ FreshAreDead /\ TypesAgree
TargetsAreOwned ==
  FunctionTypeOK /\ Function!TypesAreKept /\ (Function!Defined => OwnersMatchTargets)

LEMMA AliveChanged ==
  ASSUME NEW A, NEW x \in OwnerOf(A), NEW b \in BOOLEAN
  PROVE  /\ [x EXCEPT !.alive = b] = [alive |-> b, type |-> x.type, address |-> x.address]
         /\ [x EXCEPT !.alive = b] \in OwnerOf(A)
  BY DEF OwnerOf

LEMMA TypeChanged ==
  ASSUME NEW A, NEW x \in OwnerOf(A), NEW t \in FnTypes
  PROVE  /\ [x EXCEPT !.type = t] = [alive |-> x.alive, type |-> t, address |-> x.address]
         /\ [x EXCEPT !.type = t] \in OwnerOf(A)
  BY DEF OwnerOf

LEMMA AddressChanged ==
  ASSUME NEW A, NEW x \in OwnerOf(A), NEW a \in A
  PROVE  /\ [x EXCEPT !.address = a] = [alive |-> x.alive, type |-> x.type, address |-> a]
         /\ [x EXCEPT !.address = a] \in OwnerOf(A)
  BY DEF OwnerOf

LEMMA StorageSwapped ==
  ASSUME NEW F, NEW A, NEW f \in [F -> OwnerOf(A)], NEW w \in F, NEW v \in F, w # v
  PROVE  LET g == Function!SwapStorage(w, v, f)
         IN  /\ g \in [F -> OwnerOf(A)]
             /\ g[w] = [alive |-> f[w].alive, type |-> f[w].type, address |-> f[v].address]
             /\ g[v] = [alive |-> f[v].alive, type |-> f[v].type, address |-> f[w].address]
             /\ \A u \in F : u # w /\ u # v => g[u] = f[u]
<1> DEFINE x == [f[w] EXCEPT !.address = f[v].address]
           y == [f[v] EXCEPT !.address = f[w].address]
           g == [f EXCEPT ![w] = x, ![v] = y]
<1>1. f[w] \in OwnerOf(A) /\ f[v] \in OwnerOf(A)
  OBVIOUS
<1>2. /\ x = [alive |-> f[w].alive, type |-> f[w].type, address |-> f[v].address]
      /\ y = [alive |-> f[v].alive, type |-> f[v].type, address |-> f[w].address]
  BY <1>1 DEF OwnerOf
<1>3. x \in OwnerOf(A) /\ y \in OwnerOf(A)
  BY <1>1, <1>2 DEF OwnerOf
<1>4. Function!SwapStorage(w, v, f) = g
  BY DEF Function!SwapStorage
<1> HIDE DEF x, y
<1>5. g \in [F -> OwnerOf(A)] /\ g[w] = x /\ g[v] = y
      /\ \A u \in F : u # w /\ u # v => g[u] = f[u]
  BY <1>3
<1> QED BY <1>2, <1>4, <1>5

LEMMA FunctionBounds == MaxTargets \in Nat
  BY CallbackAssumption, Zenon DEF CallbackAssumption

(* A function without a target. *)
LEMMA FunctionEmpty ==
  ASSUME NEW A, 0 \in A, NEW t \in FnTypes
  PROVE  /\ Function!Empty \in OwnerOf(A)
         /\ Function!Empty = [alive |-> TRUE, type |-> Function!Null, address |-> 0]
         /\ Function!Dead = [alive |-> FALSE, type |-> Function!Null, address |-> 0]
         /\ [Function!Empty EXCEPT !.type = t] \in OwnerOf(A)
         /\ [Function!Empty EXCEPT !.type = t] = [alive |-> TRUE, type |-> t, address |-> 0]
<1> DEFINE x == Function!Empty
<1>1. x = [alive |-> TRUE, type |-> Function!Null, address |-> 0]
  BY DEF Function!Empty, Function!Nowhere
<1>2. x \in OwnerOf(A)
  BY <1>1 DEF OwnerOf, FnTypes
<1>3. Function!Dead = [x EXCEPT !.alive = FALSE]
  BY DEF Function!Dead
<1>4. FALSE \in BOOLEAN
  OBVIOUS
<1>5. x.alive = TRUE /\ x.type = Function!Null /\ x.address = 0
  BY <1>1
<1> HIDE DEF x
<1>6. /\ [x EXCEPT !.alive = FALSE] = [alive |-> FALSE, type |-> x.type, address |-> x.address]
      /\ [x EXCEPT !.type = t] = [alive |-> x.alive, type |-> t, address |-> x.address]
      /\ [x EXCEPT !.type = t] \in OwnerOf(A)
  BY <1>2, <1>4, AliveChanged, TypeChanged
<1> QED BY <1>1, <1>2, <1>3, <1>5, <1>6 DEF x

LEMMA FunctionConstructed ==
  ASSUME NEW F, NEW A, 0 \in A, NEW f \in [F -> OwnerOf(A)],
         NEW w \in F, NEW v \in F, w # v
  PROVE  Function!Constructed(w, v, f)[w].address = f[v].address
<1> DEFINE x == [Function!Empty EXCEPT !.type = f[v].type]
           h == [f EXCEPT ![w] = x]
           g == Function!SwapStorage(w, v, h)
<1>1. f[v].type \in FnTypes
  BY DEF OwnerOf
<1>2. x \in OwnerOf(A)
  BY <1>1, FunctionEmpty
<1> HIDE DEF x
<1>3. h \in [F -> OwnerOf(A)] /\ h[v] = f[v]
  BY <1>2
<1>4. Function!Constructed(w, v, f) = g
  BY Zenon DEF Function!Constructed, x
<1>5. g = Function!SwapStorage(w, v, h)
  OBVIOUS
<1> HIDE DEF g, h
<1>6. /\ g \in [F -> OwnerOf(A)]
      /\ g[w] = [alive |-> h[w].alive, type |-> h[w].type, address |-> h[v].address]
      /\ g[v] = [alive |-> h[v].alive, type |-> h[v].type, address |-> h[w].address]
      /\ \A u \in F : u # w /\ u # v => g[u] = h[u]
  BY <1>3, <1>5, StorageSwapped
<1> QED BY <1>3, <1>4, <1>6

LEMMA EmptyFunction ==
  /\ Function!Empty \in FnType /\ Function!Dead \in FnType
  /\ Function!Empty.alive /\ Function!Empty.address = 0
  /\ Function!Dead = [alive |-> FALSE, type |-> Function!Null, address |-> 0]
  /\ ~Function!Dead.alive /\ Function!Dead.address = 0
  /\ \A t \in FnTypes : /\ [Function!Empty EXCEPT !.type = t] \in FnType
                        /\ [Function!Empty EXCEPT !.type = t] =
                             [alive |-> TRUE, type |-> t, address |-> 0]
<1>1. 0 \in 0..MaxTargets /\ Function!Null \in FnTypes
  BY FunctionBounds DEF FnTypes
<1>2. /\ Function!Empty = [alive |-> TRUE, type |-> Function!Null, address |-> 0]
      /\ Function!Dead = [alive |-> FALSE, type |-> Function!Null, address |-> 0]
      /\ Function!Empty \in FnType
  BY <1>1, FunctionEmpty DEF FnType
<1>3. Function!Dead \in FnType
  BY <1>1, <1>2 DEF FnType, OwnerOf
<1>4. ASSUME NEW t \in FnTypes
      PROVE  /\ [Function!Empty EXCEPT !.type = t] \in FnType
             /\ [Function!Empty EXCEPT !.type = t] =
                  [alive |-> TRUE, type |-> t, address |-> 0]
  BY <1>1, FunctionEmpty DEF FnType
<1> QED BY <1>2, <1>3, <1>4

LEMMA FunctionInit == Function!Init => TargetsAreOwned
<1> SUFFICES ASSUME Function!Init PROVE TargetsAreOwned
  OBVIOUS
<1>1. MaxTargets \in Nat
  BY FunctionBounds
<1>2. Function!Dead = [alive |-> FALSE, type |-> Function!Null, address |-> 0]
  BY EmptyFunction
<1>3. FunctionTypeOK
  <2>1. Function!Dead \in FnType
    BY EmptyFunction
  <2>2. [type |-> Function!Null, live |-> FALSE] \in [type : FnTypes, live : BOOLEAN]
    BY DEF FnTypes
  <2> QED BY <2>1, <2>2 DEF Function!Init, FunctionTypeOK
<1>4. \A w \in Functions : fn_fn[w].address = 0
  BY <1>2 DEF Function!Init
<1>5. \A a \in Function!Targets : ~fn_heap[a].live
  BY DEF Function!Init
<1>6. OwnersMatchTargets
  BY <1>4, <1>5
  DEF OwnersMatchTargets, OwnersDiffer, DeadOwnNothing, OwnedLive, LiveAreOwned, FreshAreDead,
      TypesAgree
<1>7. Function!TypesAreKept
  BY DEF Function!Init, Function!TypesAreKept
<1> QED BY <1>3, <1>6, <1>7 DEF TargetsAreOwned

(* Two functions exchange their targets. *)
LEMMA FunctionExchanges ==
  ASSUME FunctionTypeOK, OwnersMatchTargets, NEW w \in Functions, NEW v \in Functions, w # v,
         fn_fn'[w].address = fn_fn[v].address, fn_fn'[v].address = fn_fn[w].address,
         \A u \in Functions : u # w /\ u # v => fn_fn'[u] = fn_fn[u],
         \A u \in {w, v} : fn_fn'[u].alive \/ fn_fn'[u].address = 0,
         \/ fn_overwritten'
         \/ /\ ~fn_overwritten
            /\ fn_fn'[w].type = fn_fn[v].type \/ fn_fn'[w].address = 0
            /\ fn_fn'[v].type = fn_fn[w].type \/ fn_fn'[v].address = 0,
         fn_heap' = fn_heap
  PROVE  OwnersMatchTargets'
<1>1. OwnersDiffer'
  BY DEF OwnersMatchTargets, OwnersDiffer
<1>2. DeadOwnNothing'
  BY DEF OwnersMatchTargets, DeadOwnNothing
<1>3. OwnedLive'
  BY DEF OwnersMatchTargets, OwnedLive
<1>4. LiveAreOwned'
  <2> SUFFICES ASSUME NEW a \in Function!Targets, fn_heap[a].live
               PROVE  \E u \in Functions : fn_fn'[u].address = a
    BY DEF LiveAreOwned, Function!Targets
  <2>1. PICK u \in Functions : fn_fn[u].address = a
    BY DEF OwnersMatchTargets, LiveAreOwned
  <2> QED BY <2>1
<1>5. FreshAreDead'
  BY DEF OwnersMatchTargets, FreshAreDead, Function!Targets
<1>6. TypesAgree'
  BY DEF OwnersMatchTargets, TypesAgree
<1> QED BY <1>1, <1>2, <1>3, <1>4, <1>5, <1>6 DEF OwnersMatchTargets

LEMMA FunctionMoves ==
  ASSUME TargetsAreOwned, NEW w \in Functions, NEW v \in Functions,
         \/ Function!MoveConstruct(w, v) \/ Function!MoveAssign(w, v) \/ Function!Swap(w, v)
  PROVE  TargetsAreOwned'
<1>1. /\ w # v /\ fn_fn[v].alive /\ Function!Defined
      /\ UNCHANGED <<fn_sig, fn_heap, fn_undefined>>
  BY DEF Function!MoveConstruct, Function!MoveAssign, Function!Swap
<1>2. FunctionTypeOK /\ OwnersMatchTargets /\ fn_fn \in [Functions -> FnType]
  BY <1>1 DEF TargetsAreOwned, FunctionTypeOK
<1>3. /\ fn_fn[w] \in FnType /\ fn_fn[v] \in FnType
      /\ fn_fn[w].address \in 0..MaxTargets /\ fn_fn[v].address \in 0..MaxTargets
      /\ fn_fn[w].type \in FnTypes /\ fn_fn[v].type \in FnTypes
      /\ fn_fn[w].alive \in BOOLEAN /\ fn_fn[v].alive \in BOOLEAN
  BY <1>2 DEF FnType, OwnerOf
(* What all three do. *)
<1>4. /\ fn_fn' \in [Functions -> FnType]
      /\ fn_fn'[w].address = fn_fn[v].address /\ fn_fn'[v].address = fn_fn[w].address
      /\ \A u \in Functions : u # w /\ u # v => fn_fn'[u] = fn_fn[u]
      /\ \A u \in {w, v} : fn_fn'[u].alive \/ fn_fn'[u].address = 0
      /\ \/ fn_overwritten'
         \/ /\ ~fn_overwritten
            /\ fn_fn'[w].type = fn_fn[v].type \/ fn_fn'[w].address = 0
            /\ fn_fn'[v].type = fn_fn[w].type \/ fn_fn'[v].address = 0
  <2>1. CASE Function!MoveConstruct(w, v)
    <3> DEFINE x == [alive |-> TRUE, type |-> fn_fn[v].type, address |-> 0]
               f == [fn_fn EXCEPT ![w] = x]
    <3>1. fn_fn[w].address = 0 /\ fn_overwritten' = fn_overwritten
      BY <1>2, <2>1 DEF Function!MoveConstruct, OwnersMatchTargets, DeadOwnNothing
    <3>2. x = [Function!Empty EXCEPT !.type = fn_fn[v].type] /\ x \in FnType
      BY <1>3, EmptyFunction
    <3>3. fn_fn' = Function!SwapStorage(w, v, f)
      BY <2>1, <3>2 DEF Function!MoveConstruct, Function!Constructed
    <3>4. /\ f \in [Functions -> FnType] /\ f[w] = x /\ f[v] = fn_fn[v]
          /\ \A u \in Functions : u # w => f[u] = fn_fn[u]
      BY <1>1, <1>2, <3>2
    <3>5. f[w].alive /\ f[w].type = fn_fn[v].type /\ f[w].address = 0
      BY <3>4
    <3> HIDE DEF f, x
    <3>6. /\ fn_fn' \in [Functions -> FnType]
          /\ fn_fn'[w] = [alive |-> f[w].alive, type |-> f[w].type, address |-> f[v].address]
          /\ fn_fn'[v] = [alive |-> f[v].alive, type |-> f[v].type, address |-> f[w].address]
          /\ \A u \in Functions : u # w /\ u # v => fn_fn'[u] = f[u]
      BY <1>1, <3>3, <3>4, StorageSwapped DEF FnType
    <3>7. /\ fn_fn'[w].address = fn_fn[v].address /\ fn_fn'[v].address = fn_fn[w].address
          /\ fn_fn'[w].alive /\ fn_fn'[w].type = fn_fn[v].type
      BY <3>1, <3>4, <3>5, <3>6
    <3> QED BY <3>1, <3>4, <3>6, <3>7
  <2>2. CASE Function!MoveAssign(w, v)
    <3> DEFINE x == [fn_fn[w] EXCEPT !.type = fn_fn[v].type]
               f == [fn_fn EXCEPT ![w] = x]
    <3>1. x = [alive |-> fn_fn[w].alive, type |-> fn_fn[v].type, address |-> fn_fn[w].address]
      BY <1>3 DEF FnType, OwnerOf
    <3>2. x \in FnType
      BY <1>3, <3>1 DEF FnType, OwnerOf
    <3>3. /\ fn_fn' = Function!SwapStorage(w, v, f) /\ fn_fn[w].alive
          /\ fn_overwritten' = (fn_overwritten \/ fn_fn[w].address # 0)
      BY <2>2 DEF Function!MoveAssign, Function!Nowhere
    <3>4. /\ f \in [Functions -> FnType] /\ f[w] = x /\ f[v] = fn_fn[v]
          /\ \A u \in Functions : u # w => f[u] = fn_fn[u]
      BY <1>1, <1>2, <3>2
    <3>5. f[w].alive /\ f[w].type = fn_fn[v].type /\ f[w].address = fn_fn[w].address
      BY <3>1, <3>3, <3>4
    <3> HIDE DEF f, x
    <3>6. /\ fn_fn' \in [Functions -> FnType]
          /\ fn_fn'[w] = [alive |-> f[w].alive, type |-> f[w].type, address |-> f[v].address]
          /\ fn_fn'[v] = [alive |-> f[v].alive, type |-> f[v].type, address |-> f[w].address]
          /\ \A u \in Functions : u # w /\ u # v => fn_fn'[u] = f[u]
      BY <1>1, <3>3, <3>4, StorageSwapped DEF FnType
    <3>7. /\ fn_fn'[w].address = fn_fn[v].address /\ fn_fn'[v].address = fn_fn[w].address
          /\ fn_fn'[w].alive /\ fn_fn'[v].alive /\ fn_fn'[w].type = fn_fn[v].type
      BY <1>1, <3>4, <3>5, <3>6
    <3>8. fn_overwritten' \/ (~fn_overwritten /\ fn_fn'[v].address = 0)
      BY <3>3, <3>7
    <3> QED BY <3>4, <3>6, <3>7, <3>8
  <2>3. CASE Function!Swap(w, v)
    <3>1. /\ fn_fn' = [fn_fn EXCEPT ![w] = fn_fn[v], ![v] = fn_fn[w]] /\ fn_fn[w].alive
          /\ fn_overwritten' = fn_overwritten
      BY <2>3 DEF Function!Swap, Function!Swapped
    <3>2. /\ fn_fn' \in [Functions -> FnType] /\ fn_fn'[w] = fn_fn[v] /\ fn_fn'[v] = fn_fn[w]
          /\ \A u \in Functions : u # w /\ u # v => fn_fn'[u] = fn_fn[u]
      BY <1>1, <1>2, <1>3, <3>1
    <3> QED BY <1>1, <3>1, <3>2
  <2> QED BY <2>1, <2>2, <2>3
<1>5. OwnersMatchTargets'
  BY <1>1, <1>2, <1>4, FunctionExchanges
<1>6. FunctionTypeOK'
  BY <1>1, <1>2, <1>4 DEF FunctionTypeOK, Function!Targets
<1>7. Function!TypesAreKept'
  BY <1>1 DEF Function!Defined, Function!TypesAreKept
<1> QED BY <1>5, <1>6, <1>7 DEF TargetsAreOwned

(* A new target is made for a function that has none, or had another. *)
LEMMA FunctionMakes ==
  ASSUME TargetsAreOwned, NEW w \in Functions, NEW c \in Function!Callables,
         Function!Make(w, c) \/ Function!AssignTarget(w, c)
  PROVE  TargetsAreOwned'
<1>1. /\ Function!Defined /\ UNCHANGED fn_sig
      /\ FunctionTypeOK /\ OwnersMatchTargets
  BY DEF Function!Make, Function!AssignTarget, TargetsAreOwned
<1>2. fn_fn[w] \in FnType
  BY <1>1 DEF FunctionTypeOK
<1>3. PICK a \in Function!Fresh :
        /\ fn_heap' = [fn_heap EXCEPT ![a] = [type |-> c, live |-> TRUE]]
        /\ fn_fn' = [fn_fn EXCEPT ![w] = [alive |-> TRUE, type |-> c, address |-> a]]
  <2>1. CASE Function!Make(w, c)
    BY <2>1 DEF Function!Make, Function!New
  <2>2. CASE Function!AssignTarget(w, c)
    <3>1. PICK a \in Function!Fresh :
            /\ fn_heap' = [fn_heap EXCEPT ![a] = [type |-> c, live |-> TRUE]]
            /\ fn_fn' = [fn_fn EXCEPT ![w].type = c, ![w].address = a]
            /\ fn_fn[w].alive
      BY <2>2 DEF Function!AssignTarget, Function!New
    <3> DEFINE x == [fn_fn[w] EXCEPT !.type = c]
               y == [x EXCEPT !.address = a]
    <3>2. c \in FnTypes /\ a \in 0..MaxTargets /\ TRUE \in BOOLEAN
      BY FunctionBounds DEF FnTypes, Function!Fresh, Function!Targets
    <3>3. /\ x = [alive |-> TRUE, type |-> c, address |-> fn_fn[w].address] /\ x \in FnType
          /\ y = [alive |-> TRUE, type |-> c, address |-> a]
      <4>1. x = [alive |-> fn_fn[w].alive, type |-> c, address |-> fn_fn[w].address]
            /\ x \in FnType
        BY <1>2, <3>2, TypeChanged DEF FnType
      <4>2. fn_fn[w].alive = TRUE
        BY <1>2, <3>1 DEF FnType, OwnerOf
      <4> HIDE DEF x
      <4>3. y = [alive |-> x.alive, type |-> x.type, address |-> a]
        BY <3>2, <4>1, AddressChanged DEF FnType
      <4> QED BY <4>1, <4>2, <4>3
    <3> HIDE DEF x
    <3>4. fn_fn' = [fn_fn EXCEPT ![w] = y]
      BY <1>1, <3>1 DEF FunctionTypeOK, x
    <3> QED BY <3>1, <3>3, <3>4
  <2> QED BY <2>1, <2>2
<1>4. a \in Function!Targets /\ a # 0 /\ fn_heap[a].type = Function!Null /\ ~fn_heap[a].live
  BY <1>1, FunctionBounds
  DEF Function!Fresh, Function!Targets, OwnersMatchTargets, FreshAreDead
<1>5. c \in FnTypes /\ c # Function!Null
  BY DEF FnTypes, Function!Callables, Function!Null
<1> DEFINE x == [alive |-> TRUE, type |-> c, address |-> a]
           y == [type |-> c, live |-> TRUE]
<1>6. x \in FnType /\ y \in [type : FnTypes, live : BOOLEAN]
  BY <1>4, <1>5, FunctionBounds DEF FnType, OwnerOf, Function!Targets
<1>7. FunctionTypeOK'
  BY <1>1, <1>3, <1>4, <1>6 DEF FunctionTypeOK, Function!Targets
<1>8. /\ fn_fn'[w].address = a /\ fn_fn'[w].type = c /\ fn_fn'[w].alive
      /\ \A v \in Functions : v # w => fn_fn'[v] = fn_fn[v]
      /\ fn_heap'[a].type = c /\ fn_heap'[a].live
      /\ \A b \in Function!Targets : b # a => fn_heap'[b] = fn_heap[b]
  BY <1>1, <1>3, <1>4 DEF FunctionTypeOK
<1>9. \A v \in Functions : fn_fn[v].address # a
  BY <1>1, <1>4 DEF OwnersMatchTargets, OwnedLive
<1>10. \A v \in Functions : fn_fn[v].address = 0 \/ fn_fn[v].address \in Function!Targets
  BY <1>1, FunctionBounds DEF FunctionTypeOK, FnType, OwnerOf, Function!Targets
<1>11. Function!TypesAreKept'
       /\ (fn_overwritten' \/ (fn_fn[w].address = 0 /\ ~fn_overwritten))
       /\ (Function!Defined' => fn_fn[w].address = 0)
  <2>1. CASE Function!Make(w, c)
    BY <1>1, <2>1
    DEF Function!Make, Function!TypesAreKept, Function!Defined, OwnersMatchTargets, DeadOwnNothing
  <2>2. CASE Function!AssignTarget(w, c)
    BY <1>1, <2>2
    DEF Function!AssignTarget, Function!TypesAreKept, Function!Defined, Function!Nowhere
  <2> QED BY <2>1, <2>2
<1>12. ASSUME Function!Defined' PROVE OwnersMatchTargets'
  <2>1. OwnersDiffer' /\ DeadOwnNothing' /\ OwnedLive'
    BY <1>1, <1>4, <1>8, <1>9, <1>10
    DEF OwnersMatchTargets, OwnersDiffer, DeadOwnNothing, OwnedLive
  <2>2. LiveAreOwned'
    <3> SUFFICES ASSUME NEW b \in Function!Targets, fn_heap'[b].live
                 PROVE  \E u \in Functions : fn_fn'[u].address = b
      BY DEF LiveAreOwned, Function!Targets
    <3>1. CASE b = a
      BY <1>8, <3>1
    <3>2. CASE b # a
      <4>1. PICK u \in Functions : fn_fn[u].address = b
        BY <1>1, <1>8, <3>2 DEF OwnersMatchTargets, LiveAreOwned
      <4>2. b # 0
        BY FunctionBounds DEF Function!Targets
      <4> QED BY <1>8, <1>11, <1>12, <4>1, <4>2
    <3> QED BY <3>1, <3>2
  <2>3. FreshAreDead'
    BY <1>1, <1>5, <1>8 DEF OwnersMatchTargets, FreshAreDead, Function!Targets
  <2>4. TypesAgree'
    BY <1>1, <1>4, <1>8, <1>9, <1>10, <1>11 DEF OwnersMatchTargets, TypesAgree
  <2> QED BY <2>1, <2>2, <2>3, <2>4 DEF OwnersMatchTargets
<1> QED BY <1>7, <1>11, <1>12 DEF TargetsAreOwned

(* A target is released with its function, or before it is replaced by none. *)
LEMMA FunctionReleases ==
  ASSUME TargetsAreOwned, NEW w \in Functions, Function!Destroy(w)
  PROVE  TargetsAreOwned'
<1>1. /\ Function!Defined /\ UNCHANGED <<fn_sig, fn_overwritten>>
      /\ FunctionTypeOK /\ OwnersMatchTargets
      /\ fn_heap' = Function!Released(fn_heap, fn_fn[w])
      /\ fn_fn' = [fn_fn EXCEPT ![w] = Function!Dead]
      /\ fn_undefined' = Function!Misdeleted(fn_fn[w])
  BY DEF Function!Destroy, TargetsAreOwned
<1> DEFINE a == fn_fn[w].address
<1>2. /\ fn_fn' \in [Functions -> FnType]
      /\ ~fn_fn'[w].alive /\ fn_fn'[w].address = 0
      /\ \A v \in Functions : v # w => fn_fn'[v] = fn_fn[v]
  <2>1. Function!Dead \in FnType
    BY EmptyFunction
  <2>2. ~Function!Dead.alive /\ Function!Dead.address = 0
    BY EmptyFunction
  <2> QED BY <1>1, <2>1, <2>2 DEF FunctionTypeOK
<1>3. a = 0 \/ (a \in Function!Targets /\ a # 0)
  BY <1>1, FunctionBounds DEF FunctionTypeOK, FnType, OwnerOf, Function!Targets
<1>4. /\ fn_heap' \in [Function!Targets -> [type : FnTypes, live : BOOLEAN]]
      /\ \A b \in Function!Targets : /\ b # a => fn_heap'[b] = fn_heap[b]
                                     /\ b = a => ~fn_heap'[b].live
                                     /\ fn_heap'[b].type = fn_heap[b].type
  <2>1. CASE a = 0
    <3>1. fn_heap' = fn_heap
      BY <1>1, <2>1 DEF Function!Released, Function!Nowhere
    <3>2. \A b \in Function!Targets : b # 0
      BY FunctionBounds DEF Function!Targets
    <3> QED BY <1>1, <2>1, <3>1, <3>2 DEF FunctionTypeOK
  <2>2. CASE a \in Function!Targets /\ a # 0
    <3> DEFINE x == [fn_heap[a] EXCEPT !.live = FALSE]
    <3>1. fn_heap' = [fn_heap EXCEPT ![a] = x]
      BY <1>1, <2>2 DEF Function!Released, Function!Nowhere
    <3>2. fn_heap[a] \in [type : FnTypes, live : BOOLEAN]
      BY <1>1, <2>2 DEF FunctionTypeOK
    <3>3. x \in [type : FnTypes, live : BOOLEAN] /\ ~x.live /\ x.type = fn_heap[a].type
      BY <3>2
    <3> HIDE DEF x, a
    <3> QED BY <1>1, <2>2, <3>1, <3>3 DEF FunctionTypeOK
  <2> QED BY <1>3, <2>1, <2>2
<1>5. FunctionTypeOK'
  BY <1>1, <1>2, <1>4 DEF FunctionTypeOK, Function!Targets
<1>6. Function!TypesAreKept'
  BY <1>1
  DEF OwnersMatchTargets, TypesAgree, Function!Misdeleted, Function!Nowhere, Function!TypesAreKept,
      Function!Defined
<1>7. \A v \in Functions : v # w => fn_fn[v].address # a \/ fn_fn[v].address = 0
  BY <1>1 DEF OwnersMatchTargets, OwnersDiffer
<1>8. \A v \in Functions : fn_fn[v].address = 0 \/ fn_fn[v].address \in Function!Targets
  BY <1>1, FunctionBounds DEF FunctionTypeOK, FnType, OwnerOf, Function!Targets
<1> HIDE DEF a
<1>9. OwnersDiffer' /\ DeadOwnNothing' /\ OwnedLive'
  BY <1>1, <1>2, <1>4, <1>7, <1>8 DEF OwnersMatchTargets, OwnersDiffer, DeadOwnNothing, OwnedLive
<1>10. LiveAreOwned'
  <2> SUFFICES ASSUME NEW b \in Function!Targets, fn_heap'[b].live
               PROVE  \E u \in Functions : fn_fn'[u].address = b
    BY DEF LiveAreOwned, Function!Targets
  <2>1. b # a /\ fn_heap[b].live
    BY <1>4
  <2>2. PICK u \in Functions : fn_fn[u].address = b
    BY <1>1, <2>1 DEF OwnersMatchTargets, LiveAreOwned
  <2> QED BY <1>2, <2>1, <2>2 DEF a
<1>11. FreshAreDead'
  <2> SUFFICES ASSUME NEW b \in Function!Targets, fn_heap'[b].type = Function!Null
               PROVE  ~fn_heap'[b].live
    BY DEF FreshAreDead, Function!Targets, Function!Null
  <2> QED BY <1>1, <1>4 DEF OwnersMatchTargets, FreshAreDead
<1>12. TypesAgree'
  BY <1>1, <1>2, <1>4, <1>8 DEF OwnersMatchTargets, TypesAgree
<1> QED BY <1>5, <1>6, <1>9, <1>10, <1>11, <1>12 DEF TargetsAreOwned, OwnersMatchTargets

LEMMA FunctionRest ==
  ASSUME TargetsAreOwned, NEW w \in Functions, NEW value,
         Function!Default(w) \/ Function!AssignNull(w) \/ Function!Call(w, value)
  PROVE  TargetsAreOwned'
<1>1. CASE Function!Default(w)
  <2>1. /\ FunctionTypeOK /\ OwnersMatchTargets /\ fn_fn[w].address = 0
        /\ fn_fn' = [fn_fn EXCEPT ![w] = Function!Empty]
        /\ UNCHANGED <<fn_sig, fn_heap, fn_overwritten, fn_undefined>>
    BY <1>1 DEF TargetsAreOwned, Function!Default, OwnersMatchTargets, DeadOwnNothing
  <2>2. /\ fn_fn' \in [Functions -> FnType] /\ fn_fn'[w].alive /\ fn_fn'[w].address = 0
        /\ \A v \in Functions : v # w => fn_fn'[v] = fn_fn[v]
    <3>1. Function!Empty \in FnType /\ Function!Empty.alive /\ Function!Empty.address = 0
      BY EmptyFunction
    <3> QED BY <2>1, <3>1 DEF FunctionTypeOK
  <2>3. FunctionTypeOK'
    BY <2>1, <2>2 DEF FunctionTypeOK, Function!Targets
  <2>4. Function!TypesAreKept'
    BY <2>1 DEF TargetsAreOwned, Function!TypesAreKept
  <2>5. \A v \in Functions : fn_fn'[v].address = fn_fn[v].address
    BY <2>1, <2>2
  <2>6. OwnersDiffer' /\ DeadOwnNothing' /\ OwnedLive' /\ FreshAreDead'
    BY <2>1, <2>2, <2>5
    DEF OwnersMatchTargets, OwnersDiffer, DeadOwnNothing, OwnedLive, FreshAreDead, Function!Targets
  <2>7. LiveAreOwned' /\ TypesAgree'
    BY <2>1, <2>2, <2>5 DEF OwnersMatchTargets, LiveAreOwned, TypesAgree, Function!Targets
  <2> QED BY <2>3, <2>4, <2>6, <2>7 DEF TargetsAreOwned, OwnersMatchTargets
<1>2. CASE Function!AssignNull(w)
  <2>1. /\ FunctionTypeOK /\ fn_fn[w] \in FnType
        /\ UNCHANGED <<fn_sig, fn_fn>> /\ fn_undefined' = "no return"
        /\ fn_heap' = Function!Released(fn_heap, fn_fn[w])
    BY <1>2 DEF TargetsAreOwned, FunctionTypeOK, Function!AssignNull
  <2>2. fn_heap' \in [Function!Targets -> [type : FnTypes, live : BOOLEAN]]
    <3> DEFINE a == fn_fn[w].address
               x == [fn_heap[a] EXCEPT !.live = FALSE]
    <3>1. CASE a = 0
      BY <2>1, <3>1 DEF Function!Released, Function!Nowhere, FunctionTypeOK
    <3>2. CASE a # 0
      <4>1. a \in Function!Targets
        <5>1. a \in 0..MaxTargets
          BY <2>1 DEF FnType, OwnerOf
        <5> HIDE DEF a
        <5> QED BY <3>2, <5>1, FunctionBounds DEF Function!Targets
      <4>2. fn_heap' = [fn_heap EXCEPT ![a] = x]
        BY <2>1, <3>2 DEF Function!Released, Function!Nowhere
      <4>3. fn_heap[a] \in [type : FnTypes, live : BOOLEAN]
        BY <2>1, <4>1 DEF FunctionTypeOK
      <4>4. x \in [type : FnTypes, live : BOOLEAN]
        BY <4>3
      <4> HIDE DEF x, a
      <4> QED BY <2>1, <4>1, <4>2, <4>4 DEF FunctionTypeOK
    <3> QED BY <3>1, <3>2
  <2> QED
    BY <2>1, <2>2
    DEF TargetsAreOwned, FunctionTypeOK, Function!TypesAreKept, Function!Defined, Function!Targets
<1>3. CASE Function!Call(w, value)
  <2>1. /\ FunctionTypeOK /\ OwnersMatchTargets /\ Function!Defined
        /\ UNCHANGED <<fn_sig, fn_fn, fn_heap, fn_overwritten>>
    BY <1>3 DEF TargetsAreOwned, Function!Call
  <2>2. FunctionTypeOK' /\ OwnersMatchTargets'
    BY <2>1
    DEF FunctionTypeOK, OwnersMatchTargets, OwnersDiffer, DeadOwnNothing, OwnedLive, LiveAreOwned,
        FreshAreDead, TypesAgree, Function!Targets
  <2>3. Function!TypesAreKept'
    <3>1. fn_overwritten \/ fn_fn[w].address = 0
          \/ fn_fn[w].type = fn_heap[fn_fn[w].address].type
      BY <2>1 DEF OwnersMatchTargets, TypesAgree
    <3>2. CASE fn_overwritten
      BY <2>1, <3>2 DEF Function!TypesAreKept
    <3>3. CASE fn_fn[w].address = 0
      <4>1. fn_undefined' = "called without a target"
        BY <1>3, <3>3 DEF Function!Call, Function!Nowhere
      <4> QED BY <4>1 DEF Function!TypesAreKept
    <3>4. CASE fn_fn[w].address # 0 /\ fn_fn[w].type = fn_heap[fn_fn[w].address].type
      <4>1. fn_undefined' = "none"
        BY <1>3, <3>4 DEF Function!Call, Function!Nowhere
      <4> QED BY <4>1 DEF Function!TypesAreKept
    <3> QED BY <3>1, <3>2, <3>3, <3>4
  <2> QED BY <2>2, <2>3 DEF TargetsAreOwned
<1> QED BY <1>1, <1>2, <1>3

LEMMA FunctionStep == TargetsAreOwned /\ [Function!Next]_Function!vars => TargetsAreOwned'
<1> SUFFICES ASSUME TargetsAreOwned, [Function!Next]_Function!vars PROVE TargetsAreOwned'
  OBVIOUS
<1>1. CASE UNCHANGED Function!vars
  BY <1>1
  DEF Function!vars, TargetsAreOwned, FunctionTypeOK, Function!TypesAreKept, Function!Defined,
      OwnersMatchTargets, OwnersDiffer, DeadOwnNothing, OwnedLive, LiveAreOwned, FreshAreDead,
      TypesAgree, Function!Targets
<1>2. CASE Function!Next
  BY <1>2, FunctionMoves, FunctionMakes, FunctionReleases, FunctionRest DEF Function!Next
<1> QED BY <1>1, <1>2

(* What the unit tests of move-only-function.cpp expect. *)
LEMMA FunctionTests == fn_sig \in Function!Signatures => Function!TestsPass
<1> SUFFICES ASSUME fn_sig \in Function!Signatures PROVE Function!TestsPass
  OBVIOUS
<1> DEFINE F == {"f", "g"}
           Two(a, b) == [w \in F |-> IF w = "f" THEN a ELSE b]
<1>1. /\ Function!Empty \in OwnerOf(Nat) /\ Function!Dead \in OwnerOf(Nat)
      /\ Function!Empty.address = 0
      /\ \A t \in FnTypes : /\ [Function!Empty EXCEPT !.type = t] \in OwnerOf(Nat)
                            /\ [Function!Empty EXCEPT !.type = t] =
                                 [alive |-> TRUE, type |-> t, address |-> 0]
  <2>1. 0 \in Nat /\ Function!Null \in FnTypes
    BY DEF FnTypes
  <2>2. /\ Function!Dead = [alive |-> FALSE, type |-> Function!Null, address |-> 0]
        /\ Function!Empty = [alive |-> TRUE, type |-> Function!Null, address |-> 0]
        /\ Function!Empty \in OwnerOf(Nat)
    BY <2>1, FunctionEmpty
  <2>3. Function!Dead \in OwnerOf(Nat)
    BY <2>1, <2>2 DEF OwnerOf
  <2> QED BY <2>1, <2>2, <2>3, FunctionEmpty
(* A function with a target, as the tests make it. *)
<1>2. ASSUME NEW c \in FnTypes
      PROVE  LET f == [Function!Empty EXCEPT !.type = c, !.address = 1]
             IN  f \in OwnerOf(Nat) /\ f.address = 1 /\ f.type = c
  <2> DEFINE x == [Function!Empty EXCEPT !.type = c]
             f == [x EXCEPT !.address = 1]
  <2>1. x \in OwnerOf(Nat) /\ x.type = c
    BY <1>1, <1>2
  <2> HIDE DEF x
  <2>2. f = [alive |-> x.alive, type |-> x.type, address |-> 1] /\ f \in OwnerOf(Nat)
    BY <2>1, AddressChanged
  <2>3. f.address = 1 /\ f.type = c
    BY <2>1, <2>2
  <2>4. f = [Function!Empty EXCEPT !.type = c, !.address = 1]
    BY DEF x
  <2> HIDE DEF f
  <2> QED BY <2>2, <2>3, <2>4
<1>3. Function!ConstructionTests
  <2> DEFINE f == [Function!Empty EXCEPT !.type = "function", !.address = 1]
  <2>1. f \in OwnerOf(Nat) /\ f.address = 1
    <3>1. "function" \in FnTypes
      BY DEF FnTypes, Function!Callables
    <3> QED BY <1>2, <3>1
  <2> HIDE DEF f
  <2>2. ASSUME NEW a \in {f, Function!Empty}
        PROVE  Function!Constructed("g", "f", Two(a, Function!Dead))["g"].address = a.address
    <3> DEFINE two == Two(a, Function!Dead)
    <3>1. "f" \in F /\ "g" \in F /\ "g" # "f"
      OBVIOUS
    <3>2. a \in OwnerOf(Nat)
      BY <1>1, <2>1
    <3>3. two \in [F -> OwnerOf(Nat)] /\ two["f"] = a
      BY <1>1, <3>1, <3>2
    <3> HIDE DEF two, F
    <3>4. Function!Constructed("g", "f", two)["g"].address = two["f"].address
      <4>1. 0 \in Nat
        OBVIOUS
      <4> QED BY <3>1, <3>3, <4>1, FunctionConstructed
    <3> QED BY <3>3, <3>4 DEF two
  <2> QED
    BY <1>1, <2>1, <2>2 DEF Function!ConstructionTests, Function!Targeted, Function!Nowhere, f
<1>4. Function!SwapTests
  <2> DEFINE f == [Function!Empty EXCEPT !.type = "callable", !.address = 1]
             two == [w \in {"f", "g"} |-> IF w = "f" THEN f ELSE Function!Empty]
             swapped == [two EXCEPT !["f"] = two["g"], !["g"] = two["f"]]
  <2> HIDE DEF f
  <2>1. two["f"] = f /\ two["g"] = Function!Empty /\ DOMAIN two = {"f", "g"}
    OBVIOUS
  <2> HIDE DEF two
  <2>2. swapped["f"] = Function!Empty /\ swapped["g"] = f
    BY <2>1
  <2>3. swapped = Function!Swapped("f", "g", two)
    BY DEF Function!Swapped
  <2> HIDE DEF swapped
  <2> QED
    BY <1>1, <2>2, <2>3
    DEF Function!SwapTests, Function!Targeted, Function!Nowhere, two, f
<1>5. Function!MoveTests
  <2>1. \A s \in Function!Signatures : Function!Converts(s, s)
    BY DEF Function!Converts
  <2>2. /\ Function!Kind("plain") = "callable" /\ Function!Kind("const") = "const callable"
        /\ Function!Kind("rvref") = "rvref callable"
    BY DEF Function!Kind
  <2>3. /\ Function!Invocable("plain") = Function!Callables \ {"rvref callable"}
        /\ Function!Invocable("const") = {"function", "lambda", "const callable"}
    BY DEF Function!Invocable
  <2>4. /\ "const callable" \in Function!Callables \ {"rvref callable"}
        /\ "callable" \notin {"function", "lambda", "const callable"}
        /\ "rvref callable" \notin Function!Callables \ {"rvref callable"}
    BY DEF Function!Callables
  <2> QED BY <2>1, <2>2, <2>3, <2>4 DEF Function!MoveTests, Function!Converts
<1> DEFINE Passes(s, t) ==
             (IF Function!Accepts(s, t[1], t[2]) THEN Function!Invocable(s) ELSE {}) = t[3]
           invocable == Function!Callables \ {"rvref callable"}
           constant == {"function", "lambda", "const callable"}
<1>6. ASSUME NEW s, NEW const, NEW value, NEW S,
             (IF Function!Accepts(s, const, value) THEN Function!Invocable(s) ELSE {}) = S
      PROVE  Passes(s, <<const, value, S>>)
  BY <1>6
<1>7. /\ Function!Accepts("plain", FALSE, "lvalue") /\ Function!Accepts("plain", FALSE, "rvalue")
      /\ ~Function!Accepts("plain", TRUE, "lvalue")
      /\ \A const, value : Function!Accepts("const", const, value)
      /\ Function!Accepts("rvref", FALSE, "rvalue")
      /\ ~Function!Accepts("rvref", FALSE, "lvalue") /\ ~Function!Accepts("rvref", TRUE, "lvalue")
  BY DEF Function!Accepts
<1>8. /\ Function!Invocable("plain") = invocable /\ Function!Invocable("const") = constant
      /\ Function!Invocable("rvref") = Function!Callables
  BY DEF Function!Invocable
<1> HIDE DEF Passes, invocable, constant
<1>9. \A t \in Function!PlainTests : Passes("plain", t)
  <2>1. /\ Passes("plain", <<FALSE, "lvalue", invocable>>)
        /\ Passes("plain", <<TRUE, "lvalue", {}>>)
        /\ Passes("plain", <<FALSE, "rvalue", invocable>>)
    BY <1>6, <1>7, <1>8, Zenon
  <2>2. Function!PlainTests = {<<FALSE, "lvalue", invocable>>, <<TRUE, "lvalue", {}>>,
                               <<FALSE, "rvalue", invocable>>}
    BY Zenon DEF Function!PlainTests, invocable
  <2> QED BY <2>1, <2>2, Zenon
<1>10. \A t \in Function!ConstTests : Passes("const", t)
  <2> SUFFICES ASSUME NEW x PROVE Passes("const", <<x[1], x[2], constant>>)
    BY Zenon DEF Function!ConstTests, constant
  <2> QED BY <1>6, <1>7, <1>8, Zenon
<1>11. \A t \in Function!RvrefTests : Passes("rvref", t)
  <2>1. /\ Passes("rvref", <<FALSE, "lvalue", {}>>) /\ Passes("rvref", <<TRUE, "lvalue", {}>>)
        /\ Passes("rvref", <<FALSE, "rvalue", Function!Callables>>)
    BY <1>6, <1>7, <1>8, Zenon
  <2> QED BY <2>1, Zenon DEF Function!RvrefTests
<1> DEFINE tests == CASE fn_sig = "plain" -> Function!PlainTests
                      [] fn_sig = "const" -> Function!ConstTests
                      [] fn_sig = "rvref" -> Function!RvrefTests
<1>12. \/ fn_sig = "plain" /\ tests = Function!PlainTests
       \/ fn_sig = "const" /\ tests = Function!ConstTests
       \/ fn_sig = "rvref" /\ tests = Function!RvrefTests
  BY DEF Function!Signatures
<1> HIDE DEF tests
<1>13. \A t \in tests : Passes(fn_sig, t)
  BY <1>9, <1>10, <1>11, <1>12
<1>14. Function!TestsPass <=>
         /\ \A t \in tests : Passes(fn_sig, t)
         /\ Function!ConstructionTests /\ Function!SwapTests /\ Function!MoveTests
  BY Zenon DEF Function!TestsPass, tests, Passes
<1> QED BY <1>3, <1>4, <1>5, <1>13, <1>14

LEMMA FunctionCounts == \A S : Function!Cardinality(S) = Cardinality(S)
  BY DEF Function!Cardinality, Cardinality

(* For any number of functions and targets: whatever is made, moved, swapped, *)
(* assigned and destroyed, a target has one owner and an owner its target,    *)
(* and as long as no target is assigned over it is used as what it is.        *)
THEOREM FunctionsOwnTheirTargets ==
  Function!Spec => [](Function!TargetsHaveOneOwner /\ Function!TypesAreKept /\ Function!TestsPass)
<1>1. ASSUME TargetsAreOwned PROVE Function!TargetsHaveOneOwner
  <2> SUFFICES ASSUME Function!Defined PROVE Function!TargetsHaveOneOwner
    BY DEF Function!TargetsHaveOneOwner
  <2>1. FunctionTypeOK /\ OwnersMatchTargets
    BY <1>1 DEF TargetsAreOwned
  <2>2. ASSUME NEW a \in Function!Targets, fn_heap[a].live
        PROVE  Function!Cardinality({w \in Functions : fn_fn[w].alive /\ fn_fn[w].address = a}) = 1
    <3>1. PICK u \in Functions : fn_fn[u].address = a
      BY <2>1, <2>2 DEF OwnersMatchTargets, LiveAreOwned
    <3>2. a # 0
      BY FunctionBounds DEF Function!Targets
    <3>3. {w \in Functions : fn_fn[w].alive /\ fn_fn[w].address = a} = {u}
      BY <2>1, <3>1, <3>2 DEF OwnersMatchTargets, OwnersDiffer, DeadOwnNothing
    <3> QED BY <3>3, FS_Singleton, FunctionCounts
  <2>3. ASSUME NEW w \in Functions, fn_fn[w].address # 0
        PROVE  /\ fn_heap[fn_fn[w].address].live
               /\ fn_overwritten \/ fn_fn[w].type = fn_heap[fn_fn[w].address].type
    BY <2>1, <2>3 DEF OwnersMatchTargets, OwnedLive, TypesAgree
  <2> QED BY <2>2, <2>3 DEF Function!TargetsHaveOneOwner, Function!Nowhere
<1>2. ASSUME TargetsAreOwned PROVE Function!TypesAreKept /\ Function!TestsPass
  BY <1>2, FunctionTests DEF TargetsAreOwned, FunctionTypeOK
<1> QED BY <1>1, <1>2, FunctionInit, FunctionStep, PTL DEF Function!Spec

-----------------------------------------------------------------------------
(* Signals of core: types, and that a handle is entered where a handler is,  *)
(* in the table of every signal.                                             *)
Installers == SlotObjects \cup {Signals!Nobody, Signals!Client}
SlotHandles == [SlotObjects -> [SignalObjects -> SUBSET Handles]]
TablesTypeOK ==
  /\ sg_handlers \in [SignalObjects -> [Handles -> Installers]]
  /\ sg_whenhandles \in [SignalObjects -> SUBSET Handles]
  /\ sg_oncehandles \in [SignalObjects -> SUBSET Handles]
  /\ sg_handlemap \in SlotHandles /\ sg_stale \in SlotHandles
WiresTypeOK ==
  /\ sg_mapped \in [SlotObjects -> SUBSET SignalObjects]
  /\ sg_slots \in [SignalObjects -> SUBSET SlotObjects]
Entered(s) ==
  /\ sg_whenhandles[s] \cap sg_oncehandles[s] = {}
  /\ \A h \in Handles : sg_handlers[s][h] # Signals!Nobody <=>
       h \in sg_whenhandles[s] \/ h \in sg_oncehandles[s]
Kept(p, s) ==
  \A h \in sg_handlemap[p][s] : h \in sg_stale[p][s] \/ sg_handlers[s][h] = p
HandlesAreEntered ==
  TablesTypeOK /\ \A s \in SignalObjects : Entered(s) /\ \A p \in SlotObjects : Kept(p, s)

LEMMA Installer ==
  /\ Signals!Nobody \notin SlotObjects /\ Signals!Client \notin SlotObjects
  /\ Signals!Nobody # Signals!Client
  BY CallbackAssumption DEF CallbackAssumption, Signals!Nobody, Signals!Client

LEMMA SignalsInit == Signals!Init => HandlesAreEntered /\ WiresTypeOK
<1> SUFFICES ASSUME Signals!Init PROVE HandlesAreEntered /\ WiresTypeOK
  OBVIOUS
<1>1. TablesTypeOK /\ WiresTypeOK
  BY DEF Signals!Init, TablesTypeOK, WiresTypeOK, Installers, SlotHandles
<1>2. ASSUME NEW s \in SignalObjects PROVE Entered(s) /\ \A p \in SlotObjects : Kept(p, s)
  BY DEF Signals!Init, Entered, Kept
<1> QED BY <1>1, <1>2 DEF HandlesAreEntered

LEMMA InstallsAreEntered ==
  ASSUME HandlesAreEntered, NEW S \in SUBSET SignalObjects,
         NEW o \in SlotObjects \cup {Signals!Client}, NEW w, NEW n, Signals!Install(S, o, w, n)
  PROVE  HandlesAreEntered'
<1> DEFINE whens == [s \in S |-> Signals!First(w, Signals!Free(s))]
           onces == [s \in S |-> Signals!First(n, Signals!Free(s) \ whens[s])]
           new == [s \in SignalObjects |-> IF s \in S THEN whens[s] \cup onces[s] ELSE {}]
           when == [s \in SignalObjects |-> IF s \in S THEN whens[s] ELSE {}]
           once == [s \in SignalObjects |-> IF s \in S THEN onces[s] ELSE {}]
<1>1. CASE UNCHANGED <<Signals!tables, sg_handlemap, sg_stale>>
  BY <1>1 DEF Signals!tables, HandlesAreEntered, TablesTypeOK, Entered, Kept
<1>2. CASE /\ sg_handlers' = [s \in SignalObjects |->
                [h \in Handles |-> IF h \in new[s] THEN o ELSE sg_handlers[s][h]]]
           /\ sg_whenhandles' = [s \in SignalObjects |-> sg_whenhandles[s] \cup when[s]]
           /\ sg_oncehandles' = [s \in SignalObjects |-> sg_oncehandles[s] \cup once[s]]
           /\ \/ o = Signals!Client /\ UNCHANGED <<sg_handlemap, sg_stale>>
              \/ /\ sg_handlemap' = [sg_handlemap EXCEPT ![o] =
                                       [s \in SignalObjects |-> @[s] \cup new[s]]]
                 /\ sg_stale' = [sg_stale EXCEPT ![o] = [s \in SignalObjects |-> @[s] \ new[s]]]
                 /\ o # Signals!Client
  <2>1. ASSUME NEW s \in SignalObjects
        PROVE  /\ new[s] = when[s] \cup once[s] /\ when[s] \cap once[s] = {}
               /\ \A h \in new[s] : h \in Handles /\ sg_handlers[s][h] = Signals!Nobody
    BY DEF Signals!First, Signals!Free
  <2> HIDE DEF new, when, once
  <2>2. o \in Installers /\ o # Signals!Nobody
    BY Installer DEF Installers
  <2>3. TablesTypeOK'
    <3>1. /\ sg_handlers' \in [SignalObjects -> [Handles -> Installers]]
          /\ sg_whenhandles' \in [SignalObjects -> SUBSET Handles]
          /\ sg_oncehandles' \in [SignalObjects -> SUBSET Handles]
      <4>1. sg_handlers' \in [SignalObjects -> [Handles -> Installers]]
        BY <1>2, <2>2 DEF HandlesAreEntered, TablesTypeOK
      <4>2. \A s \in SignalObjects : when[s] \subseteq Handles /\ once[s] \subseteq Handles
        BY <2>1
      <4>3. sg_whenhandles \in [SignalObjects -> SUBSET Handles]
            /\ sg_oncehandles \in [SignalObjects -> SUBSET Handles]
        BY DEF HandlesAreEntered, TablesTypeOK
      <4>4. /\ \A s \in SignalObjects : sg_whenhandles[s] \cup when[s] \in SUBSET Handles
            /\ \A s \in SignalObjects : sg_oncehandles[s] \cup once[s] \in SUBSET Handles
        BY <4>2, <4>3
      <4>5. sg_whenhandles' \in [SignalObjects -> SUBSET Handles]
        <5>1. sg_whenhandles' = [s \in SignalObjects |-> sg_whenhandles[s] \cup when[s]]
          BY <1>2
        <5> QED BY <4>4, <5>1
      <4>6. sg_oncehandles' \in [SignalObjects -> SUBSET Handles]
        <5>1. sg_oncehandles' = [s \in SignalObjects |-> sg_oncehandles[s] \cup once[s]]
          BY <1>2
        <5> QED BY <4>4, <5>1
      <4> QED BY <4>1, <4>5, <4>6
    <3>2. sg_handlemap' \in SlotHandles /\ sg_stale' \in SlotHandles
      <4>1. sg_handlemap \in SlotHandles /\ sg_stale \in SlotHandles
        BY DEF HandlesAreEntered, TablesTypeOK
      <4>2. CASE UNCHANGED <<sg_handlemap, sg_stale>>
        BY <4>1, <4>2
      <4>3. CASE /\ o \in SlotObjects
                 /\ sg_handlemap' = [sg_handlemap EXCEPT ![o] =
                                       [s \in SignalObjects |-> @[s] \cup new[s]]]
                 /\ sg_stale' = [sg_stale EXCEPT ![o] = [s \in SignalObjects |-> @[s] \ new[s]]]
        <5>1. \A s \in SignalObjects : /\ sg_handlemap[o][s] \cup new[s] \in SUBSET Handles
                                       /\ sg_stale[o][s] \ new[s] \in SUBSET Handles
          BY <2>1, <4>1, <4>3 DEF SlotHandles
        <5>2. /\ [s \in SignalObjects |-> sg_handlemap[o][s] \cup new[s]] \in
                    [SignalObjects -> SUBSET Handles]
              /\ [s \in SignalObjects |-> sg_stale[o][s] \ new[s]] \in
                    [SignalObjects -> SUBSET Handles]
          BY <5>1
        <5> QED BY <4>1, <4>3, <5>2 DEF SlotHandles
      <4> QED BY <1>2, <4>2, <4>3
    <3> QED BY <3>1, <3>2 DEF TablesTypeOK
  <2>4. ASSUME NEW s \in SignalObjects
        PROVE  /\ \A h \in Handles :
                    sg_handlers'[s][h] = IF h \in new[s] THEN o ELSE sg_handlers[s][h]
               /\ sg_whenhandles'[s] = sg_whenhandles[s] \cup when[s]
               /\ sg_oncehandles'[s] = sg_oncehandles[s] \cup once[s]
               /\ \A h \in new[s] : h \notin sg_whenhandles[s] /\ h \notin sg_oncehandles[s]
    BY <1>2, <2>1 DEF HandlesAreEntered, Entered
  <2>5. ASSUME NEW s \in SignalObjects PROVE Entered(s)'
    BY <2>1, <2>2, <2>4 DEF HandlesAreEntered, Entered
  <2>6. ASSUME NEW s \in SignalObjects, NEW p \in SlotObjects,
               NEW h \in sg_handlemap'[p][s], h \notin sg_stale'[p][s]
        PROVE  sg_handlers'[s][h] = p
    <3>1. h \in Handles
      BY <2>3 DEF TablesTypeOK, SlotHandles
    <3>2. \/ h \in new[s] /\ p = o
          \/ h \in sg_handlemap[p][s] /\ h \notin sg_stale[p][s]
      <4>1. CASE p = o /\ o # Signals!Client
        <5>1. /\ sg_handlemap'[p][s] = sg_handlemap[p][s] \cup new[s]
              /\ sg_stale'[p][s] = sg_stale[p][s] \ new[s]
          BY <1>2, <4>1 DEF HandlesAreEntered, TablesTypeOK, SlotHandles
        <5> QED BY <2>6, <4>1, <5>1
      <4>2. CASE p # o \/ o = Signals!Client
        <5>1. sg_handlemap'[p] = sg_handlemap[p] /\ sg_stale'[p] = sg_stale[p]
          BY <1>2, <4>2 DEF HandlesAreEntered, TablesTypeOK, SlotHandles
        <5> QED BY <2>6, <5>1
      <4> QED BY <4>1, <4>2
    <3>3. h \in sg_handlemap[p][s] /\ h \notin sg_stale[p][s] => sg_handlers[s][h] = p
      BY DEF HandlesAreEntered, Kept
    <3>4. p # Signals!Nobody
      BY Installer
    <3> QED BY <2>1, <2>4, <3>1, <3>2, <3>3, <3>4
  <2> QED BY <2>3, <2>5, <2>6 DEF HandlesAreEntered, Kept
<1>3. /\ sg_handlers' = [s \in SignalObjects |->
            [h \in Handles |-> IF h \in new[s] THEN o ELSE sg_handlers[s][h]]]
      /\ sg_whenhandles' = [s \in SignalObjects |->
            sg_whenhandles[s] \cup IF s \in S THEN whens[s] ELSE {}]
      /\ sg_oncehandles' = [s \in SignalObjects |->
            sg_oncehandles[s] \cup IF s \in S THEN onces[s] ELSE {}]
      /\ \/ o = Signals!Client /\ UNCHANGED <<sg_handlemap, sg_stale>>
         \/ /\ sg_handlemap' = [sg_handlemap EXCEPT ![o] =
                                  [s \in SignalObjects |-> @[s] \cup new[s]]]
            /\ sg_stale' = [sg_stale EXCEPT ![o] = [s \in SignalObjects |-> @[s] \ new[s]]]
            /\ o # Signals!Client
      \/ UNCHANGED <<Signals!tables, sg_handlemap, sg_stale>>
  BY Zenon DEF Signals!Install
<1> QED BY <1>1, <1>2, <1>3

LEMMA RemovesAreEntered ==
  ASSUME HandlesAreEntered, NEW gone \in [SignalObjects -> SUBSET Handles], Signals!Remove(gone),
         sg_handlemap' \in SlotHandles, sg_stale' \in SlotHandles,
         \A p \in SlotObjects, s \in SignalObjects : \A h \in sg_handlemap'[p][s] :
           \/ h \in sg_stale'[p][s]
           \/ h \in sg_handlemap[p][s] /\ h \notin sg_stale[p][s] /\ h \notin gone[s]
  PROVE  HandlesAreEntered'
<1>1. TablesTypeOK'
  BY DEF HandlesAreEntered, TablesTypeOK, Signals!Remove, Installers
<1>2. ASSUME NEW s \in SignalObjects
      PROVE  /\ \A h \in Handles :
                  sg_handlers'[s][h] = IF h \in gone[s] THEN Signals!Nobody ELSE sg_handlers[s][h]
             /\ sg_whenhandles'[s] = sg_whenhandles[s] \ gone[s]
             /\ sg_oncehandles'[s] = sg_oncehandles[s] \ gone[s]
  BY DEF Signals!Remove
<1>3. ASSUME NEW s \in SignalObjects PROVE Entered(s)'
  BY <1>2 DEF HandlesAreEntered, Entered
<1>4. ASSUME NEW s \in SignalObjects, NEW p \in SlotObjects, NEW h \in sg_handlemap'[p][s],
             h \notin sg_stale'[p][s]
      PROVE  sg_handlers'[s][h] = p
  <2>1. h \in Handles
    BY DEF SlotHandles
  <2>2. h \in sg_handlemap[p][s] /\ h \notin sg_stale[p][s] /\ h \notin gone[s]
    BY <1>4
  <2>3. sg_handlers[s][h] = p
    BY <2>2 DEF HandlesAreEntered, Kept
  <2> QED BY <1>2, <2>1, <2>2, <2>3
<1> QED BY <1>1, <1>3, <1>4 DEF HandlesAreEntered, Kept

(* Slot::disconnect, of the slots of P from one signal. *)
LEMMA UnmapsAreEntered ==
  ASSUME HandlesAreEntered, NEW P \in SUBSET SlotObjects, NEW s \in SignalObjects,
         Signals!Unmap(P, s)
  PROVE  HandlesAreEntered'
<1> DEFINE U == UNION {sg_handlemap[p][s] : p \in P}
           gone == [t \in SignalObjects |-> IF t = s THEN U ELSE {}]
<1>1. U \subseteq Handles
  BY DEF HandlesAreEntered, TablesTypeOK, SlotHandles
<1>2. /\ Signals!Remove(gone)
      /\ sg_handlemap' = [p \in SlotObjects |->
           [sg_handlemap[p] EXCEPT ![s] = IF p \in P THEN {} ELSE @]]
      /\ sg_stale' = [p \in SlotObjects |->
           [Signals!Staler(gone, P)[p] EXCEPT ![s] = IF p \in P THEN {} ELSE @]]
  BY Zenon DEF Signals!Unmap
<1> HIDE DEF U
<1>3. gone \in [SignalObjects -> SUBSET Handles] /\ gone[s] = U
      /\ \A t \in SignalObjects : t # s => gone[t] = {}
  BY <1>1
<1> HIDE DEF gone
<1>4. Signals!Staler(gone, P) \in SlotHandles
  BY <1>3 DEF HandlesAreEntered, TablesTypeOK, Signals!Staler, SlotHandles
<1>5. sg_handlemap' \in SlotHandles /\ sg_stale' \in SlotHandles
  BY <1>2, <1>4 DEF HandlesAreEntered, TablesTypeOK, SlotHandles
<1>6. ASSUME NEW p \in SlotObjects, NEW t \in SignalObjects, NEW h \in sg_handlemap'[p][t],
             h \notin sg_stale'[p][t]
      PROVE  h \in sg_handlemap[p][t] /\ h \notin sg_stale[p][t] /\ h \notin gone[t]
  <2>1. Signals!Staler(gone, P)[p][t] =
          sg_stale[p][t] \cup IF p \in P THEN {} ELSE sg_handlemap[p][t] \cap gone[t]
    BY DEF Signals!Staler
  <2>2. CASE t = s /\ p \in P
    BY <1>2, <1>6, <2>2 DEF HandlesAreEntered, TablesTypeOK, SlotHandles
  <2>3. CASE t # s \/ p \notin P
    <3>1. /\ sg_handlemap'[p][t] = sg_handlemap[p][t]
          /\ sg_stale'[p][t] = Signals!Staler(gone, P)[p][t]
      BY <1>2, <1>4, <2>3 DEF HandlesAreEntered, TablesTypeOK, SlotHandles
    <3> QED BY <1>3, <1>6, <2>1, <2>3, <3>1
  <2> QED BY <2>2, <2>3
<1> QED BY <1>2, <1>3, <1>5, <1>6, RemovesAreEntered

(* Slot::disconnect(), which keeps the handles it removes. *)
LEMMA LeavesAreEntered ==
  ASSUME HandlesAreEntered, WiresTypeOK, NEW p \in SlotObjects, Signals!Leave(p),
         UNCHANGED <<sg_handlemap, sg_mapped>>
  PROVE  HandlesAreEntered' /\ WiresTypeOK'
<1> DEFINE gone == sg_handlemap[p]
<1>1. /\ gone \in [SignalObjects -> SUBSET Handles] /\ Signals!Remove(gone)
      /\ sg_stale' = [Signals!Staler(gone, {p}) EXCEPT ![p] = gone]
      /\ sg_slots' = [s \in SignalObjects |->
                        IF s \in sg_mapped[p] THEN sg_slots[s] \ {p} ELSE sg_slots[s]]
  BY DEF Signals!Leave, HandlesAreEntered, TablesTypeOK, SlotHandles
<1> HIDE DEF gone
<1>2. Signals!Staler(gone, {p}) \in SlotHandles
  BY <1>1 DEF HandlesAreEntered, TablesTypeOK, Signals!Staler, SlotHandles
<1>3. sg_handlemap' \in SlotHandles /\ sg_stale' \in SlotHandles
  BY <1>1, <1>2 DEF HandlesAreEntered, TablesTypeOK, SlotHandles
<1>4. ASSUME NEW q \in SlotObjects, NEW t \in SignalObjects, NEW h \in sg_handlemap'[q][t],
             h \notin sg_stale'[q][t]
      PROVE  h \in sg_handlemap[q][t] /\ h \notin sg_stale[q][t] /\ h \notin gone[t]
  <2>1. CASE q = p
    BY <1>1, <1>2, <1>4, <2>1 DEF SlotHandles, gone
  <2>2. CASE q # p
    <3>1. sg_stale'[q][t] = sg_stale[q][t] \cup (sg_handlemap[q][t] \cap gone[t])
      BY <1>1, <1>2, <2>2 DEF Signals!Staler, SlotHandles
    <3> QED BY <1>4, <3>1
  <2> QED BY <2>1, <2>2
<1>5. HandlesAreEntered'
  BY <1>1, <1>3, <1>4, RemovesAreEntered
<1> QED BY <1>1, <1>5 DEF WiresTypeOK

LEMMA SignalsOfSlots ==
  ASSUME HandlesAreEntered, WiresTypeOK, NEW p \in SlotObjects,
         \/ Signals!SlotWhen(p) \/ Signals!SlotOnce(p) \/ Signals!SlotDisconnect(p)
         \/ Signals!SlotClear(p) \/ Signals!DestroySlot(p)
  PROVE  HandlesAreEntered' /\ WiresTypeOK'
<1>1. CASE \E w, n : Signals!Install(sg_mapped[p], p, w, n) /\ UNCHANGED Signals!wires
  <2>1. WiresTypeOK' /\ sg_mapped[p] \in SUBSET SignalObjects
    BY <1>1 DEF Signals!wires, WiresTypeOK
  <2>2. PICK w, n : Signals!Install(sg_mapped[p], p, w, n)
    BY <1>1
  <2> QED BY <2>1, <2>2, InstallsAreEntered
<1>2. CASE Signals!Leave(p) /\ UNCHANGED <<sg_handlemap, sg_mapped>>
  BY <1>2, LeavesAreEntered
<1>3. CASE UNCHANGED <<Signals!tables, sg_slots, sg_stale, sg_handlemap, sg_mapped>>
  BY <1>3
  DEF Signals!tables, HandlesAreEntered, TablesTypeOK, Entered, Kept, WiresTypeOK
<1>4. CASE Signals!SlotWhen(p) \/ Signals!SlotOnce(p)
  BY <1>1, <1>4 DEF Signals!SlotWhen, Signals!SlotOnce
<1>5. CASE Signals!SlotDisconnect(p) \/ Signals!SlotClear(p) \/ Signals!DestroySlot(p)
  BY <1>2, <1>3, <1>5 DEF Signals!SlotDisconnect, Signals!SlotClear, Signals!DestroySlot
<1> QED BY <1>4, <1>5

LEMMA SignalsOfSignals ==
  ASSUME HandlesAreEntered, WiresTypeOK, NEW s \in SignalObjects,
         \/ Signals!SignalWhen(s) \/ Signals!SignalOnce(s) \/ Signals!SignalDisconnect(s)
         \/ Signals!Emit(s) \/ Signals!DestroySignal(s)
         \/ \E h \in Handles : Signals!SignalRemove(s, h)
         \/ \E t \in SignalObjects : Signals!Forward(s, t)
  PROVE  HandlesAreEntered' /\ WiresTypeOK'
<1>1. CASE Signals!SignalWhen(s) \/ Signals!SignalOnce(s)
  <2>1. PICK w, n : Signals!Install({s}, Signals!Client, w, n)
    BY <1>1 DEF Signals!SignalWhen, Signals!SignalOnce
  <2>2. HandlesAreEntered'
    <3>1. {s} \in SUBSET SignalObjects /\ Signals!Client \in SlotObjects \cup {Signals!Client}
      OBVIOUS
    <3> QED BY <2>1, <3>1, InstallsAreEntered
  <2> QED BY <1>1, <2>2 DEF Signals!SignalWhen, Signals!SignalOnce, Signals!wires, WiresTypeOK
<1>2. CASE Signals!SignalDisconnect(s) \/ Signals!DestroySignal(s)
  <2>1. /\ Signals!Unmap(sg_slots[s], s) /\ sg_slots[s] \in SUBSET SlotObjects
        /\ sg_slots' = [sg_slots EXCEPT ![s] = {}]
    BY <1>2 DEF Signals!SignalDisconnect, Signals!DestroySignal, WiresTypeOK
  <2>2. HandlesAreEntered'
    BY <2>1, UnmapsAreEntered
  <2>3. sg_mapped' = [p \in SlotObjects |->
                        IF p \in sg_slots[s] THEN sg_mapped[p] \ {s} ELSE sg_mapped[p]]
    BY <2>1, Zenon DEF Signals!Unmap
  <2> QED BY <2>1, <2>2, <2>3 DEF WiresTypeOK
<1>3. CASE Signals!Emit(s)
  <2> DEFINE S == {s} \cup sg_signals[s]
             gone == [t \in SignalObjects |-> IF t \in S THEN sg_oncehandles[t] ELSE {}]
  <2>1. /\ UNCHANGED <<Signals!wires, sg_handlemap>>
        /\ \/ Signals!Remove(gone) /\ sg_stale' = Signals!Staler(gone, {})
           \/ UNCHANGED <<Signals!tables, sg_stale>>
    BY <1>3, Zenon DEF Signals!Emit
  <2>2. gone \in [SignalObjects -> SUBSET Handles]
    BY DEF HandlesAreEntered, TablesTypeOK
  <2> HIDE DEF gone
  <2>3. WiresTypeOK'
    BY <2>1 DEF Signals!wires, WiresTypeOK
  <2>4. CASE Signals!Remove(gone) /\ sg_stale' = Signals!Staler(gone, {})
    <3>1. sg_handlemap' \in SlotHandles /\ sg_stale' \in SlotHandles
      BY <2>1, <2>2, <2>4 DEF HandlesAreEntered, TablesTypeOK, SlotHandles, Signals!Staler
    <3>2. ASSUME NEW p \in SlotObjects, NEW t \in SignalObjects
          PROVE  sg_stale'[p][t] = sg_stale[p][t] \cup (sg_handlemap[p][t] \cap gone[t])
      BY <2>4 DEF Signals!Staler
    <3> QED BY <2>1, <2>2, <2>3, <2>4, <3>1, <3>2, RemovesAreEntered
  <2>5. CASE UNCHANGED <<Signals!tables, sg_stale>>
    BY <2>1, <2>3, <2>5 DEF Signals!tables, HandlesAreEntered, TablesTypeOK, Entered, Kept
  <2> QED BY <2>1, <2>4, <2>5
<1>4. ASSUME NEW h \in Handles, Signals!SignalRemove(s, h) PROVE HandlesAreEntered' /\ WiresTypeOK'
  <2> DEFINE gone == [t \in SignalObjects |-> IF t = s THEN {h} ELSE {}]
  <2>1. /\ Signals!Remove(gone) /\ sg_handlers[s][h] = Signals!Client
        /\ UNCHANGED <<Signals!wires, sg_handlemap, sg_stale>>
    BY <1>4, Zenon DEF Signals!SignalRemove
  <2>2. /\ gone \in [SignalObjects -> SUBSET Handles] /\ gone[s] = {h}
        /\ \A t \in SignalObjects : t # s => gone[t] = {}
    OBVIOUS
  <2> HIDE DEF gone
  <2>3. ASSUME NEW p \in SlotObjects, NEW t \in SignalObjects, NEW g \in sg_handlemap[p][t],
               g \notin sg_stale[p][t]
        PROVE  g \notin gone[t]
    <3>1. sg_handlers[t][g] = p
      BY <2>3 DEF HandlesAreEntered, Kept
    <3> QED BY <2>1, <2>2, <3>1, Installer
  <2>4. sg_handlemap' \in SlotHandles /\ sg_stale' \in SlotHandles
    BY <2>1 DEF HandlesAreEntered, TablesTypeOK
  <2>5. HandlesAreEntered'
    BY <2>1, <2>2, <2>3, <2>4, RemovesAreEntered
  <2> QED BY <2>1, <2>5 DEF Signals!wires, WiresTypeOK
<1>5. ASSUME NEW t \in SignalObjects, Signals!Forward(s, t)
      PROVE  HandlesAreEntered' /\ WiresTypeOK'
  BY <1>5
  DEF Signals!Forward, Signals!tables, HandlesAreEntered, TablesTypeOK, Entered, Kept, WiresTypeOK
<1> QED BY <1>1, <1>2, <1>3, <1>4, <1>5

LEMMA SignalsOfBoth ==
  ASSUME HandlesAreEntered, WiresTypeOK, NEW s \in SignalObjects, NEW p \in SlotObjects,
         Signals!Connect(s, p) \/ Signals!Disconnect(s, p)
  PROVE  HandlesAreEntered' /\ WiresTypeOK'
<1>1. CASE Signals!Connect(s, p)
  <2>1. Signals!Install({s}, p, sg_whenhandlers[p], sg_oncehandlers[p])
    BY <1>1 DEF Signals!Connect
  <2>2. {s} \in SUBSET SignalObjects /\ p \in SlotObjects \cup {Signals!Client}
    OBVIOUS
  <2>3. HandlesAreEntered'
    BY <2>1, <2>2, InstallsAreEntered
  <2> QED BY <1>1, <2>3 DEF Signals!Connect, WiresTypeOK
<1>2. CASE Signals!Disconnect(s, p)
  <2>1. /\ Signals!Unmap({p}, s) /\ {p} \in SUBSET SlotObjects
        /\ sg_slots' = [sg_slots EXCEPT ![s] = @ \ {p}]
    BY <1>2 DEF Signals!Disconnect
  <2>2. HandlesAreEntered'
    BY <2>1, UnmapsAreEntered
  <2>3. sg_mapped' = [q \in SlotObjects |-> IF q \in {p} THEN sg_mapped[q] \ {s} ELSE sg_mapped[q]]
    BY <2>1, Zenon DEF Signals!Unmap
  <2> QED BY <2>1, <2>2, <2>3 DEF WiresTypeOK
<1> QED BY <1>1, <1>2

LEMMA SignalsStep ==
  HandlesAreEntered /\ WiresTypeOK /\ [Signals!Next]_Signals!vars =>
    HandlesAreEntered' /\ WiresTypeOK'
<1> SUFFICES ASSUME HandlesAreEntered, WiresTypeOK, [Signals!Next]_Signals!vars
             PROVE  HandlesAreEntered' /\ WiresTypeOK'
  OBVIOUS
<1>1. CASE UNCHANGED Signals!vars
  BY <1>1 DEF Signals!vars, HandlesAreEntered, TablesTypeOK, Entered, Kept, WiresTypeOK
<1>2. CASE Signals!Next
  BY <1>2, SignalsOfSlots, SignalsOfSignals, SignalsOfBoth DEF Signals!Next
<1> QED BY <1>1, <1>2

(* For any signals, slots and handles: the table has a handler exactly where  *)
(* one of the two sets has the handle, and the handles a slot keeps are those *)
(* of handlers of its own, but for the ones that others have freed.           *)
THEOREM HandlesFindTheirHandlers == Signals!Spec => []Signals!HandlesMatchHandlers
<1>1. ASSUME HandlesAreEntered PROVE Signals!HandlesMatchHandlers
  <2> SUFFICES ASSUME NEW s \in SignalObjects
               PROVE  /\ sg_whenhandles[s] \cap sg_oncehandles[s] = {}
                      /\ {h \in Handles : sg_handlers[s][h] # Signals!Nobody} =
                           sg_whenhandles[s] \cup sg_oncehandles[s]
                      /\ \A p \in SlotObjects :
                           \A h \in sg_handlemap[p][s] \ sg_stale[p][s] : sg_handlers[s][h] = p
    BY DEF Signals!HandlesMatchHandlers
  <2>1. sg_whenhandles[s] \subseteq Handles /\ sg_oncehandles[s] \subseteq Handles
    BY <1>1 DEF HandlesAreEntered, TablesTypeOK
  <2> QED BY <1>1, <2>1 DEF HandlesAreEntered, Entered, Kept
<1> QED BY <1>1, SignalsInit, SignalsStep, PTL DEF Signals!Spec

-----------------------------------------------------------------------------
(* Switchboards: types, and that an emission has called the first of what it *)
(* found and has the rest in front of it.                                    *)
Emitters == 0..MaxEmitters
SwitchboardTypeOK ==
  /\ sb_signal_state \in [Switchboard!Keys -> Emitters] /\ sb_held \in [Holders -> Emitters]
  /\ sb_emitter \in [Connections -> Emitters] /\ sb_next \in Nat
  /\ sb_connections \in [1..MaxEmitters -> Seq(Connections)]
EmissionTypeOK ==
  /\ sb_emission.active \in Seq(Range(sb_due)) /\ sb_due \in Seq(Range(sb_due))
  /\ DOMAIN sb_emission = {"message", "active"}
  /\ sb_emission = [d \in DOMAIN sb_emission |-> sb_emission[d]]
  /\ sb_called \in Seq({d.slot : d \in Range(sb_due)})
CalledFirst ==
  /\ Len(sb_called) <= Len(sb_due)
  /\ \A i \in 1..Len(sb_called) : sb_called[i] = sb_due[i].slot
RestIsDue ==
  sb_emission.active # <<>> =>
    /\ Len(sb_called) + Len(sb_emission.active) = Len(sb_due)
    /\ \A i \in 1..Len(sb_emission.active) : sb_emission.active[i] = sb_due[Len(sb_called) + i]
EmissionsKeepOrder ==
  /\ SwitchboardTypeOK /\ Switchboard!NamesAreUnique
  /\ EmissionTypeOK /\ CalledFirst /\ RestIsDue

LEMMA SwitchboardBounds == MaxEmitters \in Nat /\ Extends \in [DOMAIN Managers -> DOMAIN Managers]
  BY CallbackAssumption, Zenon DEF CallbackAssumption

LEMMA SwitchboardInit == Switchboard!Init => EmissionsKeepOrder
<1> SUFFICES ASSUME Switchboard!Init PROVE EmissionsKeepOrder
  OBVIOUS
<1>1. SwitchboardTypeOK
  BY SwitchboardBounds DEF Switchboard!Init, SwitchboardTypeOK, Emitters
<1>2. Switchboard!NamesAreUnique
  BY DEF Switchboard!Init, Switchboard!NamesAreUnique
<1>3. /\ sb_emission.active = <<>> /\ sb_called = <<>> /\ sb_due = <<>>
      /\ DOMAIN sb_emission = {"message", "active"}
      /\ sb_emission = [d \in DOMAIN sb_emission |-> sb_emission[d]]
  BY DEF Switchboard!Init
<1>4. EmissionTypeOK
  BY <1>3 DEF EmissionTypeOK
<1>5. CalledFirst /\ RestIsDue
  BY <1>3 DEF CalledFirst, RestIsDue
<1> QED BY <1>1, <1>2, <1>4, <1>5 DEF EmissionsKeepOrder

LEMMA BoardIsKey ==
  ASSUME NEW m \in DOMAIN Managers, NEW t \in Managers[m]
  PROVE  Switchboard!Board(m, t) \in Switchboard!Keys
  BY SwitchboardBounds DEF Switchboard!Board, Switchboard!Keys

LEMMA SwitchboardSignals ==
  ASSUME EmissionsKeepOrder, NEW h \in Holders,
         \/ Switchboard!DropSignal(h)
         \/ \E m \in DOMAIN Managers, t \in UNION {Managers[n] : n \in DOMAIN Managers} :
              Switchboard!GetSignal(h, m, t)
  PROVE  EmissionsKeepOrder'
<1> USE DEF EmissionsKeepOrder
<1>1. EmissionTypeOK' /\ CalledFirst' /\ RestIsDue'
  BY DEF Switchboard!DropSignal, Switchboard!GetSignal, Switchboard!run, EmissionTypeOK,
         CalledFirst, RestIsDue
<1>2. CASE Switchboard!DropSignal(h)
  <2>1. SwitchboardTypeOK'
    BY <1>2, SwitchboardBounds DEF Switchboard!DropSignal, SwitchboardTypeOK, Emitters
  <2>2. Switchboard!NamesAreUnique'
    BY <1>2 DEF Switchboard!DropSignal, SwitchboardTypeOK, Switchboard!NamesAreUnique
  <2> QED BY <1>1, <2>1, <2>2
<1>3. ASSUME NEW m \in DOMAIN Managers, NEW t, Switchboard!GetSignal(h, m, t)
      PROVE  SwitchboardTypeOK' /\ Switchboard!NamesAreUnique'
  <2> DEFINE k == Switchboard!Board(m, t)
  <2>1. k \in Switchboard!Keys
    BY <1>3, BoardIsKey DEF Switchboard!GetSignal
  <2>2. UNCHANGED <<sb_emitter, sb_connections>>
    BY <1>3 DEF Switchboard!GetSignal
  <2>3. CASE /\ sb_held' = [sb_held EXCEPT ![h] = sb_signal_state[k]]
             /\ UNCHANGED <<sb_signal_state, sb_next>>
    <3> HIDE DEF k
    <3>1. SwitchboardTypeOK'
      BY <2>1, <2>2, <2>3 DEF SwitchboardTypeOK
    <3> QED BY <2>1, <2>3, <3>1 DEF SwitchboardTypeOK, Switchboard!NamesAreUnique
  <2>4. CASE /\ ~Switchboard!Alive(sb_signal_state[k]) /\ sb_next <= MaxEmitters
             /\ sb_held' = [sb_held EXCEPT ![h] = sb_next] /\ sb_next' = sb_next + 1
             /\ sb_signal_state' = [sb_signal_state EXCEPT ![k] = sb_next]
    <3> HIDE DEF k
    <3>1. sb_next \in Emitters /\ sb_next' \in Nat
      BY <2>4, SwitchboardBounds DEF SwitchboardTypeOK, Emitters
    <3>2. SwitchboardTypeOK'
      BY <2>1, <2>2, <2>4, <3>1 DEF SwitchboardTypeOK
    <3>3. /\ sb_held'[h] = sb_next /\ sb_signal_state'[k] = sb_next
          /\ \A g \in Holders : g # h => sb_held'[g] = sb_held[g]
          /\ \A l \in Switchboard!Keys : l # k => sb_signal_state'[l] = sb_signal_state[l]
      BY <2>1, <2>4 DEF SwitchboardTypeOK
    <3>4. ASSUME NEW g \in Holders, g # h, sb_held[g] # 0
          PROVE  \E l \in Switchboard!Keys : sb_signal_state'[l] = sb_held[g]
      <4>1. PICK l \in Switchboard!Keys : sb_signal_state[l] = sb_held[g]
        BY <3>4 DEF Switchboard!NamesAreUnique
      <4>2. Switchboard!Alive(sb_signal_state[l])
        BY <3>4, <4>1 DEF Switchboard!Alive
      <4> QED BY <2>4, <3>3, <4>1, <4>2
    <3>5. Switchboard!NamesAreUnique'
      BY <2>1, <3>3, <3>4 DEF Switchboard!NamesAreUnique, Switchboard!Keys
    <3> QED BY <3>2, <3>5
  <2> QED BY <1>3, <2>3, <2>4 DEF Switchboard!GetSignal
<1> QED BY <1>1, <1>2, <1>3

LEMMA SwitchboardConnections ==
  ASSUME EmissionsKeepOrder, NEW c \in Connections,
         \/ Switchboard!DropConnection(c) \/ Switchboard!SetDisconnect(c) \/ Switchboard!SetBlock(c)
         \/ \E m \in Messages : Switchboard!Filter(c, m)
         \/ \E m \in DOMAIN Managers, t \in UNION {Managers[n] : n \in DOMAIN Managers} :
              Switchboard!Connect(c, m, t)
  PROVE  EmissionsKeepOrder'
<1> USE DEF EmissionsKeepOrder
<1>1. /\ UNCHANGED <<sb_signal_state, sb_held, sb_next, sb_emission, sb_called, sb_due>>
      /\ \/ UNCHANGED <<sb_emitter, sb_connections>>
         \/ \E m \in DOMAIN Managers, t \in UNION {Managers[n] : n \in DOMAIN Managers} :
              Switchboard!Connect(c, m, t)
  BY DEF Switchboard!DropConnection, Switchboard!SetDisconnect, Switchboard!SetBlock,
         Switchboard!Filter, Switchboard!Connect, Switchboard!run
<1>2. EmissionTypeOK' /\ CalledFirst' /\ RestIsDue' /\ Switchboard!NamesAreUnique'
  BY <1>1 DEF EmissionTypeOK, CalledFirst, RestIsDue, Switchboard!NamesAreUnique, Switchboard!Keys
<1>3. ASSUME NEW m \in DOMAIN Managers, NEW t, Switchboard!Connect(c, m, t)
      PROVE  SwitchboardTypeOK'
  <2> DEFINE e == sb_signal_state[Switchboard!Board(m, t)]
  <2>1. /\ e \in Emitters /\ e # 0
        /\ sb_emitter' = [sb_emitter EXCEPT ![c] = e]
        /\ sb_connections' = [sb_connections EXCEPT ![e] = Append(@, c)]
    <3>1. Switchboard!Board(m, t) \in Switchboard!Keys
      BY <1>3, BoardIsKey DEF Switchboard!Connect
    <3> QED BY <1>3, <3>1 DEF Switchboard!Connect, Switchboard!Alive, SwitchboardTypeOK
  <2> HIDE DEF e
  <2>2. e \in 1..MaxEmitters
    BY <2>1, SwitchboardBounds DEF Emitters
  <2>3. Append(sb_connections[e], c) \in Seq(Connections)
    BY <2>2, AppendProperties DEF SwitchboardTypeOK
  <2> QED BY <1>1, <2>1, <2>2, <2>3 DEF SwitchboardTypeOK, Switchboard!Keys
<1>4. SwitchboardTypeOK'
  BY <1>1, <1>3 DEF SwitchboardTypeOK, Switchboard!Keys
<1> QED BY <1>2, <1>4

LEMMA SwitchboardCounts == \A S : Switchboard!Cardinality(S) = Cardinality(S)
  BY DEF Switchboard!Cardinality, Cardinality

LEMMA SwitchboardEmits ==
  ASSUME EmissionsKeepOrder, NEW h \in Holders, NEW m, Switchboard!Emit(h, m)
  PROVE  EmissionsKeepOrder'
<1> USE DEF EmissionsKeepOrder
<1> DEFINE e == sb_held[h]
           A == {i \in DOMAIN sb_connections[e] :
                   sb_connections[e][i] \in sb_owned \ (sb_disconnect \cup sb_block)}
           n == Switchboard!Cardinality(A)
           list == Switchboard!Active(e)
           active == [i \in DOMAIN list |-> [slot |-> list[i], filters |-> sb_filters[list[i]]]]
<1>1. /\ e \in 1..MaxEmitters /\ sb_due' = active /\ sb_called' = <<>>
      /\ sb_emission' = [message |-> m, active |-> active]
      /\ UNCHANGED <<sb_signal_state, sb_held, sb_emitter, sb_connections, sb_next>>
  <2>1. /\ e \in Emitters /\ e # 0 /\ sb_called' = <<>>
        /\ UNCHANGED <<sb_signal_state, sb_held, sb_emitter, sb_connections, sb_next>>
    BY DEF Switchboard!Emit, SwitchboardTypeOK
  <2>2. sb_emission' = [message |-> m, active |-> active] /\ sb_due' = sb_emission'.active
    BY Zenon DEF Switchboard!Emit
  <2>3. sb_due' = active
    BY <2>2
  <2>4. e \in 1..MaxEmitters
    BY <2>1, SwitchboardBounds DEF Emitters
  <2> QED BY <2>1, <2>2, <2>3, <2>4
<1>2. n \in Nat
  <2>1. sb_connections[e] \in Seq(Connections)
    BY <1>1 DEF SwitchboardTypeOK
  <2>2. IsFiniteSet(DOMAIN sb_connections[e])
    <3>1. DOMAIN sb_connections[e] = 1..Len(sb_connections[e]) /\ Len(sb_connections[e]) \in Int
      BY <2>1, LenProperties
    <3>2. 1 \in Int
      OBVIOUS
    <3>3. IsFiniteSet(1..Len(sb_connections[e]))
      BY <3>1, <3>2, FS_Interval
    <3> QED BY <3>1, <3>3
  <2>3. IsFiniteSet(A) /\ Cardinality(A) \in Nat
    BY <2>2, FS_Subset, FS_CardinalityType
  <2> QED BY <2>3, SwitchboardCounts
<1>3. DOMAIN list = 1..n
  BY Zenon DEF Switchboard!Active
<1> HIDE DEF e, A, n, list
<1>4. DOMAIN active = 1..n
  BY <1>3
<1> HIDE DEF active
<1>5. active = [i \in 1..n |-> active[i]]
  BY <1>4 DEF active
<1>6. \A i \in 1..n : active[i] \in Range(active)
  BY <1>4 DEF Range
<1>7. active \in Seq(Range(active)) /\ Len(active) = n
  BY <1>2, <1>5, <1>6
<1>8. /\ sb_emission'.active = active /\ DOMAIN sb_emission' = {"message", "active"}
      /\ sb_emission' = [d \in DOMAIN sb_emission' |-> sb_emission'[d]]
  BY <1>1
<1>9. EmissionTypeOK'
  BY <1>1, <1>7, <1>8 DEF EmissionTypeOK
<1>10. CalledFirst' /\ RestIsDue'
  BY <1>1, <1>2, <1>7, <1>8 DEF CalledFirst, RestIsDue
<1>11. SwitchboardTypeOK' /\ Switchboard!NamesAreUnique'
  BY <1>1 DEF SwitchboardTypeOK, Switchboard!NamesAreUnique, Switchboard!Keys
<1> QED BY <1>9, <1>10, <1>11

LEMMA SwitchboardCalls ==
  ASSUME EmissionsKeepOrder, Switchboard!CallSlot
  PROVE  EmissionsKeepOrder'
<1> USE DEF EmissionsKeepOrder
<1> DEFINE q == sb_emission.active
           slots == {d.slot : d \in Range(sb_due)}
<1>1. /\ q # <<>> /\ q \in Seq(Range(sb_due)) /\ sb_due \in Seq(Range(sb_due))
      /\ sb_called \in Seq(slots) /\ Len(sb_called) \in Nat /\ Len(sb_due) \in Nat
      /\ Len(sb_called) + Len(q) = Len(sb_due)
      /\ \A i \in 1..Len(q) : q[i] = sb_due[Len(sb_called) + i]
  BY LenProperties DEF Switchboard!CallSlot, EmissionTypeOK, RestIsDue
<1>2. /\ UNCHANGED <<sb_signal_state, sb_held, sb_emitter, sb_connections, sb_next, sb_due>>
      /\ \/ sb_emission' = [sb_emission EXCEPT !.active = <<>>] /\ sb_called' = sb_called
         \/ /\ sb_called' = Append(sb_called, Head(q).slot)
            /\ sb_emission' = [sb_emission EXCEPT !.active = Tail(q)]
  BY DEF Switchboard!CallSlot
<1>3. SwitchboardTypeOK' /\ Switchboard!NamesAreUnique'
  BY <1>2 DEF SwitchboardTypeOK, Switchboard!NamesAreUnique, Switchboard!Keys
<1>4. ASSUME NEW a, sb_emission' = [sb_emission EXCEPT !.active = a]
      PROVE  /\ sb_emission'.active = a /\ DOMAIN sb_emission' = {"message", "active"}
             /\ sb_emission' = [d \in DOMAIN sb_emission' |-> sb_emission'[d]]
  BY <1>4 DEF EmissionTypeOK
<1>5. CASE sb_emission' = [sb_emission EXCEPT !.active = <<>>] /\ sb_called' = sb_called
  <2>1. /\ sb_emission'.active = <<>> /\ DOMAIN sb_emission' = {"message", "active"}
        /\ sb_emission' = [d \in DOMAIN sb_emission' |-> sb_emission'[d]]
    BY <1>4, <1>5
  <2>2. EmissionTypeOK'
    BY <1>2, <1>5, <2>1 DEF EmissionTypeOK
  <2>3. CalledFirst' /\ RestIsDue'
    BY <1>2, <1>5, <2>1 DEF CalledFirst, RestIsDue
  <2> QED BY <1>3, <2>2, <2>3
<1>6. CASE /\ sb_called' = Append(sb_called, Head(q).slot)
           /\ sb_emission' = [sb_emission EXCEPT !.active = Tail(q)]
  <2> DEFINE x == Head(q).slot
             r == Tail(q)
             k == Len(sb_called)
  <2>1. /\ sb_emission'.active = r /\ DOMAIN sb_emission' = {"message", "active"}
        /\ sb_emission' = [d \in DOMAIN sb_emission' |-> sb_emission'[d]]
    BY <1>4, <1>6
  <2>2. /\ r \in Seq(Range(sb_due)) /\ Len(r) = Len(q) - 1 /\ Head(q) = q[1]
        /\ \A i \in 1..Len(r) : r[i] = q[i + 1]
    BY <1>1, HeadTailProperties
  <2>3. Len(q) \in Nat /\ Len(q) # 0 /\ 1 \in 1..Len(q)
    BY <1>1, LenProperties, EmptySeq
  <2>4. x = sb_due[k + 1].slot /\ x \in slots
    <3>1. q[1] = sb_due[k + 1] /\ q[1] \in Range(sb_due)
      BY <1>1, <2>3
    <3> QED BY <2>2, <3>1
  <2> HIDE DEF x, r, k, slots
  <2>5. /\ Append(sb_called, x) \in Seq(slots) /\ Len(Append(sb_called, x)) = Len(sb_called) + 1
        /\ \A i \in 1..Len(sb_called) : Append(sb_called, x)[i] = sb_called[i]
        /\ Append(sb_called, x)[Len(sb_called) + 1] = x
    BY <1>1, <2>4, AppendProperties
  <2>6. sb_called' = Append(sb_called, x)
    BY <1>6 DEF x
  <2>7. EmissionTypeOK'
    BY <1>1, <1>2, <2>1, <2>2, <2>5, <2>6 DEF EmissionTypeOK, slots
  <2>8. CalledFirst'
    <3>1. Len(sb_called') = k + 1 /\ k + 1 <= Len(sb_due) /\ k \in Nat
      BY <1>1, <2>3, <2>5, <2>6 DEF k
    <3>2. ASSUME NEW i \in 1..k + 1 PROVE sb_called'[i] = sb_due[i].slot
      <4>1. CASE i \in 1..k
        BY <2>5, <2>6, <4>1 DEF CalledFirst, k
      <4>2. CASE i = k + 1
        BY <2>4, <2>5, <2>6, <4>2 DEF k
      <4> QED BY <3>1, <4>1, <4>2
    <3> QED BY <1>2, <3>1, <3>2 DEF CalledFirst
  <2>9. RestIsDue'
    <3>1. Len(sb_called') = k + 1 /\ k \in Nat
      BY <1>1, <2>5, <2>6 DEF k
    <3>2. ASSUME NEW i \in 1..Len(r) PROVE r[i] = sb_due[k + 1 + i]
      <4>1. i + 1 \in 1..Len(q) /\ r[i] = q[i + 1] /\ k + (i + 1) = k + 1 + i
        BY <2>2, <2>3, <3>1
      <4> QED BY <1>1, <4>1 DEF k
    <3>3. k + 1 + Len(r) = Len(sb_due)
      <4>1. k + Len(q) = Len(sb_due) /\ Len(r) = Len(q) - 1
        BY <1>1, <2>2 DEF k
      <4> HIDE DEF q
      <4> QED BY <2>3, <3>1, <4>1
    <3> QED BY <1>2, <2>1, <3>1, <3>2, <3>3 DEF RestIsDue
  <2> QED BY <1>3, <2>7, <2>8, <2>9
<1> QED BY <1>2, <1>5, <1>6

LEMMA SwitchboardStep ==
  EmissionsKeepOrder /\ [Switchboard!Next]_Switchboard!vars => EmissionsKeepOrder'
<1> SUFFICES ASSUME EmissionsKeepOrder, [Switchboard!Next]_Switchboard!vars
             PROVE  EmissionsKeepOrder'
  OBVIOUS
<1>1. CASE UNCHANGED Switchboard!vars
  <2>1. UNCHANGED <<sb_signal_state, sb_held, sb_emitter, sb_connections, sb_next, sb_emission,
                    sb_called, sb_due>>
    BY <1>1 DEF Switchboard!vars
  <2>2. SwitchboardTypeOK' /\ Switchboard!NamesAreUnique'
    BY <2>1 DEF EmissionsKeepOrder, SwitchboardTypeOK, Switchboard!NamesAreUnique, Switchboard!Keys
  <2>3. EmissionTypeOK'
    BY <2>1 DEF EmissionsKeepOrder, EmissionTypeOK
  <2>4. CalledFirst' /\ RestIsDue'
    BY <2>1 DEF EmissionsKeepOrder, CalledFirst, RestIsDue
  <2> QED BY <2>2, <2>3, <2>4 DEF EmissionsKeepOrder
<1>2. CASE Switchboard!Next
  BY <1>2, SwitchboardSignals, SwitchboardConnections, SwitchboardEmits, SwitchboardCalls
  DEF Switchboard!Next
<1> QED BY <1>1, <1>2

(* For any managers, holders and connections: an emitter that lives is the    *)
(* one its name leads to, and an emission calls the slots it found when it    *)
(* began, in their order and without a gap.                                   *)
THEOREM NamesFindTheirEmitter ==
  Switchboard!Spec => [](Switchboard!NamesAreUnique /\ Switchboard!CallsWhatItFound)
<1>1. ASSUME EmissionsKeepOrder PROVE Switchboard!NamesAreUnique /\ Switchboard!CallsWhatItFound
  <2>1. DOMAIN sb_called = 1..Len(sb_called)
    BY <1>1, LenProperties DEF EmissionsKeepOrder, EmissionTypeOK
  <2> QED BY <1>1, <2>1
      DEF EmissionsKeepOrder, CalledFirst, RestIsDue, Switchboard!CallsWhatItFound
<1> QED BY <1>1, SwitchboardInit, SwitchboardStep, PTL DEF Switchboard!Spec

-----------------------------------------------------------------------------
(* Delegates: types; every functor that is set has its own functions, and as *)
(* long as no slot is copied every slot has a delegate of its own.           *)
Dispatches == Functors \cup {Delegates!None}
DelegateType == [dispatch : Dispatches, storage : Functors]
DelegatesTypeOK ==
  /\ dg_delegates \in Seq(DelegateType) /\ dg_capacity \in Nat
  /\ dg_slot \in [Holders -> [index : Nat, functor : Dispatches]]
  /\ dg_copied \in BOOLEAN
SlotsAreApart ==
  dg_copied \/ \A h \in Holders : dg_slot[h] = Delegates!NoSlot \/
    /\ dg_slot[h].index \in DOMAIN dg_delegates /\ dg_slot[h].functor # Delegates!None
    /\ dg_delegates[dg_slot[h].index].dispatch = dg_slot[h].functor
    /\ \A g \in Holders : dg_slot[g].index = dg_slot[h].index => g = h
FunctionsFitStorage ==
  \A i \in DOMAIN dg_delegates :
    dg_delegates[i].dispatch = Delegates!None \/ dg_delegates[i].dispatch = dg_delegates[i].storage
NothingMiscopied ==
  /\ dg_fault \in {"none", "destroyed", "destroys with null"}
  /\ dg_fault = "destroys with null" => dg_lost # {}
  /\ Len(dg_delegates) <= dg_capacity
SlotsHaveDelegates ==
  DelegatesTypeOK /\ SlotsAreApart /\ FunctionsFitStorage /\ NothingMiscopied

-----------------------------------------------------------------------------
(* Properties: at most one emission inside another, then of the value that   *)
(* the only insistent observers want; whom the innermost emission has called *)
(* knows the value.                                                          *)
PropertyTypeOK ==
  /\ dg_changed \in Seq(DOMAIN Wanted) /\ dg_emissions \in Seq(Nat) /\ dg_heard \in Nat
  /\ dg_told = [o \in DOMAIN Wanted |-> dg_told[o]]
HeardAtRest ==
  /\ dg_heard = 0 \/ dg_emissions = <<>>
  /\ dg_heard <= Len(dg_changed)
  /\ \A i \in 1..dg_heard : dg_told[dg_changed[i]] = dg_value
InnermostKnow ==
  dg_emissions # <<>> =>
    \A i \in 1..Len(dg_changed) :
      i < dg_emissions[Len(dg_emissions)] => dg_told[dg_changed[i]] = dg_value
EmissionsCount ==
  \A k \in 1..Len(dg_emissions) : dg_emissions[k] \in 1..Len(dg_changed) + 1
NestedOnce ==
  \/ dg_emissions = <<>> \/ Len(dg_emissions) = 1
  \/ /\ Len(dg_emissions) = 2 /\ Len(dg_changed) # 0
     /\ \A o \in DOMAIN Wanted : Wanted[o] \in {NoWish, dg_value}
ToldAgree == PropertyTypeOK /\ HeardAtRest /\ InnermostKnow /\ EmissionsCount /\ NestedOnce

LEMMA DelegateBounds ==
  /\ MaxDelegates \in Nat /\ MaxObservers \in Nat /\ "none" \notin Functors
  /\ \A o, p \in DOMAIN Wanted :
       NoWish \in {Wanted[o], Wanted[p]} \/ Wanted[o] = Wanted[p]
  BY CallbackAssumption, Zenon DEF CallbackAssumption

(* A set of numbers that is not empty has a least one. *)
LEMMA LeastIsThere ==
  ASSUME NEW S, S \subseteq Nat, S # {}
  PROVE  Delegates!Min(S) \in S
<1>1. PICK x \in S : \A y \in S : <<y, x>> \notin OpToRel(<, Nat)
  BY WFMin, NatLessThanWellFounded, Zenon
<1>2. \A y \in S : ~ (y < x)
  BY <1>1, Zenon DEF OpToRel
<1>3. \A y \in S : x <= y
  BY <1>2
<1> QED BY <1>3 DEF Delegates!Min

LEMMA ForgottenDelegate ==
  ASSUME NEW d \in DelegateType
  PROVE  /\ Delegates!Forget(d) \in DelegateType
         /\ Delegates!Forget(d).dispatch = Delegates!None
  BY DEF Delegates!Forget, DelegateType, Dispatches

LEMMA MadeDelegate ==
  ASSUME NEW f \in Functors
  PROVE  /\ Delegates!MakeDelegate(f) \in DelegateType
         /\ Delegates!MakeDelegate(f).dispatch = f /\ Delegates!MakeDelegate(f).storage = f
  BY DEF Delegates!MakeDelegate, DelegateType, Dispatches

LEMMA DelegatesInit == Delegates!SignalInit => SlotsHaveDelegates
<1> SUFFICES ASSUME Delegates!SignalInit PROVE SlotsHaveDelegates
  OBVIOUS
<1>1. /\ dg_delegates = <<>> /\ dg_capacity = 0 /\ dg_fault = "none" /\ dg_copied = FALSE
      /\ dg_slot = [h \in Holders |-> Delegates!NoSlot]
  BY DEF Delegates!SignalInit
<1>2. Delegates!NoSlot \in [index : Nat, functor : Dispatches]
  BY DEF Delegates!NoSlot, Dispatches
<1>3. DelegatesTypeOK
  BY <1>1, <1>2, EmptySeq DEF DelegatesTypeOK
<1>4. SlotsAreApart
  BY <1>1 DEF SlotsAreApart
<1>5. DOMAIN dg_delegates = {} /\ Len(dg_delegates) = 0
  BY <1>1
<1> QED BY <1>1, <1>3, <1>4, <1>5
        DEF SlotsHaveDelegates, FunctionsFitStorage, NothingMiscopied

(* A functor that is set by nobody gets a delegate of its own: the first that *)
(* is cleared, or a new one.                                                  *)
LEMMA DelegateReused ==
  ASSUME SlotsHaveDelegates, NEW h \in Holders, NEW f \in Functors,
         Delegates!Cleared # {}, Delegates!Reuse(h, f), UNCHANGED dg_copied
  PROVE  SlotsHaveDelegates'
<1> DEFINE i == Delegates!Min(Delegates!Cleared)
           d == Delegates!MakeDelegate(f)
<1>1. /\ dg_delegates' = [dg_delegates EXCEPT ![i] = d]
      /\ dg_slot' = [dg_slot EXCEPT ![h] = [index |-> i, functor |-> f]]
      /\ UNCHANGED <<dg_capacity, dg_fault>>
      /\ dg_lost \subseteq dg_lost'
  BY DEF Delegates!Reuse
<1>2. dg_delegates \in Seq(DelegateType) /\ Len(dg_delegates) \in Nat
      /\ DOMAIN dg_delegates = 1..Len(dg_delegates)
  BY LenProperties DEF SlotsHaveDelegates, DelegatesTypeOK
<1>3. i \in DOMAIN dg_delegates /\ dg_delegates[i].dispatch = Delegates!None /\ i \in Nat
  <2>1. Delegates!Cleared \subseteq Nat
    BY <1>2 DEF Delegates!Cleared
  <2>2. i \in Delegates!Cleared
    BY <2>1, LeastIsThere
  <2> QED BY <1>2, <2>2 DEF Delegates!Cleared, Delegates!IsSet
<1>4. d \in DelegateType /\ d.dispatch = f /\ d.storage = f /\ f # Delegates!None
  BY MadeDelegate, DelegateBounds DEF Delegates!None
<1> HIDE DEF i, d
<1>5. /\ dg_delegates' \in Seq(DelegateType) /\ Len(dg_delegates') = Len(dg_delegates)
      /\ DOMAIN dg_delegates' = DOMAIN dg_delegates /\ dg_delegates'[i] = d
      /\ \A j \in DOMAIN dg_delegates : j # i => dg_delegates'[j] = dg_delegates[j]
  BY <1>1, <1>2, <1>3, <1>4, ExceptSeq
<1>6. DelegatesTypeOK'
  <2>1. [index |-> i, functor |-> f] \in [index : Nat, functor : Dispatches]
    BY <1>3 DEF Dispatches
  <2> QED BY <1>1, <1>5, <2>1 DEF SlotsHaveDelegates, DelegatesTypeOK
<1>7. SlotsAreApart'
  <2>1. CASE dg_copied
    BY <2>1 DEF SlotsAreApart
  <2>2. CASE ~dg_copied
    <3>1. ASSUME NEW g \in Holders, g # h
          PROVE  dg_slot'[g] = dg_slot[g] /\ dg_slot[g].index # i
      BY <1>1, <1>3, <2>2, <3>1
      DEF SlotsHaveDelegates, SlotsAreApart, DelegatesTypeOK, Delegates!NoSlot
    <3>2. dg_slot'[h] = [index |-> i, functor |-> f]
      BY <1>1 DEF SlotsHaveDelegates, DelegatesTypeOK
    <3> QED BY <1>3, <1>4, <1>5, <2>2, <3>1, <3>2 DEF SlotsHaveDelegates, SlotsAreApart
  <2> QED BY <2>1, <2>2
<1>8. FunctionsFitStorage'
  BY <1>4, <1>5 DEF SlotsHaveDelegates, FunctionsFitStorage
<1>9. NothingMiscopied'
  BY <1>1, <1>5 DEF SlotsHaveDelegates, NothingMiscopied
<1> QED BY <1>6, <1>7, <1>8, <1>9 DEF SlotsHaveDelegates

LEMMA DelegateAppended ==
  ASSUME SlotsHaveDelegates, NEW h \in Holders, NEW f \in Functors,
         Delegates!Cleared = {}, Delegates!Append1(h, f), UNCHANGED dg_copied
  PROVE  SlotsHaveDelegates'
<1> DEFINE n == Len(dg_delegates)
           d == Delegates!MakeDelegate(f)
<1>1. /\ dg_delegates' = Append(dg_delegates, d)
      /\ dg_slot' = [dg_slot EXCEPT ![h] = [index |-> n + 1, functor |-> f]]
      /\ dg_capacity' = IF n < dg_capacity THEN dg_capacity
                        ELSE IF dg_capacity = 0 THEN 1 ELSE 2 * dg_capacity
      /\ UNCHANGED <<dg_lost, dg_fault>>
  BY DEF Delegates!Append1
<1>2. /\ dg_delegates \in Seq(DelegateType) /\ n \in Nat /\ DOMAIN dg_delegates = 1..n
      /\ dg_capacity \in Nat /\ n <= dg_capacity
  BY LenProperties DEF SlotsHaveDelegates, DelegatesTypeOK, NothingMiscopied
<1>3. d \in DelegateType /\ d.dispatch = f /\ d.storage = f /\ f # Delegates!None
  BY MadeDelegate, DelegateBounds DEF Delegates!None
<1> HIDE DEF d
<1>4. /\ dg_delegates' \in Seq(DelegateType) /\ Len(dg_delegates') = n + 1
      /\ dg_delegates'[n + 1] = d /\ \A j \in 1..n : dg_delegates'[j] = dg_delegates[j]
  BY <1>1, <1>2, <1>3, AppendProperties
<1>5. DOMAIN dg_delegates' = 1..n + 1
  BY <1>2, <1>4, LenProperties
<1> HIDE DEF n
<1>6. dg_capacity' \in Nat /\ n + 1 <= dg_capacity'
  BY <1>1, <1>2
<1>7. DelegatesTypeOK'
  <2>1. [index |-> n + 1, functor |-> f] \in [index : Nat, functor : Dispatches]
    BY <1>2 DEF Dispatches
  <2> QED BY <1>1, <1>4, <1>6, <2>1 DEF SlotsHaveDelegates, DelegatesTypeOK
<1>8. SlotsAreApart'
  <2>1. CASE dg_copied
    BY <2>1 DEF SlotsAreApart
  <2>2. CASE ~dg_copied
    <3>1. ASSUME NEW g \in Holders, g # h
          PROVE  dg_slot'[g] = dg_slot[g] /\ dg_slot[g].index # n + 1
      BY <1>1, <1>2, <2>2, <3>1
      DEF SlotsHaveDelegates, SlotsAreApart, DelegatesTypeOK, Delegates!NoSlot
    <3>2. dg_slot'[h] = [index |-> n + 1, functor |-> f] /\ n + 1 \in 1..n + 1
      BY <1>1, <1>2 DEF SlotsHaveDelegates, DelegatesTypeOK
    <3>3. \A j \in 1..n : j \in 1..n + 1
      BY <1>2
    <3> QED BY <1>2, <1>3, <1>4, <1>5, <2>2, <3>1, <3>2, <3>3 DEF SlotsHaveDelegates, SlotsAreApart
  <2> QED BY <2>1, <2>2
<1>9. FunctionsFitStorage'
  <2>1. \A j \in 1..n + 1 : j \in 1..n \/ j = n + 1
    BY <1>2
  <2> QED BY <1>2, <1>3, <1>4, <1>5, <2>1 DEF SlotsHaveDelegates, FunctionsFitStorage
<1>10. NothingMiscopied'
  <2>1. dg_fault' = dg_fault /\ dg_lost' = dg_lost /\ Len(dg_delegates') <= dg_capacity'
    BY <1>1, <1>4, <1>6
  <2> QED BY <2>1 DEF SlotsHaveDelegates, NothingMiscopied
<1> QED BY <1>7, <1>8, <1>9, <1>10 DEF SlotsHaveDelegates

LEMMA DelegateRemoved ==
  ASSUME SlotsHaveDelegates, NEW h \in Holders, Delegates!Remove(h)
  PROVE  SlotsHaveDelegates'
<1> DEFINE i == dg_slot[h].index
           d == Delegates!Forget(dg_delegates[i])
<1>1. /\ dg_delegates' = [dg_delegates EXCEPT ![i] = d]
      /\ dg_slot' = [dg_slot EXCEPT ![h] = Delegates!NoSlot]
      /\ UNCHANGED <<dg_capacity, dg_copied, dg_lost, dg_fault>> /\ i # 0
  BY DEF Delegates!Remove
<1>2. dg_delegates \in Seq(DelegateType) /\ Len(dg_delegates) \in Nat
      /\ DOMAIN dg_delegates = 1..Len(dg_delegates)
  BY LenProperties DEF SlotsHaveDelegates, DelegatesTypeOK
<1>3. i \in DOMAIN dg_delegates => d \in DelegateType /\ d.dispatch = Delegates!None
  BY <1>2, ForgottenDelegate
<1> HIDE DEF d
<1>4. /\ dg_delegates' \in Seq(DelegateType) /\ Len(dg_delegates') = Len(dg_delegates)
      /\ DOMAIN dg_delegates' = DOMAIN dg_delegates
      /\ i \in DOMAIN dg_delegates => dg_delegates'[i] = d
      /\ \A j \in DOMAIN dg_delegates : j # i => dg_delegates'[j] = dg_delegates[j]
  <2>1. CASE i \in DOMAIN dg_delegates
    BY <1>1, <1>2, <1>3, <2>1, ExceptSeq
  <2>2. CASE i \notin DOMAIN dg_delegates
    <3>1. dg_delegates' = dg_delegates
      BY <1>1, <1>2, <2>2
    <3> QED BY <1>2, <2>2, <3>1
  <2> QED BY <2>1, <2>2
<1>5. DelegatesTypeOK'
  <2>1. Delegates!NoSlot \in [index : Nat, functor : Dispatches]
    BY DEF Delegates!NoSlot, Dispatches
  <2> QED BY <1>1, <1>4, <2>1 DEF SlotsHaveDelegates, DelegatesTypeOK
<1>6. SlotsAreApart'
  <2>1. CASE dg_copied
    BY <1>1, <2>1 DEF SlotsAreApart
  <2>2. CASE ~dg_copied
    <3>1. dg_slot'[h] = Delegates!NoSlot
      BY <1>1 DEF SlotsHaveDelegates, DelegatesTypeOK
    <3>2. dg_slot[h] # Delegates!NoSlot /\ dg_slot'[h].index = 0
      BY <1>1, <3>1 DEF Delegates!NoSlot
    <3>3. ASSUME NEW g \in Holders, g # h
          PROVE  dg_slot'[g] = dg_slot[g] /\ dg_slot[g].index # i
      BY <1>1, <2>2, <3>2, <3>3 DEF SlotsHaveDelegates, SlotsAreApart, DelegatesTypeOK
    <3>4. \A g \in Holders : dg_slot[g].index \in DOMAIN dg_delegates => dg_slot[g].index # 0
      BY <1>2
    <3> QED BY <1>4, <2>2, <3>1, <3>2, <3>3, <3>4 DEF SlotsHaveDelegates, SlotsAreApart
  <2> QED BY <2>1, <2>2
<1>7. FunctionsFitStorage'
  BY <1>3, <1>4 DEF SlotsHaveDelegates, FunctionsFitStorage
<1>8. NothingMiscopied'
  BY <1>1, <1>4 DEF SlotsHaveDelegates, NothingMiscopied
<1> QED BY <1>5, <1>6, <1>7, <1>8 DEF SlotsHaveDelegates

LEMMA SlotCopied ==
  ASSUME SlotsHaveDelegates, NEW g \in Holders, NEW h \in Holders, Delegates!CopySlot(g, h)
  PROVE  SlotsHaveDelegates'
<1>1. /\ dg_slot' = [dg_slot EXCEPT ![g] = dg_slot[h]] /\ dg_copied' = TRUE
      /\ UNCHANGED <<dg_delegates, dg_capacity, dg_lost, dg_fault>>
  BY DEF Delegates!CopySlot
<1>2. DelegatesTypeOK'
  BY <1>1 DEF SlotsHaveDelegates, DelegatesTypeOK
<1> QED BY <1>1, <1>2
        DEF SlotsHaveDelegates, SlotsAreApart, FunctionsFitStorage, NothingMiscopied

LEMMA SignalDestroyed ==
  ASSUME SlotsHaveDelegates, Delegates!Destroy
  PROVE  SlotsHaveDelegates'
<1>1. /\ dg_delegates' = <<>> /\ dg_slot' = [h \in Holders |-> Delegates!NoSlot]
      /\ UNCHANGED <<dg_capacity, dg_copied>>
      /\ dg_fault' = IF Delegates!Cleared = {} THEN "destroyed" ELSE "destroys with null"
      /\ dg_lost' = dg_lost \cup
           Delegates!LeftIn({dg_delegates[i] : i \in DOMAIN dg_delegates})
  BY DEF Delegates!Destroy
<1>2. Delegates!Cleared # {} => dg_lost' # {}
  <2>1. ASSUME NEW i \in Delegates!Cleared
        PROVE  dg_delegates[i].storage \in dg_lost'
    BY <1>1, <2>1 DEF Delegates!Cleared, Delegates!LeftIn
  <2> QED BY <2>1
<1>3. Delegates!NoSlot \in [index : Nat, functor : Dispatches]
  BY DEF Delegates!NoSlot, Dispatches
<1>4. DelegatesTypeOK'
  <2>1. dg_delegates' \in Seq(DelegateType)
    BY <1>1, EmptySeq
  <2>2. dg_capacity' \in Nat /\ dg_copied' \in BOOLEAN
    BY <1>1 DEF SlotsHaveDelegates, DelegatesTypeOK
  <2>3. dg_slot' \in [Holders -> [index : Nat, functor : Dispatches]]
    BY <1>1, <1>3
  <2> QED BY <2>1, <2>2, <2>3 DEF DelegatesTypeOK
<1>5. SlotsAreApart'
  BY <1>1 DEF SlotsAreApart
<1>6. dg_delegates' = <<>> /\ DOMAIN dg_delegates' = {} /\ Len(dg_delegates') = 0
  <2>1. dg_delegates' = <<>>
    BY <1>1
  <2> QED BY <2>1, EmptySeq
<1>7. FunctionsFitStorage'
  BY <1>6 DEF FunctionsFitStorage
<1>8. NothingMiscopied'
  <2>1. 0 <= dg_capacity /\ dg_capacity' = dg_capacity
    <3>1. dg_capacity' = dg_capacity
      BY <1>1
    <3> QED BY <3>1 DEF SlotsHaveDelegates, DelegatesTypeOK
  <2>2. dg_fault' \in {"destroyed", "destroys with null"}
        /\ (dg_fault' = "destroys with null" => dg_lost' # {})
    BY <1>1, <1>2
  <2> QED BY <1>6, <2>1, <2>2 DEF NothingMiscopied
<1> QED BY <1>4, <1>5, <1>7, <1>8 DEF SlotsHaveDelegates

LEMMA PropertyInit == Delegates!PropertyInit => ToldAgree
<1> SUFFICES ASSUME Delegates!PropertyInit PROVE ToldAgree
  OBVIOUS
<1>1. /\ dg_changed = <<>> /\ dg_emissions = <<>> /\ dg_heard = 0
      /\ dg_told = [o \in DOMAIN Wanted |-> NoWish]
  BY DEF Delegates!PropertyInit, Delegates!Observers
<1>2. Len(dg_changed) = 0 /\ Len(dg_emissions) = 0
  BY <1>1, EmptySeq
<1>3. dg_told = [o \in DOMAIN Wanted |-> dg_told[o]]
  BY <1>1
<1>4. PropertyTypeOK
  BY <1>1, <1>3, EmptySeq DEF PropertyTypeOK
<1>5. HeardAtRest
  BY <1>1, <1>2 DEF HeardAtRest
<1>6. InnermostKnow /\ NestedOnce
  BY <1>1 DEF InnermostKnow, NestedOnce
<1>7. EmissionsCount
  BY <1>2 DEF EmissionsCount
<1> QED BY <1>4, <1>5, <1>6, <1>7 DEF ToldAgree

(* While nothing is emitted. *)
LEMMA IdleSteps ==
  ASSUME ToldAgree,
         \/ Delegates!Clear
         \/ \E o \in DOMAIN Wanted : Delegates!Connect(o)
         \/ \E v \in Objects : Delegates!Assign(v) \/ Delegates!WriteThrough(v)
  PROVE  ToldAgree'
<1>1. /\ dg_changed \in Seq(DOMAIN Wanted) /\ Len(dg_changed) \in Nat
      /\ dg_heard \in Nat /\ dg_heard <= Len(dg_changed) /\ dg_emissions \in Seq(Nat)
      /\ DOMAIN dg_changed = 1..Len(dg_changed)
  BY LenProperties DEF ToldAgree, PropertyTypeOK, HeardAtRest
<1>2. dg_emissions = <<>>
  BY DEF Delegates!Clear, Delegates!Connect, Delegates!Assign, Delegates!WriteThrough,
         Delegates!Idle
<1>3. UNCHANGED dg_told
  BY DEF Delegates!Clear, Delegates!Connect, Delegates!Assign, Delegates!WriteThrough
<1>4. PropertyTypeOK /\ dg_told = [o \in DOMAIN Wanted |-> dg_told[o]]
  BY DEF ToldAgree, PropertyTypeOK
<1>5. ASSUME dg_emissions' = <<>>
      PROVE  InnermostKnow' /\ EmissionsCount' /\ NestedOnce'
  <2>1. Len(dg_emissions') = 0
    BY <1>5, EmptySeq
  <2>2. EmissionsCount'
    BY <2>1 DEF EmissionsCount
  <2> QED BY <1>5, <2>2 DEF InnermostKnow, NestedOnce
<1>6. CASE Delegates!Clear
  <2>1. dg_changed' = <<>> /\ dg_heard' = 0 /\ dg_emissions' = <<>>
    BY <1>2, <1>6 DEF Delegates!Clear
  <2>2. Len(dg_changed') = 0
    BY <2>1, EmptySeq
  <2>3. PropertyTypeOK'
    BY <1>3, <1>4, <2>1, EmptySeq DEF PropertyTypeOK
  <2>4. HeardAtRest'
    BY <2>1, <2>2 DEF HeardAtRest
  <2> QED BY <1>5, <2>1, <2>3, <2>4 DEF ToldAgree
<1>7. ASSUME NEW o \in DOMAIN Wanted, Delegates!Connect(o)
      PROVE  ToldAgree'
  <2>1. /\ dg_changed' = Append(dg_changed, o) /\ dg_emissions' = <<>>
        /\ dg_heard' = dg_heard /\ dg_value' = dg_value
    BY <1>2, <1>7 DEF Delegates!Connect
  <2>2. /\ dg_changed' \in Seq(DOMAIN Wanted) /\ Len(dg_changed') = Len(dg_changed) + 1
        /\ \A j \in 1..Len(dg_changed) : dg_changed'[j] = dg_changed[j]
    BY <1>1, <2>1, AppendProperties
  <2>3. PropertyTypeOK'
    BY <1>1, <1>3, <1>4, <2>1, <2>2, EmptySeq DEF PropertyTypeOK
  <2>4. HeardAtRest'
    <3>1. \A j \in 1..dg_heard : j \in 1..Len(dg_changed)
      BY <1>1
    <3>2. dg_heard <= Len(dg_changed')
      BY <1>1, <2>2
    <3> QED BY <1>3, <2>1, <2>2, <3>1, <3>2 DEF ToldAgree, HeardAtRest
  <2> QED BY <1>5, <2>1, <2>3, <2>4 DEF ToldAgree
<1>8. ASSUME NEW v \in Objects, Delegates!WriteThrough(v)
      PROVE  ToldAgree'
  <2>1. UNCHANGED dg_changed /\ dg_heard' = 0 /\ dg_emissions' = <<>>
    BY <1>2, <1>8 DEF Delegates!WriteThrough
  <2>2. PropertyTypeOK'
    BY <1>1, <1>3, <1>4, <2>1, EmptySeq DEF PropertyTypeOK
  <2>3. HeardAtRest'
    BY <1>1, <2>1 DEF HeardAtRest
  <2> QED BY <1>5, <2>1, <2>2, <2>3 DEF ToldAgree
<1>9. ASSUME NEW v \in Objects, Delegates!Assign(v)
      PROVE  ToldAgree'
  <2>1. UNCHANGED dg_changed /\ dg_heard' = 0 /\ dg_emissions' = <<1>>
    BY <1>9 DEF Delegates!Assign
  <2>2. dg_emissions' \in Seq(Nat) /\ Len(dg_emissions') = 1 /\ dg_emissions'[1] = 1
    BY <2>1
  <2>3. PropertyTypeOK'
    BY <1>1, <1>3, <1>4, <2>1, <2>2 DEF PropertyTypeOK
  <2>4. HeardAtRest'
    BY <1>1, <2>1 DEF HeardAtRest
  <2>5. InnermostKnow'
    BY <1>1, <2>1, <2>2 DEF InnermostKnow
  <2>6. EmissionsCount'
    BY <1>1, <2>1, <2>2 DEF EmissionsCount
  <2>7. NestedOnce'
    BY <2>2 DEF NestedOnce
  <2> QED BY <2>3, <2>4, <2>5, <2>6, <2>7 DEF ToldAgree
<1> QED BY <1>6, <1>7, <1>8, <1>9

(* The next observer is told; one that insists on another value begins the    *)
(* only emission there can be inside the outermost one.                       *)
LEMMA ObserverTold ==
  ASSUME ToldAgree, Delegates!Tell
  PROVE  ToldAgree'
<1> DEFINE n == Len(dg_emissions)
           i == dg_emissions[n]
           o == dg_changed[i]
           rest == [dg_emissions EXCEPT ![n] = i + 1]
<1>1. /\ dg_emissions # <<>> /\ i <= Len(dg_changed)
      /\ dg_told' = [dg_told EXCEPT ![o] = dg_value]
      /\ UNCHANGED <<dg_changed, dg_heard>>
      /\ \/ Wanted[o] \in {NoWish, dg_value} /\ dg_emissions' = rest /\ UNCHANGED dg_value
         \/ /\ Wanted[o] \notin {NoWish, dg_value}
            /\ dg_value' = Wanted[o] /\ dg_emissions' = Append(rest, 1)
  BY Zenon DEF Delegates!Tell, Delegates!Innermost, Delegates!Idle
<1>2. /\ dg_changed \in Seq(DOMAIN Wanted) /\ Len(dg_changed) \in Nat
      /\ dg_emissions \in Seq(Nat) /\ n \in Nat /\ DOMAIN dg_changed = 1..Len(dg_changed)
      /\ dg_told = [p \in DOMAIN Wanted |-> dg_told[p]]
  BY LenProperties DEF ToldAgree, PropertyTypeOK
<1>3. n \in 1..n /\ i \in 1..Len(dg_changed)
  <2>1. n # 0
    BY <1>1, <1>2, EmptySeq
  <2>2. n \in 1..n
    BY <1>2, <2>1
  <2>3. i \in 1..Len(dg_changed) + 1
    BY <2>2 DEF ToldAgree, EmissionsCount
  <2> HIDE DEF i
  <2> QED BY <1>1, <1>2, <2>2, <2>3
<1>4. i \in Nat /\ i + 1 \in Nat /\ o \in DOMAIN Wanted
  BY <1>2, <1>3
<1>5. dg_heard = 0
  BY <1>1 DEF ToldAgree, HeardAtRest
<1>6. /\ rest \in Seq(Nat) /\ Len(rest) = n
      /\ \A k \in 1..n : rest[k] = IF k = n THEN i + 1 ELSE dg_emissions[k]
  <2> DEFINE e == i + 1
  <2>1. e \in Nat
    BY <1>4
  <2> HIDE DEF e, i
  <2>2. /\ [dg_emissions EXCEPT ![n] = e] \in Seq(Nat)
        /\ Len([dg_emissions EXCEPT ![n] = e]) = Len(dg_emissions)
        /\ \A k \in 1..Len(dg_emissions) :
             [dg_emissions EXCEPT ![n] = e][k] = IF k = n THEN e ELSE dg_emissions[k]
    BY <1>2, <1>3, <2>1, ExceptSeq
  <2> QED BY <2>2 DEF e
<1>7. \A p \in DOMAIN Wanted : dg_told'[p] = IF p = o THEN dg_value ELSE dg_told[p]
  BY <1>1, <1>2, <1>4
<1>8. dg_told' = [p \in DOMAIN Wanted |-> dg_told'[p]]
  BY <1>1, <1>2
<1>9. \A j \in 1..Len(dg_changed) : j < i => dg_told[dg_changed[j]] = dg_value
  BY <1>1 DEF ToldAgree, InnermostKnow
<1>10. \A k \in 1..n : rest[k] \in 1..Len(dg_changed) + 1
  <2>1. \A k \in 1..n : dg_emissions[k] \in 1..Len(dg_changed) + 1
    BY DEF ToldAgree, EmissionsCount
  <2>2. i + 1 \in 1..Len(dg_changed) + 1
    BY <1>2, <1>3
  <2> HIDE DEF rest, i
  <2> QED BY <1>6, <2>1, <2>2
<1> HIDE DEF rest
<1>11. HeardAtRest'
  BY <1>1, <1>2, <1>5 DEF HeardAtRest
<1>12. CASE Wanted[o] \in {NoWish, dg_value} /\ dg_emissions' = rest /\ UNCHANGED dg_value
  <2>1. PropertyTypeOK'
    BY <1>1, <1>2, <1>5, <1>6, <1>8, <1>12 DEF PropertyTypeOK
  <2>2. rest[n] = i + 1 /\ rest # <<>>
    BY <1>3, <1>6, EmptySeq
  <2>3. InnermostKnow'
    <3>1. ASSUME NEW j \in 1..Len(dg_changed), j < i + 1
          PROVE  dg_told'[dg_changed[j]] = dg_value
      <4>1. j < i \/ j = i
        BY <1>4, <3>1
      <4>2. dg_changed[j] \in DOMAIN Wanted
        BY <1>2
      <4> HIDE DEF i
      <4> QED BY <1>7, <1>9, <4>1, <4>2
    <3> QED BY <1>1, <1>6, <1>12, <2>2, <3>1 DEF InnermostKnow
  <2>4. EmissionsCount'
    BY <1>1, <1>6, <1>10, <1>12 DEF EmissionsCount
  <2>5. NestedOnce'
    <3>1. dg_emissions # <<>> /\ Len(dg_emissions') = n
      BY <1>1, <1>6, <1>12
    <3> QED BY <1>1, <1>12, <3>1 DEF ToldAgree, NestedOnce
  <2> QED BY <1>11, <2>1, <2>3, <2>4, <2>5 DEF ToldAgree
<1>13. CASE /\ Wanted[o] \notin {NoWish, dg_value}
            /\ dg_value' = Wanted[o] /\ dg_emissions' = Append(rest, 1)
  <2>1. n = 1 /\ Len(dg_changed) # 0
    <3>1. ~ (\A p \in DOMAIN Wanted : Wanted[p] \in {NoWish, dg_value})
      BY <1>4, <1>13
    <3>2. n = 1
      BY <1>1, <3>1 DEF ToldAgree, NestedOnce
    <3> QED BY <1>2, <1>3, <3>2
  <2>2. /\ dg_emissions' \in Seq(Nat) /\ Len(dg_emissions') = n + 1
        /\ dg_emissions'[n + 1] = 1 /\ \A k \in 1..n : dg_emissions'[k] = rest[k]
    BY <1>6, <1>13, AppendProperties
  <2>3. PropertyTypeOK'
    BY <1>1, <1>2, <1>5, <1>8, <2>2 DEF PropertyTypeOK
  <2>4. InnermostKnow'
    BY <1>1, <1>2, <2>2 DEF InnermostKnow
  <2>5. EmissionsCount'
    <3>1. \A k \in 1..n + 1 : k \in 1..n \/ k = n + 1
      BY <1>2
    <3>2. 1 \in 1..Len(dg_changed) + 1
      BY <1>2
    <3>3. \A k \in 1..n + 1 : dg_emissions'[k] \in 1..Len(dg_changed) + 1
      BY <1>10, <2>2, <3>1, <3>2
    <3> QED BY <1>1, <2>2, <3>3 DEF EmissionsCount
  <2>6. NestedOnce'
    <3>1. Len(dg_emissions') = 2 /\ Len(dg_changed') # 0
      BY <1>1, <2>1, <2>2
    <3>2. ASSUME NEW p \in DOMAIN Wanted
          PROVE  Wanted[p] \in {NoWish, dg_value'}
      <4>1. NoWish \in {Wanted[o], Wanted[p]} \/ Wanted[o] = Wanted[p]
        BY <1>4, DelegateBounds, Zenon
      <4> QED BY <1>13, <4>1
    <3> QED BY <3>1, <3>2 DEF NestedOnce
  <2> QED BY <1>11, <2>3, <2>4, <2>5, <2>6 DEF ToldAgree
<1> QED BY <1>1, <1>12, <1>13

LEMMA EmissionReturns ==
  ASSUME ToldAgree, Delegates!Return
  PROVE  ToldAgree'
<1> DEFINE n == Len(dg_emissions)
           i == dg_emissions[n]
<1>1. /\ dg_emissions # <<>> /\ i > Len(dg_changed)
      /\ dg_emissions' = SubSeq(dg_emissions, 1, n - 1)
      /\ dg_heard' = IF n = 1 THEN Len(dg_changed) ELSE dg_heard
      /\ UNCHANGED <<dg_value, dg_changed, dg_told>>
  BY Zenon DEF Delegates!Return, Delegates!Innermost, Delegates!Idle
<1>2. /\ dg_changed \in Seq(DOMAIN Wanted) /\ Len(dg_changed) \in Nat
      /\ dg_emissions \in Seq(Nat) /\ n \in Nat /\ DOMAIN dg_changed = 1..Len(dg_changed)
      /\ dg_told = [p \in DOMAIN Wanted |-> dg_told[p]]
  BY LenProperties DEF ToldAgree, PropertyTypeOK
<1>3. n \in {1, 2} /\ n \in 1..n
  BY <1>1 DEF ToldAgree, NestedOnce
<1>4. i \in Nat
  BY <1>2, <1>3
<1>5. \A j \in 1..Len(dg_changed) : dg_told[dg_changed[j]] = dg_value
  <2>1. \A j \in 1..Len(dg_changed) : j < i
    BY <1>1, <1>2, <1>4
  <2> QED BY <1>1, <2>1 DEF ToldAgree, InnermostKnow
<1>6. dg_heard = 0
  BY <1>1 DEF ToldAgree, HeardAtRest
<1>7. CASE n = 1
  <2>1. dg_emissions' = <<>>
    BY <1>1, <1>2, <1>7
  <2>2. Len(dg_emissions') = 0 /\ dg_heard' = Len(dg_changed)
    BY <1>1, <1>7, <2>1, EmptySeq
  <2>3. PropertyTypeOK'
    BY <1>1, <1>2, <2>1, <2>2, EmptySeq DEF PropertyTypeOK
  <2>4. HeardAtRest'
    <3>1. dg_heard' <= Len(dg_changed')
      BY <1>1, <1>2, <2>2
    <3>2. \A j \in 1..dg_heard' : dg_told'[dg_changed'[j]] = dg_value'
      BY <1>1, <1>5, <2>2
    <3> QED BY <2>1, <3>1, <3>2 DEF HeardAtRest
  <2>5. EmissionsCount'
    BY <2>2 DEF EmissionsCount
  <2> QED BY <2>1, <2>3, <2>4, <2>5 DEF ToldAgree, InnermostKnow, NestedOnce
<1>8. CASE n = 2
  <2>1. /\ dg_emissions' \in Seq(Nat) /\ Len(dg_emissions') = 1
        /\ dg_emissions'[1] = dg_emissions[1]
    BY <1>1, <1>2, <1>8
  <2>2. PropertyTypeOK'
    BY <1>1, <1>2, <1>6, <1>8, <2>1 DEF PropertyTypeOK
  <2>3. HeardAtRest'
    BY <1>1, <1>2, <1>6, <1>8 DEF HeardAtRest
  <2>4. InnermostKnow'
    BY <1>1, <1>5 DEF InnermostKnow
  <2>5. EmissionsCount'
    <3>1. dg_emissions[1] \in 1..Len(dg_changed) + 1
      BY <1>8 DEF ToldAgree, EmissionsCount
    <3> QED BY <1>1, <2>1, <3>1 DEF EmissionsCount
  <2>6. NestedOnce'
    BY <2>1 DEF NestedOnce
  <2> QED BY <2>2, <2>3, <2>4, <2>5, <2>6 DEF ToldAgree
<1> QED BY <1>3, <1>7, <1>8

-----------------------------------------------------------------------------
LEMMA DelegatesStep ==
  SlotsHaveDelegates /\ ToldAgree /\ [Delegates!Next]_Delegates!vars
    => (SlotsHaveDelegates /\ ToldAgree)'
<1> SUFFICES ASSUME SlotsHaveDelegates, ToldAgree, [Delegates!Next]_Delegates!vars
             PROVE  (SlotsHaveDelegates /\ ToldAgree)'
  OBVIOUS
<1>1. ASSUME UNCHANGED <<dg_delegates, dg_capacity, dg_slot, dg_copied, dg_lost, dg_fault>>
      PROVE  SlotsHaveDelegates'
  BY <1>1 DEF SlotsHaveDelegates, DelegatesTypeOK, SlotsAreApart, FunctionsFitStorage,
              NothingMiscopied
<1>2. ASSUME UNCHANGED Delegates!propertyVars
      PROVE  ToldAgree'
  <2>1. UNCHANGED <<dg_value, dg_changed, dg_emissions, dg_told, dg_heard>>
    BY <1>2 DEF Delegates!propertyVars
  <2>2. PropertyTypeOK'
    BY <2>1 DEF ToldAgree, PropertyTypeOK
  <2> QED BY <2>1, <2>2 DEF ToldAgree, HeardAtRest, InnermostKnow, EmissionsCount, NestedOnce
<1>3. CASE UNCHANGED Delegates!vars
  BY <1>1, <1>2, <1>3 DEF Delegates!vars, Delegates!signalVars
<1>4. CASE Delegates!Emitted /\ UNCHANGED Delegates!propertyVars
  <2> SUFFICES SlotsHaveDelegates'
    BY <1>2, <1>4
  <2>1. CASE Delegates!Emit
    <3>1. UNCHANGED <<dg_delegates, dg_capacity, dg_slot, dg_copied, dg_lost, dg_fault>>
      BY <2>1, Zenon DEF Delegates!Emit
    <3> QED BY <1>1, <3>1
  <2>2. ASSUME NEW h \in Holders, NEW f \in Functors, Delegates!Add(h, f)
        PROVE  SlotsHaveDelegates'
    BY <2>2, DelegateReused, DelegateAppended DEF Delegates!Add
  <2>3. CASE Delegates!Destroy
    BY <2>3, SignalDestroyed
  <2>4. ASSUME NEW h \in Holders, Delegates!Remove(h)
        PROVE  SlotsHaveDelegates'
    BY <2>4, DelegateRemoved
  <2>5. ASSUME NEW h \in Holders, NEW g \in Holders, Delegates!CopySlot(g, h)
        PROVE  SlotsHaveDelegates'
    BY <2>5, SlotCopied
  <2> QED BY <1>4, <2>1, <2>2, <2>3, <2>4, <2>5, Zenon DEF Delegates!Emitted
<1>5. CASE Delegates!Observed /\ UNCHANGED Delegates!signalVars
  <2>1. SlotsHaveDelegates'
    BY <1>1, <1>5 DEF Delegates!signalVars
  <2>2. ToldAgree'
    BY <1>5, IdleSteps, ObserverTold, EmissionReturns DEF Delegates!Observed, Delegates!Observers
  <2> QED BY <2>1, <2>2
<1> QED BY <1>3, <1>4, <1>5 DEF Delegates!Next

(* For any number of holders, functors and observers: unless slots are copied *)
(* a slot leads to the delegate of the functor it was given for, no delegate  *)
(* calls a functor that its storage does not have, and when an assignment has *)
(* returned everyone it told knows the value there is.                        *)
THEOREM SlotsAndObserversAgree ==
  Delegates!Spec => [](Delegates!SlotsNameTheirDelegate /\ Delegates!ObserversAgree)
<1>1. Delegates!Init => SlotsHaveDelegates /\ ToldAgree
  BY DelegatesInit, PropertyInit DEF Delegates!Init
<1>2. ASSUME SlotsHaveDelegates, ToldAgree
      PROVE  Delegates!SlotsNameTheirDelegate /\ Delegates!ObserversAgree
  <2>1. Delegates!SlotsNameTheirDelegate
    BY <1>2 DEF SlotsHaveDelegates, SlotsAreApart, FunctionsFitStorage, NothingMiscopied,
                Delegates!SlotsNameTheirDelegate, Delegates!IsSet
  <2>2. Len(dg_emissions) <= Len(dg_changed) + 1
    <3>1. Len(dg_changed) \in Nat
      BY <1>2, LenProperties DEF ToldAgree, PropertyTypeOK
    <3>2. Len(dg_emissions) = 0 \/ Len(dg_emissions) = 1
          \/ (Len(dg_emissions) = 2 /\ Len(dg_changed) # 0)
      BY <1>2, EmptySeq DEF ToldAgree, NestedOnce
    <3> DEFINE m == Len(dg_changed)
               n == Len(dg_emissions)
    <3> HIDE DEF m, n
    <3>3. m \in Nat /\ (n = 0 \/ n = 1 \/ (n = 2 /\ m # 0))
      BY <3>1, <3>2 DEF m, n
    <3>4. n <= m + 1
      BY <3>3
    <3> QED BY <3>4 DEF m, n
  <2>3. Delegates!ObserversAgree
    BY <1>2, <2>2 DEF ToldAgree, HeardAtRest, Delegates!ObserversAgree
  <2> QED BY <2>1, <2>3
<1> QED BY <1>1, <1>2, DelegatesStep, PTL DEF Delegates!Spec

-----------------------------------------------------------------------------
(* Sequences without repetitions, as stacks.                                 *)
LEMMA NothingPushed ==
  ASSUME NEW S PROVE <<>> \in Seq(S) /\ IsInjective(<<>>) /\ Range(<<>>) = {}
<1>1. <<>> \in Seq(S) /\ DOMAIN <<>> = {}
  OBVIOUS
<1> QED BY <1>1 DEF IsInjective, Range

LEMMA PushedOnce ==
  ASSUME NEW S, NEW s \in Seq(S), IsInjective(s), NEW e \in S, e \notin Range(s)
  PROVE  /\ Append(s, e) \in Seq(S) /\ Append(s, e) # <<>> /\ IsInjective(Append(s, e))
         /\ Range(Append(s, e)) = Range(s) \cup {e}
<1> DEFINE j == Append(s, e)
<1>1. /\ j \in Seq(S) /\ j # <<>> /\ Len(j) = Len(s) + 1
      /\ \A i \in 1..Len(s) : j[i] = s[i]
      /\ j[Len(s) + 1] = e
  BY AppendProperties
<1>2. Len(s) \in Nat /\ DOMAIN s = 1..Len(s) /\ DOMAIN j = 1..Len(s) + 1
  BY <1>1, LenProperties
<1> HIDE DEF j
<1>3. \A i \in DOMAIN j : (i \in DOMAIN s /\ j[i] = s[i]) \/ (i = Len(s) + 1 /\ j[i] = e)
  BY <1>1, <1>2
<1>4. IsInjective(j)
  BY <1>3 DEF IsInjective, Range
<1>5. DOMAIN s \subseteq DOMAIN j /\ Len(s) + 1 \in DOMAIN j
  BY <1>2
<1>6. Range(j) = Range(s) \cup {e}
  BY <1>1, <1>2, <1>3, <1>5 DEF Range
<1> QED BY <1>1, <1>4, <1>6 DEF j

LEMMA PoppedOnce ==
  ASSUME NEW S, NEW s \in Seq(S), s # <<>>, IsInjective(s)
  PROVE  /\ s[Len(s)] \in Range(s)
         /\ SubSeq(s, 1, Len(s) - 1) \in Seq(S) /\ IsInjective(SubSeq(s, 1, Len(s) - 1))
         /\ Range(SubSeq(s, 1, Len(s) - 1)) = Range(s) \ {s[Len(s)]}
<1> DEFINE j == SubSeq(s, 1, Len(s) - 1)
<1>1. Len(s) \in Nat \ {0} /\ DOMAIN s = 1..Len(s)
  BY LenProperties, EmptySeq
<1>2. \A i \in 1..Len(s) - 1 : s[i] \in S
  BY <1>1
<1>3. j \in Seq(S) /\ Len(j) = Len(s) - 1 /\ \A i \in 1..Len(s) - 1 : j[i] = s[i]
  BY <1>1, <1>2, SubSeqProperties
<1>4. DOMAIN j = 1..Len(s) - 1
  BY <1>3, LenProperties
<1> HIDE DEF j
<1>5. \A i \in DOMAIN j : i \in DOMAIN s /\ i # Len(s) /\ j[i] = s[i]
  BY <1>1, <1>3, <1>4
<1>6. \A i \in DOMAIN s : i \in DOMAIN j \/ i = Len(s)
  BY <1>1, <1>4
<1>7. IsInjective(j)
  BY <1>5 DEF IsInjective
<1>8. Len(s) \in DOMAIN s
  BY <1>1
<1>9. Range(j) = Range(s) \ {s[Len(s)]} /\ s[Len(s)] \in Range(s)
  BY <1>5, <1>6, <1>8 DEF Range, IsInjective
<1> QED BY <1>3, <1>7, <1>9 DEF j

-----------------------------------------------------------------------------
(* Coroutines: types; who is on the stack, and whose state is allocated.     *)
Running == {"initial", "body", "end", "final", "done"}
Phases == Running \cup {"not called", "never started", "suspended", "deleted"}
CallTypeOK ==
  /\ co_stack \in Seq(Calls) /\ IsInjective(co_stack) /\ co_phase \in [Calls -> Phases]
  /\ co_finals \in [Calls -> {0, 1, 2}]
StatesAreLive ==
  /\ co_future = {c \in Calls : co_phase[c] # "not called"}
  /\ co_registry = co_future /\ co_to_caller = co_future
  /\ co_live = {c \in co_future : co_phase[c] # "deleted"}
  /\ Range(co_stack) = {c \in Calls : co_phase[c] \in Running}
FinalsAwaited ==
  \A c \in Calls :
    /\ co_finals[c] = 0 \/ co_phase[c] \in {"end", "final", "done", "deleted", "suspended"}
    /\ co_finals[c] # 2 \/ co_phase[c] \in {"done", "deleted", "suspended"}

CallsFindTheirState == CallTypeOK /\ StatesAreLive /\ FinalsAwaited /\ co_fault = "none"

LEMMA CallsInit == Coroutines!Init => CallsFindTheirState
<1> SUFFICES ASSUME Coroutines!Init PROVE CallsFindTheirState
  OBVIOUS
<1> USE DEF Coroutines!Init
<1>1. CallTypeOK
  BY NothingPushed DEF CallTypeOK, Phases
<1>2. Range(co_stack) = {}
  BY NothingPushed
<1>3. StatesAreLive
  BY <1>2 DEF StatesAreLive, Running
<1>4. FinalsAwaited
  <2>1. \A c \in Calls : co_finals[c] = 0
    OBVIOUS
  <2> QED BY <2>1, FewDiffer, Zenon DEF FinalsAwaited
<1> QED BY <1>1, <1>3, <1>4 DEF CallsFindTheirState

LEMMA CallsStep ==
  CallsFindTheirState /\ [Coroutines!Next]_Coroutines!vars => CallsFindTheirState'
<1> SUFFICES ASSUME CallsFindTheirState, [Coroutines!Next]_Coroutines!vars
             PROVE  CallsFindTheirState'
  OBVIOUS
<1> USE DEF CallsFindTheirState, CallTypeOK
(* A call that runs is on the stack, and leaves it. *)
<1>1. ASSUME NEW c \in Calls, Coroutines!Runs(c)
      PROVE  /\ co_phase[c] \in Running /\ c \in co_live /\ c \in co_registry
             /\ co_stack # <<>> /\ co_stack[Len(co_stack)] = c
             /\ LET s == Coroutines!Front(co_stack)
                IN  s \in Seq(Calls) /\ IsInjective(s) /\ Range(s) = Range(co_stack) \ {c}
  <2>1. co_stack # <<>> /\ c = co_stack[Len(co_stack)]
    BY <1>1 DEF Coroutines!Runs, Coroutines!Last
  <2>2. LET s == SubSeq(co_stack, 1, Len(co_stack) - 1)
        IN  s \in Seq(Calls) /\ IsInjective(s) /\ Range(s) = Range(co_stack) \ {c}
            /\ c \in Range(co_stack)
    BY <2>1, PoppedOnce
  <2>3. Coroutines!Front(co_stack) = SubSeq(co_stack, 1, Len(co_stack) - 1)
    BY DEF Coroutines!Front
  <2> QED BY <2>1, <2>2, <2>3 DEF StatesAreLive, Running
<1>2. ASSUME NEW c \in Calls, Coroutines!DoCoroutine(c) PROVE CallsFindTheirState'
  <2>1. c \notin Range(co_stack)
    BY <1>2 DEF Coroutines!DoCoroutine, StatesAreLive, Running
  <2>2. /\ co_stack' \in Seq(Calls) /\ IsInjective(co_stack')
        /\ Range(co_stack') = Range(co_stack) \cup {c}
    <3>1. co_stack \in Seq(Calls) /\ IsInjective(co_stack) /\ co_stack' = Append(co_stack, c)
      BY <1>2 DEF Coroutines!DoCoroutine
    <3> QED BY <2>1, <3>1, PushedOnce
  <2>3. co_phase' = [co_phase EXCEPT ![c] = "initial"]
    BY <1>2 DEF Coroutines!DoCoroutine, Coroutines!To
  <2>4. CallTypeOK'
    <3>1. UNCHANGED co_finals
      BY <1>2 DEF Coroutines!DoCoroutine
    <3>2. co_phase' \in [Calls -> Phases]
      BY <1>2, <2>3 DEF Phases, Running
    <3> QED BY <2>2, <3>1, <3>2 DEF CallTypeOK
  <2>5. StatesAreLive'
    <3>1. \A d \in Calls : co_phase'[d] = IF d = c THEN "initial" ELSE co_phase[d]
      BY <2>3
    <3>2. co_phase[c] = "not called"
      BY <1>2 DEF Coroutines!DoCoroutine
    <3>3. /\ co_future' = co_future \cup {c} /\ co_registry' = co_registry \cup {c}
          /\ co_to_caller' = co_to_caller \cup {c} /\ co_live' = co_live \cup {c}
      BY <1>2 DEF Coroutines!DoCoroutine
    <3>4. co_future' = {d \in Calls : co_phase'[d] # "not called"}
      BY <3>1, <3>2, <3>3 DEF StatesAreLive
    <3>5. co_live' = {d \in co_future' : co_phase'[d] # "deleted"}
      BY <3>1, <3>3, <3>4 DEF StatesAreLive
    <3>6. Range(co_stack') = {d \in Calls : co_phase'[d] \in Running}
      BY <2>2, <3>1, <3>2 DEF StatesAreLive, Running
    <3> QED BY <3>3, <3>4, <3>5, <3>6 DEF StatesAreLive
  <2>6. FinalsAwaited'
    BY <1>2, <2>3 DEF Coroutines!DoCoroutine, FinalsAwaited
  <2> QED BY <1>2, <2>4, <2>5, <2>6 DEF Coroutines!DoCoroutine
(* What an await does that leaves the call where p is, or off the stack.     *)
<1>3. ASSUME NEW c \in Calls, NEW p \in {"body", "end", "done"}, NEW a, Coroutines!Runs(c),
             Coroutines!CoAwait(c, a, p),
             UNCHANGED <<co_live, co_registry, co_to_caller, co_future>>
      PROVE  /\ co_stack' \in Seq(Calls) /\ IsInjective(co_stack') /\ StatesAreLive'
             /\ co_phase' \in [Calls -> Phases] /\ co_fault' = "none"
             /\ \A d \in Calls \ {c} : co_phase'[d] = co_phase[d]
             /\ \/ co_phase'[c] = p
                \/ co_phase'[c] = "never started" /\ co_phase[c] = "initial"
                \/ co_phase'[c] = "suspended"
  <2>1. co_fault' = "none"
    BY <1>1, <1>3 DEF Coroutines!CoAwait
  <2>2. CASE a \in {"void", "suspend"}
    <3>1. PICK q \in {"never started", "suspended"} :
            /\ co_phase' = [co_phase EXCEPT ![c] = q]
            /\ q = "never started" => co_phase[c] = "initial"
      BY <1>3, <2>2 DEF Coroutines!CoAwait, Coroutines!To
    <3>2. co_stack' = Coroutines!Front(co_stack)
      BY <1>3, <2>2 DEF Coroutines!CoAwait
    <3>3. /\ co_stack' \in Seq(Calls) /\ IsInjective(co_stack')
          /\ Range(co_stack') = Range(co_stack) \ {c}
      BY <1>1, <1>3, <3>2
    <3>4. StatesAreLive'
      BY <1>1, <1>3, <3>1, <3>3 DEF StatesAreLive, Running
    <3> QED BY <1>3, <2>1, <3>1, <3>3, <3>4 DEF Phases
  <2>3. CASE a \notin {"void", "suspend"}
    <3>1. co_phase' = [co_phase EXCEPT ![c] = p] /\ co_stack' = co_stack
      BY <1>3, <2>3 DEF Coroutines!CoAwait, Coroutines!To
    <3>2. p \in Running
      BY DEF Running
    <3>3. StatesAreLive'
      BY <1>1, <1>3, <3>1, <3>2 DEF StatesAreLive, Running
    <3> QED BY <2>1, <3>1, <3>2, <3>3 DEF Phases
  <2> QED BY <2>2, <2>3
<1>4. ASSUME NEW c \in Calls, NEW a, Coroutines!AwaitInitial(c, a) \/ Coroutines!Await(c, a)
      PROVE  CallsFindTheirState'
  <2>1. /\ Coroutines!Runs(c) /\ Coroutines!CoAwait(c, a, "body")
        /\ UNCHANGED <<co_live, co_registry, co_to_caller, co_future, co_finals>>
        /\ co_phase[c] \in {"initial", "body"}
    BY <1>4 DEF Coroutines!AwaitInitial, Coroutines!Await
  <2>2. /\ co_stack' \in Seq(Calls) /\ IsInjective(co_stack') /\ StatesAreLive'
        /\ co_phase' \in [Calls -> Phases] /\ co_fault' = "none"
        /\ \A d \in Calls \ {c} : co_phase'[d] = co_phase[d]
        /\ co_phase'[c] \in {"body", "never started", "suspended"}
    BY <1>3, <2>1
  <2>3. co_finals[c] = 0
    BY <2>1 DEF FinalsAwaited
  <2>4. FinalsAwaited'
    BY <2>1, <2>2, <2>3 DEF FinalsAwaited
  <2> QED BY <2>1, <2>2, <2>4
<1>5. ASSUME NEW c \in Calls, NEW a, Coroutines!CoReturn(c, a) PROVE CallsFindTheirState'
  <2>1. /\ Coroutines!Runs(c) /\ Coroutines!CoAwait(c, a, "end")
        /\ UNCHANGED <<co_live, co_registry, co_to_caller, co_future>>
        /\ co_phase[c] = "body" /\ co_finals' = [co_finals EXCEPT ![c] = @ + 1]
    BY <1>5 DEF Coroutines!CoReturn
  <2>2. /\ co_stack' \in Seq(Calls) /\ IsInjective(co_stack') /\ StatesAreLive'
        /\ co_phase' \in [Calls -> Phases] /\ co_fault' = "none"
        /\ \A d \in Calls \ {c} : co_phase'[d] = co_phase[d]
        /\ co_phase'[c] \in {"end", "suspended"}
    BY <1>3, <2>1
  <2>3. co_finals[c] = 0
    BY <2>1 DEF FinalsAwaited
  <2>4. co_finals' = [co_finals EXCEPT ![c] = 1]
    BY <2>1, <2>3
  <2>5. co_finals' \in [Calls -> {0, 1, 2}]
    BY <2>4
  <2>6. FinalsAwaited'
    <3>1. \A d \in Calls \ {c} : co_finals'[d] = co_finals[d]
      BY <2>4
    <3>2. co_finals'[c] = 1
      BY <2>4
    <3> QED BY <2>2, <3>1, <3>2, FewDiffer, Zenon DEF FinalsAwaited
  <2> QED BY <2>2, <2>5, <2>6
<1>6. ASSUME NEW c \in Calls, NEW a, Coroutines!AwaitFinal(c, a) PROVE CallsFindTheirState'
  <2>1. /\ Coroutines!Runs(c) /\ Coroutines!CoAwait(c, a, "done")
        /\ UNCHANGED <<co_live, co_registry, co_to_caller, co_future>>
        /\ co_phase[c] = "final" /\ co_finals' = [co_finals EXCEPT ![c] = @ + 1]
    BY <1>6 DEF Coroutines!AwaitFinal
  <2>2. /\ co_stack' \in Seq(Calls) /\ IsInjective(co_stack') /\ StatesAreLive'
        /\ co_phase' \in [Calls -> Phases] /\ co_fault' = "none"
        /\ \A d \in Calls \ {c} : co_phase'[d] = co_phase[d]
        /\ co_phase'[c] \in {"done", "suspended"}
    BY <1>3, <2>1
  <2>3. co_finals[c] # 2
    BY <2>1 DEF FinalsAwaited
  <2>4. /\ \A d \in Calls \ {c} : co_finals'[d] = co_finals[d]
        /\ co_finals' \in [Calls -> {0, 1, 2}]
    BY <2>1, <2>3
  <2>5. FinalsAwaited'
    BY <2>2, <2>4, Zenon DEF FinalsAwaited
  <2> QED BY <2>2, <2>4, <2>5
<1>7. ASSUME NEW c \in Calls, Coroutines!End(c) PROVE CallsFindTheirState'
  <2>1. /\ co_phase' = [co_phase EXCEPT ![c] = "final"] /\ co_phase[c] \in {"body", "end"}
        /\ UNCHANGED <<co_stack, co_live, co_registry, co_to_caller, co_future, co_finals,
                       co_fault>>
    BY <1>7 DEF Coroutines!End, Coroutines!To
  <2>2. CallTypeOK'
    BY <2>1 DEF Phases, Running
  <2>3. StatesAreLive'
    BY <2>1 DEF StatesAreLive, Running
  <2>4. co_finals[c] # 2
    BY <2>1 DEF FinalsAwaited
  <2>5. FinalsAwaited'
    BY <2>1, <2>4 DEF FinalsAwaited
  <2> QED BY <2>1, <2>2, <2>3, <2>5
<1>8. ASSUME NEW c \in Calls, Coroutines!Delete(c) PROVE CallsFindTheirState'
  <2>1. /\ co_phase' = [co_phase EXCEPT ![c] = "deleted"] /\ co_phase[c] = "done"
        /\ co_stack' = Coroutines!Front(co_stack) /\ co_live' = co_live \ {c}
        /\ UNCHANGED <<co_registry, co_to_caller, co_future, co_finals, co_fault>>
        /\ Coroutines!Runs(c)
    BY <1>8 DEF Coroutines!Delete, Coroutines!To
  <2>2. /\ co_stack' \in Seq(Calls) /\ IsInjective(co_stack')
        /\ Range(co_stack') = Range(co_stack) \ {c}
    BY <1>1, <2>1
  <2>3. CallTypeOK'
    BY <2>1, <2>2 DEF Phases, Running
  <2>4. StatesAreLive'
    BY <2>1, <2>2 DEF StatesAreLive, Running
  <2>6. FinalsAwaited'
    BY <2>1 DEF FinalsAwaited
  <2> QED BY <2>1, <2>3, <2>4, <2>6
<1>9. CASE UNCHANGED Coroutines!vars
  BY <1>9 DEF Coroutines!vars, StatesAreLive, FinalsAwaited
<1> QED BY <1>2, <1>4, <1>5, <1>6, <1>7, <1>8, <1>9 DEF Coroutines!Next

(* For any calls that suspend, return or throw wherever they may: every await *)
(* finds its state, a jump goes to a caller that waits, and a state is there  *)
(* until its call has completed.                                              *)
THEOREM PromisesStayValid == Coroutines!Spec => []Coroutines!PromiseValidUntilCompletion
<1>1. ASSUME CallsFindTheirState PROVE Coroutines!PromiseValidUntilCompletion
  <2>1. Coroutines!ToSet(co_stack) = Range(co_stack)
    BY DEF Coroutines!ToSet, Range
  <2>2. Range(co_stack) \subseteq co_live \cap co_to_caller
    BY <1>1 DEF CallsFindTheirState, StatesAreLive, Running
  <2>3. ASSUME NEW c \in Calls
        PROVE  /\ co_finals[c] <= 2
               /\ co_finals[c] = 2 => co_phase[c] \in {"done", "deleted", "suspended"}
    <3>1. co_finals[c] \in {0, 1, 2}
      BY <1>1 DEF CallsFindTheirState, CallTypeOK
    <3>2. co_finals[c] <= 2
      BY <3>1
    <3>3. co_finals[c] = 2 => co_phase[c] \in {"done", "deleted", "suspended"}
      BY <1>1 DEF CallsFindTheirState, FinalsAwaited
    <3> QED BY <3>2, <3>3
  <2>4. \A c \in co_future : c \notin co_live <=> co_phase[c] = "deleted"
    BY <1>1 DEF CallsFindTheirState, StatesAreLive
  <2> QED BY <1>1, <2>1, <2>2, <2>3, <2>4
      DEF CallsFindTheirState, Coroutines!PromiseValidUntilCompletion
<1> QED BY <1>1, CallsInit, CallsStep, PTL DEF Coroutines!Spec

-----------------------------------------------------------------------------
(* Actors: what is posted to an actor is of a started fiber of its own and   *)
(* was posted by another thread; a thread that waits holds its own mutex.    *)
Posted(a) ==
  [fiber : {f \in af_started : HostOf[f] = a}, step : Actor!Steps,
   by : (Actors \cup {Actor!Client}) \ {a}]
ActorTypeOK ==
  /\ af_started \subseteq Fibers /\ af_dispose \subseteq Fibers
  /\ DOMAIN af_work_list = Actors /\ \A a \in Actors : af_work_list[a] \in Seq(Posted(a))
  /\ af_fibers \in [Actors -> SUBSET Fibers]
  /\ af_works \in [Fibers -> Nat] /\ af_next_work_id \in [Fibers -> Nat]
MutexIsHeld ==
  /\ DOMAIN af_mutex = Actors /\ \A a \in Actors : af_mutex[a] \in {a, Actor!Nobody}
  /\ DOMAIN af_waits = Actors
  /\ \A a \in Actors : \A c, d \in af_waits[a] : c = d /\ c[1] \in af_started
  /\ \A a \in Actors : af_waits[a] # {} => af_mutex[a] = a
  /\ \A a \in Actors : af_mutex[a] = a => af_work_list[a] # <<>>
WorksAreCounted ==
  \A f \in Fibers : /\ f \in af_dispose <=> af_next_work_id[f] > af_works[f]
                    /\ f \notin af_started => af_next_work_id[f] = 0

FibersAreContinued == ActorTypeOK /\ MutexIsHeld /\ WorksAreCounted

LEMMA ActorInit == Actor!Init => FibersAreContinued
<1> SUFFICES ASSUME Actor!Init PROVE FibersAreContinued
  OBVIOUS
<1> USE CallbackAssumption DEF CallbackAssumption, Actor!Init
<1>1. ActorTypeOK
  BY DEF ActorTypeOK
<1>2. MutexIsHeld
  BY DEF MutexIsHeld, Actor!Nobody
<1>3. WorksAreCounted
  BY DEF WorksAreCounted
<1> QED BY <1>1, <1>2, <1>3 DEF FibersAreContinued

(* More may be posted once more fibers have been started. *)
LEMMA SeqOfMore ==
  ASSUME NEW S, NEW T, S \subseteq T, NEW q \in Seq(S)
  PROVE  q \in Seq(T)
OBVIOUS

(* What is posted, worked off and appended stays what may be posted.         *)
LEMMA PostedStays ==
  ASSUME ActorTypeOK, NEW a \in Actors, af_started \subseteq af_started',
         \/ af_work_list'[a] = af_work_list[a]
         \/ af_work_list[a] # <<>> /\ af_work_list'[a] = Tail(af_work_list[a])
         \/ \E w \in Posted(a) : af_work_list'[a] = Append(af_work_list[a], w)
  PROVE  af_work_list'[a] \in Seq(Posted(a)')
<1>1. af_work_list[a] \in Seq(Posted(a))
  BY DEF ActorTypeOK
<1>2. Posted(a) \subseteq Posted(a)'
  BY DEF Posted
<1> DEFINE S == Posted(a)
<1>3. af_work_list'[a] \in Seq(S)
  <2> HIDE DEF S
  <2>1. af_work_list[a] # <<>> => Tail(af_work_list[a]) \in Seq(S)
    BY <1>1 DEF S
  <2>2. \A w \in S : Append(af_work_list[a], w) \in Seq(S)
    BY <1>1 DEF S
  <2> QED BY <1>1, <2>1, <2>2 DEF S
<1> QED BY <1>2, <1>3, SeqOfMore

(* What an actor is about to run was posted to it.                           *)
LEMMA HeadIsPosted ==
  ASSUME ActorTypeOK, NEW a \in Actors, af_work_list[a] # <<>>
  PROVE  Head(af_work_list[a]) \in Posted(a)
<1> DEFINE S == Posted(a)
<1>1. af_work_list[a] \in Seq(S)
  BY DEF ActorTypeOK
<1> SUFFICES Head(af_work_list[a]) \in S
  OBVIOUS
<1> HIDE DEF S
<1> QED BY <1>1

LEMMA ActorStep == FibersAreContinued /\ [Actor!Next]_Actor!vars => FibersAreContinued'
<1> SUFFICES ASSUME FibersAreContinued, [Actor!Next]_Actor!vars PROVE FibersAreContinued'
  OBVIOUS
<1> USE CallbackAssumption DEF CallbackAssumption, FibersAreContinued
<1>1. CASE UNCHANGED Actor!vars
  BY <1>1 DEF Actor!vars, ActorTypeOK, MutexIsHeld, WorksAreCounted, Posted
<1>2. CASE \E f \in Fibers : Actor!CreateFiber(f) \/ Actor!Then(f)
  <2>1. PICK f \in Fibers : Actor!CreateFiber(f) \/ Actor!Then(f)
    BY <1>2
  <2>2. UNCHANGED <<af_mutex, af_work_list, af_waits, af_next_work_id, af_dispose, af_started>>
    BY <2>1 DEF Actor!CreateFiber, Actor!Then
  <2>3. MutexIsHeld'
    BY <2>2 DEF MutexIsHeld
  <2>4. f \notin af_started /\ HostOf[f] \in Actors
    BY <2>1 DEF Actor!CreateFiber, Actor!Then
  <2>5. af_fibers' \in [Actors -> SUBSET Fibers]
    <3> DEFINE h == HostOf[f]
    <3>1. af_fibers' = af_fibers \/ af_fibers' = [af_fibers EXCEPT ![h] = @ \cup {f}]
      BY <2>1 DEF Actor!CreateFiber, Actor!Then
    <3>2. af_fibers \in [Actors -> SUBSET Fibers] /\ h \in Actors
      BY <2>4 DEF ActorTypeOK
    <3> HIDE DEF h
    <3>3. af_fibers[h] \cup {f} \in SUBSET Fibers
      BY <3>2
    <3> QED BY <3>1, <3>2, <3>3
  <2>7. af_works' = af_works \/ af_works' = [af_works EXCEPT ![f] = @ + 1]
    BY <2>1 DEF Actor!CreateFiber, Actor!Then
  <2>8. af_works' \in [Fibers -> Nat]
    BY <2>7 DEF ActorTypeOK
  <2>9. \A g \in Fibers : g # f => af_works'[g] = af_works[g]
    BY <2>7 DEF ActorTypeOK
  <2>10. af_next_work_id[f] = 0 /\ af_works[f] \in Nat /\ af_works'[f] \in Nat
    BY <2>4, <2>8 DEF WorksAreCounted, ActorTypeOK
  <2>11. f \notin af_dispose
    BY <2>10 DEF WorksAreCounted
  <2>12. WorksAreCounted'
    BY <2>2, <2>9, <2>10, <2>11 DEF WorksAreCounted
  <2>6. \A a \in Actors : af_work_list'[a] \in Seq(Posted(a)')
    BY <2>2, PostedStays
  <2> QED BY <2>2, <2>3, <2>5, <2>6, <2>8, <2>12 DEF ActorTypeOK
<1>3. CASE \E f \in Fibers : Actor!Start(f)
  <2>1. PICK f \in Fibers : Actor!Start(f)
    BY <1>3
  <2>2. \A a \in Actors : af_work_list'[a] \in Seq(Posted(a)')
    BY <2>1, PostedStays DEF Actor!Start
  <2>3. MutexIsHeld' /\ WorksAreCounted'
    BY <2>1 DEF Actor!Start, ActorTypeOK, MutexIsHeld, WorksAreCounted
  <2> QED BY <2>1, <2>2, <2>3 DEF Actor!Start, ActorTypeOK
<1>4. CASE \E a \in Actors : Actor!RunOnce(a)
  <2>1. PICK a \in Actors : Actor!RunOnce(a)
    BY <1>4
  <2> DEFINE f == Head(af_work_list[a]).fiber
  <2>2. f \in af_started /\ f \in Fibers
    <3>1. Head(af_work_list[a]) \in Posted(a)
      BY <2>1, HeadIsPosted DEF Actor!RunOnce
    <3> QED BY <3>1 DEF Posted, ActorTypeOK
  <2>3. \A b \in Actors : af_work_list'[b] \in Seq(Posted(b)')
    BY <2>1, PostedStays DEF Actor!RunOnce
  <2>4. MutexIsHeld'
    BY <2>1 DEF Actor!RunOnce, MutexIsHeld, Actor!Nobody
  <2>5. \/ UNCHANGED <<af_next_work_id, af_dispose>>
        \/ /\ af_next_work_id' = [af_next_work_id EXCEPT ![f] = @ + 1]
           /\ af_dispose' = IF af_next_work_id[f] < af_works[f] THEN af_dispose
                            ELSE af_dispose \cup {f}
    BY <2>1 DEF Actor!RunOnce
  <2>6. UNCHANGED <<af_started, af_work_list, af_waits, af_fibers, af_works>>
    BY <2>1 DEF Actor!RunOnce
  <2> HIDE DEF f
  <2>7. af_next_work_id' \in [Fibers -> Nat] /\ af_dispose' \subseteq Fibers
    BY <2>2, <2>5 DEF ActorTypeOK
  <2>8. \A g \in Fibers :
          /\ g # f => af_next_work_id'[g] = af_next_work_id[g] /\ (g \in af_dispose' <=> g \in af_dispose)
          /\ g \in af_dispose' <=> af_next_work_id'[g] > af_works[g]
    <3>1. CASE UNCHANGED <<af_next_work_id, af_dispose>>
      BY <3>1 DEF WorksAreCounted
    <3>2. CASE /\ af_next_work_id' = [af_next_work_id EXCEPT ![f] = @ + 1]
               /\ af_dispose' = IF af_next_work_id[f] < af_works[f] THEN af_dispose
                                ELSE af_dispose \cup {f}
      <4>1. af_next_work_id'[f] = af_next_work_id[f] + 1
            /\ \A g \in Fibers : g # f => af_next_work_id'[g] = af_next_work_id[g]
        BY <2>2, <3>2 DEF ActorTypeOK
      <4>2. af_next_work_id[f] \in Nat /\ af_works[f] \in Nat
        BY <2>2 DEF ActorTypeOK
      <4>3. \A g \in Fibers : g # f => (g \in af_dispose' <=> g \in af_dispose)
        BY <3>2
      <4>4. f \in af_dispose' <=> af_next_work_id[f] >= af_works[f]
        BY <2>2, <3>2, <4>2 DEF WorksAreCounted
      <4> QED BY <4>1, <4>2, <4>3, <4>4 DEF WorksAreCounted
    <3> QED BY <2>5, <3>1, <3>2
  <2>9. WorksAreCounted'
    BY <2>2, <2>6, <2>8 DEF WorksAreCounted
  <2> QED BY <2>3, <2>4, <2>6, <2>7, <2>9 DEF ActorTypeOK
<1>5. CASE \E a \in Actors, f \in Fibers, s \in Actor!Steps : Actor!WorkCalls(a, f, s)
  <2>1. PICK a \in Actors, f \in Fibers, s \in Actor!Steps : Actor!WorkCalls(a, f, s)
    BY <1>5
  <2>2. UNCHANGED <<af_mutex, af_work_list, af_fibers, af_works, af_next_work_id, af_dispose,
                    af_started>>
    BY <2>1 DEF Actor!WorkCalls
  <2>3. MutexIsHeld'
    BY <2>1, <2>2 DEF Actor!WorkCalls, MutexIsHeld
  <2>4. \A b \in Actors : af_work_list'[b] \in Seq(Posted(b)')
    BY <2>2, PostedStays
  <2> QED BY <2>2, <2>3, <2>4 DEF ActorTypeOK, WorksAreCounted
<1>6. ASSUME NEW f \in af_started, NEW s \in Actor!Steps,
             NEW by \in (Actors \cup {Actor!Client}) \ {HostOf[f]}, HostOf[f] \in Actors,
             Actor!Post(HostOf[f], f, s, by), f \in Fibers,
             UNCHANGED <<af_mutex, af_fibers, af_works, af_next_work_id, af_dispose, af_started>>,
             DOMAIN af_waits' = Actors, \A a \in Actors : af_waits'[a] \subseteq af_waits[a]
      PROVE  FibersAreContinued'
  <2> DEFINE w == [fiber |-> f, step |-> s, by |-> by]
             h == HostOf[f]
  <2>1. w \in Posted(h)
    BY <1>6 DEF Posted
  <2>2. /\ af_work_list'[h] = Append(af_work_list[h], w)
        /\ \A b \in Actors : b # h => af_work_list'[b] = af_work_list[b]
        /\ DOMAIN af_work_list' = Actors /\ af_mutex[h] = Actor!Nobody
    BY <1>6 DEF Actor!Post, ActorTypeOK
  <2> HIDE DEF w, h
  <2>3. \A b \in Actors : af_work_list'[b] \in Seq(Posted(b)')
    BY <1>6, <2>1, <2>2, PostedStays
  <2>4. h # Actor!Nobody
    BY <1>6 DEF h, Actor!Nobody
  <2>5. MutexIsHeld'
    BY <1>6, <2>2, <2>4 DEF MutexIsHeld
  <2> QED BY <1>6, <2>2, <2>3, <2>5 DEF ActorTypeOK, WorksAreCounted
<1>7. CASE \E f \in Fibers, s \in Actor!Steps : Actor!Call(f, s)
  <2>1. PICK f \in Fibers, s \in Actor!Steps : Actor!Call(f, s)
    BY <1>7
  <2>2. HostOf[f] \in Actors /\ HostOf[f] # Actor!Client
    BY DEF Actor!Client
  <2> QED BY <2>1, <2>2, <1>6 DEF Actor!Call, MutexIsHeld
<1>8. CASE \E a \in Actors, f \in Fibers, s \in Actor!Steps : Actor!WorkPosts(a, f, s)
  <2>1. PICK a \in Actors, f \in Fibers, s \in Actor!Steps : Actor!WorkPosts(a, f, s)
    BY <1>8
  <2>2. af_mutex[a] = a /\ af_mutex[HostOf[f]] = Actor!Nobody /\ a # Actor!Nobody
    BY <2>1 DEF Actor!WorkPosts, Actor!Post, MutexIsHeld, Actor!Nobody
  <2>3. HostOf[f] \in Actors /\ a # HostOf[f]
    BY <2>2
  <2>4. f \in af_started
    BY <2>1 DEF Actor!WorkPosts, MutexIsHeld
  <2> QED BY <2>1, <2>3, <2>4, <1>6 DEF Actor!WorkPosts, MutexIsHeld
<1>9. CASE \E a \in Actors : Actor!Return(a)
  <2>1. PICK a \in Actors : Actor!Return(a)
    BY <1>9
  <2>2. af_work_list[a] # <<>>
    BY <2>1 DEF Actor!Return, MutexIsHeld
  <2>3. \A b \in Actors : af_work_list'[b] \in Seq(Posted(b)')
    BY <2>1, <2>2, PostedStays DEF Actor!Return, ActorTypeOK
  <2>4. MutexIsHeld'
    BY <2>1 DEF Actor!Return, MutexIsHeld, Actor!Nobody, ActorTypeOK
  <2>5. af_fibers' \in [Actors -> SUBSET Fibers]
    BY <2>1 DEF Actor!Return, ActorTypeOK
  <2> QED BY <2>1, <2>3, <2>4, <2>5 DEF Actor!Return, ActorTypeOK, WorksAreCounted
<1> QED BY <1>1, <1>2, <1>3, <1>4, <1>5, <1>7, <1>8, <1>9 DEF Actor!Next

(* Whatever continues a fiber was posted by another thread than the one that  *)
(* runs its works, and a fiber is disposed of once it has no work left.       *)
THEOREM FibersAreContinuedByOthers == Actor!Spec => []Actor!ContinuedByOthers
<1>1. FibersAreContinued => Actor!ContinuedByOthers
  <2> SUFFICES ASSUME FibersAreContinued PROVE Actor!ContinuedByOthers
    OBVIOUS
  <2>1. ASSUME NEW a \in Actors, NEW i \in DOMAIN af_work_list[a]
        PROVE  HostOf[af_work_list[a][i].fiber] = a /\ af_work_list[a][i].by # a
    <3>1. af_work_list[a] \in Seq(Posted(a))
      BY DEF FibersAreContinued, ActorTypeOK
    <3> DEFINE S == Posted(a)
    <3>2. af_work_list[a][i] \in S
      <4> HIDE DEF S
      <4>1. af_work_list[a] \in Seq(S)
        BY <3>1 DEF S
      <4> QED BY <4>1
    <3> QED BY <3>2 DEF Posted
  <2> QED BY <2>1 DEF Actor!ContinuedByOthers, FibersAreContinued, MutexIsHeld, WorksAreCounted
<1> QED BY <1>1, ActorInit, ActorStep, PTL DEF Actor!Spec

(* Those that wait for each other: no actor of S gets its mutex back.         *)
LEMMA StuckStep ==
  ASSUME FibersAreContinued, [Actor!Next]_Actor!vars, NEW S \in SUBSET Actors,
         \A a \in S : \E c \in af_waits[a] : HostOf[c[1]] \in S
  PROVE  /\ \A a \in S : af_waits'[a] = af_waits[a] /\ af_work_list'[a] = af_work_list[a]
                          /\ af_fibers[a] \subseteq af_fibers'[a]
         /\ \A f \in Fibers : HostOf[f] \in S => af_next_work_id'[f] = af_next_work_id[f]
<1> USE CallbackAssumption DEF CallbackAssumption
<1>1. \A a \in S : af_waits[a] # {} /\ af_mutex[a] = a /\ a # Actor!Nobody /\ a \in Actors
  BY DEF FibersAreContinued, MutexIsHeld, Actor!Nobody
<1>2. ASSUME NEW h \in Actors, NEW f, NEW s, NEW by, Actor!Post(h, f, s, by)
      PROVE  h \notin S /\ \A a \in S : af_work_list'[a] = af_work_list[a]
  BY <1>1, <1>2 DEF Actor!Post, FibersAreContinued, ActorTypeOK
<1>3. CASE UNCHANGED Actor!vars
  BY <1>3 DEF Actor!vars
<1>4. CASE \E f \in Fibers : Actor!CreateFiber(f) \/ Actor!Then(f) \/ Actor!Start(f)
  <2>1. PICK f \in Fibers : Actor!CreateFiber(f) \/ Actor!Then(f) \/ Actor!Start(f)
    BY <1>4
  <2>2. UNCHANGED <<af_work_list, af_waits, af_next_work_id>>
    BY <2>1 DEF Actor!CreateFiber, Actor!Then, Actor!Start
  <2>3. \A a \in Actors : af_fibers[a] \subseteq af_fibers'[a]
    <3> DEFINE h == HostOf[f]
    <3>1. af_fibers' = af_fibers \/ af_fibers' = [af_fibers EXCEPT ![h] = @ \cup {f}]
      BY <2>1 DEF Actor!CreateFiber, Actor!Then, Actor!Start
    <3>2. af_fibers \in [Actors -> SUBSET Fibers]
      BY DEF FibersAreContinued, ActorTypeOK
    <3> HIDE DEF h
    <3>3. ASSUME af_fibers' = [af_fibers EXCEPT ![h] = @ \cup {f}], NEW a \in Actors
          PROVE  af_fibers'[a] = IF a = h THEN af_fibers[a] \cup {f} ELSE af_fibers[a]
      BY <3>2, <3>3
    <3> QED BY <3>1, <3>3
  <2> QED BY <2>2, <2>3
<1>5. CASE \E f \in Fibers, s \in Actor!Steps : Actor!Call(f, s)
  <2>1. PICK f \in Fibers, s \in Actor!Steps : Actor!Call(f, s)
    BY <1>5
  <2> QED BY <2>1, <1>2 DEF Actor!Call
<1>6. CASE \E a \in Actors : Actor!RunOnce(a)
  <2>1. PICK a \in Actors : Actor!RunOnce(a)
    BY <1>6
  <2>2. a \notin S
    BY <2>1, <1>1 DEF Actor!RunOnce
  <2> DEFINE f == Head(af_work_list[a]).fiber
  <2>3. HostOf[f] = a
    <3>1. Head(af_work_list[a]) \in Posted(a)
      BY <2>1, HeadIsPosted DEF Actor!RunOnce, FibersAreContinued
    <3> QED BY <3>1 DEF Posted
  <2>4. \/ UNCHANGED af_next_work_id
        \/ af_next_work_id' = [af_next_work_id EXCEPT ![f] = @ + 1]
    BY <2>1 DEF Actor!RunOnce
  <2> HIDE DEF f
  <2>5. \A g \in Fibers : HostOf[g] \in S => af_next_work_id'[g] = af_next_work_id[g]
    BY <2>2, <2>3, <2>4 DEF FibersAreContinued, ActorTypeOK
  <2> QED BY <2>1, <2>5 DEF Actor!RunOnce
<1>7. CASE \E a \in Actors, f \in Fibers, s \in Actor!Steps : Actor!WorkCalls(a, f, s)
  <2>1. PICK a \in Actors, f \in Fibers, s \in Actor!Steps : Actor!WorkCalls(a, f, s)
    BY <1>7
  <2>2. a \notin S
    BY <2>1, <1>1 DEF Actor!WorkCalls
  <2> QED BY <2>1, <2>2 DEF Actor!WorkCalls, FibersAreContinued, MutexIsHeld
<1>8. CASE \E a \in Actors, f \in Fibers, s \in Actor!Steps : Actor!WorkPosts(a, f, s)
  <2>1. PICK a \in Actors, f \in Fibers, s \in Actor!Steps : Actor!WorkPosts(a, f, s)
    BY <1>8
  <2>2. HostOf[f] \notin S /\ \A b \in S : af_work_list'[b] = af_work_list[b]
    BY <2>1, <1>2 DEF Actor!WorkPosts
  <2>3. a \notin S
    BY <2>1, <2>2 DEF Actor!WorkPosts, FibersAreContinued, MutexIsHeld
  <2> QED BY <2>1, <2>2, <2>3 DEF Actor!WorkPosts, FibersAreContinued, MutexIsHeld
<1>9. CASE \E a \in Actors : Actor!Return(a)
  <2>1. PICK a \in Actors : Actor!Return(a)
    BY <1>9
  <2>2. a \notin S
    BY <2>1, <1>1 DEF Actor!Return
  <2> QED BY <2>1, <2>2 DEF Actor!Return, FibersAreContinued, ActorTypeOK
<1> QED BY <1>3, <1>4, <1>5, <1>6, <1>7, <1>8, <1>9 DEF Actor!Next

(* Actors whose threads wait for each other's mutexes, or for their own, wait *)
(* for ever: no other thread can let a fiber of theirs go on.                 *)
THEOREM StuckActorsStay == Actor!Spec => StuckForGood
<1> DEFINE Stays(a) ==
      /\ a \in Actor!Stuck'
      /\ af_work_list'[a] = af_work_list[a] /\ af_fibers[a] \subseteq af_fibers'[a]
      /\ \A f \in Fibers : HostOf[f] = a => af_next_work_id'[f] = af_next_work_id[f]
<1>1. FibersAreContinued /\ [Actor!Next]_Actor!vars
        => [\A a \in Actor!Stuck : Stays(a)]_Actor!vars
  <2> SUFFICES ASSUME FibersAreContinued, [Actor!Next]_Actor!vars, NEW a \in Actor!Stuck
               PROVE  Stays(a)
    OBVIOUS
  <2>1. PICK S \in SUBSET Actors :
          a \in S /\ \A b \in S : \E c \in af_waits[b] : HostOf[c[1]] \in S
    BY DEF Actor!Stuck
  <2>2. /\ \A b \in S : af_waits'[b] = af_waits[b] /\ af_work_list'[b] = af_work_list[b]
                          /\ af_fibers[b] \subseteq af_fibers'[b]
        /\ \A f \in Fibers : HostOf[f] \in S => af_next_work_id'[f] = af_next_work_id[f]
    BY <2>1, StuckStep
  <2>3. \A b \in S : \E c \in af_waits'[b] : HostOf[c[1]] \in S
    BY <2>1, <2>2
  <2>4. a \in Actor!Stuck'
    BY <2>1, <2>3 DEF Actor!Stuck
  <2> QED BY <2>1, <2>2, <2>4
<1>2. [\A a \in Actor!Stuck : Stays(a)]_Actor!vars =>
        [\A a \in Actor!Stuck :
           /\ a \in Actor!Stuck'
           /\ af_work_list'[a] = af_work_list[a] /\ af_fibers[a] \subseteq af_fibers'[a]
           /\ \A f \in Fibers : HostOf[f] = a => af_next_work_id'[f] = af_next_work_id[f]
        ]_Actor!vars
  OBVIOUS
<1> HIDE DEF Stays
<1> QED BY <1>1, <1>2, ActorInit, ActorStep, PTL
    DEF Actor!Spec, StuckForGood, Actor!StuckForGood

-----------------------------------------------------------------------------
(* A behaviour of the composition is one of every part: those it does not     *)
(* play are where they began and stay there.                                  *)
LEMMA FunctionIsPlayed ==
  /\ GroupInit => Function!Init
  /\ [GroupNext]_groupVars => [Function!Next]_Function!vars
  BY Zenon DEF GroupInit, GroupNext, groupVars, fnVars, Function!vars

LEMMA SignalsArePlayed ==
  /\ GroupInit => Signals!Init
  /\ [GroupNext]_groupVars => [Signals!Next]_Signals!vars
  BY Zenon DEF GroupInit, GroupNext, groupVars, sgVars, Signals!vars

LEMMA SwitchboardIsPlayed ==
  /\ GroupInit => Switchboard!Init
  /\ [GroupNext]_groupVars => [Switchboard!Next]_Switchboard!vars
  BY Zenon DEF GroupInit, GroupNext, groupVars, sbVars, Switchboard!vars

LEMMA DelegatesArePlayed ==
  /\ GroupInit => Delegates!Init
  /\ [GroupNext]_groupVars => [Delegates!Next]_Delegates!vars
<1>1. UNCHANGED dgVars => UNCHANGED Delegates!vars
  BY Zenon DEF dgVars, Delegates!vars, Delegates!signalVars, Delegates!propertyVars
<1> QED BY <1>1, Zenon DEF GroupInit, GroupNext, groupVars

LEMMA CoroutinesArePlayed ==
  /\ GroupInit => Coroutines!Init
  /\ [GroupNext]_groupVars => [Coroutines!Next]_Coroutines!vars
  BY Zenon DEF GroupInit, GroupNext, groupVars, coVars, Coroutines!vars

LEMMA ActorIsPlayed ==
  /\ GroupInit => Actor!Init
  /\ [GroupNext]_groupVars => [Actor!Next]_Actor!vars
  BY Zenon DEF GroupInit, GroupNext, groupVars, afVars, Actor!vars

(* The composition implements the specification of each of its parts. *)
THEOREM PartsArePlayed ==
  GroupSpec => /\ Function!Spec /\ Signals!Spec /\ Switchboard!Spec
               /\ Delegates!Spec /\ Coroutines!Spec /\ Actor!Spec
<1>1. GroupSpec => Function!Spec
  BY FunctionIsPlayed, PTL DEF GroupSpec, Function!Spec
<1>2. GroupSpec => Signals!Spec
  BY SignalsArePlayed, PTL DEF GroupSpec, Signals!Spec
<1>3. GroupSpec => Switchboard!Spec
  BY SwitchboardIsPlayed, PTL DEF GroupSpec, Switchboard!Spec
<1>4. GroupSpec => Delegates!Spec
  BY DelegatesArePlayed, PTL DEF GroupSpec, Delegates!Spec
<1>5. GroupSpec => Coroutines!Spec
  BY CoroutinesArePlayed, PTL DEF GroupSpec, Coroutines!Spec
<1>6. GroupSpec => Actor!Spec
  BY ActorIsPlayed, PTL DEF GroupSpec, Actor!Spec
<1> QED BY <1>1, <1>2, <1>3, <1>4, <1>5, <1>6

(* Handles, names and slots lead to the handler they were given for, however  *)
(* many were removed and added since, and observers know the value there is.  *)
THEOREM GroupFindsHandlers == GroupSpec => []HandlersAreFound
<1>1. /\ Signals!HandlesMatchHandlers
      /\ Switchboard!NamesAreUnique /\ Switchboard!CallsWhatItFound
      /\ Delegates!SlotsNameTheirDelegate /\ Delegates!ObserversAgree
      => HandlersAreFound
  BY DEF HandlersAreFound
<1> QED BY <1>1, PartsArePlayed, HandlesFindTheirHandlers, NamesFindTheirEmitter,
           SlotsAndObserversAgree, PTL

(* What is called is there: a function's target, a coroutine's promise, what  *)
(* another thread has posted for a fiber.                                     *)
THEOREM GroupFindsCallees == GroupSpec => []CalleesAreThere
<1>1. /\ Function!TargetsHaveOneOwner /\ Function!TypesAreKept /\ Function!TestsPass
      /\ Coroutines!PromiseValidUntilCompletion /\ Actor!ContinuedByOthers
      => CalleesAreThere
  BY DEF CalleesAreThere
<1> QED BY <1>1, PartsArePlayed, FunctionsOwnTheirTargets, PromisesStayValid,
           FibersAreContinuedByOthers, PTL
=============================================================================
