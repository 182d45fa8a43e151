-------------------------- MODULE MoveOnlyFunction --------------------------
(***************************************************************************)
(* mofunction of move-only-function.cpp: a function object that owns its   *)
(* target through an address without a type, and knows the target's type   *)
(* only by the functions its dispatch mixins point to.  The two halves are *)
(* moved apart: an assignment copies the dispatch and swaps the address.   *)
(***************************************************************************)
EXTENDS Naturals, FiniteSets

CONSTANTS Functions,   \* variables that hold a mofunction
          MaxTargets   \* bound on the targets ever allocated

Null == "null"
Nowhere == 0
Signatures == {"plain", "const", "rvref"}
Callables  == {"function", "lambda", "callable", "const callable", "rvref callable"}
Targets    == 1..MaxTargets

VARIABLES
  sig,          \* the signature all functions of the behaviour have
  fn,           \* the functions: alive, the type of their dispatch, and the address of their target
  heap,         \* the targets: the type they were made with, and whether they live
  overwritten,  \* a function that had a target was assigned to
  undefined     \* what undefined behaviour the program has run into

vars == <<sig, fn, heap, overwritten, undefined>>

(* call_traits::is_invocable_with *)
Invocable(s) ==
  CASE s = "plain" -> Callables \ {"rvref callable"}
    [] s = "const" -> {"function", "lambda", "const callable"}
    [] s = "rvref" -> Callables

(* which function objects operator() of a signature accepts *)
Accepts(s, const, value) ==
  CASE s = "plain" -> ~const
    [] s = "const" -> TRUE
    [] s = "rvref" -> ~const /\ value = "rvalue"

(* A function of one signature is, for a function of another, a target like  *)
(* any: it is wrapped, if it is a callable that the other accepts.           *)
Kind(s) == CASE s = "plain" -> "callable" [] s = "const" -> "const callable"
             [] s = "rvref" -> "rvref callable"
Converts(s, t) == s = t \/ Kind(s) \in Invocable(t)

Empty == [alive |-> TRUE, type |-> Null, address |-> Nowhere]
Dead  == [Empty EXCEPT !.alive = FALSE]
Fresh == {a \in Targets : heap[a].type = Null /\ \A b \in Targets : b < a => heap[b].type # Null}

Init ==
  /\ sig \in Signatures
  /\ fn = [w \in Functions |-> Dead]
  /\ heap = [a \in Targets |-> [type |-> Null, live |-> FALSE]]
  /\ overwritten = FALSE /\ undefined = "none"

Defined == undefined = "none"

(* heap_storage_mixin::release deletes through the dispatch and keeps the    *)
(* address: the effect on heap h of a function f that is of no more use.     *)
Released(h, f)  == IF f.address = Nowhere THEN h ELSE [h EXCEPT ![f.address].live = FALSE]
Misdeleted(f) ==
  IF f.address # Nowhere /\ heap[f.address].type # f.type THEN "deleted as another type" ELSE "none"

(* heap_storage_mixin::swap *)
CopyStorage(w, v, f) == [f EXCEPT ![w].address = f[v].address]  \* mutant: the source keeps the address

SwapStorage(w, v, f) == [f EXCEPT ![w].address = f[v].address, ![v].address = f[w].address]

New(a, c) == heap' = [heap EXCEPT ![a] = [type |-> c, live |-> TRUE]]

(* mofunction(), mofunction(nullptr) *)
Default(w) ==
  /\ Defined /\ ~fn[w].alive
  /\ fn' = [fn EXCEPT ![w] = Empty]
  /\ UNCHANGED <<sig, heap, overwritten, undefined>>

(* mofunction(Target&&) *)
Make(w, c) ==
  /\ Defined /\ ~fn[w].alive /\ c \in Invocable(sig)
  /\ \E a \in Fresh : New(a, c) /\ fn' = [fn EXCEPT ![w] = [alive |-> TRUE, type |-> c, address |-> a]]
  /\ UNCHANGED <<sig, overwritten, undefined>>

(* mofunction(mofunction&&) *)
Constructed(w, v, f) == SwapStorage(w, v, [f EXCEPT ![w] = [Empty EXCEPT !.type = f[v].type]])
MoveConstruct(w, v) ==
  /\ Defined /\ ~fn[w].alive /\ fn[v].alive
  /\ fn' = Constructed(w, v, fn)
  /\ UNCHANGED <<sig, heap, overwritten, undefined>>

(* operator=(mofunction&&): the dispatch is copied, the addresses are swapped *)
MoveAssign(w, v) ==
  /\ Defined /\ w # v /\ fn[w].alive /\ fn[v].alive
  /\ fn' = SwapStorage(w, v, [fn EXCEPT ![w].type = fn[v].type])
  /\ overwritten' = (overwritten \/ fn[w].address # Nowhere)
  /\ UNCHANGED <<sig, heap, undefined>>

(* operator=(Target&&): an old target goes to a storage of its own, which is *)
(* no part of a mofunction when its destructor takes it for one              *)
AssignTarget(w, c) ==
  /\ Defined /\ fn[w].alive /\ c \in Invocable(sig)
  /\ \E a \in Fresh :
       /\ New(a, c)
       /\ fn' = [fn EXCEPT ![w].type = c, ![w].address = a]
  /\ overwritten' = (overwritten \/ fn[w].address # Nowhere)
  /\ undefined' = IF fn[w].address = Nowhere THEN "none" ELSE "no function to delete with"
  /\ UNCHANGED sig

(* operator=(nullptr_t) releases the target, keeps its address and ends      *)
(* without the return its type demands                                       *)
AssignNull(w) ==
  /\ Defined /\ fn[w].alive
  /\ heap' = Released(heap, fn[w])
  /\ overwritten' = (overwritten \/ fn[w].address # Nowhere)
  /\ undefined' = "no return"
  /\ UNCHANGED <<sig, fn>>

(* swap *)
Swapped(w, v, f) == [f EXCEPT ![w] = f[v], ![v] = f[w]]
Swap(w, v) ==
  /\ Defined /\ w # v /\ fn[w].alive /\ fn[v].alive
  /\ fn' = Swapped(w, v, fn)
  /\ UNCHANGED <<sig, heap, overwritten, undefined>>

(* ~mofunction *)
Destroy(w) ==
  /\ Defined /\ fn[w].alive
  /\ heap' = Released(heap, fn[w])
  /\ fn' = [fn EXCEPT ![w] = Dead]
  /\ undefined' = Misdeleted(fn[w])
  /\ UNCHANGED <<sig, overwritten>>

(* operator(): throws bad_function_call, which the caller catches, if there  *)
(* is no dispatch, whatever the address is                                   *)
Call(w, value) ==
  /\ Defined /\ fn[w].alive /\ Accepts(sig, FALSE, value) /\ fn[w].type # Null
  /\ undefined' =
       IF fn[w].address = Nowhere THEN "called without a target"
       ELSE IF heap[fn[w].address].type # fn[w].type THEN "called as another type" ELSE "none"
  /\ UNCHANGED <<sig, fn, heap, overwritten>>

Next ==
  \E w \in Functions :
    \/ Default(w) \/ AssignNull(w) \/ Destroy(w)
    \/ \E c \in Callables : Make(w, c) \/ AssignTarget(w, c)
    \/ \E v \in Functions : MoveConstruct(w, v) \/ MoveAssign(w, v) \/ Swap(w, v)
    \/ \E value \in {"lvalue", "rvalue"} : Call(w, value)

Spec == Init /\ [][Next]_vars

-----------------------------------------------------------------------------
(* A target that lives has one owner, and what a function owns lives; and as *)
(* long as only functions without a target are assigned to, it is called and *)
(* deleted as what it is.  (A function that was moved from still finds its   *)
(* dispatch and calls it without a target, where a new one throws.)          *)
TargetsHaveOneOwner ==
  Defined =>
    /\ \A a \in Targets : heap[a].live =>
         Cardinality({w \in Functions : fn[w].alive /\ fn[w].address = a}) = 1
    /\ \A w \in Functions : fn[w].alive /\ fn[w].address # Nowhere =>
         /\ heap[fn[w].address].live
         /\ overwritten \/ fn[w].type = heap[fn[w].address].type
TypesAreKept ==
  ~overwritten => undefined \in {"none", "called without a target", "no return"}

(* The unit tests: which callables each of their groups constructs and calls *)
(* (signature, constness and value category of the function object).         *)
PlainTests ==
  {<<FALSE, "lvalue", Callables \ {"rvref callable"}>>, <<TRUE, "lvalue", {}>>,
   <<FALSE, "rvalue", Callables \ {"rvref callable"}>>}
ConstTests ==
  {<<x[1], x[2], {"function", "lambda", "const callable"}>> :
     x \in {<<FALSE, "lvalue">>, <<TRUE, "lvalue">>, <<FALSE, "rvalue">>}}
RvrefTests ==
  {<<FALSE, "lvalue", {}>>, <<TRUE, "lvalue", {}>>, <<FALSE, "rvalue", Callables>>}
(* Which functions tell that they are targeted, newly made and swapped; and   *)
(* between which signatures they are moved.  (That a plain function is not    *)
(* made from, or assigned to, one of an rvref signature is a test as well,    *)
(* without the statements it is about, which do compile.)                     *)
Targeted(f) == f.address # Nowhere
ConstructionTests ==
  LET f == [Empty EXCEPT !.type = "function", !.address = 1]
      Two(a, b) == [w \in {"f", "g"} |-> IF w = "f" THEN a ELSE b]
  IN  /\ Targeted(f) /\ ~Targeted(Empty)
      /\ \A a \in {f, Empty} : Targeted(Constructed("g", "f", Two(a, Dead))["g"]) <=> Targeted(a)
SwapTests ==
  LET f == [Empty EXCEPT !.type = "callable", !.address = 1]
      swapped == Swapped("f", "g", [w \in {"f", "g"} |-> IF w = "f" THEN f ELSE Empty])
  IN  ~Targeted(swapped["f"]) /\ swapped["g"] = f
MoveTests ==
  /\ \A s \in Signatures : Converts(s, s)
  /\ Converts("const", "plain") /\ ~Converts("plain", "const") /\ ~Converts("rvref", "plain")

TestsPass ==
  LET tests == CASE sig = "plain" -> PlainTests [] sig = "const" -> ConstTests
                 [] sig = "rvref" -> RvrefTests
  IN  /\ \A t \in tests : (IF Accepts(sig, t[1], t[2]) THEN Invocable(sig) ELSE {}) = t[3]
      /\ ConstructionTests /\ SwapTests /\ MoveTests
=============================================================================
