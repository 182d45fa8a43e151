----------------------------- MODULE Coroutines ------------------------------
(***************************************************************************)
(* The coroutines of coroutine.cpp, made of setjmp and longjmp.  A coroutine*)
(* that suspends jumps out of __do_coroutine for good, since resume() does *)
(* nothing; one that runs to its end deletes its own state.                *)
(***************************************************************************)
EXTENDS Naturals, Sequences, SequencesExt

CONSTANTS Calls   \* the calls of coroutines a behaviour may make

Awaiters == {"ready", "void", "suspend", "go on"}  \* what await_ready and await_suspend answer

VARIABLES
  stack,       \* the calls under way, innermost last
  phase,       \* call -> where it is
  live,        \* the calls whose state is allocated
  registry,    \* __state_registry: the promises it knows
  to_caller,   \* the calls whose jump point has been set
  future,      \* the calls whose return object has been made
  finals,      \* call -> how often it has awaited final_suspend
  fault

vars == <<stack, phase, live, registry, to_caller, future, finals, fault>>

Init ==
  /\ stack = <<>> /\ phase = [c \in Calls |-> "not called"]
  /\ live = {} /\ registry = {} /\ to_caller = {} /\ future = {}
  /\ finals = [c \in Calls |-> 0] /\ fault = "none"

Runs(c) == stack # <<>> /\ Last(stack) = c
To(c, p) == phase' = [phase EXCEPT ![c] = p]

(* __do_coroutine as far as setjmp *)
DoCoroutine(c) ==
  /\ phase[c] = "not called"
  /\ stack # <<>> => phase[Last(stack)] = "body"
  /\ live' = live \cup {c} /\ registry' = registry \cup {c}
  /\ future' = future \cup {c} /\ to_caller' = to_caller \cup {c}
  /\ stack' = Append(stack, c) /\ To(c, "initial")
  /\ UNCHANGED <<finals, fault>>

(* __co_await: from_promise looks the promise up; await_suspend that returns *)
(* void or true jumps to the caller, and the call is never resumed.          *)
CoAwait(c, a, p) ==
  /\ fault' = IF c \in live /\ c \in registry THEN fault ELSE "promise not found"
  /\ IF a \in {"void", "suspend"}
     THEN /\ stack' = Front(stack)
          /\ To(c, IF phase[c] = "initial" THEN "never started" ELSE "suspended")
     ELSE /\ UNCHANGED stack /\ To(c, p)

AwaitInitial(c, a) ==
  /\ Runs(c) /\ phase[c] = "initial"
  /\ CoAwait(c, a, "body")
  /\ UNCHANGED <<live, registry, to_caller, future, finals>>
Await(c, a) ==
  /\ Runs(c) /\ phase[c] = "body"
  /\ CoAwait(c, a, "body")
  /\ UNCHANGED <<live, registry, to_caller, future, finals>>

(* __co_return awaits the final suspension and returns to the body.          *)
CoReturn(c, a) ==
  /\ Runs(c) /\ phase[c] = "body"
  /\ CoAwait(c, a, "end")
  /\ finals' = [finals EXCEPT ![c] = @ + 1]
  /\ UNCHANGED <<live, registry, to_caller, future>>

(* The body returns, or throws to unhandled_exception. *)
End(c) ==
  /\ Runs(c) /\ phase[c] \in {"body", "end"}
  /\ To(c, "final")
  /\ UNCHANGED <<stack, live, registry, to_caller, future, finals, fault>>

(* __do_coroutine awaits final_suspend, then deletes the state and returns.  *)
AwaitFinal(c, a) ==
  /\ Runs(c) /\ phase[c] = "final"
  /\ CoAwait(c, a, "done")
  /\ finals' = [finals EXCEPT ![c] = @ + 1]
  /\ UNCHANGED <<live, registry, to_caller, future>>
Delete(c) ==
  /\ Runs(c) /\ phase[c] = "done"
  /\ stack' = Front(stack) /\ live' = live \ {c} /\ To(c, "deleted")
  /\ UNCHANGED <<registry, to_caller, future, finals, fault>>
Next ==
  \E c \in Calls :
    \/ DoCoroutine(c) \/ End(c) \/ Delete(c)
    \/ \E a \in Awaiters : AwaitInitial(c, a) \/ Await(c, a) \/ CoReturn(c, a) \/ AwaitFinal(c, a)

Spec == Init /\ [][Next]_vars

-----------------------------------------------------------------------------
(* "Valid until completion" (coroutine.cpp:244): the state a return object   *)
(* points to is there until its call has completed, and for ever if the call *)
(* suspends; every await finds its state; the caller that a jump goes to has *)
(* a frame that waits for it; and only co_return has a call awaits the final *)
(* suspension twice.                                                         *)
PromiseValidUntilCompletion ==
  /\ fault = "none"
  /\ \A c \in future : c \notin live <=> phase[c] = "deleted"
  /\ ToSet(stack) \subseteq live \cap to_caller
  /\ \A c \in Calls : finals[c] <= 2 /\ (finals[c] = 2 => phase[c] \in {"done", "deleted", "suspended"})
=============================================================================
