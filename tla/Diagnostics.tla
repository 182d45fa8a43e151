---------------------------- MODULE Diagnostics ------------------------------
(***************************************************************************)
(* What a program says when something is wrong: errors and log streams.  A *)
(* program has one of them here.                                           *)
(*                                                                         *)
(* ctl of error.hpp: errors and the conditions they are compared with, of  *)
(* the domains posix and win32.  An error is a code of three numbers: its  *)
(* domain, its condition and the place, in an array of the domain, of what *)
(* was said when it was raised.  The array has a fixed number of places,   *)
(* taken in turn.                                                          *)
(*                                                                         *)
(* The conditions of win32 are numbered as they are listed and looked up in*)
(* a table that has the system's numbers as keys, some of which are left   *)
(* out: for a condition with such a number, at() throws.                   *)
(*                                                                         *)
(* basic_logstream of logstream.hpp: loggers in a tree of names, each with *)
(* a parent, the level it logs and a stack of contexts, the levels of what *)
(* is said.  Contexts are pushed on a logger and all above it, and an entry*)
(* is written by each of them whose level its context has.                 *)
(***************************************************************************)
EXTENDS Naturals, FiniteSets, FiniteSetsExt, Sequences, SequencesExt

CONSTANTS Places,     \* incidents_.size()
          Raised,     \* of each domain, the numbers of the conditions the program uses
          Texts,      \* message and location, as one
          MaxRaised,  \* bound on the errors raised in a domain
          Paths,      \* of loggers: sequences of names
          Levels, MaxOpen

Domains == {"posix", "win32"}
PosixConditions == 0 .. 80
Win32Conditions == 0 .. 198

(* The keys; each has the number of those before it as its value.            *)
Keys ==
  (0 .. 34) \cup {36, 38, 39} \cup (50 .. 72) \cup {80} \cup (82 .. 89) \cup (100 .. 114)
    \cup (117 .. 162) \cup {164, 167, 170, 173, 174, 180, 182, 183} \cup (186 .. 203)
    \cup (205 .. 210) \cup {212} \cup (214 .. 216) \cup (230 .. 234)
    \cup {240, 254, 255, 258, 259, 266, 267, 275, 276, 277, 278, 282, 288}
    \cup (298 .. 301) \cup {317, 487, 534, 535, 536} \cup (994 .. 999)
condition_table == [k \in Keys |-> Cardinality({j \in Keys : j < k})]

NONE == 0   \* the level of a context nobody has pushed; any level may be logged

VARIABLES
  kind,             \* "errors" or "loggers"
  loggers,          \* the nodes of the tree that have one
  node_level,       \* of each node, logger or not
  level_, parent_,  \* of each logger; a parent may be <<>>
  msgcontext_,      \* of each logger, the last pushed at the end
  open,             \* the contexts the program has pushed and not popped: where, what and how
  late, leaked,     \* a logger came between an open context and those above it; a pop was skipped
  asserted,         \* a context was asked for, or popped, and there was none
  incidents_,       \* of each domain, what was said at each place
  next_incident_,
  raised,           \* of each domain, how many incidents it has had
  errors,           \* those the program has: a code, and how it came about
  conditions,       \* those the program has: a code, and what was expected
  thrown            \* an exception has ended the program

errorVars == <<incidents_, next_incident_, raised, errors, conditions, thrown>>
logVars ==
  <<loggers, node_level, level_, parent_, msgcontext_, open, late, leaked, asserted>>
vars == <<kind, errorVars, logVars>>

ErrorInit ==
  /\ incidents_ = [d \in Domains |-> [i \in 0 .. Places - 1 |-> ""]]
  /\ next_incident_ = [d \in Domains |-> 0] /\ raised = [d \in Domains |-> 0]
  /\ errors = {} /\ conditions = {} /\ thrown = FALSE

-----------------------------------------------------------------------------
Code(domain, condition, incident) ==
  [domain |-> domain, condition |-> condition, incident |-> incident]
same_condition_only(a, b) == a.condition = b.condition  \* mutant: of any domain
same_condition(a, b) == a.domain = b.domain /\ a.condition = b.condition

NoteAgain(d, text) ==  \* mutant: the last place is never taken
  /\ incidents_' = [incidents_ EXCEPT ![d][next_incident_[d]] = text]
  /\ next_incident_' = [next_incident_ EXCEPT ![d] = IF @ + 1 >= Places - 1 THEN 0 ELSE @ + 1]
  /\ raised' = [raised EXCEPT ![d] = @ + 1]

(* raise notes what is said before it looks up the condition.                *)
Note(d, text) ==
  /\ incidents_' = [incidents_ EXCEPT ![d][next_incident_[d]] = text]
  /\ next_incident_' = [next_incident_ EXCEPT ![d] = (@ + 1) % Places]
  /\ raised' = [raised EXCEPT ![d] = @ + 1]
Error(d, which, condition, text) ==
  [code |-> Code(d, condition, next_incident_[d]), which |-> which, said |-> text,
   at |-> raised[d]]

RaisePosix(c, text) ==
  /\ Note("posix", text)
  /\ errors' = errors \cup {Error("posix", c, c, text)} /\ UNCHANGED <<conditions, thrown>>
RaiseWin32(c, text) ==
  /\ Note("win32", text)
  /\ IF c \in Keys
     THEN errors' = errors \cup {Error("win32", c, condition_table[c], text)} /\ UNCHANGED thrown
     ELSE thrown' = TRUE /\ UNCHANGED errors
  /\ UNCHANGED conditions

(* expect: a condition has no incident.                                      *)
Expected(d, which, condition) == [code |-> Code(d, condition, 0), which |-> which]
ExpectPosix(c) ==
  /\ conditions' = conditions \cup {Expected("posix", c, c)}
  /\ UNCHANGED <<incidents_, next_incident_, raised, errors, thrown>>
ExpectWin32(c) ==
  /\ IF c \in Keys
     THEN /\ conditions' = conditions \cup {Expected("win32", c, condition_table[c])}
          /\ UNCHANGED thrown
     ELSE thrown' = TRUE /\ UNCHANGED conditions
  /\ UNCHANGED <<incidents_, next_incident_, raised, errors>>

(* What an error says is what is at its place when it is asked.              *)
message(e) == incidents_[e.code.domain][e.code.incident]

(* operator==, of which equivalent() of the domain is false for now: no      *)
(* condition of one domain is that of another.                               *)
equivalent(e, c) == FALSE
Equals(e, c) == same_condition(e.code, c.code) \/ equivalent(e, c)

ErrorNext ==
  /\ kind = "errors" /\ ~thrown
  /\ \/ \E c \in PosixConditions \cap Raised["posix"] :
          \/ \E text \in Texts : raised["posix"] < MaxRaised /\ RaisePosix(c, text)
          \/ ExpectPosix(c)
     \/ \E c \in Win32Conditions \cap Raised["win32"] :
          \/ \E text \in Texts : raised["win32"] < MaxRaised /\ RaiseWin32(c, text)
          \/ ExpectWin32(c)

-----------------------------------------------------------------------------
LogInit ==
  /\ loggers = {} /\ node_level = [p \in Paths |-> NONE] /\ level_ = node_level
  /\ parent_ = [p \in Paths |-> <<>>] /\ msgcontext_ = [p \in Paths |-> <<>>]
  /\ open = <<>> /\ late = FALSE /\ leaked = FALSE /\ asserted = FALSE

Logs == kind = "loggers" /\ ~asserted

(* find_node_: the last node on the way to a path that has a logger           *)
AboveIn(set, p) == {q \in set : IsStrictPrefix(q, p)}
Nearest(p) ==
  LET above == AboveIn(loggers, p)
  IN  IF above = {} THEN <<>> ELSE CHOOSE q \in above : \A r \in above : Len(r) <= Len(q)

FirstBelowOnly(p) ==  \* mutant: only the children are told
  {q \in loggers : IsStrictPrefix(p, q) /\ Len(q) = Len(p) + 1}
(* add_logger_to_children_ goes down to the first logger on each branch.      *)
FirstBelow(p) ==
  {q \in loggers : IsStrictPrefix(p, q) /\ \A r \in AboveIn(loggers, q) : ~IsStrictPrefix(p, r)}
add_logger_to_children_(p) == FirstBelow(p)

get_logstream(p) ==
  /\ Logs
  /\ IF p \in loggers THEN UNCHANGED <<loggers, level_, msgcontext_, late>>
     ELSE /\ loggers' = loggers \cup {p}
          /\ level_' = [level_ EXCEPT ![p] = node_level[p]]
          /\ msgcontext_' = [msgcontext_ EXCEPT ![p] = <<NONE>>]
          /\ late' = (late \/ \E i \in DOMAIN open : IsStrictPrefix(p, open[i].path))
  /\ parent_' = [q \in Paths |-> IF q = p /\ p \notin loggers THEN Nearest(p)
                                 ELSE IF q \in add_logger_to_children_(p) THEN p ELSE parent_[q]]
  /\ UNCHANGED <<node_level, open, leaked, asserted>>

set_log_level(p, level) ==
  /\ Logs /\ node_level' = [node_level EXCEPT ![p] = level]
  /\ level_' = IF p \in loggers THEN [level_ EXCEPT ![p] = level] ELSE level_
  /\ UNCHANGED <<loggers, parent_, msgcontext_, open, late, leaked, asserted>>

(* A logger and all above it, nearest first.                                  *)
Chain(p) ==
  LET above[i \in 1 .. Cardinality(Paths)] ==
        IF i = 1 THEN p ELSE IF above[i - 1] = <<>> THEN <<>> ELSE parent_[above[i - 1]]
  IN  SelectSeq(above, LAMBDA q : q # <<>>)

(* push_context and pop_context go up the chain once; a manipulator is given  *)
(* to the parent first, and then does the same: so often does each of the    *)
(* chain push or pop.                                                        *)
Times(how, i) == IF how = "manipulator" THEN i ELSE 1
TimesFor(p, how, q) ==
  LET chain == Chain(p)
  IN  MapThenSumSet(LAMBDA i : Times(how, i), {i \in DOMAIN chain : chain[i] = q})
Copies(level, n) == [i \in 1 .. n |-> level]
Pushed(p, level, how) ==
  [q \in Paths |-> msgcontext_[q] \o Copies(level, TimesFor(p, how, q))]

push_context(p, level, how) ==
  /\ Logs /\ p \in loggers /\ Len(open) < MaxOpen
  /\ msgcontext_' = Pushed(p, level, how)
  /\ open' = Append(open, [path |-> p, level |-> level, how |-> how])
  /\ UNCHANGED <<loggers, node_level, level_, parent_, late, leaked, asserted>>

(* The program pops what it pushed last, as it pushed it.                     *)
pop_context ==
  LET last == Last(open)
      times(q) == TimesFor(last.path, last.how, q)
  IN  /\ Logs /\ open # <<>> /\ open' = Front(open)
      /\ asserted' = \E q \in Paths : Len(msgcontext_[q]) < times(q)
      /\ msgcontext_' = IF asserted' THEN msgcontext_
           ELSE [q \in Paths |-> SubSeq(msgcontext_[q], 1, Len(msgcontext_[q]) - times(q))]
      /\ UNCHANGED <<loggers, node_level, level_, parent_, late, leaked>>

(* What is said at a logger is said by those above it too, each if the        *)
(* context on its own stack has its level.                                   *)
Written(p, contexts) ==
  {q \in ToSet(Chain(p)) : contexts[q] # <<>> /\ Last(contexts[q]) >= level_[q]}

(* An entry alone is said in the context there is; what is put in the stream  *)
(* behind it goes to the logger only, whatever its level.                    *)
say(p) ==
  /\ Logs /\ p \in loggers /\ asserted' = \E q \in ToSet(Chain(p)) : msgcontext_[q] = <<>>
  /\ UNCHANGED <<loggers, node_level, level_, parent_, msgcontext_, open, late, leaked>>

(* log_debug and the others: push, say, pop; a stream that has failed is      *)
(* false, and && leaves the pop out.                                         *)
log(p, level, fails) ==
  /\ Logs /\ p \in loggers /\ ~(fails /\ leaked) /\ leaked' = (leaked \/ fails)
  /\ msgcontext_' = IF fails THEN Pushed(p, level, "call") ELSE msgcontext_
  /\ UNCHANGED <<loggers, node_level, level_, parent_, open, late, asserted>>

LogNext ==
  \/ pop_context
  \/ \E p \in Paths :
       \/ get_logstream(p) \/ say(p)
       \/ \E level \in Levels :
            \/ set_log_level(p, level)
            \/ \E how \in {"call", "manipulator"} : push_context(p, level, how)
            \/ \E fails \in BOOLEAN : log(p, level, fails)

-----------------------------------------------------------------------------
Init == kind \in {"errors", "loggers"} /\ ErrorInit /\ LogInit

Next ==
  /\ UNCHANGED kind
  /\ \/ ErrorNext /\ UNCHANGED logVars
     \/ LogNext /\ UNCHANGED errorVars

Spec == Init /\ [][Next]_vars

-----------------------------------------------------------------------------
(* An error says what it was raised with, until as many errors have been     *)
(* raised in its domain as the domain has places.                            *)
ErrorsSayTheirIncident ==
  \A e \in errors : raised[e.code.domain] - e.at <= Places => message(e) = e.said

(* An error equals a condition if and only if it was raised in that domain   *)
(* for that condition, although the numbers of win32 are looked up and those *)
(* of posix are not.                                                         *)
ErrorsEqualTheirCondition ==
  \A e \in errors, c \in conditions :
    Equals(e, c) <=> e.code.domain = c.code.domain /\ e.which = c.which

(* Whenever loggers are made, above or below others, each has the nearest    *)
(* above it as its parent.                                                   *)
ParentsAreNearest == \A p \in loggers : parent_[p] = Nearest(p)

(* An entry is written by the logger and those above it whose level, as it   *)
(* was set before or after they were made, is not above the entry's,         *)
(* whatever contexts were pushed on any of them before.                      *)
EntriesReachTheirLevels ==
  \A p \in loggers, level \in Levels :
    Written(p, Pushed(p, level, "call"))
      = {q \in loggers : IsPrefix(q, p) /\ node_level[q] <= level}

(* The contexts of a logger are those that are open on it and on those below *)
(* it, in the order they were opened; unless a logger came between, or a pop *)
(* was skipped, which leaves its own.  No context is missing unless a logger *)
(* came between: it pops what it was never given.                            *)
ContextsAreOpen ==
  /\ \A q \in loggers :
       (~late /\ ~leaked) =>
         msgcontext_[q] =
           FoldLeft(LAMBDA all, o : all \o Copies(o.level, TimesFor(o.path, o.how, q)),
                    <<NONE>>, open)
  /\ asserted => late
=============================================================================
