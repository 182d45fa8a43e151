------------------------------- MODULE XmlRpc --------------------------------
(***************************************************************************)
(* The library of qt-xmlrpc.  A behaviour follows one of two things, which *)
(* meet in a call only.                                                    *)
(*                                                                         *)
(* A reply: serialize() and parse_result() of xmlrpc.cpp write values as   *)
(* markup, and the readers call each other while they take one event of the*)
(* markup after another.  The text of an element is left out but for names:*)
(* it makes no event that a reader looks at.  A value is a tree; null is   *)
(* Qt's invalid variant.                                                   *)
(*                                                                         *)
(* Logins: LLLogin of llsession.cpp asks a simulator to let it in and then *)
(* for its capabilities, each with a reply that calls back; before it is   *)
(* the session manager, behind it the reader of the capabilities,          *)
(* Capabilities::parse_capabilities.  The calls are kept in members that   *)
(* the next login overwrites.  What the simulator answers is external.     *)
(***************************************************************************)
EXTENDS Naturals, Sequences, SequencesExt, FiniteSets

CONSTANTS Leaves,      \* kinds of values without parts, among those serialize tells apart
          Names,       \* of the members of a struct, in their order
          MaxItems,
          MaxLogins,
          Keys,        \* of capabilities
          MaxPairs     \* elements of an answer's map

VARIABLES
  follows,    \* "reply" or "logins"
  sent,       \* the value the reply carries
  document,   \* the events of the reply
  next,       \* the next of them
  stack,      \* the readers under way
  ended,      \* "no", "read", or "raised" an error, or "cut" short
  result,
  calls,      \* the XmlRpc::Call and Caps made: kind, state of its reply, alive
  login,      \* LLLogin::login and ::caps, numbers of calls
  caps,
  session,    \* ready, capabilities, whether it has its parameters
  answered,   \* the answer that the last capabilities were read from
  overlapped, \* a call was made while another of its kind was under way
  at          \* "running", "null" pointer used, "empty" list's front taken

replyVars == <<sent, document, next, stack, ended, result>>
loginVars == <<calls, login, caps, session, answered, overlapped, at>>
vars == <<follows, replyVars, loginVars>>

-----------------------------------------------------------------------------
Value(kind, items, members) == [kind |-> kind, items |-> items, members |-> members]
Null == Value("nil", <<>>, <<>>)

Event(start, name, text) == [start |-> start, name |-> name, text |-> text]
Start(name) == Event(TRUE, name, "")
End(name) == Event(FALSE, name, "")
Element(name, text) == <<Event(TRUE, name, text), End(name)>>
Around(name, events) == <<Start(name)>> \o events \o <<End(name)>>

(* Values of depth one and two, and the replies that carry them.             *)
Flat == {Value(k, <<>>, <<>>) : k \in Leaves}
Over(values) ==
  {Value("list", l, <<>>) : l \in BoundedSeq(values, MaxItems)}
    \cup {Value("map", <<>>, m) : m \in UNION {[d -> values] : d \in SUBSET ToSet(Names)}}
Text == Value("string", <<>>, <<>>)
StringLists == {Value("string list", [i \in 1..n |-> Text], <<>>) : n \in 0..MaxItems}
Simple == Flat \cup StringLists \cup Over(Flat)
Values == Simple \cup {Value("list", l, <<>>) : l \in BoundedSeq(Simple, MaxItems)}
Trees == Values \cup {Null, Text}

serialize[v \in Trees] ==
  CASE v.kind = "map" ->
         Around("struct", FlattenSeq([i \in DOMAIN Names |->
           IF Names[i] \in DOMAIN v.members
           THEN Around("member", Element("name", Names[i])
                                   \o Around("value", serialize[v.members[Names[i]]]))
           ELSE <<>>]))
    [] v.kind = "list" ->
         Around("array", Around("data", FlattenSeq(
           [i \in DOMAIN v.items |-> Around("value", serialize[v.items[i]])])))
    [] v.kind = "string list" ->
         Around("array", Around("data", FlattenSeq([i \in DOMAIN v.items |-> Element("value", "")])))
    [] v.kind = "other" -> <<>>
    [] OTHER -> Element(v.kind, "")

Reply(v, fault) ==
  LET value == Around("value", serialize[v])
  IN  Around("methodResponse", IF fault THEN Around("fault", value)
                               ELSE Around("params", Around("param", value)))

Frame(reader) == [reader |-> reader, step |-> 0, items |-> <<>>, members |-> <<>>, key |-> "",
                  value |-> Null]

None == 0

LoginInit ==
  /\ calls = <<>> /\ login = None /\ caps = None
  /\ session = [ready |-> FALSE, parameters |-> FALSE, capabilities |-> <<>>]
  /\ answered = <<>> /\ overlapped = FALSE /\ at = "running"

Init ==
  /\ LoginInit
  /\ follows \in {"reply", "logins"}
  /\ sent \in IF follows = "reply" THEN Values ELSE {Null}
  /\ \E fault \in BOOLEAN : document = Reply(sent, fault)
  /\ next = 1 /\ stack = <<Frame("result")>> /\ ended = "no" /\ result = Null

-----------------------------------------------------------------------------
Reader == Last(stack)
Reads(reader) == follows = "reply" /\ ended = "no" /\ next <= Len(document) /\ Reader.reader = reader
Now == document[next]
Starts(name) == Now.start /\ Now.name = name
Ends(name) == ~Now.start /\ Now.name = name

Continue(frame) ==
  /\ stack' = Append(Front(stack), frame) /\ next' = next + 1 /\ UNCHANGED <<ended, result>>
Step(n) == Continue([Reader EXCEPT !.step = n])
Ignore == Continue(Reader)
CallReader(reader) ==
  /\ stack' = Append(stack, Frame(reader)) /\ next' = next + 1 /\ UNCHANGED <<ended, result>>
RaiseError == ended' = "raised" /\ UNCHANGED <<next, stack, result>>

ResumeWithin(frame, v) ==  \* mutant: the end of an item is not awaited
  CASE frame.reader = "result" -> [frame EXCEPT !.value = v, !.step = 4]
    [] frame.reader = "array"  -> [frame EXCEPT !.items = Append(@, v), !.step = 1]
    [] frame.reader = "struct" -> [frame EXCEPT !.value = v, !.step = 2]
(* What the caller does with the value it gets back.                         *)
Resume(frame, v) ==
  CASE frame.reader = "result" -> [frame EXCEPT !.value = v, !.step = 4]
    [] frame.reader = "array"  -> [frame EXCEPT !.items = Append(@, v), !.step = 2]
    [] frame.reader = "struct" -> [frame EXCEPT !.value = v, !.step = 2]
Return(v, read) ==
  LET callers == Front(stack)
  IN  /\ stack' = Append(Front(callers), Resume(Last(callers), v))
      /\ next' = next + read /\ UNCHANGED <<ended, result>>

-----------------------------------------------------------------------------
(* parse_result: only what starts counts.                                    *)
ReadResult ==
  /\ Reads("result")
  /\ LET step == Reader.step
     IN  CASE ~Now.start \/ step = 4 -> Ignore
           [] step = 0 -> IF Starts("methodResponse") THEN Step(1) ELSE RaiseError
           [] step = 1 -> IF Starts("params") THEN Step(2) ELSE IF Starts("fault") THEN Step(3) ELSE RaiseError
           [] step = 2 -> IF Starts("param") THEN Step(3) ELSE RaiseError
           [] step = 3 -> IF Starts("value") THEN CallReader("value") ELSE RaiseError
  /\ UNCHANGED <<sent, document>>

(* deserialize: goes on to the next element it knows, wherever that is.      *)
Known == {"base64", "boolean", "dateTime.iso8601", "double", "integer", "i4", "string"}
ReadValue ==
  /\ Reads("value")
  /\ CASE Starts("array")  -> Continue(Frame("array"))
       [] Starts("struct") -> Continue(Frame("struct"))
       [] Now.start /\ Now.name \in Known -> Return(Value(Now.name, <<>>, <<>>), 2)
       [] OTHER -> Ignore
  /\ UNCHANGED <<sent, document>>

ReadArray ==
  /\ Reads("array")
  /\ LET step == Reader.step
     IN  CASE step = 0 -> IF Starts("data") THEN Step(1) ELSE RaiseError
           [] step = 1 -> IF Starts("value") THEN CallReader("value")
                          ELSE IF Ends("data") THEN Step(3) ELSE RaiseError
           [] step = 2 -> IF Ends("value") THEN Step(1) ELSE RaiseError
           [] step = 3 -> IF Ends("array") THEN Return(Value("list", Reader.items, <<>>), 1)
                          ELSE IF Now.start THEN Ignore ELSE RaiseError
  /\ UNCHANGED <<sent, document>>

ReadStruct ==
  /\ Reads("struct")
  /\ LET f == Reader
     IN  CASE f.step = 0 -> IF Starts("member") THEN Step(1)
                            ELSE IF Ends("struct") THEN Return(Value("map", <<>>, f.members), 1)
                            ELSE RaiseError
           [] f.step = 1 ->
                CASE Starts("name") ->
                       /\ stack' = Append(Front(stack), [f EXCEPT !.key = Now.text])
                       /\ next' = next + 2 /\ UNCHANGED <<ended, result>>
                  [] Starts("value") -> CallReader("value")
                  [] Ends("member") ->
                       Continue([f EXCEPT !.step = 0,
                                 !.members = [k \in DOMAIN @ \cup {f.key} |->
                                                IF k = f.key THEN f.value ELSE @[k]]])
                  [] OTHER -> RaiseError
           [] f.step = 2 -> IF Ends("value") THEN Step(1) ELSE RaiseError
  /\ UNCHANGED <<sent, document>>

(* Every reader returns null at the end of what there is to read, but        *)
(* parse_result what it has.                                                 *)
AtEnd ==
  /\ follows = "reply" /\ ended \in {"no", "raised"}
  /\ result' = IF Len(stack) = 1 THEN Reader.value ELSE Null
  /\ ended' = IF ended = "raised" THEN "error" ELSE IF next > Len(document) THEN "read" ELSE "cut"
  /\ UNCHANGED <<sent, document, next, stack>>

-----------------------------------------------------------------------------
(* Elements of the map in an answer: a key or a string with its text, or an  *)
(* element that should not be there.                                         *)
Entries == [name : {"key"}, text : Keys] \cup [name : {"string"}, text : {"url1", "url2"}]
             \cup [name : {"other"}, text : {""}]
Answers == BoundedSeq(Entries, MaxPairs)

StartElementAgain(p, e) ==  \* mutant: a key that comes before the string of the last one replaces it
  CASE e.name = "key" -> [p EXCEPT !.step = 3, !.key = e.text]
    [] p.step = 3 /\ e.name = "string" ->
         [p EXCEPT !.step = 2, !.result = [k \in DOMAIN @ \cup {p.key} |-> IF k = p.key THEN e.text ELSE @[k]]]
    [] OTHER -> [p EXCEPT !.failed = TRUE]
(* parse_capabilities: a key is kept until its string comes; an error ends   *)
(* the reading and what was read until then is the result, as is a map that  *)
(* ends behind a key.                                                        *)
StartElement(p, e) ==
  CASE p.step = 2 /\ e.name = "key" -> [p EXCEPT !.step = 3, !.key = e.text]
    [] p.step = 3 /\ e.name = "string" ->
         [p EXCEPT !.step = 2, !.result = [k \in DOMAIN @ \cup {p.key} |-> IF k = p.key THEN e.text ELSE @[k]]]
    [] OTHER -> [p EXCEPT !.failed = TRUE]
ParseCapabilities(answer) ==
  FoldLeft(LAMBDA p, e : IF p.failed THEN p ELSE StartElement(p, e),
           [step |-> 2, key |-> "", result |-> <<>>, failed |-> FALSE], answer)

Runs == follows = "logins" /\ at = "running"

Pending(i, kind) == calls[i] = [kind |-> kind, finished |-> FALSE, alive |-> TRUE]
Call(kind, before) == Append(before, [kind |-> kind, finished |-> FALSE, alive |-> TRUE])
Finish(i, member) == [[calls EXCEPT ![i].finished = TRUE] EXCEPT ![member].alive = FALSE]

(* Manager::Login finds the one handler there is, which accepts anything.    *)
Login ==
  /\ Runs /\ Cardinality({i \in DOMAIN calls : calls[i].kind = "login"}) < MaxLogins
  /\ calls' = Call("login", calls) /\ login' = Len(calls) + 1
  /\ overlapped' = (overlapped \/ \E i \in DOMAIN calls : Pending(i, "login"))
  /\ UNCHANGED <<caps, session, answered, at>>

(* A slot that looks at a member after another reply has cleared it.         *)
NullMember(i) ==
  /\ calls' = [calls EXCEPT ![i].finished = TRUE] /\ at' = "null"
  /\ UNCHANGED <<login, caps, session, answered, overlapped>>

(* on_login_result looks at the member, not at the reply that has finished:  *)
(* of another call it sees neither error nor result, and deletes it with its *)
(* reply.  An answer without a root folder is not provided for.              *)
OnLoginResult(i) ==
  /\ Runs /\ Pending(i, "login")
  /\ \/ login = None /\ NullMember(i)
     \/ /\ login # None /\ login' = None /\ calls' = Finish(i, login)
        /\ UNCHANGED <<caps, session, answered, overlapped, at>>
     \/ /\ login = i /\ at' = "empty"
        /\ UNCHANGED <<calls, login, caps, session, answered, overlapped>>
     \/ /\ login = i /\ login' = None
        /\ calls' = Call("caps", Finish(i, login)) /\ caps' = Len(calls) + 1
        /\ session' = [session EXCEPT !.parameters = TRUE]
        /\ overlapped' = (overlapped \/ \E j \in DOMAIN calls : Pending(j, "caps"))
        /\ UNCHANGED <<answered, at>>

(* on_caps_result: a reply without a network error makes the session ready.  *)
OnCapsResult(i) ==
  /\ Runs /\ Pending(i, "caps")
  /\ \/ caps = None /\ NullMember(i)
     \/ /\ caps # None /\ caps' = None /\ calls' = Finish(i, caps)
        /\ \/ caps = i /\ UNCHANGED <<session, answered>>
           \/ \E answer \in IF caps = i THEN Answers ELSE {<<>>} :
                /\ answered' = answer
                /\ session' = [session EXCEPT !.ready = TRUE,
                                              !.capabilities = ParseCapabilities(answer).result]
        /\ UNCHANGED <<login, overlapped, at>>

ReplyNext == ReadResult \/ ReadValue \/ ReadArray \/ ReadStruct \/ AtEnd
LoginNext == Login \/ \E i \in DOMAIN calls : OnLoginResult(i) \/ OnCapsResult(i)

Next ==
  /\ UNCHANGED follows
  /\ \/ ReplyNext /\ UNCHANGED loginVars
     \/ LoginNext /\ UNCHANGED replyVars

Spec == Init /\ [][Next]_vars

-----------------------------------------------------------------------------
(* What is read is what was sent if serialize has marked every part of it    *)
(* with an element that deserialize knows.  It does not know an int, a null  *)
(* or what a list of strings holds: it then goes on to the next element, so  *)
(* that items are lost or swallow their neighbours.  A reply cut short       *)
(* yields null or, if its value was complete, that value.                    *)
Kept[v \in Trees] ==
  CASE v.kind \in {"list", "string list"} ->
         (v.kind = "list" \/ v.items = <<>>) /\ \A i \in DOMAIN v.items : Kept[v.items[i]]
    [] v.kind = "map" -> \A k \in DOMAIN v.members : Kept[v.members[k]]
    [] OTHER -> v.kind \in Known
Read[v \in Trees] ==
  IF v.kind \in {"list", "string list"}
  THEN Value("list", [i \in DOMAIN v.items |-> Read[v.items[i]]], <<>>)
  ELSE [v EXCEPT !.members = [k \in DOMAIN @ |-> Read[@[k]]]]
RepliesAreRead ==
  /\ ended = "read" /\ Kept[sent] => result = Read[sent]
  /\ ended = "read" /\ result = sent => Kept[sent] \/ sent = Null
  /\ ended = "error" => ~Kept[sent]
  /\ ended = "cut" /\ Kept[sent] => result \in {Null, Read[sent]}

(* As long as no login begins while another one is under way, every slot     *)
(* finds the call whose reply has finished, no call under way is forgotten,  *)
(* and a session that is ready has its parameters and the capabilities the   *)
(* simulator named: each key the string that followed it last, up to the     *)
(* first element that is out of place.                                       *)
InPlace(answer) ==
  {n \in 0..Len(answer) : \A j \in 1..n : answer[j].name = IF j % 2 = 1 THEN "key" ELSE "string"}
Named(answer) ==
  LET pairs == {i \in 1..Len(answer) : 2 * i \in InPlace(answer)}
      Of(k) == {i \in pairs : answer[2 * i - 1].text = k}
  IN  [k \in {answer[2 * i - 1].text : i \in pairs} |->
         answer[2 * (CHOOSE i \in Of(k) : \A j \in Of(k) : j <= i)].text]
SessionsAreReady ==
  ~overlapped =>
    /\ at # "null"
    /\ \A i \in DOMAIN calls : Pending(i, "login") => i = login
    /\ \A i \in DOMAIN calls : Pending(i, "caps") => i = caps
    /\ session.ready => session.parameters /\ session.capabilities = Named(answered)
=============================================================================
