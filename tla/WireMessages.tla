---------------------------- MODULE WireMessages -----------------------------
(***************************************************************************)
(* The messages of the clip server on the wire: a header with the size and *)
(* a payload, sent by two calls that take no lock, and read back by        *)
(* dispatch.  The test client sends from two threads.  A message too large *)
(* for the buffer becomes an empty one.  Bytes count two to a header, one to*)
(* a payload; the connection (external) may cut a header or break.         *)
(***************************************************************************)
EXTENDS Naturals, Sequences, SequencesExt

CONSTANTS Senders,      \* threads that send on the connection
          MaxSends

-----------------------------------------------------------------------------
(* The fields each generator writes and each parser requires, by the number  *)
(* of bits of a number, or "array", "string" or "anything" (1, 2, 0).        *)
anything == 0
array == 1
string == 2
GenerateAuthenticateRequest == [user_id |-> 64, device_id |-> 64, secret |-> 64]
GenerateAuthenticateResponse == [token |-> 64, message |-> 16]
ParseAuthenticateRequest == [user_id |-> 64, device_id |-> 64]
ParseAuthenticateResponse == [token |-> 64, message |-> 64]

GenerateRefreshIndexRequest == [token |-> 64, dataset_id |-> 16]
GenerateRefreshIndexResponse == [message |-> 16, contents |-> array]
ParseRefreshIndexRequest == [token |-> 64, dataset_id |-> 32]
ParseRefreshIndexResponse == [message |-> 32, contents |-> array]

(* A content in the list.  append makes an array of content_type only if     *)
(* there is a type.  A list without contents is null, which isArray accepts  *)
(* in the jsoncpp (external) of the time.                                    *)
GenerateContent(typed) ==
  IF typed THEN [id |-> 64, content_type |-> array, description |-> string]
  ELSE [id |-> 64, description |-> string]
ParseContent == [id |-> anything, content_type |-> array, description |-> anything]

GenerateNotifyAvailableRequest(typed) ==
  IF typed THEN [token |-> 64, content_id |-> 64, dataset_id |-> 16, description |-> string,
                 content_type |-> array]
  ELSE [token |-> 64, content_id |-> 64, dataset_id |-> 16, description |-> string]
ParseNotifyAvailableRequest ==
  [token |-> 64, content_id |-> 64, dataset_id |-> 32, description |-> string,
   content_type |-> array]

GenerateSyncRequest == [token |-> 64, content_id |-> 64, dataset_id |-> 16]
GenerateSyncResponse ==
  [token |-> 64, dataset_id |-> 16, content_id |-> 64, content_size |-> 32, message |-> 16]
GeneratePing == [token |-> 64]
ParseSyncRequest == [token |-> 64, content_id |-> 64, dataset_id |-> 32]
ParseSyncResponse ==
  [token |-> 64, dataset_id |-> 32, content_id |-> 64, content_size |-> 32, message |-> 32]
ParsePing == [token |-> 64]

Generators(typed) ==
  [authenticate_request |-> GenerateAuthenticateRequest,
   authenticate_response |-> GenerateAuthenticateResponse,
   refresh_index_request |-> GenerateRefreshIndexRequest,
   refresh_index_response |-> GenerateRefreshIndexResponse,
   notify_available_request |-> GenerateNotifyAvailableRequest(typed),
   sync_request |-> GenerateSyncRequest, sync_response |-> GenerateSyncResponse,
   ping |-> GeneratePing]
Parsers ==
  [authenticate_request |-> ParseAuthenticateRequest,
   authenticate_response |-> ParseAuthenticateResponse,
   refresh_index_request |-> ParseRefreshIndexRequest,
   refresh_index_response |-> ParseRefreshIndexResponse,
   notify_available_request |-> ParseNotifyAvailableRequest,
   sync_request |-> ParseSyncRequest, sync_response |-> ParseSyncResponse,
   ping |-> ParsePing]

Reads(required, written) ==
  \A f \in DOMAIN required :
    /\ f \in DOMAIN written
    /\ IF required[f] > 2 THEN written[f] > 2 /\ written[f] <= required[f]
       ELSE required[f] \in {anything, written[f]}

Parses(m) ==
  /\ Reads(Parsers[m.type], Generators(m.typed)[m.type])
  /\ m.type = "refresh_index_response" => Reads(ParseContent, GenerateContent(m.typed))

(* typed: every clip in it has a type. *)
Messages == {m \in [type : DOMAIN Parsers, typed : BOOLEAN, large : BOOLEAN] :
               ~m.typed \/ m.large =>
                 m.type \in {"refresh_index_response", "notify_available_request"}}

VARIABLES
  messages,   \* those whose send began, in that order
  sending,    \* sender -> the number of the message whose header it has sent, or 0
  reported,   \* messages whose send has returned no error
  wire,       \* bytes: <<number of the message, part>>
  is_open,    \* the sender's socket
  reading,    \* the message that the last header announced, 0 if a header is expected
  received,   \* messages whose payloads were read, in order; 0 for a misread
  refused,    \* messages that dispatch could not parse
  cut, overlapped   \* a header was cut short, two sends overlapped

vars == <<messages, sending, reported, wire, is_open, reading, received, refused, cut, overlapped>>

Init ==
  /\ messages = <<>> /\ sending = [s \in Senders |-> 0] /\ reported = {} /\ wire = <<>>
  /\ is_open = TRUE /\ reading = 0 /\ received = <<>> /\ refused = {}
  /\ cut = FALSE /\ overlapped = FALSE

(* generic_send: without an open socket nothing is sent and no error         *)
(* returned; a header that is cut short is no error either.                  *)
Send(s, m) ==
  LET n == Len(messages) + 1
  IN  /\ sending[s] = 0 /\ n <= MaxSends /\ messages' = Append(messages, m)
      /\ \/ /\ is_open /\ wire' = wire \o <<<<n, "h1">>, <<n, "h2">>>>
            /\ sending' = [sending EXCEPT ![s] = n]
            /\ overlapped' = (overlapped \/ \E t \in Senders : sending[t] # 0)
            /\ UNCHANGED <<reported, is_open, cut>>
         \/ /\ is_open /\ wire' = Append(wire, <<n, "h1">>) /\ cut' = TRUE
            /\ reported' = reported \cup {n} /\ UNCHANGED <<sending, is_open, overlapped>>
         \/ /\ is_open /\ is_open' = FALSE /\ UNCHANGED <<reported, sending, wire, cut, overlapped>>
         \/ /\ ~is_open /\ reported' = reported \cup {n}
            /\ UNCHANGED <<sending, wire, is_open, cut, overlapped>>
  /\ UNCHANGED <<reading, received, refused>>

SendPayloadCut(s) ==  \* mutant: what was too large is sent behind a header that says nothing
  LET n == sending[s]
  IN  /\ n # 0 /\ sending' = [sending EXCEPT ![s] = 0]
      /\ \/ /\ is_open /\ reported' = reported \cup {n} /\ UNCHANGED is_open
            /\ wire' = Append(wire, <<n, "payload">>)
         \/ is_open' = FALSE /\ UNCHANGED <<wire, reported>>
      /\ UNCHANGED <<messages, reading, received, refused, cut, overlapped>>

(* send_all of what try_write_message has made: nothing, if it was too large *)
SendPayload(s) ==
  LET n == sending[s]
  IN  /\ n # 0 /\ sending' = [sending EXCEPT ![s] = 0]
      /\ \/ /\ is_open /\ reported' = reported \cup {n} /\ UNCHANGED is_open
            /\ wire' = IF messages[n].large THEN wire ELSE Append(wire, <<n, "payload">>)
         \/ is_open' = FALSE /\ UNCHANGED <<wire, reported>>
      /\ UNCHANGED <<messages, reading, received, refused, cut, overlapped>>

(* dispatch: two bytes are a header whatever they are; the number of what    *)
(* they announce, or a misread.                                              *)
TryParseHeader ==
  LET h == wire[1]
      aligned == h[2] = "h1" /\ wire[2] = <<h[1], "h2">>
  IN  /\ reading = 0 /\ Len(wire) >= 2
      /\ wire' = SubSeq(wire, 3, Len(wire))
      /\ reading' = IF aligned THEN h[1] ELSE MaxSends + 1
      /\ UNCHANGED <<messages, sending, reported, is_open, received, refused, cut, overlapped>>

(* try_read_message fails for an empty payload.                              *)
TryReadMessage ==
  LET m == messages[reading]
  IN  /\ reading \in DOMAIN messages
      /\ m.large \/ wire # <<>>
      /\ wire' = IF m.large THEN wire ELSE Tail(wire)
      /\ received' = Append(received, IF m.large \/ Head(wire) = <<reading, "payload">> THEN reading ELSE 0)
      /\ refused' = IF m.large \/ ~Parses(m) THEN refused \cup {m} ELSE refused
      /\ reading' = 0
      /\ UNCHANGED <<messages, sending, reported, is_open, cut, overlapped>>

Next ==
  \/ TryParseHeader \/ TryReadMessage
  \/ \E s \in Senders : SendPayload(s) \/ \E m \in Messages : Send(s, m)

Spec == Init /\ [][Next]_vars

-----------------------------------------------------------------------------
(* Unless a header was cut short or two threads sent at the same time, what  *)
(* is read are the messages in the order they were sent, and none is taken   *)
(* for another, and what was reported as sent before the connection broke is *)
(* read or on the wire.  The only messages dispatch refuses are those that   *)
(* were too large, and those that name a clip without a type.                *)
MessagesStayWhole ==
  /\ ~cut /\ ~overlapped =>
       /\ reading <= Len(messages)
       /\ \A i \in DOMAIN received : received[i] # 0 /\ (i > 1 => received[i] > received[i - 1])
       /\ is_open => \A n \in reported :
            \/ n \in ToSet(received) \cup {reading} \/ <<n, "h1">> \in ToSet(wire)
  /\ \A m \in refused : m.large \/ ~m.typed
=============================================================================
