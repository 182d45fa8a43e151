----------------------------- MODULE TestClient ------------------------------
(***************************************************************************)
(* The test client of the clip server.  Its main thread takes commands and *)
(* adds contents, a detached thread dispatches messages and answers sync   *)
(* requests from them, without a lock; a content points to the characters  *)
(* of a string in a vector, which moves them when it grows if they are few.*)
(***************************************************************************)
EXTENDS Naturals, Sequences, FiniteSets

CONSTANTS MaxContents

VARIABLES
  glb_token,       \* 0 until authenticated
  glb_content_heap,\* the strings: is it short (kept in the string object)
  capacity,        \* of that vector
  glb_contents,    \* indices of the strings whose node has been entered
  dangling,        \* those whose pointer no longer leads to the string
  error,           \* of the socket: "none", "other"
  closed_,         \* the receiver
  handler,         \* the detached thread: "none", "runs", "ended"
  main,            \* the main thread: "starts", "commands", "ended"
  answered         \* what was sent as content: <<index, was its pointer dangling>>

vars == <<glb_token, glb_content_heap, capacity, glb_contents, dangling, error, closed_, handler,
          main, answered>>

Init ==
  /\ glb_token = 0 /\ glb_content_heap = <<>> /\ capacity = 0
  /\ glb_contents = {} /\ dangling = {}
  /\ error = "none" /\ closed_ = FALSE /\ handler = "none" /\ main = "starts" /\ answered = {}

(* main: connect, and the thread *)
Start ==
  /\ main = "starts"
  /\ \/ main' = "commands" /\ handler' = "runs" /\ UNCHANGED error
     \/ main' = "ended" /\ error' = "other" /\ UNCHANGED handler
  /\ UNCHANGED <<glb_token, glb_content_heap, capacity, glb_contents, dangling, closed_, answered>>

(* The argument of notify becomes the next content; msg::send may fail.      *)
Notify(short) ==
  LET n == Len(glb_content_heap) + 1
      grows == n > capacity
  IN  /\ main = "commands" /\ n <= MaxContents
      /\ glb_content_heap' = Append(glb_content_heap, short)
      /\ capacity' = IF grows THEN (IF capacity = 0 THEN 1 ELSE 2 * capacity) ELSE capacity
      /\ dangling' = IF grows THEN dangling \cup {i \in DOMAIN glb_content_heap : glb_content_heap[i]}
                     ELSE dangling
      /\ glb_contents' = glb_contents \cup {n}
      /\ error' \in IF error = "none" THEN {"none", "other"} ELSE {error}    \* msg::send
      /\ UNCHANGED <<glb_token, closed_, handler, main, answered>>

(* quit, and any command that is not given one argument, end the loop; one   *)
(* that is not found ends it only after the receiver was closed.             *)
Command ==
  /\ main = "commands" /\ main' = "ended"
  /\ UNCHANGED <<glb_token, glb_content_heap, capacity, glb_contents, dangling, error, closed_,
                 handler, answered>>

-----------------------------------------------------------------------------
(* handler: dispatch until the receiver is closed, or main() has returned.   *)
Dispatches == handler = "runs" /\ ~closed_ /\ main # "ended"

(* A send by the receiver; on_error closes.                                  *)
Sends ==
  \/ UNCHANGED <<error, closed_>>
  \/ error' = "other" /\ closed_' = TRUE

OnAuthenticateResponse ==
  /\ Dispatches /\ error = "none" /\ glb_token' = 1 /\ Sends
  /\ UNCHANGED <<glb_content_heap, capacity, glb_contents, dangling, handler, main, answered>>

(* on_receive(sync_request): of what it does not have it says nothing.       *)
OnSyncRequest(i) ==
  /\ Dispatches /\ error = "none" /\ i \in glb_contents
  /\ Sends
  /\ answered' = IF error' = "none" THEN answered \cup {<<i, i \in dangling>>} ELSE answered
  /\ UNCHANGED <<glb_token, glb_content_heap, capacity, glb_contents, dangling, handler, main>>

OnInterruptClosing ==  \* mutant: a timeout ends the handler
  /\ Dispatches /\ closed_' = TRUE
  /\ UNCHANGED <<glb_token, glb_content_heap, capacity, glb_contents, dangling, error, handler, main, answered>>

(* dispatch receives nothing.  on_interrupt takes a timeout's error away and *)
(* sends a ping; any other error, or one that a command has left, has        *)
(* on_error close.  An end without an error has dispatch called again.       *)
OnInterrupt ==
  /\ Dispatches /\ error = "none" /\ Sends
  /\ UNCHANGED <<glb_token, glb_content_heap, capacity, glb_contents, dangling, handler, main, answered>>
OnError ==
  /\ Dispatches /\ error' = "other" /\ closed_' = TRUE
  /\ UNCHANGED <<glb_token, glb_content_heap, capacity, glb_contents, dangling, handler, main, answered>>

HandlerEnds ==
  /\ handler = "runs" /\ (closed_ \/ main = "ended") /\ handler' = "ended"
  /\ UNCHANGED <<glb_token, glb_content_heap, capacity, glb_contents, dangling, error, closed_, main,
                 answered>>

Next ==
  \/ Start \/ Command \/ OnAuthenticateResponse \/ OnInterrupt \/ OnError \/ HandlerEnds
  \/ \E short \in BOOLEAN : Notify(short)
  \/ \E i \in 1..MaxContents : OnSyncRequest(i)

Spec == Init /\ [][Next]_vars

-----------------------------------------------------------------------------
(* A content is answered with other bytes than its own only if its string is *)
(* short and the vector has grown since: with its second, third and fifth    *)
(* string.  The receiver is closed only after an error of the socket.        *)
AnswersAreTheContent ==
  /\ \A a \in answered : a[2] => glb_content_heap[a[1]] /\ a[1] < Len(glb_content_heap)
  /\ \A i \in glb_contents : i \in dangling <=>
       glb_content_heap[i] /\ \E n \in {2, 3, 5} : i < n /\ n <= Len(glb_content_heap)
  /\ closed_ => error # "none"
=============================================================================
