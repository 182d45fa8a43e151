---------------------------- MODULE MCClipServer ----------------------------
(***************************************************************************)
(* The clip server and, side by side with it, what the repository has of   *)
(* streams and of talking to others (packets, frames, headers, messages,   *)
(* markup, sockets, a driver, logins, the events of a window).  They share *)
(* no state: see MCCallbacks.                                              *)
(***************************************************************************)
EXTENDS ClipServer, TLC

CONSTANTS
  ImageSize, MaxFrames, MaxUnits, MaxBurst, MaxObjects, \* of an encoder
  Senders, MaxSends,                                    \* of messages on the wire
  MaxContents,                                          \* of the test client
  SocketObjects, Descriptors, Errors, MaxSize,          \* of sockets
  InputKeys, MaxQueue                                   \* of a window

(* The vector of the test client has up to eight strings: see               *)
(* AnswersAreTheContent, which names the ones it grows with.                 *)
ASSUME StreamAssumption ==
  /\ MaxObjects \in Nat /\ MaxSends \in Nat /\ MaxSize \in Nat /\ MaxQueue \in Nat
  /\ MaxContents \in 0..8
  /\ SocketObjects # {} /\ Descriptors \subseteq Nat /\ Errors \subseteq Nat \ {0}

VARIABLES
  part,
  gp_incoming_, gp_outgoing_, gp_state_, gp_incomingmap_, gp_outgoingmap_, gp_test,
  gp_position, gp_late, gp_passed,
  es_file, es_stream, es_good, es_stage, es_at, es_image, es_locked, es_failures, es_units,
  es_next_unit, es_packets_lost, es_zeroed, es_frames_total, es_cut, es_encoded, es_header,
  es_peek, es_field, es_interlacing, es_seconds, es_user, es_objects, es_open, es_given,
  es_refused, es_aborted,
  wm_messages, wm_sending, wm_reported, wm_wire, wm_is_open, wm_reading, wm_received,
  wm_refused, wm_cut, wm_overlapped,
  tc_glb_token, tc_glb_content_heap, tc_capacity, tc_glb_contents, tc_dangling, tc_error,
  tc_closed_, tc_handler, tc_main, tc_answered,
  xr_follows, xr_sent, xr_document, xr_next, xr_stack, xr_ended, xr_result, xr_calls, xr_login,
  xr_caps, xr_session, xr_answered, xr_overlapped, xr_at,
  so_handle_, so_error_, so_recv_interrupt_, so_open, so_errno, so_loop, so_caller,
  so_returned, so_failed, so_leaked,
  in_focus_item, in_has_focus_, in_posted, in_top, in_mouse, in_keyboard, in_pressed,
  in_global_auto_repeat, in_auto_repeat

Symmetry == Permutations(Threads)

(* A stream with numbers of four bits and maps of four entries.              *)
ShortStreams == {[incoming |-> 14, outgoing |-> 13, modulus |-> 16, size |-> 4]}

gpVars ==
  <<gp_incoming_, gp_outgoing_, gp_state_, gp_incomingmap_, gp_outgoingmap_, gp_test,
    gp_position, gp_late, gp_passed>>
esVars ==
  <<es_file, es_stream, es_good, es_stage, es_at, es_image, es_locked, es_failures, es_units,
    es_next_unit, es_packets_lost, es_zeroed, es_frames_total, es_cut, es_encoded, es_header,
    es_peek, es_field, es_interlacing, es_seconds, es_user, es_objects, es_open, es_given,
    es_refused, es_aborted>>
wmVars ==
  <<wm_messages, wm_sending, wm_reported, wm_wire, wm_is_open, wm_reading, wm_received,
    wm_refused, wm_cut, wm_overlapped>>
tcVars ==
  <<tc_glb_token, tc_glb_content_heap, tc_capacity, tc_glb_contents, tc_dangling, tc_error,
    tc_closed_, tc_handler, tc_main, tc_answered>>
xrVars ==
  <<xr_follows, xr_sent, xr_document, xr_next, xr_stack, xr_ended, xr_result, xr_calls,
    xr_login, xr_caps, xr_session, xr_answered, xr_overlapped, xr_at>>
soVars ==
  <<so_handle_, so_error_, so_recv_interrupt_, so_open, so_errno, so_loop, so_caller,
    so_returned, so_failed, so_leaked>>
inVars ==
  <<in_focus_item, in_has_focus_, in_posted, in_top, in_mouse, in_keyboard, in_pressed,
    in_global_auto_repeat, in_auto_repeat>>

Gap == INSTANCE GapControl WITH
  Streams <- ShortStreams, MaxEvents <- 4, incoming_ <- gp_incoming_,
  outgoing_ <- gp_outgoing_, state_ <- gp_state_, incomingmap_ <- gp_incomingmap_,
  outgoingmap_ <- gp_outgoingmap_, test <- gp_test, position <- gp_position, late <- gp_late,
  passed <- gp_passed

Encoder == INSTANCE EncodeStream WITH
  Values <- {"bad", "known", "zero"}, header <- es_header, peek <- es_peek, field <- es_field,
  interlacing <- es_interlacing, seconds <- es_seconds,
  user <- es_user, objects <- es_objects, open <- es_open, given <- es_given,
  refused <- es_refused, aborted <- es_aborted, file <- es_file,
  stream <- es_stream, good <- es_good, stage <- es_stage, at <- es_at, image <- es_image,
  locked <- es_locked, failures <- es_failures, units <- es_units, next_unit <- es_next_unit,
  packets_lost <- es_packets_lost, zeroed <- es_zeroed, frames_total <- es_frames_total,
  cut <- es_cut, encoded <- es_encoded

Wire == INSTANCE WireMessages WITH
  messages <- wm_messages, sending <- wm_sending,
  reported <- wm_reported, wire <- wm_wire, is_open <- wm_is_open, reading <- wm_reading,
  received <- wm_received, refused <- wm_refused, cut <- wm_cut, overlapped <- wm_overlapped

Client == INSTANCE TestClient WITH
  glb_token <- tc_glb_token, glb_content_heap <- tc_glb_content_heap,
  capacity <- tc_capacity, glb_contents <- tc_glb_contents, dangling <- tc_dangling,
  error <- tc_error, closed_ <- tc_closed_, handler <- tc_handler, main <- tc_main,
  answered <- tc_answered

Xml == INSTANCE XmlRpc WITH
  Leaves <- {"string", "int"}, Names <- <<"a", "b">>, MaxItems <- 2, MaxLogins <- 2,
  Keys <- {"k", "l"}, MaxPairs <- 3, follows <- xr_follows, sent <- xr_sent,
  document <- xr_document, next <- xr_next, stack <- xr_stack, ended <- xr_ended,
  result <- xr_result, calls <- xr_calls, login <- xr_login, caps <- xr_caps,
  session <- xr_session, answered <- xr_answered, overlapped <- xr_overlapped, at <- xr_at

Socket == INSTANCE Sockets WITH
  handle_ <- so_handle_, error_ <- so_error_, recv_interrupt_ <- so_recv_interrupt_,
  open <- so_open, errno <- so_errno, loop <- so_loop, caller <- so_caller,
  returned <- so_returned, failed <- so_failed, leaked <- so_leaked

Input == INSTANCE InputStates WITH
  Keys <- InputKeys, focus_item <- in_focus_item, has_focus_ <- in_has_focus_,
  posted <- in_posted, top <- in_top, mouse <- in_mouse, keyboard <- in_keyboard,
  pressed <- in_pressed, global_auto_repeat <- in_global_auto_repeat,
  auto_repeat <- in_auto_repeat

GroupInit ==
  /\ part \in {"server", "Gap", "Encoder", "Wire", "Client", "Xml", "Socket", "Input"}
  /\ Init
  /\ IF part = "Gap" THEN TRUE ELSE gp_test = Gap!packetLossNone
  /\ Gap!Init
  /\ IF part = "Encoder" THEN (es_user = "main" \/ (es_user = "classes" /\ es_peek = Encoder!Missing))
     ELSE es_user = "main" /\ es_peek = Encoder!Missing
  /\ Encoder!Init
  /\ Wire!Init
  /\ Client!Init
  /\ IF part = "Xml" THEN TRUE
     ELSE /\ xr_follows = "reply"
          /\ xr_sent = Xml!Value("string", <<>>, <<>>)
          /\ xr_document = Xml!Reply(xr_sent, FALSE)
  /\ Xml!Init
  /\ IF part = "Socket" THEN TRUE ELSE so_caller = CHOOSE o \in SocketObjects : TRUE
  /\ Socket!Init
  /\ IF part = "Input" THEN TRUE ELSE in_global_auto_repeat = TRUE
  /\ Input!Init

GroupNext ==
  /\ UNCHANGED part
  /\ \/ part = "server" /\ Next
        /\ UNCHANGED <<gpVars, esVars, wmVars, tcVars, xrVars, soVars, inVars>>
     \/ part = "Gap" /\ Gap!Next
        /\ UNCHANGED <<vars, esVars, wmVars, tcVars, xrVars, soVars, inVars>>
     \/ part = "Encoder" /\ Encoder!Next
        /\ UNCHANGED <<vars, gpVars, wmVars, tcVars, xrVars, soVars, inVars>>
     \/ part = "Wire" /\ Wire!Next
        /\ UNCHANGED <<vars, gpVars, esVars, tcVars, xrVars, soVars, inVars>>
     \/ part = "Client" /\ Client!Next
        /\ UNCHANGED <<vars, gpVars, esVars, wmVars, xrVars, soVars, inVars>>
     \/ part = "Xml" /\ Xml!Next
        /\ UNCHANGED <<vars, gpVars, esVars, wmVars, tcVars, soVars, inVars>>
     \/ part = "Socket" /\ Socket!Next
        /\ UNCHANGED <<vars, gpVars, esVars, wmVars, tcVars, xrVars, inVars>>
     \/ part = "Input" /\ Input!Next
        /\ UNCHANGED <<vars, gpVars, esVars, wmVars, tcVars, xrVars, soVars>>

groupVars == <<part, vars, gpVars, esVars, wmVars, tcVars, xrVars, soVars, inVars>>

GroupSpec == GroupInit /\ [][GroupNext]_groupVars

-----------------------------------------------------------------------------
(* What is read is what was written: packets keep their numbers but for the  *)
(* gaps, frames and their packets are the file's, a header has its fields as *)
(* they are listed, markup reads back as the value, and the session that is  *)
(* ready is the one that answered, with what its answer named.               *)
StreamsAreIntact ==
  /\ part = "Gap" => Gap!TestsPass /\ Gap!NumbersKeepTheirOrder
  /\ part = "Encoder" =>
       Encoder!HeadersInOrder /\ Encoder!FramesAreEncoded /\ Encoder!LossIsCounted
  /\ part = "Xml" => Xml!RepliesAreRead /\ Xml!SessionsAreReady

(* What another side has given or told is kept as it was: descriptors and    *)
(* the driver's objects have one owner, what a socket reports happened,      *)
(* messages stay whole however they are split, answers belong to what was    *)
(* asked, and the input follows the focus, whatever fails in between.        *)
OthersAreFollowed ==
  /\ part = "Socket" => Socket!DescriptorsHaveOneOwner /\ Socket!ReceivedIsReported
  /\ part = "Encoder" => Encoder!GivenIsOwned
  /\ part = "Wire" => Wire!MessagesStayWhole
  /\ part = "Client" => Client!AnswersAreTheContent
  /\ part = "Input" => Input!InputFollowsFocus
=============================================================================
