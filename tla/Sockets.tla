------------------------------- MODULE Sockets -------------------------------
(***************************************************************************)
(* The socket objects of the clip server's socket.cpp, over the calls of   *)
(* the system (external), which fail as they like.  A method that fails    *)
(* keeps the error until clear_error; the end of a connection is taken for *)
(* a failure and loads whatever errno was left by an earlier one.          *)
(***************************************************************************)
EXTENDS Integers, FiniteSetsExt

CONSTANTS SocketObjects,
          Descriptors,   \* the lowest free one is opened next
          Errors,        \* values of errno other than 0
          MaxSize        \* of the buffers

INVALID == -1
Idle == [on |-> INVALID, asked |-> 0, left |-> 0, sends |-> FALSE, block |-> 0]
NoReturn == [error |-> 0, asked |-> 0, bytes |-> 0, interrupted |-> TRUE]

VARIABLES
  handle_, error_, recv_interrupt_,   \* of each socket object
  open,       \* the descriptors that are open
  errno,      \* of the thread, which no call resets
  loop,       \* send_all or receive_all under way: the object's handle, bytes asked for and left
  caller,     \* the object whose method that is
  returned,   \* what the last receive or receive_all returned
  failed,     \* objects for which a call has failed since they were made or cleared
  leaked      \* descriptors that no object has and nothing closed

vars == <<handle_, error_, recv_interrupt_, open, errno, loop, caller, returned, failed, leaked>>

Init ==
  /\ handle_ = [o \in SocketObjects |-> INVALID] /\ error_ = [o \in SocketObjects |-> 0]
  /\ recv_interrupt_ = [o \in SocketObjects |-> FALSE]
  /\ open = {} /\ errno = 0 /\ loop = Idle /\ caller \in SocketObjects
  /\ returned = NoReturn /\ failed = {} /\ leaked = {}

NoLoop == loop = Idle
LowestFree == Min(Descriptors \ open)

(* The try_... functions: a call of the system may succeed with a descriptor *)
(* that is open; when one fails, errno tells why and load_last_error_code    *)
(* keeps it.                                                                 *)
MaySucceed(o) == handle_[o] \in open

Fail(o) ==
  /\ errno' \in Errors
  /\ error_' = [error_ EXCEPT ![o] = errno'] /\ failed' = failed \cup {o}

-----------------------------------------------------------------------------
(* open: the handle the object had is overwritten.                           *)
Open(o) ==
  /\ NoLoop /\ Descriptors # open
  /\ handle_' = [handle_ EXCEPT ![o] = LowestFree] /\ open' = open \cup {LowestFree}
  /\ leaked' = leaked \cup ({handle_[o]} \cap open)
  /\ UNCHANGED <<error_, recv_interrupt_, errno, loop, caller, returned, failed>>

(* close, which the destructor calls too: it fails for an invalid handle.    *)
Close(o) ==
  /\ NoLoop
  /\ handle_' = [handle_ EXCEPT ![o] = INVALID]
  /\ open' = open \ {handle_[o]}
  /\ \/ MaySucceed(o) /\ UNCHANGED <<errno, error_, failed>>
     \/ Fail(o)
  /\ UNCHANGED <<recv_interrupt_, loop, caller, returned, leaked>>

(* open, accept, bind, connect, listen, local_address, remote_address,       *)
(* set_send_timeout, set_receive_timeout, send and send_to when they fail.   *)
FailedCall(o) ==
  /\ NoLoop /\ Fail(o)
  /\ UNCHANGED <<handle_, recv_interrupt_, open, loop, caller, returned, leaked>>

(* accept: of the accepted object only the handle changes.                   *)
Accept(o, p) ==
  /\ NoLoop /\ MaySucceed(o) /\ Descriptors # open
  /\ handle_' = [handle_ EXCEPT ![p] = LowestFree] /\ open' = open \cup {LowestFree}
  /\ leaked' = leaked \cup ({handle_[p]} \cap open)
  /\ UNCHANGED <<error_, recv_interrupt_, errno, loop, caller, returned, failed>>

MoveKeeping(o, p) ==  \* mutant: the other object is not invalidated
  /\ NoLoop
  /\ leaked' = leaked \cup ({handle_[p]} \cap open)
  /\ handle_' = [handle_ EXCEPT ![p] = handle_[o]]
  /\ error_' = [error_ EXCEPT ![p] = error_[o]]
  /\ failed' = IF o \in failed THEN failed \cup {p} ELSE failed \ {p}
  /\ UNCHANGED <<recv_interrupt_, open, errno, loop, caller, returned>>

(* operator=(socket &&): closes nothing, and a move to itself invalidates.   *)
Move(o, p) ==
  /\ NoLoop
  /\ leaked' = leaked \cup (IF o = p THEN {handle_[o]} \cap open ELSE {handle_[p]} \cap open)
  /\ handle_' = [[handle_ EXCEPT ![p] = handle_[o]] EXCEPT ![o] = INVALID]
  /\ error_' = [error_ EXCEPT ![p] = error_[o]]
  /\ failed' = IF o \in failed THEN failed \cup {p} ELSE failed \ {p}
  /\ UNCHANGED <<recv_interrupt_, open, errno, loop, caller, returned>>

ClearError(o) ==
  /\ NoLoop /\ error_' = [error_ EXCEPT ![o] = 0] /\ failed' = failed \ {o}
  /\ UNCHANGED <<handle_, recv_interrupt_, open, errno, loop, caller, returned, leaked>>

-----------------------------------------------------------------------------
(* receive, receive_from *)
Receive(o) ==
  /\ NoLoop
  /\ \/ MaySucceed(o) /\ recv_interrupt_' = [recv_interrupt_ EXCEPT ![o] = FALSE]
        /\ UNCHANGED <<errno, error_, failed>>
     \/ Fail(o) /\ recv_interrupt_' = [recv_interrupt_ EXCEPT ![o] = TRUE]
     \/ \* the other side has closed: the error is whatever errno was
        /\ MaySucceed(o) /\ recv_interrupt_' = [recv_interrupt_ EXCEPT ![o] = TRUE]
        /\ error_' = [error_ EXCEPT ![o] = errno] /\ UNCHANGED <<errno, failed>>
  /\ UNCHANGED <<handle_, open, loop, caller, returned, leaked>>

(* send_all and receive_all, a block at a time *)
Begin(o, n, sends) ==
  /\ NoLoop
  /\ loop' = [on |-> handle_[o], asked |-> n, left |-> n, sends |-> sends, block |-> 0]
  /\ caller' = o
  /\ MaySucceed(o)
  /\ UNCHANGED <<handle_, error_, recv_interrupt_, open, errno, returned, failed, leaked>>

Block(n) ==
  /\ loop.left >= n
  /\ loop' = [loop EXCEPT !.left = @ - n, !.block = n]
  /\ UNCHANGED <<handle_, error_, recv_interrupt_, open, errno, caller, returned, failed, leaked>>

(* recv_interrupt_ is set by the size of the last block, which is 0 if       *)
(* nothing was asked for.                                                    *)
Return(block) ==
  /\ loop' = Idle
  /\ recv_interrupt_' = IF loop.sends THEN recv_interrupt_
                        ELSE [recv_interrupt_ EXCEPT ![caller] = block = 0]
  /\ returned' = IF loop.sends THEN returned
                 ELSE [error |-> error_'[caller], asked |-> loop.asked,
                       bytes |-> loop.asked - loop.left, interrupted |-> block = 0]
  /\ UNCHANGED <<handle_, open, caller, leaked>>

End == ~NoLoop /\ loop.left = 0 /\ UNCHANGED <<error_, errno, failed>> /\ Return(loop.block)
Broken == ~NoLoop /\ loop.left > 0 /\ Fail(caller) /\ Return(0)

(* The other side has closed: recv returns 0, try_recv that it failed.       *)
PeerClosed ==
  /\ ~NoLoop /\ loop.left > 0 /\ ~loop.sends
  /\ error_' = [error_ EXCEPT ![caller] = errno]
  /\ UNCHANGED <<errno, failed>>
  /\ Return(0)

Next ==
  \/ End \/ Broken \/ PeerClosed
  \/ \E n \in 1..MaxSize : ~NoLoop /\ Block(n)
  \/ \E o \in SocketObjects :
       \/ Open(o) \/ Close(o) \/ FailedCall(o) \/ Receive(o) \/ ClearError(o)
       \/ \E p \in SocketObjects : Accept(o, p) \/ Move(o, p)
       \/ \E n \in 0..MaxSize, s \in BOOLEAN : Begin(o, n, s)

Spec == Init /\ [][Next]_vars

-----------------------------------------------------------------------------
(* No descriptor has two owners, and an open one has one unless it was       *)
(* overwritten by open, accept or a move.                                    *)
DescriptorsHaveOneOwner ==
  /\ \A o, p \in SocketObjects : (handle_[o] = handle_[p] /\ o # p) => handle_[o] = INVALID
  /\ \A o \in SocketObjects : handle_[o] \in open \cup {INVALID}
  /\ open = ({handle_[o] : o \in SocketObjects} \ {INVALID}) \cup (leaked \cap open)

(* A receive that reports neither an error nor an interruption has received  *)
(* all it was asked for, and one that was asked for something and received   *)
(* all of it is not interrupted.  An interrupted one may report no error, if *)
(* the other side has closed and no call of this thread ever failed; and an  *)
(* object reports an error although its call succeeded only if an earlier    *)
(* one failed, or its other side closed when errno was stale.                *)
ReceivedIsReported ==
  /\ returned.error = 0 /\ ~returned.interrupted => returned.bytes = returned.asked
  /\ returned.interrupted <=> returned.bytes < returned.asked \/ returned.asked = 0
  /\ \A o \in SocketObjects : error_[o] # 0 => errno # 0
  /\ errno = 0 => failed = {}
=============================================================================
