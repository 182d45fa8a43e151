----------------------------- MODULE InputStates ------------------------------
(***************************************************************************)
(* WorldInputLogic of qt-statemachine: input events are cloned by a filter *)
(* and queued for a state machine; a timer compares the focus of the scene *)
(* with what it saw last and queues an event of its own.  That Qt takes one*)
(* event after the other, and leaves inner states first, is external.      *)
(***************************************************************************)
EXTENDS Naturals, Sequences

CONSTANTS Keys, MaxQueue

VARIABLES
  focus_item,        \* an item of the scene has the focus
  has_focus_,        \* what the timer saw: no item had it
  posted,            \* the events of the machine that wait
  top,               \* "unfocused", "focused" or "exit"
  mouse, keyboard,   \* states of the two regions of focused
  pressed,           \* keys whose KeyInfo says so
  global_auto_repeat,\* as it was when the machine was made
  auto_repeat        \* of the X server

machine == <<top, mouse, keyboard, pressed, auto_repeat>>
vars == <<focus_item, has_focus_, posted, machine, global_auto_repeat>>

Init ==
  /\ focus_item = FALSE /\ has_focus_ = FALSE /\ posted = <<>>
  /\ top = "unfocused" /\ mouse = "waiting" /\ keyboard = "waiting"
  /\ pressed = {} /\ global_auto_repeat \in BOOLEAN /\ auto_repeat = global_auto_repeat

MouseEvents == {"MouseMove", "MouseButtonPress", "MouseButtonRelease", "Wheel"}
Event(type, key) == [type |-> type, key |-> key]

(* eventFilter, of the view and its viewport, and clone_event_               *)
Filter(type, key) ==
  /\ top # "exit" /\ Len(posted) < MaxQueue
  /\ posted' = Append(posted, Event(type, key))
  /\ UNCHANGED <<focus_item, has_focus_, machine, global_auto_repeat>>

FocusMoves ==
  /\ focus_item' = ~focus_item
  /\ UNCHANGED <<has_focus_, posted, machine, global_auto_repeat>>

(* timerEvent                                                                *)
TimerForgetful ==  \* mutant: does not note what it has told
  /\ top # "exit" /\ Len(posted) < MaxQueue /\ has_focus_ = focus_item
  /\ posted' = Append(posted, Event(IF focus_item THEN "FocusOut" ELSE "FocusIn", 0))
  /\ UNCHANGED <<has_focus_, focus_item, machine, global_auto_repeat>>
Timer ==
  /\ top # "exit" /\ Len(posted) < MaxQueue /\ has_focus_ = focus_item
  /\ posted' = Append(posted, Event(IF focus_item THEN "FocusOut" ELSE "FocusIn", 0))
  /\ has_focus_' = ~focus_item
  /\ UNCHANGED <<focus_item, machine, global_auto_repeat>>

-----------------------------------------------------------------------------
Event1 == Head(posted)
Takes ==
  /\ posted # <<>> /\ top # "exit" /\ posted' = Tail(posted)
  /\ UNCHANGED <<focus_item, has_focus_, global_auto_repeat>>
In(state) == top = "focused" /\ state

(* onEntry of ActiveInputState, which turns the repeating of keys off        *)
FocusIn ==
  /\ Takes /\ top = "unfocused" /\ Event1.type = "FocusIn"
  /\ top' = "focused" /\ mouse' = "waiting" /\ keyboard' = "waiting"
  /\ auto_repeat' = (auto_repeat /\ ~global_auto_repeat)
  /\ UNCHANGED pressed

(* Leaving focused, for FocusOut or Close: onExit of the key that is active  *)
(* takes the event for one of a key, and reads whichever it finds there;     *)
(* repeating is turned on in any case.                                       *)
Leave ==
  /\ Takes /\ \/ top = "focused" /\ Event1.type \in {"FocusOut", "Close"}
              \/ top = "unfocused" /\ Event1.type = "Close"
  /\ top' = (IF Event1.type = "Close" THEN "exit" ELSE "unfocused")
  /\ mouse' = "waiting" /\ keyboard' = "waiting"
  /\ auto_repeat' = (auto_repeat \/ top = "focused")
  /\ IF In(keyboard = "active")
     THEN pressed' \in {pressed} \cup {pressed \ {k} : k \in Keys}
     ELSE UNCHANGED pressed

(* ActiveKeyState: whatever key is pressed first, whatever is released next  *)
Key ==
  /\ Takes /\ top = "focused"
  /\ \/ /\ keyboard = "waiting" /\ Event1.type = "KeyPress"
        /\ keyboard' = "active" /\ pressed' = pressed \cup {Event1.key}
     \/ /\ keyboard = "active" /\ Event1.type = "KeyRelease"
        /\ keyboard' = "waiting" /\ pressed' = pressed \ {Event1.key}
  /\ UNCHANGED <<top, mouse, auto_repeat>>

(* ActiveButtonState, and the gesture states below it                        *)
Mouse ==
  /\ Takes /\ top = "focused"
  /\ \/ mouse = "waiting" /\ Event1.type = "MouseButtonPress" /\ mouse' = "gesture waiting"
     \/ mouse = "gesture waiting" /\ Event1.type = "MouseMove" /\ mouse' = "gesture active"
     \/ mouse # "waiting" /\ Event1.type = "MouseButtonRelease" /\ mouse' = "waiting"
  /\ UNCHANGED <<top, keyboard, pressed, auto_repeat>>

(* The transitions of init_statemachine_, by the state they leave.           *)
Awaited ==
  {"Close"} \cup
  (IF top = "unfocused" THEN {"FocusIn"}
   ELSE {"FocusOut", IF keyboard = "waiting" THEN "KeyPress" ELSE "KeyRelease"} \cup
        (IF mouse = "waiting" THEN {"MouseButtonPress"} ELSE {"MouseButtonRelease"}) \cup
        (IF mouse = "gesture waiting" THEN {"MouseMove"} ELSE {}))

(* MouseWheelTransition has no target; and any event no state waits for      *)
Ignored == Takes /\ Event1.type \notin Awaited /\ UNCHANGED machine

Next ==
  \/ FocusMoves \/ Timer \/ FocusIn \/ Leave \/ Key \/ Mouse \/ Ignored
  \/ \E type \in MouseEvents \cup {"Close"} : Filter(type, 0)
  \/ \E type \in {"KeyPress", "KeyRelease"}, key \in Keys : Filter(type, key)

Spec == Init /\ [][Next]_vars

-----------------------------------------------------------------------------
(* The machine follows the timer: its state, once the focus events that wait *)
(* have been taken, is the focus the timer saw, none of them being ignored;  *)
(* outside of focused the keys repeat and no button or key is active.  A key *)
(* may remain pressed, and repeating on where it was off before.             *)
Told == {i \in DOMAIN posted : posted[i].type \in {"FocusIn", "FocusOut"}}
LastFocus ==
  IF Told = {} THEN top = "focused"
  ELSE \E i \in Told : posted[i].type = "FocusIn" /\ \A j \in Told : j <= i
InputFollowsFocus ==
  /\ top # "exit" => LastFocus = has_focus_
  /\ \A i, j \in DOMAIN posted :
       (i < j /\ posted[i].type \in {"FocusIn", "FocusOut"} /\ posted[j].type = posted[i].type) =>
         \E k \in i .. j : posted[k].type \in {"FocusIn", "FocusOut"} \ {posted[i].type}
  /\ global_auto_repeat => (auto_repeat <=> top # "focused")
  /\ top # "focused" => mouse = "waiting" /\ keyboard = "waiting"
=============================================================================
