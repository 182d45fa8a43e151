------------------------------ MODULE ClipBook ------------------------------
(***************************************************************************)
(* The clips of the Android client: the buffer of ClipManager.java, which  *)
(* the clipboard poll (on the executor), the notifications of the server   *)
(* (on the receive thread) and the user change, and the files in which     *)
(* MainActivity.java and ClipSerializer.java keep them.  A remote clip is  *)
(* put into the buffer under a lock that nobody else takes.                *)
(***************************************************************************)
EXTENDS Integers, Sequences, FiniteSets, SequencesExt

CONSTANTS
  Texts,
  MaxClips,   \* MAX_CLIPS
  MaxMade,    \* bounds the clips made
  MaxStarts   \* bounds the starts of the application

Clips == [id : 1..MaxMade, text : Texts, remote : BOOLEAN]
NoClip == [id |-> 0, text |-> "", remote |-> FALSE]

VARIABLES
  buffer,       \* clipBuffer, oldest first
  cache,        \* remoteContentCache
  files,        \* the clips on disk
  persistence,  \* the keys of clipPersistence
  clipboard,    \* the text on the system's clipboard, or ""
  lastClip,     \* the text the poll has seen last, or ""
  adding,       \* poll: <<clip, index>> between the reading of the size and the write, or <<>>
  arriving,     \* receive thread: the remote clip it is about to add, or NoClip
  refresh,      \* a refresh of the buttons is posted
  made, starts, \* counters
  echoed, deleted  \* history: clips sent on their own, clips the user has deleted

vars == <<buffer, cache, files, persistence, clipboard, lastClip, adding, arriving, refresh,
          made, starts, echoed, deleted>>

Init ==
  /\ buffer = <<>> /\ cache = {} /\ files = {} /\ persistence = {}
  /\ clipboard = "" /\ lastClip = "" /\ adding = <<>> /\ arriving = NoClip
  /\ refresh = FALSE /\ made = 0 /\ starts = 1
  /\ echoed = {} /\ deleted = {}

(* The buffer without the oldest clip if it holds too many; the file stays. *)
Evicted(b) == IF Len(b) > MaxClips THEN Tail(b) ELSE b

InBuffer(text) == \E i \in DOMAIN buffer : buffer[i].text = text

-----------------------------------------------------------------------------
Copy(text) ==
  /\ clipboard' = text
  /\ UNCHANGED <<buffer, cache, files, persistence, lastClip, adding, arriving, refresh, made,
                 starts, echoed, deleted>>

(* The poll's run, up to where ArrayList.add has read the size ... *)
PollFinds ==
  /\ adding = <<>> /\ clipboard # "" /\ made < MaxMade
  /\ ~InBuffer(clipboard) /\ clipboard # lastClip
  /\ made' = made + 1
  /\ adding' = <<[id |-> made + 1, text |-> clipboard, remote |-> FALSE], Len(buffer)>>
  /\ UNCHANGED <<buffer, cache, files, persistence, clipboard, lastClip, arriving, refresh,
                 starts, echoed, deleted>>

(* ... and from there.  What was added in between is lost.  (What was        *)
(* removed in between leaves a null in the list, which the buttons stumble   *)
(* over: the poll goes no further.)                                          *)
PollAdds ==
  /\ adding # <<>> /\ Len(buffer) >= adding[2]
  /\ buffer' = Evicted(Append(SubSeq(buffer, 1, adding[2]), adding[1]))
  /\ lastClip' = adding[1].text
  /\ adding' = <<>> /\ refresh' = TRUE
  /\ UNCHANGED <<cache, files, persistence, clipboard, arriving, made, starts, echoed, deleted>>

ArriveUncached(text) ==  \* mutant: forgets remoteContentCache.add
  /\ arriving = NoClip /\ made < MaxMade /\ made' = made + 1
  /\ arriving' = [id |-> made + 1, text |-> text, remote |-> TRUE]
  /\ UNCHANGED <<buffer, cache, files, persistence, clipboard, lastClip, adding, refresh, starts, echoed, deleted>>

(* notify(ContentNotification): the description goes into the cache ... *)
Arrive(text) ==
  /\ arriving = NoClip /\ made < MaxMade /\ made' = made + 1
  /\ arriving' = [id |-> made + 1, text |-> text, remote |-> TRUE]
  /\ cache' = cache \cup {text}
  /\ UNCHANGED <<buffer, files, persistence, clipboard, lastClip, adding, refresh, starts, echoed, deleted>>

(* ... and the clip into the buffer. *)
ArrivedAdds ==
  /\ arriving # NoClip
  /\ buffer' = Evicted(Append(buffer, arriving))
  /\ arriving' = NoClip /\ refresh' = TRUE
  /\ UNCHANGED <<cache, files, persistence, clipboard, lastClip, adding, made, starts, echoed, deleted>>

-----------------------------------------------------------------------------
(* ClipObserver's run: clips not seen before are written to disk and sent    *)
(* to the server, unless they came from there.                               *)
Refresh ==
  /\ refresh /\ refresh' = FALSE
  /\ LET new == {c \in Range(buffer) : c \notin persistence} IN
       /\ files' = files \cup new
       /\ persistence' = persistence \cup new
       /\ echoed' = echoed \cup {c \in new : c.text \notin cache}
  /\ UNCHANGED <<buffer, cache, clipboard, lastClip, adding, arriving, made, starts, deleted>>

(* The delete button of a clip it shows, evicted since or not: dispose takes *)
(* the first in the list that is this clip.                                  *)
Delete(c) ==
  /\ c \in persistence
  /\ \/ c \notin Range(buffer) /\ UNCHANGED buffer
     \/ \E i \in DOMAIN buffer :
          /\ buffer[i] = c /\ \A j \in 1..(i - 1) : buffer[j] # c
          /\ buffer' = RemoveAt(buffer, i)
  /\ files' = files \ {c} /\ persistence' = persistence \ {c}
  /\ deleted' = deleted \cup {c} /\ refresh' = TRUE
  /\ UNCHANGED <<cache, clipboard, lastClip, adding, arriving, made, starts, echoed>>

(* The process ends at any point and the application is started again:       *)
(* deserializePersistedClips finds the files, in some order.                 *)
Restart ==
  /\ starts < MaxStarts /\ starts' = starts + 1
  /\ \E order \in SetToSeqs(files) :
       buffer' = SubSeq(order, IF Len(order) > MaxClips THEN Len(order) - MaxClips + 1 ELSE 1, Len(order))
  /\ persistence' = files
  /\ cache' = {} /\ lastClip' = "" /\ adding' = <<>> /\ arriving' = NoClip
  /\ refresh' = (files # {})
  /\ UNCHANGED <<files, clipboard, made, echoed, deleted>>

Next ==
  \/ \E text \in Texts : Copy(text) \/ Arrive(text)
  \/ PollFinds \/ PollAdds \/ ArrivedAdds \/ Refresh \/ Restart
  \/ \E c \in Clips : Delete(c)

Spec == Init /\ [][Next]_vars

-----------------------------------------------------------------------------
(* No clip that came from the server is sent back to it on the client's own  *)
(* account, across restarts and whatever the other threads do.               *)
RemoteNotEchoed == \A c \in echoed : ~c.remote

(* A clip the user has deleted is neither on disk nor in the buffer again,   *)
(* after a restart or otherwise.                                             *)
DeletedStaysDeleted == deleted \cap (files \cup Range(buffer)) = {}
=============================================================================
