---------------------------- MODULE EncodeStream -----------------------------
(***************************************************************************)
(* main() of nvenc.cpp: reads the header of a video as main() of y4m.cpp   *)
(* does, sets the encoder up, then reads, copies, encodes and writes a     *)
(* frame at a time and drops some of the packets on purpose.               *)
(* The header is a literal and four fields in a fixed order, two more if   *)
(* the next character says so, each read by an operator>> that does nothing*)
(* once the stream has failed.  Of the frames, five characters of "FRAME"  *)
(* and those of its parameters count as one.  The driver is external: a    *)
(* call of it may fail, and most failures are only logged.                 *)
(* Beside main() the file has classes that own what the driver hands out: a*)
(* session, its buffers, the locks on them, the encoder.  They cannot be   *)
(* copied, so they are destroyed in the opposite order.  A constructor     *)
(* whose call fails logs it and makes an object whose destructor calls the *)
(* driver all the same.  After the session's end the driver refuses.       *)
(***************************************************************************)
EXTENDS Naturals, Sequences, SequencesExt, FiniteSets

CONSTANTS Values,       \* of a field of the header: "bad", "zero", "known"
          ImageSize,    \* characters of an image
          MaxFrames,    \* frames of a file
          MaxUnits,     \* packets of a frame
          MaxBurst,     \* packets lost in a row
          MaxObjects    \* objects of the classes alive at a time

(* A field of the header: a letter, and a value that is malformed, zero or   *)
(* of a known kind.                                                          *)
Letters == {"Y", "W", "F", "I", "A", "C", "X"}
Order == <<"Y", "W", "F", "I", "A", "C", "X">>
Fields == Letters \X Values
Missing == <<"end", "bad">>

HeaderStage == 3
Stages == <<"input file", "output file", "header", "library", "device", "context", "functions",
            "hevc", "capabilities", "input formats">>

(* Frame n of a file, whose first line may have parameters. *)
Word == 1
Space == 2
Parameters == 3
EndOfLine == 4
Image(n) == [k \in 1..ImageSize |-> 10 * n + k]
EmptyImage == [k \in 1..ImageSize |-> 0]
FrameText(n, parameters) ==
  (IF parameters THEN <<Word, Space, Parameters, EndOfLine>> ELSE <<Word, EndOfLine>>) \o Image(n)
Files == UNION {[1..n -> BOOLEAN] : n \in 0..MaxFrames}

(* A lock is taken on a buffer. *)
Parents == {"HostFrameBuffer", "DeviceFrameBuffer", "EncodeBuffer"}
Locks == [HostLock |-> "HostFrameBuffer", DeviceLock |-> "DeviceFrameBuffer",
          HostReadLock |-> "EncodeBuffer"]

(* What the constructor of a class asks the driver for, in that order, and   *)
(* its destructor gives back.                                                *)
Session == <<"session">>
HostFrameBuffer == <<"input buffer">>
HostLock == <<"locked input">>
DeviceFrameBuffer == <<>>
DeviceLock == <<"registered", "mapped">>
EncodeBuffer == <<"bitstream">>
HostReadLock == <<"locked bitstream">>
Encoder == <<"session">>     \* nvEncDestroyEncoder, of the session it was given
Asked(class) ==
  CASE class = "Session" -> Session                  [] class = "HostFrameBuffer" -> HostFrameBuffer
    [] class = "HostLock" -> HostLock                [] class = "DeviceFrameBuffer" -> DeviceFrameBuffer
    [] class = "DeviceLock" -> DeviceLock            [] class = "EncodeBuffer" -> EncodeBuffer
    [] class = "HostReadLock" -> HostReadLock        [] class = "Encoder" -> Encoder

VARIABLES
  user,         \* who uses the driver: main(), or what is made of the classes
  file,         \* for each frame of the input: does it have parameters
  stream, good, \* what is left of the frames; the state of the stream
  header,       \* the fields that have been read
  peek,         \* the next one of the file, or Missing
  field,        \* the index in Order of the operator that is called next
  interlacing,  \* is it set
  seconds,      \* of framerate
  stage,        \* of the set-up
  at,           \* the next call
  image,        \* frame.image
  locked,       \* input buffer and bitstream, if locked
  failures,     \* calls of the driver that failed
  units,        \* of the bitstream: the packets that were zeroed are FALSE
  next_unit,
  packets_lost, zeroed, frames_total,
  cut,          \* a burst was longer than what was left of the frame
  encoded,      \* images, in the order they were encoded
  objects,      \* those alive, in the order they were made: class, parent, what the driver gave
  open,         \* the session, by the driver
  given,        \* what the driver has given and not got back: <<object's index, what>>
  refused,      \* what was given back to no avail
  aborted       \* a CHECK failed

headerVars == <<header, peek, field, interlacing, seconds>>
driverVars == <<image, locked, failures, units, next_unit, packets_lost, zeroed, frames_total,
                cut, encoded>>
mainVars == <<file, stream, good, headerVars, stage, at, driverVars>>
objectVars == <<objects, open, given, refused, aborted>>
vars == <<user, mainVars, objectVars>>

Init ==
  /\ user \in {"main", "classes"}
  /\ objects = <<>> /\ open = FALSE /\ given = {} /\ refused = {} /\ aborted = FALSE
  /\ file = <<>> /\ stream = <<>> /\ good = TRUE
  /\ header = <<>> /\ peek \in Fields \cup {Missing} /\ field = 1
  /\ interlacing = FALSE /\ seconds = "one"
  /\ stage = 1 /\ at = "set up"
  /\ image = EmptyImage
  /\ locked = {} /\ failures = {} /\ units = <<>> /\ next_unit = 1
  /\ packets_lost = 0 /\ zeroed = 0 /\ cut = FALSE /\ frames_total = 0 /\ encoded = <<>>

-----------------------------------------------------------------------------
(* What makes the operator of a letter set failbit: Literal, or the number,  *)
(* or a color space it does not know; an interlacing it does not know does   *)
(* not, and every text is a comment.                                         *)
Literal(letter) == peek[1] = letter
Malformed(letter) == letter \in {"Y", "W", "F", "A", "C"} /\ peek[2] = "bad"
Fails(letter) == ~Literal(letter) \/ Malformed(letter)

InHeader == at = "set up" /\ stage = HeaderStage

Read ==
  LET letter == Order[field]
  IN  /\ InHeader /\ field <= Len(Order)
      /\ (field \in {6, 7} => good /\ peek[1] = letter)
      /\ good' = (good /\ ~Fails(letter))
      /\ IF good /\ peek # Missing
         THEN header' = Append(header, peek) /\ peek' \in Fields \cup {Missing}
         ELSE UNCHANGED <<header, peek>>
      /\ interlacing' = IF letter = "I" THEN good' /\ peek[2] = "known" ELSE interlacing
      /\ seconds' = IF letter # "F" \/ ~good THEN seconds
                    ELSE IF Fails(letter) \/ peek[2] = "zero" THEN "zero" ELSE "positive"
      /\ field' = field + 1
      /\ UNCHANGED <<file, stream, stage, at, driverVars>>

(* peek_next_char sees something else, or a stream that has failed.          *)
Skip ==
  /\ InHeader /\ field \in {6, 7} /\ ~(good /\ peek[1] = Order[field])
  /\ field' = field + 1
  /\ UNCHANGED <<file, stream, good, header, peek, interlacing, seconds, stage, at, driverVars>>

CheckRateOnly ==  \* mutant: does not look at the stream
  /\ InHeader /\ field > Len(Order)
  /\ at' = IF seconds = "zero" THEN "divided by zero" ELSE "header read"
  /\ UNCHANGED <<file, stream, good, headerVars, stage, driverVars>>

(* if (!video_y4m) return -1; else the frames per second are logged.         *)
Check ==
  /\ InHeader /\ field > Len(Order)
  /\ at' = IF ~good THEN "returned"
           ELSE IF seconds = "zero" THEN "divided by zero" ELSE "header read"
  /\ UNCHANGED <<file, stream, good, headerVars, stage, driverVars>>

(* Nothing of the header is used again.  What follows it is chosen here, as  *)
(* each field was when the one before it had been read.                      *)
HeaderDone ==
  /\ at = "header read" /\ at' = "set up" /\ stage' = stage + 1
  /\ file' \in Files
  /\ stream' = FlattenSeq([n \in DOMAIN file' |-> FrameText(n, file'[n])])
  /\ header' = <<>> /\ peek' = Missing /\ interlacing' = FALSE /\ seconds' = "one"
  /\ UNCHANGED <<good, field, driverVars>>

-----------------------------------------------------------------------------
(* A stage that fails returns -1; the three calls after them only log.       *)
SetUp ==
  /\ at = "set up" /\ stage # HeaderStage /\ stage <= Len(Stages)
  /\ \/ at' = "returned" /\ UNCHANGED stage
     \/ stage' = stage + 1 /\ UNCHANGED at
  /\ UNCHANGED <<file, stream, good, headerVars, driverVars>>
Create ==
  /\ at = "set up" /\ stage > Len(Stages)
  /\ failures' \in SUBSET {"initialize", "input buffer", "bitstream buffer"}
  /\ at' = "loop"
  /\ UNCHANGED <<file, stream, good, headerVars, stage, image, locked, units, next_unit,
                 packets_lost, zeroed, cut, frames_total, encoded>>

(* operator>>(istream&, Frame&): the literal, then the parameters, which do  *)
(* not take the end of their line along, or the end of the line, and the     *)
(* image.  Once the stream has failed nothing is read.                       *)
Blank(c) == c \in {Space, EndOfLine}
SkipBlanks(s) == IF s # <<>> /\ Blank(Head(s)) THEN Tail(s) ELSE s
ReadFrame ==
  LET word == SkipBlanks(stream)
      rest == IF word # <<>> /\ Head(word) = Word THEN Tail(word) ELSE <<>>
      data == IF rest # <<>> /\ Head(rest) = Space THEN SubSeq(rest, 3, Len(rest))
              ELSE IF rest # <<>> THEN Tail(rest) ELSE rest
  IN  /\ at = "loop" /\ good
      /\ IF Len(data) >= ImageSize
         THEN /\ image' = SubSeq(data, 1, ImageSize)
              /\ stream' = SubSeq(data, ImageSize + 1, Len(data)) /\ UNCHANGED good
         ELSE good' = FALSE /\ stream' = <<>> /\ UNCHANGED image
      /\ at' = "copy"
      /\ UNCHANGED <<file, headerVars, stage, locked, failures, units, next_unit, packets_lost,
                     zeroed, cut, frames_total, encoded>>

(* nvEncLockInputBuffer, the three planes, nvEncUnlockInputBuffer.  Without  *)
(* the lock they are copied to a null pointer.                               *)
CopyIn ==
  /\ at = "copy"
  /\ \/ at' = "crashed" /\ failures' = failures \cup {"lock"} /\ UNCHANGED locked
     \/ /\ "input buffer" \notin failures /\ at' = "encode"
        /\ \/ UNCHANGED <<locked, failures>>
           \/ locked' = locked \cup {"input"} /\ failures' = failures \cup {"unlock"}
  /\ UNCHANGED <<file, stream, good, headerVars, stage, image, units, next_unit, packets_lost,
                 zeroed, cut, frames_total, encoded>>

(* A bitstream consists of its units, of which none has been zeroed.         *)
nal_parse_units == {[i \in 1..n |-> TRUE] : n \in 1..MaxUnits}

(* nvEncEncodePicture and nvEncLockBitstream: a bitstream that could not be  *)
(* locked is parsed as an empty one.                                         *)
Encode ==
  /\ at = "encode"
  /\ \/ failures' = failures \cup {"encode"} /\ UNCHANGED <<units, encoded, locked>>
     \/ /\ locked = {} /\ {"initialize", "bitstream buffer"} \cap failures = {}
        /\ encoded' = Append(encoded, image)
        /\ \/ failures' = failures \cup {"lock"} /\ UNCHANGED <<units, locked>>
           \/ /\ locked' = {"output"} /\ UNCHANGED failures
              /\ units' \in nal_parse_units
  /\ next_unit' = 1 /\ at' = "lose"
  /\ UNCHANGED <<file, stream, good, headerVars, stage, image, packets_lost, zeroed, cut,
                 frames_total>>

(* One round of the outer loop: a burst is counted as it was drawn, however  *)
(* few packets are left, and none is drawn for the packet behind it.         *)
Lose ==
  /\ at = "lose" /\ next_unit <= Len(units)
  /\ \E burst \in 0..MaxBurst :
       LET left == Len(units) + 1 - next_unit
           lost == IF burst < left THEN burst ELSE left
       IN  /\ packets_lost' = packets_lost + burst /\ zeroed' = zeroed + lost
           /\ units' = [i \in DOMAIN units |-> units[i] /\ i \notin next_unit..(next_unit + lost - 1)]
           /\ next_unit' = next_unit + lost + 1
           /\ cut' = (cut \/ burst > left)
  /\ UNCHANGED <<file, stream, good, headerVars, stage, at, image, locked, failures,
                 frames_total, encoded>>

WriteLocked ==  \* mutant: does not unlock the bitstream
  /\ at = "lose" /\ next_unit > Len(units)
  /\ UNCHANGED <<locked, failures>>
  /\ frames_total' = frames_total + 1 /\ at' = "loop" /\ units' = <<>>
  /\ UNCHANGED <<file, stream, good, headerVars, stage, image, next_unit, packets_lost, zeroed,
                 cut, encoded>>

(* write, nvEncUnlockBitstream *)
Write ==
  /\ at = "lose" /\ next_unit > Len(units)
  /\ \/ locked' = locked \ {"output"} /\ UNCHANGED failures
     \/ failures' = failures \cup {"unlock"} /\ UNCHANGED locked
  /\ frames_total' = frames_total + 1 /\ at' = "loop" /\ units' = <<>>
  /\ UNCHANGED <<file, stream, good, headerVars, stage, image, next_unit, packets_lost, zeroed,
                 cut, encoded>>

(* Destroys the buffers and the encoder. *)
TearDown ==
  /\ at = "loop" /\ ~good /\ at' = "destroyed"
  /\ UNCHANGED <<file, stream, good, headerVars, stage, image, locked, failures, units, next_unit,
                 packets_lost, zeroed, cut, frames_total, encoded>>

-----------------------------------------------------------------------------
Runs == ~aborted /\ Len(objects) < MaxObjects
Push(class, parent, n) ==
  objects' = Append(objects, [class |-> class, parent |-> parent, got |-> SubSeq(Asked(class), 1, n)])

MakeSession(n) ==
  /\ Runs /\ objects = <<>> /\ given = {}
  /\ Push("Session", 0, n) /\ open' = (n = 1)
  /\ UNCHANGED <<given, refused, aborted>>

(* DeviceFrameBuffer checks that there is a session. *)
MakeParent(class, n) ==
  /\ Runs /\ objects # <<>>
  /\ n > 0 => open
  /\ IF class = "DeviceFrameBuffer" /\ objects[1].got = <<>>
     THEN aborted' = TRUE /\ UNCHANGED <<objects, given>>
     ELSE /\ Push(class, 0, n) /\ UNCHANGED aborted
          /\ given' = given \cup {<<Len(objects) + 1, x>> : x \in ToSet(SubSeq(Asked(class), 1, n))}
  /\ UNCHANGED <<open, refused>>

(* A lock returns after the first call that fails.                           *)
MakeLock(class, p, n) ==
  /\ Runs /\ objects[p].class = Locks[class]
  /\ n > 0 => open /\ objects[p].got = Asked(Locks[class])
  /\ \A i \in DOMAIN objects : objects[i].parent # p
  /\ Push(class, p, n)
  /\ given' = given \cup {<<Len(objects) + 1, x>> : x \in ToSet(SubSeq(Asked(class), 1, n))}
  /\ UNCHANGED <<open, refused, aborted>>

MakeEncoder ==
  /\ Runs /\ objects # <<>>
  /\ \A i \in DOMAIN objects : objects[i].class # "Encoder"
  /\ Push("Encoder", 0, Len(objects[1].got))
  /\ UNCHANGED <<open, given, refused, aborted>>

DestroyHolding ==  \* mutant: nothing but a session is given back
  /\ ~aborted /\ objects # <<>>
  /\ objects' = Front(objects) /\ open' = (open /\ Last(objects).class \notin {"Session", "Encoder"})
  /\ UNCHANGED <<given, refused, aborted>>

(* The youngest object's destructor gives everything back that its class asks*)
(* for, what it did not get as well.                                         *)
Destroy ==
  LET o == Last(objects)
      mine == {<<Len(objects), x>> : x \in ToSet(Asked(o.class))}
      closes == o.class \in {"Session", "Encoder"}
  IN  /\ ~aborted /\ objects # <<>>
      /\ objects' = Front(objects)
      /\ open' = (open /\ ~closes)
      /\ given' = IF open THEN given \ mine ELSE given
      /\ refused' = refused \cup (IF ~open THEN {<<o.class, x>> : x \in ToSet(Asked(o.class))}
                                  ELSE IF closes THEN {}
                                  ELSE {<<o.class, x[2]>> : x \in mine \ given})
      /\ UNCHANGED aborted

Main ==
  \/ Read \/ Skip \/ Check \/ HeaderDone
  \/ SetUp \/ Create \/ ReadFrame \/ CopyIn \/ Encode \/ Lose \/ Write \/ TearDown
Classes ==
  \/ Destroy \/ MakeEncoder
  \/ \E n \in 0..2 :
       \/ n <= 1 /\ MakeSession(n)
       \/ \E c \in Parents : n <= Len(Asked(c)) /\ MakeParent(c, n)
       \/ \E c \in DOMAIN Locks, p \in DOMAIN objects : n <= Len(Asked(c)) /\ MakeLock(c, p, n)

Next ==
  \/ user = "main" /\ Main /\ UNCHANGED <<user, objectVars>>
  \/ user = "classes" /\ Classes /\ UNCHANGED <<user, mainVars>>

Spec == Init /\ [][Next]_vars

-----------------------------------------------------------------------------
(* What follows the header is reached only behind one whose fields come in   *)
(* the order of main(), each well-formed, the comment last: what comes in    *)
(* any other order is refused or left to the first frame.  Such a header     *)
(* whose rate is over zero seconds divides by zero; one whose interlacing is *)
(* unknown is accepted with no interlacing set.                              *)
HeadersInOrder ==
  at \in {"header read", "divided by zero"} =>
    /\ IsPrefix(<<"Y", "W", "F", "I", "A">>, [i \in DOMAIN header |-> header[i][1]])
    /\ \A i \in 1..5 : i # 4 => header[i][2] # "bad"
    /\ at = "divided by zero" <=> header[3][2] = "zero"
    /\ interlacing <=> header[4][2] = "known"
    /\ header # <<>> /\ peek[1] = "X" => Last(header)[1] = "X"

(* If the driver does what it is asked to, every frame is encoded once and   *)
(* the last one, or the empty image if there is none, once more: the loop    *)
(* looks at the stream before it reads.  A frame with parameters is encoded  *)
(* shifted by the end of its line, twice, and ends the stream.               *)
Plain == {n \in 0..Len(file) : \A k \in 1..n : ~file[k]}
FramesAreEncoded ==
  at = "destroyed" /\ failures = {} =>
    LET n == Len(SelectSeq([k \in DOMAIN file |-> k \in Plain], LAMBDA b : b))
        last == IF n < Len(file) THEN <<EndOfLine>> \o Front(Image(n + 1))
                ELSE IF n = 0 THEN EmptyImage ELSE Image(n)
        once == [k \in 1..n |-> Image(k)] \o (IF n < Len(file) THEN <<last>> ELSE <<>>)
    IN  encoded = Append(once, last) /\ frames_total = Len(encoded)

(* The packets that are zeroed are those that are counted as lost, unless a  *)
(* burst was longer than what was left of its frame; no two bursts meet; and *)
(* nothing is encoded while the input or the last bitstream is locked.       *)
LossIsCounted ==
  /\ cut <=> packets_lost # zeroed
  /\ \A i, j \in DOMAIN units : i + MaxBurst <= j => \E k \in i..j : units[k]
  /\ at # "lose" => locked \subseteq {"input", "output"} /\ (locked # {} => "unlock" \in failures)
  /\ frames_total < Len(encoded) => at = "lose"

(* Whichever call fails, while the session is open what the driver has given*)
(* belongs to an object that is alive.  It keeps something for good only if*)
(* an encoder, which is made last, has taken the session with it: the buffers*)
(* and locks are then given back to a session that has ended, and the      *)
(* session is ended a second time.                                         *)
GivenIsOwned ==
  /\ open => given = UNION {{<<i, x>> : x \in ToSet(objects[i].got) \ {"session"}} : i \in DOMAIN objects}
  /\ objects = <<>> /\ given # {} => <<"Session", "session">> \in refused
=============================================================================
