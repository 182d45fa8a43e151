----------------------------- MODULE GapControl ------------------------------
(***************************************************************************)
(* GapControl of gapcontrol.cpp gives the packets of a stream new sequence *)
(* numbers, without gaps for those it discards and with gaps for those that*)
(* were lost, and remembers in two maps which number became which.  The    *)
(* operations come in the order of a unit test, or, in a stream, in any    *)
(* order; a stream has narrower numbers and smaller maps than the code.    *)
(***************************************************************************)
EXTENDS Naturals, Sequences, Functions, SequencesExt

CONSTANTS Streams,     \* first numbers, width of numbers and size of the maps of a stream
          MaxEvents    \* bound on the operations of a stream

-----------------------------------------------------------------------------
(* The unit tests: the packets that pass and the number each is to get, those*)
(* that are discarded, and the packets of the server's own.  Nothing is      *)
(* called for the packets that are lost.                                     *)
P(original, expected) == <<original, expected, "PASSED">>
D(original) == <<original, 0, "DISCARDED">>
C(expected) == <<0, expected, "CUSTOM">>
GapTest(incoming, outgoing, events) ==
  [incoming |-> incoming, outgoing |-> outgoing, events |-> events, modulus |-> 65536, size |-> 4096]

packetLossNone ==
  GapTest(5, 4, <<P(5, 4), P(6, 5), D(7), D(8), P(9, 6), P(10, 7), P(11, 8)>>)
packetLossSome ==
  GapTest(5, 4, <<P(5, 4), P(6, 5), P(9, 8), P(10, 9)>>)
packetLossBegining ==
  GapTest(7, 6, <<P(7, 6), D(10), D(11), P(12, 9)>>)
packetLossMiddle ==
  GapTest(6, 5, <<P(6, 5), D(7), D(9), P(10, 6)>>)
packetLossEnd ==
  GapTest(7, 6, <<P(7, 6), D(8), D(9), P(12, 9)>>)
packetLossBeginningMiddle ==
  GapTest(7, 6, <<P(7, 6), D(10), D(11), D(13), P(14, 9), P(15, 10)>>)
packetLossMiddleEnd ==
  GapTest(7, 6, <<P(7, 6), D(8), D(9), D(11), P(14, 9), P(15, 10)>>)
packetLossBeginningEnd ==
  GapTest(7, 6, <<P(7, 6), D(10), D(11), D(12), P(14, 10)>>)
packetLossBeginningMiddleEnd ==
  GapTest(7, 6, <<P(7, 6), D(10), D(11), D(15), P(17, 10), P(18, 11)>>)
wrapAround1 ==
  GapTest(65533, 65533, <<P(65533, 65533), P(65535, 65535), P(1, 1)>>)
wrapAround2 ==
  GapTest(65535, 65535, <<P(65535, 65535), D(0), D(1), D(2), P(3, 0)>>)
lateArrivalNoLosses ==
  GapTest(0, 0, <<P(1, 0), P(2, 1), P(4, 3), P(5, 4), P(3, 2)>>)
lateArrivalPacketsDiscarded ==
  GapTest(0, 0, <<P(1, 0), P(2, 1), D(4), P(5, 3), P(3, 2)>>)
customPacket1 ==
  GapTest(5, 6, <<P(5, 6), P(6, 7), C(8), C(9), P(7, 10)>>)
customPacketDiscardedBefore ==
  GapTest(5, 6, <<P(5, 6), D(6), C(7), C(8), P(7, 9)>>)
customPacketDiscardedAfter ==
  GapTest(5, 6, <<P(5, 6), P(6, 7), C(8), C(9), D(7), P(8, 10)>>)
customPacketDiscardedBeforeAndAfter ==
  GapTest(5, 6, <<P(5, 6), P(6, 7), D(7), D(8), C(8), C(9), D(9), D(10)>>)
customPacketDiscardedInterleaved ==
  GapTest(5, 6, <<P(5, 6), P(6, 7), C(8), D(7), D(8), C(9), D(9), C(10), P(10, 11)>>)

UnitTests ==
  {packetLossNone, packetLossSome, packetLossBegining, packetLossMiddle, packetLossEnd,
   packetLossBeginningMiddle, packetLossMiddleEnd, packetLossBeginningEnd,
   packetLossBeginningMiddleEnd, wrapAround1, wrapAround2, lateArrivalNoLosses,
   lateArrivalPacketsDiscarded, customPacket1, customPacketDiscardedBefore,
   customPacketDiscardedAfter, customPacketDiscardedBeforeAndAfter,
   customPacketDiscardedInterleaved}

-----------------------------------------------------------------------------
VARIABLES
  incoming_, outgoing_, state_,
  incomingmap_, outgoingmap_,   \* index -> entry, for the valid ones
  test,       \* the test that is run, or a stream
  position,   \* its next event
  late,       \* a packet came after a later one had been seen, and was not in the map
  passed      \* no assertion of the test has failed

vars == <<incoming_, outgoing_, state_, incomingmap_, outgoingmap_, test, position, late, passed>>

Modulus == test.modulus
MapSize == test.size
Wrap(n) == n % Modulus
Back(n, m) == Wrap(n + Modulus - m)     \* the uint16_t n - m
Entry(i, o, d) == [incoming |-> i, outgoing |-> o, discarded |-> d]
Put(map, n, e) == (n % MapSize :> e) @@ map

Init ==
  /\ test \in UnitTests \cup Streams
  /\ incoming_ = test.incoming /\ outgoing_ = test.outgoing
  /\ state_ = "initial" /\ position = 1
  /\ incomingmap_ = <<>> /\ outgoingmap_ = <<>>
  /\ late = FALSE /\ passed = TRUE

Control == [incoming |-> incoming_, outgoing |-> outgoing_,
            in |-> incomingmap_, out |-> outgoingmap_]

-----------------------------------------------------------------------------
(* The loops of translate, discard and inject, n times.                      *)
TranslateLoop(c, n) ==
  LET step(k) == Entry(Wrap(c.incoming + k), Wrap(c.outgoing + k), FALSE)
  IN  [incoming |-> Wrap(c.incoming + n), outgoing |-> Wrap(c.outgoing + n),
       in  |-> FoldLeft(LAMBDA m, k : Put(m, step(k - 1).incoming, step(k - 1)), c.in, [k \in 1..n |-> k]),
       out |-> FoldLeft(LAMBDA m, k : Put(m, step(k - 1).outgoing, step(k - 1)), c.out, [k \in 1..n |-> k])]
DiscardLoop(c, n) ==
  [c EXCEPT !.incoming = Wrap(c.incoming + n),
            !.in = FoldLeft(LAMBDA m, k : LET i == Wrap(c.incoming + k - 1) IN Put(m, i, Entry(i, 0, TRUE)),
                                  @, [k \in 1..n |-> k])]
InjectOne(c) ==
  [c EXCEPT !.outgoing = Wrap(@ + 1), !.out = Put(@, c.outgoing, Entry(0, c.outgoing, FALSE))]

(* translate takes the first number it sees for the one that is expected.    *)
Backfill(c, i) == Wrap(Back(i, c.incoming) + 1)
Translate(c, s, i) ==
  LET from == IF s = "initial" THEN [c EXCEPT !.incoming = i] ELSE c
  IN  TranslateLoop(from, Backfill(from, i))
(* discard: the packets lost in front of the first one discarded were to pass *)
DiscardAll(c, s, i) ==  \* mutant: discards the lost packets as well
  DiscardLoop(c, Backfill(c, i))
Discard(c, s, i) ==
  LET from == IF s = "translate" THEN TranslateLoop(c, Backfill(c, Back(i, 1))) ELSE c
  IN  DiscardLoop(from, Backfill(from, i))
ContainsIn(c, n)  == n % MapSize \in DOMAIN c.in /\ c.in[n % MapSize].incoming = n
ContainsOut(c, n) == n % MapSize \in DOMAIN c.out /\ c.out[n % MapSize].outgoing = n
LookupIn(c, n)  == c.in[n % MapSize]
LookupOut(c, n) == c.out[n % MapSize]

Set(c) ==
  /\ incoming_' = c.incoming /\ outgoing_' = c.outgoing
  /\ incomingmap_' = c.in /\ outgoingmap_' = c.out

-----------------------------------------------------------------------------
(* execute: the assertions of the simulation at an event <<original,         *)
(* expected, type>>, and those that hold at the end.                         *)
PassedHolds(c, e) ==
  /\ ContainsIn(c, e[1]) /\ LookupIn(c, e[1]) = Entry(e[1], e[2], FALSE)
  /\ ContainsOut(c, e[2]) /\ LookupOut(c, e[2]) = Entry(e[1], e[2], FALSE)
DiscardedHolds(c, e) == ContainsIn(c, e[1]) /\ LookupIn(c, e[1]).discarded
CustomHolds(c, e) == ContainsOut(c, e[2]) /\ ~LookupOut(c, e[2]).discarded

AtTheEnd(c) ==
  \A i \in DOMAIN test.events :
    LET e == test.events[i]
    IN  /\ e[3] = "PASSED" => PassedHolds(c, e)
        /\ e[3] = "DISCARDED" => DiscardedHolds(c, e)

Event ==
  LET e == test.events[position]
      c == CASE e[3] = "PASSED" /\ ~ContainsIn(Control, e[1]) -> Translate(Control, state_, e[1])
             [] e[3] = "DISCARDED" -> Discard(Control, state_, e[1])
             [] e[3] = "CUSTOM" /\ ~ContainsIn(Control, e[1]) -> InjectOne(Control)
             [] OTHER -> Control
  IN  /\ test \in UnitTests /\ position <= Len(test.events)
      /\ Set(c)
      /\ state_' = CASE e[3] = "PASSED" /\ ~ContainsIn(Control, e[1]) -> "translate"
                     [] e[3] = "DISCARDED" -> "discard"
                     [] e[3] = "CUSTOM" /\ ~ContainsIn(Control, e[1]) -> "inject"
                     [] OTHER -> state_
      /\ passed' = ( /\ passed
                     /\ e[3] = "PASSED" => PassedHolds(c, e)
                     /\ e[3] = "DISCARDED" => DiscardedHolds(c, e)
                     /\ e[3] = "CUSTOM" => CustomHolds(c, e)
                     /\ position = Len(test.events) => AtTheEnd(c) )
      /\ position' = position + 1
      /\ UNCHANGED <<test, late>>

-----------------------------------------------------------------------------
(* A stream: its user looks a number up before translate, as execute does.   *)
Streaming == test \in Streams /\ position <= MaxEvents
Behind(i) == Backfill(Control, i) > Modulus \div 2

StreamTranslate(i) ==
  /\ Streaming /\ ~ContainsIn(Control, i)
  /\ Set(Translate(Control, state_, i)) /\ state_' = "translate"
  /\ late' = (late \/ (state_ # "initial" /\ Behind(i))) /\ position' = position + 1
  /\ UNCHANGED <<test, passed>>
StreamDiscard(i) ==
  /\ Streaming /\ ~ContainsIn(Control, i)
  /\ Set(Discard(Control, state_, i)) /\ state_' = "discard"
  /\ late' = (late \/ Behind(i)) /\ position' = position + 1
  /\ UNCHANGED <<test, passed>>
StreamInject ==
  /\ Streaming
  /\ Set(InjectOne(Control)) /\ state_' = "inject"
  /\ position' = position + 1
  /\ UNCHANGED <<test, late, passed>>

Next ==
  \/ Event \/ StreamInject
  \/ Streaming /\ \E i \in 0..(Modulus - 1) : StreamTranslate(i) \/ StreamDiscard(i)

Spec == Init /\ [][Next]_vars

-----------------------------------------------------------------------------
(* The unit tests pass.                                                      *)
TestsPass == passed

(* Unless a packet comes late: the packets that passed keep their order, no  *)
(* number is given twice, and what is looked up by the old number is looked  *)
(* up by the new one, until the map has come round.                          *)
NumbersKeepTheirOrder ==
  ~late =>
    \A i \in DOMAIN incomingmap_ :
      LET e == incomingmap_[i]
          Age(n) == Back(incoming_, n)
          NewAge(o) == Back(outgoing_, o)
      IN  ~e.discarded =>
            /\ NewAge(e.outgoing) <= MapSize => outgoingmap_[e.outgoing % MapSize] = e
            /\ \A j \in DOMAIN incomingmap_ :
                 LET f == incomingmap_[j]
                 IN  ~f.discarded /\ Age(f.incoming) < Age(e.incoming) => NewAge(f.outgoing) < NewAge(e.outgoing)
=============================================================================
