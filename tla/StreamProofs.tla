---------------------------- MODULE StreamProofs ----------------------------
(***************************************************************************)
(* What others have given or told is followed: sockets report what the     *)
(* system answered, an encoder gives back what the driver gave it, the     *)
(* messages on a connection stay whole, the test client's answers are the  *)
(* content it was asked for, and the input of a window follows its focus.  *)
(* The parts of MCClipServer, each with its inductive invariant, and the   *)
(* composition that plays them.                                            *)
(***************************************************************************)
EXTENDS MCClipServer, Functions, FiniteSetTheorems, SequenceTheorems, WellFoundedInduction, TLAPS

-----------------------------------------------------------------------------
(* Sets of numbers that are not empty have a least one, and a greatest one if *)
(* they have a bound.                                                         *)
LEMMA SomeIsLeast ==
  ASSUME NEW S, S \subseteq Nat, S # {}
  PROVE  \E x \in S : \A y \in S : x <= y
<1>1. PICK x \in S : \A y \in S : <<y, x>> \notin OpToRel(<, Nat)
  BY WFMin, NatLessThanWellFounded, Zenon
<1>2. \A y \in S : ~ (y < x)
  BY <1>1, Zenon DEF OpToRel
<1> QED BY <1>2

LEMMA SomeIsGreatest ==
  ASSUME NEW n \in Nat, NEW S, S \subseteq 1..n, S # {}
  PROVE  \E x \in S : \A y \in S : y <= x
<1> DEFINE T == {n - x : x \in S}
<1>1. T \subseteq Nat /\ T # {}
  OBVIOUS
<1>2. PICK t \in T : \A u \in T : t <= u
  <2> HIDE DEF T
  <2> QED BY <1>1, SomeIsLeast
<1>3. PICK x \in S : t = n - x
  OBVIOUS
<1>4. \A y \in S : n - y \in T
  OBVIOUS
<1>5. \A y \in S : n - x <= n - y
  BY <1>2, <1>3, <1>4
<1> QED BY <1>3, <1>5

-----------------------------------------------------------------------------
(* A window: which of the events that wait tell of the focus.  In and Out are *)
(* their numbers, by what they tell.                                          *)
ToldIn(s) == {i \in DOMAIN s : s[i].type = "FocusIn"}
ToldOut(s) == {i \in DOMAIN s : s[i].type = "FocusOut"}
LastOf(In, Out, top) ==
  IF In \cup Out = {} THEN top = "focused" ELSE \E i \in In : \A j \in In \cup Out : j <= i
Alternate(In, Out) ==
  \A i, j \in In \cup Out : i < j =>
    /\ i \in In /\ j \in In => \E k \in i..j : k \in Out
    /\ i \in Out /\ j \in Out => \E k \in i..j : k \in In

WindowEvents ==
  [type : Input!MouseEvents \cup {"Close", "KeyPress", "KeyRelease", "FocusIn", "FocusOut"},
   key : InputKeys \cup {0}]

WindowTypeOK ==
  /\ in_focus_item \in BOOLEAN /\ in_has_focus_ \in BOOLEAN /\ in_posted \in Seq(WindowEvents)
  /\ in_top \in {"unfocused", "focused", "exit"}
  /\ in_auto_repeat \in BOOLEAN /\ in_global_auto_repeat \in BOOLEAN

FocusIsTold ==
  /\ in_top # "exit" =>
       LastOf(ToldIn(in_posted), ToldOut(in_posted), in_top) = in_has_focus_
  /\ Alternate(ToldIn(in_posted), ToldOut(in_posted))
MachineRests ==
  /\ in_global_auto_repeat => (in_auto_repeat <=> in_top # "focused")
  /\ in_top # "focused" => in_mouse = "waiting" /\ in_keyboard = "waiting"
WindowInv == WindowTypeOK /\ FocusIsTold /\ MachineRests

LEMMA WindowFollows == WindowInv => Input!InputFollowsFocus
<1> SUFFICES ASSUME WindowInv PROVE Input!InputFollowsFocus
  OBVIOUS
<1> DEFINE In == ToldIn(in_posted)
           Out == ToldOut(in_posted)
<1>1. Input!Told = In \cup Out
  BY DEF Input!Told, ToldIn, ToldOut
<1>2. Input!LastFocus = LastOf(In, Out, in_top)
  <2>1. (\E i \in Input!Told : in_posted[i].type = "FocusIn" /\ \A j \in Input!Told : j <= i)
        = (\E i \in In : \A j \in In \cup Out : j <= i)
    BY <1>1 DEF ToldIn, ToldOut
  <2> QED BY <1>1, <2>1, Zenon DEF Input!LastFocus, LastOf
<1>3. \A i, j \in DOMAIN in_posted :
       (i < j /\ in_posted[i].type \in {"FocusIn", "FocusOut"}
        /\ in_posted[j].type = in_posted[i].type) =>
         \E k \in i .. j : in_posted[k].type \in {"FocusIn", "FocusOut"} \ {in_posted[i].type}
  <2> SUFFICES ASSUME NEW i \in DOMAIN in_posted, NEW j \in DOMAIN in_posted, i < j,
                      in_posted[i].type \in {"FocusIn", "FocusOut"},
                      in_posted[j].type = in_posted[i].type
               PROVE  \E k \in i .. j :
                        in_posted[k].type \in {"FocusIn", "FocusOut"} \ {in_posted[i].type}
    BY Zenon
  <2>1. Alternate(In, Out)
    BY Zenon DEF WindowInv, FocusIsTold
  <2>2. CASE in_posted[i].type = "FocusIn"
    <3>1. i \in In /\ j \in In
      BY <2>2 DEF ToldIn
    <3>2. PICK k \in i .. j : k \in Out
      BY <2>1, <3>1, Zenon DEF Alternate
    <3>3. in_posted[k].type = "FocusOut"
      BY <3>2, Zenon DEF ToldOut
    <3> QED BY <2>2, <3>3
  <2>3. CASE in_posted[i].type = "FocusOut"
    <3>1. i \in Out /\ j \in Out
      BY <2>3 DEF ToldOut
    <3>2. PICK k \in i .. j : k \in In
      BY <2>1, <3>1, Zenon DEF Alternate
    <3>3. in_posted[k].type = "FocusIn"
      BY <3>2, Zenon DEF ToldIn
    <3> QED BY <2>3, <3>3
  <2> QED BY <2>2, <2>3
<1> QED BY <1>2, <1>3, Zenon DEF Input!InputFollowsFocus, WindowInv, FocusIsTold, MachineRests

Shift(n, S) == {i \in 1..n - 1 : i + 1 \in S}

(* The first event is taken: if it told of the focus, the machine is there.   *)
LEMMA ToldShift ==
  ASSUME NEW n \in Nat, n > 0, NEW In, In \subseteq 1..n, NEW Out, Out \subseteq 1..n,
         NEW b, NEW c, In \cap Out = {}, 1 \in In => c = "focused", 1 \in Out => c # "focused",
         1 \notin In \cup Out => (c = "focused" <=> b = "focused")
  PROVE  /\ LastOf(Shift(n, In), Shift(n, Out), c) <=> LastOf(In, Out, b)
         /\ Alternate(In, Out) => Alternate(Shift(n, In), Shift(n, Out))
<1> DEFINE In2 == {i \in 1..n - 1 : i + 1 \in In}
           Out2 == {i \in 1..n - 1 : i + 1 \in Out}
<1>1. \A i \in In2 \cup Out2 : i \in 1..n - 1 /\ i + 1 \in In \cup Out
  OBVIOUS
<1>2. \A i \in In \cup Out : i = 1 \/ (i > 1 /\ i - 1 \in In2 \cup Out2)
  OBVIOUS
<1>3. LastOf(In2, Out2, c) <=> LastOf(In, Out, b)
  <2>1. CASE In2 \cup Out2 = {}
    <3>1. \A i \in In \cup Out : i = 1
      BY <1>2, <2>1
    <3>2. LastOf(In2, Out2, c) <=> c = "focused"
      BY <2>1, Zenon DEF LastOf
    <3>3. CASE In \cup Out = {}
      <4>1. LastOf(In, Out, b) <=> b = "focused"
        BY <3>3, Zenon DEF LastOf
      <4> QED BY <3>2, <3>3, <4>1
    <3>4. CASE In \cup Out # {}
      <4>1. LastOf(In, Out, b) <=> (\E i \in In : \A j \in In \cup Out : j <= i)
        BY <3>4, Zenon DEF LastOf
      <4>2. 1 \in In \/ 1 \in Out
        BY <3>1, <3>4
      <4>3. (\E i \in In : \A j \in In \cup Out : j <= i) <=> 1 \in In
        <5>1. ASSUME NEW i \in In PROVE 1 \in In
          BY <3>1
        <5>2. ASSUME 1 \in In PROVE \A j \in In \cup Out : j <= 1
          BY <3>1
        <5> QED BY <5>1, <5>2
      <4>4. c = "focused" <=> 1 \in In
        <5>1. CASE 1 \in In
          BY <5>1
        <5>2. CASE 1 \in Out
          <6>1. 1 \notin In
            BY <5>2
          <6> QED BY <5>2, <6>1
        <5> QED BY <4>2, <5>1, <5>2
      <4> QED BY <3>2, <4>1, <4>3, <4>4, Zenon
    <3> QED BY <3>3, <3>4
  <2>2. CASE In2 \cup Out2 # {}
    <3>1. LastOf(In2, Out2, c) <=> (\E i \in In2 : \A j \in In2 \cup Out2 : j <= i)
      BY <2>2, Zenon DEF LastOf
    <3>2. In \cup Out # {}
      BY <1>1, <2>2
    <3>3. LastOf(In, Out, b) <=> (\E i \in In : \A j \in In \cup Out : j <= i)
      BY <3>2, Zenon DEF LastOf
    <3>4. ASSUME NEW i \in In2, \A j \in In2 \cup Out2 : j <= i
          PROVE  \E k \in In : \A j \in In \cup Out : j <= k
      <4>1. i + 1 \in In /\ i \in 1..n - 1
        OBVIOUS
      <4>2. \A j \in In \cup Out : j <= i + 1
        BY <1>2, <3>4, <4>1
      <4> QED BY <4>1, <4>2
    <3>5. ASSUME NEW i \in In, \A j \in In \cup Out : j <= i
          PROVE  \E k \in In2 : \A j \in In2 \cup Out2 : j <= k
      <4>1. PICK m \in In2 \cup Out2 : TRUE
        BY <2>2
      <4>2. m + 1 <= i /\ m >= 1 /\ i \in 1..n
        BY <1>1, <3>5, <4>1
      <4>3. i - 1 \in In2
        BY <4>2
      <4>4. \A j \in In2 \cup Out2 : j <= i - 1
        BY <1>1, <3>5, <4>2
      <4> QED BY <4>3, <4>4
    <3> QED BY <3>1, <3>3, <3>4, <3>5
  <2> QED BY <2>1, <2>2
<1>4. ASSUME Alternate(In, Out), NEW i \in In2 \cup Out2, NEW j \in In2 \cup Out2, i < j
      PROVE  /\ i \in In2 /\ j \in In2 => \E k \in i..j : k \in Out2
             /\ i \in Out2 /\ j \in Out2 => \E k \in i..j : k \in In2
  <2>1. i \in 1..n - 1 /\ j \in 1..n - 1
    OBVIOUS
  <2>2. /\ i + 1 \in In /\ j + 1 \in In => \E k \in i + 1 .. j + 1 : k \in Out
        /\ i + 1 \in Out /\ j + 1 \in Out => \E k \in i + 1 .. j + 1 : k \in In
    <3>1. i + 1 < j + 1
      BY <1>4, <2>1
    <3> QED BY <1>4, <1>1, <3>1 DEF Alternate
  <2>3. \A k \in i + 1 .. j + 1 : k - 1 \in i..j /\ k - 1 \in 1..n - 1 /\ (k - 1) + 1 = k
    BY <2>1
  <2>4. ASSUME i \in In2, j \in In2 PROVE \E k \in i..j : k \in Out2
    <3>1. PICK k \in i + 1 .. j + 1 : k \in Out
      BY <2>2, <2>4
    <3> QED BY <2>3, <3>1
  <2>5. ASSUME i \in Out2, j \in Out2 PROVE \E k \in i..j : k \in In2
    <3>1. PICK k \in i + 1 .. j + 1 : k \in In
      BY <2>2, <2>5
    <3> QED BY <2>3, <3>1
  <2> QED BY <2>4, <2>5
<1>5. Alternate(In, Out) => Alternate(In2, Out2)
  BY <1>4, Zenon DEF Alternate
<1> QED BY <1>3, <1>5, Zenon DEF Shift

(* The timer tells what was not told last. *)
LEMMA ToldGrow ==
  ASSUME NEW n \in Nat, NEW In, In \subseteq 1..n, NEW Out, Out \subseteq 1..n,
         NEW b, In \cap Out = {}, Alternate(In, Out)
  PROVE  /\ ~LastOf(In, Out, b) =>
              LastOf(In \cup {n + 1}, Out, b) /\ Alternate(In \cup {n + 1}, Out)
         /\ LastOf(In, Out, b) =>
              ~LastOf(In, Out \cup {n + 1}, b) /\ Alternate(In, Out \cup {n + 1})
<1> DEFINE m == n + 1
<1>1. m \notin In /\ m \notin Out /\ m \in Nat /\ \A j \in In \cup Out : j < m
  OBVIOUS
<1>2. LastOf(In \cup {m}, Out, b)
  BY <1>1 DEF LastOf
<1>3. ~LastOf(In, Out \cup {m}, b)
  <2>1. (\E i \in In : \A j \in In \cup (Out \cup {m}) : j <= i) = FALSE
    BY <1>1
  <2>2. In \cup (Out \cup {m}) # {}
    OBVIOUS
  <2> HIDE DEF m
  <2> QED BY <2>1, <2>2, Zenon DEF LastOf
<1>4. ASSUME ~LastOf(In, Out, b), In # {}
      PROVE  \E k \in Out : \A j \in In \cup Out : j <= k
  <2>1. PICK k \in In \cup Out : \A j \in In \cup Out : j <= k
    <3>1. In \cup Out \subseteq 1..n /\ In \cup Out # {}
      BY <1>4
    <3> HIDE DEF m
    <3> QED BY <3>1, SomeIsGreatest
  <2>2. k \notin In
    <3>1. In \cup Out # {}
      BY <1>4
    <3> QED BY <1>4, <2>1, <3>1, Zenon DEF LastOf
  <2> QED BY <2>1, <2>2
<1>5. ASSUME LastOf(In, Out, b), Out # {}
      PROVE  \E k \in In : \A j \in In \cup Out : j <= k
  <2>1. In \cup Out # {}
    BY <1>5
  <2> QED BY <1>5, <2>1, Zenon DEF LastOf
<1>6. ASSUME ~LastOf(In, Out, b) PROVE Alternate(In \cup {m}, Out)
  <2> SUFFICES ASSUME NEW i \in In \cup {m} \cup Out, NEW j \in In \cup {m} \cup Out, i < j
               PROVE  /\ i \in In \cup {m} /\ j \in In \cup {m} => \E k \in i..j : k \in Out
                      /\ i \in Out /\ j \in Out => \E k \in i..j : k \in In \cup {m}
    BY Zenon DEF Alternate
  <2>1. i # m
    BY <1>1
  <2>2. CASE j = m
    <3>1. ASSUME i \in In PROVE \E k \in i..j : k \in Out
      <4>1. PICK k \in Out : \A x \in In \cup Out : x <= k
        BY <1>4, <1>6, <3>1
      <4> QED BY <1>1, <2>2, <3>1, <4>1
    <3> QED BY <1>1, <2>1, <2>2, <3>1
  <2>3. CASE j # m
    <3>1. i \in In \cup Out /\ j \in In \cup Out
      BY <2>1, <2>3
    <3>2. /\ i \in In /\ j \in In => \E k \in i..j : k \in Out
          /\ i \in Out /\ j \in Out => \E k \in i..j : k \in In
      BY <3>1, Zenon DEF Alternate
    <3> HIDE DEF m
    <3> QED BY <2>1, <2>3, <3>2, Zenon
  <2> QED BY <2>2, <2>3
<1>7. ASSUME LastOf(In, Out, b) PROVE Alternate(In, Out \cup {m})
  <2> SUFFICES ASSUME NEW i \in In \cup (Out \cup {m}), NEW j \in In \cup (Out \cup {m}), i < j
               PROVE  /\ i \in In /\ j \in In => \E k \in i..j : k \in Out \cup {m}
                      /\ i \in Out \cup {m} /\ j \in Out \cup {m} => \E k \in i..j : k \in In
    BY Zenon DEF Alternate
  <2>1. i # m
    BY <1>1
  <2>2. CASE j = m
    <3>1. ASSUME i \in Out PROVE \E k \in i..j : k \in In
      <4>1. PICK k \in In : \A x \in In \cup Out : x <= k
        BY <1>5, <1>7, <3>1
      <4> QED BY <1>1, <2>2, <3>1, <4>1
    <3> QED BY <1>1, <2>1, <2>2, <3>1
  <2>3. CASE j # m
    <3>1. i \in In \cup Out /\ j \in In \cup Out
      BY <2>1, <2>3
    <3>2. /\ i \in In /\ j \in In => \E k \in i..j : k \in Out
          /\ i \in Out /\ j \in Out => \E k \in i..j : k \in In
      BY <3>1, Zenon DEF Alternate
    <3> HIDE DEF m
    <3> QED BY <2>1, <2>3, <3>2, Zenon
  <2> QED BY <2>2, <2>3
<1> QED BY <1>2, <1>3, <1>6, <1>7

LEMMA ToldNumbers ==
  ASSUME NEW s \in Seq(WindowEvents)
  PROVE  /\ ToldIn(s) \subseteq 1..Len(s) /\ ToldOut(s) \subseteq 1..Len(s)
         /\ ToldIn(s) \cap ToldOut(s) = {}
<1>1. DOMAIN s = 1..Len(s)
  BY LenProperties
<1> QED BY <1>1, Zenon DEF ToldIn, ToldOut

LEMMA ToldTail ==
  ASSUME NEW s \in Seq(WindowEvents), s # <<>>
  PROVE  /\ Tail(s) \in Seq(WindowEvents)
         /\ ToldIn(Tail(s)) = Shift(Len(s), ToldIn(s))
         /\ ToldOut(Tail(s)) = Shift(Len(s), ToldOut(s))
         /\ 1 \in ToldIn(s) <=> Head(s).type = "FocusIn"
         /\ 1 \in ToldOut(s) <=> Head(s).type = "FocusOut"
         /\ Len(s) \in Nat /\ Len(s) > 0
<1> DEFINE t == Tail(s)
<1>1. /\ Len(s) \in Nat \ {0} /\ DOMAIN s = 1..Len(s)
  BY EmptySeq, LenProperties
<1>2. /\ t \in Seq(WindowEvents) /\ Len(t) = Len(s) - 1
      /\ \A i \in 1..Len(t) : t[i] = s[i + 1]
  BY HeadTailProperties
<1>3. DOMAIN t = 1..Len(s) - 1
  BY <1>2, LenProperties
<1>4. Head(s) = s[1] /\ 1 \in 1..Len(s)
  BY <1>1
<1>5. \A i \in 1..Len(s) - 1 : i + 1 \in 1..Len(s) /\ t[i] = s[i + 1]
  BY <1>1, <1>2
<1> HIDE DEF t
<1>6. /\ ToldIn(t) = Shift(Len(s), ToldIn(s))
      /\ ToldOut(t) = Shift(Len(s), ToldOut(s))
  BY <1>1, <1>3, <1>5, Zenon DEF ToldIn, ToldOut, Shift
<1>7. /\ 1 \in ToldIn(s) <=> Head(s).type = "FocusIn"
      /\ 1 \in ToldOut(s) <=> Head(s).type = "FocusOut"
  BY <1>1, <1>4, Zenon DEF ToldIn, ToldOut
<1> QED BY <1>1, <1>2, <1>6, <1>7 DEF t

LEMMA ToldAppend ==
  ASSUME NEW s \in Seq(WindowEvents), NEW e \in WindowEvents
  PROVE  /\ Append(s, e) \in Seq(WindowEvents)
         /\ ToldIn(Append(s, e)) =
              ToldIn(s) \cup (IF e.type = "FocusIn" THEN {Len(s) + 1} ELSE {})
         /\ ToldOut(Append(s, e)) =
              ToldOut(s) \cup (IF e.type = "FocusOut" THEN {Len(s) + 1} ELSE {})
<1> DEFINE t == Append(s, e)
           n == Len(s)
           m == n + 1
<1>1. n \in Nat /\ DOMAIN s = 1..n
  BY LenProperties
<1>2. t \in Seq(WindowEvents) /\ Len(t) = m /\ (\A i \in 1..n : t[i] = s[i]) /\ t[m] = e
  BY AppendProperties
<1>3. DOMAIN t = 1..n \cup {m}
  BY <1>1, <1>2, LenProperties
<1> HIDE DEF t, n, m
<1>4. /\ ToldIn(t) = ToldIn(s) \cup (IF e.type = "FocusIn" THEN {m} ELSE {})
      /\ ToldOut(t) = ToldOut(s) \cup (IF e.type = "FocusOut" THEN {m} ELSE {})
  BY <1>1, <1>2, <1>3 DEF ToldIn, ToldOut
<1> QED BY <1>2, <1>4 DEF t, m, n

(* A step that takes an event, and one that posts one. *)
LEMMA EventTaken ==
  ASSUME WindowInv, Input!Takes, NEW c,
         Head(in_posted).type = "FocusIn" => c = "focused",
         Head(in_posted).type = "FocusOut" => c # "focused",
         Head(in_posted).type \notin {"FocusIn", "FocusOut"} =>
           (c = "focused" <=> in_top = "focused")
  PROVE  /\ in_posted' \in Seq(WindowEvents)
         /\ LastOf(ToldIn(in_posted'), ToldOut(in_posted'), c) = in_has_focus_'
         /\ Alternate(ToldIn(in_posted'), ToldOut(in_posted'))
<1> DEFINE s == in_posted
           b == in_top
<1>1. /\ s \in Seq(WindowEvents) /\ s # <<>> /\ in_posted' = Tail(s) /\ in_top # "exit"
      /\ in_has_focus_' = in_has_focus_
  BY Zenon DEF WindowInv, WindowTypeOK, Input!Takes
<1>2. LastOf(ToldIn(s), ToldOut(s), b) = in_has_focus_ /\ Alternate(ToldIn(s), ToldOut(s))
  BY <1>1, Zenon DEF WindowInv, FocusIsTold
<1>4. /\ 1 \in ToldIn(s) => c = "focused"
      /\ 1 \in ToldOut(s) => c # "focused"
      /\ 1 \notin ToldIn(s) \cup ToldOut(s) => (c = "focused" <=> b = "focused")
  BY <1>1, ToldTail
<1> HIDE DEF s, b
<1>5. /\ Tail(s) \in Seq(WindowEvents)
      /\ ToldIn(Tail(s)) = Shift(Len(s), ToldIn(s))
      /\ ToldOut(Tail(s)) = Shift(Len(s), ToldOut(s))
      /\ Len(s) \in Nat /\ Len(s) > 0
  BY <1>1, ToldTail
<1>6. /\ ToldIn(s) \subseteq 1..Len(s) /\ ToldOut(s) \subseteq 1..Len(s)
      /\ ToldIn(s) \cap ToldOut(s) = {}
  BY <1>1, ToldNumbers
<1>7. /\ LastOf(ToldIn(Tail(s)), ToldOut(Tail(s)), c) <=> LastOf(ToldIn(s), ToldOut(s), b)
      /\ Alternate(ToldIn(s), ToldOut(s)) => Alternate(ToldIn(Tail(s)), ToldOut(Tail(s)))
  <2> DEFINE In == ToldIn(s)
             Out == ToldOut(s)
             n == Len(s)
  <2>1. n \in Nat /\ n > 0 /\ In \subseteq 1..n /\ Out \subseteq 1..n /\ In \cap Out = {}
    BY <1>5, <1>6, Zenon
  <2>2. /\ 1 \in In => c = "focused"
        /\ 1 \in Out => c # "focused"
        /\ 1 \notin In \cup Out => (c = "focused" <=> b = "focused")
    BY <1>4, Zenon
  <2> HIDE DEF n, In, Out
  <2>3. /\ LastOf(Shift(n, In), Shift(n, Out), c) <=> LastOf(In, Out, b)
        /\ Alternate(In, Out) => Alternate(Shift(n, In), Shift(n, Out))
    BY <2>1, <2>2, ToldShift
  <2> QED BY <1>5, <2>3, Zenon DEF In, Out, n
<1>8. LastOf(ToldIn(Tail(s)), ToldOut(Tail(s)), c) \in BOOLEAN
  BY Zenon DEF LastOf
<1>9. in_has_focus_ \in BOOLEAN
  BY Zenon DEF WindowInv, WindowTypeOK
<1> QED BY <1>1, <1>2, <1>5, <1>7, <1>8, <1>9

LEMMA EventPosted ==
  ASSUME WindowInv, NEW e \in WindowEvents, in_posted' = Append(in_posted, e), in_top # "exit",
         NEW c \in BOOLEAN,
         e.type \notin {"FocusIn", "FocusOut"} => c = in_has_focus_,
         e.type = "FocusIn" => c /\ ~in_has_focus_,
         e.type = "FocusOut" => ~c /\ in_has_focus_
  PROVE  /\ in_posted' \in Seq(WindowEvents)
         /\ LastOf(ToldIn(in_posted'), ToldOut(in_posted'), in_top) = c
         /\ Alternate(ToldIn(in_posted'), ToldOut(in_posted'))
<1> DEFINE s == in_posted
           t == in_posted'
           b == in_top
           n == Len(s)
<1>1. s \in Seq(WindowEvents) /\ t = Append(s, e)
  BY Zenon DEF WindowInv, WindowTypeOK
<1>2. LastOf(ToldIn(s), ToldOut(s), b) = in_has_focus_ /\ Alternate(ToldIn(s), ToldOut(s))
  BY Zenon DEF WindowInv, FocusIsTold
<1> HIDE DEF s, t, b
<1>4. /\ t \in Seq(WindowEvents)
      /\ ToldIn(t) = ToldIn(s) \cup (IF e.type = "FocusIn" THEN {n + 1} ELSE {})
      /\ ToldOut(t) = ToldOut(s) \cup (IF e.type = "FocusOut" THEN {n + 1} ELSE {})
  BY <1>1, ToldAppend
<1>5. /\ ToldIn(s) \subseteq 1..n /\ ToldOut(s) \subseteq 1..n
      /\ ToldIn(s) \cap ToldOut(s) = {} /\ n \in Nat
  BY <1>1, ToldNumbers, LenProperties
<1>6. /\ ~LastOf(ToldIn(s), ToldOut(s), b) =>
              /\ LastOf(ToldIn(s) \cup {n + 1}, ToldOut(s), b)
              /\ Alternate(ToldIn(s) \cup {n + 1}, ToldOut(s))
      /\ LastOf(ToldIn(s), ToldOut(s), b) =>
              /\ ~LastOf(ToldIn(s), ToldOut(s) \cup {n + 1}, b)
              /\ Alternate(ToldIn(s), ToldOut(s) \cup {n + 1})
  <2> DEFINE In == ToldIn(s)
             Out == ToldOut(s)
  <2>1. n \in Nat /\ In \subseteq 1..n /\ Out \subseteq 1..n /\ In \cap Out = {}
      /\ Alternate(In, Out)
    BY <1>2, <1>5, Zenon
  <2> HIDE DEF n, In, Out
  <2>2. /\ ~LastOf(In, Out, b) => LastOf(In \cup {n + 1}, Out, b) /\ Alternate(In \cup {n + 1}, Out)
        /\ LastOf(In, Out, b) => ~LastOf(In, Out \cup {n + 1}, b) /\ Alternate(In, Out \cup {n + 1})
    BY <2>1, ToldGrow
  <2> QED BY <2>2, Zenon DEF In, Out
<1> HIDE DEF n
<1>7. CASE e.type \notin {"FocusIn", "FocusOut"}
  <2>1. ToldIn(t) = ToldIn(s) /\ ToldOut(t) = ToldOut(s)
    BY <1>4, <1>7
  <2> QED BY <1>2, <1>4, <1>7, <2>1 DEF s, t, b
<1>8. CASE e.type = "FocusIn"
  <2>1. ToldIn(t) = ToldIn(s) \cup {n + 1} /\ ToldOut(t) = ToldOut(s)
    BY <1>4, <1>8
  <2>2. LastOf(ToldIn(t), ToldOut(t), b) /\ Alternate(ToldIn(t), ToldOut(t))
    BY <1>2, <1>6, <1>8, <2>1, Zenon
  <2>3. LastOf(ToldIn(t), ToldOut(t), b) \in BOOLEAN
    BY Zenon DEF LastOf
  <2>4. LastOf(ToldIn(t), ToldOut(t), b) = c
    BY <1>8, <2>2, <2>3, Zenon
  <2> QED BY <1>4, <2>2, <2>4 DEF s, t, b
<1>9. CASE e.type = "FocusOut"
  <2>1. ToldIn(t) = ToldIn(s) /\ ToldOut(t) = ToldOut(s) \cup {n + 1}
    BY <1>4, <1>9
  <2>2. ~LastOf(ToldIn(t), ToldOut(t), b) /\ Alternate(ToldIn(t), ToldOut(t))
    BY <1>2, <1>6, <1>9, <2>1, Zenon
  <2>3. LastOf(ToldIn(t), ToldOut(t), b) \in BOOLEAN
    BY Zenon DEF LastOf
  <2>4. LastOf(ToldIn(t), ToldOut(t), b) = c
    BY <1>9, <2>2, <2>3, Zenon
  <2> QED BY <1>4, <2>2, <2>4 DEF s, t, b
<1> QED BY <1>7, <1>8, <1>9

LEMMA WindowStarts == Input!Init => WindowInv
<1> SUFFICES ASSUME Input!Init PROVE WindowInv
  OBVIOUS
<1>1. /\ in_posted = <<>> /\ in_top = "unfocused" /\ in_has_focus_ = FALSE
      /\ in_focus_item = FALSE /\ in_auto_repeat = in_global_auto_repeat
      /\ in_global_auto_repeat \in BOOLEAN
      /\ in_mouse = "waiting" /\ in_keyboard = "waiting"
  BY Zenon DEF Input!Init
<1>2. ToldIn(in_posted) = {} /\ ToldOut(in_posted) = {}
  <2>1. DOMAIN in_posted = {}
    BY <1>1
  <2> QED BY <2>1, Zenon DEF ToldIn, ToldOut
<1>3. WindowTypeOK
  BY <1>1, EmptySeq DEF WindowTypeOK
<1>4. FocusIsTold
  <2>1. LastOf({}, {}, in_top) = FALSE
    BY <1>1 DEF LastOf
  <2>2. Alternate({}, {})
    BY Zenon DEF Alternate
  <2> QED BY <1>1, <1>2, <2>1, <2>2, Zenon DEF FocusIsTold
<1>5. MachineRests
  BY <1>1 DEF MachineRests
<1> QED BY <1>3, <1>4, <1>5 DEF WindowInv

LEMMA WindowSteps == WindowInv /\ [Input!Next]_Input!vars => WindowInv'
<1> SUFFICES ASSUME WindowInv, [Input!Next]_Input!vars PROVE WindowInv'
  OBVIOUS
<1>1. CASE UNCHANGED Input!vars
  BY <1>1, Zenon DEF Input!vars, Input!machine, WindowInv, WindowTypeOK, FocusIsTold, MachineRests
<1>2. ASSUME NEW type, NEW key \in InputKeys \cup {0}, Input!Filter(type, key),
             type \in Input!MouseEvents \cup {"Close", "KeyPress", "KeyRelease"}
      PROVE  WindowInv'
  <2> DEFINE e == Input!Event(type, key)
  <2>1. e \in WindowEvents /\ e.type = type /\ type \notin {"FocusIn", "FocusOut"}
    BY <1>2 DEF Input!Event, WindowEvents, Input!MouseEvents
  <2>2. /\ in_top # "exit" /\ in_posted' = Append(in_posted, e)
        /\ UNCHANGED <<in_focus_item, in_has_focus_, in_top, in_mouse, in_keyboard,
                       in_auto_repeat, in_global_auto_repeat>>
    BY <1>2, Zenon DEF Input!Filter, Input!machine
  <2>3. in_has_focus_ \in BOOLEAN
    BY Zenon DEF WindowInv, WindowTypeOK
  <2> HIDE DEF e
  <2>4. /\ in_posted' \in Seq(WindowEvents)
        /\ LastOf(ToldIn(in_posted'), ToldOut(in_posted'), in_top) = in_has_focus_
        /\ Alternate(ToldIn(in_posted'), ToldOut(in_posted'))
    BY <2>1, <2>2, <2>3, EventPosted
  <2>5. WindowTypeOK'
    BY <2>2, <2>4, Zenon DEF WindowInv, WindowTypeOK
  <2>6. FocusIsTold'
    BY <2>2, <2>4, Zenon DEF FocusIsTold
  <2>7. MachineRests'
    BY <2>2, Zenon DEF WindowInv, MachineRests
  <2> QED BY <2>5, <2>6, <2>7, Zenon DEF WindowInv
<1>3. CASE Input!FocusMoves
  <2>1. /\ in_focus_item' = ~in_focus_item
        /\ UNCHANGED <<in_has_focus_, in_posted, in_top, in_mouse, in_keyboard,
                       in_auto_repeat, in_global_auto_repeat>>
    BY <1>3, Zenon DEF Input!FocusMoves, Input!machine
  <2>2. WindowTypeOK'
    BY <2>1 DEF WindowInv, WindowTypeOK
  <2> QED BY <2>1, <2>2, Zenon DEF WindowInv, FocusIsTold, MachineRests
<1>4. CASE Input!Timer
  <2> DEFINE e == Input!Event(IF in_focus_item THEN "FocusOut" ELSE "FocusIn", 0)
  <2>1. /\ in_top # "exit" /\ in_posted' = Append(in_posted, e) /\ in_has_focus_ = in_focus_item
        /\ in_has_focus_' = ~in_focus_item
        /\ UNCHANGED <<in_focus_item, in_top, in_mouse, in_keyboard,
                       in_auto_repeat, in_global_auto_repeat>>
    BY <1>4, Zenon DEF Input!Timer, Input!machine
  <2>2. in_focus_item \in BOOLEAN /\ in_has_focus_' \in BOOLEAN
    BY <2>1 DEF WindowInv, WindowTypeOK
  <2>3. e \in WindowEvents /\ e.type = IF in_focus_item THEN "FocusOut" ELSE "FocusIn"
    BY DEF Input!Event, WindowEvents, Input!MouseEvents
  <2> HIDE DEF e
  <2>4. /\ in_posted' \in Seq(WindowEvents)
        /\ LastOf(ToldIn(in_posted'), ToldOut(in_posted'), in_top) = in_has_focus_'
        /\ Alternate(ToldIn(in_posted'), ToldOut(in_posted'))
    <3>1. CASE in_focus_item = TRUE
      <4>1. e.type = "FocusOut" /\ ~in_has_focus_' /\ in_has_focus_
        BY <2>1, <2>3, <3>1
      <4> QED BY <2>1, <2>2, <2>3, <4>1, EventPosted
    <3>2. CASE in_focus_item = FALSE
      <4>1. e.type = "FocusIn" /\ in_has_focus_' /\ ~in_has_focus_
        BY <2>1, <2>3, <3>2
      <4> QED BY <2>1, <2>2, <2>3, <4>1, EventPosted
    <3> QED BY <2>2, <3>1, <3>2
  <2>5. WindowTypeOK'
    BY <2>1, <2>2, <2>4, Zenon DEF WindowInv, WindowTypeOK
  <2>6. FocusIsTold'
    BY <2>1, <2>4, Zenon DEF FocusIsTold
  <2>7. MachineRests'
    BY <2>1, Zenon DEF WindowInv, MachineRests
  <2> QED BY <2>5, <2>6, <2>7, Zenon DEF WindowInv
<1>5. ASSUME Input!Takes, in_top' \in {"unfocused", "focused", "exit"},
             in_auto_repeat' \in BOOLEAN, MachineRests',
             Head(in_posted).type = "FocusIn" => in_top' = "focused",
             Head(in_posted).type = "FocusOut" => in_top' = "unfocused",
             Head(in_posted).type \notin {"FocusIn", "FocusOut"} =>
               in_top' = in_top \/ in_top' = "exit"
      PROVE  WindowInv'
  <2> DEFINE c == IF in_top' = "exit" THEN in_top ELSE in_top'
  <2>1. /\ Head(in_posted).type = "FocusIn" => c = "focused"
        /\ Head(in_posted).type = "FocusOut" => c # "focused"
        /\ Head(in_posted).type \notin {"FocusIn", "FocusOut"} =>
             (c = "focused" <=> in_top = "focused")
    BY <1>5
  <2>2. in_top' # "exit" => c = in_top'
    OBVIOUS
  <2> HIDE DEF c
  <2>3. /\ in_posted' \in Seq(WindowEvents)
        /\ LastOf(ToldIn(in_posted'), ToldOut(in_posted'), c) = in_has_focus_'
        /\ Alternate(ToldIn(in_posted'), ToldOut(in_posted'))
    BY <1>5, <2>1, EventTaken
  <2>4. UNCHANGED <<in_focus_item, in_has_focus_, in_global_auto_repeat>>
    BY <1>5, Zenon DEF Input!Takes
  <2>5. WindowTypeOK'
    BY <1>5, <2>3, <2>4, Zenon DEF WindowInv, WindowTypeOK
  <2>6. FocusIsTold'
    BY <2>2, <2>3, Zenon DEF FocusIsTold
  <2> QED BY <1>5, <2>5, <2>6, Zenon DEF WindowInv
<1> DEFINE e == Head(in_posted)
<1>6. CASE Input!FocusIn
  <2>1. /\ Input!Takes /\ in_top = "unfocused" /\ e.type = "FocusIn" /\ in_top' = "focused"
        /\ in_auto_repeat' = (in_auto_repeat /\ ~in_global_auto_repeat)
    BY <1>6, Zenon DEF Input!FocusIn, Input!Event1
  <2>2. in_global_auto_repeat' = in_global_auto_repeat
    BY <2>1, Zenon DEF Input!Takes
  <2>3. in_auto_repeat' \in BOOLEAN
    BY <2>1 DEF WindowInv, WindowTypeOK
  <2>4. MachineRests'
    BY <2>1, <2>2 DEF MachineRests
  <2> QED BY <1>5, <2>1, <2>3, <2>4
<1>7. CASE Input!Leave
  <2>1. /\ Input!Takes
        /\ \/ in_top = "focused" /\ e.type \in {"FocusOut", "Close"}
           \/ in_top = "unfocused" /\ e.type = "Close"
        /\ in_top' = (IF e.type = "Close" THEN "exit" ELSE "unfocused")
        /\ in_mouse' = "waiting" /\ in_keyboard' = "waiting"
        /\ in_auto_repeat' = (in_auto_repeat \/ in_top = "focused")
    BY <1>7, Zenon DEF Input!Leave, Input!Event1
  <2>2. in_global_auto_repeat' = in_global_auto_repeat
    BY <2>1, Zenon DEF Input!Takes
  <2>3. in_auto_repeat' \in BOOLEAN
    BY <2>1 DEF WindowInv, WindowTypeOK
  <2>4. MachineRests'
    BY <2>1, <2>2, <2>3 DEF MachineRests, WindowInv
  <2> HIDE DEF e
  <2>5. /\ e.type = "FocusIn" => in_top' = "focused"
        /\ e.type = "FocusOut" => in_top' = "unfocused"
        /\ e.type \notin {"FocusIn", "FocusOut"} => in_top' = "exit"
        /\ in_top' \in {"unfocused", "focused", "exit"}
    BY <2>1
  <2> QED BY <1>5, <2>1, <2>3, <2>4, <2>5 DEF e
<1>8. CASE Input!Key \/ Input!Mouse
  <2>1. /\ Input!Takes /\ in_top = "focused" /\ in_top' = in_top
        /\ in_auto_repeat' = in_auto_repeat
        /\ e.type \notin {"FocusIn", "FocusOut"}
    BY <1>8, Zenon DEF Input!Key, Input!Mouse, Input!Event1
  <2>2. in_global_auto_repeat' = in_global_auto_repeat
    BY <2>1, Zenon DEF Input!Takes
  <2>3. MachineRests'
    BY <2>1, <2>2 DEF MachineRests, WindowInv
  <2>4. in_auto_repeat' \in BOOLEAN /\ in_top' \in {"unfocused", "focused", "exit"}
    BY <2>1 DEF WindowInv, WindowTypeOK
  <2> QED BY <1>5, <2>1, <2>3, <2>4
<1>9. CASE Input!Ignored
  <2>1. /\ Input!Takes /\ e.type \notin Input!Awaited
        /\ UNCHANGED <<in_top, in_mouse, in_keyboard, in_auto_repeat>>
    BY <1>9, Zenon DEF Input!Ignored, Input!Event1, Input!machine
  <2>2. in_global_auto_repeat' = in_global_auto_repeat /\ in_top # "exit"
    BY <2>1, Zenon DEF Input!Takes
  <2>3. MachineRests'
    BY <2>1, <2>2 DEF MachineRests, WindowInv
  <2>4. /\ in_auto_repeat' \in BOOLEAN /\ in_top \in {"unfocused", "focused"}
    BY <2>1, <2>2 DEF WindowInv, WindowTypeOK
  <2>5. /\ in_top = "unfocused" => e.type # "FocusIn"
        /\ in_top = "focused" => e.type # "FocusOut"
    <3> HIDE DEF e
    <3>1. ASSUME in_top = "unfocused" PROVE "FocusIn" \in Input!Awaited
      BY <3>1, Zenon DEF Input!Awaited
    <3>2. ASSUME in_top = "focused" PROVE "FocusOut" \in Input!Awaited
      BY <3>2 DEF Input!Awaited
    <3> QED BY <2>1, <3>1, <3>2
  <2> QED BY <1>5, <2>1, <2>3, <2>4, <2>5
<1>10. ASSUME NEW type \in Input!MouseEvents \cup {"Close"}, Input!Filter(type, 0)
       PROVE  WindowInv'
  BY <1>2, <1>10
<1>11. ASSUME NEW type \in {"KeyPress", "KeyRelease"}, NEW key \in InputKeys,
              Input!Filter(type, key)
       PROVE  WindowInv'
  BY <1>2, <1>11
<1> QED BY <1>1, <1>3, <1>4, <1>6, <1>7, <1>8, <1>9, <1>10, <1>11, Zenon DEF Input!Next

(* The machine follows the timer, whatever waits, and nothing that tells of   *)
(* the focus is ignored: InputFollowsFocus of the window.                     *)
THEOREM FocusIsFollowed == Input!Spec => []Input!InputFollowsFocus
<1>1. Input!Spec => []WindowInv
  BY WindowStarts, WindowSteps, PTL DEF Input!Spec
<1> QED BY <1>1, WindowFollows, PTL

-----------------------------------------------------------------------------
(* Sockets: an open descriptor is an object's or leaked, an object's is open. *)
LoopType ==
  [on : Descriptors \cup {Socket!INVALID}, asked : Nat, left : Nat, sends : BOOLEAN, block : Nat]
ReturnType == [error : Errors \cup {0}, asked : Nat, bytes : Nat, interrupted : BOOLEAN]

SocketsTypeOK ==
  /\ so_handle_ \in [SocketObjects -> Descriptors \cup {Socket!INVALID}]
  /\ so_error_ \in [SocketObjects -> Errors \cup {0}]
  /\ so_recv_interrupt_ \in [SocketObjects -> BOOLEAN]
  /\ so_open \subseteq Descriptors /\ so_errno \in Errors \cup {0} /\ so_caller \in SocketObjects
  /\ so_loop \in LoopType /\ so_returned \in ReturnType
DescriptorsAreHeld ==
  /\ \A o, p \in SocketObjects : so_handle_[o] = so_handle_[p] /\ o # p =>
       so_handle_[o] = Socket!INVALID
  /\ \A o \in SocketObjects : so_handle_[o] \in so_open \cup {Socket!INVALID}
  /\ \A d \in so_open : d \in so_leaked \/ \E o \in SocketObjects : so_handle_[o] = d
LoopCounts ==
  /\ so_loop.left <= so_loop.asked
  /\ so_loop.block = 0 <=> so_loop.left = so_loop.asked
ReturnCounts ==
  /\ so_returned.bytes <= so_returned.asked
  /\ so_returned.interrupted <=> so_returned.bytes < so_returned.asked \/ so_returned.asked = 0
ErrorsHappened ==
  /\ \A o \in SocketObjects : so_error_[o] # 0 => so_errno # 0
  /\ so_errno = 0 => so_failed = {}
SocketsInv ==
  SocketsTypeOK /\ DescriptorsAreHeld /\ LoopCounts /\ ReturnCounts /\ ErrorsHappened

LEMMA DescriptorsAreValid ==
  /\ \A d \in Descriptors : d \in Nat /\ d # Socket!INVALID
  /\ \A e \in Errors : e # 0
  BY StreamAssumption DEF StreamAssumption, Socket!INVALID

LEMMA LowestIsFree ==
  ASSUME so_open \subseteq Descriptors, Descriptors # so_open
  PROVE  Socket!LowestFree \in Descriptors \ so_open
<1> DEFINE S == Descriptors \ so_open
<1>1. S \subseteq Nat /\ S # {}
  BY DescriptorsAreValid
<1> HIDE DEF S
<1>2. PICK x \in S : \A y \in S : x <= y
  BY <1>1, SomeIsLeast
<1>3. Socket!Min(S) \in S
  BY <1>2 DEF Socket!Min
<1> QED BY <1>3 DEF S, Socket!LowestFree

LEMMA SocketsAreRight ==
  SocketsInv => Socket!DescriptorsHaveOneOwner /\ Socket!ReceivedIsReported
<1> SUFFICES ASSUME SocketsInv
             PROVE  Socket!DescriptorsHaveOneOwner /\ Socket!ReceivedIsReported
  OBVIOUS
<1>1. so_open = ({so_handle_[o] : o \in SocketObjects} \ {Socket!INVALID})
                \cup (so_leaked \cap so_open)
  <2>1. \A d \in so_open : d # Socket!INVALID
    BY DescriptorsAreValid, Zenon DEF SocketsInv, SocketsTypeOK
  <2>2. /\ \A o \in SocketObjects : so_handle_[o] \in so_open \cup {Socket!INVALID}
        /\ \A d \in so_open : d \in so_leaked \/ \E o \in SocketObjects : so_handle_[o] = d
    BY Zenon DEF SocketsInv, DescriptorsAreHeld
  <2> QED BY <2>1, <2>2
<1>2. Socket!DescriptorsHaveOneOwner
  BY <1>1, Zenon DEF SocketsInv, DescriptorsAreHeld, Socket!DescriptorsHaveOneOwner
<1>3. so_returned.error = 0 /\ ~so_returned.interrupted => so_returned.bytes = so_returned.asked
  BY DEF SocketsInv, SocketsTypeOK, ReturnType, ReturnCounts
<1> QED BY <1>2, <1>3, Zenon
        DEF SocketsInv, ReturnCounts, ErrorsHappened, Socket!ReceivedIsReported

LEMMA SocketsStart == Socket!Init => SocketsInv
<1> SUFFICES ASSUME Socket!Init PROVE SocketsInv
  OBVIOUS
<1>1. /\ so_handle_ = [o \in SocketObjects |-> Socket!INVALID]
      /\ so_error_ = [o \in SocketObjects |-> 0]
      /\ so_recv_interrupt_ = [o \in SocketObjects |-> FALSE]
      /\ so_open = {} /\ so_errno = 0 /\ so_loop = Socket!Idle /\ so_caller \in SocketObjects
      /\ so_returned = Socket!NoReturn /\ so_failed = {}
  BY Zenon DEF Socket!Init
<1>2. so_loop \in LoopType /\ LoopCounts
  BY <1>1 DEF LoopType, LoopCounts, Socket!Idle
<1>3. so_returned \in ReturnType /\ ReturnCounts
  BY <1>1 DEF ReturnType, ReturnCounts, Socket!NoReturn
<1>4. SocketsTypeOK
  BY <1>1, <1>2, <1>3 DEF SocketsTypeOK
<1>5. DescriptorsAreHeld /\ ErrorsHappened
  BY <1>1 DEF DescriptorsAreHeld, ErrorsHappened
<1> QED BY <1>2, <1>3, <1>4, <1>5 DEF SocketsInv

-----------------------------------------------------------------------------
(* An object gets the lowest descriptor that is free: open and accept.        *)
LEMMA HandleTaken ==
  ASSUME SocketsInv, NEW o \in SocketObjects, Descriptors # so_open,
         so_handle_' = [so_handle_ EXCEPT ![o] = Socket!LowestFree],
         so_open' = so_open \cup {Socket!LowestFree},
         so_leaked' = so_leaked \cup ({so_handle_[o]} \cap so_open)
  PROVE  /\ so_handle_' \in [SocketObjects -> Descriptors \cup {Socket!INVALID}]
         /\ so_open' \subseteq Descriptors
         /\ DescriptorsAreHeld'
<1> DEFINE d == Socket!LowestFree
<1>1. /\ so_handle_ \in [SocketObjects -> Descriptors \cup {Socket!INVALID}]
      /\ so_open \subseteq Descriptors /\ DescriptorsAreHeld
  BY Zenon DEF SocketsInv, SocketsTypeOK
<1>2. d \in Descriptors /\ d \notin so_open /\ d # Socket!INVALID
  BY <1>1, LowestIsFree, DescriptorsAreValid
<1> HIDE DEF d
<1>3. /\ so_handle_' \in [SocketObjects -> Descriptors \cup {Socket!INVALID}]
      /\ so_handle_'[o] = d
      /\ \A p \in SocketObjects : p # o => so_handle_'[p] = so_handle_[p]
      /\ so_open' = so_open \cup {d}
  BY <1>1, <1>2 DEF d
<1>4. \A p, q \in SocketObjects : so_handle_'[p] = so_handle_'[q] /\ p # q =>
        so_handle_'[p] = Socket!INVALID
  BY <1>1, <1>2, <1>3 DEF DescriptorsAreHeld
<1>5. \A p \in SocketObjects : so_handle_'[p] \in so_open' \cup {Socket!INVALID}
  BY <1>1, <1>2, <1>3 DEF DescriptorsAreHeld
<1>6. \A x \in so_open' : x \in so_leaked' \/ \E p \in SocketObjects : so_handle_'[p] = x
  <2> SUFFICES ASSUME NEW x \in so_open
               PROVE  x \in so_leaked' \/ \E p \in SocketObjects : so_handle_'[p] = x
    BY <1>3
  <2>1. CASE x \in so_leaked
    BY <2>1
  <2>2. ASSUME NEW p \in SocketObjects, so_handle_[p] = x
        PROVE  x \in so_leaked' \/ \E q \in SocketObjects : so_handle_'[q] = x
    BY <1>3, <2>2
  <2> QED BY <1>1, <2>1, <2>2 DEF DescriptorsAreHeld
<1>7. so_open' \subseteq Descriptors
  BY <1>1, <1>2, <1>3
<1> QED BY <1>3, <1>4, <1>5, <1>6, <1>7, Zenon DEF DescriptorsAreHeld

LEMMA HandleClosed ==
  ASSUME SocketsInv, NEW o \in SocketObjects,
         so_handle_' = [so_handle_ EXCEPT ![o] = Socket!INVALID],
         so_open' = so_open \ {so_handle_[o]}, so_leaked' = so_leaked
  PROVE  /\ so_handle_' \in [SocketObjects -> Descriptors \cup {Socket!INVALID}]
         /\ so_open' \subseteq Descriptors
         /\ DescriptorsAreHeld'
<1>1. /\ so_handle_ \in [SocketObjects -> Descriptors \cup {Socket!INVALID}]
      /\ so_open \subseteq Descriptors /\ DescriptorsAreHeld
  BY Zenon DEF SocketsInv, SocketsTypeOK
<1>2. /\ so_handle_' \in [SocketObjects -> Descriptors \cup {Socket!INVALID}]
      /\ so_handle_'[o] = Socket!INVALID
      /\ \A p \in SocketObjects : p # o => so_handle_'[p] = so_handle_[p]
  BY <1>1
<1>3. \A x \in so_open' : x \in so_open /\ x # so_handle_[o]
  BY Zenon
<1>4. \A p, q \in SocketObjects : so_handle_'[p] = so_handle_'[q] /\ p # q =>
        so_handle_'[p] = Socket!INVALID
  BY <1>1, <1>2 DEF DescriptorsAreHeld
<1>5. \A p \in SocketObjects : so_handle_'[p] \in so_open' \cup {Socket!INVALID}
  BY <1>1, <1>2 DEF DescriptorsAreHeld
<1>6. \A x \in so_open' : x \in so_leaked' \/ \E p \in SocketObjects : so_handle_'[p] = x
  BY <1>1, <1>2, <1>3, Zenon DEF DescriptorsAreHeld
<1>7. so_open' \subseteq Descriptors
  BY <1>1, <1>3, Zenon
<1> QED BY <1>2, <1>4, <1>5, <1>6, <1>7, Zenon DEF DescriptorsAreHeld

LEMMA HandleMoved ==
  ASSUME SocketsInv, NEW o \in SocketObjects, NEW p \in SocketObjects,
         so_handle_' = [[so_handle_ EXCEPT ![p] = so_handle_[o]] EXCEPT ![o] = Socket!INVALID],
         so_open' = so_open,
         so_leaked' = so_leaked \cup (IF o = p THEN {so_handle_[o]} \cap so_open
                                      ELSE {so_handle_[p]} \cap so_open)
  PROVE  /\ so_handle_' \in [SocketObjects -> Descriptors \cup {Socket!INVALID}]
         /\ DescriptorsAreHeld'
<1>1. /\ so_handle_ \in [SocketObjects -> Descriptors \cup {Socket!INVALID}]
      /\ so_open \subseteq Descriptors /\ DescriptorsAreHeld
  BY Zenon DEF SocketsInv, SocketsTypeOK
<1>2. /\ so_handle_' \in [SocketObjects -> Descriptors \cup {Socket!INVALID}]
      /\ so_handle_'[o] = Socket!INVALID
      /\ p # o => so_handle_'[p] = so_handle_[o]
      /\ \A q \in SocketObjects : q # o /\ q # p => so_handle_'[q] = so_handle_[q]
  BY <1>1
<1>3. \A q, r \in SocketObjects : so_handle_'[q] = so_handle_'[r] /\ q # r =>
        so_handle_'[q] = Socket!INVALID
  BY <1>1, <1>2 DEF DescriptorsAreHeld
<1>4. \A q \in SocketObjects : so_handle_'[q] \in so_open' \cup {Socket!INVALID}
  BY <1>1, <1>2 DEF DescriptorsAreHeld
<1>5. \A x \in so_open' : x \in so_leaked' \/ \E q \in SocketObjects : so_handle_'[q] = x
  <2> SUFFICES ASSUME NEW x \in so_open
               PROVE  x \in so_leaked' \/ \E q \in SocketObjects : so_handle_'[q] = x
    OBVIOUS
  <2>1. CASE x \in so_leaked
    BY <2>1
  <2>2. ASSUME NEW q \in SocketObjects, so_handle_[q] = x
        PROVE  x \in so_leaked' \/ \E r \in SocketObjects : so_handle_'[r] = x
    <3>1. CASE q = o /\ o # p
      BY <1>2, <2>2, <3>1
    <3>2. CASE q = p
      BY <2>2, <3>2
    <3>3. CASE q # o /\ q # p
      BY <1>2, <2>2, <3>3
    <3> QED BY <3>1, <3>2, <3>3
  <2> QED BY <1>1, <2>1, <2>2 DEF DescriptorsAreHeld
<1> QED BY <1>2, <1>3, <1>4, <1>5, Zenon DEF DescriptorsAreHeld

(* A call has failed, and one has not. *)
LEMMA CallFails ==
  ASSUME SocketsInv, NEW o \in SocketObjects, Socket!Fail(o)
  PROVE  /\ so_error_' \in [SocketObjects -> Errors \cup {0}] /\ so_errno' \in Errors \cup {0}
         /\ ErrorsHappened'
<1>1. so_errno' \in Errors /\ so_error_' = [so_error_ EXCEPT ![o] = so_errno']
  BY Zenon DEF Socket!Fail
<1>2. so_error_ \in [SocketObjects -> Errors \cup {0}]
  BY Zenon DEF SocketsInv, SocketsTypeOK
<1>3. so_errno' # 0
  BY <1>1, DescriptorsAreValid
<1> QED BY <1>1, <1>2, <1>3 DEF ErrorsHappened

LEMMA ErrnoLoaded ==
  ASSUME SocketsInv, NEW o \in SocketObjects, so_error_' = [so_error_ EXCEPT ![o] = so_errno],
         UNCHANGED <<so_errno, so_failed>>
  PROVE  /\ so_error_' \in [SocketObjects -> Errors \cup {0}] /\ so_errno' \in Errors \cup {0}
         /\ ErrorsHappened'
  BY DEF SocketsInv, SocketsTypeOK, ErrorsHappened

LEMMA NothingFails ==
  ASSUME SocketsInv, UNCHANGED <<so_errno, so_error_, so_failed>>
  PROVE  /\ so_error_' \in [SocketObjects -> Errors \cup {0}] /\ so_errno' \in Errors \cup {0}
         /\ ErrorsHappened'
  BY Zenon DEF SocketsInv, SocketsTypeOK, ErrorsHappened

LEMMA HandlesKept ==
  ASSUME SocketsInv, UNCHANGED <<so_handle_, so_open, so_leaked>>
  PROVE  /\ so_handle_' \in [SocketObjects -> Descriptors \cup {Socket!INVALID}]
         /\ so_open' \subseteq Descriptors /\ DescriptorsAreHeld'
  BY Zenon DEF SocketsInv, SocketsTypeOK, DescriptorsAreHeld

LEMMA CountsKept ==
  ASSUME SocketsInv, UNCHANGED <<so_loop, so_returned, so_caller>>
  PROVE  /\ so_loop' \in LoopType /\ so_returned' \in ReturnType /\ so_caller' \in SocketObjects
         /\ LoopCounts' /\ ReturnCounts'
  BY Zenon DEF SocketsInv, SocketsTypeOK, LoopCounts, ReturnCounts

(* The end of send_all and receive_all. *)
LEMMA LoopReturns ==
  ASSUME SocketsInv, NEW block \in Nat, Socket!Return(block),
         so_error_' \in [SocketObjects -> Errors \cup {0}],
         \/ so_loop.left = 0 /\ block = so_loop.block
         \/ so_loop.left > 0 /\ block = 0
  PROVE  /\ so_loop' \in LoopType /\ so_returned' \in ReturnType /\ so_caller' \in SocketObjects
         /\ LoopCounts' /\ ReturnCounts' /\ so_recv_interrupt_' \in [SocketObjects -> BOOLEAN]
<1>1. /\ so_loop' = Socket!Idle /\ so_caller' = so_caller
      /\ so_recv_interrupt_' = IF so_loop.sends THEN so_recv_interrupt_
                               ELSE [so_recv_interrupt_ EXCEPT ![so_caller] = block = 0]
      /\ so_returned' = IF so_loop.sends THEN so_returned
                        ELSE [error |-> so_error_'[so_caller], asked |-> so_loop.asked,
                              bytes |-> so_loop.asked - so_loop.left, interrupted |-> block = 0]
  BY Zenon DEF Socket!Return
<1>2. /\ so_loop \in LoopType /\ LoopCounts /\ so_caller \in SocketObjects
      /\ so_returned \in ReturnType /\ ReturnCounts
      /\ so_recv_interrupt_ \in [SocketObjects -> BOOLEAN]
  BY Zenon DEF SocketsInv, SocketsTypeOK
<1>3. so_loop' \in LoopType /\ LoopCounts'
  BY <1>1 DEF LoopType, LoopCounts, Socket!Idle
<1>4. so_recv_interrupt_' \in [SocketObjects -> BOOLEAN]
  BY <1>1, <1>2
<1>5. /\ so_loop.asked \in Nat /\ so_loop.left \in Nat /\ so_loop.block \in Nat
      /\ so_loop.left <= so_loop.asked /\ (so_loop.block = 0 <=> so_loop.left = so_loop.asked)
  BY <1>2 DEF LoopType, LoopCounts
<1>6. CASE so_loop.sends
  BY <1>1, <1>2, <1>3, <1>4, <1>6 DEF ReturnCounts
<1>7. CASE ~so_loop.sends
  <2>1. /\ so_returned'.error = so_error_'[so_caller] /\ so_returned'.asked = so_loop.asked
        /\ so_returned'.bytes = so_loop.asked - so_loop.left
        /\ so_returned'.interrupted <=> block = 0
    BY <1>1, <1>7
  <2>2. so_error_'[so_caller] \in Errors \cup {0} /\ so_loop.asked - so_loop.left \in Nat
    BY <1>2, <1>5
  <2>3. so_returned' \in ReturnType
    BY <1>1, <1>5, <1>7, <2>2 DEF ReturnType
  <2>4. ReturnCounts'
    BY <1>5, <2>1 DEF ReturnCounts
  <2> QED BY <1>1, <1>2, <1>3, <1>4, <2>3, <2>4
<1> QED BY <1>6, <1>7

LEMMA SocketsSteps == SocketsInv /\ [Socket!Next]_Socket!vars => SocketsInv'
<1> SUFFICES ASSUME SocketsInv, [Socket!Next]_Socket!vars PROVE SocketsInv'
  OBVIOUS
<1>0. so_recv_interrupt_ \in [SocketObjects -> BOOLEAN]
  BY Zenon DEF SocketsInv, SocketsTypeOK
<1>1. CASE UNCHANGED Socket!vars
  BY <1>1, Zenon DEF Socket!vars, SocketsInv, SocketsTypeOK, DescriptorsAreHeld, LoopCounts,
                     ReturnCounts, ErrorsHappened
<1>2. CASE Socket!End
  <2>1. /\ so_loop.left = 0 /\ Socket!Return(so_loop.block)
        /\ UNCHANGED <<so_error_, so_errno, so_failed>>
    BY <1>2, Zenon DEF Socket!End
  <2>2. UNCHANGED <<so_handle_, so_open, so_leaked>>
    BY <2>1, Zenon DEF Socket!Return
  <2>3. so_loop.block \in Nat
    BY DEF SocketsInv, SocketsTypeOK, LoopType
  <2> QED BY <2>1, <2>2, <2>3, NothingFails, HandlesKept, LoopReturns, Zenon
          DEF SocketsInv, SocketsTypeOK
<1>3. CASE Socket!Broken
  <2>1. so_loop.left > 0 /\ Socket!Return(0) /\ Socket!Fail(so_caller)
    BY <1>3, Zenon DEF Socket!Broken
  <2>2. UNCHANGED <<so_handle_, so_open, so_leaked>>
    BY <2>1, Zenon DEF Socket!Return
  <2>3. so_caller \in SocketObjects /\ 0 \in Nat
    BY DEF SocketsInv, SocketsTypeOK
  <2> QED BY <2>1, <2>2, <2>3, CallFails, HandlesKept, LoopReturns, Zenon
          DEF SocketsInv, SocketsTypeOK
<1>4. CASE Socket!PeerClosed
  <2>1. /\ so_loop.left > 0 /\ Socket!Return(0)
        /\ so_error_' = [so_error_ EXCEPT ![so_caller] = so_errno]
        /\ UNCHANGED <<so_errno, so_failed>>
    BY <1>4, Zenon DEF Socket!PeerClosed
  <2>2. UNCHANGED <<so_handle_, so_open, so_leaked>>
    BY <2>1, Zenon DEF Socket!Return
  <2>3. so_caller \in SocketObjects /\ 0 \in Nat
    BY DEF SocketsInv, SocketsTypeOK
  <2> QED BY <2>1, <2>2, <2>3, ErrnoLoaded, HandlesKept, LoopReturns, Zenon
          DEF SocketsInv, SocketsTypeOK
<1>5. ASSUME NEW n \in 1..MaxSize, Socket!Block(n) PROVE SocketsInv'
  <2>1. /\ so_loop.left >= n /\ so_loop' = [so_loop EXCEPT !.left = @ - n, !.block = n]
        /\ UNCHANGED <<so_handle_, so_error_, so_recv_interrupt_, so_open, so_errno, so_caller,
                       so_returned, so_failed, so_leaked>>
    BY <1>5, Zenon DEF Socket!Block
  <2>2. /\ so_loop.left \in Nat /\ so_loop.asked \in Nat /\ so_loop.left <= so_loop.asked
        /\ so_loop \in LoopType
    BY DEF SocketsInv, SocketsTypeOK, LoopType, LoopCounts
  <2>3. n \in Nat /\ n > 0 /\ so_loop.left - n \in Nat
    BY <2>1, <2>2, StreamAssumption DEF StreamAssumption
  <2>4. /\ so_loop' \in LoopType /\ so_loop'.left = so_loop.left - n /\ so_loop'.block = n
        /\ so_loop'.asked = so_loop.asked
    BY <2>1, <2>2, <2>3 DEF LoopType
  <2>5. LoopCounts'
    BY <2>2, <2>3, <2>4 DEF LoopCounts
  <2>6. so_returned' \in ReturnType /\ so_caller' \in SocketObjects /\ ReturnCounts'
    BY <2>1, Zenon DEF SocketsInv, SocketsTypeOK, ReturnCounts
  <2> QED BY <1>0, <2>1, <2>4, <2>5, <2>6, NothingFails, HandlesKept, Zenon
          DEF SocketsInv, SocketsTypeOK
<1>6. ASSUME NEW o \in SocketObjects, Socket!Open(o) PROVE SocketsInv'
  <2>1. /\ Descriptors # so_open
        /\ so_handle_' = [so_handle_ EXCEPT ![o] = Socket!LowestFree]
        /\ so_open' = so_open \cup {Socket!LowestFree}
        /\ so_leaked' = so_leaked \cup ({so_handle_[o]} \cap so_open)
        /\ UNCHANGED <<so_error_, so_recv_interrupt_, so_errno, so_loop, so_caller, so_returned,
                       so_failed>>
    BY <1>6, Zenon DEF Socket!Open
  <2>2. so_recv_interrupt_' \in [SocketObjects -> BOOLEAN]
    BY <1>0, <2>1, Zenon
  <2> QED BY <2>1, <2>2, HandleTaken, NothingFails, CountsKept, Zenon DEF SocketsInv, SocketsTypeOK
<1>7. ASSUME NEW o \in SocketObjects, Socket!Close(o) PROVE SocketsInv'
  <2>1. /\ so_handle_' = [so_handle_ EXCEPT ![o] = Socket!INVALID]
        /\ so_open' = so_open \ {so_handle_[o]}
        /\ UNCHANGED <<so_errno, so_error_, so_failed>> \/ Socket!Fail(o)
        /\ UNCHANGED <<so_recv_interrupt_, so_loop, so_caller, so_returned, so_leaked>>
    BY <1>7, Zenon DEF Socket!Close
  <2>2. /\ so_error_' \in [SocketObjects -> Errors \cup {0}] /\ so_errno' \in Errors \cup {0}
        /\ ErrorsHappened'
    BY <2>1, CallFails, NothingFails, Zenon
  <2> QED BY <1>0, <2>1, <2>2, HandleClosed, CountsKept, Zenon DEF SocketsInv, SocketsTypeOK
<1>8. ASSUME NEW o \in SocketObjects, Socket!FailedCall(o) PROVE SocketsInv'
  <2>1. /\ Socket!Fail(o)
        /\ UNCHANGED <<so_handle_, so_recv_interrupt_, so_open, so_loop, so_caller, so_returned,
                       so_leaked>>
    BY <1>8, Zenon DEF Socket!FailedCall
  <2> QED BY <1>0, <2>1, CallFails, HandlesKept, CountsKept, Zenon DEF SocketsInv, SocketsTypeOK
<1>9. ASSUME NEW o \in SocketObjects, Socket!Receive(o) PROVE SocketsInv'
  <2>1. /\ \/ UNCHANGED <<so_errno, so_error_, so_failed>>
           \/ Socket!Fail(o)
           \/ /\ so_error_' = [so_error_ EXCEPT ![o] = so_errno]
              /\ UNCHANGED <<so_errno, so_failed>>
        /\ \/ so_recv_interrupt_' = [so_recv_interrupt_ EXCEPT ![o] = FALSE]
           \/ so_recv_interrupt_' = [so_recv_interrupt_ EXCEPT ![o] = TRUE]
        /\ UNCHANGED <<so_handle_, so_open, so_loop, so_caller, so_returned, so_leaked>>
    BY <1>9, Zenon DEF Socket!Receive
  <2>2. /\ so_error_' \in [SocketObjects -> Errors \cup {0}] /\ so_errno' \in Errors \cup {0}
        /\ ErrorsHappened'
    BY <2>1, CallFails, NothingFails, ErrnoLoaded, Zenon
  <2>3. so_recv_interrupt_' \in [SocketObjects -> BOOLEAN]
    BY <1>0, <2>1
  <2> QED BY <2>1, <2>2, <2>3, HandlesKept, CountsKept, Zenon DEF SocketsInv, SocketsTypeOK
<1>10. ASSUME NEW o \in SocketObjects, Socket!ClearError(o) PROVE SocketsInv'
  <2>1. /\ so_error_' = [so_error_ EXCEPT ![o] = 0] /\ so_failed' = so_failed \ {o}
        /\ UNCHANGED <<so_handle_, so_recv_interrupt_, so_open, so_errno, so_loop, so_caller,
                       so_returned, so_leaked>>
    BY <1>10, Zenon DEF Socket!ClearError
  <2>2. so_error_' \in [SocketObjects -> Errors \cup {0}] /\ ErrorsHappened'
    BY <2>1 DEF SocketsInv, SocketsTypeOK, ErrorsHappened
  <2> QED BY <1>0, <2>1, <2>2, HandlesKept, CountsKept, Zenon DEF SocketsInv, SocketsTypeOK
<1>11. ASSUME NEW o \in SocketObjects, NEW p \in SocketObjects, Socket!Accept(o, p)
       PROVE  SocketsInv'
  <2>1. /\ Descriptors # so_open
        /\ so_handle_' = [so_handle_ EXCEPT ![p] = Socket!LowestFree]
        /\ so_open' = so_open \cup {Socket!LowestFree}
        /\ so_leaked' = so_leaked \cup ({so_handle_[p]} \cap so_open)
        /\ UNCHANGED <<so_error_, so_recv_interrupt_, so_errno, so_loop, so_caller, so_returned,
                       so_failed>>
    BY <1>11, Zenon DEF Socket!Accept
  <2>2. so_recv_interrupt_' \in [SocketObjects -> BOOLEAN]
    BY <1>0, <2>1, Zenon
  <2> QED BY <2>1, <2>2, HandleTaken, NothingFails, CountsKept, Zenon DEF SocketsInv, SocketsTypeOK
<1>12. ASSUME NEW o \in SocketObjects, NEW p \in SocketObjects, Socket!Move(o, p)
       PROVE  SocketsInv'
  <2>1. /\ so_leaked' = so_leaked \cup (IF o = p THEN {so_handle_[o]} \cap so_open
                                        ELSE {so_handle_[p]} \cap so_open)
        /\ so_handle_' = [[so_handle_ EXCEPT ![p] = so_handle_[o]] EXCEPT ![o] = Socket!INVALID]
        /\ so_error_' = [so_error_ EXCEPT ![p] = so_error_[o]]
        /\ so_failed' = IF o \in so_failed THEN so_failed \cup {p} ELSE so_failed \ {p}
        /\ UNCHANGED <<so_recv_interrupt_, so_open, so_errno, so_loop, so_caller, so_returned>>
    BY <1>12, Zenon DEF Socket!Move
  <2>2. so_error_' \in [SocketObjects -> Errors \cup {0}] /\ ErrorsHappened'
    BY <2>1 DEF SocketsInv, SocketsTypeOK, ErrorsHappened
  <2> QED BY <1>0, <2>1, <2>2, HandleMoved, CountsKept, Zenon DEF SocketsInv, SocketsTypeOK
<1>13. ASSUME NEW o \in SocketObjects, NEW n \in 0..MaxSize, NEW s \in BOOLEAN,
              Socket!Begin(o, n, s)
       PROVE  SocketsInv'
  <2>1. /\ so_loop' = [on |-> so_handle_[o], asked |-> n, left |-> n, sends |-> s, block |-> 0]
        /\ so_caller' = o
        /\ UNCHANGED <<so_handle_, so_error_, so_recv_interrupt_, so_open, so_errno, so_returned,
                       so_failed, so_leaked>>
    BY <1>13, Zenon DEF Socket!Begin
  <2>2. so_handle_[o] \in Descriptors \cup {Socket!INVALID} /\ n \in Nat
    BY StreamAssumption DEF StreamAssumption, SocketsInv, SocketsTypeOK
  <2>3. so_loop' \in LoopType /\ LoopCounts'
    BY <2>1, <2>2 DEF LoopType, LoopCounts
  <2>4. so_returned' \in ReturnType /\ so_caller' \in SocketObjects /\ ReturnCounts'
    BY <2>1, Zenon DEF SocketsInv, SocketsTypeOK, ReturnCounts
  <2> QED BY <1>0, <2>1, <2>3, <2>4, NothingFails, HandlesKept, Zenon DEF SocketsInv, SocketsTypeOK
<1> QED BY <1>1, <1>2, <1>3, <1>4, <1>5, <1>6, <1>7, <1>8, <1>9, <1>10, <1>11, <1>12, <1>13, Zenon
        DEF Socket!Next

(* No descriptor has two owners, and what a receive reports is what happened: *)
(* DescriptorsHaveOneOwner and ReceivedIsReported of the sockets.             *)
THEOREM SocketsReport ==
  Socket!Spec => [](Socket!DescriptorsHaveOneOwner /\ Socket!ReceivedIsReported)
<1>1. Socket!Spec => []SocketsInv
  BY SocketsStart, SocketsSteps, PTL DEF Socket!Spec
<1> QED BY <1>1, SocketsAreRight, PTL

-----------------------------------------------------------------------------
(* The test client: the vector has grown with the strings it has no room for, *)
(* and a pointer dangles if its string is short and the vector grew since.    *)
Growing == {2, 3, 5}
Moved(i, n) == \E k \in Growing : i < k /\ k <= n

HeapTypeOK ==
  /\ tc_glb_content_heap \in Seq(BOOLEAN) /\ Len(tc_glb_content_heap) <= 8
  /\ tc_glb_contents = 1..Len(tc_glb_content_heap)
  /\ tc_dangling \subseteq tc_glb_contents
CapacityFits ==
  LET n == Len(tc_glb_content_heap)
  IN  \/ n = 0 /\ tc_capacity = 0
      \/ n = 1 /\ tc_capacity = 1
      \/ n = 2 /\ tc_capacity = 2
      \/ n \in 3..4 /\ tc_capacity = 4
      \/ n \in 5..8 /\ tc_capacity = 8
MovedDangle ==
  \A i \in tc_glb_contents :
    i \in tc_dangling <=> tc_glb_content_heap[i] /\ Moved(i, Len(tc_glb_content_heap))
AnswersAreOld ==
  \A a \in tc_answered :
    /\ a[1] \in tc_glb_contents
    /\ a[2] => tc_glb_content_heap[a[1]] /\ a[1] < Len(tc_glb_content_heap)
ClosedInError == tc_closed_ => tc_error # "none"
HeapInv == HeapTypeOK /\ CapacityFits /\ MovedDangle
ClientInv == HeapInv /\ AnswersAreOld /\ ClosedInError

LEMMA ClientAnswers == ClientInv => Client!AnswersAreTheContent
  BY Zenon DEF ClientInv, HeapInv, MovedDangle, AnswersAreOld, ClosedInError, Moved, Growing,
               Client!AnswersAreTheContent

LEMMA ClientStarts == Client!Init => ClientInv
<1> SUFFICES ASSUME Client!Init PROVE ClientInv
  OBVIOUS
<1>1. /\ tc_glb_content_heap = <<>> /\ tc_capacity = 0 /\ tc_glb_contents = {}
      /\ tc_dangling = {} /\ tc_closed_ = FALSE /\ tc_answered = {}
  BY Zenon DEF Client!Init
<1>2. tc_glb_content_heap \in Seq(BOOLEAN) /\ Len(tc_glb_content_heap) = 0
  BY <1>1, EmptySeq
<1> QED BY <1>1, <1>2 DEF ClientInv, HeapInv, HeapTypeOK, CapacityFits, MovedDangle, AnswersAreOld,
                          ClosedInError

(* The vector grows with its second, third and fifth string.                  *)
LEMMA VectorGrows ==
  ASSUME NEW n \in 0..7, NEW c,
         \/ n = 0 /\ c = 0
         \/ n = 1 /\ c = 1
         \/ n = 2 /\ c = 2
         \/ n \in 3..4 /\ c = 4
         \/ n \in 5..8 /\ c = 8,
         NEW d, d = IF n + 1 > c THEN (IF c = 0 THEN 1 ELSE 2 * c) ELSE c
  PROVE  /\ n + 1 > c <=> n + 1 \in {1, 2, 3, 5}
         /\ \/ n + 1 = 1 /\ d = 1
            \/ n + 1 = 2 /\ d = 2
            \/ n + 1 \in 3..4 /\ d = 4
            \/ n + 1 \in 5..8 /\ d = 8
  OBVIOUS

LEMMA MovedSince ==
  ASSUME NEW n \in 0..7, NEW i \in 1..n
  PROVE  /\ n + 1 \in {1, 2, 3, 5} => Moved(i, n + 1)
         /\ n + 1 \notin {1, 2, 3, 5} => (Moved(i, n + 1) <=> Moved(i, n))
  BY DEF Moved, Growing

LEMMA ClientNotify ==
  ASSUME ClientInv, NEW short \in BOOLEAN, Client!Notify(short)
  PROVE  ClientInv'
<1> DEFINE h == tc_glb_content_heap
           h2 == tc_glb_content_heap'
           n == Len(h)
           grows == n + 1 > tc_capacity
<1>1. /\ n + 1 <= MaxContents /\ h2 = Append(h, short)
      /\ tc_capacity' = IF grows THEN (IF tc_capacity = 0 THEN 1 ELSE 2 * tc_capacity)
                        ELSE tc_capacity
      /\ tc_dangling' = IF grows THEN tc_dangling \cup {i \in DOMAIN h : h[i]} ELSE tc_dangling
      /\ tc_glb_contents' = tc_glb_contents \cup {n + 1}
      /\ tc_error' \in IF tc_error = "none" THEN {"none", "other"} ELSE {tc_error}
      /\ tc_closed_' = tc_closed_ /\ tc_answered' = tc_answered
  BY Zenon DEF Client!Notify
<1>2. /\ h \in Seq(BOOLEAN) /\ tc_glb_contents = 1..n /\ tc_dangling \subseteq 1..n
  BY Zenon DEF ClientInv, HeapInv, HeapTypeOK
<1>3. n \in Nat /\ DOMAIN h = 1..n
  BY <1>2, LenProperties
<1>4. n \in 0..7
  <2>1. MaxContents \in 0..8 /\ n + 1 <= MaxContents
    BY <1>1, StreamAssumption, Zenon DEF StreamAssumption
  <2> HIDE DEF n
  <2> QED BY <1>3, <2>1
<1>5. /\ h2 \in Seq(BOOLEAN) /\ Len(h2) = n + 1 /\ h2[n + 1] = short
      /\ \A i \in 1..n : h2[i] = h[i]
  BY <1>1, <1>2, AppendProperties
<1>6. /\ \/ n = 0 /\ tc_capacity = 0
         \/ n = 1 /\ tc_capacity = 1
         \/ n = 2 /\ tc_capacity = 2
         \/ n \in 3..4 /\ tc_capacity = 4
         \/ n \in 5..8 /\ tc_capacity = 8
      /\ \A i \in 1..n : i \in tc_dangling <=> h[i] /\ Moved(i, n)
  BY <1>2, Zenon DEF ClientInv, HeapInv, CapacityFits, MovedDangle
<1> HIDE DEF h, h2, n
<1>7. /\ grows <=> n + 1 \in {1, 2, 3, 5}
      /\ \/ n + 1 = 1 /\ tc_capacity' = 1
         \/ n + 1 = 2 /\ tc_capacity' = 2
         \/ n + 1 \in 3..4 /\ tc_capacity' = 4
         \/ n + 1 \in 5..8 /\ tc_capacity' = 8
  BY <1>1, <1>4, <1>6, VectorGrows
<1> HIDE DEF grows
<1>8. tc_glb_contents' = 1..n + 1 /\ tc_dangling' \subseteq 1..n
  <2>1. tc_glb_contents' = 1..n + 1
    BY <1>1, <1>2, <1>3
  <2>2. tc_dangling' \subseteq tc_dangling \cup DOMAIN h
    BY <1>1, Zenon
  <2> QED BY <1>2, <1>3, <2>1, <2>2
<1>9. HeapTypeOK'
  BY <1>4, <1>5, <1>8 DEF HeapTypeOK, h2
<1>10. CapacityFits'
  BY <1>5, <1>7, Zenon DEF CapacityFits, h2
<1>11. ASSUME NEW i \in 1..n PROVE i \in tc_dangling' <=> h2[i] /\ Moved(i, n + 1)
  <2>1. h2[i] = h[i] /\ (i \in tc_dangling <=> h[i] /\ Moved(i, n))
    BY <1>5, <1>6
  <2>2. CASE grows
    <3>1. Moved(i, n + 1)
      BY <1>4, <1>7, <2>2, MovedSince
    <3>2. i \in tc_dangling' <=> i \in tc_dangling \/ h[i]
      BY <1>1, <1>3, <2>2
    <3> QED BY <2>1, <3>1, <3>2
  <2>3. CASE ~grows
    <3>1. Moved(i, n + 1) <=> Moved(i, n)
      BY <1>4, <1>7, <2>3, MovedSince
    <3>2. tc_dangling' = tc_dangling
      BY <1>1, <2>3
    <3> QED BY <2>1, <3>1, <3>2
  <2> QED BY <2>2, <2>3
<1>12. ~Moved(n + 1, n + 1) /\ n + 1 \notin tc_dangling'
  BY <1>3, <1>8 DEF Moved, Growing
<1>13. \A i \in tc_glb_contents' : i \in 1..n \/ i = n + 1
  BY <1>3, <1>8
<1>14. MovedDangle'
  <2>1. \A i \in tc_glb_contents' : i \in tc_dangling' <=> h2[i] /\ Moved(i, n + 1)
    BY <1>11, <1>12, <1>13, Zenon
  <2> QED BY <1>5, <2>1, Zenon DEF MovedDangle, h2
<1>15. AnswersAreOld'
  <2>1. ASSUME NEW a \in tc_answered
        PROVE  a[1] \in 1..n + 1 /\ (a[2] => h2[a[1]] /\ a[1] < n + 1)
    <3>1. a[1] \in 1..n /\ (a[2] => h[a[1]] /\ a[1] < n)
      BY <1>2, Zenon DEF ClientInv, AnswersAreOld, h, n
    <3>2. a[1] \in 1..n + 1 /\ (a[1] < n => a[1] < n + 1)
      BY <1>3, <3>1
    <3> QED BY <1>5, <3>1, <3>2, Zenon
  <2> QED BY <1>1, <1>5, <1>8, <2>1, Zenon DEF AnswersAreOld, h2
<1>16. ClosedInError'
  BY <1>1 DEF ClientInv, ClosedInError
<1> QED BY <1>9, <1>10, <1>14, <1>15, <1>16 DEF ClientInv, HeapInv

LEMMA HeapKept ==
  ASSUME ClientInv, UNCHANGED <<tc_glb_content_heap, tc_capacity, tc_glb_contents, tc_dangling>>
  PROVE  HeapInv' /\ (UNCHANGED tc_answered => AnswersAreOld')
  BY Zenon DEF ClientInv, HeapInv, HeapTypeOK, CapacityFits, MovedDangle, AnswersAreOld

LEMMA ClientSteps == ClientInv /\ [Client!Next]_Client!vars => ClientInv'
<1> SUFFICES ASSUME ClientInv, [Client!Next]_Client!vars PROVE ClientInv'
  OBVIOUS
<1>1. CASE UNCHANGED Client!vars
  <2>1. UNCHANGED <<tc_glb_content_heap, tc_capacity, tc_glb_contents, tc_dangling, tc_answered,
                   tc_error, tc_closed_>>
    BY <1>1, Zenon DEF Client!vars
  <2> QED BY <2>1, HeapKept, Zenon DEF ClientInv, ClosedInError
<1>2. ASSUME NEW short \in BOOLEAN, Client!Notify(short) PROVE ClientInv'
  BY <1>2, ClientNotify
<1>3. ASSUME NEW i \in 1..MaxContents, Client!OnSyncRequest(i) PROVE ClientInv'
  <2>1. /\ tc_error = "none" /\ i \in tc_glb_contents
        /\ UNCHANGED <<tc_error, tc_closed_>> \/ tc_error' = "other"
        /\ tc_answered' = IF tc_error' = "none" THEN tc_answered \cup {<<i, i \in tc_dangling>>}
                          ELSE tc_answered
        /\ UNCHANGED <<tc_glb_content_heap, tc_capacity, tc_glb_contents, tc_dangling>>
    BY <1>3, Zenon DEF Client!OnSyncRequest, Client!Sends
  <2>2. HeapInv'
    BY <2>1, HeapKept, Zenon
  <2>3. i \in tc_dangling => tc_glb_content_heap[i] /\ i < Len(tc_glb_content_heap)
    <3>1. i \in tc_dangling => tc_glb_content_heap[i] /\ Moved(i, Len(tc_glb_content_heap))
      BY <2>1, Zenon DEF ClientInv, HeapInv, MovedDangle
    <3>2. Len(tc_glb_content_heap) \in Nat /\ i \in Nat
      BY LenProperties DEF ClientInv, HeapInv, HeapTypeOK
    <3>3. Moved(i, Len(tc_glb_content_heap)) => i < Len(tc_glb_content_heap)
      BY <3>2 DEF Moved, Growing
    <3> QED BY <3>1, <3>3
  <2>4. AnswersAreOld'
    <3>1. ASSUME NEW a \in tc_answered'
          PROVE  /\ a[1] \in tc_glb_contents
                 /\ a[2] => tc_glb_content_heap[a[1]] /\ a[1] < Len(tc_glb_content_heap)
      <4>1. CASE a \in tc_answered
        BY <4>1, Zenon DEF ClientInv, AnswersAreOld
      <4>2. CASE a = <<i, i \in tc_dangling>>
        <5>1. a[1] = i /\ (a[2] <=> i \in tc_dangling)
          BY <4>2
        <5> QED BY <2>1, <2>3, <5>1, Zenon
      <4> QED BY <2>1, <4>1, <4>2
    <3> QED BY <2>1, <3>1, Zenon DEF AnswersAreOld
  <2>5. ClosedInError'
    BY <2>1 DEF ClientInv, ClosedInError
  <2> QED BY <2>2, <2>4, <2>5 DEF ClientInv
<1>4. CASE Client!Start \/ Client!Command \/ Client!OnAuthenticateResponse \/ Client!OnInterrupt
           \/ Client!OnError \/ Client!HandlerEnds
  <2>1. UNCHANGED <<tc_glb_content_heap, tc_capacity, tc_glb_contents, tc_dangling, tc_answered>>
    BY <1>4, Zenon DEF Client!Start, Client!Command, Client!OnAuthenticateResponse,
                       Client!OnInterrupt, Client!OnError, Client!HandlerEnds
  <2>2. tc_error' = "other" \/ UNCHANGED <<tc_error, tc_closed_>>
    BY <1>4, Zenon DEF Client!Start, Client!Command, Client!OnAuthenticateResponse,
                       Client!OnInterrupt, Client!OnError, Client!HandlerEnds, Client!Sends
  <2>3. ClosedInError'
    BY <2>2 DEF ClientInv, ClosedInError
  <2> QED BY <2>1, <2>3, HeapKept, Zenon DEF ClientInv
<1> QED BY <1>1, <1>2, <1>3, <1>4, Zenon DEF Client!Next

(* What is answered is the content, but for short strings that the vector has *)
(* moved: AnswersAreTheContent of the test client.                            *)
THEOREM ContentsAreAnswered == Client!Spec => []Client!AnswersAreTheContent
<1>1. Client!Spec => []ClientInv
  BY ClientStarts, ClientSteps, PTL DEF Client!Spec
<1> QED BY <1>1, ClientAnswers, PTL

-----------------------------------------------------------------------------
(* The driver's objects: the first is the session's, each has some of what    *)
(* its class asks for, and nothing but a session or an encoder has a session. *)
SessionClasses == {"Session", "Encoder"}
HolderClasses == {"HostFrameBuffer", "HostLock", "DeviceFrameBuffer", "DeviceLock", "EncodeBuffer",
                  "HostReadLock"}
Gifts ==
  {"session", "input buffer", "locked input", "registered", "mapped", "bitstream",
   "locked bitstream"}
ObjectType ==
  [class : SessionClasses \cup HolderClasses, parent : Nat, got : Seq(Gifts)]
Owned(objects) ==
  UNION {{<<i, x>> : x \in Encoder!ToSet(objects[i].got) \ {"session"}} : i \in DOMAIN objects}

ObjectsTypeOK == es_objects \in Seq(ObjectType) /\ es_open \in BOOLEAN
SessionIsFirst == es_objects # <<>> => es_objects[1].class = "Session"
GotWasAsked ==
  \A i \in DOMAIN es_objects :
    /\ Encoder!ToSet(es_objects[i].got) \subseteq Encoder!ToSet(Encoder!Asked(es_objects[i].class))
    /\ Len(es_objects[i].got) <= Len(Encoder!Asked(es_objects[i].class))
ObjectsInv ==
  /\ ObjectsTypeOK /\ SessionIsFirst /\ GotWasAsked
  /\ es_open => es_given = Owned(es_objects)
  /\ es_objects = <<>> /\ es_given # {} => <<"Session", "session">> \in es_refused

LEMMA DriverKeeps == ObjectsInv => Encoder!GivenIsOwned
  BY Zenon DEF ObjectsInv, Owned, Encoder!GivenIsOwned

LEMMA SetOfSeq ==
  ASSUME NEW S, NEW s \in Seq(S)
  PROVE  Encoder!ToSet(s) = {s[i] : i \in 1..Len(s)} /\ Len(s) \in Nat
  BY LenProperties DEF Encoder!ToSet

LEMMA AskedOf ==
  /\ Encoder!Asked("Session") = <<"session">>
  /\ Encoder!Asked("Encoder") = <<"session">>
  /\ Encoder!Asked("HostFrameBuffer") = <<"input buffer">>
  /\ Encoder!Asked("HostLock") = <<"locked input">>
  /\ Encoder!Asked("DeviceFrameBuffer") = <<>>
  /\ Encoder!Asked("DeviceLock") = <<"registered", "mapped">>
  /\ Encoder!Asked("EncodeBuffer") = <<"bitstream">>
  /\ Encoder!Asked("HostReadLock") = <<"locked bitstream">>
  BY DEF Encoder!Asked, Encoder!Session, Encoder!Encoder, Encoder!HostFrameBuffer,
         Encoder!HostLock, Encoder!DeviceFrameBuffer, Encoder!DeviceLock, Encoder!EncodeBuffer,
         Encoder!HostReadLock

LEMMA SetsOfFew ==
  /\ Encoder!ToSet(<<>>) = {}
  /\ \A x : Encoder!ToSet(<<x>>) = {x}
  /\ \A x, y : Encoder!ToSet(<<x, y>>) = {x, y}
<1>1. Encoder!ToSet(<<>>) = {}
  BY DEF Encoder!ToSet
<1>2. ASSUME NEW x PROVE Encoder!ToSet(<<x>>) = {x}
  BY DEF Encoder!ToSet
<1>3. ASSUME NEW x, NEW y PROVE Encoder!ToSet(<<x, y>>) = {x, y}
  <2>1. DOMAIN <<x, y>> = {1, 2} /\ <<x, y>>[1] = x /\ <<x, y>>[2] = y
    OBVIOUS
  <2> HIDE DEF Encoder!ToSet
  <2> QED BY <2>1 DEF Encoder!ToSet
<1> QED BY <1>1, <1>2, <1>3

LEMMA OneIsSeq ==
  ASSUME NEW S, NEW x \in S
  PROVE  <<x>> \in Seq(S) /\ Len(<<x>>) = 1
  OBVIOUS

LEMMA TwoAreSeq ==
  ASSUME NEW S, NEW x \in S, NEW y \in S
  PROVE  <<x, y>> \in Seq(S) /\ Len(<<x, y>>) = 2
  OBVIOUS

LEMMA SessionsAsk ==
  \A c \in SessionClasses :
    /\ Encoder!Asked(c) \in Seq(Gifts) /\ Len(Encoder!Asked(c)) = 1
    /\ Encoder!ToSet(Encoder!Asked(c)) = {"session"}
<1>1. <<"session">> \in Seq(Gifts) /\ Len(<<"session">>) = 1
  BY OneIsSeq DEF Gifts
<1> QED BY <1>1, AskedOf, SetsOfFew DEF SessionClasses

LEMMA HoldersAsk ==
  \A c \in HolderClasses :
    /\ Encoder!Asked(c) \in Seq(Gifts) /\ Len(Encoder!Asked(c)) \in 0..2
    /\ "session" \notin Encoder!ToSet(Encoder!Asked(c))
<1>1. ASSUME NEW c \in HolderClasses, NEW x \in Gifts, Encoder!Asked(c) = <<x>>,
             x # "session"
      PROVE  /\ Encoder!Asked(c) \in Seq(Gifts) /\ Len(Encoder!Asked(c)) \in 0..2
             /\ "session" \notin Encoder!ToSet(Encoder!Asked(c))
  <2>1. <<x>> \in Seq(Gifts) /\ Len(<<x>>) \in 0..2
    BY OneIsSeq
  <2> QED BY <1>1, <2>1, SetsOfFew
<1>2. ASSUME NEW c \in HolderClasses, NEW x \in Gifts, NEW y \in Gifts,
             Encoder!Asked(c) = <<x, y>>, x # "session", y # "session"
      PROVE  /\ Encoder!Asked(c) \in Seq(Gifts) /\ Len(Encoder!Asked(c)) \in 0..2
             /\ "session" \notin Encoder!ToSet(Encoder!Asked(c))
  <2>1. <<x, y>> \in Seq(Gifts) /\ Len(<<x, y>>) \in 0..2
    BY TwoAreSeq
  <2> QED BY <1>2, <2>1, SetsOfFew
<1>3. /\ <<>> \in Seq(Gifts) /\ Len(<<>>) \in 0..2
      /\ "session" \notin Encoder!ToSet(<<>>)
  BY EmptySeq, SetsOfFew
<1> SUFFICES ASSUME NEW c \in HolderClasses
             PROVE  /\ Encoder!Asked(c) \in Seq(Gifts) /\ Len(Encoder!Asked(c)) \in 0..2
                    /\ "session" \notin Encoder!ToSet(Encoder!Asked(c))
  OBVIOUS
<1>4. CASE c = "HostFrameBuffer"
  BY <1>1, <1>4, AskedOf DEF Gifts
<1>5. CASE c = "HostLock"
  BY <1>1, <1>5, AskedOf DEF Gifts
<1>6. CASE c = "DeviceFrameBuffer"
  BY <1>3, <1>6, AskedOf
<1>7. CASE c = "DeviceLock"
  BY <1>2, <1>7, AskedOf DEF Gifts
<1>8. CASE c = "EncodeBuffer"
  BY <1>1, <1>8, AskedOf DEF Gifts
<1>9. CASE c = "HostReadLock"
  BY <1>1, <1>9, AskedOf DEF Gifts
<1> QED BY <1>4, <1>5, <1>6, <1>7, <1>8, <1>9 DEF HolderClasses

LEMMA SomeOfAsked ==
  ASSUME NEW s \in Seq(Gifts), NEW n \in Nat, n <= Len(s)
  PROVE  /\ SubSeq(s, 1, n) \in Seq(Gifts) /\ Len(SubSeq(s, 1, n)) = n
         /\ Encoder!ToSet(SubSeq(s, 1, n)) \subseteq Encoder!ToSet(s)
<1> DEFINE t == SubSeq(s, 1, n)
<1>1. Len(s) \in Nat /\ DOMAIN s = 1..Len(s) /\ \A i \in 1..Len(s) : s[i] \in Gifts
  BY LenProperties
<1>2. \A i \in 1..n : s[i] \in Gifts
  BY <1>1
<1>3. /\ t \in Seq(Gifts) /\ Len(t) = IF 1 <= n THEN n - 1 + 1 ELSE 0
      /\ \A i \in 1..n - 1 + 1 : t[i] = s[1 + i - 1]
  <2> HIDE DEF t
  <2>1. SubSeq(s, 1, n) = t
    BY DEF t
  <2> QED BY <1>2, <2>1, SubSeqProperties
<1> HIDE DEF t
<1>4. Len(t) = n /\ \A i \in 1..n : t[i] = s[i]
  BY <1>3
<1>5. DOMAIN t = 1..n
  BY <1>3, <1>4, LenProperties
<1>6. Encoder!ToSet(t) \subseteq Encoder!ToSet(s)
  BY <1>1, <1>4, <1>5 DEF Encoder!ToSet
<1> QED BY <1>3, <1>4, <1>6 DEF t

(* An object is added behind the others, or the last one taken away.          *)
LEMMA ObjectAdded ==
  ASSUME NEW s \in Seq(ObjectType), NEW o \in ObjectType
  PROVE  /\ Append(s, o) \in Seq(ObjectType) /\ Append(s, o) # <<>>
         /\ s # <<>> => Append(s, o)[1] = s[1]
         /\ s = <<>> => Append(s, o)[1] = o
         /\ DOMAIN Append(s, o) = DOMAIN s \cup {Len(s) + 1}
         /\ \A i \in DOMAIN s : Append(s, o)[i] = s[i]
         /\ Append(s, o)[Len(s) + 1] = o
         /\ Owned(Append(s, o)) =
              Owned(s) \cup {<<Len(s) + 1, x>> : x \in Encoder!ToSet(o.got) \ {"session"}}
<1> DEFINE t == Append(s, o)
           n == Len(s)
           m == n + 1
<1>1. n \in Nat /\ DOMAIN s = 1..n /\ (s # <<>> => n # 0) /\ (s = <<>> => n = 0)
  BY EmptySeq, LenProperties
<1>2. t \in Seq(ObjectType) /\ t # <<>> /\ Len(t) = m /\ (\A i \in 1..n : t[i] = s[i]) /\ t[m] = o
  BY AppendProperties
<1> HIDE DEF t
<1>3. DOMAIN t = DOMAIN s \cup {m} /\ \A i \in DOMAIN s : i # m
  BY <1>1, <1>2, LenProperties
<1>4. /\ s # <<>> => t[1] = s[1]
      /\ s = <<>> => t[1] = o
  BY <1>1, <1>2
<1> HIDE DEF n, m
<1>5. Owned(t) = Owned(s) \cup {<<m, x>> : x \in Encoder!ToSet(o.got) \ {"session"}}
  BY <1>1, <1>2, <1>3 DEF Owned
<1> QED BY <1>1, <1>2, <1>3, <1>4, <1>5 DEF t, m, n

LEMMA ObjectTaken ==
  ASSUME NEW s \in Seq(ObjectType), s # <<>>
  PROVE  /\ Encoder!Front(s) \in Seq(ObjectType)
         /\ Len(s) \in DOMAIN s /\ Encoder!Last(s) = s[Len(s)]
         /\ DOMAIN Encoder!Front(s) = DOMAIN s \ {Len(s)}
         /\ \A i \in DOMAIN s \ {Len(s)} : Encoder!Front(s)[i] = s[i]
         /\ Encoder!Front(s) = <<>> => Len(s) = 1
         /\ Encoder!Front(s) # <<>> => 1 \in DOMAIN s \ {Len(s)}
         /\ Owned(s) = Owned(Encoder!Front(s)) \cup
              {<<Len(s), x>> : x \in Encoder!ToSet(s[Len(s)].got) \ {"session"}}
<1> DEFINE t == Encoder!Front(s)
           n == Len(s)
<1>1. n \in Nat /\ n > 0 /\ DOMAIN s = 1..n /\ \A i \in 1..n : s[i] \in ObjectType
  BY EmptySeq, LenProperties
<1>2. \A i \in 1..n - 1 : s[i] \in ObjectType
  BY <1>1
<1>3. t = SubSeq(s, 1, n - 1)
  BY DEF Encoder!Front
<1> HIDE DEF t
<1>4. /\ t \in Seq(ObjectType) /\ Len(t) = IF 1 <= n - 1 THEN (n - 1) - 1 + 1 ELSE 0
      /\ \A i \in 1..(n - 1) - 1 + 1 : t[i] = s[1 + i - 1]
  BY <1>1, <1>2, <1>3, SubSeqProperties
<1>5. Len(t) = n - 1 /\ \A i \in 1..n - 1 : t[i] = s[i]
  <2>1. n \in Nat /\ n > 0
    BY <1>1
  <2> HIDE DEF n
  <2> QED BY <1>4, <2>1
<1>6. DOMAIN t = 1..n - 1
  BY <1>4, <1>5, LenProperties
<1>7. DOMAIN t = DOMAIN s \ {n} /\ n \in DOMAIN s
  BY <1>1, <1>6
<1>8. /\ t = <<>> => n = 1
      /\ t # <<>> => 1 \in DOMAIN s \ {n}
  <2>1. /\ t = <<>> => Len(t) = 0
        /\ t # <<>> => Len(t) # 0
    BY <1>4, EmptySeq
  <2> QED BY <1>1, <1>5, <2>1
<1>9. \A i \in DOMAIN s \ {n} : t[i] = s[i]
  BY <1>1, <1>5
<1>10. Encoder!Last(s) = s[n]
  BY DEF Encoder!Last
<1> HIDE DEF n
<1>11. Owned(s) = Owned(t) \cup {<<n, x>> : x \in Encoder!ToSet(s[n].got) \ {"session"}}
  BY <1>7, <1>9 DEF Owned
<1> QED BY <1>4, <1>7, <1>8, <1>9, <1>10, <1>11 DEF t, n

-----------------------------------------------------------------------------
LEMMA ObjectsStart == Encoder!Init => ObjectsInv
<1> SUFFICES ASSUME Encoder!Init PROVE ObjectsInv
  OBVIOUS
<1>1. es_objects = <<>> /\ es_open = FALSE /\ es_given = {}
  BY Zenon DEF Encoder!Init
<1>2. es_objects \in Seq(ObjectType) /\ DOMAIN es_objects = {}
  BY <1>1, EmptySeq
<1> QED BY <1>1, <1>2 DEF ObjectsInv, ObjectsTypeOK, SessionIsFirst, GotWasAsked

(* An object is made: it is a session if it is the first, and what it got is  *)
(* given.                                                                     *)
LEMMA ObjectMade ==
  ASSUME ObjectsInv, NEW c \in SessionClasses \cup HolderClasses, NEW p \in Nat, NEW n \in Nat,
         n <= Len(Encoder!Asked(c)), Encoder!Push(c, p, n),
         es_objects = <<>> => c = "Session" /\ es_given = {},
         es_given' = es_given \cup
           {<<Len(es_objects) + 1, x>> :
              x \in Encoder!ToSet(SubSeq(Encoder!Asked(c), 1, n)) \ {"session"}},
         es_open' \in BOOLEAN, es_open' => es_open \/ es_objects = <<>>,
         es_refused' = es_refused
  PROVE  ObjectsInv'
<1> DEFINE g == SubSeq(Encoder!Asked(c), 1, n)
           o == [class |-> c, parent |-> p, got |-> g]
           s == es_objects
<1>1. Encoder!Asked(c) \in Seq(Gifts)
  BY SessionsAsk, HoldersAsk
<1>2. /\ g \in Seq(Gifts) /\ Len(g) = n
      /\ Encoder!ToSet(g) \subseteq Encoder!ToSet(Encoder!Asked(c))
  BY <1>1, SomeOfAsked
<1>3. s \in Seq(ObjectType) /\ es_objects' = Append(s, o)
  BY Zenon DEF ObjectsInv, ObjectsTypeOK, Encoder!Push
<1> HIDE DEF g
<1>4. o \in ObjectType /\ o.class = c /\ o.got = g
  BY <1>2 DEF ObjectType
<1> HIDE DEF o, s
<1>5. /\ es_objects' \in Seq(ObjectType) /\ es_objects' # <<>>
      /\ s # <<>> => es_objects'[1] = s[1]
      /\ s = <<>> => es_objects'[1] = o
      /\ DOMAIN es_objects' = DOMAIN s \cup {Len(s) + 1}
      /\ \A i \in DOMAIN s : es_objects'[i] = s[i]
      /\ es_objects'[Len(s) + 1] = o
      /\ Owned(es_objects') =
           Owned(s) \cup {<<Len(s) + 1, x>> : x \in Encoder!ToSet(o.got) \ {"session"}}
  BY <1>3, <1>4, ObjectAdded
<1>6. ObjectsTypeOK'
  BY <1>5, Zenon DEF ObjectsTypeOK
<1>7. SessionIsFirst'
  BY <1>4, <1>5, Zenon DEF ObjectsInv, SessionIsFirst, s
<1>8. GotWasAsked'
  <2>1. \A i \in DOMAIN s :
          /\ Encoder!ToSet(s[i].got) \subseteq Encoder!ToSet(Encoder!Asked(s[i].class))
          /\ Len(s[i].got) <= Len(Encoder!Asked(s[i].class))
    BY Zenon DEF ObjectsInv, GotWasAsked, s
  <2>2. \A i \in DOMAIN es_objects' : i \in DOMAIN s \/ i = Len(s) + 1
    BY <1>5, Zenon
  <2> QED BY <1>2, <1>4, <1>5, <2>1, <2>2, Zenon DEF GotWasAsked
<1>9. ASSUME es_open' PROVE es_given' = Owned(es_objects')
  <2>1. es_given' = es_given \cup {<<Len(s) + 1, x>> : x \in Encoder!ToSet(g) \ {"session"}}
    BY DEF s, g
  <2>2. es_given = Owned(s)
    <3>1. CASE s = <<>>
      <4>1. DOMAIN s = {}
        BY <3>1
      <4>2. Owned(s) = {}
        BY <4>1, Zenon DEF Owned
      <4> QED BY <3>1, <4>2 DEF s
    <3>2. CASE s # <<>>
      BY <1>9, <3>2, Zenon DEF ObjectsInv, s
    <3> QED BY <3>1, <3>2
  <2> QED BY <1>4, <1>5, <2>1, <2>2, Zenon
<1> QED BY <1>5, <1>6, <1>7, <1>8, <1>9, Zenon DEF ObjectsInv

LEMMA ObjectGone ==
  ASSUME ObjectsInv, Encoder!Destroy
  PROVE  ObjectsInv'
<1> DEFINE s == es_objects
           n == Len(s)
           o == s[n]
           mine == {<<n, x>> : x \in Encoder!ToSet(Encoder!Asked(o.class))}
           closes == o.class \in SessionClasses
           rest == Encoder!Front(s)
<1>1. s \in Seq(ObjectType) /\ s # <<>> /\ es_objects' = rest /\ es_open \in BOOLEAN
  BY Zenon DEF ObjectsInv, ObjectsTypeOK, Encoder!Destroy
<1>2. /\ rest \in Seq(ObjectType)
      /\ n \in DOMAIN s /\ Encoder!Last(s) = s[n]
      /\ DOMAIN rest = DOMAIN s \ {n}
      /\ \A i \in DOMAIN s \ {n} : rest[i] = s[i]
      /\ rest = <<>> => n = 1
      /\ rest # <<>> => 1 \in DOMAIN s \ {n}
      /\ Owned(s) = Owned(rest) \cup {<<n, x>> : x \in Encoder!ToSet(o.got) \ {"session"}}
  BY <1>1, ObjectTaken
<1>3. /\ es_open' = (es_open /\ ~closes)
      /\ es_given' = IF es_open THEN es_given \ mine ELSE es_given
      /\ es_refused' = es_refused \cup
           (IF ~es_open THEN {<<o.class, x>> : x \in Encoder!ToSet(Encoder!Asked(o.class))}
            ELSE IF closes THEN {}
            ELSE {<<o.class, x[2]>> : x \in mine \ es_given})
  BY <1>2 DEF Encoder!Destroy, SessionClasses
<1>4. /\ Encoder!ToSet(o.got) \subseteq Encoder!ToSet(Encoder!Asked(o.class))
      /\ \A i \in DOMAIN rest :
           /\ Encoder!ToSet(rest[i].got) \subseteq Encoder!ToSet(Encoder!Asked(rest[i].class))
           /\ Len(rest[i].got) <= Len(Encoder!Asked(rest[i].class))
  BY <1>2, Zenon DEF ObjectsInv, GotWasAsked
<1>5. s[1].class = "Session"
  BY <1>1, Zenon DEF ObjectsInv, SessionIsFirst
<1>6. es_open => es_given = Owned(s)
  BY Zenon DEF ObjectsInv
<1> HIDE DEF s, n, o, rest, mine, closes
<1>7. ObjectsTypeOK' /\ SessionIsFirst' /\ GotWasAsked'
  <2>1. es_open' \in BOOLEAN
    BY <1>1, <1>3
  <2>2. ObjectsTypeOK'
    BY <1>1, <1>2, <2>1, Zenon DEF ObjectsTypeOK
  <2>3. SessionIsFirst'
    BY <1>1, <1>2, <1>5, Zenon DEF SessionIsFirst
  <2> QED BY <1>1, <1>4, <2>2, <2>3, Zenon DEF GotWasAsked
<1>8. ASSUME es_open' PROVE es_given' = Owned(rest)
  <2>1. es_open /\ es_given' = Owned(s) \ mine
    BY <1>3, <1>6, <1>8
  <2>2. \A y \in Owned(rest) : y \notin mine
    <3>1. \A i \in DOMAIN rest : i # n
      BY <1>2, Zenon
    <3> QED BY <3>1 DEF Owned, mine
  <2>3. {<<n, x>> : x \in Encoder!ToSet(o.got) \ {"session"}} \subseteq mine
    BY <1>4 DEF mine
  <2> QED BY <1>2, <2>1, <2>2, <2>3
<1>9. ASSUME rest = <<>>, es_given' # {} PROVE <<"Session", "session">> \in es_refused'
  <2>1. n = 1 /\ o.class = "Session"
    BY <1>2, <1>5, <1>9 DEF o
  <2>2. Encoder!ToSet(Encoder!Asked(o.class)) = {"session"}
    BY <2>1, SessionsAsk DEF SessionClasses
  <2>3. CASE es_open
    <3>1. Owned(rest) = {}
      <4>1. DOMAIN rest = {}
        BY <1>9
      <4> QED BY <4>1, Zenon DEF Owned
    <3>2. Encoder!ToSet(o.got) \ {"session"} = {}
      BY <1>4, <2>2
    <3>3. Owned(s) = {}
      BY <1>2, <3>1, <3>2
    <3> QED BY <1>3, <1>6, <1>9, <2>3, <3>3
  <2>4. CASE ~es_open
    BY <1>3, <2>1, <2>2, <2>4
  <2> QED BY <1>1, <2>3, <2>4
<1> QED BY <1>1, <1>7, <1>8, <1>9, Zenon DEF ObjectsInv

LEMMA ObjectsKept ==
  ASSUME ObjectsInv, UNCHANGED <<es_objects, es_open, es_given, es_refused>>
  PROVE  ObjectsInv'
  BY Zenon DEF ObjectsInv, ObjectsTypeOK, SessionIsFirst, GotWasAsked

LEMMA ObjectsStep == ObjectsInv /\ Encoder!Classes => ObjectsInv'
<1> SUFFICES ASSUME ObjectsInv, Encoder!Classes PROVE ObjectsInv'
  OBVIOUS
<1> DEFINE s == es_objects
<1>0. es_open \in BOOLEAN /\ s \in Seq(ObjectType)
  BY Zenon DEF ObjectsInv, ObjectsTypeOK
<1>1. CASE Encoder!Destroy
  BY <1>1, ObjectGone
<1>2. CASE Encoder!MakeEncoder
  <2>1. /\ s # <<>> /\ Encoder!Push("Encoder", 0, Len(s[1].got))
        /\ UNCHANGED <<es_open, es_given, es_refused>>
    BY <1>2, Zenon DEF Encoder!MakeEncoder
  <2>2. 1 \in DOMAIN s /\ s[1] \in ObjectType
    BY <1>0, <2>1, EmptySeq, LenProperties
  <2>3. s[1].got \in Seq(Gifts)
    BY <2>2 DEF ObjectType
  <2>4. Len(s[1].got) \in Nat /\ Len(s[1].got) <= 1
    <3>1. s[1].class = "Session"
      BY <2>1, Zenon DEF ObjectsInv, SessionIsFirst
    <3>2. Len(s[1].got) <= Len(Encoder!Asked("Session"))
      BY <2>2, <3>1, Zenon DEF ObjectsInv, GotWasAsked
    <3>3. Len(Encoder!Asked("Session")) = 1
      BY SessionsAsk DEF SessionClasses
    <3> QED BY <2>3, <3>2, <3>3, LenProperties
  <2> DEFINE n == Len(s[1].got)
             g == SubSeq(Encoder!Asked("Encoder"), 1, n)
  <2>5. /\ Encoder!Asked("Encoder") \in Seq(Gifts) /\ Len(Encoder!Asked("Encoder")) = 1
        /\ Encoder!ToSet(Encoder!Asked("Encoder")) = {"session"}
    BY SessionsAsk DEF SessionClasses
  <2>6. Encoder!ToSet(g) \subseteq {"session"}
    <3> HIDE DEF n
    <3> QED BY <2>4, <2>5, SomeOfAsked DEF n
  <2> HIDE DEF g
  <2>7. es_given' = es_given \cup {<<Len(s) + 1, x>> : x \in Encoder!ToSet(g) \ {"session"}}
    BY <2>1, <2>6
  <2>8. /\ "Encoder" \in SessionClasses \cup HolderClasses /\ 0 \in Nat /\ n \in Nat
        /\ n <= Len(Encoder!Asked("Encoder"))
    BY <2>4, <2>5 DEF SessionClasses
  <2>9. es_open' \in BOOLEAN /\ (es_open' => es_open)
    BY <1>0, <2>1
  <2> HIDE DEF n
  <2> QED BY <2>1, <2>7, <2>8, <2>9, ObjectMade, Zenon DEF g, n
<1>3. ASSUME NEW n \in 0..2, n <= 1, Encoder!MakeSession(n) PROVE ObjectsInv'
  <2>1. /\ s = <<>> /\ es_given = {} /\ Encoder!Push("Session", 0, n) /\ es_open' = (n = 1)
        /\ UNCHANGED <<es_given, es_refused>>
    BY <1>3, Zenon DEF Encoder!MakeSession
  <2> DEFINE g == SubSeq(Encoder!Asked("Session"), 1, n)
  <2>2. /\ Encoder!Asked("Session") \in Seq(Gifts) /\ Len(Encoder!Asked("Session")) = 1
        /\ Encoder!ToSet(Encoder!Asked("Session")) = {"session"}
    BY SessionsAsk DEF SessionClasses
  <2>3. n \in Nat /\ n <= Len(Encoder!Asked("Session"))
    BY <1>3, <2>2
  <2>4. Encoder!ToSet(g) \subseteq {"session"}
    BY <2>2, <2>3, SomeOfAsked
  <2> HIDE DEF g
  <2>5. es_given' = es_given \cup {<<Len(s) + 1, x>> : x \in Encoder!ToSet(g) \ {"session"}}
    BY <2>1, <2>4
  <2>6. "Session" \in SessionClasses \cup HolderClasses /\ 0 \in Nat /\ es_open' \in BOOLEAN
    BY <2>1 DEF SessionClasses
  <2> QED BY <2>1, <2>3, <2>5, <2>6, ObjectMade, Zenon DEF g
<1>4. ASSUME NEW c \in HolderClasses, NEW p \in Nat, NEW n \in 0..2, n <= Len(Encoder!Asked(c)),
             s # <<>>, Encoder!Push(c, p, n),
             es_given' = es_given \cup
               {<<Len(s) + 1, x>> : x \in Encoder!ToSet(SubSeq(Encoder!Asked(c), 1, n))},
             UNCHANGED <<es_open, es_refused>>
      PROVE  ObjectsInv'
  <2> DEFINE g == SubSeq(Encoder!Asked(c), 1, n)
  <2>1. Encoder!Asked(c) \in Seq(Gifts) /\ "session" \notin Encoder!ToSet(Encoder!Asked(c))
    BY HoldersAsk
  <2>2. n \in Nat
    OBVIOUS
  <2>3. Encoder!ToSet(g) \subseteq Encoder!ToSet(Encoder!Asked(c))
    BY <1>4, <2>1, <2>2, SomeOfAsked
  <2> HIDE DEF g
  <2>4. Encoder!ToSet(g) \ {"session"} = Encoder!ToSet(g)
    BY <2>1, <2>3
  <2>5. es_given' = es_given \cup {<<Len(s) + 1, x>> : x \in Encoder!ToSet(g) \ {"session"}}
    BY <1>4, <2>4, Zenon DEF g
  <2>6. /\ c \in SessionClasses \cup HolderClasses
        /\ es_open' \in BOOLEAN /\ (es_open' => es_open) /\ es_refused' = es_refused
    BY <1>0, <1>4
  <2> QED BY <1>4, <2>2, <2>5, <2>6, ObjectMade, Zenon DEF g
<1>5. ASSUME NEW n \in 0..2, NEW c \in Encoder!Parents, n <= Len(Encoder!Asked(c)),
             Encoder!MakeParent(c, n)
      PROVE  ObjectsInv'
  <2>1. c \in HolderClasses /\ 0 \in Nat
    BY DEF Encoder!Parents, HolderClasses
  <2>2. s # <<>> /\ UNCHANGED <<es_open, es_refused>>
    BY <1>5, Zenon DEF Encoder!MakeParent
  <2>3. CASE c = "DeviceFrameBuffer" /\ es_objects[1].got = <<>>
    <3>1. UNCHANGED <<es_objects, es_given>>
      BY <1>5, <2>3, Zenon DEF Encoder!MakeParent
    <3> QED BY <2>2, <3>1, ObjectsKept
  <2>4. CASE ~(c = "DeviceFrameBuffer" /\ es_objects[1].got = <<>>)
    <3>1. /\ Encoder!Push(c, 0, n)
          /\ es_given' = es_given \cup
               {<<Len(s) + 1, x>> : x \in Encoder!ToSet(SubSeq(Encoder!Asked(c), 1, n))}
      BY <1>5, <2>4, Zenon DEF Encoder!MakeParent
    <3> QED BY <1>4, <1>5, <2>1, <2>2, <3>1
  <2> QED BY <2>3, <2>4
<1>6. ASSUME NEW n \in 0..2, NEW c \in DOMAIN Encoder!Locks, NEW p \in DOMAIN es_objects,
             n <= Len(Encoder!Asked(c)), Encoder!MakeLock(c, p, n)
      PROVE  ObjectsInv'
  <2>1. c \in HolderClasses
    BY DEF Encoder!Locks, HolderClasses
  <2>2. p \in Nat /\ s # <<>>
    BY <1>0, LenProperties
  <2>3. /\ Encoder!Push(c, p, n)
        /\ es_given' = es_given \cup
               {<<Len(s) + 1, x>> : x \in Encoder!ToSet(SubSeq(Encoder!Asked(c), 1, n))}
        /\ UNCHANGED <<es_open, es_refused>>
    BY <1>6, Zenon DEF Encoder!MakeLock
  <2> QED BY <1>4, <1>6, <2>1, <2>2, <2>3
<1> QED BY <1>1, <1>2, <1>3, <1>5, <1>6, Zenon DEF Encoder!Classes

LEMMA ObjectsSteps == ObjectsInv /\ [Encoder!Next]_Encoder!vars => ObjectsInv'
<1> SUFFICES ASSUME ObjectsInv, [Encoder!Next]_Encoder!vars PROVE ObjectsInv'
  OBVIOUS
<1>1. CASE UNCHANGED Encoder!objectVars
  BY <1>1, ObjectsKept, Zenon DEF Encoder!objectVars
<1>2. CASE Encoder!Classes
  BY <1>2, ObjectsStep
<1> QED BY <1>1, <1>2, Zenon DEF Encoder!Next, Encoder!vars

(* What the driver has given belongs to an object while its session is open,  *)
(* and is lost only if the session was ended twice: GivenIsOwned of the       *)
(* encoder.                                                                   *)
THEOREM GivenBelongs == Encoder!Spec => []Encoder!GivenIsOwned
<1>1. Encoder!Spec => []ObjectsInv
  BY ObjectsStart, ObjectsSteps, PTL DEF Encoder!Spec
<1> QED BY <1>1, DriverKeeps, PTL

-----------------------------------------------------------------------------
(* Messages: every parser reads what its generator writes, but for what names *)
(* a clip without a type.                                                     *)
LEMMA RequestsParse ==
  /\ Wire!Reads(Wire!ParseAuthenticateRequest, Wire!GenerateAuthenticateRequest)
  /\ Wire!Reads(Wire!ParseAuthenticateResponse, Wire!GenerateAuthenticateResponse)
  /\ Wire!Reads(Wire!ParseRefreshIndexRequest, Wire!GenerateRefreshIndexRequest)
  /\ Wire!Reads(Wire!ParseRefreshIndexResponse, Wire!GenerateRefreshIndexResponse)
  /\ Wire!Reads(Wire!ParseNotifyAvailableRequest, Wire!GenerateNotifyAvailableRequest(TRUE))
  /\ Wire!Reads(Wire!ParseSyncRequest, Wire!GenerateSyncRequest)
  /\ Wire!Reads(Wire!ParseSyncResponse, Wire!GenerateSyncResponse)
  /\ Wire!Reads(Wire!ParsePing, Wire!GeneratePing)
  /\ Wire!Reads(Wire!ParseContent, Wire!GenerateContent(TRUE))
<1> USE DEF Wire!anything
<1>1. Wire!Reads(Wire!ParseAuthenticateRequest, Wire!GenerateAuthenticateRequest)
  BY DEF Wire!Reads, Wire!ParseAuthenticateRequest, Wire!GenerateAuthenticateRequest
<1>2. Wire!Reads(Wire!ParseAuthenticateResponse, Wire!GenerateAuthenticateResponse)
  BY DEF Wire!Reads, Wire!ParseAuthenticateResponse, Wire!GenerateAuthenticateResponse
<1>3. Wire!Reads(Wire!ParseRefreshIndexRequest, Wire!GenerateRefreshIndexRequest)
  BY DEF Wire!Reads, Wire!ParseRefreshIndexRequest, Wire!GenerateRefreshIndexRequest
<1>4. Wire!Reads(Wire!ParseRefreshIndexResponse, Wire!GenerateRefreshIndexResponse)
  BY DEF Wire!Reads, Wire!ParseRefreshIndexResponse, Wire!GenerateRefreshIndexResponse, Wire!array
<1>5. Wire!Reads(Wire!ParseNotifyAvailableRequest, Wire!GenerateNotifyAvailableRequest(TRUE))
  BY DEF Wire!Reads, Wire!ParseNotifyAvailableRequest, Wire!GenerateNotifyAvailableRequest,
         Wire!array, Wire!string
<1>6. Wire!Reads(Wire!ParseSyncRequest, Wire!GenerateSyncRequest)
  BY DEF Wire!Reads, Wire!ParseSyncRequest, Wire!GenerateSyncRequest
<1>7. Wire!Reads(Wire!ParseSyncResponse, Wire!GenerateSyncResponse)
  BY DEF Wire!Reads, Wire!ParseSyncResponse, Wire!GenerateSyncResponse
<1>8. Wire!Reads(Wire!ParsePing, Wire!GeneratePing)
  BY DEF Wire!Reads, Wire!ParsePing, Wire!GeneratePing
<1>9. Wire!Reads(Wire!ParseContent, Wire!GenerateContent(TRUE))
  BY DEF Wire!Reads, Wire!ParseContent, Wire!GenerateContent, Wire!array
<1> QED BY <1>1, <1>2, <1>3, <1>4, <1>5, <1>6, <1>7, <1>8, <1>9

LEMMA MessageTypes ==
  DOMAIN Wire!Parsers = {"authenticate_request", "authenticate_response", "refresh_index_request",
    "refresh_index_response", "notify_available_request", "sync_request", "sync_response", "ping"}
  BY DEF Wire!Parsers

LEMMA TypedParses ==
  ASSUME NEW m \in Wire!Messages, m.typed
  PROVE  Wire!Parses(m)
<1>1. m.type \in DOMAIN Wire!Parsers /\ m.typed = TRUE
  BY DEF Wire!Messages
<1>2. Wire!Reads(Wire!Parsers[m.type], Wire!Generators(TRUE)[m.type]) => Wire!Parses(m)
  BY <1>1, RequestsParse, Zenon DEF Wire!Parses
<1>3. CASE m.type = "authenticate_request"
  <2>1. /\ Wire!Parsers[m.type] = Wire!ParseAuthenticateRequest
        /\ Wire!Generators(TRUE)[m.type] = Wire!GenerateAuthenticateRequest
    BY <1>3 DEF Wire!Parsers, Wire!Generators
  <2> QED BY <1>2, <2>1, RequestsParse
<1>4. CASE m.type = "authenticate_response"
  <2>1. /\ Wire!Parsers[m.type] = Wire!ParseAuthenticateResponse
        /\ Wire!Generators(TRUE)[m.type] = Wire!GenerateAuthenticateResponse
    BY <1>4 DEF Wire!Parsers, Wire!Generators
  <2> QED BY <1>2, <2>1, RequestsParse
<1>5. CASE m.type = "refresh_index_request"
  <2>1. /\ Wire!Parsers[m.type] = Wire!ParseRefreshIndexRequest
        /\ Wire!Generators(TRUE)[m.type] = Wire!GenerateRefreshIndexRequest
    BY <1>5 DEF Wire!Parsers, Wire!Generators
  <2> QED BY <1>2, <2>1, RequestsParse
<1>6. CASE m.type = "refresh_index_response"
  <2>1. /\ Wire!Parsers[m.type] = Wire!ParseRefreshIndexResponse
        /\ Wire!Generators(TRUE)[m.type] = Wire!GenerateRefreshIndexResponse
    BY <1>6 DEF Wire!Parsers, Wire!Generators
  <2> QED BY <1>2, <2>1, RequestsParse
<1>7. CASE m.type = "notify_available_request"
  <2>1. /\ Wire!Parsers[m.type] = Wire!ParseNotifyAvailableRequest
        /\ Wire!Generators(TRUE)[m.type] = Wire!GenerateNotifyAvailableRequest(TRUE)
    BY <1>7 DEF Wire!Parsers, Wire!Generators
  <2> QED BY <1>2, <2>1, RequestsParse
<1>8. CASE m.type = "sync_request"
  <2>1. /\ Wire!Parsers[m.type] = Wire!ParseSyncRequest
        /\ Wire!Generators(TRUE)[m.type] = Wire!GenerateSyncRequest
    BY <1>8 DEF Wire!Parsers, Wire!Generators
  <2> QED BY <1>2, <2>1, RequestsParse
<1>9. CASE m.type = "sync_response"
  <2>1. /\ Wire!Parsers[m.type] = Wire!ParseSyncResponse
        /\ Wire!Generators(TRUE)[m.type] = Wire!GenerateSyncResponse
    BY <1>9 DEF Wire!Parsers, Wire!Generators
  <2> QED BY <1>2, <2>1, RequestsParse
<1>10. CASE m.type = "ping"
  <2>1. /\ Wire!Parsers[m.type] = Wire!ParsePing
        /\ Wire!Generators(TRUE)[m.type] = Wire!GeneratePing
    BY <1>10 DEF Wire!Parsers, Wire!Generators
  <2> QED BY <1>2, <2>1, RequestsParse
<1> QED BY <1>1, <1>3, <1>4, <1>5, <1>6, <1>7, <1>8, <1>9, <1>10, MessageTypes

-----------------------------------------------------------------------------
(* The wire: w is what is on it, L the numbers of the messages that were too  *)
(* large, r the message that is being read.  A header is followed by its      *)
(* second byte, that by its payload or, if there is none, the next header.    *)
PartNames == {"h1", "h2", "payload"}
Symbols == Nat \X PartNames
Follows(w, L) ==
  \A i \in DOMAIN w :
    /\ w[i][2] = "h1" => i + 1 \in DOMAIN w /\ w[i + 1] = <<w[i][1], "h2">>
    /\ w[i][2] = "h2" /\ i + 1 \in DOMAIN w =>
         IF w[i][1] \in L THEN w[i + 1][2] = "h1" ELSE w[i + 1] = <<w[i][1], "payload">>
    /\ w[i][2] = "payload" /\ i + 1 \in DOMAIN w => w[i + 1][2] = "h1"
Rises(w) ==
  \A i, j \in DOMAIN w : i < j =>
    /\ w[i][1] <= w[j][1]
    /\ w[j][2] = "h1" => w[i][1] < w[j][1]
StartsWith(w, L, r) ==
  w # <<>> => IF r # 0 /\ r \notin L THEN w[1] = <<r, "payload">> ELSE w[1][2] = "h1"
Behind(w, r) ==
  \A i \in DOMAIN w :
    /\ r <= w[i][1]
    /\ w[i][2] = "h1" => r < w[i][1]

LEMMA SymbolParts ==
  ASSUME NEW s \in Symbols
  PROVE  /\ s[1] \in Nat /\ s[2] \in PartNames /\ s = <<s[1], s[2]>>
  BY DEF Symbols, PartNames

LEMMA SymbolsOf ==
  ASSUME NEW n \in Nat
  PROVE  /\ <<n, "h1">> \in Symbols /\ <<n, "h1">>[1] = n /\ <<n, "h1">>[2] = "h1"
         /\ <<n, "h2">> \in Symbols /\ <<n, "h2">>[1] = n /\ <<n, "h2">>[2] = "h2"
         /\ <<n, "payload">> \in Symbols /\ <<n, "payload">>[1] = n
         /\ <<n, "payload">>[2] = "payload"
  BY DEF Symbols, PartNames

LEMMA SeqParts ==
  ASSUME NEW w \in Seq(Symbols)
  PROVE  /\ Len(w) \in Nat /\ DOMAIN w = 1..Len(w) /\ (w = <<>> <=> Len(w) = 0)
         /\ \A i \in DOMAIN w : w[i] \in Symbols /\ w[i][1] \in Nat
  BY EmptySeq, LenProperties, SymbolParts

(* What is left when the first k bytes were read. *)
LEMMA RestFollows ==
  ASSUME NEW w \in Seq(Symbols), NEW t \in Seq(Symbols), NEW k \in {1, 2}, NEW L,
         Len(t) = Len(w) - k, \A i \in 1..Len(w) - k : t[i] = w[i + k]
  PROVE  /\ Follows(w, L) => Follows(t, L)
         /\ Rises(w) => Rises(t)
<1>1. /\ Len(w) \in Nat /\ DOMAIN w = 1..Len(w) /\ Len(t) \in Nat /\ DOMAIN t = 1..Len(t)
  BY SeqParts
<1>2. \A i \in DOMAIN t : i + k \in DOMAIN w /\ t[i] = w[i + k]
  BY <1>1
<1>3. \A i \in DOMAIN t :
        /\ (i + k) + 1 = (i + 1) + k
        /\ i + 1 \in DOMAIN t <=> (i + k) + 1 \in DOMAIN w
  BY <1>1
<1>4. \A i, j \in DOMAIN t : i < j => i + k < j + k
  BY <1>1
<1>5. ASSUME Follows(w, L) PROVE Follows(t, L)
  <2> SUFFICES ASSUME NEW i \in DOMAIN t
               PROVE  /\ t[i][2] = "h1" => i + 1 \in DOMAIN t /\ t[i + 1] = <<t[i][1], "h2">>
                      /\ t[i][2] = "h2" /\ i + 1 \in DOMAIN t =>
                           IF t[i][1] \in L THEN t[i + 1][2] = "h1"
                           ELSE t[i + 1] = <<t[i][1], "payload">>
                      /\ t[i][2] = "payload" /\ i + 1 \in DOMAIN t => t[i + 1][2] = "h1"
    BY Zenon DEF Follows
  <2> DEFINE j == i + k
  <2>1. j \in DOMAIN w /\ t[i] = w[j] /\ (i + 1 \in DOMAIN t <=> j + 1 \in DOMAIN w)
    BY <1>2, <1>3
  <2>2. i + 1 \in DOMAIN t => t[i + 1] = w[j + 1]
    BY <1>2, <1>3
  <2> HIDE DEF j
  <2>3. /\ w[j][2] = "h1" => j + 1 \in DOMAIN w /\ w[j + 1] = <<w[j][1], "h2">>
        /\ w[j][2] = "h2" /\ j + 1 \in DOMAIN w =>
             IF w[j][1] \in L THEN w[j + 1][2] = "h1" ELSE w[j + 1] = <<w[j][1], "payload">>
        /\ w[j][2] = "payload" /\ j + 1 \in DOMAIN w => w[j + 1][2] = "h1"
    BY <1>5, <2>1, Zenon DEF Follows
  <2> QED BY <2>1, <2>2, <2>3, Zenon
<1>6. ASSUME Rises(w) PROVE Rises(t)
  BY <1>2, <1>4, <1>6, Zenon DEF Rises
<1> QED BY <1>5, <1>6

(* A byte is added behind the others. *)
LEMMA ByteAdded ==
  ASSUME NEW w \in Seq(Symbols), NEW e \in Symbols
  PROVE  /\ Append(w, e) \in Seq(Symbols) /\ Len(Append(w, e)) = Len(w) + 1
         /\ DOMAIN Append(w, e) = DOMAIN w \cup {Len(w) + 1}
         /\ \A i \in DOMAIN w : Append(w, e)[i] = w[i]
         /\ Append(w, e)[Len(w) + 1] = e
         /\ Wire!ToSet(Append(w, e)) = Wire!ToSet(w) \cup {e}
<1> DEFINE t == Append(w, e)
           m == Len(w) + 1
<1>1. /\ t \in Seq(Symbols) /\ Len(t) = m
      /\ (\A i \in 1..Len(w) : t[i] = w[i]) /\ t[m] = e
  BY AppendProperties
<1> HIDE DEF t
<1>2. DOMAIN t = DOMAIN w \cup {m} /\ DOMAIN w = 1..Len(w)
  BY <1>1, SeqParts
<1>3. \A i \in DOMAIN w : t[i] = w[i]
  BY <1>1, <1>2, Zenon
<1> HIDE DEF m
<1>4. Wire!ToSet(t) = Wire!ToSet(w) \cup {e}
  BY <1>1, <1>2, <1>3 DEF Wire!ToSet
<1> QED BY <1>1, <1>2, <1>3, <1>4, Zenon DEF t, m

(* With n messages sent, of which those of L were too large.                  *)
Framed(w, L, r, n) ==
  /\ Follows(w, L) /\ Rises(w) /\ StartsWith(w, L, r) /\ Behind(w, r)
  /\ r \in 0..n
  /\ \A i \in DOMAIN w : w[i][1] \in 1..n

LEMMA MoreSent ==
  ASSUME NEW w \in Seq(Symbols), NEW n \in Nat, NEW L, NEW L2, NEW r, Framed(w, L, r, n),
         \A k \in 1..n : k \in L <=> k \in L2
  PROVE  Framed(w, L2, r, n + 1)
<1>1. Len(w) \in Nat /\ DOMAIN w = 1..Len(w) /\ (w = <<>> <=> Len(w) = 0)
  BY SeqParts
<1>2. /\ Follows(w, L) /\ Rises(w) /\ StartsWith(w, L, r) /\ Behind(w, r)
      /\ r \in 0..n /\ \A i \in DOMAIN w : w[i][1] \in 1..n
  BY Zenon DEF Framed
<1>3. \A i \in DOMAIN w : w[i][1] \in L <=> w[i][1] \in L2
  BY <1>2
<1>4. Follows(w, L2)
  BY <1>2, <1>3, Zenon DEF Follows
<1>5. r # 0 => (r \in L <=> r \in L2)
  BY <1>2
<1>6. StartsWith(w, L2, r)
  BY <1>2, <1>5, Zenon DEF StartsWith
<1>7. r \in 0..n + 1 /\ \A i \in DOMAIN w : w[i][1] \in 1..n + 1
  BY <1>2
<1> QED BY <1>2, <1>4, <1>6, <1>7, Zenon DEF Framed

(* A byte p of message n is added, which may follow the last one. *)
MayFollow(w, L, r, n, p) ==
  IF w = <<>> THEN IF r # 0 /\ r \notin L THEN p = "payload" /\ n = r ELSE p = "h1"
  ELSE LET l == w[Len(w)]
       IN  IF l[2] = "h1" THEN p = "h2" /\ n = l[1]
           ELSE IF l[2] = "h2" /\ l[1] \notin L THEN p = "payload" /\ n = l[1]
           ELSE p = "h1"

(* As Follows, but the last header may lack its second byte. *)
Trails(w, L) ==
  \A i \in DOMAIN w : i + 1 \in DOMAIN w =>
    /\ w[i][2] = "h1" => w[i + 1] = <<w[i][1], "h2">>
    /\ w[i][2] = "h2" => IF w[i][1] \in L THEN w[i + 1][2] = "h1"
                         ELSE w[i + 1] = <<w[i][1], "payload">>
    /\ w[i][2] = "payload" => w[i + 1][2] = "h1"

LEMMA TrailsFollows ==
  ASSUME NEW w \in Seq(Symbols), NEW L
  PROVE  Follows(w, L) <=> Trails(w, L) /\ (w # <<>> => w[Len(w)][2] # "h1")
<1>1. Len(w) \in Nat /\ DOMAIN w = 1..Len(w) /\ (w = <<>> <=> Len(w) = 0)
  BY SeqParts
<1>2. ASSUME Follows(w, L) PROVE Trails(w, L) /\ (w # <<>> => w[Len(w)][2] # "h1")
  <2>1. Trails(w, L)
    BY <1>2, Zenon DEF Follows, Trails
  <2>2. w # <<>> => Len(w) \in DOMAIN w /\ Len(w) + 1 \notin DOMAIN w
    BY <1>1
  <2> QED BY <1>2, <2>1, <2>2, Zenon DEF Follows
<1>3. ASSUME Trails(w, L), w # <<>> => w[Len(w)][2] # "h1" PROVE Follows(w, L)
  <2>1. \A i \in DOMAIN w : i = Len(w) \/ i + 1 \in DOMAIN w
    BY <1>1
  <2>2. \A i \in DOMAIN w : w # <<>>
    BY <1>1
  <2> QED BY <1>3, <2>1, <2>2, Zenon DEF Follows, Trails
<1> QED BY <1>2, <1>3

LEMMA ByteTrails ==
  ASSUME NEW w \in Seq(Symbols), NEW L, NEW r \in Nat, NEW n \in Nat,
         NEW p \in PartNames,
         MayFollow(w, L, r, n, p), Trails(w, L), Rises(w), StartsWith(w, L, r), Behind(w, r),
         \A i \in DOMAIN w : w[i][1] <= n, p = "h1" => \A i \in DOMAIN w : w[i][1] < n,
         r <= n, p = "h1" => r < n
  PROVE  /\ Trails(Append(w, <<n, p>>), L) /\ Rises(Append(w, <<n, p>>))
         /\ StartsWith(Append(w, <<n, p>>), L, r) /\ Behind(Append(w, <<n, p>>), r)
<1> DEFINE t == Append(w, <<n, p>>)
<1>0. /\ t \in Seq(Symbols) /\ Len(t) = Len(w) + 1
      /\ DOMAIN t = DOMAIN w \cup {Len(w) + 1}
      /\ \A i \in DOMAIN w : t[i] = w[i]
      /\ t[Len(w) + 1] = <<n, p>>
  <2>1. <<n, p>> \in Symbols
    BY DEF Symbols
  <2> QED BY <2>1, ByteAdded, Zenon
<1> HIDE DEF t
<1> DEFINE e == <<n, p>>
           l == Len(w)
           m == l + 1
<1>1. l \in Nat /\ DOMAIN w = 1..l /\ (w = <<>> <=> l = 0)
      /\ \A i \in DOMAIN w : w[i] \in Symbols /\ w[i][1] \in Nat
  BY SeqParts
<1>2. /\ t \in Seq(Symbols) /\ Len(t) = m /\ DOMAIN t = DOMAIN w \cup {m}
      /\ (\A i \in DOMAIN w : t[i] = w[i]) /\ t[m] = e
  BY <1>0, Zenon
<1>3. e[1] = n /\ e[2] = p /\ e = <<n, p>>
  OBVIOUS
<1>4. /\ \A i \in DOMAIN w : i < m /\ i + 1 \in DOMAIN t /\ (i # l => i + 1 \in DOMAIN w)
      /\ m + 1 \notin DOMAIN t /\ m \notin DOMAIN w
      /\ ~(m < m)
  BY <1>1, <1>2
<1>5. w # <<>> => l \in DOMAIN w /\ w[l][2] \in PartNames
  BY <1>1, SymbolParts
<1>6. w # <<>> =>
        IF w[l][2] = "h1" THEN p = "h2" /\ n = w[l][1]
        ELSE IF w[l][2] = "h2" /\ w[l][1] \notin L THEN p = "payload" /\ n = w[l][1]
        ELSE p = "h1"
  BY Zenon DEF MayFollow
<1> HIDE DEF e
<1>7. Trails(t, L)
  <2> SUFFICES ASSUME NEW i \in DOMAIN t, i + 1 \in DOMAIN t
               PROVE  /\ t[i][2] = "h1" => t[i + 1] = <<t[i][1], "h2">>
                      /\ t[i][2] = "h2" => IF t[i][1] \in L THEN t[i + 1][2] = "h1"
                                           ELSE t[i + 1] = <<t[i][1], "payload">>
                      /\ t[i][2] = "payload" => t[i + 1][2] = "h1"
    BY Zenon DEF Trails
  <2>1. i \in DOMAIN w /\ t[i] = w[i]
    BY <1>2, <1>4
  <2>2. CASE i = l
    <3>1. i + 1 = m /\ w # <<>>
      <4>1. l \in DOMAIN w
        BY <2>1, <2>2
      <4>2. l \in Nat /\ DOMAIN w = 1..l /\ (w = <<>> <=> l = 0)
        BY <1>1, Zenon
      <4> HIDE DEF l
      <4> QED BY <2>2, <4>1, <4>2
    <3>2. t[i + 1] = e /\ t[i] = w[l]
      <4> HIDE DEF l, m
      <4> QED BY <1>2, <2>1, <2>2, <3>1, Zenon
    <3> HIDE DEF l, m
    <3> QED BY <1>3, <1>5, <1>6, <3>1, <3>2, Zenon DEF PartNames
  <2>3. CASE i # l
    <3>1. i + 1 \in DOMAIN w /\ t[i + 1] = w[i + 1]
      BY <1>2, <1>4, <2>1, <2>3, Zenon
    <3> QED BY <2>1, <3>1, Zenon DEF Trails
  <2> QED BY <2>2, <2>3
<1>8. Rises(t)
  <2> SUFFICES ASSUME NEW i \in DOMAIN t, NEW j \in DOMAIN t, i < j
               PROVE  /\ t[i][1] <= t[j][1]
                      /\ t[j][2] = "h1" => t[i][1] < t[j][1]
    BY Zenon DEF Rises
  <2>1. i \in DOMAIN w
    BY <1>1, <1>2
  <2>2. CASE j = m
    <3>1. t[i] = w[i] /\ w[i][1] <= n /\ (p = "h1" => w[i][1] < n)
      BY <1>2, <2>1, Zenon
    <3> QED BY <1>2, <1>3, <2>2, <3>1, Zenon
  <2>3. CASE j # m
    <3>1. j \in DOMAIN w
      BY <1>2, <2>3
    <3> QED BY <1>2, <2>1, <3>1, Zenon DEF Rises
  <2> QED BY <2>2, <2>3
<1>9. StartsWith(t, L, r)
  <2>1. CASE w = <<>>
    <3>1. t[1] = e
      BY <1>1, <1>2, <2>1
    <3>2. IF r # 0 /\ r \notin L THEN p = "payload" /\ n = r ELSE p = "h1"
      BY <2>1, Zenon DEF MayFollow
    <3> QED BY <1>3, <3>1, <3>2, Zenon DEF StartsWith
  <2>2. CASE w # <<>>
    <3>1. 1 \in DOMAIN w /\ t[1] = w[1]
      BY <1>1, <1>2, <2>2
    <3> QED BY <2>2, <3>1, Zenon DEF StartsWith
  <2> QED BY <2>1, <2>2
<1>10. Behind(t, r)
  <2> SUFFICES ASSUME NEW i \in DOMAIN t
               PROVE  r <= t[i][1] /\ (t[i][2] = "h1" => r < t[i][1])
    BY Zenon DEF Behind
  <2>1. CASE i = m
    BY <1>2, <1>3, <2>1
  <2>2. CASE i # m
    <3>1. i \in DOMAIN w /\ t[i] = w[i]
      BY <1>2, <2>2
    <3> QED BY <3>1, Zenon DEF Behind
  <2> QED BY <2>1, <2>2
<1> QED BY <1>7, <1>8, <1>9, <1>10, Zenon DEF t

(* The header of a further message. *)
LEMMA HeaderAppended ==
  ASSUME NEW w \in Seq(Symbols), NEW m \in Nat, NEW n \in Nat, n = m + 1, NEW L, NEW L2,
         NEW r \in Nat, Framed(w, L, r, m), MayFollow(w, L, r, n, "h1"),
         \A k \in 1..m : k \in L <=> k \in L2
  PROVE  Framed(Append(Append(w, <<n, "h1">>), <<n, "h2">>), L2, r, n)
<1> DEFINE t == Append(w, <<n, "h1">>)
           u == Append(t, <<n, "h2">>)
<1>1. /\ Follows(w, L2) /\ Rises(w) /\ StartsWith(w, L2, r) /\ Behind(w, r)
  <2>1. Framed(w, L2, r, m + 1)
    BY MoreSent
  <2> QED BY <2>1, Zenon DEF Framed
<1>2. r \in 0..m /\ \A i \in DOMAIN w : w[i][1] \in 1..m
  BY Zenon DEF Framed
<1>3. r < n /\ r <= n /\ \A i \in DOMAIN w : w[i][1] <= n /\ w[i][1] < n
  BY <1>2
<1>4. MayFollow(w, L2, r, n, "h1")
  <2>1. w # <<>> => Len(w) \in DOMAIN w
    BY SeqParts
  <2>2. w # <<>> => (w[Len(w)][1] \in L <=> w[Len(w)][1] \in L2)
    BY <1>2, <2>1, Zenon
  <2>3. r # 0 => r \in 1..m
    BY <1>2
  <2>4. r # 0 => (r \in L <=> r \in L2)
    BY <2>3, Zenon
  <2> QED BY <2>2, <2>4, Zenon DEF MayFollow
<1>5. Trails(w, L2)
  BY <1>1, TrailsFollows, Zenon
<1>6. <<n, "h1">> \in Symbols /\ <<n, "h2">> \in Symbols
  BY SymbolsOf, Zenon
<1>7. /\ t \in Seq(Symbols) /\ Len(t) = Len(w) + 1 /\ DOMAIN t = DOMAIN w \cup {Len(w) + 1}
      /\ (\A i \in DOMAIN w : t[i] = w[i]) /\ t[Len(w) + 1] = <<n, "h1">>
  BY <1>6, ByteAdded, Zenon
<1>8. Trails(t, L2) /\ Rises(t) /\ StartsWith(t, L2, r) /\ Behind(t, r)
  <2>1. "h1" \in PartNames
    BY DEF PartNames
  <2> QED BY <1>1, <1>3, <1>4, <1>5, <2>1, ByteTrails, Zenon
<1> HIDE DEF t
<1>9. /\ u \in Seq(Symbols) /\ Len(u) = Len(t) + 1 /\ DOMAIN u = DOMAIN t \cup {Len(t) + 1}
      /\ (\A i \in DOMAIN t : u[i] = t[i]) /\ u[Len(t) + 1] = <<n, "h2">>
  BY <1>6, <1>7, ByteAdded, Zenon
<1>10. /\ <<n, "h1">>[1] = n /\ <<n, "h1">>[2] = "h1" /\ <<n, "h2">>[1] = n
       /\ <<n, "h2">>[2] = "h2"
  OBVIOUS
<1>11. MayFollow(t, L2, r, n, "h2")
  <2>1. t # <<>> /\ t[Len(t)] = <<n, "h1">>
    BY <1>7, SeqParts
  <2> QED BY <1>10, <2>1, Zenon DEF MayFollow
<1>12. \A i \in DOMAIN t : t[i][1] \in 1..n /\ t[i][1] <= n
  <2>1. n \in 1..n /\ \A k \in 1..m : k \in 1..n
    OBVIOUS
  <2>2. \A i \in DOMAIN t : t[i][1] \in 1..n
    BY <1>2, <1>7, <1>10, <2>1, Zenon
  <2> QED BY <2>2
<1>13. Trails(u, L2) /\ Rises(u) /\ StartsWith(u, L2, r) /\ Behind(u, r)
  <2>1. "h2" \in PartNames /\ "h2" # "h1"
    BY DEF PartNames
  <2> QED BY <1>3, <1>7, <1>8, <1>11, <1>12, <2>1, ByteTrails, Zenon
<1> HIDE DEF u
<1>14. u[Len(u)][2] # "h1"
  <2>1. u[Len(u)] = <<n, "h2">>
    BY <1>9, Zenon
  <2> QED BY <2>1
<1>15. Follows(u, L2)
  BY <1>9, <1>13, <1>14, TrailsFollows, Zenon
<1>16. r \in 0..n /\ \A i \in DOMAIN u : u[i][1] \in 1..n
  <2>1. n \in 1..n /\ r \in 0..n
    BY <1>3
  <2> QED BY <1>9, <1>10, <1>12, <2>1, Zenon
<1>17. Framed(u, L2, r, n)
  BY <1>13, <1>15, <1>16, Zenon DEF Framed
<1> QED BY <1>17 DEF t, u

(* The payload behind the last header. *)
LEMMA PayloadAppended ==
  ASSUME NEW w \in Seq(Symbols), NEW n \in Nat \ {0}, NEW L, NEW r \in Nat, Framed(w, L, r, n),
         MayFollow(w, L, r, n, "payload")
  PROVE  Framed(Append(w, <<n, "payload">>), L, r, n)
<1> DEFINE t == Append(w, <<n, "payload">>)
<1>1. /\ Follows(w, L) /\ Rises(w) /\ StartsWith(w, L, r) /\ Behind(w, r)
      /\ r \in 0..n /\ \A i \in DOMAIN w : w[i][1] \in 1..n
  BY Zenon DEF Framed
<1>2. <<n, "payload">> \in Symbols
  BY SymbolsOf
<1>3. /\ t \in Seq(Symbols) /\ Len(t) = Len(w) + 1 /\ DOMAIN t = DOMAIN w \cup {Len(w) + 1}
      /\ (\A i \in DOMAIN w : t[i] = w[i]) /\ t[Len(w) + 1] = <<n, "payload">>
  BY <1>2, ByteAdded, Zenon
<1>4. Trails(w, L)
  BY <1>1, TrailsFollows, Zenon
<1>5. Trails(t, L) /\ Rises(t) /\ StartsWith(t, L, r) /\ Behind(t, r)
  <2>1. "payload" \in PartNames /\ "payload" # "h1"
    BY DEF PartNames
  <2>2. r <= n /\ n \in Nat /\ \A i \in DOMAIN w : w[i][1] <= n
    BY <1>1
  <2> QED BY <1>1, <1>4, <2>1, <2>2, ByteTrails, Zenon
<1> HIDE DEF t
<1>6. <<n, "payload">>[1] = n /\ <<n, "payload">>[2] # "h1" /\ n \in 1..n
  OBVIOUS
<1>7. Follows(t, L)
  <2>1. t[Len(t)][2] # "h1"
    BY <1>3, <1>6, Zenon
  <2> QED BY <1>3, <1>5, <2>1, TrailsFollows, Zenon
<1>8. \A i \in DOMAIN t : t[i][1] \in 1..n
  BY <1>1, <1>3, <1>6, Zenon
<1>9. Framed(t, L, r, n)
  BY <1>1, <1>5, <1>7, <1>8, Zenon DEF Framed
<1> QED BY <1>9 DEF t

(* Two bytes are read: they are a header. *)
LEMMA HeaderRead ==
  ASSUME NEW w \in Seq(Symbols), NEW n \in Nat, NEW L, Framed(w, L, 0, n), Len(w) >= 2
  PROVE  /\ w[1] = <<w[1][1], "h1">> /\ w[2] = <<w[1][1], "h2">> /\ w[1][1] \in 1..n
         /\ Framed(SubSeq(w, 3, Len(w)), L, w[1][1], n)
<1> DEFINE t == SubSeq(w, 3, Len(w))
           r == w[1][1]
<1>1. /\ Follows(w, L) /\ Rises(w) /\ StartsWith(w, L, 0) /\ Behind(w, 0)
      /\ \A i \in DOMAIN w : w[i][1] \in 1..n
  BY Zenon DEF Framed
<1>2. /\ Len(w) \in Nat /\ DOMAIN w = 1..Len(w) /\ w # <<>> /\ 1 \in DOMAIN w /\ 2 \in DOMAIN w
      /\ \A i \in DOMAIN w : w[i] \in Symbols /\ w[i][1] \in Nat
  BY SeqParts
<1>3. t \in Seq(Symbols) /\ Len(t) = Len(w) - 2 /\ \A i \in 1..Len(w) - 2 : t[i] = w[i + 2]
  <2>1. \A i \in 3..Len(w) : w[i] \in Symbols
    BY <1>2
  <2> QED BY <1>2, <2>1, SubSeqProperties
<1>4. /\ DOMAIN t = 1..Len(t)
      /\ \A i \in DOMAIN t : i + 2 \in DOMAIN w /\ t[i] = w[i + 2] /\ 1 < i + 2
      /\ t # <<>> => 2 + 1 \in DOMAIN w /\ t[1] = w[2 + 1]
  <2> HIDE DEF t
  <2> QED BY <1>2, <1>3, SeqParts
<1> HIDE DEF t
<1>5. w[1][2] = "h1"
  BY <1>1, <1>2, Zenon DEF StartsWith
<1>6. w[1] = <<r, "h1">> /\ r \in 1..n /\ r # 0
  BY <1>1, <1>2, <1>5, SymbolParts
<1>7. w[2] = <<r, "h2">>
  <2>1. w[1 + 1] = <<w[1][1], "h2">>
    BY <1>1, <1>2, <1>5, Zenon DEF Follows
  <2> QED BY <2>1
<1>8. Follows(t, L) /\ Rises(t)
  <2>1. 2 \in {1, 2}
    OBVIOUS
  <2> QED BY <1>1, <1>3, <2>1, RestFollows, Zenon
<1>9. StartsWith(t, L, r)
  <2>1. w[2][2] = "h2" /\ w[2][1] = r
    BY <1>7
  <2>2. t # <<>> => IF r \in L THEN w[2 + 1][2] = "h1" ELSE w[2 + 1] = <<r, "payload">>
    BY <1>1, <1>2, <1>4, <2>1, Zenon DEF Follows
  <2> QED BY <1>4, <1>6, <2>2, Zenon DEF StartsWith
<1>10. Behind(t, r)
  BY <1>1, <1>2, <1>4, Zenon DEF Behind, Rises
<1>11. r \in 0..n /\ \A i \in DOMAIN t : t[i][1] \in 1..n
  <2>1. r \in 0..n
    BY <1>6
  <2> QED BY <1>1, <1>4, <2>1, Zenon
<1>12. Framed(t, L, r, n)
  BY <1>8, <1>9, <1>10, <1>11, Zenon DEF Framed
<1> QED BY <1>6, <1>7, <1>12 DEF t

(* A byte is read while a payload is awaited: it is that payload. *)
LEMMA PayloadRead ==
  ASSUME NEW w \in Seq(Symbols), NEW n \in Nat, NEW L, NEW r \in Nat, Framed(w, L, r, n),
         w # <<>>, r # 0, r \notin L
  PROVE  /\ w[1] = <<r, "payload">>
         /\ Framed(Tail(w), L, 0, n)
         /\ \A i \in DOMAIN Tail(w) : r < Tail(w)[i][1]
<1> DEFINE t == Tail(w)
<1>1. /\ Follows(w, L) /\ Rises(w) /\ StartsWith(w, L, r) /\ Behind(w, r)
      /\ r \in 0..n /\ \A i \in DOMAIN w : w[i][1] \in 1..n
  BY Zenon DEF Framed
<1>2. /\ Len(w) \in Nat /\ DOMAIN w = 1..Len(w) /\ 1 \in DOMAIN w
      /\ \A i \in DOMAIN w : w[i] \in Symbols /\ w[i][1] \in Nat
  BY SeqParts
<1>3. t \in Seq(Symbols) /\ Len(t) = Len(w) - 1 /\ \A i \in 1..Len(w) - 1 : t[i] = w[i + 1]
  BY <1>2, HeadTailProperties
<1> HIDE DEF t
<1>4. /\ DOMAIN t = 1..Len(t)
      /\ \A i \in DOMAIN t : i + 1 \in DOMAIN w /\ t[i] = w[i + 1] /\ 1 + 1 \in DOMAIN w
                             /\ (1 + 1 = i + 1 \/ 1 + 1 < i + 1)
      /\ t # <<>> => 1 + 1 \in DOMAIN w /\ t[1] = w[1 + 1]
      /\ 1 < 1 + 1
  BY <1>2, <1>3, SeqParts
<1>5. w[1] = <<r, "payload">>
  BY <1>1, Zenon DEF StartsWith
<1>6. w[1][1] = r /\ w[1][2] = "payload"
  BY <1>5
<1>7. 1 + 1 \in DOMAIN w => w[1 + 1][2] = "h1" /\ r < w[1 + 1][1]
  BY <1>1, <1>2, <1>4, <1>6, Zenon DEF Follows, Rises
<1>8. Follows(t, L) /\ Rises(t)
  <2>1. 1 \in {1, 2}
    OBVIOUS
  <2> QED BY <1>1, <1>3, <2>1, RestFollows, Zenon
<1>9. StartsWith(t, L, 0)
  BY <1>4, <1>7, Zenon DEF StartsWith
<1>10. \A i \in DOMAIN t : r < t[i][1]
  <2> TAKE i \in DOMAIN t
  <2>1. CASE 1 + 1 = i + 1
    BY <1>4, <1>7, <2>1, Zenon
  <2>2. CASE 1 + 1 < i + 1
    <3>1. w[1 + 1][1] <= w[i + 1][1] /\ r < w[1 + 1][1] /\ w[i + 1] = t[i]
      BY <1>1, <1>4, <1>7, <2>2, Zenon DEF Rises
    <3>2. w[1 + 1][1] \in Nat /\ w[i + 1][1] \in Nat
      BY <1>2, <1>4, Zenon
    <3> QED BY <3>1, <3>2
  <2> QED BY <1>4, <2>1, <2>2
<1>11. \A i \in DOMAIN t : t[i][1] \in 1..n
  BY <1>1, <1>4, Zenon
<1>12. Behind(t, 0)
  BY <1>11 DEF Behind
<1>13. 0 \in 0..n
  OBVIOUS
<1>14. Framed(t, L, 0, n)
  BY <1>8, <1>9, <1>11, <1>12, <1>13, Zenon DEF Framed
<1> QED BY <1>5, <1>10, <1>14 DEF t

(* The message that is read was too large: nothing of it is on the wire. *)
LEMMA NothingRead ==
  ASSUME NEW w \in Seq(Symbols), NEW n \in Nat, NEW L, NEW r \in Nat, Framed(w, L, r, n),
         r # 0, r \in L
  PROVE  Framed(w, L, 0, n) /\ \A i \in DOMAIN w : r < w[i][1]
<1>1. /\ Follows(w, L) /\ Rises(w) /\ StartsWith(w, L, r) /\ Behind(w, r)
      /\ r \in 0..n /\ \A i \in DOMAIN w : w[i][1] \in 1..n
  BY Zenon DEF Framed
<1>2. /\ Len(w) \in Nat /\ DOMAIN w = 1..Len(w) /\ (w # <<>> <=> 1 \in DOMAIN w)
      /\ \A i \in DOMAIN w : w[i] \in Symbols /\ w[i][1] \in Nat /\ (i = 1 \/ 1 < i)
         /\ 1 \in DOMAIN w
  BY SeqParts
<1>3. w # <<>> => w[1][2] = "h1"
  BY <1>1, Zenon DEF StartsWith
<1>4. w # <<>> => r < w[1][1]
  BY <1>1, <1>2, <1>3, Zenon DEF Behind
<1>5. \A i \in DOMAIN w : r < w[i][1]
  <2> TAKE i \in DOMAIN w
  <2>1. 1 \in DOMAIN w /\ r < w[1][1] /\ w[1][1] \in Nat /\ w[i][1] \in Nat
    BY <1>2, <1>4, Zenon
  <2>2. CASE 1 < i
    <3>1. w[1][1] <= w[i][1]
      BY <1>1, <2>1, <2>2, Zenon DEF Rises
    <3> QED BY <2>1, <3>1
  <2> QED BY <1>2, <2>1, <2>2
<1>6. StartsWith(w, L, 0)
  BY <1>3, Zenon DEF StartsWith
<1>7. Behind(w, 0)
  BY <1>1 DEF Behind
<1>8. 0 \in 0..n
  OBVIOUS
<1> QED BY <1>1, <1>5, <1>6, <1>7, <1>8, Zenon DEF Framed

-----------------------------------------------------------------------------
(* The messages on the connection. *)
Large == {n \in DOMAIN wm_messages : wm_messages[n].large}
WireTypeOK ==
  /\ wm_messages \in Seq(Wire!Messages)
  /\ wm_sending \in [Senders -> 0..Len(wm_messages)]
  /\ wm_reported \subseteq 1..Len(wm_messages)
  /\ wm_wire \in Seq(Symbols)
  /\ wm_reading \in Nat /\ wm_received \in Seq(Nat)
  /\ wm_is_open \in BOOLEAN
RefusedForAReason == \A m \in wm_refused : m.large \/ ~m.typed

(* What was received comes before what is read, and that before the wire.     *)
ReceivedRises ==
  \A i \in DOMAIN wm_received :
    /\ wm_received[i] \in 1..Len(wm_messages)
    /\ wm_reading # 0 => wm_received[i] < wm_reading
    /\ \A j \in DOMAIN wm_received : i < j => wm_received[i] < wm_received[j]
    /\ \A j \in DOMAIN wm_wire : wm_received[i] < wm_wire[j][1]
OneSends == \A s, t \in Senders : wm_sending[s] # 0 /\ wm_sending[t] # 0 => s = t
SendsTheLast ==
  \A s \in Senders : LET n == wm_sending[s] IN n # 0 =>
    /\ n = Len(wm_messages)
    /\ wm_wire # <<>> => wm_wire[Len(wm_wire)] = <<n, "h2">>
    /\ wm_wire = <<>> /\ n \notin Large => wm_reading = n
(* A payload that is awaited is being sent. *)
PayloadIsSent ==
  /\ wm_wire # <<>> =>
       LET l == wm_wire[Len(wm_wire)]
       IN  l[2] = "h2" /\ l[1] \notin Large => \E s \in Senders : wm_sending[s] = l[1]
  /\ wm_wire = <<>> /\ wm_reading # 0 /\ wm_reading \notin Large =>
       \E s \in Senders : wm_sending[s] = wm_reading
NothingIsLost ==
  \A n \in 1..Len(wm_messages) :
    n \in Wire!ToSet(wm_received) \/ n = wm_reading \/ <<n, "h1">> \in Wire!ToSet(wm_wire)
InOrder ==
  /\ Framed(wm_wire, Large, wm_reading, Len(wm_messages))
  /\ ReceivedRises /\ OneSends
  /\ wm_is_open => SendsTheLast /\ PayloadIsSent /\ NothingIsLost
WireInv ==
  /\ WireTypeOK /\ RefusedForAReason
  /\ wm_cut \/ wm_overlapped \/ InOrder

LEMMA WireKeepsMessages == WireInv => Wire!MessagesStayWhole
<1> SUFFICES ASSUME WireInv PROVE Wire!MessagesStayWhole
  OBVIOUS
<1>1. ASSUME InOrder
      PROVE  /\ wm_reading <= Len(wm_messages)
             /\ \A i \in DOMAIN wm_received :
                  wm_received[i] # 0 /\ (i > 1 => wm_received[i] > wm_received[i - 1])
             /\ wm_is_open => \A n \in wm_reported :
                  \/ n \in Wire!ToSet(wm_received) \cup {wm_reading}
                  \/ <<n, "h1">> \in Wire!ToSet(wm_wire)
  <2>1. wm_reading \in 0..Len(wm_messages) /\ Len(wm_messages) \in Nat
    BY <1>1, LenProperties DEF InOrder, Framed, WireInv, WireTypeOK
  <2>2. /\ wm_received \in Seq(Nat) /\ DOMAIN wm_received = 1..Len(wm_received)
        /\ Len(wm_received) \in Nat
    BY LenProperties DEF WireInv, WireTypeOK
  <2>3. ASSUME NEW i \in DOMAIN wm_received
        PROVE  wm_received[i] # 0 /\ (i > 1 => wm_received[i] > wm_received[i - 1])
    <3>1. i > 1 => i - 1 \in DOMAIN wm_received /\ i - 1 < i
      BY <2>2
    <3>2. /\ \A k \in DOMAIN wm_received : wm_received[k] \in 1..Len(wm_messages)
          /\ i > 1 => wm_received[i - 1] < wm_received[i]
      BY <1>1, <3>1, Zenon DEF InOrder, ReceivedRises
    <3>3. wm_received[i] \in 1..Len(wm_messages)
          /\ (i > 1 => wm_received[i - 1] \in 1..Len(wm_messages))
      BY <3>1, <3>2, Zenon
    <3> QED BY <2>1, <3>2, <3>3
  <2>4. wm_is_open => \A n \in wm_reported :
                  \/ n \in Wire!ToSet(wm_received) \cup {wm_reading}
                  \/ <<n, "h1">> \in Wire!ToSet(wm_wire)
    <3>1. wm_reported \subseteq 1..Len(wm_messages)
      BY Zenon DEF WireInv, WireTypeOK
    <3>2. wm_is_open => NothingIsLost
      BY <1>1, Zenon DEF InOrder
    <3> QED BY <3>1, <3>2 DEF NothingIsLost
  <2> QED BY <2>1, <2>3, <2>4
<1> QED BY <1>1, Zenon DEF WireInv, RefusedForAReason, Wire!MessagesStayWhole

LEMMA WireStarts == Wire!Init => WireInv
<1> SUFFICES ASSUME Wire!Init PROVE WireInv
  OBVIOUS
<1>1. /\ wm_messages = <<>> /\ wm_sending = [s \in Senders |-> 0] /\ wm_reported = {}
      /\ wm_wire = <<>> /\ wm_is_open = TRUE /\ wm_reading = 0 /\ wm_received = <<>>
      /\ wm_refused = {} /\ wm_cut = FALSE /\ wm_overlapped = FALSE
  BY Zenon DEF Wire!Init
<1>2. /\ <<>> \in Seq(Wire!Messages) /\ <<>> \in Seq(Symbols) /\ <<>> \in Seq(Nat)
      /\ Len(<<>>) = 0 /\ DOMAIN <<>> = {} /\ 1..0 = {} /\ 0..0 = {0}
  BY EmptySeq
<1>3. WireTypeOK
  BY <1>1, <1>2 DEF WireTypeOK
<1>4. RefusedForAReason
  BY <1>1 DEF RefusedForAReason
<1>5. Framed(wm_wire, Large, 0, 0)
  BY <1>1, <1>2 DEF Framed, Follows, Rises, StartsWith, Behind
<1>6. ReceivedRises /\ NothingIsLost
  BY <1>1, <1>2 DEF ReceivedRises, NothingIsLost
<1>7. \A s \in Senders : wm_sending[s] = 0
  BY <1>1, Zenon
<1>8. OneSends /\ SendsTheLast /\ PayloadIsSent
  BY <1>1, <1>7, Zenon DEF OneSends, SendsTheLast, PayloadIsSent
<1> QED BY <1>1, <1>2, <1>3, <1>4, <1>5, <1>6, <1>8, Zenon DEF WireInv, InOrder

LEMMA WireParts ==
  ASSUME WireInv
  PROVE  /\ wm_messages \in Seq(Wire!Messages) /\ Len(wm_messages) \in Nat
         /\ DOMAIN wm_messages = 1..Len(wm_messages)
         /\ wm_sending \in [Senders -> 0..Len(wm_messages)]
         /\ wm_reported \subseteq 1..Len(wm_messages)
         /\ wm_wire \in Seq(Symbols) /\ wm_reading \in Nat /\ wm_received \in Seq(Nat)
         /\ wm_is_open \in BOOLEAN
  BY LenProperties DEF WireInv, WireTypeOK

(* A header is followed by the header of the next message only if no payload  *)
(* is awaited.                                                                *)
LEMMA HeaderMayFollow ==
  ASSUME WireInv, InOrder, wm_is_open, \A t \in Senders : wm_sending[t] = 0, NEW n
  PROVE  MayFollow(wm_wire, Large, wm_reading, n, "h1")
<1>1. wm_wire \in Seq(Symbols)
  BY WireParts
<1>2. wm_wire # <<>> => Len(wm_wire) \in DOMAIN wm_wire /\ Len(wm_wire) + 1 \notin DOMAIN wm_wire
                        /\ wm_wire[Len(wm_wire)][1] \in Nat
  BY <1>1, SeqParts
<1>3. wm_wire # <<>> => wm_wire[Len(wm_wire)][2] # "h1"
  BY <1>2, Zenon DEF InOrder, Framed, Follows
<1>4. \A i \in DOMAIN wm_wire : wm_wire[i][1] # 0
  BY DEF InOrder, Framed
<1>5. /\ wm_wire # <<>> => ~(/\ wm_wire[Len(wm_wire)][2] = "h2"
                             /\ wm_wire[Len(wm_wire)][1] \notin Large)
      /\ wm_wire = <<>> => ~(wm_reading # 0 /\ wm_reading \notin Large)
  BY <1>2, <1>4, Zenon DEF InOrder, PayloadIsSent
<1> QED BY <1>3, <1>5, Zenon DEF MayFollow

LEMMA TwoAppended ==
  ASSUME NEW w \in Seq(Symbols), NEW a \in Symbols, NEW b \in Symbols
  PROVE  w \o <<a, b>> = Append(Append(w, a), b)
  BY DEF Symbols

LEMMA SendBegins ==
  ASSUME WireInv, NEW s \in Senders, NEW m \in Wire!Messages, Wire!Send(s, m)
  PROVE  WireInv'
<1> DEFINE N == Len(wm_messages)
           n == N + 1
<1>1. /\ wm_messages \in Seq(Wire!Messages) /\ N \in Nat /\ DOMAIN wm_messages = 1..N
      /\ wm_sending \in [Senders -> 0..N] /\ wm_reported \subseteq 1..N
      /\ wm_wire \in Seq(Symbols) /\ wm_reading \in Nat /\ wm_received \in Seq(Nat)
      /\ wm_is_open \in BOOLEAN
  BY WireParts
<1>2. /\ wm_sending[s] = 0 /\ wm_messages' = Append(wm_messages, m)
      /\ UNCHANGED <<wm_reading, wm_received, wm_refused>>
      /\ \/ /\ wm_is_open /\ wm_wire' = wm_wire \o <<<<n, "h1">>, <<n, "h2">>>>
            /\ wm_sending' = [wm_sending EXCEPT ![s] = n]
            /\ wm_overlapped' = (wm_overlapped \/ \E t \in Senders : wm_sending[t] # 0)
            /\ UNCHANGED <<wm_reported, wm_is_open, wm_cut>>
         \/ /\ wm_is_open /\ wm_wire' = Append(wm_wire, <<n, "h1">>) /\ wm_cut' = TRUE
            /\ wm_reported' = wm_reported \cup {n}
            /\ UNCHANGED <<wm_sending, wm_is_open, wm_overlapped>>
         \/ /\ wm_is_open /\ wm_is_open' = FALSE
            /\ UNCHANGED <<wm_reported, wm_sending, wm_wire, wm_cut, wm_overlapped>>
         \/ /\ ~wm_is_open /\ wm_reported' = wm_reported \cup {n}
            /\ UNCHANGED <<wm_sending, wm_wire, wm_is_open, wm_cut, wm_overlapped>>
  BY Zenon DEF Wire!Send
<1>3. /\ wm_messages' \in Seq(Wire!Messages) /\ Len(wm_messages)' = n
      /\ DOMAIN wm_messages' = 1..n /\ \A k \in 1..N : wm_messages'[k] = wm_messages[k]
      /\ wm_messages'[n] = m
  <2> DEFINE a == Append(wm_messages, m)
  <2>1. a \in Seq(Wire!Messages) /\ Len(a) = n /\ (\A k \in 1..N : a[k] = wm_messages[k])
        /\ a[n] = m
    BY <1>1, AppendProperties
  <2>2. wm_messages' = a
    BY <1>2, Zenon
  <2> HIDE DEF a
  <2>3. DOMAIN a = 1..n
    BY <2>1, LenProperties
  <2> HIDE DEF n, N
  <2> QED BY <2>1, <2>2, <2>3, Zenon
<1> DEFINE L == Large
           L2 == Large'
<1>4. \A k \in 1..N : k \in L <=> k \in L2
  <2>1. \A k \in 1..N : k \in 1..n
    BY <1>1
  <2> QED BY <1>1, <1>3, <2>1 DEF Large
<1>5. n \in Nat /\ n \in 1..n /\ n # 0 /\ (\A k \in 1..N : k \in 1..n /\ k < n)
      /\ (\A k \in 0..N : k \in 0..n) /\ n \in 0..n /\ (\A k \in 1..n : k \in 1..N \/ k = n)
  BY <1>1
<1> HIDE DEF L, L2, N, n
<1>6. RefusedForAReason'
  BY <1>2, Zenon DEF WireInv, RefusedForAReason
<1>7. <<n, "h1">> \in Symbols /\ <<n, "h2">> \in Symbols
      /\ <<n, "h1">>[1] = n /\ <<n, "h2">>[1] = n /\ <<n, "h2">>[2] = "h2"
  BY <1>5, SymbolsOf
<1>8. wm_sending \in [Senders -> 0..n] /\ wm_reported \subseteq 1..n
      /\ wm_reported \cup {n} \subseteq 1..n
  BY <1>1, <1>5
<1>9. CASE UNCHANGED <<wm_sending, wm_wire, wm_overlapped, wm_cut>> /\ ~wm_is_open'
           /\ wm_is_open' \in BOOLEAN /\ wm_reported' \in {wm_reported, wm_reported \cup {n}}
  <2>1. WireTypeOK'
    BY <1>1, <1>2, <1>3, <1>8, <1>9, Zenon DEF WireTypeOK
  <2>2. ASSUME InOrder PROVE InOrder'
    <3>1. Framed(wm_wire, L2, wm_reading, n)
      <4>1. Framed(wm_wire, L, wm_reading, N)
        BY <2>2 DEF InOrder, L, N
      <4> QED BY <1>1, <1>4, <4>1, MoreSent DEF n
    <3>2. Framed(wm_wire, Large, wm_reading, Len(wm_messages))'
      BY <1>2, <1>3, <1>9, <3>1 DEF L2
    <3>3. ReceivedRises'
      <4>1. ReceivedRises
        BY <2>2, Zenon DEF InOrder
      <4>2. \A i \in DOMAIN wm_received : wm_received[i] \in 1..N
        BY <4>1, Zenon DEF ReceivedRises, N
      <4> QED BY <1>2, <1>3, <1>5, <1>9, <4>1, <4>2, Zenon DEF ReceivedRises
    <3>4. OneSends'
      BY <1>9, <2>2, Zenon DEF InOrder, OneSends
    <3> QED BY <1>9, <3>2, <3>3, <3>4, Zenon DEF InOrder
  <2> QED BY <1>6, <1>9, <2>1, <2>2, Zenon DEF WireInv
<1>10. CASE wm_is_open /\ wm_wire' = Append(wm_wire, <<n, "h1">>) /\ wm_cut' = TRUE
            /\ wm_reported' = wm_reported \cup {n} /\ UNCHANGED <<wm_sending, wm_is_open>>
  <2>1. Append(wm_wire, <<n, "h1">>) \in Seq(Symbols)
    BY <1>1, <1>7, ByteAdded, Zenon
  <2>2. WireTypeOK'
    BY <1>1, <1>2, <1>3, <1>8, <1>10, <2>1, Zenon DEF WireTypeOK
  <2> QED BY <1>6, <1>10, <2>2, Zenon DEF WireInv
<1>11. CASE /\ wm_is_open /\ wm_wire' = wm_wire \o <<<<n, "h1">>, <<n, "h2">>>>
            /\ wm_sending' = [wm_sending EXCEPT ![s] = n]
            /\ wm_overlapped' = (wm_overlapped \/ \E t \in Senders : wm_sending[t] # 0)
            /\ UNCHANGED <<wm_reported, wm_is_open, wm_cut>>
  <2> DEFINE v == Append(wm_wire, <<n, "h1">>)
             w == Append(v, <<n, "h2">>)
  <2>1. wm_wire' = w
    BY <1>1, <1>7, <1>11, TwoAppended, Zenon
  <2>2. /\ v \in Seq(Symbols) /\ Len(v) = Len(wm_wire) + 1
        /\ DOMAIN v = DOMAIN wm_wire \cup {Len(wm_wire) + 1}
        /\ (\A i \in DOMAIN wm_wire : v[i] = wm_wire[i]) /\ v[Len(wm_wire) + 1] = <<n, "h1">>
        /\ Wire!ToSet(v) = Wire!ToSet(wm_wire) \cup {<<n, "h1">>}
    BY <1>1, <1>7, ByteAdded, Zenon
  <2> HIDE DEF v
  <2>3. /\ w \in Seq(Symbols) /\ Len(w) = Len(v) + 1
        /\ DOMAIN w = DOMAIN v \cup {Len(v) + 1}
        /\ (\A i \in DOMAIN v : w[i] = v[i]) /\ w[Len(v) + 1] = <<n, "h2">>
        /\ Wire!ToSet(w) = Wire!ToSet(v) \cup {<<n, "h2">>}
    BY <1>7, <2>2, ByteAdded, Zenon
  <2> HIDE DEF w
  <2>4. w # <<>> /\ w[Len(w)] = <<n, "h2">>
    <3>1. w[Len(w)] = <<n, "h2">>
      BY <2>3, Zenon
    <3> QED BY <2>2, <2>3, <3>1, SeqParts
  <2>5. \A i \in DOMAIN w : w[i][1] = n \/ (i \in DOMAIN wm_wire /\ w[i] = wm_wire[i])
    BY <1>7, <2>2, <2>3, Zenon
  <2>6. wm_sending' \in [Senders -> 0..n] /\ wm_sending'[s] = n
        /\ \A t \in Senders : t # s => wm_sending'[t] = wm_sending[t]
    BY <1>5, <1>8, <1>11
  <2>7. WireTypeOK'
    BY <1>1, <1>2, <1>3, <1>8, <1>11, <2>1, <2>3, <2>6, Zenon DEF WireTypeOK
  <2>8. ASSUME InOrder, \A t \in Senders : wm_sending[t] = 0 PROVE InOrder'
    <3>1. Framed(w, L2, wm_reading, n)
      <4>1. Framed(wm_wire, L, wm_reading, N)
        BY <2>8, Zenon DEF InOrder, L, N
      <4>2. MayFollow(wm_wire, L, wm_reading, n, "h1")
        BY <1>11, <2>8, HeaderMayFollow, Zenon DEF L
      <4>3. n = N + 1
        BY DEF n
      <4> QED BY <1>1, <1>4, <1>5, <4>1, <4>2, <4>3, HeaderAppended, Zenon DEF v, w
    <3>2. Framed(wm_wire, Large, wm_reading, Len(wm_messages))'
      BY <1>2, <1>3, <2>1, <3>1, Zenon DEF L2
    <3>3. ReceivedRises'
      <4>1. ReceivedRises
        BY <2>8, Zenon DEF InOrder
      <4>2. \A i \in DOMAIN wm_received : wm_received[i] \in 1..n /\ wm_received[i] < n
        BY <1>5, <4>1, Zenon DEF ReceivedRises, N
      <4>3. \A i \in DOMAIN wm_received : \A j \in DOMAIN w : wm_received[i] < w[j][1]
        BY <2>5, <4>1, <4>2, Zenon DEF ReceivedRises
      <4> QED BY <1>2, <1>3, <2>1, <4>1, <4>2, <4>3, Zenon DEF ReceivedRises
    <3>4. OneSends'
      BY <2>6, <2>8, Zenon DEF OneSends
    <3>5. SendsTheLast'
      BY <1>3, <2>1, <2>4, <2>6, <2>8, Zenon DEF SendsTheLast
    <3>6. PayloadIsSent'
      BY <1>7, <2>1, <2>4, <2>6, Zenon DEF PayloadIsSent
    <3>7. NothingIsLost'
      <4>1. NothingIsLost
        BY <1>11, <2>8, Zenon DEF InOrder
      <4>2. /\ <<n, "h1">> \in Wire!ToSet(w)
            /\ \A e \in Wire!ToSet(wm_wire) : e \in Wire!ToSet(w)
        BY <2>2, <2>3, Zenon
      <4>3. \A k \in 1..n : \/ k \in Wire!ToSet(wm_received) \/ k = wm_reading
                            \/ <<k, "h1">> \in Wire!ToSet(w)
        BY <1>5, <4>1, <4>2, Zenon DEF NothingIsLost, N
      <4>4. Wire!ToSet(wm_received)' = Wire!ToSet(wm_received)
        BY <1>2, Zenon DEF Wire!ToSet
      <4>5. Wire!ToSet(wm_wire)' = Wire!ToSet(w)
        BY <2>1, Zenon DEF Wire!ToSet
      <4> QED BY <1>2, <1>3, <4>3, <4>4, <4>5, Zenon DEF NothingIsLost
    <3> QED BY <3>2, <3>3, <3>4, <3>5, <3>6, <3>7, Zenon DEF InOrder
  <2> QED BY <1>6, <1>11, <2>7, <2>8, Zenon DEF WireInv
<1>12. CASE wm_is_open' = FALSE
            /\ UNCHANGED <<wm_reported, wm_sending, wm_wire, wm_cut, wm_overlapped>>
  <2>1. wm_is_open' \in BOOLEAN /\ ~wm_is_open'
    BY <1>12
  <2>2. wm_reported' \in {wm_reported, wm_reported \cup {n}}
    BY <1>12
  <2> QED BY <1>9, <1>12, <2>1, <2>2, Zenon
<1>13. CASE ~wm_is_open /\ wm_reported' = wm_reported \cup {n}
            /\ UNCHANGED <<wm_sending, wm_wire, wm_is_open, wm_cut, wm_overlapped>>
  <2>1. wm_is_open = FALSE
    BY <1>1, <1>13
  <2>2. wm_is_open' = FALSE
    BY <1>13, <2>1, Zenon
  <2>3. wm_is_open' \in BOOLEAN /\ ~wm_is_open'
    BY <2>2
  <2>4. wm_reported' \in {wm_reported, wm_reported \cup {n}}
    BY <1>13, Zenon
  <2> QED BY <1>9, <1>13, <2>3, <2>4, Zenon
<1> QED BY <1>2, <1>10, <1>11, <1>12, <1>13, Zenon

LEMMA PayloadSent ==
  ASSUME WireInv, NEW s \in Senders, Wire!SendPayload(s)
  PROVE  WireInv'
<1> DEFINE N == Len(wm_messages)
           n == wm_sending[s]
           w == Append(wm_wire, <<n, "payload">>)
<1>1. /\ wm_messages \in Seq(Wire!Messages) /\ N \in Nat /\ DOMAIN wm_messages = 1..N
      /\ wm_sending \in [Senders -> 0..N] /\ wm_reported \subseteq 1..N
      /\ wm_wire \in Seq(Symbols) /\ wm_reading \in Nat /\ wm_received \in Seq(Nat)
      /\ wm_is_open \in BOOLEAN
  BY WireParts
<1>2. /\ n # 0 /\ wm_sending' = [wm_sending EXCEPT ![s] = 0]
      /\ \/ /\ wm_is_open /\ wm_reported' = wm_reported \cup {n} /\ UNCHANGED wm_is_open
            /\ wm_wire' = IF wm_messages[n].large THEN wm_wire ELSE w
         \/ wm_is_open' = FALSE /\ UNCHANGED <<wm_wire, wm_reported>>
      /\ UNCHANGED <<wm_messages, wm_reading, wm_received, wm_refused, wm_cut, wm_overlapped>>
  BY Zenon DEF Wire!SendPayload
<1>3. n \in 1..N /\ n \in Nat \ {0}
  BY <1>1, <1>2
<1>4. /\ wm_sending' \in [Senders -> 0..N] /\ wm_sending'[s] = 0
      /\ \A t \in Senders : t # s => wm_sending'[t] = wm_sending[t]
  BY <1>1, <1>2
<1>5. /\ <<n, "payload">> \in Symbols /\ <<n, "payload">>[1] = n
      /\ <<n, "payload">>[2] = "payload"
  BY <1>3, SymbolsOf
<1> HIDE DEF n
<1>6. /\ w \in Seq(Symbols) /\ Len(w) = Len(wm_wire) + 1
      /\ DOMAIN w = DOMAIN wm_wire \cup {Len(wm_wire) + 1}
      /\ (\A i \in DOMAIN wm_wire : w[i] = wm_wire[i]) /\ w[Len(wm_wire) + 1] = <<n, "payload">>
      /\ Wire!ToSet(w) = Wire!ToSet(wm_wire) \cup {<<n, "payload">>}
  BY <1>1, <1>5, ByteAdded, Zenon
<1> HIDE DEF w
<1>7. w # <<>> /\ w[Len(w)] = <<n, "payload">>
  <2>1. w[Len(w)] = <<n, "payload">>
    BY <1>6, Zenon
  <2> QED BY <1>1, <1>6, <2>1, SeqParts
<1>8. WireTypeOK'
  <2>1. wm_reported' \subseteq 1..N
    BY <1>1, <1>2, <1>3
  <2>2. wm_wire' \in Seq(Symbols)
    BY <1>1, <1>2, <1>6, Zenon
  <2>3. wm_is_open' \in BOOLEAN
    BY <1>1, <1>2
  <2> QED BY <1>1, <1>2, <1>4, <2>1, <2>2, <2>3, Zenon DEF WireTypeOK, N
<1>9. RefusedForAReason'
  BY <1>2, Zenon DEF WireInv, RefusedForAReason
<1>10. Large' = Large /\ Len(wm_messages)' = N
       /\ Wire!ToSet(wm_received)' = Wire!ToSet(wm_received)
  BY <1>2, Zenon DEF Large, N, Wire!ToSet
<1>11. ASSUME InOrder PROVE InOrder'
  <2>1. OneSends'
    BY <1>4, <1>11, Zenon DEF InOrder, OneSends
  <2>2. \A t \in Senders : wm_sending'[t] = 0
    BY <1>2, <1>4, <1>11, Zenon DEF InOrder, OneSends, n
  <2>3. SendsTheLast'
    BY <2>2, Zenon DEF SendsTheLast
  <2>4. CASE UNCHANGED wm_wire /\ wm_is_open' = FALSE
    <3>1. Framed(wm_wire, Large, wm_reading, Len(wm_messages))' /\ ReceivedRises'
      BY <1>2, <1>10, <1>11, <2>4, Zenon DEF InOrder, ReceivedRises, N
    <3> QED BY <2>1, <2>4, <3>1, Zenon DEF InOrder
  <2>5. CASE wm_is_open /\ wm_messages[n].large /\ wm_wire' = wm_wire
    <3>1. Framed(wm_wire, Large, wm_reading, Len(wm_messages))' /\ ReceivedRises'
      BY <1>2, <1>10, <1>11, <2>5, Zenon DEF InOrder, ReceivedRises, N
    <3>2. n \in Large
      BY <1>1, <1>3, <2>5, Zenon DEF Large
    <3>3. /\ \A t \in Senders : wm_sending[t] # 0 => wm_sending[t] = n
          /\ \A i \in DOMAIN wm_wire : wm_wire[i][1] # 0
      <4>1. \A i \in DOMAIN wm_wire : wm_wire[i][1] # 0
        BY <1>11 DEF InOrder, Framed
      <4> QED BY <1>2, <1>11, <4>1, Zenon DEF InOrder, OneSends, n
    <3>4. wm_wire # <<>> => Len(wm_wire) \in DOMAIN wm_wire
      BY <1>1, SeqParts
    <3>5. PayloadIsSent /\ NothingIsLost
      BY <1>11, <2>5, Zenon DEF InOrder
    <3>6. PayloadIsSent'
      BY <1>2, <1>10, <2>5, <3>2, <3>3, <3>4, <3>5, Zenon DEF PayloadIsSent
    <3>7. NothingIsLost'
      <4>1. Wire!ToSet(wm_wire)' = Wire!ToSet(wm_wire)
        BY <2>5, Zenon DEF Wire!ToSet
      <4> QED BY <1>2, <1>10, <3>5, <4>1, Zenon DEF NothingIsLost, N
    <3> QED BY <2>1, <2>3, <3>1, <3>6, <3>7, Zenon DEF InOrder
  <2>6. CASE wm_is_open /\ ~wm_messages[n].large /\ wm_wire' = w
    <3>1. n \notin Large
      BY <1>1, <1>3, <2>6, Zenon DEF Large
    <3>2. /\ n = N
          /\ wm_wire # <<>> => wm_wire[Len(wm_wire)] = <<n, "h2">>
          /\ wm_wire = <<>> => wm_reading = n
      BY <1>2, <1>11, <2>6, <3>1, Zenon DEF InOrder, SendsTheLast, n, N
    <3>3. <<n, "h2">>[1] = n /\ <<n, "h2">>[2] = "h2" /\ "h2" # "h1"
      OBVIOUS
    <3>4. MayFollow(wm_wire, Large, wm_reading, n, "payload")
      BY <1>2, <3>1, <3>2, <3>3, Zenon DEF MayFollow
    <3>5. Framed(w, Large, wm_reading, n)
      <4>1. Framed(wm_wire, Large, wm_reading, n)
        BY <1>11, <3>2, Zenon DEF InOrder, N
      <4> QED BY <1>1, <1>3, <3>4, <4>1, PayloadAppended, Zenon DEF w
    <3>6. Framed(wm_wire, Large, wm_reading, Len(wm_messages))'
      BY <1>2, <1>10, <2>6, <3>2, <3>5, Zenon
    <3>7. \A i \in DOMAIN wm_received : wm_received[i] < n
      <4>1. wm_wire # <<>> => Len(wm_wire) \in DOMAIN wm_wire
        BY <1>1, SeqParts
      <4> QED BY <1>2, <1>11, <3>2, <3>3, <4>1, Zenon DEF InOrder, ReceivedRises
    <3>8. \A j \in DOMAIN w : w[j][1] = n \/ (j \in DOMAIN wm_wire /\ w[j] = wm_wire[j])
      BY <1>5, <1>6, Zenon
    <3>9. ReceivedRises'
      <4>1. ReceivedRises
        BY <1>11, Zenon DEF InOrder
      <4> QED BY <1>2, <1>10, <2>6, <3>7, <3>8, <4>1, Zenon DEF ReceivedRises, N
    <3>10. PayloadIsSent'
      <4>1. "payload" # "h2"
        OBVIOUS
      <4> QED BY <1>5, <1>7, <2>6, <4>1, Zenon DEF PayloadIsSent
    <3>11. NothingIsLost'
      <4>1. Wire!ToSet(wm_wire)' = Wire!ToSet(w)
        BY <2>6, Zenon DEF Wire!ToSet
      <4>2. \A e \in Wire!ToSet(wm_wire) : e \in Wire!ToSet(w)
        BY <1>6, Zenon
      <4>3. NothingIsLost
        BY <1>11, <2>6, Zenon DEF InOrder
      <4> QED BY <1>2, <1>10, <4>1, <4>2, <4>3, Zenon DEF NothingIsLost, N
    <3> QED BY <2>1, <2>3, <3>6, <3>9, <3>10, <3>11, Zenon DEF InOrder
  <2> QED BY <1>2, <2>4, <2>5, <2>6, Zenon
<1> QED BY <1>2, <1>8, <1>9, <1>11, Zenon DEF WireInv

LEMMA BytesLeft ==
  ASSUME NEW w \in Seq(Symbols), NEW t \in Seq(Symbols), NEW k \in {1, 2},
         Len(t) = Len(w) - k, \A i \in 1..Len(w) - k : t[i] = w[i + k]
  PROVE  /\ t # <<>> => w # <<>> /\ t[Len(t)] = w[Len(w)]
         /\ t = <<>> => Len(w) = k
         /\ \A i \in DOMAIN t : i + k \in DOMAIN w /\ t[i] = w[i + k]
         /\ \A e \in Wire!ToSet(w) : e \in Wire!ToSet(t) \/ \E i \in 1..k : e = w[i]
<1>1. /\ Len(w) \in Nat /\ DOMAIN w = 1..Len(w) /\ Len(t) \in Nat /\ DOMAIN t = 1..Len(t)
      /\ (w = <<>> <=> Len(w) = 0) /\ (t = <<>> <=> Len(t) = 0)
  BY SeqParts
<1>2. t # <<>> => w # <<>> /\ t[Len(t)] = w[Len(w)]
  <2>1. t # <<>> => Len(t) \in 1..Len(w) - k /\ Len(t) + k = Len(w)
    BY <1>1
  <2> QED BY <1>1, <2>1
<1>3. \A i \in DOMAIN t : i + k \in DOMAIN w /\ t[i] = w[i + k]
  BY <1>1
<1>4. ASSUME NEW e \in Wire!ToSet(w) PROVE e \in Wire!ToSet(t) \/ \E i \in 1..k : e = w[i]
  <2>1. PICK i \in DOMAIN w : e = w[i]
    BY <1>4 DEF Wire!ToSet
  <2>2. CASE i \in 1..k
    BY <2>1, <2>2
  <2>3. CASE i \notin 1..k
    <3>1. i - k \in DOMAIN t /\ (i - k) + k = i
      BY <1>1, <2>3
    <3>2. t[i - k] = e
      BY <1>3, <2>1, <3>1
    <3> QED BY <3>1, <3>2 DEF Wire!ToSet
  <2> QED BY <2>2, <2>3
<1> QED BY <1>1, <1>2, <1>3, <1>4

LEMMA HeaderParsed ==
  ASSUME WireInv, Wire!TryParseHeader
  PROVE  WireInv'
<1> DEFINE w == wm_wire
           t == SubSeq(w, 3, Len(w))
           r == w[1][1]
           N == Len(wm_messages)
<1>1. /\ wm_messages \in Seq(Wire!Messages) /\ N \in Nat /\ DOMAIN wm_messages = 1..N
      /\ wm_sending \in [Senders -> 0..N] /\ wm_reported \subseteq 1..N
      /\ wm_wire \in Seq(Symbols) /\ wm_reading \in Nat /\ wm_received \in Seq(Nat)
      /\ wm_is_open \in BOOLEAN
  BY WireParts
<1>2. /\ wm_reading = 0 /\ Len(w) >= 2 /\ wm_wire' = t
      /\ wm_reading' = IF w[1][2] = "h1" /\ w[2] = <<r, "h2">> THEN r ELSE MaxSends + 1
      /\ UNCHANGED <<wm_messages, wm_sending, wm_reported, wm_is_open, wm_received, wm_refused,
                     wm_cut, wm_overlapped>>
  BY Zenon DEF Wire!TryParseHeader
<1>3. /\ Len(w) \in Nat /\ 1 \in DOMAIN w /\ 2 \in DOMAIN w /\ DOMAIN w = 1..Len(w)
      /\ \A i \in DOMAIN w : w[i] \in Symbols /\ w[i][1] \in Nat
  BY <1>1, <1>2, SeqParts
<1>4. t \in Seq(Symbols) /\ Len(t) = Len(w) - 2 /\ \A i \in 1..Len(w) - 2 : t[i] = w[i + 2]
  <2>1. \A i \in 3..Len(w) : w[i] \in Symbols
    BY <1>3
  <2> QED BY <1>2, <1>3, <2>1, SubSeqProperties
<1> HIDE DEF t
<1>5. /\ t # <<>> => w # <<>> /\ t[Len(t)] = w[Len(w)]
      /\ t = <<>> => Len(w) = 2
      /\ \A i \in DOMAIN t : i + 2 \in DOMAIN w /\ t[i] = w[i + 2]
      /\ \A e \in Wire!ToSet(w) : e \in Wire!ToSet(t) \/ \E i \in 1..2 : e = w[i]
  <2>1. 2 \in {1, 2}
    OBVIOUS
  <2> QED BY <1>1, <1>4, <2>1, BytesLeft, Zenon
<1>6. w # <<>>
  BY <1>3
<1>7. WireTypeOK'
  <2>1. wm_reading' \in Nat
    <3>1. MaxSends \in Nat
      BY StreamAssumption, Zenon DEF StreamAssumption
    <3> QED BY <1>2, <1>3, <3>1
  <2> QED BY <1>1, <1>2, <1>4, <2>1, Zenon DEF WireTypeOK
<1>8. RefusedForAReason'
  BY <1>2, Zenon DEF WireInv, RefusedForAReason
<1>9. Large' = Large /\ Len(wm_messages)' = N
      /\ Wire!ToSet(wm_received)' = Wire!ToSet(wm_received)
      /\ Wire!ToSet(wm_wire)' = Wire!ToSet(t)
  BY <1>2, Zenon DEF Large, Wire!ToSet
<1>10. ASSUME InOrder PROVE InOrder'
  <2>1. /\ w[1] = <<r, "h1">> /\ w[2] = <<r, "h2">> /\ r \in 1..N
        /\ Framed(t, Large, r, N)
    <3>1. Framed(w, Large, 0, N)
      BY <1>2, <1>10, Zenon DEF InOrder
    <3> QED BY <1>1, <1>2, <3>1, HeaderRead, Zenon DEF t
  <2>2. /\ <<r, "h1">>[1] = r /\ <<r, "h1">>[2] = "h1" /\ <<r, "h2">>[2] = "h2"
        /\ <<r, "h2">>[1] = r /\ "h1" # "h2" /\ r # 0
    BY <2>1
  <2>3. wm_reading' = r
    BY <1>2, <2>1, <2>2, Zenon
  <2>4. Framed(wm_wire, Large, wm_reading, Len(wm_messages))'
    BY <1>2, <1>9, <2>1, <2>3, Zenon
  <2>5. ReceivedRises'
    <3>1. ReceivedRises
      BY <1>10, Zenon DEF InOrder
    <3>2. \A i \in DOMAIN wm_received : wm_received[i] < r
      BY <1>3, <3>1, Zenon DEF ReceivedRises
    <3>3. \A j \in DOMAIN t : \A i \in DOMAIN wm_received : wm_received[i] < t[j][1]
      BY <1>5, <3>1, Zenon DEF ReceivedRises
    <3> QED BY <1>2, <1>9, <2>3, <3>1, <3>2, <3>3, Zenon DEF ReceivedRises
  <2>6. OneSends'
    BY <1>2, <1>10, Zenon DEF InOrder, OneSends
  <2>7. ASSUME wm_is_open PROVE SendsTheLast' /\ PayloadIsSent' /\ NothingIsLost'
    <3>1. SendsTheLast /\ PayloadIsSent /\ NothingIsLost
      BY <1>10, <2>7, Zenon DEF InOrder
    <3>2. t = <<>> => w[Len(w)] = <<r, "h2">>
      BY <1>5, <2>1, Zenon
    <3>3. SendsTheLast'
      <4>1. ASSUME NEW s \in Senders, wm_sending[s] # 0
            PROVE  /\ wm_sending[s] = N
                   /\ t # <<>> => t[Len(t)] = <<wm_sending[s], "h2">>
                   /\ t = <<>> => r = wm_sending[s]
        <5>1. wm_sending[s] = N /\ w[Len(w)] = <<wm_sending[s], "h2">>
          BY <1>6, <3>1, <4>1, Zenon DEF SendsTheLast
        <5>2. t = <<>> => <<r, "h2">> = <<wm_sending[s], "h2">>
          BY <3>2, <5>1, Zenon
        <5> QED BY <1>5, <5>1, <5>2
      <4> HIDE DEF r
      <4> QED BY <1>2, <1>9, <2>3, <4>1, Zenon DEF SendsTheLast
    <3>4. PayloadIsSent'
      <4>1. t # <<>> => LET l == t[Len(t)]
                        IN  l[2] = "h2" /\ l[1] \notin Large =>
                              \E s \in Senders : wm_sending[s] = l[1]
        BY <1>5, <3>1, Zenon DEF PayloadIsSent
      <4>2. t = <<>> /\ r \notin Large => \E s \in Senders : wm_sending[s] = r
        BY <1>6, <2>2, <3>1, <3>2, Zenon DEF PayloadIsSent
      <4> HIDE DEF r
      <4> QED BY <1>2, <1>9, <2>3, <4>1, <4>2, Zenon DEF PayloadIsSent
    <3>5. NothingIsLost'
      <4>1. ASSUME NEW n \in 1..N
            PROVE  n \in Wire!ToSet(wm_received) \/ n = r \/ <<n, "h1">> \in Wire!ToSet(t)
        <5>1. n # 0
          BY <1>1
        <5>2. n \in Wire!ToSet(wm_received) \/ <<n, "h1">> \in Wire!ToSet(w)
          BY <1>2, <3>1, <5>1, Zenon DEF NothingIsLost
        <5>3. \A i \in 1..2 : i = 1 \/ i = 2
          OBVIOUS
        <5>4. <<n, "h1">> \in Wire!ToSet(w) =>
                \/ <<n, "h1">> \in Wire!ToSet(t)
                \/ <<n, "h1">> = <<r, "h1">> \/ <<n, "h1">> = <<r, "h2">>
          BY <1>5, <2>1, <5>3, Zenon
        <5>5. <<n, "h1">> # <<r, "h2">> /\ (<<n, "h1">> = <<r, "h1">> => n = r)
          OBVIOUS
        <5> QED BY <5>2, <5>4, <5>5, Zenon
      <4> HIDE DEF r
      <4> QED BY <1>2, <1>9, <2>3, <4>1, Zenon DEF NothingIsLost
    <3> QED BY <3>3, <3>4, <3>5
  <2> QED BY <1>2, <2>4, <2>5, <2>6, <2>7, Zenon DEF InOrder
<1> QED BY <1>2, <1>7, <1>8, <1>10, Zenon DEF WireInv

LEMMA MessageRead ==
  ASSUME WireInv, Wire!TryReadMessage
  PROVE  WireInv'
<1> DEFINE w == wm_wire
           t == wm_wire'
           r == wm_reading
           m == wm_messages[r]
           N == Len(wm_messages)
           x == IF m.large \/ Head(w) = <<r, "payload">> THEN r ELSE 0
<1>1. /\ wm_messages \in Seq(Wire!Messages) /\ N \in Nat /\ DOMAIN wm_messages = 1..N
      /\ wm_sending \in [Senders -> 0..N] /\ wm_reported \subseteq 1..N
      /\ wm_wire \in Seq(Symbols) /\ wm_reading \in Nat /\ wm_received \in Seq(Nat)
      /\ wm_is_open \in BOOLEAN
  BY WireParts
<1>2. /\ r \in DOMAIN wm_messages /\ (m.large \/ w # <<>>)
      /\ wm_wire' = IF m.large THEN w ELSE Tail(w)
      /\ wm_received' = Append(wm_received, x)
      /\ wm_refused' = IF m.large \/ ~Wire!Parses(m) THEN wm_refused \cup {m} ELSE wm_refused
      /\ wm_reading' = 0
      /\ UNCHANGED <<wm_messages, wm_sending, wm_reported, wm_is_open, wm_cut, wm_overlapped>>
  BY Zenon DEF Wire!TryReadMessage
<1>3. r \in 1..N /\ r # 0 /\ r \in Nat /\ m \in Wire!Messages /\ (r \in Large <=> m.large)
  BY <1>1, <1>2 DEF Large
<1>4. x \in Nat
  BY <1>3
<1> HIDE DEF x, m, r
<1>5. RefusedForAReason'
  <2>1. m.large \/ ~Wire!Parses(m) => m.large \/ ~m.typed
    BY <1>3, TypedParses, Zenon
  <2>2. \A y \in wm_refused' : y \in wm_refused \/ (y = m /\ (m.large \/ ~Wire!Parses(m)))
    BY <1>2
  <2> QED BY <2>1, <2>2, Zenon DEF WireInv, RefusedForAReason
<1>6. ~m.large => /\ Tail(w) \in Seq(Symbols) /\ Len(Tail(w)) = Len(w) - 1
                  /\ \A i \in 1..Len(w) - 1 : Tail(w)[i] = w[i + 1]
                  /\ Head(w) = w[1]
  <2>1. ~m.large => w # <<>>
    BY <1>2, Zenon
  <2>2. w \in Seq(Symbols) /\ Len(w) \in Nat
    BY <1>1, SeqParts
  <2>3. w # <<>> => /\ Tail(w) \in Seq(Symbols) /\ Len(Tail(w)) = Len(w) - 1
                    /\ \A i \in 1..Len(w) - 1 : Tail(w)[i] = w[i + 1]
                    /\ Head(w) = w[1]
    BY <2>2, HeadTailProperties
  <2> QED BY <2>1, <2>3, Zenon
<1>7. t \in Seq(Symbols)
  BY <1>1, <1>2, <1>6, Zenon
<1> DEFINE a == wm_received'
           K == Len(wm_received)
           k == K + 1
<1>8. /\ a \in Seq(Nat) /\ Len(a) = k /\ (\A i \in 1..K : a[i] = wm_received[i]) /\ a[k] = x
      /\ K \in Nat /\ DOMAIN wm_received = 1..K
  <2>1. K \in Nat /\ DOMAIN wm_received = 1..K
    BY <1>1, LenProperties
  <2>2. /\ Append(wm_received, x) \in Seq(Nat) /\ Len(Append(wm_received, x)) = k
        /\ (\A i \in 1..K : Append(wm_received, x)[i] = wm_received[i])
        /\ Append(wm_received, x)[k] = x
    BY <1>1, <1>4, AppendProperties
  <2> HIDE DEF K, k
  <2> QED BY <1>2, <2>1, <2>2, Zenon
<1>9. WireTypeOK'
  BY <1>1, <1>2, <1>7, <1>8, Zenon DEF WireTypeOK
<1> HIDE DEF a, K
<1>10. DOMAIN a = DOMAIN wm_received \cup {k} /\ k \notin DOMAIN wm_received
       /\ (\A i \in DOMAIN wm_received : i < k /\ a[i] = wm_received[i] /\ ~(k < i)) /\ ~(k < k)
  <2>1. DOMAIN a = 1..k
    BY <1>8, LenProperties
  <2> QED BY <1>8, <2>1
<1> HIDE DEF k
<1>11. Wire!ToSet(a) = Wire!ToSet(wm_received) \cup {x}
  BY <1>8, <1>10 DEF Wire!ToSet
<1>12. Large' = Large /\ Len(wm_messages)' = N
       /\ Wire!ToSet(wm_received)' = Wire!ToSet(a) /\ Wire!ToSet(wm_wire)' = Wire!ToSet(t)
  BY <1>2, Zenon DEF Large, Wire!ToSet, a
<1>13. ASSUME InOrder PROVE InOrder'
  <2>1. Framed(w, Large, r, N)
    BY <1>13, Zenon DEF InOrder, r
  <2>2. /\ x = r /\ Framed(t, Large, 0, N) /\ \A i \in DOMAIN t : r < t[i][1]
        /\ ~m.large => w[1] = <<r, "payload">>
    <3>1. CASE m.large
      <4>1. t = w /\ x = r
        BY <1>2, <3>1, Zenon DEF x
      <4>2. Framed(w, Large, 0, N) /\ \A i \in DOMAIN w : r < w[i][1]
        BY <1>1, <1>3, <2>1, <3>1, NothingRead, Zenon
      <4> QED BY <3>1, <4>1, <4>2, Zenon
    <3>2. CASE ~m.large
      <4>1. t = Tail(w) /\ w # <<>> /\ Head(w) = w[1]
        BY <1>2, <1>6, <3>2, Zenon
      <4>2. /\ w[1] = <<r, "payload">> /\ Framed(Tail(w), Large, 0, N)
            /\ \A i \in DOMAIN Tail(w) : r < Tail(w)[i][1]
        BY <1>1, <1>3, <2>1, <3>2, <4>1, PayloadRead, Zenon
      <4> QED BY <4>1, <4>2, Zenon DEF x
    <3> QED BY <3>1, <3>2
  <2>3. Framed(wm_wire, Large, wm_reading, Len(wm_messages))'
    BY <1>2, <1>12, <2>2, Zenon
  <2>4. ReceivedRises'
    <3>1. ReceivedRises
      BY <1>13, Zenon DEF InOrder
    <3>2. \A i \in DOMAIN wm_received :
            /\ wm_received[i] \in 1..N /\ wm_received[i] < r
            /\ \A j \in DOMAIN wm_received : i < j => wm_received[i] < wm_received[j]
      BY <1>3, <3>1, Zenon DEF ReceivedRises, r
    <3>3. \A i \in DOMAIN wm_received : \A j \in DOMAIN t : wm_received[i] < t[j][1]
      <4>1. \A j \in DOMAIN t : t[j][1] \in Nat
        BY <1>7, SeqParts, Zenon
      <4>2. ASSUME NEW i \in DOMAIN wm_received, NEW j \in DOMAIN t
            PROVE  wm_received[i] < t[j][1]
        <5>1. wm_received[i] \in 1..N /\ wm_received[i] < r /\ r < t[j][1] /\ t[j][1] \in Nat
          BY <2>2, <3>2, <4>1, Zenon
        <5> QED BY <1>1, <1>3, <5>1
      <4> QED BY <4>2
    <3>4. /\ a[k] = r /\ r \in 1..N
          /\ \A j \in DOMAIN t : a[k] < t[j][1]
          /\ \A j \in DOMAIN a : ~(k < j)
          /\ \A i \in DOMAIN wm_received : a[i] < a[k]
      BY <1>3, <1>8, <1>10, <2>2, <3>2, Zenon
    <3>5. \A i \in DOMAIN a :
            /\ a[i] \in 1..N
            /\ \A j \in DOMAIN a : i < j => a[i] < a[j]
            /\ \A j \in DOMAIN t : a[i] < t[j][1]
      BY <1>10, <3>2, <3>3, <3>4, Zenon
    <3> QED BY <1>2, <1>12, <3>5, Zenon DEF ReceivedRises, a
  <2>5. OneSends'
    BY <1>2, <1>13, Zenon DEF InOrder, OneSends
  <2>6. ~m.large => /\ t # <<>> => w # <<>> /\ t[Len(t)] = w[Len(w)]
                    /\ t = <<>> => Len(w) = 1
                    /\ \A e \in Wire!ToSet(w) : e \in Wire!ToSet(t) \/ \E i \in 1..1 : e = w[i]
    <3>1. ASSUME ~m.large
          PROVE  /\ t # <<>> => w # <<>> /\ t[Len(t)] = w[Len(w)]
                 /\ t = <<>> => Len(w) = 1
                 /\ \A e \in Wire!ToSet(w) : e \in Wire!ToSet(t) \/ \E i \in 1..1 : e = w[i]
      <4>1. t = Tail(w)
        BY <1>2, <3>1, Zenon
      <4>2. Len(t) = Len(w) - 1 /\ \A i \in 1..Len(w) - 1 : t[i] = w[i + 1]
        BY <1>6, <3>1, <4>1, Zenon
      <4>3. 1 \in {1, 2}
        OBVIOUS
      <4> QED BY <1>1, <1>7, <4>2, <4>3, BytesLeft, Zenon
    <3> QED BY <3>1, Zenon
  <2>7. t # <<>> => w # <<>> /\ t[Len(t)] = w[Len(w)]
    BY <1>2, <2>6, Zenon
  <2>8. ASSUME wm_is_open PROVE SendsTheLast' /\ PayloadIsSent' /\ NothingIsLost'
    <3>1. SendsTheLast /\ PayloadIsSent /\ NothingIsLost
      BY <1>13, <2>8, Zenon DEF InOrder
    <3>2. SendsTheLast'
      <4>1. ASSUME NEW s \in Senders, wm_sending[s] # 0
            PROVE  /\ wm_sending[s] = N
                   /\ t # <<>> => t[Len(t)] = <<wm_sending[s], "h2">>
                   /\ ~(t = <<>> /\ wm_sending[s] \notin Large)
        <5>1. /\ wm_sending[s] = N
              /\ w # <<>> => w[Len(w)] = <<wm_sending[s], "h2">>
              /\ w = <<>> /\ wm_sending[s] \notin Large => r = wm_sending[s]
          BY <3>1, <4>1, Zenon DEF SendsTheLast, r
        <5>2. CASE m.large
          BY <1>2, <1>3, <5>1, <5>2, Zenon
        <5>3. CASE ~m.large
          <6>1. w # <<>>
            BY <1>2, <5>3, Zenon
          <6>2. t = <<>> => <<wm_sending[s], "h2">> = <<r, "payload">>
            BY <2>2, <2>6, <5>1, <5>3, <6>1, Zenon
          <6>3. <<wm_sending[s], "h2">> # <<r, "payload">>
            OBVIOUS
          <6> QED BY <2>7, <5>1, <6>1, <6>2, <6>3, Zenon
        <5> QED BY <5>2, <5>3
      <4> QED BY <1>2, <1>12, <4>1, Zenon DEF SendsTheLast
    <3>3. PayloadIsSent'
      <4>1. t # <<>> => LET l == t[Len(t)]
                        IN  l[2] = "h2" /\ l[1] \notin Large =>
                              \E s \in Senders : wm_sending[s] = l[1]
        BY <2>7, <3>1, Zenon DEF PayloadIsSent
      <4> QED BY <1>2, <1>12, <4>1, Zenon DEF PayloadIsSent
    <3>4. NothingIsLost'
      <4>1. ASSUME NEW n \in 1..N
            PROVE  n \in Wire!ToSet(a) \/ <<n, "h1">> \in Wire!ToSet(t)
        <5>1. \/ n \in Wire!ToSet(wm_received) \/ n = r \/ <<n, "h1">> \in Wire!ToSet(w)
          BY <3>1, Zenon DEF NothingIsLost, r
        <5>2. <<n, "h1">> # <<r, "payload">> /\ \A i \in 1..1 : i = 1
          OBVIOUS
        <5>3. <<n, "h1">> \in Wire!ToSet(w) => <<n, "h1">> \in Wire!ToSet(t)
          BY <1>2, <2>2, <2>6, <5>2, Zenon
        <5> QED BY <1>11, <2>2, <5>1, <5>3
      <4> QED BY <1>2, <1>12, <4>1, Zenon DEF NothingIsLost
    <3> QED BY <3>2, <3>3, <3>4
  <2> QED BY <1>2, <2>3, <2>4, <2>5, <2>8, Zenon DEF InOrder
<1> QED BY <1>2, <1>5, <1>9, <1>13, Zenon DEF WireInv

LEMMA WireSteps == WireInv /\ [Wire!Next]_Wire!vars => WireInv'
<1> SUFFICES ASSUME WireInv, [Wire!Next]_Wire!vars PROVE WireInv'
  OBVIOUS
<1>1. CASE UNCHANGED Wire!vars
  <2>1. UNCHANGED <<wm_messages, wm_sending, wm_reported, wm_wire, wm_is_open, wm_reading,
                    wm_received, wm_refused, wm_cut, wm_overlapped>>
    BY <1>1, Zenon DEF Wire!vars
  <2>2. Large' = Large
    BY <2>1, Zenon DEF Large
  <2>3. WireTypeOK' /\ RefusedForAReason'
    BY <2>1, Zenon DEF WireInv, WireTypeOK, RefusedForAReason
  <2>4. ReceivedRises = ReceivedRises' /\ OneSends = OneSends'
    BY <2>1, Zenon DEF ReceivedRises, OneSends
  <2>5. SendsTheLast = SendsTheLast' /\ PayloadIsSent = PayloadIsSent'
    BY <2>1, <2>2, Zenon DEF SendsTheLast, PayloadIsSent
  <2>6. NothingIsLost = NothingIsLost'
    BY <2>1, Zenon DEF NothingIsLost, Wire!ToSet
  <2>7. InOrder => InOrder'
    BY <2>1, <2>2, <2>4, <2>5, <2>6, Zenon DEF InOrder
  <2> QED BY <2>1, <2>3, <2>7, Zenon DEF WireInv
<1>2. CASE Wire!Next
  BY <1>2, HeaderParsed, MessageRead, PayloadSent, SendBegins, Zenon DEF Wire!Next
<1> QED BY <1>1, <1>2

(* Messages are read whole and in the order they were sent, unless a header   *)
(* was cut or two sends overlapped, and dispatch refuses only what was too    *)
(* large or had no type: MessagesStayWhole, for any number of senders.        *)
THEOREM MessagesAreRead == Wire!Spec => []Wire!MessagesStayWhole
<1>1. Wire!Spec => []WireInv
  BY WireStarts, WireSteps, PTL DEF Wire!Spec
<1> QED BY <1>1, WireKeepsMessages, PTL

-----------------------------------------------------------------------------
(* The composition plays each of its parts. *)
LEMMA ServerIsPlayed ==
  /\ GroupInit => Init
  /\ [GroupNext]_groupVars => [Next]_vars
  BY Zenon DEF GroupInit, GroupNext, groupVars

LEMMA EncoderIsPlayed ==
  /\ GroupInit => Encoder!Init
  /\ [GroupNext]_groupVars => [Encoder!Next]_Encoder!vars
<1>1. UNCHANGED esVars => UNCHANGED Encoder!mainVars
  BY Zenon DEF esVars, Encoder!mainVars, Encoder!headerVars, Encoder!driverVars
<1>2. UNCHANGED esVars => UNCHANGED Encoder!objectVars /\ UNCHANGED es_user
  BY Zenon DEF esVars, Encoder!objectVars
<1>3. UNCHANGED esVars => UNCHANGED Encoder!vars
  BY <1>1, <1>2, Zenon DEF Encoder!vars
<1> QED BY <1>3, Zenon DEF GroupInit, GroupNext, groupVars

LEMMA WireIsPlayed ==
  /\ GroupInit => Wire!Init
  /\ [GroupNext]_groupVars => [Wire!Next]_Wire!vars
  BY Zenon DEF GroupInit, GroupNext, groupVars, wmVars, Wire!vars

LEMMA ClientIsPlayed ==
  /\ GroupInit => Client!Init
  /\ [GroupNext]_groupVars => [Client!Next]_Client!vars
  BY Zenon DEF GroupInit, GroupNext, groupVars, tcVars, Client!vars

LEMMA SocketIsPlayed ==
  /\ GroupInit => Socket!Init
  /\ [GroupNext]_groupVars => [Socket!Next]_Socket!vars
  BY Zenon DEF GroupInit, GroupNext, groupVars, soVars, Socket!vars

LEMMA InputIsPlayed ==
  /\ GroupInit => Input!Init
  /\ [GroupNext]_groupVars => [Input!Next]_Input!vars
<1>1. UNCHANGED inVars => UNCHANGED Input!vars
  BY Zenon DEF inVars, Input!vars, Input!machine
<1> QED BY <1>1, Zenon DEF GroupInit, GroupNext, groupVars

(* The composition implements the specification of the server and of the      *)
(* parts that talk to others.                                                 *)
THEOREM StreamsArePlayed ==
  GroupSpec => /\ Spec /\ Encoder!Spec /\ Wire!Spec /\ Client!Spec /\ Socket!Spec
               /\ Input!Spec
<1>1. GroupSpec => Spec
  BY ServerIsPlayed, PTL DEF GroupSpec, Spec
<1>2. GroupSpec => Encoder!Spec
  BY EncoderIsPlayed, PTL DEF GroupSpec, Encoder!Spec
<1>3. GroupSpec => Wire!Spec
  BY WireIsPlayed, PTL DEF GroupSpec, Wire!Spec
<1>4. GroupSpec => Client!Spec
  BY ClientIsPlayed, PTL DEF GroupSpec, Client!Spec
<1>5. GroupSpec => Socket!Spec
  BY SocketIsPlayed, PTL DEF GroupSpec, Socket!Spec
<1>6. GroupSpec => Input!Spec
  BY InputIsPlayed, PTL DEF GroupSpec, Input!Spec
<1> QED BY <1>1, <1>2, <1>3, <1>4, <1>5, <1>6

(* Descriptors and what the driver has given have one owner, messages stay    *)
(* whole, answers are the content that was asked for, and the input follows   *)
(* the focus: OthersAreFollowed of the composition.                           *)
THEOREM GroupFollowsOthers == GroupSpec => []OthersAreFollowed
<1>1. /\ Socket!DescriptorsHaveOneOwner /\ Socket!ReceivedIsReported /\ Encoder!GivenIsOwned
      /\ Wire!MessagesStayWhole /\ Client!AnswersAreTheContent /\ Input!InputFollowsFocus
      => OthersAreFollowed
  BY Zenon DEF OthersAreFollowed
<1> QED BY <1>1, StreamsArePlayed, SocketsReport, GivenBelongs, MessagesAreRead,
           ContentsAreAnswered, FocusIsFollowed, PTL
=============================================================================
