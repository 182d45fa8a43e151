--------------------------- MODULE ExchangeProofs ---------------------------
(***************************************************************************)
(* What the components that MCLockedQueue plays promise of those who       *)
(* exchange something: the channel and the server of the RPC programs, the *)
(* read-write queue and the locked queue, for any clients, targets,        *)
(* threads and items, and for any bound.  They share no state.             *)
(***************************************************************************)
EXTENDS MCLockedQueue, Functions, FiniteSetTheorems, SequenceTheorems, TLAPS

-----------------------------------------------------------------------------
(* Two sequences without repetitions that have nothing in common follow each *)
(* other without one.                                                        *)
LEMMA JoinedOnce ==
  ASSUME NEW S, NEW s \in Seq(S), NEW t \in Seq(S),
         IsInjective(s), IsInjective(t), Range(s) \cap Range(t) = {}
  PROVE  s \o t \in Seq(S) /\ IsInjective(s \o t) /\ Range(s \o t) = Range(s) \cup Range(t)
<1> DEFINE j == s \o t
<1>1. /\ j \in Seq(S) /\ Len(j) = Len(s) + Len(t)
      /\ \A i \in 1..Len(s) + Len(t) : j[i] = IF i <= Len(s) THEN s[i] ELSE t[i - Len(s)]
  BY ConcatProperties
<1>2. /\ Len(s) \in Nat /\ DOMAIN s = 1..Len(s) /\ Len(t) \in Nat /\ DOMAIN t = 1..Len(t)
      /\ DOMAIN j = 1..Len(j)
  BY <1>1, LenProperties
<1> HIDE DEF j
<1>3. Range(j) = Range(s) \cup Range(t)
  BY RangeConcatenation DEF j
<1>4. ASSUME NEW a \in DOMAIN j, NEW b \in DOMAIN j, j[a] = j[b] PROVE a = b
  <2>1. CASE a <= Len(s) /\ b <= Len(s)
    BY <1>1, <1>2, <1>4, <2>1 DEF IsInjective
  <2>2. CASE a > Len(s) /\ b > Len(s)
    <3>1. /\ a - Len(s) \in DOMAIN t /\ b - Len(s) \in DOMAIN t
          /\ t[a - Len(s)] = t[b - Len(s)]
      BY <1>1, <1>2, <1>4, <2>2
    <3>2. a - Len(s) = b - Len(s)
      BY <3>1 DEF IsInjective
    <3> QED BY <3>2, <1>1, <1>2
  <2>3. CASE a <= Len(s) /\ b > Len(s)
    <3>1. /\ a \in DOMAIN s /\ b - Len(s) \in DOMAIN t /\ s[a] = t[b - Len(s)]
      BY <1>1, <1>2, <1>4, <2>3
    <3> QED BY <3>1 DEF Range
  <2>4. CASE a > Len(s) /\ b <= Len(s)
    <3>1. /\ b \in DOMAIN s /\ a - Len(s) \in DOMAIN t /\ s[b] = t[a - Len(s)]
      BY <1>1, <1>2, <1>4, <2>4
    <3> QED BY <3>1 DEF Range
  <2> QED BY <1>1, <1>2, <2>1, <2>2, <2>3, <2>4
<1>5. IsInjective(j)
  BY <1>4 DEF IsInjective
<1> QED BY <1>1, <1>3, <1>5 DEF j

(* What is taken off such a sequence is in the rest of it no more.           *)
LEMMA TakenOnce ==
  ASSUME NEW S, NEW s \in Seq(S), s # <<>>, IsInjective(s)
  PROVE  /\ Head(s) \in Range(s) /\ Tail(s) \in Seq(S) /\ IsInjective(Tail(s))
         /\ Range(Tail(s)) \subseteq Range(s) /\ Head(s) \notin Range(Tail(s))
<1>1. /\ Tail(s) \in Seq(S) /\ Len(Tail(s)) = Len(s) - 1
      /\ \A i \in 1..Len(Tail(s)) : Tail(s)[i] = s[i + 1]
  BY HeadTailProperties
<1>2. /\ Len(s) \in Nat \ {0} /\ DOMAIN s = 1..Len(s) /\ DOMAIN Tail(s) = 1..Len(Tail(s))
      /\ Head(s) = s[1]
  BY <1>1, LenProperties, EmptySeq
<1>3. \A i \in DOMAIN Tail(s) : i + 1 \in DOMAIN s /\ i + 1 # 1 /\ Tail(s)[i] = s[i + 1]
  BY <1>1, <1>2
<1>4. IsInjective(Tail(s))
  <2> SUFFICES ASSUME NEW a \in DOMAIN Tail(s), NEW b \in DOMAIN Tail(s), Tail(s)[a] = Tail(s)[b]
               PROVE  a = b
    BY DEF IsInjective
  <2>1. a + 1 = b + 1
    BY <1>3 DEF IsInjective
  <2> QED BY <2>1, <1>1, <1>2
<1>5. Head(s) \in Range(s) /\ Range(Tail(s)) \subseteq Range(s)
  BY <1>2, <1>3 DEF Range
<1>6. Head(s) \notin Range(Tail(s))
  BY <1>2, <1>3 DEF Range, IsInjective
<1> QED BY <1>1, <1>4, <1>5, <1>6

(* The oldest of two sequences is that of the first. *)
LEMMA TailOfConcat ==
  ASSUME NEW S, NEW s \in Seq(S), NEW t \in Seq(S), s # <<>>
  PROVE  s \o t # <<>> /\ Tail(s \o t) = Tail(s) \o t
<1> DEFINE j == s \o t
           k == Tail(s) \o t
<1>1. /\ j \in Seq(S) /\ Len(j) = Len(s) + Len(t)
      /\ \A i \in 1..Len(s) + Len(t) : j[i] = IF i <= Len(s) THEN s[i] ELSE t[i - Len(s)]
  BY ConcatProperties
<1>2. /\ Len(s) \in Nat \ {0} /\ Len(t) \in Nat
  BY LenProperties, EmptySeq
<1>3. /\ Tail(s) \in Seq(S) /\ Len(Tail(s)) = Len(s) - 1
      /\ \A i \in 1..Len(Tail(s)) : Tail(s)[i] = s[i + 1]
  BY HeadTailProperties
<1>4. /\ k \in Seq(S) /\ Len(k) = Len(Tail(s)) + Len(t)
      /\ \A i \in 1..Len(Tail(s)) + Len(t) :
            k[i] = IF i <= Len(Tail(s)) THEN Tail(s)[i] ELSE t[i - Len(Tail(s))]
  BY <1>3, ConcatProperties
<1> HIDE DEF j, k
<1>5. j # <<>>
  BY <1>1, <1>2, EmptySeq
<1>6. /\ Tail(j) \in Seq(S) /\ Len(Tail(j)) = Len(j) - 1
      /\ \A i \in 1..Len(Tail(j)) : Tail(j)[i] = j[i + 1]
  BY <1>1, <1>5, HeadTailProperties
<1>7. Len(Tail(j)) = Len(k)
  BY <1>1, <1>2, <1>3, <1>4, <1>6
<1>8. ASSUME NEW i \in 1..Len(k) PROVE Tail(j)[i] = k[i]
  <2>1. i + 1 \in 1..Len(s) + Len(t) /\ i \in 1..Len(Tail(j)) /\ i \in Nat
    BY <1>1, <1>2, <1>3, <1>4, <1>6
  <2>2. Tail(j)[i] = j[i + 1]
    BY <1>6, <2>1
  <2>3. CASE i <= Len(s) - 1
    BY <1>1, <1>2, <1>3, <1>4, <2>1, <2>2, <2>3
  <2>4. CASE i > Len(s) - 1
    <3>1. j[i + 1] = t[(i + 1) - Len(s)]
      BY <1>1, <1>2, <2>1, <2>4
    <3>2. k[i] = t[i - (Len(s) - 1)]
      BY <1>2, <1>3, <1>4, <2>1, <2>4
    <3>3. (i + 1) - Len(s) = i - (Len(s) - 1)
      BY <1>2, <2>1
    <3> QED BY <2>2, <3>1, <3>2, <3>3
  <2> QED BY <1>2, <2>1, <2>3, <2>4
<1>9. Tail(j) = k
  BY <1>4, <1>6, <1>7, <1>8, SeqEqual
<1> QED BY <1>5, <1>9 DEF j, k

(* What goes from the front of one sequence to the end of another stays      *)
(* where it was in the two of them, and what comes at the end comes last.    *)
LEMMA MovedOver ==
  ASSUME NEW S, NEW s \in Seq(S), NEW t \in Seq(S), t # <<>>
  PROVE  Append(s, Head(t)) \in Seq(S) /\ Append(s, Head(t)) \o Tail(t) = s \o t
<1> DEFINE x == Head(t)
           u == Tail(t)
           one == <<x>>
<1>1. x \in S /\ u \in Seq(S) /\ one \in Seq(S) /\ t = one \o u
  <2>1. x \in S /\ u \in Seq(S)
    BY HeadTailProperties
  <2>2. one \in Seq(S) /\ Len(one) = 1 /\ one[1] = x
    BY <2>1
  <2>3. /\ one \o u \in Seq(S) /\ Len(one \o u) = 1 + Len(u)
        /\ \A i \in 1..1 + Len(u) : (one \o u)[i] = IF i <= 1 THEN one[i] ELSE u[i - 1]
    BY <2>1, <2>2, ConcatProperties
  <2>4. /\ Len(t) \in Nat \ {0} /\ t[1] = x /\ Len(u) = Len(t) - 1
        /\ \A i \in 1..Len(u) : u[i] = t[i + 1]
    BY HeadTailProperties, LenProperties, EmptySeq
  <2> HIDE DEF x, u, one
  <2>5. ASSUME NEW i \in 1..Len(t) PROVE t[i] = (one \o u)[i]
    <3>1. CASE i = 1
      BY <2>2, <2>3, <2>4, <3>1
    <3>2. CASE i # 1
      <4>1. i - 1 \in 1..Len(u) /\ i \in 1..1 + Len(u) /\ (i - 1) + 1 = i
        BY <2>4, <3>2
      <4>2. u[i - 1] = t[i] /\ (one \o u)[i] = u[i - 1]
        BY <2>3, <2>4, <3>2, <4>1
      <4> QED BY <4>2
    <3> QED BY <3>1, <3>2
  <2>6. Len(t) = Len(one \o u)
    BY <2>3, <2>4
  <2>7. t = one \o u
    BY <2>3, <2>5, <2>6, SeqEqual
  <2> QED BY <2>1, <2>2, <2>7
<1> HIDE DEF u
<1>2. Append(s, x) = s \o one /\ Append(s, x) \in Seq(S)
  BY <1>1, AppendIsConcat, AppendProperties
<1> HIDE DEF x, one
<1>3. (s \o one) \o u = s \o (one \o u)
  BY <1>1, ConcatAssociative
<1> QED BY <1>1, <1>2, <1>3 DEF x, u

LEMMA AddedLast ==
  ASSUME NEW S, NEW s \in Seq(S), NEW t \in Seq(S), NEW x \in S,
         IsInjective(s \o t), x \notin Range(s \o t)
  PROVE  /\ Append(t, x) \in Seq(S) /\ IsInjective(s \o Append(t, x))
         /\ Range(s \o Append(t, x)) = Range(s \o t) \cup {x}
<1> DEFINE one == <<x>>
           j == s \o t
<1>1. one \in Seq(S) /\ Append(t, x) = t \o one /\ t \o one \in Seq(S)
  BY AppendIsConcat, AppendProperties
<1>2. IsInjective(one) /\ Range(one) = {x}
  BY DEF Range, IsInjective
<1>3. j \in Seq(S)
  BY ConcatProperties
<1> HIDE DEF one
<1>4. (s \o t) \o one = s \o (t \o one)
  BY <1>1, ConcatAssociative
<1> SUFFICES /\ IsInjective(j \o one) /\ Range(j \o one) = Range(j) \cup {x}
  BY <1>1, <1>4
<1>5. IsInjective(j) /\ x \notin Range(j)
  OBVIOUS
<1> HIDE DEF j
<1> QED BY <1>1, <1>2, <1>3, <1>5, JoinedOnce

-----------------------------------------------------------------------------
(* The channel: why a reply finds its call.                                  *)
ChannelTypeOK ==
  /\ ch_session \in Nat /\ ch_request \in [Clients -> Nat]
  /\ ch_pc \in [Clients -> {"idle", "counted", "pending", "replied"}]
  /\ ch_pendingSend \in Seq(Clients) /\ ch_pendingRecv \in Seq(Clients)
       /\ ch_waiting \in Seq(Clients)
  /\ ch_up \in Seq(Nat) /\ ch_down \in Seq(Nat) /\ ch_incoming \in Seq(Nat)
  /\ ch_at \in {"new", "flush", "drain", "match"}
  /\ ch_terminated \in BOOLEAN /\ ch_raced \in BOOLEAN

(* Without a race every call draws a session of its own.                     *)
OneCounts ==
  /\ \A c \in Clients : ch_pc[c] = "counted" => ch_request[c] = ch_session + 1
  /\ \A c \in Clients : ch_pc[c] # "counted" => ch_request[c] <= ch_session
  /\ \A c \in Clients : ch_pc[c] \in {"counted", "pending"} => ch_request[c] > 0
SessionsDiffer ==
  \A c, d \in Clients : c # d => ch_request[c] # ch_request[d] \/ ch_request[c] = 0

(* A session is on its way once, from when it is sent up to its reply.       *)
InFlight == Range(ch_incoming) \cup Range(ch_down) \cup Range(ch_up)
EachOnce ==
  /\ IsInjective(ch_incoming) /\ IsInjective(ch_down) /\ IsInjective(ch_up)
  /\ Range(ch_incoming) \cap Range(ch_down) = {} /\ Range(ch_incoming) \cap Range(ch_up) = {}
  /\ Range(ch_down) \cap Range(ch_up) = {}
SentOnce ==
  /\ IsInjective(ch_pendingSend)
  /\ \A c \in Range(ch_pendingSend) : ch_pc[c] = "pending" /\ ch_request[c] \notin InFlight
FlightsAreAwaited ==
  /\ \A s \in InFlight : s > 0 /\ s <= ch_session
  /\ \A c \in Clients : ch_request[c] \in InFlight => ch_pc[c] = "pending"

CallsAreApart == OneCounts /\ SessionsDiffer /\ EachOnce /\ SentOnce /\ FlightsAreAwaited

(* The inductive invariant: the calls are told apart, or two threads have    *)
(* raced.                                                                    *)
RepliesFindCalls == ChannelTypeOK /\ (~ch_raced => ~ch_terminated /\ CallsAreApart)

-----------------------------------------------------------------------------
LEMMA ChannelInit == Channel!Init => RepliesFindCalls
<1> SUFFICES ASSUME Channel!Init PROVE RepliesFindCalls
  OBVIOUS
<1>1. ChannelTypeOK
  BY EmptySeq DEF Channel!Init, ChannelTypeOK
<1>2. Range(<<>>) = {} /\ IsInjective(<<>>)
  BY DEF Range, IsInjective
<1>3. OneCounts /\ SessionsDiffer
  BY DEF Channel!Init, OneCounts, SessionsDiffer
<1>4. EachOnce /\ SentOnce /\ FlightsAreAwaited
  BY <1>2 DEF Channel!Init, EachOnce, SentOnce, FlightsAreAwaited, InFlight
<1> QED BY <1>1, <1>3, <1>4 DEF Channel!Init, RepliesFindCalls, CallsAreApart

(* Every step keeps the types.                                               *)
LEMMA ChannelKeepsTypes == ChannelTypeOK /\ [Channel!Next]_Channel!vars => ChannelTypeOK'
<1> SUFFICES ASSUME ChannelTypeOK, [Channel!Next]_Channel!vars PROVE ChannelTypeOK'
  OBVIOUS
<1>1. ASSUME NEW c \in Clients, Channel!Count(c) PROVE ChannelTypeOK'
  BY <1>1 DEF ChannelTypeOK, Channel!Count
<1>2. ASSUME NEW c \in Clients, Channel!Send(c) PROVE ChannelTypeOK'
  <2>1. ch_pendingSend' \in Seq(Clients)
    BY <1>2, AppendProperties DEF ChannelTypeOK, Channel!Send
  <2> QED BY <1>2, <2>1 DEF ChannelTypeOK, Channel!Send
<1>3. ASSUME NEW c \in Clients, Channel!Return(c) PROVE ChannelTypeOK'
  BY <1>3 DEF ChannelTypeOK, Channel!Return
<1>4. CASE Channel!Start
  BY <1>4 DEF ChannelTypeOK, Channel!Start
<1>5. CASE Channel!Flush
  <2>1. ch_down' \in Seq(Nat) /\ ch_up' \in Seq(Nat)
    BY <1>5, ConcatProperties, EmptySeq DEF ChannelTypeOK, Channel!Flush
  <2> QED BY <1>5, <2>1 DEF ChannelTypeOK, Channel!Flush
<1>6. CASE Channel!Dispatch
  <2>1. [i \in DOMAIN ch_pendingSend |-> ch_request[ch_pendingSend[i]]] \in Seq(Nat)
    <3>1. Len(ch_pendingSend) \in Nat /\ DOMAIN ch_pendingSend = 1..Len(ch_pendingSend)
          /\ \A i \in DOMAIN ch_pendingSend : ch_request[ch_pendingSend[i]] \in Nat
      BY LenProperties, ElementOfSeq DEF ChannelTypeOK
    <3> QED BY <3>1, SeqDef
  <2>2. ch_up' \in Seq(Nat) /\ ch_down' \in Seq(Nat) /\ ch_pendingSend' \in Seq(Clients)
    BY <1>6, <2>1, ConcatProperties, EmptySeq DEF ChannelTypeOK, Channel!Dispatch
  <2> QED BY <1>6, <2>2 DEF ChannelTypeOK, Channel!Dispatch
<1>7. CASE Channel!Match
  <2>1. ch_incoming' \in Seq(Nat)
    BY <1>7, HeadTailProperties DEF ChannelTypeOK, Channel!Match
  <2>2. /\ ch_pc' \in [Clients -> {"idle", "counted", "pending", "replied"}]
        /\ ch_terminated' \in BOOLEAN
    BY <1>7 DEF ChannelTypeOK, Channel!Match
  <2> QED BY <1>7, <2>1, <2>2 DEF ChannelTypeOK, Channel!Match
<1>8. CASE Channel!EndRound
  BY <1>8, EmptySeq DEF ChannelTypeOK, Channel!EndRound
<1>9. CASE UNCHANGED Channel!vars
  BY <1>9 DEF ChannelTypeOK, Channel!vars
<1> QED BY <1>1, <1>2, <1>3, <1>4, <1>5, <1>6, <1>7, <1>8, <1>9 DEF Channel!Next, Channel!Dispatcher

-----------------------------------------------------------------------------
(* Each step keeps the calls apart, as long as there is no race.             *)
LEMMA CountApart ==
  ASSUME ChannelTypeOK, CallsAreApart, ~ch_raced', NEW c \in Clients, Channel!Count(c)
  PROVE  CallsAreApart'
<1>1. /\ ch_request' = [ch_request EXCEPT ![c] = ch_session + 1]
           /\ ch_pc' = [ch_pc EXCEPT ![c] = "counted"]
      /\ ch_pc[c] = "idle" /\ ch_session' = ch_session /\ ch_session \in Nat
      /\ \A d \in Clients : ch_pc[d] # "counted"
  BY DEF Channel!Count, ChannelTypeOK
<1>2. /\ \A d \in Clients : d # c => ch_request'[d] = ch_request[d] /\ ch_pc'[d] = ch_pc[d]
      /\ ch_request'[c] = ch_session + 1 /\ ch_pc'[c] = "counted"
      /\ \A d \in Clients : ch_request[d] \in Nat /\ ch_request[d] <= ch_session
  BY <1>1 DEF ChannelTypeOK, CallsAreApart, OneCounts
<1>3. /\ ch_incoming' = ch_incoming /\ ch_down' = ch_down /\ ch_up' = ch_up
           /\ ch_pendingSend' = ch_pendingSend
      /\ InFlight' = InFlight
  BY DEF Channel!Count, InFlight
<1>4. OneCounts'
  <2>1. \A d \in Clients : ch_pc'[d] \in {"counted", "pending"} => ch_request'[d] > 0
    BY <1>1, <1>2 DEF CallsAreApart, OneCounts
  <2> QED BY <1>1, <1>2, <2>1 DEF CallsAreApart, OneCounts
<1>5. SessionsDiffer'
  BY <1>1, <1>2 DEF CallsAreApart, SessionsDiffer
<1>6. EachOnce'
  BY <1>3 DEF CallsAreApart, EachOnce
<1>7. FlightsAreAwaited'
  <2>1. ch_session + 1 \notin InFlight
    BY <1>1 DEF CallsAreApart, FlightsAreAwaited
  <2> QED BY <1>1, <1>2, <1>3, <2>1 DEF CallsAreApart, FlightsAreAwaited
<1>8. SentOnce'
  <2>1. c \notin Range(ch_pendingSend)
    BY <1>1 DEF CallsAreApart, SentOnce
  <2>2. Range(ch_pendingSend) \subseteq Clients
    BY RangeOfSeq DEF ChannelTypeOK
  <2> QED BY <1>2, <1>3, <2>1, <2>2 DEF CallsAreApart, SentOnce
<1> QED BY <1>4, <1>5, <1>6, <1>7, <1>8 DEF CallsAreApart

LEMMA SendApart ==
  ASSUME ChannelTypeOK, CallsAreApart, NEW c \in Clients, Channel!Send(c)
  PROVE  CallsAreApart'
<1>1. /\ ch_request' = ch_request /\ ch_pc' = [ch_pc EXCEPT ![c] = "pending"]
      /\ ch_pc[c] = "counted" /\ ch_session' = ch_request[c] /\ ch_session \in Nat
      /\ ch_request[c] = ch_session + 1
  BY DEF Channel!Send, ChannelTypeOK, CallsAreApart, OneCounts
<1>2. /\ \A d \in Clients : d # c => ch_pc'[d] = ch_pc[d]
      /\ ch_pc'[c] = "pending" /\ \A d \in Clients : ch_request[d] \in Nat
  BY <1>1 DEF ChannelTypeOK
<1>3. /\ ch_incoming' = ch_incoming /\ ch_down' = ch_down /\ ch_up' = ch_up
      /\ ch_pendingSend' = Append(ch_pendingSend, c) /\ InFlight' = InFlight
  BY DEF Channel!Send, InFlight
<1>4. OneCounts'
  <2>1. \A d \in Clients : d # c => ch_pc[d] # "counted"
    BY <1>1 DEF CallsAreApart, OneCounts, SessionsDiffer
  <2>2. \A d \in Clients : d # c => ch_request[d] <= ch_session'
    BY <1>1, <1>2, <2>1 DEF CallsAreApart, OneCounts
  <2>3. ch_request[c] <= ch_session' /\ ch_request[c] > 0
    BY <1>1, <1>2
  <2>4. \A d \in Clients : ch_pc'[d] # "counted"
    BY <1>2, <2>1
  <2>5. \A d \in Clients : ch_pc'[d] = "pending" => ch_request[d] > 0
    BY <1>2, <2>3 DEF CallsAreApart, OneCounts
  <2> QED BY <1>1, <2>2, <2>3, <2>4, <2>5 DEF OneCounts
<1>5. SessionsDiffer'
  BY <1>1 DEF CallsAreApart, SessionsDiffer
<1>6. EachOnce'
  BY <1>3 DEF CallsAreApart, EachOnce
<1>7. FlightsAreAwaited'
  <2>1. \A s \in InFlight : s > 0 /\ s <= ch_session /\ s \in Nat
    <3>1. \A s \in InFlight : s \in Nat
      BY RangeOfSeq DEF ChannelTypeOK, InFlight
    <3> QED BY <3>1 DEF CallsAreApart, FlightsAreAwaited
  <2>2. \A s \in InFlight : s <= ch_session'
    BY <1>1, <2>1
  <2>3. \A d \in Clients : ch_request[d] \in InFlight => ch_pc'[d] = "pending"
    BY <1>2 DEF CallsAreApart, FlightsAreAwaited
  <2> QED BY <1>1, <1>3, <2>1, <2>2, <2>3 DEF FlightsAreAwaited
<1>8. SentOnce'
  <2>1. c \notin Range(ch_pendingSend)
    BY <1>1 DEF CallsAreApart, SentOnce
  <2> DEFINE one == <<c>>
  <2>2. ch_pendingSend' = ch_pendingSend \o one /\ one \in Seq(Clients)
    BY <1>3, AppendIsConcat DEF ChannelTypeOK
  <2>3. Range(one) = {c} /\ IsInjective(one)
    BY DEF Range, IsInjective
  <2> HIDE DEF one
  <2>4. IsInjective(ch_pendingSend') /\ Range(ch_pendingSend') = Range(ch_pendingSend) \cup {c}
    <3>1. /\ ch_pendingSend \in Seq(Clients) /\ IsInjective(ch_pendingSend)
          /\ Range(ch_pendingSend) \cap Range(one) = {}
      BY <2>1, <2>3 DEF ChannelTypeOK, CallsAreApart, SentOnce
    <3> QED BY <2>2, <2>3, <3>1, JoinedOnce
  <2>5. ch_request[c] \notin InFlight
    BY <1>1 DEF CallsAreApart, FlightsAreAwaited
  <2>6. Range(ch_pendingSend) \subseteq Clients
    BY RangeOfSeq DEF ChannelTypeOK
  <2> QED BY <1>1, <1>2, <1>3, <2>1, <2>4, <2>5, <2>6 DEF CallsAreApart, SentOnce
<1> QED BY <1>4, <1>5, <1>6, <1>7, <1>8 DEF CallsAreApart

LEMMA FlushApart ==
  ASSUME ChannelTypeOK, CallsAreApart, Channel!Flush
  PROVE  CallsAreApart'
<1>1. /\ ch_down' = ch_down \o ch_up /\ ch_up' = <<>> /\ ch_incoming' = ch_incoming
      /\ UNCHANGED <<ch_session, ch_pc, ch_request, ch_pendingSend>>
  BY DEF Channel!Flush
<1>2. IsInjective(ch_down') /\ Range(ch_down') = Range(ch_down) \cup Range(ch_up)
  BY <1>1, JoinedOnce DEF ChannelTypeOK, CallsAreApart, EachOnce
<1>3. Range(ch_up') = {} /\ IsInjective(ch_up')
  BY <1>1 DEF Range, IsInjective
<1>4. Range(ch_incoming') = Range(ch_incoming) /\ IsInjective(ch_incoming')
  BY <1>1 DEF CallsAreApart, EachOnce
<1>5. InFlight' = InFlight
  BY <1>2, <1>3, <1>4 DEF InFlight
<1>6. EachOnce'
  BY <1>2, <1>3, <1>4 DEF CallsAreApart, EachOnce
<1> QED BY <1>1, <1>5, <1>6
        DEF CallsAreApart, OneCounts, SessionsDiffer, SentOnce, FlightsAreAwaited

LEMMA DispatchApart ==
  ASSUME ChannelTypeOK, CallsAreApart, Channel!Dispatch
  PROVE  CallsAreApart'
<1> DEFINE new == [i \in DOMAIN ch_pendingSend |-> ch_request[ch_pendingSend[i]]]
<1>1. /\ ch_incoming' = ch_down /\ ch_down' = <<>> /\ ch_up' = ch_up \o new
           /\ ch_pendingSend' = <<>>
      /\ UNCHANGED <<ch_session, ch_pc, ch_request>>
  BY DEF Channel!Dispatch
<1>2. /\ Len(ch_pendingSend) \in Nat /\ DOMAIN ch_pendingSend = 1..Len(ch_pendingSend)
      /\ \A i \in DOMAIN ch_pendingSend : ch_pendingSend[i] \in Clients
  BY LenProperties, ElementOfSeq DEF ChannelTypeOK
<1>3. new \in Seq(Nat)
  <2>1. \A i \in DOMAIN ch_pendingSend : ch_request[ch_pendingSend[i]] \in Nat
    BY <1>2 DEF ChannelTypeOK
  <2> QED BY <1>2, <2>1, SeqDef
<1>4. \A i \in DOMAIN ch_pendingSend :
         /\ ch_pendingSend[i] \in Range(ch_pendingSend) /\ ch_pc[ch_pendingSend[i]] = "pending"
         /\ new[i] = ch_request[ch_pendingSend[i]] /\ new[i] \notin InFlight
  BY DEF Range, CallsAreApart, SentOnce
<1>5. \A s \in Range(new) :
        \E c \in Clients : s = ch_request[c] /\ ch_pc[c] = "pending" /\ s \notin InFlight
  BY <1>2, <1>4 DEF Range
<1>6. IsInjective(new)
  <2> SUFFICES ASSUME NEW a \in DOMAIN ch_pendingSend, NEW b \in DOMAIN ch_pendingSend,
                      new[a] = new[b]
               PROVE  a = b
    BY DEF IsInjective
  <2>1. ch_request[ch_pendingSend[a]] # 0
    BY <1>2, <1>4 DEF CallsAreApart, OneCounts
  <2>2. ch_pendingSend[a] = ch_pendingSend[b]
    BY <1>2, <1>4, <2>1 DEF CallsAreApart, SessionsDiffer
  <2> QED BY <2>2 DEF CallsAreApart, SentOnce, IsInjective
<1> HIDE DEF new
<1>7. IsInjective(ch_up') /\ Range(ch_up') = Range(ch_up) \cup Range(new)
  <2>1. Range(ch_up) \cap Range(new) = {}
    BY <1>5 DEF InFlight
  <2> QED BY <1>1, <1>3, <1>6, <2>1, JoinedOnce DEF ChannelTypeOK, CallsAreApart, EachOnce
<1>8. /\ Range(ch_down') = {} /\ IsInjective(ch_down')
      /\ Range(ch_incoming') = Range(ch_down) /\ IsInjective(ch_incoming')
      /\ Range(ch_pendingSend') = {} /\ IsInjective(ch_pendingSend')
  BY <1>1 DEF Range, IsInjective, CallsAreApart, EachOnce
<1>9. EachOnce'
  <2>1. Range(ch_down) \cap Range(new) = {}
    BY <1>5 DEF InFlight
  <2> QED BY <1>7, <1>8, <2>1 DEF CallsAreApart, EachOnce
<1>10. InFlight' \subseteq InFlight \cup Range(new)
  BY <1>7, <1>8 DEF InFlight
<1>11. FlightsAreAwaited'
  <2>1. ASSUME NEW s \in Range(new) PROVE s > 0 /\ s <= ch_session
    <3>1. PICK c \in Clients : s = ch_request[c] /\ ch_pc[c] = "pending"
      BY <1>5
    <3> QED BY <3>1 DEF CallsAreApart, OneCounts
  <2>2. ASSUME NEW c \in Clients, ch_request[c] \in Range(new) PROVE ch_pc[c] = "pending"
    <3>1. PICK d \in Clients : ch_request[c] = ch_request[d] /\ ch_pc[d] = "pending"
      BY <1>5, <2>2
    <3>2. ch_request[d] # 0
      BY <3>1 DEF ChannelTypeOK, CallsAreApart, OneCounts
    <3> QED BY <3>1, <3>2 DEF CallsAreApart, SessionsDiffer
  <2> QED BY <1>1, <1>10, <2>1, <2>2 DEF CallsAreApart, FlightsAreAwaited
<1> QED BY <1>1, <1>8, <1>9, <1>11 DEF CallsAreApart, OneCounts, SessionsDiffer, SentOnce

LEMMA MatchApart ==
  ASSUME ChannelTypeOK, CallsAreApart, ~ch_terminated, Channel!Match
  PROVE  ~ch_terminated' /\ CallsAreApart'
<1> DEFINE s == Head(ch_incoming)
<1>1. /\ ch_incoming # <<>> /\ ch_incoming' = Tail(ch_incoming)
      /\ UNCHANGED <<ch_session, ch_request, ch_down, ch_up, ch_pendingSend>>
  BY DEF Channel!Match
<1>2. /\ s \in Range(ch_incoming) /\ IsInjective(ch_incoming')
      /\ Range(ch_incoming') \subseteq Range(ch_incoming) /\ s \notin Range(ch_incoming')
  BY <1>1, TakenOnce DEF ChannelTypeOK, CallsAreApart, EachOnce
<1> HIDE DEF s
<1>3. /\ s \in InFlight /\ InFlight' \subseteq InFlight /\ s \notin InFlight'
  BY <1>1, <1>2 DEF InFlight, CallsAreApart, EachOnce
<1>4. EachOnce'
  BY <1>1, <1>2 DEF CallsAreApart, EachOnce
<1>5. \/ UNCHANGED <<ch_pc, ch_terminated>>
      \/ \E c \in Clients : /\ ch_request[c] = s /\ ch_pc[c] = "pending"
                             /\ ch_pc' = [ch_pc EXCEPT ![c] = "replied"] /\ UNCHANGED ch_terminated
  <2>1. \A i \in DOMAIN ch_waiting : ch_waiting[i] \in Clients
    BY LenProperties, ElementOfSeq DEF ChannelTypeOK
  <2>2. \A c \in Clients : ch_request[c] = s => ch_pc[c] = "pending"
    BY <1>3 DEF CallsAreApart, FlightsAreAwaited
  <2> QED BY <2>1, <2>2 DEF Channel!Match, s
<1>6. CASE UNCHANGED <<ch_pc, ch_terminated>>
  BY <1>1, <1>3, <1>4, <1>6
     DEF CallsAreApart, OneCounts, SessionsDiffer, SentOnce, FlightsAreAwaited
<1>7. ASSUME NEW c \in Clients, ch_request[c] = s, ch_pc[c] = "pending",
             ch_pc' = [ch_pc EXCEPT ![c] = "replied"], UNCHANGED ch_terminated
      PROVE  ~ch_terminated' /\ CallsAreApart'
  <2>1. ch_pc'[c] = "replied" /\ \A d \in Clients : d # c => ch_pc'[d] = ch_pc[d]
    BY <1>7 DEF ChannelTypeOK
  <2>2. OneCounts'
    <3>1. /\ \A d \in Clients : ch_pc'[d] = "counted" => ch_pc[d] = "counted"
          /\ \A d \in Clients : ch_pc'[d] # "counted" => ch_pc[d] # "counted"
          /\ \A d \in Clients :
               ch_pc'[d] \in {"counted", "pending"} => ch_pc[d] \in {"counted", "pending"}
      BY <1>7, <2>1
    <3> QED BY <1>1, <3>1 DEF CallsAreApart, OneCounts
  <2>3. SessionsDiffer'
    BY <1>1 DEF CallsAreApart, SessionsDiffer
  <2>4. SentOnce'
    <3>1. c \notin Range(ch_pendingSend)
      BY <1>3, <1>7 DEF CallsAreApart, SentOnce
    <3>2. Range(ch_pendingSend) \subseteq Clients
      BY RangeOfSeq DEF ChannelTypeOK
    <3> QED BY <1>1, <1>3, <2>1, <3>1, <3>2 DEF CallsAreApart, SentOnce
  <2>5. FlightsAreAwaited'
    BY <1>1, <1>3, <1>7, <2>1 DEF CallsAreApart, FlightsAreAwaited
  <2> QED BY <1>4, <1>7, <2>2, <2>3, <2>4, <2>5 DEF CallsAreApart
<1> QED BY <1>5, <1>6, <1>7

LEMMA ChannelKept == RepliesFindCalls /\ [Channel!Next]_Channel!vars => RepliesFindCalls'
<1> SUFFICES ASSUME RepliesFindCalls, [Channel!Next]_Channel!vars PROVE RepliesFindCalls'
  OBVIOUS
<1>0. ChannelTypeOK /\ ChannelTypeOK'
  BY ChannelKeepsTypes DEF RepliesFindCalls
<1>1. CASE ch_raced
  <2>1. ch_raced'
    BY <1>0, <1>1
       DEF ChannelTypeOK, Channel!Next, Channel!vars, Channel!Dispatcher, Channel!Count,
           Channel!Send, Channel!Return, Channel!Start, Channel!Flush, Channel!Dispatch,
           Channel!Match, Channel!EndRound
  <2> QED BY <1>0, <2>1 DEF RepliesFindCalls
<1>2. CASE ~ch_raced
  <2> SUFFICES ASSUME ~ch_raced' PROVE ~ch_terminated' /\ CallsAreApart'
    BY <1>0 DEF RepliesFindCalls
  <2>1. ~ch_terminated /\ CallsAreApart
    BY <1>2 DEF RepliesFindCalls
  <2>2. ASSUME NEW c \in Clients, Channel!Count(c) PROVE ~ch_terminated' /\ CallsAreApart'
    BY <1>0, <2>1, <2>2, CountApart DEF Channel!Count
  <2>3. ASSUME NEW c \in Clients, Channel!Send(c) PROVE ~ch_terminated' /\ CallsAreApart'
    BY <1>0, <2>1, <2>3, SendApart DEF Channel!Send
  <2>4. ASSUME NEW c \in Clients, Channel!Return(c) PROVE ~ch_terminated' /\ CallsAreApart'
    <3>1. /\ ch_pc[c] = "replied" /\ ch_pc'[c] = "idle"
          /\ \A d \in Clients : d # c => ch_pc'[d] = ch_pc[d]
          /\ UNCHANGED <<ch_session, ch_request, ch_pendingSend, ch_up, ch_down, ch_incoming,
                         ch_terminated>>
      BY <1>0, <2>4 DEF Channel!Return, ChannelTypeOK
    <3>2. InFlight' = InFlight /\ EachOnce'
      BY <2>1, <3>1 DEF InFlight, EachOnce, CallsAreApart
    <3>3. Range(ch_pendingSend) \subseteq Clients
      BY <1>0, RangeOfSeq DEF ChannelTypeOK
    <3>4. OneCounts'
      <4>1. /\ \A d \in Clients : ch_pc'[d] = "counted" => ch_pc[d] = "counted"
            /\ \A d \in Clients : ch_pc'[d] # "counted" => ch_pc[d] # "counted"
            /\ \A d \in Clients :
                 ch_pc'[d] \in {"counted", "pending"} => ch_pc[d] \in {"counted", "pending"}
        BY <3>1
      <4> QED BY <2>1, <3>1, <4>1 DEF CallsAreApart, OneCounts
    <3>5. SessionsDiffer'
      BY <2>1, <3>1 DEF CallsAreApart, SessionsDiffer
    <3>6. SentOnce' /\ FlightsAreAwaited'
      BY <2>1, <3>1, <3>2, <3>3 DEF CallsAreApart, SentOnce, FlightsAreAwaited
    <3> QED BY <2>1, <3>1, <3>2, <3>4, <3>5, <3>6 DEF CallsAreApart
  <2>5. CASE Channel!Flush
    BY <1>0, <2>1, <2>5, FlushApart DEF Channel!Flush
  <2>6. CASE Channel!Dispatch
    BY <1>0, <2>1, <2>6, DispatchApart DEF Channel!Dispatch
  <2>7. CASE Channel!Match
    BY <1>0, <2>1, <2>7, MatchApart
  <2>8. CASE Channel!Start \/ Channel!EndRound \/ UNCHANGED Channel!vars
    <3>1. UNCHANGED <<ch_session, ch_pc, ch_request, ch_pendingSend, ch_up, ch_down, ch_incoming,
                      ch_terminated>>
      BY <2>8 DEF Channel!Start, Channel!EndRound, Channel!vars
    <3>2. InFlight' = InFlight /\ EachOnce'
      BY <2>1, <3>1 DEF InFlight, EachOnce, CallsAreApart
    <3> QED BY <2>1, <3>1, <3>2
            DEF CallsAreApart, OneCounts, SessionsDiffer, SentOnce, FlightsAreAwaited
  <2> QED BY <2>2, <2>3, <2>4, <2>5, <2>6, <2>7, <2>8 DEF Channel!Next, Channel!Dispatcher
<1> QED BY <1>1, <1>2

(* For any clients and any number of calls: unless two clients have raced on *)
(* the counter, no promise is set twice.                                     *)
THEOREM CallsAreRepliedOnce == Channel!Spec => []Channel!RepliedOnce
<1>1. Channel!Init => RepliesFindCalls
  BY ChannelInit
<1>2. RepliesFindCalls /\ [Channel!Next]_Channel!vars => RepliesFindCalls'
  BY ChannelKept
<1>3. RepliesFindCalls => Channel!RepliedOnce
  BY DEF RepliesFindCalls, Channel!RepliedOnce
<1> QED BY <1>1, <1>2, <1>3, PTL DEF Channel!Spec

-----------------------------------------------------------------------------
(* The read-write queue: its threads write or read, and what is pushed at a  *)
(* time is a sequence of items.                                              *)
ReadWriteConstants ==
  Writers \cap Readers = {} /\ Batches \subseteq Seq(Items) /\ Bound \in Nat

ReadWriteTypeOK ==
  /\ rw_writequeue \in Seq(Items) /\ rw_readqueue \in Seq(Items)
  /\ rw_pc \in [ReadWrite!Threads -> {"idle", "asleep", "notified"}]
  /\ rw_call \in [Writers -> ReadWrite!Calls \cup {ReadWrite!NoCall}]
  /\ \A w \in Writers : rw_pc[w] # "idle" => rw_call[w] \in ReadWrite!Calls

(* One reader at a time is inside pop, and it does not sleep beside an item. *)
ReadersTakeTurns ==
  \A r, s \in Readers : rw_pc[r] # "idle" /\ rw_pc[s] # "idle" => r = s
SleepingReadersFindNothing ==
  \A r \in ReadWrite!Asleep(Readers) : ReadWrite!Inside = <<>>

(* The inductive invariant: nobody sleeps who could go on.                   *)
SleepersWait ==
  /\ ReadWriteTypeOK /\ ReadWrite!SleepingItemsHaveNoRoom
  /\ ReadersTakeTurns /\ SleepingReadersFindNothing

LEMMA CallsAreBatches ==
  ASSUME ReadWriteConstants, NEW c \in ReadWrite!Calls
  PROVE  c.arg \in Batches /\ c.arg \in Seq(Items) /\ c.of \in {"item", "vector"}
BY DEF ReadWriteConstants, ReadWrite!Calls

LEMMA ReadWriteInit == ReadWrite!Init => SleepersWait
<1> SUFFICES ASSUME ReadWrite!Init PROVE SleepersWait
  OBVIOUS
<1>1. /\ \A t \in ReadWrite!Threads : rw_pc[t] = "idle"
      /\ \A t \in Writers \cup Readers : t \in ReadWrite!Threads
  BY DEF ReadWrite!Init, ReadWrite!Threads
<1>2. ReadWriteTypeOK
  BY <1>1, EmptySeq DEF ReadWrite!Init, ReadWriteTypeOK
<1> QED BY <1>1, <1>2
        DEF SleepersWait, ReadersTakeTurns, SleepingReadersFindNothing,
            ReadWrite!SleepingItemsHaveNoRoom, ReadWrite!Asleep

(* What one whole push adds, and what one whole pop takes.                   *)
LEMMA PushStep ==
  ASSUME ReadWriteConstants, SleepersWait, NEW w \in Writers, NEW c \in ReadWrite!Calls,
         ReadWrite!PushLocked(w, c)
  PROVE  /\ SleepersWait'
         /\ \/ ReadWrite!Inside' = ReadWrite!Inside
            \/ \E b \in Batches : ReadWrite!Inside' = ReadWrite!Inside \o b
<1>0. /\ rw_writequeue \in Seq(Items) /\ rw_readqueue \in Seq(Items) /\ Bound \in Nat
      /\ c.arg \in Batches /\ c.arg \in Seq(Items)
      /\ w \in ReadWrite!Threads /\ w \notin Readers /\ Writers \cap Readers = {}
      /\ \A t \in ReadWrite!Threads : t \in Writers \/ t \in Readers
      /\ \A r \in Readers : r \in ReadWrite!Threads
  BY CallsAreBatches DEF SleepersWait, ReadWriteTypeOK, ReadWriteConstants, ReadWrite!Threads
<1>1. CASE /\ ReadWrite!MustWait(c)
           /\ rw_pc' = [rw_pc EXCEPT ![w] = "asleep"] /\ rw_call' = [rw_call EXCEPT ![w] = c]
           /\ UNCHANGED <<rw_writequeue, rw_readqueue>>
  <2>1. /\ rw_pc' \in [ReadWrite!Threads -> {"idle", "asleep", "notified"}]
        /\ rw_pc'[w] = "asleep" /\ \A t \in ReadWrite!Threads : t # w => rw_pc'[t] = rw_pc[t]
    BY <1>0, <1>1 DEF SleepersWait, ReadWriteTypeOK
  <2>2. /\ rw_call' \in [Writers -> ReadWrite!Calls \cup {ReadWrite!NoCall}]
        /\ rw_call'[w] = c /\ \A v \in Writers : v # w => rw_call'[v] = rw_call[v]
    BY <1>1 DEF SleepersWait, ReadWriteTypeOK
  <2>3. ReadWriteTypeOK'
    BY <1>0, <1>1, <2>1, <2>2 DEF SleepersWait, ReadWriteTypeOK, ReadWrite!Threads
  <2>4. ReadWrite!SleepingItemsHaveNoRoom'
    <3> SUFFICES ASSUME NEW v \in Writers, rw_pc'[v] = "asleep", rw_call'[v].of = "item"
                 PROVE  ReadWrite!IsWriteFull'
      BY DEF ReadWrite!SleepingItemsHaveNoRoom, ReadWrite!Asleep
    <3>1. ReadWrite!IsWriteFull
      <4>1. CASE v = w
        BY <1>1, <2>2, <4>1 DEF ReadWrite!MustWait
      <4>2. CASE v # w
        BY <2>1, <2>2, <4>2
           DEF SleepersWait, ReadWrite!SleepingItemsHaveNoRoom, ReadWrite!Asleep, ReadWrite!Threads
      <4> QED BY <4>1, <4>2
    <3> QED BY <1>1, <3>1 DEF ReadWrite!IsWriteFull
  <2>5. ReadersTakeTurns' /\ SleepingReadersFindNothing'
    <3>1. \A r \in Readers : rw_pc'[r] = rw_pc[r]
      BY <1>0, <2>1
    <3> QED BY <1>1, <3>1
            DEF SleepersWait, ReadersTakeTurns, SleepingReadersFindNothing, ReadWrite!Asleep,
                ReadWrite!Inside
  <2> QED BY <1>1, <2>3, <2>4, <2>5 DEF SleepersWait, ReadWrite!Inside
<1>2. CASE /\ ~ReadWrite!MustWait(c)
           /\ rw_writequeue' = rw_writequeue \o c.arg /\ UNCHANGED rw_readqueue
           /\ rw_pc' = [t \in ReadWrite!Threads |->
                          IF t = w THEN "idle"
                          ELSE IF t \in ReadWrite!Asleep(Readers) THEN "notified" ELSE rw_pc[t]]
           /\ rw_call' = [rw_call EXCEPT ![w] = ReadWrite!NoCall]
  <2>1. /\ rw_pc' \in [ReadWrite!Threads -> {"idle", "asleep", "notified"}]
        /\ rw_pc'[w] = "idle" /\ \A v \in Writers : v # w => rw_pc'[v] = rw_pc[v]
        /\ \A r \in Readers : rw_pc'[r] = IF rw_pc[r] = "asleep" THEN "notified" ELSE rw_pc[r]
    BY <1>0, <1>2 DEF SleepersWait, ReadWriteTypeOK, ReadWrite!Asleep, ReadWrite!Threads
  <2>2. /\ rw_call' \in [Writers -> ReadWrite!Calls \cup {ReadWrite!NoCall}]
        /\ \A v \in Writers : v # w => rw_call'[v] = rw_call[v]
    BY <1>2 DEF SleepersWait, ReadWriteTypeOK
  <2>3. /\ rw_writequeue' \in Seq(Items) /\ Len(rw_writequeue') = Len(rw_writequeue) + Len(c.arg)
        /\ Len(rw_writequeue) \in Nat /\ Len(c.arg) \in Nat /\ rw_readqueue' = rw_readqueue
    BY <1>0, <1>2, ConcatProperties, LenProperties
  <2>4. ReadWriteTypeOK'
    <3>1. \A v \in Writers : rw_pc'[v] # "idle" => rw_call'[v] \in ReadWrite!Calls
      BY <2>1, <2>2 DEF SleepersWait, ReadWriteTypeOK
    <3> QED BY <1>0, <2>1, <2>2, <2>3, <3>1 DEF ReadWriteTypeOK
  <2>5. ReadWrite!SleepingItemsHaveNoRoom'
    <3> SUFFICES ASSUME NEW v \in Writers, rw_pc'[v] = "asleep", rw_call'[v].of = "item"
                 PROVE  ReadWrite!IsWriteFull'
      BY DEF ReadWrite!SleepingItemsHaveNoRoom, ReadWrite!Asleep
    <3>1. v # w
      BY <2>1
    <3>2. ReadWrite!IsWriteFull
      BY <2>1, <2>2, <3>1
         DEF SleepersWait, ReadWrite!SleepingItemsHaveNoRoom, ReadWrite!Asleep
    <3> QED BY <1>0, <2>3, <3>2 DEF ReadWrite!IsWriteFull
  <2>6. ReadersTakeTurns' /\ SleepingReadersFindNothing'
    <3>1. \A r \in Readers : rw_pc'[r] # "asleep" /\ (rw_pc'[r] # "idle" => rw_pc[r] # "idle")
      BY <1>0, <2>1
    <3> QED BY <3>1
            DEF SleepersWait, ReadersTakeTurns, SleepingReadersFindNothing, ReadWrite!Asleep
  <2>7. ReadWrite!Inside' = ReadWrite!Inside \o c.arg
    <3> DEFINE b == c.arg
    <3>1. b \in Seq(Items) /\ rw_readqueue' = rw_readqueue /\ rw_writequeue' = rw_writequeue \o b
      BY <1>0, <1>2
    <3>a. rw_readqueue \in Seq(Items) /\ rw_writequeue \in Seq(Items)
      BY <1>0
    <3> HIDE DEF b
    <3>2. (rw_readqueue \o rw_writequeue) \o b = rw_readqueue \o (rw_writequeue \o b)
      BY <3>1, <3>a, ConcatAssociative
    <3>3. ReadWrite!Inside' = ReadWrite!Inside \o b
      BY <3>1, <3>2 DEF ReadWrite!Inside
    <3> QED BY <3>3 DEF b
  <2> QED BY <1>0, <2>4, <2>5, <2>6, <2>7 DEF SleepersWait
<1> QED BY <1>1, <1>2 DEF ReadWrite!PushLocked

LEMMA PopStep ==
  ASSUME ReadWriteConstants, SleepersWait, NEW r \in Readers, ReadWrite!PopLocked(r),
         \A s \in Readers : s # r => rw_pc[s] = "idle"
  PROVE  /\ SleepersWait'
         /\ \/ ReadWrite!Inside' = ReadWrite!Inside
            \/ ReadWrite!Inside # <<>> /\ ReadWrite!Inside' = Tail(ReadWrite!Inside)
<1>0. /\ rw_writequeue \in Seq(Items) /\ rw_readqueue \in Seq(Items) /\ Bound \in Nat
      /\ r \in ReadWrite!Threads /\ r \notin Writers /\ Writers \cap Readers = {}
      /\ \A t \in ReadWrite!Threads : t \in Writers \/ t \in Readers
      /\ \A t \in Writers \cup Readers : t \in ReadWrite!Threads
      /\ rw_call' = rw_call
  BY DEF SleepersWait, ReadWriteTypeOK, ReadWriteConstants, ReadWrite!Threads, ReadWrite!PopLocked
<1>1. ASSUME NEW rest \in {"idle", "asleep"}, rw_pc' = [rw_pc EXCEPT ![r] = rest],
             UNCHANGED rw_writequeue, rw_readqueue' \in Seq(Items),
             rest = "asleep" => ReadWrite!Inside' = <<>>
      PROVE  SleepersWait'
  <2>1. /\ rw_pc' \in [ReadWrite!Threads -> {"idle", "asleep", "notified"}]
        /\ rw_pc'[r] = rest /\ \A t \in ReadWrite!Threads : t # r => rw_pc'[t] = rw_pc[t]
    BY <1>0, <1>1 DEF SleepersWait, ReadWriteTypeOK
  <2>2. \A w \in Writers : rw_pc'[w] = rw_pc[w]
    BY <1>0, <2>1
  <2>3. ReadWriteTypeOK'
    BY <1>0, <1>1, <2>1, <2>2 DEF SleepersWait, ReadWriteTypeOK
  <2>4. ReadWrite!SleepingItemsHaveNoRoom'
    <3>1. ReadWrite!IsWriteFull' <=> ReadWrite!IsWriteFull
      BY <1>1 DEF ReadWrite!IsWriteFull
    <3> QED BY <1>0, <2>2, <3>1
            DEF SleepersWait, ReadWrite!SleepingItemsHaveNoRoom, ReadWrite!Asleep
  <2>5. \A s \in Readers : s # r => rw_pc'[s] = "idle"
    BY <1>0, <2>1
  <2>6. ReadersTakeTurns' /\ SleepingReadersFindNothing'
    <3>1. ASSUME NEW s \in Readers, rw_pc'[s] # "idle" PROVE s = r
      BY <2>5, <3>1
    <3>2. ASSUME NEW s \in Readers, rw_pc'[s] = "asleep" PROVE ReadWrite!Inside' = <<>>
      BY <1>1, <2>1, <2>5, <3>2
    <3> QED BY <3>1, <3>2 DEF ReadersTakeTurns, SleepingReadersFindNothing, ReadWrite!Asleep
  <2> QED BY <2>3, <2>4, <2>6 DEF SleepersWait
<1>2. CASE /\ rw_readqueue # <<>> /\ rw_readqueue' = Tail(rw_readqueue)
           /\ rw_pc' = [rw_pc EXCEPT ![r] = "idle"] /\ UNCHANGED rw_writequeue
  <2>1. Tail(rw_readqueue) \in Seq(Items)
    BY <1>0, <1>2, HeadTailProperties
  <2>2. SleepersWait'
    BY <1>1, <1>2, <2>1
  <2>3. /\ ReadWrite!Inside # <<>> /\ ReadWrite!Inside' = Tail(ReadWrite!Inside)
    BY <1>0, <1>2, TailOfConcat, ConcatEqualIffEmpty DEF ReadWrite!Inside
  <2> QED BY <2>2, <2>3
<1>3. CASE /\ rw_readqueue \o rw_writequeue = <<>>
           /\ rw_pc' = [rw_pc EXCEPT ![r] = "asleep"] /\ UNCHANGED <<rw_writequeue, rw_readqueue>>
  <2>1. ReadWrite!Inside' = <<>> /\ ReadWrite!Inside' = ReadWrite!Inside
    BY <1>3 DEF ReadWrite!Inside
  <2> QED BY <1>0, <1>1, <1>3, <2>1
<1>4. CASE /\ rw_readqueue = <<>> /\ rw_writequeue # <<>>
           /\ rw_readqueue' = Tail(rw_writequeue) /\ rw_writequeue' = <<>>
           /\ rw_pc' = [t \in ReadWrite!Threads |->
                          IF t = r THEN "idle"
                          ELSE IF t \in ReadWrite!Asleep(Writers) THEN "notified" ELSE rw_pc[t]]
  <2>1. rw_readqueue' \in Seq(Items) /\ rw_writequeue' \in Seq(Items)
    BY <1>0, <1>4, HeadTailProperties, EmptySeq
  <2>2. /\ rw_pc' \in [ReadWrite!Threads -> {"idle", "asleep", "notified"}]
        /\ \A s \in Readers : rw_pc'[s] = "idle"
        /\ \A w \in Writers : rw_pc'[w] # "asleep" /\ (rw_pc'[w] # "idle" => rw_pc[w] # "idle")
    BY <1>0, <1>4 DEF SleepersWait, ReadWriteTypeOK, ReadWrite!Asleep
  <2>3. ReadWriteTypeOK'
    BY <1>0, <2>1, <2>2 DEF SleepersWait, ReadWriteTypeOK
  <2>4. SleepersWait'
    BY <2>2, <2>3
       DEF SleepersWait, ReadWrite!SleepingItemsHaveNoRoom, ReadersTakeTurns,
           SleepingReadersFindNothing, ReadWrite!Asleep
  <2>5. ReadWrite!Inside = rw_writequeue /\ ReadWrite!Inside' = Tail(rw_writequeue)
    BY <1>0, <1>4, <2>1, ConcatEmptySeq DEF ReadWrite!Inside
  <2> QED BY <1>4, <2>4, <2>5
<1> QED BY <1>2, <1>3, <1>4 DEF ReadWrite!PopLocked

LEMMA ReadWriteStep ==
  ASSUME ReadWriteConstants, SleepersWait, ReadWrite!Next
  PROVE  /\ SleepersWait'
         /\ \/ ReadWrite!Inside' = ReadWrite!Inside
            \/ \E b \in Batches : ReadWrite!Inside' = ReadWrite!Inside \o b
            \/ ReadWrite!Inside # <<>> /\ ReadWrite!Inside' = Tail(ReadWrite!Inside)
<1>1. ASSUME NEW w \in Writers, ReadWrite!Push(w) \/ ReadWrite!ResumePush(w)
      PROVE  \E c \in ReadWrite!Calls : ReadWrite!PushLocked(w, c)
  <2>1. rw_pc[w] = "notified" => rw_call[w] \in ReadWrite!Calls
    BY DEF SleepersWait, ReadWriteTypeOK
  <2> QED BY <1>1, <2>1 DEF ReadWrite!Push, ReadWrite!ResumePush
<1>2. ASSUME NEW r \in Readers, ReadWrite!Pop(r) \/ ReadWrite!ResumePop(r)
      PROVE  ReadWrite!PopLocked(r) /\ \A s \in Readers : s # r => rw_pc[s] = "idle"
  BY <1>2 DEF SleepersWait, ReadersTakeTurns, ReadWrite!Pop, ReadWrite!ResumePop
<1>3. ASSUME NEW t \in ReadWrite!Threads, ReadWrite!WakeSpuriously(t)
      PROVE  SleepersWait' /\ ReadWrite!Inside' = ReadWrite!Inside
  <2>1. /\ rw_pc' \in [ReadWrite!Threads -> {"idle", "asleep", "notified"}]
        /\ \A u \in ReadWrite!Threads : \/ rw_pc'[u] = rw_pc[u]
                                        \/ rw_pc[u] = "asleep" /\ rw_pc'[u] = "notified"
        /\ UNCHANGED <<rw_writequeue, rw_readqueue, rw_call>>
        /\ \A u \in Writers \cup Readers : u \in ReadWrite!Threads
    BY <1>3 DEF SleepersWait, ReadWriteTypeOK, ReadWrite!WakeSpuriously, ReadWrite!Threads
  <2>2. \A u \in Writers \cup Readers : /\ rw_pc'[u] = "idle" <=> rw_pc[u] = "idle"
                                        /\ rw_pc'[u] = "asleep" => rw_pc[u] = "asleep"
    BY <2>1
  <2>3. ReadWriteTypeOK'
    BY <2>1, <2>2 DEF SleepersWait, ReadWriteTypeOK
  <2>4. ReadWrite!SleepingItemsHaveNoRoom'
    BY <2>1, <2>2
       DEF SleepersWait, ReadWrite!SleepingItemsHaveNoRoom, ReadWrite!Asleep, ReadWrite!IsWriteFull
  <2>5. ReadersTakeTurns' /\ SleepingReadersFindNothing'
    BY <2>1, <2>2
       DEF SleepersWait, ReadersTakeTurns, SleepingReadersFindNothing, ReadWrite!Asleep,
           ReadWrite!Inside
  <2> QED BY <2>1, <2>3, <2>4, <2>5 DEF SleepersWait, ReadWrite!Inside
<1>4. CASE \E w \in Writers : ReadWrite!Push(w) \/ ReadWrite!ResumePush(w)
  BY <1>1, <1>4, PushStep
<1>5. CASE \E r \in Readers : ReadWrite!Pop(r) \/ ReadWrite!ResumePop(r)
  BY <1>2, <1>5, PopStep
<1>6. CASE \E t \in ReadWrite!Threads : ReadWrite!WakeSpuriously(t)
  BY <1>3, <1>6
<1> QED BY <1>4, <1>5, <1>6 DEF ReadWrite!Next

LEMMA ReadWriteStutter ==
  SleepersWait /\ UNCHANGED ReadWrite!vars => SleepersWait'
BY DEF SleepersWait, ReadWriteTypeOK, ReadersTakeTurns, SleepingReadersFindNothing, ReadWrite!vars,
       ReadWrite!SleepingItemsHaveNoRoom, ReadWrite!Asleep, ReadWrite!IsWriteFull, ReadWrite!Inside

(* For any threads, any vectors of items and any bound: a sleeping push of   *)
(* an item has no room, one reader at a time is inside pop, and it does not  *)
(* sleep beside an item.                                                     *)
THEOREM NobodySleepsWhoCouldGoOn ==
  ASSUME ReadWriteConstants
  PROVE  ReadWrite!Spec => [](/\ ReadWrite!SleepingItemsHaveNoRoom
                              /\ ReadersTakeTurns /\ SleepingReadersFindNothing)
<1>1. ReadWrite!Init => SleepersWait
  BY ReadWriteInit
<1>2. SleepersWait /\ [ReadWrite!Next]_ReadWrite!vars => SleepersWait'
  BY ReadWriteStep, ReadWriteStutter
<1>3. SleepersWait => /\ ReadWrite!SleepingItemsHaveNoRoom
                      /\ ReadersTakeTurns /\ SleepingReadersFindNothing
  BY DEF SleepersWait
<1> QED BY <1>1, <1>2, <1>3, PTL DEF ReadWrite!Spec

(* Two deques are one FIFO queue, in which a vector appears as a whole.      *)
THEOREM TwoDequesAreOneQueue ==
  ASSUME ReadWriteConstants PROVE ReadWrite!Spec => OneQueue
<1>1. ReadWrite!Init => SleepersWait
  BY ReadWriteInit
<1>2. SleepersWait /\ [ReadWrite!Next]_ReadWrite!vars => SleepersWait'
  BY ReadWriteStep, ReadWriteStutter
<1>3. SleepersWait /\ [ReadWrite!Next]_ReadWrite!vars =>
        [\/ ReadWrite!Inside' = ReadWrite!Inside
         \/ \E b \in Batches : ReadWrite!Inside' = ReadWrite!Inside \o b
         \/ ReadWrite!Inside # <<>> /\ ReadWrite!Inside' = Tail(ReadWrite!Inside)]_ReadWrite!vars
  BY ReadWriteStep
<1> QED BY <1>1, <1>2, <1>3, PTL DEF ReadWrite!Spec, OneQueue, ReadWrite!OneQueue

-----------------------------------------------------------------------------
(* The server of the RPC program.                                            *)
Answers == sv_received \o sv_fromServer

ServerTypeOK ==
  /\ sv_fromDevice \in Seq(Seq(Ids)) /\ sv_packet \in Seq(Ids)
  /\ sv_received \in Seq(Ids \X Nat) /\ sv_fromServer \in Seq(Ids \X Nat)
  /\ sv_actors \subseteq Ids /\ sv_workList \in [Ids -> Seq(Nat \ {0})]
       /\ sv_running \in [Ids -> Nat]
  /\ sv_rpcs \in [Ids -> SUBSET (Nat \ {0})] /\ sv_tag \in [Ids -> Nat \ {0}]

(* A work list has the work of one request: a target with an actor ends the  *)
(* program when it is asked for again.  Until the work is run its target has *)
(* no answer.                                                                *)
OneWorkEach ==
  \A id \in Ids :
    /\ sv_workList[id] = <<>> \/ \E n \in sv_rpcs[id] : sv_workList[id] = <<n>>
    /\ id \notin sv_actors => sv_workList[id] = <<>>
    /\ sv_running[id] # 0 => sv_workList[id] = <<sv_running[id]>>
Answered(id) == \E a \in Range(Answers) : a[1] = id
AnsweredAreActors == \A id \in Ids : Answered(id) => id \in sv_actors
WorksAreUnanswered ==
  \A id \in Ids : sv_workList[id] # <<>> /\ sv_running[id] = 0 => ~Answered(id)

(* The inductive invariant. *)
WorksAreRunOnce ==
  /\ ServerTypeOK /\ OneWorkEach /\ AnsweredAreActors /\ WorksAreUnanswered
  /\ IsInjective(Answers)

LEMMA ServerInit == Server!Init => WorksAreRunOnce
<1> SUFFICES ASSUME Server!Init PROVE WorksAreRunOnce
  OBVIOUS
<1>1. ServerTypeOK
  BY EmptySeq DEF Server!Init, ServerTypeOK
<1>2. Answers = <<>>
  BY ConcatEmptySeq, EmptySeq DEF Server!Init, Answers
<1>3. IsInjective(Answers) /\ Range(Answers) = {}
  BY <1>2 DEF Range, IsInjective
<1>4. OneWorkEach /\ AnsweredAreActors /\ WorksAreUnanswered
  BY <1>3 DEF Server!Init, OneWorkEach, AnsweredAreActors, WorksAreUnanswered, Answered
<1> QED BY <1>1, <1>3, <1>4 DEF WorksAreRunOnce

LEMMA RunKept ==
  ASSUME WorksAreRunOnce, NEW id \in Ids, Server!Run(id) PROVE WorksAreRunOnce'
<1> DEFINE n == Head(sv_workList[id])
           a == <<id, n>>
<1>1. /\ sv_workList[id] # <<>> /\ sv_running[id] = 0 /\ ~Answered(id)
      /\ sv_running' = [sv_running EXCEPT ![id] = n] /\ sv_fromServer' = Append(sv_fromServer, a)
      /\ UNCHANGED <<sv_fromDevice, sv_packet, sv_actors, sv_workList, sv_rpcs, sv_tag,
                     sv_received>>
  BY DEF Server!Run, WorksAreRunOnce, WorksAreUnanswered
<1>2. n \in Nat \ {0} /\ sv_workList[id] = <<n>> /\ a \in Ids \X Nat /\ a[1] = id
  BY <1>1 DEF WorksAreRunOnce, OneWorkEach, ServerTypeOK
<1> HIDE DEF n, a
<1>3. a \notin Range(Answers)
  BY <1>1, <1>2 DEF Answered
<1>4. /\ sv_fromServer' \in Seq(Ids \X Nat) /\ IsInjective(Answers')
      /\ Range(Answers') = Range(Answers) \cup {a}
  <2>1. sv_received \in Seq(Ids \X Nat) /\ sv_fromServer \in Seq(Ids \X Nat)
    BY DEF WorksAreRunOnce, ServerTypeOK
  <2>2. /\ IsInjective(sv_received \o sv_fromServer) /\ a \notin Range(sv_received \o sv_fromServer)
        /\ Answers' = sv_received \o Append(sv_fromServer, a)
    BY <1>1, <1>3 DEF WorksAreRunOnce, Answers
  <2>3. /\ Append(sv_fromServer, a) \in Seq(Ids \X Nat)
        /\ IsInjective(sv_received \o Append(sv_fromServer, a))
        /\ Range(sv_received \o Append(sv_fromServer, a)) = Range(sv_received \o sv_fromServer)
             \cup {a}
    BY <1>2, <2>1, <2>2, AddedLast
  <2> QED BY <1>1, <2>2, <2>3 DEF Answers
<1>5. sv_running' \in [Ids -> Nat] /\ sv_running'[id] = n
      /\ \A i \in Ids : i # id => sv_running'[i] = sv_running[i]
  BY <1>1, <1>2 DEF WorksAreRunOnce, ServerTypeOK
<1>6. ServerTypeOK'
  BY <1>1, <1>4, <1>5 DEF WorksAreRunOnce, ServerTypeOK
<1>7. OneWorkEach'
  BY <1>1, <1>2, <1>5 DEF WorksAreRunOnce, OneWorkEach
<1>8. \A i \in Ids : i # id => (Answered(i)' <=> Answered(i))
  BY <1>2, <1>4 DEF Answered
<1>9. AnsweredAreActors'
  <2>1. id \in sv_actors
    BY <1>1 DEF WorksAreRunOnce, OneWorkEach
  <2> QED BY <1>1, <1>8, <2>1 DEF WorksAreRunOnce, AnsweredAreActors
<1>10. WorksAreUnanswered'
  BY <1>1, <1>2, <1>5, <1>8 DEF WorksAreRunOnce, WorksAreUnanswered
<1> QED BY <1>4, <1>6, <1>7, <1>9, <1>10 DEF WorksAreRunOnce

LEMMA PopWorkKept ==
  ASSUME WorksAreRunOnce, NEW id \in Ids, Server!PopWork(id) PROVE WorksAreRunOnce'
<1>1. /\ sv_running[id] # 0 /\ sv_running' = [sv_running EXCEPT ![id] = 0]
      /\ sv_workList' = [sv_workList EXCEPT ![id] = Tail(@)]
      /\ UNCHANGED <<sv_fromDevice, sv_fromServer, sv_packet, sv_actors, sv_rpcs, sv_tag,
                     sv_received>>
      /\ sv_workList[id] = <<sv_running[id]>>
  BY DEF Server!PopWork, WorksAreRunOnce, OneWorkEach
<1>2. Tail(sv_workList[id]) = <<>>
  BY <1>1
<1>3. /\ sv_workList'[id] = <<>> /\ sv_running'[id] = 0
      /\ \A i \in Ids : i # id => sv_workList'[i] = sv_workList[i] /\ sv_running'[i] = sv_running[i]
  BY <1>1, <1>2 DEF WorksAreRunOnce, ServerTypeOK
<1>4. ServerTypeOK'
  <2>1. sv_workList' \in [Ids -> Seq(Nat \ {0})]
    BY <1>1, <1>2, EmptySeq DEF WorksAreRunOnce, ServerTypeOK
  <2> QED BY <1>1, <2>1 DEF WorksAreRunOnce, ServerTypeOK
<1>5. Answers' = Answers /\ \A i \in Ids : Answered(i)' <=> Answered(i)
  BY <1>1 DEF Answers, Answered
<1>6. OneWorkEach'
  BY <1>1, <1>3 DEF WorksAreRunOnce, OneWorkEach
<1>7. AnsweredAreActors' /\ WorksAreUnanswered'
  BY <1>1, <1>3, <1>5 DEF WorksAreRunOnce, AnsweredAreActors, WorksAreUnanswered
<1> QED BY <1>4, <1>5, <1>6, <1>7 DEF WorksAreRunOnce

LEMMA HandleKept ==
  ASSUME WorksAreRunOnce, Server!Handle PROVE WorksAreRunOnce'
<1> DEFINE id == Head(sv_packet)
<1>1. /\ sv_packet # <<>> /\ sv_packet' = Tail(sv_packet)
      /\ UNCHANGED <<sv_fromDevice, sv_fromServer, sv_running, sv_received>>
  BY DEF Server!Handle
<1>2. id \in Ids /\ sv_packet' \in Seq(Ids)
  BY <1>1, HeadTailProperties DEF WorksAreRunOnce, ServerTypeOK
<1>3. Answers' = Answers /\ \A i \in Ids : Answered(i)' <=> Answered(i)
  BY <1>1 DEF Answers, Answered
<1>4. CASE UNCHANGED <<sv_actors, sv_rpcs, sv_workList, sv_tag>>
  <2>1. ServerTypeOK'
    BY <1>1, <1>2, <1>4 DEF WorksAreRunOnce, ServerTypeOK
  <2> QED BY <1>1, <1>3, <1>4, <2>1
          DEF WorksAreRunOnce, OneWorkEach, AnsweredAreActors, WorksAreUnanswered
<1>5. CASE id \notin sv_actors /\ sv_actors' = sv_actors \cup {id} /\ Server!Adopt(id)
             /\ Server!Execute(id)
  <2> DEFINE n == sv_tag[id]
  <2>1. /\ id \notin sv_actors /\ sv_actors' = sv_actors \cup {id}
        /\ sv_rpcs' = [sv_rpcs EXCEPT ![id] = @ \cup {n}] /\ sv_tag' = [sv_tag EXCEPT ![id] = @ + 1]
        /\ sv_workList' = [sv_workList EXCEPT ![id] = Append(@, n)]
        /\ sv_workList[id] = <<>> /\ n \in Nat \ {0} /\ sv_running[id] = 0
    BY <1>2, <1>5 DEF Server!Adopt, Server!Execute, WorksAreRunOnce, OneWorkEach, ServerTypeOK
  <2> HIDE DEF n, id
  <2>2. Append(sv_workList[id], n) = <<n>> /\ <<n>> \in Seq(Nat \ {0})
    BY <2>1
  <2>3. /\ sv_workList'[id] = <<n>> /\ n \in sv_rpcs'[id]
        /\ \A i \in Ids : i # id => sv_workList'[i] = sv_workList[i] /\ sv_rpcs'[i] = sv_rpcs[i]
    BY <1>2, <2>1, <2>2 DEF WorksAreRunOnce, ServerTypeOK
  <2>4. ServerTypeOK'
    <3>1. sv_workList' \in [Ids -> Seq(Nat \ {0})]
      BY <1>2, <2>1, <2>2 DEF WorksAreRunOnce, ServerTypeOK
    <3>2. sv_rpcs' \in [Ids -> SUBSET (Nat \ {0})] /\ sv_tag' \in [Ids -> Nat \ {0}]
      BY <1>2, <2>1 DEF WorksAreRunOnce, ServerTypeOK
    <3> QED BY <1>1, <1>2, <2>1, <3>1, <3>2 DEF WorksAreRunOnce, ServerTypeOK
  <2>5. ~Answered(id)
    BY <1>2, <2>1 DEF WorksAreRunOnce, AnsweredAreActors
  <2>6. OneWorkEach'
    BY <1>1, <1>2, <2>1, <2>3 DEF WorksAreRunOnce, OneWorkEach
  <2>7. AnsweredAreActors' /\ WorksAreUnanswered'
    BY <1>1, <1>2, <1>3, <2>1, <2>3, <2>5
       DEF WorksAreRunOnce, AnsweredAreActors, WorksAreUnanswered
  <2> QED BY <1>3, <2>4, <2>6, <2>7 DEF WorksAreRunOnce
<1> QED BY <1>4, <1>5 DEF Server!Handle

LEMMA ServerStep == WorksAreRunOnce /\ [Server!Next]_Server!vars => WorksAreRunOnce'
<1> SUFFICES ASSUME WorksAreRunOnce, [Server!Next]_Server!vars PROVE WorksAreRunOnce'
  OBVIOUS
<1>1. ASSUME Answers' = Answers, ServerTypeOK',
            UNCHANGED <<sv_actors, sv_workList, sv_running, sv_rpcs>>
      PROVE  WorksAreRunOnce'
  BY <1>1 DEF WorksAreRunOnce, OneWorkEach, AnsweredAreActors, WorksAreUnanswered, Answered
<1>2. ASSUME NEW r \in Server!Requests, Server!DeviceSends(r) PROVE WorksAreRunOnce'
  <2>1. r \in Seq(Ids)
    <3>1. \A i, j \in Ids : <<i>> \in Seq(Ids) /\ <<i, j>> \in Seq(Ids)
      OBVIOUS
    <3>2. (\E i \in Ids : r = <<i>>) \/ (\E i, j \in Ids : r = <<i, j>>)
      BY DEF Server!Requests
    <3> QED BY <3>1, <3>2
  <2>2. sv_fromDevice' \in Seq(Seq(Ids))
    BY <1>2, <2>1, AppendProperties DEF Server!DeviceSends, WorksAreRunOnce, ServerTypeOK
  <2>3. ServerTypeOK'
    BY <1>2, <2>2 DEF Server!DeviceSends, WorksAreRunOnce, ServerTypeOK
  <2> QED BY <1>1, <1>2, <2>3 DEF Server!DeviceSends, Answers
<1>3. CASE Server!DeviceReceives
  <2>1. /\ sv_received' \in Seq(Ids \X Nat) /\ Answers' = Answers
    BY <1>3, MovedOver DEF Server!DeviceReceives, WorksAreRunOnce, ServerTypeOK, Answers
  <2>2. sv_fromServer' \in Seq(Ids \X Nat)
    BY <1>3, HeadTailProperties DEF Server!DeviceReceives, WorksAreRunOnce, ServerTypeOK
  <2>3. ServerTypeOK'
    BY <1>3, <2>1, <2>2 DEF Server!DeviceReceives, WorksAreRunOnce, ServerTypeOK
  <2> QED BY <1>1, <1>3, <2>1, <2>3 DEF Server!DeviceReceives
<1>4. CASE Server!ServerReceives
  <2>1. sv_packet' \in Seq(Ids) /\ sv_fromDevice' \in Seq(Seq(Ids))
    BY <1>4, HeadTailProperties DEF Server!ServerReceives, WorksAreRunOnce, ServerTypeOK
  <2>2. ServerTypeOK'
    BY <1>4, <2>1 DEF Server!ServerReceives, WorksAreRunOnce, ServerTypeOK
  <2> QED BY <1>1, <1>4, <2>2 DEF Server!ServerReceives, Answers
<1>5. CASE Server!Handle
  BY <1>5, HandleKept
<1>6. ASSUME NEW id \in Ids, Server!Run(id) \/ Server!PopWork(id) PROVE WorksAreRunOnce'
  BY <1>6, RunKept, PopWorkKept
<1>7. CASE UNCHANGED Server!vars
  <2>1. ServerTypeOK'
    BY <1>7 DEF Server!vars, WorksAreRunOnce, ServerTypeOK
  <2> QED BY <1>1, <1>7, <2>1 DEF Server!vars, Answers
<1> QED BY <1>2, <1>3, <1>4, <1>5, <1>6, <1>7 DEF Server!Next

(* For any targets and any number of packets: no request is answered twice,  *)
(* and a handler is in the registry as long as a work points to it.          *)
THEOREM RequestsAreAnsweredOnce ==
  Server!Spec => [](Server!AnsweredOnce /\ Server!HandlersOutliveWorks)
<1>1. Server!Init => WorksAreRunOnce
  BY ServerInit
<1>2. WorksAreRunOnce /\ [Server!Next]_Server!vars => WorksAreRunOnce'
  BY ServerStep
<1>3. ASSUME WorksAreRunOnce PROVE Server!AnsweredOnce /\ Server!HandlersOutliveWorks
  <2>1. Server!AnsweredOnce
    BY <1>3 DEF WorksAreRunOnce, Answers, Server!AnsweredOnce, Server!IsInjective, IsInjective
  <2>2. ASSUME NEW id \in Ids PROVE Server!Range(sv_workList[id]) \subseteq sv_rpcs[id]
    <3>1. CASE sv_workList[id] = <<>>
      BY <3>1 DEF Server!Range
    <3>2. CASE \E n \in sv_rpcs[id] : sv_workList[id] = <<n>>
      BY <3>2 DEF Server!Range
    <3> QED BY <1>3, <3>1, <3>2 DEF WorksAreRunOnce, OneWorkEach
  <2> QED BY <2>1, <2>2 DEF Server!HandlersOutliveWorks
<1> QED BY <1>1, <1>2, <1>3, PTL DEF Server!Spec

-----------------------------------------------------------------------------
(* A request is answered once, by the channel and by the server: what        *)
(* MCLockedQueue checks, for any number of clients, calls, targets and packets. *)
THEOREM EachIsAnsweredOnce == Channel!Spec /\ Server!Spec => []AnsweredOnce
BY CallsAreRepliedOnce, RequestsAreAnsweredOnce, PTL DEF AnsweredOnce

-----------------------------------------------------------------------------
(* The locked queue: its types, that no wakeup is lost, and that it is a     *)
(* bounded FIFO queue, unbounded for a bound of zero.                        *)

USE LockedAssumption

LEMMA InitTypeOK == Init => TypeOK
  BY DEF Init, TypeOK, Threads

(* What NotifyOne does to the program counters: t is idle, and at most one   *)
(* other thread changes, a sleeper that becomes notified.                    *)
LEMMA NotifyOneMoves ==
  ASSUME TypeOK, NEW t \in Threads, NEW sleepers \in SUBSET Threads,
         t \notin sleepers, NotifyOne(t, sleepers)
  PROVE  /\ pc' \in [Threads -> {"idle", "asleep", "notified"}]
         /\ pc'[t] = "idle"
         /\ \/ sleepers = {} /\ \A s \in Threads \ {t} : pc'[s] = pc[s]
            \/ \E s \in sleepers : /\ pc'[s] = "notified"
                                   /\ \A r \in Threads \ {t, s} : pc'[r] = pc[r]
<1>1. CASE sleepers = {}
  BY <1>1 DEF TypeOK, NotifyOne
<1>2. CASE sleepers # {}
  <2>1. PICK s \in sleepers : pc' = [pc EXCEPT ![t] = "idle", ![s] = "notified"]
    BY <1>2 DEF NotifyOne
  <2>2. s \in Threads /\ s # t
    OBVIOUS
  <2> QED BY <2>1, <2>2 DEF TypeOK
<1> QED BY <1>1, <1>2

LEMMA EnqueueTypeOK ==
  ASSUME TypeOK, NEW p \in Producers, pc[p] # "asleep", NEW x \in Items,
         Enqueue(p, x), UNCHANGED got
  PROVE  TypeOK'
<1> DEFINE sleepers == Asleep(Consumers)
<1>0. /\ p \in Threads /\ p \notin sleepers /\ sleepers \in SUBSET Threads
      /\ \A q \in Producers : q \in Threads /\ q \notin sleepers
  BY DEF Threads, Asleep
<1>1. NotifyOne(p, sleepers)
  BY DEF Enqueue
<1> HIDE DEF sleepers
<1>2. /\ pc' \in [Threads -> {"idle", "asleep", "notified"}] /\ pc'[p] = "idle"
      /\ \A q \in Producers : q # p => pc'[q] = pc[q]
  BY <1>0, <1>1, NotifyOneMoves
<1>3. queue' \in Seq(Items)
  BY DEF Enqueue, TypeOK
<1>4. item' \in [Producers -> Items \cup {NoItem}] /\ \A q \in Producers : q # p => item'[q] = item[q]
  BY DEF Enqueue, TypeOK
<1> QED BY <1>2, <1>3, <1>4 DEF TypeOK

LEMMA DequeueTypeOK ==
  ASSUME TypeOK, NEW c \in Consumers, pc[c] # "asleep", queue # <<>>,
         Dequeue(c), UNCHANGED item
  PROVE  TypeOK'
<1> DEFINE sleepers == IF Bound > 0 THEN Asleep(Producers) ELSE {}
<1>1. c \in Threads /\ c \notin sleepers /\ sleepers \in SUBSET Threads
  BY DEF Threads, Asleep
<1>2. NotifyOne(c, sleepers)
  BY DEF Dequeue
<1>3. \A s \in sleepers : pc[s] = "asleep"
  BY DEF Asleep
<1> HIDE DEF sleepers
<1>4. pc' \in [Threads -> {"idle", "asleep", "notified"}]
  BY <1>1, <1>2, NotifyOneMoves
<1>5. \A p \in Producers : pc'[p] # "idle" => pc[p] # "idle"
  BY <1>1, <1>2, <1>3, NotifyOneMoves DEF Threads
<1>6. queue' \in Seq(Items) /\ Head(queue) \in Items
  BY DEF Dequeue, TypeOK
<1>7. got' \in [Consumers -> Items \cup {NoItem}]
  BY <1>6 DEF Dequeue, TypeOK
<1> QED BY <1>4, <1>5, <1>6, <1>7 DEF TypeOK

LEMMA PushLockedTypeOK ==
  ASSUME TypeOK, NEW p \in Producers, pc[p] # "asleep", NEW x \in Items,
         PushLocked(p, x), UNCHANGED got
  PROVE  TypeOK'
<1>1. CASE Enqueue(p, x)
  BY <1>1, EnqueueTypeOK
<1>2. CASE Sleep(p) /\ item' = [item EXCEPT ![p] = x] /\ UNCHANGED queue
  BY <1>2 DEF Sleep, TypeOK, Threads
<1> QED BY <1>1, <1>2 DEF PushLocked

LEMMA PopLockedTypeOK ==
  ASSUME TypeOK, NEW c \in Consumers, pc[c] # "asleep", PopLocked(c), UNCHANGED item
  PROVE  TypeOK'
<1>1. CASE queue # <<>> /\ Dequeue(c)
  BY <1>1, DequeueTypeOK
<1>2. CASE Sleep(c) /\ UNCHANGED <<queue, got>>
  <2>1. \A p \in Producers : p \in Threads /\ p # c
    BY DEF Threads
  <2> QED BY <1>2, <2>1 DEF Sleep, TypeOK, Threads
<1> QED BY <1>1, <1>2 DEF PopLocked

(* Every step of the queue is one of these: somebody who is not asleep holds *)
(* the mutex in push or pop, or a sleeper wakes up, or nothing happens.      *)
LEMMA Steps ==
  ASSUME TypeOK, [Next]_vars
  PROVE  \/ \E p \in Producers, x \in Items :
              pc[p] # "asleep" /\ PushLocked(p, x) /\ UNCHANGED got
         \/ \E c \in Consumers : pc[c] # "asleep" /\ PopLocked(c) /\ UNCHANGED item
         \/ \E t \in Threads : WakeSpuriously(t)
         \/ UNCHANGED vars
<1>1. ASSUME NEW p \in Producers, Push(p) \/ ResumePush(p) \/ TryPush(p)
      PROVE  \/ \E x \in Items : pc[p] # "asleep" /\ PushLocked(p, x) /\ UNCHANGED got
             \/ UNCHANGED vars
  BY <1>1 DEF Push, ResumePush, TryPush, PushLocked, TypeOK
<1>2. ASSUME NEW c \in Consumers, Pop(c) \/ ResumePop(c) \/ TryPop(c)
      PROVE  \/ pc[c] # "asleep" /\ PopLocked(c) /\ UNCHANGED item
             \/ UNCHANGED vars
  BY <1>2 DEF Pop, ResumePop, TryPop, PopLocked
<1> QED BY <1>1, <1>2 DEF Next

LEMMA NextTypeOK == TypeOK /\ [Next]_vars => TypeOK'
<1> SUFFICES ASSUME TypeOK, [Next]_vars PROVE TypeOK'
  OBVIOUS
<1>1. ASSUME NEW t \in Threads, WakeSpuriously(t) PROVE TypeOK'
  BY <1>1 DEF WakeSpuriously, TypeOK
<1>2. CASE UNCHANGED vars
  BY <1>2 DEF vars, TypeOK
<1> QED BY <1>1, <1>2, Steps, PushLockedTypeOK, PopLockedTypeOK

(* Every variable of the queue always has its type. *)
THEOREM TypeCorrect == Spec => []TypeOK
  BY InitTypeOK, NextTypeOK, PTL DEF Spec

-----------------------------------------------------------------------------
(* The notified threads of a group can be counted. *)
LEMMA Countable ==
  ASSUME NEW group, IsFiniteSet(group)
  PROVE  /\ IsFiniteSet(Notified(group)) /\ Cardinality(Notified(group)) \in Nat
         /\ IsFiniteSet(Notified(group)') /\ Cardinality(Notified(group)') \in Nat
<1>1. Notified(group) \subseteq group /\ Notified(group)' \subseteq group
  BY DEF Notified
<1> QED BY <1>1, FS_Subset, FS_CardinalityType

(* A step of one thread takes at most that thread from the notified ones. *)
LEMMA OneLess ==
  ASSUME NEW group, IsFiniteSet(group), NEW t,
         \A s \in group \ {t} : pc'[s] = pc[s]
  PROVE  Cardinality(Notified(group)) - 1 <= Cardinality(Notified(group)')
<1> DEFINE old == Notified(group)
           new == Notified(group)'
<1>1. IsFiniteSet(old) /\ Cardinality(old) \in Nat /\ IsFiniteSet(new) /\ Cardinality(new) \in Nat
  BY Countable
<1>2. old \ {t} \subseteq new
  BY DEF Notified
<1> HIDE DEF old, new
<1>3. IsFiniteSet(old \ {t}) /\ Cardinality(old \ {t}) \in Nat
  BY <1>1, FS_RemoveElement, FS_CardinalityType
<1>4. Cardinality(old \ {t}) >= Cardinality(old) - 1
  <2>1. CASE t \in old
    <3>1. Cardinality(old \ {t}) = IF t \in old THEN Cardinality(old) - 1 ELSE Cardinality(old)
      BY <1>1, FS_RemoveElement, Zenon
    <3> QED BY <1>1, <2>1, <3>1
  <2>2. CASE t \notin old
    <3>1. old \ {t} = old
      BY <2>2
    <3> QED BY <1>1, <3>1
  <2> QED BY <2>1, <2>2
<1>5. Cardinality(old \ {t}) <= Cardinality(new)
  BY <1>1, <1>2, FS_Subset
<1>6. Cardinality(old) - 1 <= Cardinality(new)
  BY <1>1, <1>3, <1>4, <1>5
<1> QED BY <1>6 DEF old, new

(* A sleeper that is notified is one more of them. *)
LEMMA OneMore ==
  ASSUME NEW group, IsFiniteSet(group), NEW s \in Asleep(group), pc'[s] = "notified",
         \A r \in group \ {s} : pc'[r] = pc[r]
  PROVE  Cardinality(Notified(group)') = Cardinality(Notified(group)) + 1
<1>1. s \notin Notified(group) /\ Notified(group)' = Notified(group) \cup {s}
  BY DEF Notified, Asleep
<1> QED BY <1>1, Countable, FS_AddElement

(* Both groups are finite and have no thread in common. *)
LEMMA Groups ==
  /\ IsFiniteSet(Producers) /\ IsFiniteSet(Consumers)
  /\ Producers \subseteq Threads /\ Consumers \subseteq Threads
  /\ \A p \in Producers : p \notin Consumers
  BY DEF Threads

LEMMA EnqueueWakes ==
  ASSUME TypeOK, WakeupsSuffice, NEW p \in Producers, pc[p] # "asleep", NEW x \in Items,
         Enqueue(p, x)
  PROVE  WakeupsSuffice'
<1> DEFINE sleepers == Asleep(Consumers)
           waking(group) == Cardinality(Notified(group))
           wakingNext(group) == Cardinality(Notified(group)')
<1>1. p \in Threads /\ p \notin sleepers /\ sleepers \in SUBSET Threads
  BY DEF Threads, Asleep
<1>2. NotifyOne(p, sleepers)
  BY DEF Enqueue
<1>3. Len(queue) \in Nat /\ Len(queue') = Len(queue) + 1
  BY DEF Enqueue, TypeOK
<1>4. /\ waking(Consumers) \in Nat /\ wakingNext(Consumers) \in Nat
      /\ waking(Producers) \in Nat /\ wakingNext(Producers) \in Nat
  BY Countable, Groups
<1>5. pc'[p] = "idle" /\ \A q \in Producers \ {p} : pc'[q] = pc[q]
  <2>1. \A q \in Producers : q \in Threads /\ q \notin sleepers
    BY Groups DEF Asleep
  <2> HIDE DEF sleepers
  <2> QED BY <1>1, <1>2, <2>1, NotifyOneMoves
<1>6. PushesAreWoken'
  <2>1. waking(Producers) - 1 <= wakingNext(Producers)
    BY <1>5, Groups, OneLess
  <2>2. SUFFICES ASSUME Asleep(Producers)' # {}
                 PROVE  Bound - Len(queue') <= wakingNext(Producers)
    BY DEF PushesAreWoken
  <2>3. Asleep(Producers) # {}
    BY <1>5, <2>2 DEF Asleep
  <2>4. Bound - Len(queue) <= waking(Producers)
    BY <2>3 DEF WakeupsSuffice, PushesAreWoken
  <2> HIDE DEF waking, wakingNext
  <2> QED BY <1>3, <1>4, <2>1, <2>4
<1>7. PopsAreWoken'
  <2>1. CASE \A s \in Threads \ {p} : pc'[s] = pc[s] /\ sleepers = {}
    <3>1. Asleep(Consumers)' = {}
      BY <2>1, Groups DEF Asleep
    <3> QED BY <3>1 DEF PopsAreWoken
  <2>2. CASE \E s \in sleepers : /\ pc'[s] = "notified"
                                /\ \A r \in Threads \ {p, s} : pc'[r] = pc[r]
    <3>1. PICK s \in sleepers : /\ pc'[s] = "notified"
                                /\ \A r \in Threads \ {p, s} : pc'[r] = pc[r]
      BY <2>2
    <3>2. \A r \in Consumers \ {s} : pc'[r] = pc[r]
      BY <3>1, Groups
    <3>3. wakingNext(Consumers) = waking(Consumers) + 1
      BY <3>1, <3>2, Groups, OneMore
    <3>4. Len(queue) <= waking(Consumers)
      BY <3>1 DEF WakeupsSuffice, PopsAreWoken
    <3>5. Len(queue') <= wakingNext(Consumers)
      <4> HIDE DEF waking, wakingNext
      <4> QED BY <1>3, <1>4, <3>3, <3>4
    <3> QED BY <3>5 DEF PopsAreWoken
  <2> HIDE DEF sleepers
  <2> QED BY <1>1, <1>2, <2>1, <2>2, NotifyOneMoves
<1> QED BY <1>6, <1>7 DEF WakeupsSuffice

LEMMA DequeueWakes ==
  ASSUME TypeOK, WakeupsSuffice, NEW c \in Consumers, pc[c] # "asleep", queue # <<>>,
         Dequeue(c)
  PROVE  WakeupsSuffice'
<1> DEFINE sleepers == IF Bound > 0 THEN Asleep(Producers) ELSE {}
           waking(group) == Cardinality(Notified(group))
           wakingNext(group) == Cardinality(Notified(group)')
<1>1. c \in Threads /\ c \notin sleepers /\ sleepers \in SUBSET Threads
  BY DEF Threads, Asleep
<1>2. NotifyOne(c, sleepers)
  BY DEF Dequeue
<1>3. Len(queue) \in Nat /\ Len(queue) >= 1 /\ Len(queue') = Len(queue) - 1
  BY DEF Dequeue, TypeOK
<1>4. /\ waking(Consumers) \in Nat /\ wakingNext(Consumers) \in Nat
      /\ waking(Producers) \in Nat /\ wakingNext(Producers) \in Nat
  BY Countable, Groups
<1>5. pc'[c] = "idle" /\ \A d \in Consumers \ {c} : pc'[d] = pc[d]
  <2>1. \A d \in Consumers : d \in Threads /\ d \notin sleepers
    BY Groups DEF Asleep
  <2> HIDE DEF sleepers
  <2> QED BY <1>1, <1>2, <2>1, NotifyOneMoves
<1>6. PopsAreWoken'
  <2>1. waking(Consumers) - 1 <= wakingNext(Consumers)
    BY <1>5, Groups, OneLess
  <2>2. SUFFICES ASSUME Asleep(Consumers)' # {}
                 PROVE  Len(queue') <= wakingNext(Consumers)
    BY DEF PopsAreWoken
  <2>3. Asleep(Consumers) # {}
    BY <1>5, <2>2 DEF Asleep
  <2>4. Len(queue) <= waking(Consumers)
    BY <2>3 DEF WakeupsSuffice, PopsAreWoken
  <2> HIDE DEF waking, wakingNext
  <2> QED BY <1>3, <1>4, <2>1, <2>4
<1>7. PushesAreWoken'
  <2>1. CASE Bound = 0
    <3>1. Bound - Len(queue') <= wakingNext(Producers)
      <4> HIDE DEF waking, wakingNext
      <4> QED BY <1>3, <1>4, <2>1
    <3> QED BY <3>1 DEF PushesAreWoken
  <2>2. CASE Bound > 0 /\ sleepers = {} /\ \A s \in Threads \ {c} : pc'[s] = pc[s]
    <3>1. Asleep(Producers)' = {}
      BY <2>2, Groups DEF Asleep
    <3> QED BY <3>1 DEF PushesAreWoken
  <2>3. CASE Bound > 0 /\ \E s \in sleepers : /\ pc'[s] = "notified"
                                             /\ \A r \in Threads \ {c, s} : pc'[r] = pc[r]
    <3>1. PICK s \in Asleep(Producers) : /\ pc'[s] = "notified"
                                         /\ \A r \in Threads \ {c, s} : pc'[r] = pc[r]
      BY <2>3
    <3>2. \A r \in Producers \ {s} : pc'[r] = pc[r]
      BY <3>1, Groups
    <3>3. wakingNext(Producers) = waking(Producers) + 1
      BY <3>1, <3>2, Groups, OneMore
    <3>4. Bound - Len(queue) <= waking(Producers)
      BY <3>1 DEF WakeupsSuffice, PushesAreWoken
    <3>5. Bound - Len(queue') <= wakingNext(Producers)
      <4> HIDE DEF waking, wakingNext
      <4> QED BY <1>3, <1>4, <3>3, <3>4
    <3> QED BY <3>5 DEF PushesAreWoken
  <2>4. Bound = 0 \/ Bound > 0
    OBVIOUS
  <2> HIDE DEF sleepers
  <2> QED BY <1>1, <1>2, <2>1, <2>2, <2>3, <2>4, NotifyOneMoves
<1> QED BY <1>6, <1>7 DEF WakeupsSuffice

(* A thread falls asleep only beside an empty (a full) queue. *)
LEMMA SleepKeepsWakeups ==
  ASSUME TypeOK, WakeupsSuffice, NEW t \in Threads, Sleep(t), UNCHANGED queue,
         \/ t \in Producers /\ IsFull
         \/ t \in Consumers /\ queue = <<>>
  PROVE  WakeupsSuffice'
<1>1. \A s \in Threads \ {t} : pc'[s] = pc[s]
  BY DEF Sleep, TypeOK
<1>2. /\ Cardinality(Notified(Producers)') \in Nat
      /\ Cardinality(Notified(Consumers)') \in Nat
  BY Countable, Groups
<1>3. Len(queue) \in Nat /\ queue' = queue
  BY DEF TypeOK
<1>4. CASE t \in Producers /\ IsFull
  <2>1. Bound - Len(queue) <= 0
    BY <1>3, <1>4 DEF IsFull
  <2>2. Bound - Len(queue') <= Cardinality(Notified(Producers)')
    BY <1>2, <1>3, <2>1
  <2>3. Asleep(Consumers)' = Asleep(Consumers) /\ Notified(Consumers)' = Notified(Consumers)
    BY <1>1, <1>4, Groups DEF Asleep, Notified
  <2> QED BY <1>3, <2>2, <2>3 DEF WakeupsSuffice, PopsAreWoken, PushesAreWoken
<1>5. CASE t \in Consumers /\ queue = <<>>
  <2>1. Len(queue') <= Cardinality(Notified(Consumers)')
    BY <1>2, <1>3, <1>5
  <2>2. Asleep(Producers)' = Asleep(Producers) /\ Notified(Producers)' = Notified(Producers)
    BY <1>1, <1>5, Groups DEF Asleep, Notified
  <2> QED BY <1>3, <2>1, <2>2 DEF WakeupsSuffice, PopsAreWoken, PushesAreWoken
<1> QED BY <1>4, <1>5

LEMMA WakeSpuriouslyKeepsWakeups ==
  ASSUME TypeOK, WakeupsSuffice, NEW t \in Threads, WakeSpuriously(t)
  PROVE  WakeupsSuffice'
<1>1. pc[t] = "asleep" /\ pc'[t] = "notified" /\ \A s \in Threads \ {t} : pc'[s] = pc[s]
  BY DEF WakeSpuriously, TypeOK
<1>2. queue' = queue /\ Len(queue) \in Nat
  BY DEF WakeSpuriously, TypeOK
<1>3. ASSUME NEW group \in {Producers, Consumers}
      PROVE  /\ Asleep(group)' \subseteq Asleep(group)
             /\ Cardinality(Notified(group)) \in Nat /\ Cardinality(Notified(group)') \in Nat
             /\ Cardinality(Notified(group)) <= Cardinality(Notified(group)')
  <2>1. IsFiniteSet(group) /\ group \subseteq Threads
    BY Groups
  <2>2. Asleep(group)' \subseteq Asleep(group) /\ Notified(group) \subseteq Notified(group)'
    BY <1>1, <2>1 DEF Asleep, Notified
  <2> QED BY <2>1, <2>2, Countable, FS_Subset
<1>4. PopsAreWoken'
  <2>1. SUFFICES ASSUME Asleep(Consumers)' # {}
                 PROVE  Len(queue') <= Cardinality(Notified(Consumers)')
    BY DEF PopsAreWoken
  <2>2. Len(queue) <= Cardinality(Notified(Consumers))
    BY <1>3, <2>1 DEF WakeupsSuffice, PopsAreWoken
  <2> QED BY <1>2, <1>3, <2>2
<1>5. PushesAreWoken'
  <2>1. SUFFICES ASSUME Asleep(Producers)' # {}
                 PROVE  Bound - Len(queue') <= Cardinality(Notified(Producers)')
    BY DEF PushesAreWoken
  <2>2. Bound - Len(queue) <= Cardinality(Notified(Producers))
    BY <1>3, <2>1 DEF WakeupsSuffice, PushesAreWoken
  <2> QED BY <1>2, <1>3, <2>2
<1> QED BY <1>4, <1>5 DEF WakeupsSuffice

LEMMA InitWakeups == Init => WakeupsSuffice
<1> SUFFICES ASSUME Init PROVE WakeupsSuffice
  OBVIOUS
<1>1. Asleep(Producers) = {} /\ Asleep(Consumers) = {}
  BY Groups DEF Init, Asleep
<1> QED BY <1>1 DEF WakeupsSuffice, PopsAreWoken, PushesAreWoken

LEMMA NextWakeups == TypeOK /\ WakeupsSuffice /\ [Next]_vars => WakeupsSuffice'
<1> SUFFICES ASSUME TypeOK, WakeupsSuffice, [Next]_vars PROVE WakeupsSuffice'
  OBVIOUS
<1>1. ASSUME NEW p \in Producers, NEW x \in Items, pc[p] # "asleep", PushLocked(p, x)
      PROVE  WakeupsSuffice'
  BY <1>1, EnqueueWakes, SleepKeepsWakeups, Groups DEF PushLocked
<1>2. ASSUME NEW c \in Consumers, pc[c] # "asleep", PopLocked(c)
      PROVE  WakeupsSuffice'
  BY <1>2, DequeueWakes, SleepKeepsWakeups, Groups DEF PopLocked
<1>3. CASE UNCHANGED vars
  BY <1>3 DEF vars, WakeupsSuffice, PopsAreWoken, PushesAreWoken, Asleep, Notified
<1> QED BY <1>1, <1>2, <1>3, Steps, WakeSpuriouslyKeepsWakeups

(* No wakeup of push or pop is ever lost, whatever threads barge in. *)
THEOREM NoLostWakeup == Spec => []WakeupsSuffice
<1>1. Init => TypeOK /\ WakeupsSuffice
  BY InitTypeOK, InitWakeups
<1>2. TypeOK /\ WakeupsSuffice /\ [Next]_vars => (TypeOK /\ WakeupsSuffice)'
  BY NextTypeOK, NextWakeups
<1> QED BY <1>1, <1>2, PTL DEF Spec

-----------------------------------------------------------------------------
(* Each step of the queue is a Put, a Take or a stutter of the FIFO queue. *)
LEMMA StepRefines == TypeOK /\ [Next]_vars => [Fifo!Next]_(Fifo!vars)
<1> SUFFICES ASSUME TypeOK, [Next]_vars PROVE [Fifo!Next]_(Fifo!vars)
  OBVIOUS
<1>1. ASSUME NEW p \in Producers, NEW x \in Items, PushLocked(p, x), UNCHANGED got
      PROVE  Fifo!Next \/ UNCHANGED <<queue, got>>
  <2>1. CASE ~IsFull /\ Enqueue(p, x)
    <3>1. Bound = 0 \/ Len(queue) < Bound
      BY <2>1 DEF IsFull, TypeOK
    <3>2. Fifo!Put(x)
      BY <1>1, <2>1, <3>1 DEF Enqueue, Fifo!Put
    <3> QED BY <3>2 DEF Fifo!Next
  <2> QED BY <1>1, <2>1 DEF PushLocked
<1>2. ASSUME NEW c \in Consumers, PopLocked(c)
      PROVE  Fifo!Next \/ UNCHANGED <<queue, got>>
  <2>1. CASE queue # <<>> /\ Dequeue(c)
    BY <2>1 DEF Dequeue, Fifo!Take, Fifo!Next
  <2> QED BY <1>2, <2>1 DEF PopLocked
<1>3. ASSUME NEW t \in Threads, WakeSpuriously(t) PROVE UNCHANGED <<queue, got>>
  BY <1>3 DEF WakeSpuriously
<1>4. CASE UNCHANGED vars
  BY <1>4 DEF vars, Fifo!vars
<1> QED BY <1>1, <1>2, <1>3, <1>4, Steps DEF Fifo!vars

(* The queue is a FIFO queue of the given bound. *)
THEOREM QueueIsFifo == Spec => FifoSpec
<1>1. Init => Fifo!Init
  BY DEF Init, Fifo!Init
<1> QED BY <1>1, InitTypeOK, NextTypeOK, StepRefines, PTL DEF Spec, FifoSpec, Fifo!Spec
=============================================================================
