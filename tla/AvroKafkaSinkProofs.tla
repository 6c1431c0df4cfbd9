------------------------ MODULE AvroKafkaSinkProofs ------------------------
(***************************************************************************)
(* AvroKafkaSink, for every capacity of the three containers and any       *)
(* number of events.                                                       *)
(***************************************************************************)
EXTENDS AvroKafkaSink, TLAPS

(***************************************************************************)
(* The elements of a sequence, and increasing sequences.                   *)
(***************************************************************************)
\* Sequences made of others have the elements of both.
LEMMA ConcatElements ==
  ASSUME NEW S, NEW s \in Seq(S), NEW t \in Seq(S)
  PROVE  ToSet(s \o t) = ToSet(s) \cup ToSet(t)
  <1>1. ASSUME NEW x \in ToSet(s \o t) PROVE x \in ToSet(s) \cup ToSet(t)
    BY DEF ToSet
  <1>2. ASSUME NEW x \in ToSet(s) PROVE x \in ToSet(s \o t)
    BY DEF ToSet
  <1>3. ASSUME NEW x \in ToSet(t) PROVE x \in ToSet(s \o t)
    <2>1. PICK i \in 1 .. Len(t) : x = t[i]
      BY DEF ToSet
    <2>2. (s \o t)[Len(s) + i] = x /\ Len(s) + i \in DOMAIN (s \o t)
      BY <2>1
    <2> QED BY <2>2 DEF ToSet
  <1> QED BY <1>1, <1>2, <1>3

\* Append() adds its element and no other.
LEMMA AppendElements ==
  ASSUME NEW S, NEW s \in Seq(S), NEW e \in S
  PROVE  ToSet(Append(s, e)) = ToSet(s) \cup {e}
  <1>1. ASSUME NEW x \in ToSet(Append(s, e)) PROVE x \in ToSet(s) \cup {e}
    BY DEF ToSet
  <1>2. ASSUME NEW x \in ToSet(s) PROVE x \in ToSet(Append(s, e))
    BY DEF ToSet
  <1>3. e \in ToSet(Append(s, e))
    <2>1. Append(s, e)[Len(s) + 1] = e /\ Len(s) + 1 \in DOMAIN Append(s, e)
      OBVIOUS
    <2> QED BY <2>1 DEF ToSet
  <1> QED BY <1>1, <1>2, <1>3

\* Head() and Tail() split the elements of a sequence.
LEMMA TailElements ==
  ASSUME NEW S, NEW s \in Seq(S), s # <<>>
  PROVE  ToSet(s) = {Head(s)} \cup ToSet(Tail(s))
  <1>1. Head(s) \in S /\ Tail(s) \in Seq(S) /\ Len(Tail(s)) = Len(s) - 1 /\ Len(s) > 0
    OBVIOUS
  <1>2. ASSUME NEW x \in ToSet(s) PROVE x \in {Head(s)} \cup ToSet(Tail(s))
    <2>1. PICK i \in 1 .. Len(s) : x = s[i]
      BY DEF ToSet
    <2>2. CASE i = 1
      BY <2>1, <2>2
    <2>3. CASE i # 1
      <3>1. Tail(s)[i - 1] = x /\ i - 1 \in DOMAIN Tail(s)
        BY <1>1, <2>1, <2>3
      <3> QED BY <3>1 DEF ToSet
    <2> QED BY <2>2, <2>3
  <1>3. Head(s) \in ToSet(s)
    BY <1>1 DEF ToSet
  <1>4. ASSUME NEW x \in ToSet(Tail(s)) PROVE x \in ToSet(s)
    BY <1>1 DEF ToSet
  <1> QED BY <1>1, <1>2, <1>3, <1>4

\* RemoveAt() makes a sequence one shorter and adds nothing to it.
LEMMA RemoveAtElements ==
  ASSUME NEW S, NEW s \in Seq(S), NEW i \in 1 .. Len(s)
  PROVE  /\ RemoveAt(s, i) \in Seq(S) /\ Len(RemoveAt(s, i)) = Len(s) - 1
         /\ ToSet(RemoveAt(s, i)) \subseteq ToSet(s)
  <1>1. /\ SubSeq(s, 1, i - 1) \in Seq(S) /\ Len(SubSeq(s, 1, i - 1)) = i - 1
        /\ SubSeq(s, i + 1, Len(s)) \in Seq(S) /\ Len(SubSeq(s, i + 1, Len(s))) = Len(s) - i
    OBVIOUS
  <1>2. /\ ToSet(SubSeq(s, 1, i - 1)) \subseteq ToSet(s)
        /\ ToSet(SubSeq(s, i + 1, Len(s))) \subseteq ToSet(s)
    BY <1>1 DEF ToSet
  <1>3. \A t, u \in Seq(S) : /\ t \o u \in Seq(S) /\ Len(t \o u) = Len(t) + Len(u)
                             /\ ToSet(t \o u) = ToSet(t) \cup ToSet(u)
    BY ConcatElements
  <1>4. PICK t \in Seq(S), u \in Seq(S) : t = SubSeq(s, 1, i - 1) /\ u = SubSeq(s, i + 1, Len(s))
    BY <1>1
  <1>5. RemoveAt(s, i) = t \o u
    BY <1>4 DEF RemoveAt
  <1>6. Len(s) \in Nat /\ i \in Int
    OBVIOUS
  <1>7. t \o u \in Seq(S) /\ Len(t \o u) = Len(t) + Len(u) /\ ToSet(t \o u) = ToSet(t) \cup ToSet(u)
    BY <1>3, <1>4
  <1>8. Len(t) = i - 1 /\ Len(u) = Len(s) - i
    BY <1>1, <1>4, Zenon
  <1>9. Len(t) + Len(u) = Len(s) - 1
    BY <1>6, <1>8
  <1> QED BY <1>2, <1>4, <1>5, <1>7, <1>9

\* The elements of the two shortest sequences.
LEMMA EmptyElements == ToSet(<<>>) = {} /\ \A e : ToSet(<<e>>) = {e}
  BY DEF ToSet

\* Every number of S is smaller than every number of T.
Before(S, T) == \A x \in S, y \in T : x < y

\* Two increasing sequences, one before the other, and only they, make an
\* increasing one.
LEMMA IncreasingConcat ==
  ASSUME NEW s \in Seq(Nat), NEW t \in Seq(Nat)
  PROVE  Increasing(s \o t) <=> Increasing(s) /\ Increasing(t) /\ Before(ToSet(s), ToSet(t))
  <1>1. ASSUME Increasing(s \o t)
        PROVE  Increasing(s) /\ Increasing(t) /\ Before(ToSet(s), ToSet(t))
    <2>1. Increasing(s)
      BY <1>1 DEF Increasing
    <2>2. ASSUME NEW i \in 1 .. Len(t), NEW j \in 1 .. Len(t), i < j PROVE t[i] < t[j]
      <3>1. /\ Len(s) + i \in 1 .. Len(s \o t) /\ Len(s) + j \in 1 .. Len(s \o t)
            /\ Len(s) + i < Len(s) + j
        BY <2>2
      <3>2. (s \o t)[Len(s) + i] < (s \o t)[Len(s) + j]
        BY <1>1, <3>1 DEF Increasing
      <3> QED BY <3>2
    <2>3. ASSUME NEW i \in 1 .. Len(s), NEW j \in 1 .. Len(t) PROVE s[i] < t[j]
      <3>1. i \in 1 .. Len(s \o t) /\ Len(s) + j \in 1 .. Len(s \o t) /\ i < Len(s) + j
        OBVIOUS
      <3>2. (s \o t)[i] < (s \o t)[Len(s) + j]
        BY <1>1, <3>1 DEF Increasing
      <3> QED BY <3>2
    <2> QED BY <2>1, <2>2, <2>3 DEF Increasing, Before, ToSet
  <1>2. ASSUME Increasing(s), Increasing(t), Before(ToSet(s), ToSet(t)),
               NEW i \in 1 .. Len(s \o t), NEW j \in 1 .. Len(s \o t), i < j
        PROVE  (s \o t)[i] < (s \o t)[j]
    <2>1. CASE j <= Len(s)
      BY <1>2, <2>1 DEF Increasing
    <2>2. CASE i > Len(s)
      <3>1. /\ i - Len(s) \in 1 .. Len(t) /\ j - Len(s) \in 1 .. Len(t)
            /\ i - Len(s) < j - Len(s)
        BY <1>2, <2>2
      <3>2. t[i - Len(s)] < t[j - Len(s)]
        BY <1>2, <3>1 DEF Increasing
      <3> QED BY <1>2, <2>2, <3>2
    <2>3. CASE i <= Len(s) /\ j > Len(s)
      <3>1. s[i] \in ToSet(s) /\ t[j - Len(s)] \in ToSet(t)
        BY <1>2, <2>3 DEF ToSet
      <3>2. s[i] < t[j - Len(s)]
        BY <1>2, <3>1 DEF Before
      <3> QED BY <1>2, <2>3, <3>2
    <2> QED BY <2>1, <2>2, <2>3
  <1> QED BY <1>1, <1>2 DEF Increasing

\* A greater number may follow an increasing sequence.
LEMMA IncreasingAppend ==
  ASSUME NEW s \in Seq(Nat), NEW e \in Nat, Increasing(s), Before(ToSet(s), {e})
  PROVE  Increasing(Append(s, e))
  BY DEF Increasing, Before, ToSet

\* The head of an increasing sequence is before the others.
LEMMA IncreasingTail ==
  ASSUME NEW s \in Seq(Nat), s # <<>>, Increasing(s)
  PROVE  Increasing(Tail(s)) /\ Before({Head(s)}, ToSet(Tail(s)))
  <1>1. Tail(s) \in Seq(Nat) /\ Len(Tail(s)) = Len(s) - 1 /\ Len(s) \in Nat \ {0}
    OBVIOUS
  <1>2. \A i \in 1 .. Len(Tail(s)) : Tail(s)[i] = s[i + 1]
    OBVIOUS
  <1>3. Increasing(Tail(s))
    BY <1>1, <1>2 DEF Increasing
  <1>4. ASSUME NEW x \in ToSet(Tail(s)) PROVE s[1] < x
    <2>1. PICK i \in 1 .. Len(Tail(s)) : x = Tail(s)[i]
      BY <1>1 DEF ToSet
    <2>2. s[1] < s[i + 1]
      BY <1>1 DEF Increasing
    <2> QED BY <2>1, <2>2, <1>2
  <1> QED BY <1>3, <1>4 DEF Before

\* The shortest sequences are increasing.
LEMMA IncreasingShort == Increasing(<<>>) /\ \A e \in Nat : Increasing(<<e>>)
  BY DEF Increasing

-----------------------------------------------------------------------------
(***************************************************************************)
(* The invariant.                                                          *)
(***************************************************************************)
\* main() asks the sink thread to stop after it has captured and flushed, and
\* the thread leaves its loop only then and with the queue empty.
StopInv == /\ stop <=> mpc \in {"join", "done"}
           /\ spc \in {"empty", "flush", "exited"} => stop
           /\ spc \in {"flush", "exited"} => queue = <<>>

\* Conservation, place by place.
Hand  == IF evt = NoEvt THEN {} ELSE {evt}
Hands == IF evt = NoEvt THEN 0 ELSE 1

PlaceInv ==
  /\ Len(queue) + Hands + Len(retryBuf) + Len(handed) + Len(invalid) + Len(dropped) = pushed
  /\ ToSet(queue) \cup Hand \cup ToSet(retryBuf) \cup ToSet(handed) \cup ToSet(invalid)
       \cup ToSet(dropped) = 1 .. pushed

\* What librdkafka has was handed over to it, and it reports on every message
\* once.
LibInv == /\ ToSet(inflight) \subseteq ToSet(handed) /\ ToSet(topic) \subseteq ToSet(handed)
          /\ produced = Len(handed) /\ produced = outq_len + delivered + undelivered

Capturing == mpc = "run" /\ ~ localError

\* Between the retry that failed and the next produce() nobody makes room.
RoomInv == (Capturing /\ retryBuf # <<>> /\ spc \in {"pop", "produce"}) => outq_len >= OutqCapacity

\* OrderedWhileCapturing, place by place.
OrderInv ==
  Capturing =>
    /\ Increasing(handed) /\ Increasing(retryBuf) /\ Increasing(queue)
    /\ Before(ToSet(handed), ToSet(retryBuf) \cup Hand \cup ToSet(queue))
    /\ Before(ToSet(retryBuf), Hand \cup ToSet(queue))
    /\ Before(Hand, ToSet(queue))

IInv == TypeOK /\ StopInv /\ PlaceInv /\ LibInv /\ RoomInv /\ OrderInv

\* The places an event can be in are sequences of events.
LEMMA Sequences ==
  ASSUME TypeOK
  PROVE  /\ queue \in Seq(Evts) /\ retryBuf \in Seq(Evts) /\ inflight \in Seq(Evts)
         /\ topic \in Seq(Evts) /\ handed \in Seq(Evts)
         /\ invalid \in Seq(Evts) /\ dropped \in Seq(Evts)
  BY DEF TypeOK

\* Three sequences in a row.
LEMMA Concat3 ==
  ASSUME NEW S, NEW s \in Seq(S), NEW t \in Seq(S), NEW u \in Seq(S)
  PROVE  ToSet(s \o t \o u) = ToSet(s) \cup ToSet(t) \cup ToSet(u)
  <1>1. \A st \in Seq(S) : ToSet(st \o u) = ToSet(st) \cup ToSet(u)
    BY ConcatElements
  <1>2. s \o t \in Seq(S) /\ ToSet(s \o t) = ToSet(s) \cup ToSet(t)
    BY ConcatElements
  <1>3. ToSet((s \o t) \o u) = ToSet(s \o t) \cup ToSet(u)
    BY <1>1, <1>2
  <1> QED BY <1>2, <1>3

\* Sequences of events are sequences of numbers.
LEMMA OfNumbers == ASSUME NEW s \in Seq(Evts) PROVE s \in Seq(Nat)
  BY SinkAssumption DEF Evts

\* The invariant implies what TLC checks.
LEMMA Conserved == IInv => Conservation
  <1> SUFFICES ASSUME IInv PROVE Conservation
    OBVIOUS
  <1>1. TypeOK
    BY DEF IInv
  <1>2. InHand \in Seq(Evts) /\ Len(InHand) = Hands /\ ToSet(InHand) = Hand
    <2>1. CASE evt = NoEvt
      BY <2>1, EmptyElements DEF InHand, Hand, Hands
    <2>2. CASE evt # NoEvt
      <3>1. evt \in Evts
        BY <1>1, <2>2 DEF TypeOK
      <3>2. <<evt>> \in Seq(Evts) /\ Len(<<evt>>) = 1
        BY <3>1
      <3> QED BY <2>2, <3>2, EmptyElements DEF InHand, Hand, Hands
    <2> QED BY <2>1, <2>2
  <1>3. /\ queue \in Seq(Evts) /\ retryBuf \in Seq(Evts) /\ handed \in Seq(Evts)
        /\ invalid \in Seq(Evts) /\ dropped \in Seq(Evts)
    BY <1>1, Sequences
  <1>4. /\ \A s, t \in Seq(Evts) : ToSet(s \o t) = ToSet(s) \cup ToSet(t)
        /\ \A s, t, u \in Seq(Evts) : ToSet(s \o t \o u) = ToSet(s) \cup ToSet(t) \cup ToSet(u)
    BY ConcatElements, Concat3
  <1>5. Waiting \in Seq(Evts) /\ GivenUp \in Seq(Evts)
    <2>1. \A s, t \in Seq(Evts) : s \o t \in Seq(Evts)
      OBVIOUS
    <2> QED BY <1>2, <1>3, <2>1, Zenon DEF Waiting, GivenUp
  <1>6. /\ ToSet(Waiting) = ToSet(queue) \cup ToSet(InHand) \cup ToSet(retryBuf)
        /\ ToSet(GivenUp) = ToSet(invalid) \cup ToSet(dropped)
    BY <1>2, <1>3, <1>4 DEF Waiting, GivenUp
  <1>7. Len(Waiting \o handed \o GivenUp) = pushed
    <2>1. /\ \A s, t \in Seq(Evts) : Len(s \o t) = Len(s) + Len(t)
          /\ \A s, t, u \in Seq(Evts) : Len(s \o t \o u) = Len(s) + Len(t) + Len(u)
      OBVIOUS
    <2>2. Len(Waiting) = Len(queue) + Len(InHand) + Len(retryBuf)
      <3>1. queue \in Seq(Evts) /\ InHand \in Seq(Evts) /\ retryBuf \in Seq(Evts)
        BY <1>2, <1>3
      <3> QED BY <2>1, <3>1, SMT DEF Waiting
    <2>3. Len(GivenUp) = Len(invalid) + Len(dropped)
      BY <1>3, <2>1, Zenon DEF GivenUp
    <2>4. Len(Waiting \o handed \o GivenUp) = Len(Waiting) + Len(handed) + Len(GivenUp)
      BY <1>3, <1>5, <2>1, Zenon
    <2>5. /\ Len(queue) \in Nat /\ Len(retryBuf) \in Nat /\ Len(handed) \in Nat
          /\ Len(invalid) \in Nat /\ Len(dropped) \in Nat
      BY <1>3
    <2>6. Hands \in Nat /\ Len(InHand) = Hands
      BY <1>2 DEF Hands
    <2>7. Len(queue) + Hands + Len(retryBuf) + Len(handed) + Len(invalid) + Len(dropped) = pushed
      BY DEF IInv, PlaceInv
    <2>8. (Len(queue) + Hands + Len(retryBuf)) + Len(handed) + (Len(invalid) + Len(dropped)) = pushed
      BY <2>5, <2>6, <2>7
    <2> QED BY <2>2, <2>3, <2>4, <2>6, <2>8, Zenon
  <1>8. ToSet(Waiting \o handed \o GivenUp) = 1 .. pushed
    <2>1. ToSet(Waiting \o handed \o GivenUp) = ToSet(Waiting) \cup ToSet(handed) \cup ToSet(GivenUp)
      BY <1>3, <1>4, <1>5
    <2> QED BY <1>2, <1>6, <2>1 DEF IInv, PlaceInv
  <1> QED BY <1>7, <1>8 DEF Conservation, IInv, LibInv

\* The order of the places implies the order of the pipeline.
LEMMA Ordered == IInv => OrderedWhileCapturing
  <1> SUFFICES ASSUME IInv, Capturing
               PROVE  Increasing(handed \o retryBuf \o InHand \o queue)
    BY DEF OrderedWhileCapturing, Capturing
  <1>1. TypeOK
    BY DEF IInv
  <1>2. InHand \in Seq(Nat) /\ ToSet(InHand) = Hand /\ Increasing(InHand)
    <2>1. CASE evt = NoEvt
      BY <2>1, EmptyElements, IncreasingShort DEF InHand, Hand
    <2>2. CASE evt # NoEvt
      <3>1. evt \in Nat
        BY <1>1, <2>2, SinkAssumption DEF TypeOK, Evts
      <3>2. <<evt>> \in Seq(Nat)
        BY <3>1
      <3> QED BY <2>2, <3>1, <3>2, EmptyElements, IncreasingShort DEF InHand, Hand
    <2> QED BY <2>1, <2>2
  <1>3. handed \in Seq(Nat) /\ retryBuf \in Seq(Nat) /\ queue \in Seq(Nat)
    BY <1>1, Sequences, OfNumbers
  <1>4. \A s, t \in Seq(Nat) :
          /\ ToSet(s \o t) = ToSet(s) \cup ToSet(t)
          /\ Increasing(s) /\ Increasing(t) /\ Before(ToSet(s), ToSet(t)) => Increasing(s \o t)
    BY ConcatElements, IncreasingConcat
  <1>5. /\ Increasing(handed) /\ Increasing(retryBuf) /\ Increasing(queue)
        /\ Before(ToSet(handed), ToSet(retryBuf))
        /\ Before(ToSet(handed) \cup ToSet(retryBuf), Hand)
        /\ Before(ToSet(handed) \cup ToSet(retryBuf) \cup Hand, ToSet(queue))
    BY DEF IInv, OrderInv, Before
  <1>0. \A s, t \in Seq(Nat) : \E l \in Seq(Nat) : l = s \o t
    <2>1. \A s, t \in Seq(Nat) : s \o t \in Seq(Nat)
      OBVIOUS
    <2> QED BY <2>1, Zenon
  <1>6. PICK l3 \in Seq(Nat) : l3 = handed \o retryBuf
    BY <1>0, <1>3
  <1>7. Increasing(l3) /\ ToSet(l3) = ToSet(handed) \cup ToSet(retryBuf)
    BY <1>3, <1>4, <1>5, <1>6
  <1>8. PICK l4 \in Seq(Nat) : l4 = l3 \o InHand
    BY <1>0, <1>2
  <1>9. Increasing(l4) /\ ToSet(l4) = ToSet(l3) \cup Hand
    <2>1. Before(ToSet(l3), ToSet(InHand))
      BY <1>2, <1>5, <1>7
    <2> QED BY <1>2, <1>4, <1>7, <1>8, <2>1
  <1>10. Increasing(l4 \o queue)
    <2>1. Before(ToSet(l4), ToSet(queue))
      BY <1>5, <1>7, <1>9
    <2> QED BY <1>3, <1>4, <1>5, <1>9, <2>1
  <1> QED BY <1>6, <1>8, <1>10

\* The invariant holds when main() has started the sink thread.
LEMMA InitIInv == Init => IInv
  <1> SUFFICES ASSUME Init PROVE IInv
    OBVIOUS
  <1>1. /\ topic = <<>> /\ handed = <<>> /\ invalid = <<>> /\ dropped = <<>>
        /\ delivered = 0 /\ undelivered = 0
    BY DEF Init
  <1>2. stop \in BOOLEAN /\ localError \in BOOLEAN
    BY DEF Init
  <1>3. TypeOK
    BY <1>2, SinkAssumption DEF Init, TypeOK, Evts, outq_len, NoEvt
  <1>4. StopInv /\ RoomInv
    BY DEF Init, StopInv, RoomInv
  <1>5. Hand = {} /\ Hands = 0 /\ 1 .. pushed = {}
    BY DEF Init, Hand, Hands
  <1>6. /\ Len(queue) = 0 /\ Len(retryBuf) = 0 /\ Len(inflight) = 0 /\ Len(handed) = 0
        /\ Len(invalid) = 0 /\ Len(dropped) = 0
    <2>1. Len(<<>>) = 0
      OBVIOUS
    <2> QED BY <1>1, <2>1 DEF Init
  <1>7. /\ ToSet(queue) = {} /\ ToSet(retryBuf) = {} /\ ToSet(inflight) = {} /\ ToSet(handed) = {}
        /\ ToSet(topic) = {} /\ ToSet(invalid) = {} /\ ToSet(dropped) = {}
    <2>1. ToSet(<<>>) = {}
      BY EmptyElements
    <2> QED BY <1>1, <2>1, Zenon DEF Init
  <1>8. PlaceInv
    <2>1. pushed = 0
      BY DEF Init
    <2> QED BY <1>5, <1>6, <1>7, <2>1 DEF PlaceInv
  <1>9. LibInv
    <2>1. produced = 0 /\ acks = 0 /\ failed = 0
      BY DEF Init
    <2> QED BY <1>1, <1>6, <1>7, <2>1 DEF LibInv, outq_len
  <1>10. OrderInv
    BY <1>5, EmptyElements, IncreasingShort DEF Init, OrderInv, Before
  <1> QED BY <1>3, <1>4, <1>8, <1>9, <1>10 DEF IInv

\* As long as an event is in hand or in the retry buffer, librdkafka has not
\* accepted them all.
LEMMA RoomToCount ==
  ASSUME TypeOK, PlaceInv, LibInv, Hands + Len(retryBuf) > 0
  PROVE  produced + 1 \in 0 .. MaxEvents
  <1>0. pushed \in 0 .. MaxEvents
    BY DEF TypeOK
  <1>1. /\ Len(queue) \in Nat /\ Len(retryBuf) \in Nat /\ Len(handed) \in Nat
        /\ Len(invalid) \in Nat /\ Len(dropped) \in Nat
    BY Sequences
  <1>2. Hands \in Nat
    BY DEF Hands
  <1>3. /\ Len(queue) + Hands + Len(retryBuf) + Len(handed) + Len(invalid) + Len(dropped) = pushed
        /\ produced = Len(handed)
    BY DEF PlaceInv, LibInv
  <1> QED BY <1>0, <1>1, <1>2, <1>3, SinkAssumption

\* Where the events are on this side of librdkafka, and on its side.
PlaceVars == <<queue, pushed, evt, retryBuf, handed, invalid, dropped>>
LibVars   == <<inflight, acks, failed, delivered, undelivered, topic, produced, handed>>

\* Steps that move no event.
LEMMA PlaceUnchanged == PlaceInv /\ UNCHANGED PlaceVars => PlaceInv'
  BY DEF PlaceInv, PlaceVars, Hand, Hands

\* Steps that librdkafka and the broker have no part in.
LEMMA LibUnchanged == LibInv /\ UNCHANGED LibVars => LibInv'
  BY DEF LibInv, LibVars, outq_len

\* Steps that at most take the event out of the sink thread's hand.
LEMMA OrderUnchanged ==
  ASSUME OrderInv, Capturing' => Capturing, UNCHANGED <<handed, retryBuf, queue>>,
         Hand' \subseteq Hand
  PROVE  OrderInv'
  BY DEF OrderInv, Before

\* Every step of the threads and of the broker preserves the invariant.
LEMMA NextIInv == IInv /\ [Next]_vars => IInv'
  <1> SUFFICES ASSUME IInv, [Next]_vars PROVE IInv'
    OBVIOUS
  <1> USE SinkAssumption DEF NoEvt
  <1>1. Len(queue) + Hands + Len(retryBuf) + Len(handed) + Len(invalid) + Len(dropped) = pushed
    BY DEF IInv, PlaceInv
  <1>2. TypeOK /\ StopInv /\ PlaceInv /\ LibInv /\ RoomInv /\ OrderInv
    BY DEF IInv
  <1>3. /\ queue \in Seq(Evts) /\ retryBuf \in Seq(Evts) /\ inflight \in Seq(Evts)
        /\ topic \in Seq(Evts) /\ handed \in Seq(Evts)
        /\ invalid \in Seq(Evts) /\ dropped \in Seq(Evts)
    BY <1>2 DEF TypeOK
  <1>4. /\ Len(queue) \in Nat /\ Len(retryBuf) \in Nat /\ Len(inflight) \in Nat
        /\ Len(handed) \in Nat /\ Len(invalid) \in Nat /\ Len(dropped) \in Nat
        /\ acks \in Nat /\ failed \in Nat /\ delivered \in Nat /\ undelivered \in Nat
        /\ produced \in Nat
    BY <1>2, <1>3 DEF TypeOK
  <1>5. \A s \in Seq(Evts), e \in Evts : /\ Append(s, e) \in Seq(Evts)
                                         /\ Len(Append(s, e)) = Len(s) + 1
    OBVIOUS
  <1>6. \A s \in Seq(Evts), e \in Evts : ToSet(Append(s, e)) = ToSet(s) \cup {e}
    BY AppendElements
  <1>7. \A s \in Seq(Evts) : s # <<>> => /\ Head(s) \in Evts /\ Tail(s) \in Seq(Evts)
                                         /\ Len(Tail(s)) = Len(s) - 1
    OBVIOUS
  <1>8. \A s \in Seq(Evts) : s # <<>> => ToSet(s) = {Head(s)} \cup ToSet(Tail(s))
    BY TailElements
  <1>9. \A s \in Seq(Evts), e \in Evts :
          Increasing(s) /\ Before(ToSet(s), {e}) => Increasing(Append(s, e))
    BY OfNumbers, IncreasingAppend DEF Evts
  <1>10. \A s \in Seq(Evts) : s # <<>> /\ Increasing(s) =>
          Increasing(Tail(s)) /\ Before({Head(s)}, ToSet(Tail(s)))
    BY OfNumbers, IncreasingTail
  <1>11. \A e \in Evts : e # NoEvt /\ e \in Nat
    BY DEF Evts
  <1>12. \A s \in Seq(Evts), i \in Nat : i \in 1 .. Len(s) =>
           /\ RemoveAt(s, i) \in Seq(Evts) /\ Len(RemoveAt(s, i)) = Len(s) - 1
           /\ ToSet(RemoveAt(s, i)) \subseteq ToSet(s)
    BY RemoveAtElements
  <1>13. ToSet(<<>>) = {}
    BY EmptyElements
  <1>14. \A p \in 0 .. MaxEvents :
           p < MaxEvents => p \in Nat /\ p + 1 \in Evts /\ p + 1 \in 0 .. MaxEvents
    BY DEF Evts
  <1>15. Len(<<>>) = 0 /\ <<>> \in Seq(Evts)
    OBVIOUS
  <1>16. CASE TestStop
    <2>1. UNCHANGED <<PlaceVars, LibVars, localError>> /\ (mpc' = "run" => mpc = "run")
      BY <1>16 DEF TestStop, PlaceVars, LibVars, sinkVars, outqVars, producerVars, goneVars
    <2>2. PlaceInv' /\ LibInv' /\ OrderInv'
      BY <1>2, <2>1, PlaceUnchanged, LibUnchanged, OrderUnchanged DEF PlaceVars, Capturing, Hand
    <2>3. TypeOK' /\ StopInv' /\ RoomInv'
      BY <1>2, <1>16, <2>1
      DEF TestStop, TypeOK, StopInv, RoomInv, Capturing, PlaceVars, LibVars, outq_len, sinkVars
    <2> QED BY <2>2, <2>3 DEF IInv
  <1>17. CASE TestEmpty
    <2>1. UNCHANGED <<PlaceVars, LibVars, localError>> /\ (mpc' = "run" => mpc = "run")
      BY <1>17 DEF TestEmpty, PlaceVars, LibVars, sinkVars, outqVars, producerVars, goneVars
    <2>2. PlaceInv' /\ LibInv' /\ OrderInv'
      BY <1>2, <2>1, PlaceUnchanged, LibUnchanged, OrderUnchanged DEF PlaceVars, Capturing, Hand
    <2>3. TypeOK' /\ StopInv' /\ RoomInv'
      BY <1>2, <1>17, <2>1
      DEF TestEmpty, TypeOK, StopInv, RoomInv, Capturing, PlaceVars, LibVars, outq_len, sinkVars
    <2> QED BY <2>2, <2>3 DEF IInv
  <1>18. CASE RetryEmpty
    <2>1. UNCHANGED <<PlaceVars, LibVars, localError>> /\ (mpc' = "run" => mpc = "run")
      BY <1>18 DEF RetryEmpty, PlaceVars, LibVars, sinkVars, outqVars, producerVars, goneVars
    <2>2. PlaceInv' /\ LibInv' /\ OrderInv'
      BY <1>2, <2>1, PlaceUnchanged, LibUnchanged, OrderUnchanged DEF PlaceVars, Capturing, Hand
    <2>3. TypeOK' /\ StopInv' /\ RoomInv'
      BY <1>2, <1>18, <2>1
      DEF RetryEmpty, TypeOK, StopInv, RoomInv, Capturing, PlaceVars, LibVars, outq_len, sinkVars
    <2> QED BY <2>2, <2>3 DEF IInv
  <1>19. CASE PopNothing
    <2>1. UNCHANGED <<PlaceVars, LibVars, localError>> /\ (mpc' = "run" => mpc = "run")
      BY <1>19 DEF PopNothing, PlaceVars, LibVars, sinkVars, outqVars, producerVars, goneVars
    <2>2. PlaceInv' /\ LibInv' /\ OrderInv'
      BY <1>2, <2>1, PlaceUnchanged, LibUnchanged, OrderUnchanged DEF PlaceVars, Capturing, Hand
    <2>3. TypeOK' /\ StopInv' /\ RoomInv'
      BY <1>2, <1>19, <2>1
      DEF PopNothing, TypeOK, StopInv, RoomInv, Capturing, PlaceVars, LibVars, outq_len, sinkVars
    <2> QED BY <2>2, <2>3 DEF IInv
  <1>20. CASE FailRun
    <2>1. UNCHANGED <<PlaceVars, LibVars, localError>> /\ (mpc' = "run" => mpc = "run")
      BY <1>20 DEF FailRun, PlaceVars, LibVars, sinkVars, outqVars, producerVars, goneVars
    <2>2. PlaceInv' /\ LibInv' /\ OrderInv'
      BY <1>2, <2>1, PlaceUnchanged, LibUnchanged, OrderUnchanged DEF PlaceVars, Capturing, Hand
    <2>3. TypeOK' /\ StopInv' /\ RoomInv'
      BY <1>2, <1>20, <2>1
      DEF FailRun, TypeOK, StopInv, RoomInv, Capturing, PlaceVars, LibVars, outq_len, sinkVars
    <2> QED BY <2>2, <2>3 DEF IInv
  <1>21. CASE StartFlush
    <2>1. UNCHANGED <<PlaceVars, LibVars, localError>> /\ (mpc' = "run" => mpc = "run")
      BY <1>21 DEF StartFlush, PlaceVars, LibVars, sinkVars, outqVars, producerVars, goneVars
    <2>2. PlaceInv' /\ LibInv' /\ OrderInv'
      BY <1>2, <2>1, PlaceUnchanged, LibUnchanged, OrderUnchanged DEF PlaceVars, Capturing, Hand
    <2>3. TypeOK' /\ StopInv' /\ RoomInv'
      BY <1>2, <1>21, <2>1
      DEF StartFlush, TypeOK, StopInv, RoomInv, Capturing, PlaceVars, LibVars, outq_len, sinkVars
    <2> QED BY <2>2, <2>3 DEF IInv
  <1>22. CASE RequestStop
    <2>1. UNCHANGED <<PlaceVars, LibVars, localError>> /\ (mpc' = "run" => mpc = "run")
      BY <1>22 DEF RequestStop, PlaceVars, LibVars, sinkVars, outqVars, producerVars, goneVars
    <2>2. PlaceInv' /\ LibInv' /\ OrderInv'
      BY <1>2, <2>1, PlaceUnchanged, LibUnchanged, OrderUnchanged DEF PlaceVars, Capturing, Hand
    <2>3. TypeOK' /\ StopInv' /\ RoomInv'
      BY <1>2, <1>22, <2>1
      DEF RequestStop, TypeOK, StopInv, RoomInv, Capturing, PlaceVars, LibVars, outq_len, sinkVars
    <2> QED BY <2>2, <2>3 DEF IInv
  <1>23. CASE Join
    <2>1. UNCHANGED <<PlaceVars, LibVars, localError>> /\ (mpc' = "run" => mpc = "run")
      BY <1>23 DEF Join, PlaceVars, LibVars, sinkVars, outqVars, producerVars, goneVars
    <2>2. PlaceInv' /\ LibInv' /\ OrderInv'
      BY <1>2, <2>1, PlaceUnchanged, LibUnchanged, OrderUnchanged DEF PlaceVars, Capturing, Hand
    <2>3. TypeOK' /\ StopInv' /\ RoomInv'
      BY <1>2, <1>23, <2>1
      DEF Join, TypeOK, StopInv, RoomInv, Capturing, PlaceVars, LibVars, outq_len, sinkVars
    <2> QED BY <2>2, <2>3 DEF IInv
  <1>24. CASE Finished
    <2>1. UNCHANGED <<PlaceVars, LibVars, localError>> /\ (mpc' = "run" => mpc = "run")
      BY <1>24 DEF Finished, PlaceVars, LibVars, sinkVars, outqVars, producerVars, goneVars, vars
    <2>2. PlaceInv' /\ LibInv' /\ OrderInv'
      BY <1>2, <2>1, PlaceUnchanged, LibUnchanged, OrderUnchanged DEF PlaceVars, Capturing, Hand
    <2>3. TypeOK' /\ StopInv' /\ RoomInv'
      BY <1>2, <1>24, <2>1
      DEF Finished, TypeOK, StopInv, RoomInv, Capturing, PlaceVars, LibVars, outq_len, sinkVars, vars
    <2> QED BY <2>2, <2>3 DEF IInv
  <1>25. ASSUME NEW why \in {"empty", "timeout"}, EndFlush(why) PROVE IInv'
    <2>1. UNCHANGED <<PlaceVars, LibVars, localError>> /\ (mpc' = "run" => mpc = "run")
      BY <1>25 DEF EndFlush, PlaceVars, LibVars, sinkVars, outqVars, producerVars, goneVars
    <2>2. PlaceInv' /\ LibInv' /\ OrderInv'
      BY <1>2, <2>1, PlaceUnchanged, LibUnchanged, OrderUnchanged DEF PlaceVars, Capturing, Hand
    <2>3. TypeOK' /\ StopInv' /\ RoomInv'
      BY <1>2, <1>25, <2>1
      DEF EndFlush, TypeOK, StopInv, RoomInv, Capturing, PlaceVars, LibVars, outq_len, sinkVars
    <2> QED BY <2>2, <2>3 DEF IInv
  <1>26. CASE UNCHANGED vars
    <2>1. UNCHANGED <<PlaceVars, LibVars, localError>> /\ mpc' = mpc /\ spc' = spc /\ stop' = stop
      BY <1>26 DEF vars, PlaceVars, LibVars, sinkVars, outqVars, producerVars, goneVars
    <2>2. PlaceInv' /\ LibInv' /\ OrderInv'
      BY <1>2, <2>1, PlaceUnchanged, LibUnchanged, OrderUnchanged DEF PlaceVars, Capturing, Hand
    <2>3. TypeOK' /\ StopInv' /\ RoomInv'
      BY <1>2, <2>1 DEF TypeOK, StopInv, RoomInv, Capturing, PlaceVars, LibVars, outq_len
    <2> QED BY <2>2, <2>3 DEF IInv
  <1>27. ASSUME NEW i \in 1 .. Len(inflight), Write(i) PROVE IInv'
    <2>1. UNCHANGED <<PlaceVars, spc, stop, mpc, localError, produced, delivered, undelivered>>
      BY <1>27 DEF Write, PlaceVars, sinkVars, outqVars, producerVars, goneVars
    <2>2. /\ topic' \in Seq(Evts) /\ inflight' = inflight /\ acks' = acks /\ failed' = failed
      BY <1>3, <1>5, <1>27 DEF Write, outqVars
    <2>3. ToSet(topic') = ToSet(topic) \cup {inflight[i]}
      BY <1>3, <1>6, <1>27 DEF Write
    <2>4. PlaceInv'
      BY <1>2, <2>1, PlaceUnchanged
    <2>5. TypeOK'
      BY <1>2, <1>3, <1>4, <2>1, <2>2 DEF TypeOK, PlaceVars, outq_len
    <2>6. StopInv' /\ OrderInv'
      BY <1>2, <2>1, OrderUnchanged DEF StopInv, Capturing, PlaceVars, Hand
    <2>7. RoomInv'
      BY <1>2, <1>4, <2>1, <2>2 DEF RoomInv, Capturing, PlaceVars, outq_len
    <2>8. LibInv'
      <3>1. inflight[i] \in ToSet(inflight)
        BY <1>3, <1>27 DEF ToSet
      <3> QED BY <1>2, <2>1, <2>2, <2>3, <3>1 DEF LibInv, PlaceVars, outq_len
    <2> QED BY <2>4, <2>5, <2>6, <2>7, <2>8 DEF IInv
  <1>28. ASSUME NEW i \in 1 .. Len(inflight), Acknowledge(i) PROVE IInv'
    <2>1. UNCHANGED <<PlaceVars, spc, stop, mpc, localError, produced, delivered, undelivered>>
      BY <1>28 DEF Acknowledge, PlaceVars, sinkVars, outqVars, producerVars, goneVars
    <2>2. /\ inflight' \in Seq(Evts) /\ Len(inflight') = Len(inflight) - 1
          /\ acks' = acks + 1 /\ failed' = failed /\ topic' = topic
      BY <1>3, <1>12, <1>28 DEF Acknowledge
    <2>3. ToSet(inflight') \subseteq ToSet(inflight)
      BY <1>3, <1>12, <1>28 DEF Acknowledge
    <2>4. PlaceInv'
      BY <1>2, <2>1, PlaceUnchanged
    <2>5. TypeOK'
      BY <1>2, <1>3, <1>4, <2>1, <2>2 DEF TypeOK, PlaceVars, outq_len
    <2>6. StopInv' /\ OrderInv'
      BY <1>2, <2>1, OrderUnchanged DEF StopInv, Capturing, PlaceVars, Hand
    <2>7. RoomInv'
      BY <1>2, <1>4, <2>1, <2>2 DEF RoomInv, Capturing, PlaceVars, outq_len
    <2>8. LibInv'
      <3>1. outq_len' = outq_len
        BY <1>4, <2>2 DEF outq_len
      <3> QED BY <1>2, <2>1, <2>2, <2>3, <3>1 DEF LibInv, PlaceVars
    <2> QED BY <2>4, <2>5, <2>6, <2>7, <2>8 DEF IInv
  <1>29. ASSUME NEW i \in 1 .. Len(inflight), FailDelivery(i) PROVE IInv'
    <2>1. UNCHANGED <<PlaceVars, spc, stop, mpc, localError, produced, delivered, undelivered>>
      BY <1>29 DEF FailDelivery, PlaceVars, sinkVars, outqVars, producerVars, goneVars
    <2>2. /\ inflight' \in Seq(Evts) /\ Len(inflight') = Len(inflight) - 1
          /\ failed' = failed + 1 /\ acks' = acks /\ topic' = topic
      BY <1>3, <1>12, <1>29 DEF FailDelivery
    <2>3. ToSet(inflight') \subseteq ToSet(inflight)
      BY <1>3, <1>12, <1>29 DEF FailDelivery
    <2>4. PlaceInv'
      BY <1>2, <2>1, PlaceUnchanged
    <2>5. TypeOK'
      BY <1>2, <1>3, <1>4, <2>1, <2>2 DEF TypeOK, PlaceVars, outq_len
    <2>6. StopInv' /\ OrderInv'
      BY <1>2, <2>1, OrderUnchanged DEF StopInv, Capturing, PlaceVars, Hand
    <2>7. RoomInv'
      BY <1>2, <1>4, <2>1, <2>2 DEF RoomInv, Capturing, PlaceVars, outq_len
    <2>8. LibInv'
      <3>1. outq_len' = outq_len
        BY <1>4, <2>2 DEF outq_len
      <3> QED BY <1>2, <2>1, <2>2, <2>3, <3>1 DEF LibInv, PlaceVars
    <2> QED BY <2>4, <2>5, <2>6, <2>7, <2>8 DEF IInv
  <1>30. CASE Poll
    <2>1. UNCHANGED <<PlaceVars, inflight, topic, stop, mpc, localError, produced>>
      BY <1>30 DEF Poll, ServeReports, PlaceVars, sinkVars, outqVars, producerVars, goneVars
    <2>2. /\ delivered' = delivered + acks /\ undelivered' = undelivered + failed
          /\ acks' = 0 /\ failed' = 0
      BY <1>30 DEF Poll, ServeReports
    <2>3. PlaceInv' /\ OrderInv'
      BY <1>2, <2>1, PlaceUnchanged, OrderUnchanged DEF PlaceVars, Capturing, Hand
    <2>4. TypeOK'
      BY <1>2, <1>3, <1>4, <1>30, <2>1, <2>2 DEF Poll, TypeOK, PlaceVars, outq_len, sinkVars
    <2>5. StopInv' /\ RoomInv'
      BY <1>2, <1>30, <2>1 DEF Poll, StopInv, RoomInv, Capturing, PlaceVars, sinkVars
    <2>6. LibInv'
      <3>1. produced = Len(inflight) + acks + failed + delivered + undelivered
        BY <1>2 DEF LibInv, outq_len
      <3>2. (produced = outq_len + delivered + undelivered)'
        BY <1>4, <2>1, <2>2, <3>1 DEF outq_len
      <3> QED BY <1>2, <2>1, <3>2 DEF LibInv, PlaceVars
    <2> QED BY <2>3, <2>4, <2>5, <2>6 DEF IInv
  <1>31. CASE SinkFlush
    <2>1. UNCHANGED <<PlaceVars, inflight, topic, stop, mpc, localError, produced>>
      BY <1>31 DEF SinkFlush, ServeReports, PlaceVars, sinkVars, outqVars, producerVars, goneVars
    <2>2. /\ delivered' = delivered + acks /\ undelivered' = undelivered + failed
          /\ acks' = 0 /\ failed' = 0
      BY <1>31 DEF SinkFlush, ServeReports
    <2>3. PlaceInv' /\ OrderInv'
      BY <1>2, <2>1, PlaceUnchanged, OrderUnchanged DEF PlaceVars, Capturing, Hand
    <2>4. TypeOK'
      BY <1>2, <1>3, <1>4, <1>31, <2>1, <2>2 DEF SinkFlush, TypeOK, PlaceVars, outq_len, sinkVars
    <2>5. StopInv' /\ RoomInv'
      BY <1>2, <1>31, <2>1 DEF SinkFlush, StopInv, RoomInv, Capturing, PlaceVars, sinkVars
    <2>6. LibInv'
      <3>1. produced = Len(inflight) + acks + failed + delivered + undelivered
        BY <1>2 DEF LibInv, outq_len
      <3>2. (produced = outq_len + delivered + undelivered)'
        BY <1>4, <2>1, <2>2, <3>1 DEF outq_len
      <3> QED BY <1>2, <2>1, <3>2 DEF LibInv, PlaceVars
    <2> QED BY <2>3, <2>4, <2>5, <2>6 DEF IInv
  <1>32. CASE MainServe
    <2>1. UNCHANGED <<PlaceVars, inflight, topic, stop, mpc, localError, produced>>
      BY <1>32 DEF MainServe, ServeReports, PlaceVars, sinkVars, outqVars, producerVars, goneVars
    <2>2. /\ delivered' = delivered + acks /\ undelivered' = undelivered + failed
          /\ acks' = 0 /\ failed' = 0
      BY <1>32 DEF MainServe, ServeReports
    <2>3. PlaceInv' /\ OrderInv'
      BY <1>2, <2>1, PlaceUnchanged, OrderUnchanged DEF PlaceVars, Capturing, Hand
    <2>4. TypeOK'
      BY <1>2, <1>3, <1>4, <1>32, <2>1, <2>2 DEF MainServe, TypeOK, PlaceVars, outq_len, sinkVars
    <2>5. StopInv' /\ RoomInv'
      BY <1>2, <1>32, <2>1 DEF MainServe, StopInv, RoomInv, Capturing, PlaceVars, sinkVars
    <2>6. LibInv'
      <3>1. produced = Len(inflight) + acks + failed + delivered + undelivered
        BY <1>2 DEF LibInv, outq_len
      <3>2. (produced = outq_len + delivered + undelivered)'
        BY <1>4, <2>1, <2>2, <3>1 DEF outq_len
      <3> QED BY <1>2, <2>1, <3>2 DEF LibInv, PlaceVars
    <2> QED BY <2>3, <2>4, <2>5, <2>6 DEF IInv
  <1>33. CASE Push
    <2>1. UNCHANGED <<evt, retryBuf, handed, inflight, acks, failed, delivered, undelivered,
                      topic, produced, localError, invalid, dropped, spc, mpc, stop>>
      BY <1>33 DEF Push, sinkVars, outqVars, producerVars, goneVars
    <2>2. /\ pushed \in Nat /\ pushed' = pushed + 1
          /\ pushed' \in Evts /\ pushed' \in 0 .. MaxEvents
          /\ queue' \in Seq(Evts) /\ Len(queue') = Len(queue) + 1
      BY <1>33, <1>2, <1>3, <1>5, <1>7, <1>14 DEF Push, TypeOK
    <2>3. /\ ToSet(queue') = ToSet(queue) \cup {pushed'}
          /\ 1 .. pushed' = 1 .. pushed \cup {pushed'}
      BY <1>33, <1>2, <1>3, <1>6, <1>8, <2>2 DEF Push, Hand
    <2>4. PlaceInv'
      <3>0. /\ Len(queue') = Len(queue) + 1
            /\ Len(retryBuf') = Len(retryBuf)
            /\ Len(handed') = Len(handed)
            /\ Len(invalid') = Len(invalid)
            /\ Len(dropped') = Len(dropped)
            /\ Hands' = Hands /\ Hands \in Nat /\ pushed' = pushed + 1
        BY <1>33, <1>4, <2>1, <2>2 DEF Push, Hands
      <3>1. (Len(queue) + Hands + Len(retryBuf) + Len(handed) + Len(invalid) + Len(dropped) = pushed)'
        BY <1>1, <1>4, <3>0
      <3>2. (ToSet(queue) \cup Hand \cup ToSet(retryBuf) \cup ToSet(handed) \cup ToSet(invalid)
               \cup ToSet(dropped) = 1 .. pushed)'
        BY <1>2, <1>4, <2>1, <2>3 DEF PlaceInv, Hand
      <3> QED BY <3>1, <3>2 DEF PlaceInv
    <2>5. TypeOK'
      <3>1. produced' \in 0 .. MaxEvents
        BY <1>2, <2>1 DEF TypeOK
      <3> QED BY <1>2, <1>3, <1>4, <1>33, <2>1, <2>2, <3>1
      DEF Push, TypeOK, outq_len
    <2>6. StopInv'
      BY <1>2, <1>33, <2>1, <2>2 DEF Push, TypeOK, StopInv
    <2>7. RoomInv'
      BY <1>2, <1>4, <1>33, <2>1, <2>2
      DEF Push, TypeOK, RoomInv, Capturing, outq_len
    <2>8. OrderInv'
      <3> SUFFICES ASSUME Capturing' PROVE OrderInv'
        BY DEF OrderInv
      <3>1. Capturing
        BY <1>33, <1>2, <2>1 DEF Push, Capturing, TypeOK
      <3>2. /\ Increasing(handed) /\ Increasing(retryBuf) /\ Increasing(queue)
            /\ Before(ToSet(handed), ToSet(retryBuf) \cup Hand \cup ToSet(queue))
            /\ Before(ToSet(retryBuf), Hand \cup ToSet(queue))
            /\ Before(Hand, ToSet(queue))
        BY <1>2, <3>1 DEF OrderInv
      <3>3. /\ Before(ToSet(queue), {pushed'}) /\ Before(Hand, {pushed'})
            /\ Before(ToSet(retryBuf), {pushed'}) /\ Before(ToSet(handed), {pushed'})
            /\ Increasing(queue')
        <4>1. Before(1 .. pushed, {pushed'})
          BY <2>2 DEF Before
        <4>2. /\ ToSet(queue) \subseteq 1 .. pushed /\ Hand \subseteq 1 .. pushed
              /\ ToSet(retryBuf) \subseteq 1 .. pushed /\ ToSet(handed) \subseteq 1 .. pushed
          BY <1>2 DEF PlaceInv
        <4>3. /\ Before(ToSet(queue), {pushed'}) /\ Before(Hand, {pushed'})
              /\ Before(ToSet(retryBuf), {pushed'}) /\ Before(ToSet(handed), {pushed'})
          BY <4>1, <4>2 DEF Before
        <4> QED BY <1>33, <1>3, <1>9, <2>2, <3>2, <4>3 DEF Push
      <3>4. Increasing(handed') /\ Increasing(retryBuf') /\ Increasing(queue')
        BY <2>1, <3>2, <3>3
      <3> QED BY <2>1, <2>3, <3>2, <3>3, <3>4 DEF OrderInv, Hand, Before
    <2>9. LibInv'
      BY <1>2, <2>1, LibUnchanged DEF LibVars
    <2> QED BY <2>4, <2>5, <2>6, <2>7, <2>8, <2>9 DEF IInv
  <1>34. CASE PopEvent
    <2>1. UNCHANGED <<pushed, retryBuf, handed, inflight, acks, failed, delivered, undelivered,
                      topic, produced, localError, invalid, dropped, mpc, stop>>
      BY <1>34 DEF PopEvent, sinkVars, outqVars, producerVars, goneVars
    <2>2. /\ evt = NoEvt /\ evt' = Head(queue) /\ evt' \in Evts /\ evt' # NoEvt
          /\ queue' \in Seq(Evts) /\ Len(queue') = Len(queue) - 1
      BY <1>34, <1>2, <1>3, <1>5, <1>7, <1>11 DEF PopEvent, TypeOK
    <2>3. /\ ToSet(queue) = {evt'} \cup ToSet(queue')
          /\ Hand = {} /\ Hand' = {evt'}
      BY <1>34, <1>2, <1>3, <1>6, <1>8, <2>2 DEF PopEvent, Hand
    <2>4. PlaceInv'
      <3>0. /\ Len(queue') = Len(queue) - 1
            /\ Len(retryBuf') = Len(retryBuf)
            /\ Len(handed') = Len(handed)
            /\ Len(invalid') = Len(invalid)
            /\ Len(dropped') = Len(dropped)
            /\ Hands' = Hands + 1 /\ Hands \in Nat /\ pushed' = pushed
        BY <1>34, <1>4, <2>1, <2>2 DEF PopEvent, Hands
      <3>1. (Len(queue) + Hands + Len(retryBuf) + Len(handed) + Len(invalid) + Len(dropped) = pushed)'
        BY <1>1, <1>4, <3>0
      <3>2. (ToSet(queue) \cup Hand \cup ToSet(retryBuf) \cup ToSet(handed) \cup ToSet(invalid)
               \cup ToSet(dropped) = 1 .. pushed)'
        BY <1>2, <1>4, <2>1, <2>3 DEF PlaceInv, Hand
      <3> QED BY <3>1, <3>2 DEF PlaceInv
    <2>5. TypeOK'
      <3>1. produced' \in 0 .. MaxEvents
        BY <1>2, <2>1 DEF TypeOK
      <3> QED BY <1>2, <1>3, <1>4, <1>34, <2>1, <2>2, <3>1
      DEF PopEvent, TypeOK, outq_len
    <2>6. StopInv'
      BY <1>2, <1>34, <2>1, <2>2 DEF PopEvent, TypeOK, StopInv
    <2>7. RoomInv'
      BY <1>2, <1>4, <1>34, <2>1, <2>2
      DEF PopEvent, TypeOK, RoomInv, Capturing, outq_len
    <2>8. OrderInv'
      <3> SUFFICES ASSUME Capturing' PROVE OrderInv'
        BY DEF OrderInv
      <3>1. Capturing
        BY <1>34, <1>2, <2>1 DEF PopEvent, Capturing, TypeOK
      <3>2. /\ Increasing(handed) /\ Increasing(retryBuf) /\ Increasing(queue)
            /\ Before(ToSet(handed), ToSet(retryBuf) \cup Hand \cup ToSet(queue))
            /\ Before(ToSet(retryBuf), Hand \cup ToSet(queue))
            /\ Before(Hand, ToSet(queue))
        BY <1>2, <3>1 DEF OrderInv
      <3>3. Increasing(queue') /\ Before({evt'}, ToSet(queue'))
        BY <1>34, <1>3, <1>10, <2>2, <3>2 DEF PopEvent
      <3>4. Increasing(handed') /\ Increasing(retryBuf') /\ Increasing(queue')
        BY <2>1, <3>2, <3>3
      <3> QED BY <2>1, <2>3, <3>2, <3>3, <3>4 DEF OrderInv, Hand, Before
    <2>9. LibInv'
      BY <1>2, <2>1, LibUnchanged DEF LibVars
    <2> QED BY <2>4, <2>5, <2>6, <2>7, <2>8, <2>9 DEF IInv
  <1>35. CASE RetryFront /\ ProduceOk(Head(retryBuf)) /\ retryBuf' = Tail(retryBuf)
              /\ UNCHANGED <<spc, goneVars>>
    <2>1. UNCHANGED <<queue, pushed, evt, acks, failed, delivered, undelivered, topic,
                      localError, invalid, dropped, spc, mpc, stop>>
      BY <1>35 DEF RetryFront, ProduceOk, sinkVars, outqVars, producerVars, goneVars
    <2>2. /\ Head(retryBuf) \in Evts /\ retryBuf' \in Seq(Evts) /\ inflight' \in Seq(Evts)
          /\ handed' \in Seq(Evts) /\ Len(retryBuf') = Len(retryBuf) - 1
          /\ Len(inflight') = Len(inflight) + 1 /\ Len(handed') = Len(handed) + 1
          /\ produced' = produced + 1
      BY <1>35, <1>2, <1>3, <1>5, <1>7 DEF RetryFront, ProduceOk, TypeOK
    <2>3. /\ ToSet(retryBuf) = {Head(retryBuf)} \cup ToSet(retryBuf')
          /\ ToSet(inflight') = ToSet(inflight) \cup {Head(retryBuf)}
          /\ ToSet(handed') = ToSet(handed) \cup {Head(retryBuf)}
      BY <1>35, <1>2, <1>3, <1>6, <1>8, <2>2 DEF RetryFront, ProduceOk, Hand
    <2>4. PlaceInv'
      <3>0. /\ Len(queue') = Len(queue)
            /\ Len(retryBuf') = Len(retryBuf) - 1
            /\ Len(handed') = Len(handed) + 1
            /\ Len(invalid') = Len(invalid)
            /\ Len(dropped') = Len(dropped)
            /\ Hands' = Hands /\ Hands \in Nat /\ pushed' = pushed
        BY <1>35, <1>4, <2>1, <2>2 DEF RetryFront, ProduceOk, Hands
      <3>1. (Len(queue) + Hands + Len(retryBuf) + Len(handed) + Len(invalid) + Len(dropped) = pushed)'
        BY <1>1, <1>4, <3>0
      <3>2. (ToSet(queue) \cup Hand \cup ToSet(retryBuf) \cup ToSet(handed) \cup ToSet(invalid)
               \cup ToSet(dropped) = 1 .. pushed)'
        BY <1>2, <1>4, <2>1, <2>3 DEF PlaceInv, Hand
      <3> QED BY <3>1, <3>2 DEF PlaceInv
    <2>5. TypeOK'
      <3>1. produced' \in 0 .. MaxEvents
        <4>1. Hands + Len(retryBuf) > 0
          BY <1>35, <1>2, <1>3, <1>4, <2>2 DEF RetryFront, Hands
        <4> QED BY <1>2, <2>2, <4>1, RoomToCount
      <3> QED BY <1>2, <1>3, <1>4, <1>35, <2>1, <2>2, <3>1
      DEF RetryFront, ProduceOk, TypeOK, outq_len
    <2>6. StopInv'
      BY <1>2, <1>35, <2>1, <2>2 DEF RetryFront, TypeOK, StopInv
    <2>7. RoomInv'
      BY <1>2, <1>4, <1>35, <2>1, <2>2
      DEF RetryFront, ProduceOk, TypeOK, RoomInv, Capturing, outq_len
    <2>8. OrderInv'
      <3> SUFFICES ASSUME Capturing' PROVE OrderInv'
        BY DEF OrderInv
      <3>1. Capturing
        BY <1>35, <1>2, <2>1 DEF RetryFront, ProduceOk, Capturing, TypeOK
      <3>2. /\ Increasing(handed) /\ Increasing(retryBuf) /\ Increasing(queue)
            /\ Before(ToSet(handed), ToSet(retryBuf) \cup Hand \cup ToSet(queue))
            /\ Before(ToSet(retryBuf), Hand \cup ToSet(queue))
            /\ Before(Hand, ToSet(queue))
        BY <1>2, <3>1 DEF OrderInv
      <3>3. /\ Increasing(retryBuf') /\ Before({Head(retryBuf)}, ToSet(retryBuf'))
            /\ Increasing(handed')
        <4>1. /\ retryBuf # <<>> /\ retryBuf' = Tail(retryBuf)
              /\ handed' = Append(handed, Head(retryBuf))
          BY <1>35 DEF RetryFront, ProduceOk
        <4>2. Before(ToSet(handed), {Head(retryBuf)})
          BY <2>3, <3>2 DEF Before
        <4> QED BY <1>3, <1>9, <1>10, <2>2, <3>2, <4>1, <4>2
      <3>4. Increasing(handed') /\ Increasing(retryBuf') /\ Increasing(queue')
        BY <2>1, <3>2, <3>3
      <3> QED BY <2>1, <2>3, <3>2, <3>3, <3>4 DEF OrderInv, Hand, Before
    <2>9. LibInv'
      <3>1. (ToSet(inflight) \subseteq ToSet(handed) /\ ToSet(topic) \subseteq ToSet(handed))'
        BY <1>2, <2>1, <2>3 DEF LibInv
      <3>2. produced = Len(handed) /\ produced = Len(inflight) + acks + failed + delivered + undelivered
        BY <1>2 DEF LibInv, outq_len
      <3>3. (produced = Len(handed) /\ produced = outq_len + delivered + undelivered)'
        BY <1>4, <2>1, <2>2, <3>2 DEF outq_len
      <3> QED BY <3>1, <3>3 DEF LibInv
    <2> QED BY <2>4, <2>5, <2>6, <2>7, <2>8, <2>9 DEF IInv
  <1>36. CASE RetryFront /\ ProduceFails /\ spc' = "pop" /\ UNCHANGED <<retryBuf, goneVars>>
    <2>1. UNCHANGED <<PlaceVars, LibVars, mpc, stop>>
      BY <1>36 DEF RetryFront, ProduceFails, PlaceVars, LibVars, sinkVars, outqVars, producerVars, goneVars
    <2>2. localError' = (localError \/ outq_len < OutqCapacity)
      BY <1>36 DEF RetryFront, ProduceFails
    <2>4. PlaceInv' /\ LibInv'
      BY <1>2, <2>1, PlaceUnchanged, LibUnchanged
    <2>5. TypeOK'
      BY <1>2, <1>3, <1>4, <1>36, <2>1, <2>2
      DEF RetryFront, ProduceFails, TypeOK, PlaceVars, LibVars, outq_len
    <2>6. StopInv'
      BY <1>2, <1>36, <2>1, <2>2 DEF RetryFront, TypeOK, StopInv, PlaceVars
    <2>7. RoomInv'
      <3> SUFFICES ASSUME Capturing' PROVE (outq_len >= OutqCapacity)'
        BY DEF RoomInv
      <3>1. ~ (outq_len < OutqCapacity)
        BY <2>2, Zenon DEF Capturing
      <3>2. outq_len \in Nat /\ outq_len' = outq_len
        BY <1>2, <1>4, <2>1 DEF outq_len, TypeOK, LibVars
      <3> QED BY <3>1, <3>2
    <2>8. OrderInv'
      BY <1>2, <1>36, <2>1, <2>2, OrderUnchanged
      DEF RetryFront, ProduceFails, Capturing, TypeOK, PlaceVars, Hand
    <2> QED BY <2>4, <2>5, <2>6, <2>7, <2>8 DEF IInv
  <1>37. CASE RetryFront /\ Invalid(Head(retryBuf)) /\ retryBuf' = Tail(retryBuf) /\ UNCHANGED spc
    <2>1. UNCHANGED <<queue, pushed, evt, handed, inflight, acks, failed, delivered,
                      undelivered, topic, produced, localError, dropped, spc, mpc, stop>>
      BY <1>37 DEF RetryFront, Invalid, sinkVars, outqVars, producerVars, goneVars
    <2>2. /\ Head(retryBuf) \in Evts /\ retryBuf' \in Seq(Evts) /\ invalid' \in Seq(Evts)
          /\ Len(retryBuf') = Len(retryBuf) - 1 /\ Len(invalid') = Len(invalid) + 1
      BY <1>37, <1>2, <1>3, <1>5, <1>7 DEF RetryFront, Invalid, TypeOK
    <2>3. /\ ToSet(retryBuf) = {Head(retryBuf)} \cup ToSet(retryBuf')
          /\ ToSet(invalid') = ToSet(invalid) \cup {Head(retryBuf)}
      BY <1>37, <1>2, <1>3, <1>6, <1>8, <2>2 DEF RetryFront, Invalid, Hand
    <2>4. PlaceInv'
      <3>0. /\ Len(queue') = Len(queue)
            /\ Len(retryBuf') = Len(retryBuf) - 1
            /\ Len(handed') = Len(handed)
            /\ Len(invalid') = Len(invalid) + 1
            /\ Len(dropped') = Len(dropped)
            /\ Hands' = Hands /\ Hands \in Nat /\ pushed' = pushed
        BY <1>37, <1>4, <2>1, <2>2 DEF RetryFront, Invalid, Hands
      <3>1. (Len(queue) + Hands + Len(retryBuf) + Len(handed) + Len(invalid) + Len(dropped) = pushed)'
        BY <1>1, <1>4, <3>0
      <3>2. (ToSet(queue) \cup Hand \cup ToSet(retryBuf) \cup ToSet(handed) \cup ToSet(invalid)
               \cup ToSet(dropped) = 1 .. pushed)'
        BY <1>2, <1>4, <2>1, <2>3 DEF PlaceInv, Hand
      <3> QED BY <3>1, <3>2 DEF PlaceInv
    <2>5. TypeOK'
      <3>1. produced' \in 0 .. MaxEvents
        BY <1>2, <2>1 DEF TypeOK
      <3> QED BY <1>2, <1>3, <1>4, <1>37, <2>1, <2>2, <3>1
      DEF RetryFront, Invalid, TypeOK, outq_len
    <2>6. StopInv'
      BY <1>2, <1>37, <2>1, <2>2 DEF RetryFront, TypeOK, StopInv
    <2>7. RoomInv'
      BY <1>2, <1>4, <1>37, <2>1, <2>2
      DEF RetryFront, Invalid, TypeOK, RoomInv, Capturing, outq_len
    <2>8. OrderInv'
      <3> SUFFICES ASSUME Capturing' PROVE OrderInv'
        BY DEF OrderInv
      <3>1. Capturing
        BY <1>37, <1>2, <2>1 DEF RetryFront, Invalid, Capturing, TypeOK
      <3>2. /\ Increasing(handed) /\ Increasing(retryBuf) /\ Increasing(queue)
            /\ Before(ToSet(handed), ToSet(retryBuf) \cup Hand \cup ToSet(queue))
            /\ Before(ToSet(retryBuf), Hand \cup ToSet(queue))
            /\ Before(Hand, ToSet(queue))
        BY <1>2, <3>1 DEF OrderInv
      <3>3. Increasing(retryBuf')
        BY <1>37, <1>3, <1>10, <3>2 DEF RetryFront
      <3>4. Increasing(handed') /\ Increasing(retryBuf') /\ Increasing(queue')
        BY <2>1, <3>2, <3>3
      <3> QED BY <2>1, <2>3, <3>2, <3>3, <3>4 DEF OrderInv, Hand, Before
    <2>9. LibInv'
      BY <1>2, <2>1, LibUnchanged DEF LibVars
    <2> QED BY <2>4, <2>5, <2>6, <2>7, <2>8, <2>9 DEF IInv
  <1>38. CASE RetryFront
    BY <1>38, <1>35, <1>36, <1>37 DEF RetryFront
  <1>39. CASE Produce /\ ProduceOk(evt) /\ UNCHANGED <<retryBuf, goneVars>>
    <2>1. UNCHANGED <<queue, pushed, retryBuf, acks, failed, delivered, undelivered, topic,
                      localError, invalid, dropped, mpc, stop>>
      BY <1>39 DEF Produce, ProduceOk, sinkVars, outqVars, producerVars, goneVars
    <2>2. /\ evt \in Evts /\ evt # NoEvt /\ evt' = NoEvt
          /\ inflight' \in Seq(Evts) /\ Len(inflight') = Len(inflight) + 1
          /\ handed' \in Seq(Evts) /\ Len(handed') = Len(handed) + 1
          /\ produced' = produced + 1
      BY <1>39, <1>2, <1>3, <1>5, <1>7, <1>11 DEF Produce, ProduceOk, TypeOK
    <2>3. /\ Hand = {evt} /\ Hand' = {}
          /\ ToSet(inflight') = ToSet(inflight) \cup {evt}
          /\ ToSet(handed') = ToSet(handed) \cup {evt}
      BY <1>39, <1>2, <1>3, <1>6, <1>8, <2>2 DEF Produce, ProduceOk, Hand
    <2>4. PlaceInv'
      <3>0. /\ Len(queue') = Len(queue)
            /\ Len(retryBuf') = Len(retryBuf)
            /\ Len(handed') = Len(handed) + 1
            /\ Len(invalid') = Len(invalid)
            /\ Len(dropped') = Len(dropped)
            /\ Hands' = Hands - 1 /\ Hands \in Nat /\ pushed' = pushed
        BY <1>39, <1>4, <2>1, <2>2 DEF Produce, ProduceOk, Hands
      <3>1. (Len(queue) + Hands + Len(retryBuf) + Len(handed) + Len(invalid) + Len(dropped) = pushed)'
        BY <1>1, <1>4, <3>0
      <3>2. (ToSet(queue) \cup Hand \cup ToSet(retryBuf) \cup ToSet(handed) \cup ToSet(invalid)
               \cup ToSet(dropped) = 1 .. pushed)'
        BY <1>2, <1>4, <2>1, <2>3 DEF PlaceInv, Hand
      <3> QED BY <3>1, <3>2 DEF PlaceInv
    <2>5. TypeOK'
      <3>1. produced' \in 0 .. MaxEvents
        <4>1. Hands + Len(retryBuf) > 0
          BY <1>39, <1>2, <1>3, <1>4, <2>2 DEF Produce, Hands
        <4> QED BY <1>2, <2>2, <4>1, RoomToCount
      <3> QED BY <1>2, <1>3, <1>4, <1>39, <2>1, <2>2, <3>1
      DEF Produce, ProduceOk, TypeOK, outq_len
    <2>6. StopInv'
      BY <1>2, <1>39, <2>1, <2>2 DEF Produce, TypeOK, StopInv
    <2>7. RoomInv'
      BY <1>2, <1>4, <1>39, <2>1, <2>2
      DEF Produce, ProduceOk, TypeOK, RoomInv, Capturing, outq_len
    <2>8. OrderInv'
      <3> SUFFICES ASSUME Capturing' PROVE OrderInv'
        BY DEF OrderInv
      <3>1. Capturing
        BY <1>39, <1>2, <2>1 DEF Produce, ProduceOk, Capturing, TypeOK
      <3>2. /\ Increasing(handed) /\ Increasing(retryBuf) /\ Increasing(queue)
            /\ Before(ToSet(handed), ToSet(retryBuf) \cup Hand \cup ToSet(queue))
            /\ Before(ToSet(retryBuf), Hand \cup ToSet(queue))
            /\ Before(Hand, ToSet(queue))
        BY <1>2, <3>1 DEF OrderInv
      <3>3. ToSet(retryBuf) = {} /\ Increasing(handed')
        <4>1. retryBuf = <<>>
          BY <1>39, <1>2, <1>4, <3>1 DEF Produce, ProduceOk, RoomInv, TypeOK, outq_len
        <4>2. Before(ToSet(handed), {evt})
          BY <2>3, <3>2 DEF Before
        <4>3. handed' = Append(handed, evt)
          BY <1>39 DEF Produce, ProduceOk
        <4>4. Increasing(handed')
          BY <1>3, <1>9, <2>2, <3>2, <4>2, <4>3
        <4> QED BY <1>13, <4>1, <4>4
      <3>4. Increasing(handed') /\ Increasing(retryBuf') /\ Increasing(queue')
        BY <2>1, <3>2, <3>3
      <3> QED BY <2>1, <2>3, <3>2, <3>3, <3>4 DEF OrderInv, Hand, Before
    <2>9. LibInv'
      <3>1. (ToSet(inflight) \subseteq ToSet(handed) /\ ToSet(topic) \subseteq ToSet(handed))'
        BY <1>2, <2>1, <2>3 DEF LibInv
      <3>2. produced = Len(handed) /\ produced = Len(inflight) + acks + failed + delivered + undelivered
        BY <1>2 DEF LibInv, outq_len
      <3>3. (produced = Len(handed) /\ produced = outq_len + delivered + undelivered)'
        BY <1>4, <2>1, <2>2, <3>2 DEF outq_len
      <3> QED BY <3>1, <3>3 DEF LibInv
    <2> QED BY <2>4, <2>5, <2>6, <2>7, <2>8, <2>9 DEF IInv
  <1>40. CASE Produce /\ Invalid(evt) /\ UNCHANGED retryBuf
    <2>1. UNCHANGED <<queue, pushed, retryBuf, handed, inflight, acks, failed, delivered,
                      undelivered, topic, produced, localError, dropped, mpc, stop>>
      BY <1>40 DEF Produce, Invalid, sinkVars, outqVars, producerVars, goneVars
    <2>2. /\ evt \in Evts /\ evt # NoEvt /\ evt' = NoEvt
          /\ invalid' \in Seq(Evts) /\ Len(invalid') = Len(invalid) + 1
      BY <1>40, <1>2, <1>3, <1>5, <1>7, <1>11 DEF Produce, Invalid, TypeOK
    <2>3. /\ Hand = {evt} /\ Hand' = {}
          /\ ToSet(invalid') = ToSet(invalid) \cup {evt}
      BY <1>40, <1>2, <1>3, <1>6, <1>8, <2>2 DEF Produce, Invalid, Hand
    <2>4. PlaceInv'
      <3>0. /\ Len(queue') = Len(queue)
            /\ Len(retryBuf') = Len(retryBuf)
            /\ Len(handed') = Len(handed)
            /\ Len(invalid') = Len(invalid) + 1
            /\ Len(dropped') = Len(dropped)
            /\ Hands' = Hands - 1 /\ Hands \in Nat /\ pushed' = pushed
        BY <1>40, <1>4, <2>1, <2>2 DEF Produce, Invalid, Hands
      <3>1. (Len(queue) + Hands + Len(retryBuf) + Len(handed) + Len(invalid) + Len(dropped) = pushed)'
        BY <1>1, <1>4, <3>0
      <3>2. (ToSet(queue) \cup Hand \cup ToSet(retryBuf) \cup ToSet(handed) \cup ToSet(invalid)
               \cup ToSet(dropped) = 1 .. pushed)'
        BY <1>2, <1>4, <2>1, <2>3 DEF PlaceInv, Hand
      <3> QED BY <3>1, <3>2 DEF PlaceInv
    <2>5. TypeOK'
      <3>1. produced' \in 0 .. MaxEvents
        BY <1>2, <2>1 DEF TypeOK
      <3> QED BY <1>2, <1>3, <1>4, <1>40, <2>1, <2>2, <3>1
      DEF Produce, Invalid, TypeOK, outq_len
    <2>6. StopInv'
      BY <1>2, <1>40, <2>1, <2>2 DEF Produce, TypeOK, StopInv
    <2>7. RoomInv'
      BY <1>2, <1>4, <1>40, <2>1, <2>2
      DEF Produce, Invalid, TypeOK, RoomInv, Capturing, outq_len
    <2>8. OrderInv'
      BY <1>2, <1>40, <2>1, <2>2, <2>3, OrderUnchanged
      DEF Produce, Invalid, Capturing, TypeOK, Hand
    <2>9. LibInv'
      BY <1>2, <2>1, LibUnchanged DEF LibVars
    <2> QED BY <2>4, <2>5, <2>6, <2>7, <2>8, <2>9 DEF IInv
  <1>41. CASE Produce /\ ProduceFails /\ Len(retryBuf) < SrBufferSize
              /\ retryBuf' = Append(retryBuf, evt) /\ UNCHANGED goneVars
    <2>1. UNCHANGED <<queue, pushed, handed, inflight, acks, failed, delivered, undelivered,
                      topic, produced, invalid, dropped, mpc, stop>>
      BY <1>41 DEF Produce, ProduceFails, sinkVars, outqVars, producerVars, goneVars
    <2>2. /\ evt \in Evts /\ evt # NoEvt /\ evt' = NoEvt
          /\ retryBuf' \in Seq(Evts) /\ Len(retryBuf') = Len(retryBuf) + 1
          /\ localError' = (localError \/ outq_len < OutqCapacity)
      BY <1>41, <1>2, <1>3, <1>5, <1>7, <1>11 DEF Produce, ProduceFails, TypeOK
    <2>3. /\ Hand = {evt} /\ Hand' = {}
          /\ ToSet(retryBuf') = ToSet(retryBuf) \cup {evt}
      BY <1>41, <1>2, <1>3, <1>6, <1>8, <2>2 DEF Produce, ProduceFails, Hand
    <2>4. PlaceInv'
      <3>0. /\ Len(queue') = Len(queue)
            /\ Len(retryBuf') = Len(retryBuf) + 1
            /\ Len(handed') = Len(handed)
            /\ Len(invalid') = Len(invalid)
            /\ Len(dropped') = Len(dropped)
            /\ Hands' = Hands - 1 /\ Hands \in Nat /\ pushed' = pushed
        BY <1>41, <1>4, <2>1, <2>2 DEF Produce, ProduceFails, Hands
      <3>1. (Len(queue) + Hands + Len(retryBuf) + Len(handed) + Len(invalid) + Len(dropped) = pushed)'
        BY <1>1, <1>4, <3>0
      <3>2. (ToSet(queue) \cup Hand \cup ToSet(retryBuf) \cup ToSet(handed) \cup ToSet(invalid)
               \cup ToSet(dropped) = 1 .. pushed)'
        BY <1>2, <1>4, <2>1, <2>3 DEF PlaceInv, Hand
      <3> QED BY <3>1, <3>2 DEF PlaceInv
    <2>5. TypeOK'
      <3>1. produced' \in 0 .. MaxEvents
        BY <1>2, <2>1 DEF TypeOK
      <3> QED BY <1>2, <1>3, <1>4, <1>41, <2>1, <2>2, <3>1
      DEF Produce, ProduceFails, TypeOK, outq_len
    <2>6. StopInv'
      BY <1>2, <1>41, <2>1, <2>2 DEF Produce, TypeOK, StopInv
    <2>7. RoomInv'
      BY <1>2, <1>4, <1>41, <2>1, <2>2
      DEF Produce, ProduceFails, TypeOK, RoomInv, Capturing, outq_len
    <2>8. OrderInv'
      <3> SUFFICES ASSUME Capturing' PROVE OrderInv'
        BY DEF OrderInv
      <3>1. Capturing
        BY <1>41, <1>2, <2>1 DEF Produce, ProduceFails, Capturing, TypeOK
      <3>2. /\ Increasing(handed) /\ Increasing(retryBuf) /\ Increasing(queue)
            /\ Before(ToSet(handed), ToSet(retryBuf) \cup Hand \cup ToSet(queue))
            /\ Before(ToSet(retryBuf), Hand \cup ToSet(queue))
            /\ Before(Hand, ToSet(queue))
        BY <1>2, <3>1 DEF OrderInv
      <3>3. Increasing(retryBuf')
        <4>1. Before(ToSet(retryBuf), {evt})
          BY <2>3, <3>2 DEF Before
        <4> QED BY <1>41, <1>3, <1>9, <2>2, <3>2, <4>1 DEF Produce
      <3>4. Increasing(handed') /\ Increasing(retryBuf') /\ Increasing(queue')
        BY <2>1, <3>2, <3>3
      <3> QED BY <2>1, <2>3, <3>2, <3>3, <3>4 DEF OrderInv, Hand, Before
    <2>9. LibInv'
      BY <1>2, <2>1, LibUnchanged DEF LibVars
    <2> QED BY <2>4, <2>5, <2>6, <2>7, <2>8, <2>9 DEF IInv
  <1>42. CASE Produce /\ ProduceFails /\ Len(retryBuf) >= SrBufferSize
              /\ dropped' = Append(dropped, evt) /\ UNCHANGED <<retryBuf, invalid>>
    <2>1. UNCHANGED <<queue, pushed, retryBuf, handed, inflight, acks, failed, delivered,
                      undelivered, topic, produced, invalid, mpc, stop>>
      BY <1>42 DEF Produce, ProduceFails, sinkVars, outqVars, producerVars, goneVars
    <2>2. /\ evt \in Evts /\ evt # NoEvt /\ evt' = NoEvt
          /\ dropped' \in Seq(Evts) /\ Len(dropped') = Len(dropped) + 1
          /\ localError' = (localError \/ outq_len < OutqCapacity)
      BY <1>42, <1>2, <1>3, <1>5, <1>7, <1>11 DEF Produce, ProduceFails, TypeOK
    <2>3. /\ Hand = {evt} /\ Hand' = {}
          /\ ToSet(dropped') = ToSet(dropped) \cup {evt}
      BY <1>42, <1>2, <1>3, <1>6, <1>8, <2>2 DEF Produce, ProduceFails, Hand
    <2>4. PlaceInv'
      <3>0. /\ Len(queue') = Len(queue)
            /\ Len(retryBuf') = Len(retryBuf)
            /\ Len(handed') = Len(handed)
            /\ Len(invalid') = Len(invalid)
            /\ Len(dropped') = Len(dropped) + 1
            /\ Hands' = Hands - 1 /\ Hands \in Nat /\ pushed' = pushed
        BY <1>42, <1>4, <2>1, <2>2 DEF Produce, ProduceFails, Hands
      <3>1. (Len(queue) + Hands + Len(retryBuf) + Len(handed) + Len(invalid) + Len(dropped) = pushed)'
        BY <1>1, <1>4, <3>0
      <3>2. (ToSet(queue) \cup Hand \cup ToSet(retryBuf) \cup ToSet(handed) \cup ToSet(invalid)
               \cup ToSet(dropped) = 1 .. pushed)'
        BY <1>2, <1>4, <2>1, <2>3 DEF PlaceInv, Hand
      <3> QED BY <3>1, <3>2 DEF PlaceInv
    <2>5. TypeOK'
      <3>1. produced' \in 0 .. MaxEvents
        BY <1>2, <2>1 DEF TypeOK
      <3> QED BY <1>2, <1>3, <1>4, <1>42, <2>1, <2>2, <3>1
      DEF Produce, ProduceFails, TypeOK, outq_len
    <2>6. StopInv'
      BY <1>2, <1>42, <2>1, <2>2 DEF Produce, TypeOK, StopInv
    <2>7. RoomInv'
      BY <1>2, <1>4, <1>42, <2>1, <2>2
      DEF Produce, ProduceFails, TypeOK, RoomInv, Capturing, outq_len
    <2>8. OrderInv'
      BY <1>2, <1>42, <2>1, <2>2, <2>3, OrderUnchanged
      DEF Produce, ProduceFails, Capturing, TypeOK, Hand
    <2>9. LibInv'
      BY <1>2, <2>1, LibUnchanged DEF LibVars
    <2> QED BY <2>4, <2>5, <2>6, <2>7, <2>8, <2>9 DEF IInv
  <1>43. CASE Produce
    BY <1>43, <1>39, <1>40, <1>41, <1>42 DEF Produce
  <1> QED
    BY <1>2, <1>16, <1>17, <1>18, <1>19, <1>20, <1>21, <1>22, <1>23, <1>24, <1>25, <1>26, <1>27,
       <1>28, <1>29, <1>30, <1>31, <1>32, <1>33, <1>34, <1>38, <1>43
    DEF Next, SinkNext, MainNext, Broker

\* Every reachable state satisfies the invariant.
LEMMA Invariant == Spec => []IInv
  BY InitIInv, NextIInv, PTL DEF Spec

\* The variables have their types and the three bounded containers, the event
\* queue, retry_buf_ and librdkafka's queue, never exceed their limits, whatever
\* these are.
THEOREM TypeCorrect == Spec => []TypeOK
  <1>1. IInv => TypeOK
    BY DEF IInv
  <1> QED BY Invariant, <1>1, PTL

\* sink_thread_func() and produce() neither lose nor duplicate an event: every
\* one pushed is in exactly one place, none is handed over to librdkafka
\* twice, and kafka_messages_produced counts the ones that it accepted.
THEOREM EventsAreConserved == Spec => []Conservation
  BY Invariant, Conserved, PTL

\* sink_thread_func() and the retry buffer call produce() in the order of the
\* pushes while main() captures and librdkafka refuses messages only when it
\* is full, whatever librdkafka and the broker then do with the messages.
THEOREM OrderIsKept == Spec => []OrderedWhileCapturing
  BY Invariant, Ordered, PTL

\* sink_thread_func() leaves its loop only when the queue is empty, although it
\* reads the stop token and the queue in two steps.
THEOREM QueueIsDrained == Spec => []QueueDrained
  <1>1. IInv => QueueDrained
    BY DEF IInv, StopInv, QueueDrained
  <1> QED BY Invariant, <1>1, PTL
=============================================================================
