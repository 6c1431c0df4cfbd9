-------------------------- MODULE EventQueueProofs --------------------------
(***************************************************************************)
(* EventQueue, for every ring size, every set of producers and every set   *)
(* of events: types, absence of slot races, and the implementation of the  *)
(* bounded FIFO queue.                                                     *)
(***************************************************************************)
EXTENDS EventQueue, TLAPS

\* The holder of the mutex is the one thread inside FlowTable.
MutexInv == \A p \in Producers : ppc[p] # "out" <=> mutex = p

\* What a producer inside push() knows: its copy of tail_ is current, and
\* the slot it is about to fill is free whatever head_ it has loaded.
PushInv ==
  \A p \in Producers :
    /\ ppc[p] \in {"write", "store"} =>
         /\ ptail[p] = tail /\ pevt[p] \in Events
         /\ Dist(headVis, tail) < N - 1
    /\ ppc[p] = "store" => buffer[tail] = pevt[p]

\* Stale indices are stale in the safe direction: going round the ring one
\* meets headVis, head, tailVis and tail, in this order, within N - 1 slots.
OrderInv ==
  /\ Dist(headVis, head) + Dist(head, tail) = Dist(headVis, tail)
  /\ Dist(head, tailVis) + Dist(tailVis, tail) = Dist(head, tail)

\* What the consumer inside pop() knows.
PopInv ==
  /\ cpc \in {"read", "advance"} => head # tailVis
  /\ cpc = "advance" => cevt = buffer[head]

IInv == TypeOK /\ MutexInv /\ PushInv /\ OrderInv /\ PopInv

\* Arithmetic of the ring: the successor of an index stays inside the buffer
\* and moves the distance between two indices by one.
LEMMA RingArithmetic ==
  ASSUME NEW i \in Slots, NEW j \in Slots
  PROVE  /\ Next1(i) \in Slots
         /\ Dist(i, j) \in 0 .. N - 1
         /\ Dist(i, i) = 0
         /\ Dist(i, j) = 0 => i = j
         /\ Next1(j) # i => Dist(i, Next1(j)) = Dist(i, j) + 1
         /\ Next1(j) = i => Dist(i, j) = N - 1
         /\ i # j => Dist(Next1(i), j) = Dist(i, j) - 1
         /\ i # j => Dist(i, j) > 0
  BY QueueAssumption DEF Slots, Next1, Wrap, Dist

\* The empty ring satisfies the inductive invariant.
THEOREM InitIInv == Init => IInv
  <1> SUFFICES ASSUME Init PROVE IInv
    OBVIOUS
  <1>1. 0 \in Slots
    BY QueueAssumption DEF Slots
  <1>2. TypeOK
    BY <1>1 DEF Init, TypeOK
  <1>3. MutexInv /\ PushInv /\ PopInv
    BY QueueAssumption DEF Init, MutexInv, PushInv, PopInv
  <1>4. OrderInv
    BY <1>1, RingArithmetic DEF Init, OrderInv
  <1> QED BY <1>2, <1>3, <1>4 DEF IInv

\* Every step of push(), of pop_wait() and of the visibility of their stores
\* preserves the inductive invariant.
LEMMA NextIInv == IInv /\ [Next]_vars => IInv'
  <1> SUFFICES ASSUME IInv, [Next]_vars PROVE IInv'
    OBVIOUS
  <1> USE QueueAssumption DEF IInv, producerVars, consumerVars, Goto
  <1>1. ASSUME NEW p \in Producers, Lock(p) PROVE IInv'
    BY <1>1 DEF Lock, TypeOK, MutexInv, PushInv, OrderInv, PopInv
  <1>2. ASSUME NEW p \in Producers, Unlock(p) PROVE IInv'
    BY <1>2 DEF Unlock, TypeOK, MutexInv, PushInv, OrderInv, PopInv
  <1>3. ASSUME NEW p \in Producers, NEW e \in Events, PushCheck(p, e) PROVE IInv'
    <2>1. TypeOK'
      BY <1>3 DEF PushCheck, TypeOK
    <2>2. MutexInv' /\ OrderInv' /\ PopInv'
      BY <1>3 DEF PushCheck, TypeOK, MutexInv, OrderInv, PopInv
    <2>3. Next1(tail) # headVis => Dist(headVis, tail) < N - 1
      <3>1. Next1(tail) # headVis => Dist(headVis, Next1(tail)) = Dist(headVis, tail) + 1
        BY RingArithmetic DEF TypeOK
      <3>2. Dist(headVis, Next1(tail)) \in 0 .. N - 1 /\ Dist(headVis, tail) \in 0 .. N - 1
        BY RingArithmetic DEF TypeOK
      <3> QED BY <3>1, <3>2
    <2>4. PushInv'
      BY <1>3, <2>3 DEF PushCheck, TypeOK, MutexInv, PushInv
    <2> QED BY <2>1, <2>2, <2>4
  <1>4. ASSUME NEW p \in Producers, PushWrite(p) PROVE IInv'
    <2>1. TypeOK'
      BY <1>4 DEF PushWrite, TypeOK, PushInv
    <2>2. MutexInv' /\ OrderInv'
      BY <1>4 DEF PushWrite, TypeOK, MutexInv, OrderInv
    <2>3. PushInv'
      BY <1>4 DEF PushWrite, TypeOK, MutexInv, PushInv
    <2>4. cpc = "advance" => tail # head
      <3>1. cpc = "advance" => Dist(head, tailVis) > 0
        BY RingArithmetic DEF TypeOK, PopInv
      <3>2. /\ Dist(head, tailVis) \in Nat /\ Dist(tailVis, tail) \in Nat
            /\ Dist(head, head) = 0
        BY RingArithmetic DEF TypeOK
      <3> QED BY <3>1, <3>2 DEF OrderInv
    <2>5. PopInv'
      BY <1>4, <2>4 DEF PushWrite, TypeOK, PushInv, PopInv
    <2> QED BY <2>1, <2>2, <2>3, <2>5
  <1>5. ASSUME NEW p \in Producers, PushStore(p) PROVE IInv'
    <2>1. TypeOK'
      BY <1>5, RingArithmetic DEF PushStore, TypeOK
    <2>2. MutexInv' /\ PopInv'
      BY <1>5 DEF PushStore, TypeOK, MutexInv, PopInv
    <2>3. PushInv'
      BY <1>5 DEF PushStore, TypeOK, MutexInv, PushInv
    <2>4. OrderInv'
      <3>1. tail' = Next1(tail) /\ Dist(headVis, tail) < N - 1
            /\ UNCHANGED <<head, headVis, tailVis>>
        BY <1>5 DEF PushStore, PushInv
      <3>2. \A i \in Slots : Dist(i, tail) < N - 1 => Dist(i, Next1(tail)) = Dist(i, tail) + 1
        BY RingArithmetic DEF TypeOK
      <3>3. /\ Dist(headVis, head) \in Nat /\ Dist(headVis, tail) \in Nat
            /\ Dist(head, tail) \in Nat /\ Dist(head, tailVis) \in Nat
            /\ Dist(tailVis, tail) \in Nat
        BY RingArithmetic DEF TypeOK
      <3>4. Dist(head, tail) < N - 1 /\ Dist(tailVis, tail) < N - 1
        BY <3>1, <3>3 DEF OrderInv
      <3> QED BY <3>1, <3>2, <3>3, <3>4 DEF OrderInv, TypeOK
    <2> QED BY <2>1, <2>2, <2>3, <2>4
  <1>6. ASSUME NEW p \in Producers, PushNotify(p) PROVE IInv'
    <2>1. 0 \in Slots
      BY DEF Slots
    <2>2. TypeOK'
      BY <1>6, <2>1 DEF PushNotify, TypeOK
    <2>3. MutexInv' /\ PushInv' /\ OrderInv' /\ PopInv'
      BY <1>6 DEF PushNotify, TypeOK, MutexInv, PushInv, OrderInv, PopInv
    <2> QED BY <2>2, <2>3
  <1>7. CASE PopWait
    BY <1>7 DEF PopWait, TypeOK, MutexInv, PushInv, OrderInv, PopInv
  <1>8. CASE PopCheck
    BY <1>8 DEF PopCheck, TypeOK, MutexInv, PushInv, OrderInv, PopInv
  <1>9. CASE PopRead
    BY <1>9 DEF PopRead, TypeOK, MutexInv, PushInv, OrderInv, PopInv
  <1>10. CASE PopAdvance
    <2>1. TypeOK'
      BY <1>10, RingArithmetic DEF PopAdvance, TypeOK
    <2>2. MutexInv' /\ PushInv' /\ PopInv'
      BY <1>10 DEF PopAdvance, TypeOK, MutexInv, PushInv, PopInv
    <2>3. OrderInv'
      <3>1. head # tailVis /\ head' = Next1(head) /\ UNCHANGED <<tail, headVis, tailVis>>
        BY <1>10 DEF PopAdvance, PopInv
      <3>2. /\ Dist(headVis, head) \in 0 .. N - 1 /\ Dist(headVis, tail) \in 0 .. N - 1
            /\ Dist(head, tail) \in 0 .. N - 1 /\ Dist(head, tailVis) \in 0 .. N - 1
            /\ Dist(tailVis, tail) \in 0 .. N - 1
            /\ Dist(head, tailVis) > 0
        BY <3>1, RingArithmetic DEF TypeOK
      <3>3. Dist(headVis, head) < N - 1 /\ head # tail
        <4>1. Dist(head, head) = 0
          BY RingArithmetic DEF TypeOK
        <4> QED BY <3>2, <4>1 DEF OrderInv
      <3>4. Dist(headVis, Next1(head)) = Dist(headVis, head) + 1
        BY <3>2, <3>3, RingArithmetic DEF TypeOK
      <3>5. /\ Dist(Next1(head), tail) = Dist(head, tail) - 1
            /\ Dist(Next1(head), tailVis) = Dist(head, tailVis) - 1
        BY <3>1, <3>3, RingArithmetic DEF TypeOK
      <3> QED BY <3>1, <3>2, <3>4, <3>5 DEF OrderInv
    <2> QED BY <2>1, <2>2, <2>3
  <1>11. CASE WaitPredicate
    BY <1>11 DEF WaitPredicate, TypeOK, MutexInv, PushInv, OrderInv, PopInv
  <1>12. CASE WaitBlock
    BY <1>12 DEF WaitBlock, TypeOK, MutexInv, PushInv, OrderInv, PopInv
  <1>13. CASE WaitTimeout \/ WaitSpuriousWakeup
    BY <1>13 DEF WaitTimeout, WaitSpuriousWakeup, TypeOK, MutexInv, PushInv, OrderInv, PopInv
  <1>14. CASE HeadVisible
    <2>1. headVis # head /\ headVis' = Next1(headVis) /\ UNCHANGED <<head, tail, tailVis>>
      BY <1>14 DEF HeadVisible
    <2>2. TypeOK'
      BY <1>14, RingArithmetic DEF HeadVisible, TypeOK
    <2>3. MutexInv' /\ PopInv'
      BY <1>14 DEF HeadVisible, TypeOK, MutexInv, PopInv
    <2>4. /\ Dist(headVis, head) \in 0 .. N - 1 /\ Dist(headVis, tail) \in 0 .. N - 1
          /\ Dist(head, tail) \in 0 .. N - 1 /\ Dist(headVis, head) > 0
      BY <2>1, RingArithmetic DEF TypeOK
    <2>5. headVis # tail
      <3>1. Dist(tail, tail) = 0
        BY RingArithmetic DEF TypeOK
      <3> QED BY <2>4, <3>1 DEF OrderInv
    <2>6. /\ Dist(Next1(headVis), head) = Dist(headVis, head) - 1
          /\ Dist(Next1(headVis), tail) = Dist(headVis, tail) - 1
      BY <2>1, <2>5, RingArithmetic DEF TypeOK
    <2>7. OrderInv'
      BY <2>1, <2>4, <2>6 DEF OrderInv
    <2>8. PushInv'
      BY <1>14, <2>1, <2>4, <2>6 DEF HeadVisible, TypeOK, PushInv
    <2> QED BY <2>2, <2>3, <2>7, <2>8
  <1>15. CASE TailVisible
    <2>1. tailVis # tail /\ tailVis' = Next1(tailVis) /\ UNCHANGED <<head, tail, headVis>>
      BY <1>15 DEF TailVisible
    <2>2. TypeOK'
      BY <1>15, RingArithmetic DEF TailVisible, TypeOK
    <2>3. MutexInv' /\ PushInv'
      BY <1>15 DEF TailVisible, TypeOK, MutexInv, PushInv
    <2>4. /\ Dist(head, tailVis) \in 0 .. N - 1 /\ Dist(tailVis, tail) \in 0 .. N - 1
          /\ Dist(head, tail) \in 0 .. N - 1 /\ Dist(tailVis, tail) > 0
      BY <2>1, RingArithmetic DEF TypeOK
    <2>5. Dist(head, Next1(tailVis)) = Dist(head, tailVis) + 1
      BY <2>4, RingArithmetic DEF TypeOK, OrderInv
    <2>6. Dist(Next1(tailVis), tail) = Dist(tailVis, tail) - 1
      BY <2>1, RingArithmetic DEF TypeOK
    <2>7. OrderInv'
      BY <2>1, <2>4, <2>5, <2>6 DEF OrderInv
    <2>8. head # Next1(tailVis)
      <3>1. Dist(head, head) = 0
        BY RingArithmetic DEF TypeOK
      <3> QED BY <2>4, <2>5, <3>1
    <2>9. PopInv'
      BY <1>15, <2>8 DEF TailVisible, TypeOK, PopInv
    <2> QED BY <2>2, <2>3, <2>7, <2>9
  <1>16. CASE UNCHANGED vars
    BY <1>16 DEF vars, TypeOK, MutexInv, PushInv, OrderInv, PopInv
  <1> QED
    BY <1>1, <1>2, <1>3, <1>4, <1>5, <1>6, <1>7, <1>8, <1>9, <1>10, <1>11, <1>12, <1>13,
       <1>14, <1>15, <1>16
    DEF Next, ProducerNext, ConsumerNext

\* The inductive invariant holds in every reachable state.
LEMMA Invariant == Spec => []IInv
  BY InitIInv, NextIInv, PTL DEF Spec

\* Every state of the ring, the two stale views and the threads is of its
\* type: in particular the indices stay inside the buffer.
THEOREM TypeCorrect == Spec => []TypeOK
  <1>1. IInv => TypeOK
    BY DEF IInv
  <1> QED BY Invariant, <1>1, PTL

\* No slot is written while it is read or written by another thread.
THEOREM NoRace == Spec => []NoSlotRace
  <1>1. IInv => NoSlotRace
    <2> SUFFICES ASSUME IInv, NEW p \in Producers, ppc[p] = "write"
                 PROVE  /\ cpc = "read" => ptail[p] # head
                        /\ \A r \in Producers \ {p} : ppc[r] = "write" => ptail[r] # ptail[p]
      BY DEF NoSlotRace
    <2>1. cpc = "read" => ptail[p] # head
      <3>1. cpc = "read" => Dist(head, tailVis) > 0
        BY RingArithmetic DEF IInv, TypeOK, PopInv
      <3>2. Dist(tailVis, tail) \in Nat /\ Dist(head, tailVis) \in Nat /\ Dist(head, head) = 0
        BY RingArithmetic DEF IInv, TypeOK
      <3>3. ptail[p] = tail
        BY DEF IInv, PushInv
      <3> QED BY <3>1, <3>2, <3>3 DEF IInv, OrderInv
    <2>2. \A r \in Producers \ {p} : ppc[r] # "write"
      BY QueueAssumption DEF IInv, MutexInv
    <2> QED BY <2>1, <2>2
  <1> QED BY Invariant, <1>1, PTL

-----------------------------------------------------------------------------
(***************************************************************************)
(* The refinement.  A step of EventQueue that changes neither the slots    *)
(* between head_ and tail_ nor result is a stuttering step of the FIFO     *)
(* queue; the three others are PushStore, PopAdvance and the PopCheck that *)
(* gives up.                                                               *)
(***************************************************************************)
\* The slots between head_ and tail_ are slots of the buffer, none of them is
\* the one at tail_, and they follow one another from head_ on.
LEMMA RingSlots ==
  ASSUME NEW h \in Slots, NEW t \in Slots
  PROVE  /\ \A i \in 1 .. Dist(h, t) : Wrap(h + i - 1) \in Slots /\ Wrap(h + i - 1) # t
         /\ Wrap(h + Dist(h, t)) = t
         /\ \A i \in 1 .. Dist(h, t) : Wrap(Next1(h) + i - 1) = Wrap(h + i)
         /\ Wrap(h) = h
  BY QueueAssumption DEF Slots, Wrap, Next1, Dist

\* A function on 1 .. n is a sequence of length n.
LEMMA SeqOfFunction ==
  ASSUME NEW S, NEW n \in Nat, NEW f \in [1 .. n -> S]
  PROVE  f \in Seq(S) /\ Len(f) = n
  OBVIOUS

\* A sequence that extends another by one element is an Append.
LEMMA AppendFunction ==
  ASSUME NEW S, NEW n \in Nat, NEW f \in [1 .. n -> S], NEW g \in [1 .. n + 1 -> S],
         \A i \in 1 .. n : g[i] = f[i]
  PROVE  g = Append(f, g[n + 1])
  OBVIOUS

\* A sequence shifted by one is the Tail of the other.
LEMMA TailFunction ==
  ASSUME NEW S, NEW n \in Nat \ {0}, NEW f \in [1 .. n -> S], NEW g \in [1 .. n - 1 -> S],
         \A i \in 1 .. n - 1 : g[i] = f[i + 1]
  PROVE  /\ f # <<>> /\ Head(f) = f[1]
         /\ g = Tail(f)
  OBVIOUS

\* The contents of the ring are a sequence of what the buffer holds.
LEMMA RingType ==
  ASSUME NEW S, NEW b \in [Slots -> S], NEW h \in Slots, NEW t \in Slots
  PROVE  [i \in 1 .. Dist(h, t) |-> b[Wrap(h + i - 1)]] \in [1 .. Dist(h, t) -> S]
  <1>1. \A i \in 1 .. Dist(h, t) : Wrap(h + i - 1) \in Slots
    BY RingSlots
  <1> QED BY <1>1

\* A step that leaves the indices alone and writes no slot in use leaves the
\* contents alone.
LEMMA ContentsUnchanged ==
  ASSUME TypeOK, UNCHANGED <<head, tail>>,
         \A s \in Slots : s # tail => buffer'[s] = buffer[s]
  PROVE  Contents' = Contents
  <1>1. \A i \in 1 .. Dist(head, tail) :
          Wrap(head + i - 1) \in Slots /\ Wrap(head + i - 1) # tail
    BY RingSlots DEF TypeOK
  <1> QED BY <1>1 DEF Contents

\* push() and pop_wait() implement the bounded FIFO queue, for every N.
THEOREM Refinement == Spec => ImplementsFifo
  <1>1. Init => Fifo!FifoInit
    <2> SUFFICES ASSUME Init PROVE Contents = <<>> /\ result = NoEvent
      BY DEF Fifo!FifoInit
    <2>1. Dist(head, tail) = 0
      BY QueueAssumption DEF Init, Dist
    <2> QED BY <2>1 DEF Init, Contents
  <1>2. IInv /\ [Next]_vars => [Fifo!FifoNext]_(Fifo!fifoVars)
    <2> SUFFICES ASSUME IInv, [Next]_vars PROVE [Fifo!FifoNext]_(Fifo!fifoVars)
      OBVIOUS
    <2> USE DEF IInv, producerVars, consumerVars
    <2>1. ASSUME NEW p \in Producers, PushWrite(p) PROVE UNCHANGED Fifo!fifoVars
      <3>1. Contents' = Contents
        BY <2>1, ContentsUnchanged DEF PushWrite, PushInv, TypeOK
      <3> QED BY <2>1, <3>1 DEF PushWrite, Fifo!fifoVars
    <2>2. ASSUME NEW p \in Producers, PushStore(p) PROVE Fifo!Store(pevt[p])
      <3>1. /\ tail' = Next1(tail) /\ UNCHANGED <<head, buffer, result>>
            /\ buffer[tail] = pevt[p] /\ Dist(headVis, tail) < N - 1
        BY <2>2 DEF PushStore, PushInv
      <3>2. Dist(head, tail) \in 0 .. N - 1 /\ Dist(headVis, head) \in 0 .. N - 1
            /\ Dist(headVis, tail) \in 0 .. N - 1
        BY RingArithmetic DEF TypeOK
      <3>3. Dist(head, tail) < N - 1
        BY <3>1, <3>2, QueueAssumption DEF OrderInv
      <3>4. Dist(head, tail') = Dist(head, tail) + 1
        BY <3>1, <3>3, RingArithmetic DEF TypeOK
      <3>5. TypeOK'
        BY NextIInv DEF IInv
      <3>6. /\ Contents \in [1 .. Dist(head, tail) -> Events \cup {NoEvent}]
            /\ Contents' \in [1 .. Dist(head, tail) + 1 -> Events \cup {NoEvent}]
        <4>1. Contents' \in [1 .. Dist(head', tail') -> Events \cup {NoEvent}]
          BY <3>5, RingType DEF Contents, TypeOK
        <4>2. Contents \in [1 .. Dist(head, tail) -> Events \cup {NoEvent}]
          BY RingType DEF Contents, TypeOK
        <4> QED BY <3>1, <3>4, <4>1, <4>2
      <3>7. \A i \in 1 .. Dist(head, tail) : Contents'[i] = Contents[i]
        BY <3>1, <3>2, <3>4 DEF Contents
      <3>8. Contents'[Dist(head, tail) + 1] = pevt[p]
        <4>1. Wrap(head + (Dist(head, tail) + 1) - 1) = tail
          BY <3>2, RingSlots DEF TypeOK
        <4> QED BY <3>1, <3>2, <3>4, <4>1 DEF Contents
      <3>9. Contents' = Append(Contents, pevt[p])
        BY <3>2, <3>6, <3>7, <3>8, AppendFunction
      <3>10. Len(Contents) < N - 1
        BY <3>2, <3>3, <3>6, SeqOfFunction
      <3> QED BY <3>1, <3>9, <3>10 DEF Fifo!Store
    <2>3. CASE PopAdvance
      <3>1. /\ head' = Next1(head) /\ UNCHANGED <<tail, buffer>>
            /\ result' = buffer[head] /\ head # tailVis
        BY <2>3 DEF PopAdvance, PopInv
      <3>2. /\ Dist(head, tail) \in 0 .. N - 1 /\ Dist(tailVis, tail) \in 0 .. N - 1
            /\ Dist(head, tailVis) \in 0 .. N - 1 /\ Dist(head, tailVis) > 0
            /\ Dist(head, head) = 0
        BY <3>1, RingArithmetic DEF TypeOK
      <3>3. Dist(head, tail) \in Nat \ {0} /\ head # tail
        BY <3>2 DEF OrderInv
      <3>4. Dist(head', tail) = Dist(head, tail) - 1
        BY <3>1, <3>3, RingArithmetic DEF TypeOK
      <3>5. TypeOK'
        BY NextIInv DEF IInv
      <3>6. /\ Contents \in [1 .. Dist(head, tail) -> Events \cup {NoEvent}]
            /\ Contents' \in [1 .. Dist(head, tail) - 1 -> Events \cup {NoEvent}]
        <4>1. Contents' \in [1 .. Dist(head', tail') -> Events \cup {NoEvent}]
          BY <3>5, RingType DEF Contents, TypeOK
        <4>2. Contents \in [1 .. Dist(head, tail) -> Events \cup {NoEvent}]
          BY RingType DEF Contents, TypeOK
        <4> QED BY <3>1, <3>4, <4>1, <4>2
      <3>7. \A i \in 1 .. Dist(head, tail) - 1 : Contents'[i] = Contents[i + 1]
        <4>1. \A i \in 1 .. Dist(head, tail) - 1 :
                Wrap(head' + i - 1) = Wrap(head + (i + 1) - 1)
          <5>1. \A i \in 1 .. Dist(head, tail) : Wrap(Next1(head) + i - 1) = Wrap(head + i)
            BY RingSlots DEF TypeOK
          <5> QED BY <3>1, <3>3, <5>1 DEF TypeOK, Slots
        <4> QED BY <3>1, <3>3, <3>4, <4>1 DEF Contents
      <3>8. Contents[1] = buffer[head]
        <4>1. Wrap(head + 1 - 1) = head
          BY RingSlots, QueueAssumption DEF TypeOK, Slots
        <4> QED BY <3>3, <4>1 DEF Contents
      <3>9. Contents # <<>> /\ Head(Contents) = Contents[1] /\ Contents' = Tail(Contents)
        BY <3>3, <3>6, <3>7, TailFunction
      <3>10. Fifo!Take
        BY <3>1, <3>8, <3>9 DEF Fifo!Take
      <3> QED BY <3>10 DEF Fifo!FifoNext
    <2>4. CASE PopCheck
      <3>1. Contents' = Contents
        BY <2>4, ContentsUnchanged DEF PopCheck
      <3>2. result' = result \/ result' = NoEvent
        BY <2>4 DEF PopCheck
      <3> QED BY <3>1, <3>2 DEF Fifo!FifoNext, Fifo!TakeNothing, Fifo!fifoVars
    <2>5. ASSUME UNCHANGED <<buffer, head, tail, result>> PROVE UNCHANGED Fifo!fifoVars
      <3>1. Contents' = Contents
        BY <2>5, ContentsUnchanged
      <3> QED BY <2>5, <3>1 DEF Fifo!fifoVars
    <2>6. ASSUME NEW p \in Producers, Lock(p) \/ Unlock(p) \/ PushNotify(p)
                                      \/ \E e \in Events : PushCheck(p, e)
          PROVE  UNCHANGED <<buffer, head, tail, result>>
      BY <2>6 DEF Lock, Unlock, PushNotify, PushCheck
    <2>7. CASE \/ PopWait \/ PopRead \/ WaitPredicate \/ WaitBlock \/ WaitTimeout
               \/ WaitSpuriousWakeup \/ HeadVisible \/ TailVisible \/ UNCHANGED vars
      <3>1. UNCHANGED <<buffer, head, tail, result>>
        BY <2>7 DEF PopWait, PopRead, WaitPredicate, WaitBlock, WaitTimeout,
                    WaitSpuriousWakeup, HeadVisible, TailVisible, vars
      <3> QED BY <2>5, <3>1
    <2>8. ASSUME NEW p \in Producers, PushStore(p) PROVE Fifo!FifoNext
      <3>1. pevt[p] \in Events
        BY <2>8 DEF PushStore, PushInv
      <3> QED BY <2>2, <2>8, <3>1 DEF Fifo!FifoNext
    <2> QED
      BY <2>1, <2>3, <2>4, <2>5, <2>6, <2>7, <2>8 DEF Next, ProducerNext, ConsumerNext
  <1> QED BY <1>1, <1>2, Invariant, PTL DEF Spec, ImplementsFifo, Fifo!FifoSafety
=============================================================================
