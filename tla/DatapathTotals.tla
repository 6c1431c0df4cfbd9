--------------------------- MODULE DatapathTotals ---------------------------
(***************************************************************************)
(* Datapath's totals, for every set of frames: what the topic has of a     *)
(* flow's packets and bytes and what the table still has of them add up to *)
(* what the wire carried, from step to step.                               *)
(***************************************************************************)
EXTENDS DatapathProofs, Sums

\* The flows that frames can belong to.
Flows == {FiveTuple(f) : f \in Frames}

\* The positions of packet_count and byte_count in a record.
Counters == {11, 12}
Count(state, n) == IF n = 11 THEN state.packet_count ELSE state.byte_count

\* A consumer takes message m to be about flow k.
About(m, k) ==
  /\ m.value.payload[4] = ip_array_to_string(k.src_ip)
  /\ m.value.payload[5] = ip_array_to_string(k.dst_ip)
  /\ m.value.payload[6] = k.src_port /\ m.value.payload[7] = k.dst_port
  /\ m.value.payload[8] = k.protocol

\* What message m and frame o add to the totals of flow k.
EndPart(m, k, n) ==
  IF m.value.payload[2] = "FLOW_END" /\ About(m, k) THEN m.value.payload[n] ELSE 0
FramePart(o, k, n) == IF o.flow = k THEN (IF n = 11 THEN 1 ELSE o.bytes) ELSE 0

\* The totals of flow k: on the topic, on the wire, and still in the table.
Ended(lg, k, n)   == SumOver([i \in DOMAIN lg |-> EndPart(lg[i], k, n)], DOMAIN lg)
Carried(wr, k, n) == SumOver([v \in DOMAIN wr |-> FramePart(wr[v], k, n)], DOMAIN wr)
Open(fl, k, n)    == IF k \in DOMAIN fl THEN Count(fl[k], n) ELSE 0

\* What an event adds to the total of flow k, and messages of which at most
\* one, the j-th, adds p.
Share(type, state, k, n) == IF type = "End" /\ state.key = k THEN Count(state, n) ELSE 0
OnlyOne(msgs, c, j, p, k, n) ==
  /\ p = 0 \/ j \in 1 .. c
  /\ \A i \in 1 .. c : EndPart(msgs[i], k, n) = IF i = j THEN p ELSE 0

AllCounts(lg, k, n) == \A i \in DOMAIN lg : EndPart(lg[i], k, n) \in Nat
LogCounts(lg) == \A k \in Flows, n \in Counters : AllCounts(lg, k, n)
TableCounts(fl) == \A k \in DOMAIN fl : k \in Flows /\ \A n \in Counters : Count(fl[k], n) \in Nat
\* The topic and the table have what the wire carried.
Balanced(lg, fl, wr) ==
  \A k \in Flows, n \in Counters : Ended(lg, k, n) + Open(fl, k, n) = Carried(wr, k, n)

\* The inductive invariant: the equation between the three, the types of what
\* is added, and an empty table after the drain.
TotalInv ==
  /\ TableCounts(flows) /\ LogCounts(log)
  /\ draining => DOMAIN flows = {} /\ dpc = "idle"
  /\ Serializable(schema) => Balanced(log, flows, wire)

\* A consumer's view of a flow is one to one.
LEMMA TextIsFlow ==
  ASSUME NEW k \in Flows, NEW l \in Flows,
         ip_array_to_string(k.src_ip) = ip_array_to_string(l.src_ip),
         ip_array_to_string(k.dst_ip) = ip_array_to_string(l.dst_ip),
         k.src_port = l.src_port, k.dst_port = l.dst_port, k.protocol = l.protocol
  PROVE  k = l
  <1>1. PICK f \in Frames : k = FiveTuple(f)
    BY DEF Flows
  <1>2. PICK g \in Frames : l = FiveTuple(g)
    BY DEF Flows
  <1>3. ASSUME NEW h \in Frames, NEW a \in {h.ip.src, h.ip.dst}
        PROVE  Mapped(h, a) = <<Mapped(h, a)[1], Mapped(h, a)[2]>>
    <2>1. a = <<a[1], a[2]>>
      BY FrameAssumption, Zenon
    <2> QED BY <2>1 DEF Mapped
  <1>4. ASSUME NEW a, NEW b, a = <<a[1], a[2]>>, b = <<b[1], b[2]>>,
               ip_array_to_string(a) = ip_array_to_string(b)
        PROVE  a = b
    BY <1>4 DEF ip_array_to_string, is_ipv4_mapped
  <1>5. /\ k.src_ip = <<k.src_ip[1], k.src_ip[2]>> /\ k.dst_ip = <<k.dst_ip[1], k.dst_ip[2]>>
        /\ l.src_ip = <<l.src_ip[1], l.src_ip[2]>> /\ l.dst_ip = <<l.dst_ip[1], l.dst_ip[2]>>
    <2>1. k.src_ip = Mapped(f, f.ip.src) /\ k.dst_ip = Mapped(f, f.ip.dst)
      BY <1>1 DEF FiveTuple
    <2>2. l.src_ip = Mapped(g, g.ip.src) /\ l.dst_ip = Mapped(g, g.ip.dst)
      BY <1>2 DEF FiveTuple
    <2> QED BY <1>3, <2>1, <2>2, Zenon
  <1>6. k.src_ip = l.src_ip /\ k.dst_ip = l.dst_ip
    BY <1>4, <1>5, Zenon
  <1> QED BY <1>1, <1>2, <1>6 DEF FiveTuple

\* What an event's message adds to a flow's total.
LEMMA EventPart ==
  ASSUME NEW type \in {"Start", "End", "Stats"}, NEW state, NEW now, NEW reason,
         NEW k \in Flows, state.key \in Flows, NEW n \in Counters
  PROVE  EndPart(Message(Event(type, state, now, reason)), k, n)
           = Share(type, state, k, n)
  <1>0. PICK evt : evt = Event(type, state, now, reason)
    OBVIOUS
  <1>1. evt.type = type /\ evt.state = state
    BY <1>0 DEF Event
  <1>2. PICK p : p = Record(evt)
    OBVIOUS
  <1>3. PICK l \in Flows : l = state.key
    OBVIOUS
  <1>4. PICK symbol : symbol = EventTypeSymbol(evt.type) /\ (symbol = "FLOW_END" <=> type = "End")
    BY <1>1 DEF EventTypeSymbol
  <1>5. /\ p[2] = symbol
        /\ p[4] = ip_array_to_string(l.src_ip) /\ p[5] = ip_array_to_string(l.dst_ip)
        /\ p[6] = l.src_port /\ p[7] = l.dst_port /\ p[8] = l.protocol
        /\ p[11] = state.packet_count /\ p[12] = state.byte_count
    BY <1>1, <1>2, <1>3, <1>4 DEF Record
  <1>6. PICK m : m = Message(evt) /\ m.value.payload = p
    <2>1. Message(evt).value.payload = p
      BY <1>2 DEF Message, serialize
    <2> QED BY <2>1, Zenon
  <1>7. About(m, k) <=> l = k
    <2>1. About(m, k) => l = k
      BY <1>5, <1>6, TextIsFlow, Zenon DEF About
    <2>2. l = k => About(m, k)
      BY <1>5, <1>6, Zenon DEF About
    <2> QED BY <2>1, <2>2
  <1>8. p[n] = Count(state, n)
    BY <1>5 DEF Counters, Count
  <1>9. EndPart(m, k, n) = Share(type, state, k, n)
    BY <1>3, <1>4, <1>5, <1>6, <1>7, <1>8 DEF EndPart, Share
  <1> QED BY <1>0, <1>6, <1>9, Zenon

\* A topic with more messages, of which at most one, the j-th, counts.
LEMMA EndedExtend ==
  ASSUME NEW lg, NEW new, NEW c \in Nat, NEW nx, Extends(nx, lg, new, c), NEW k, NEW n,
         AllCounts(lg, k, n), NEW p \in Nat, NEW j, OnlyOne(new, c, j, p, k, n)
  PROVE  /\ Ended(nx, k, n) = Ended(lg, k, n) + p /\ Ended(lg, k, n) \in Nat
         /\ AllCounts(nx, k, n)
  <1>0. /\ p = 0 \/ j \in 1 .. c
        /\ \A i \in 1 .. c : EndPart(new[i], k, n) = IF i = j THEN p ELSE 0
        /\ \A i \in DOMAIN lg : EndPart(lg[i], k, n) \in Nat
    BY Zenon DEF OnlyOne, AllCounts
  <1>1. PICK a \in Nat : a = Len(lg)
    BY DEF Extends
  <1>2. DOMAIN lg = 1 .. a /\ DOMAIN nx = 1 .. a + c
    BY <1>1, Zenon DEF Extends
  <1>3. \A i \in 1 .. a : nx[i] = lg[i]
    BY <1>1, Zenon DEF Extends
  <1>4. \A i \in 1 .. c : nx[a + i] = new[i]
    BY <1>1, Zenon DEF Extends
  <1>5. PICK f, g : /\ f = [i \in DOMAIN lg |-> EndPart(lg[i], k, n)]
                    /\ g = [i \in DOMAIN nx |-> EndPart(nx[i], k, n)]
    OBVIOUS
  <1>6. \A i \in 1 .. a : f[i] \in Nat /\ g[i] = f[i]
    <2>1. ASSUME NEW i \in 1 .. a PROVE f[i] \in Nat /\ g[i] = f[i]
      <3>1. i \in DOMAIN lg /\ i \in DOMAIN nx
        BY <1>2
      <3>2. f[i] = EndPart(lg[i], k, n) /\ g[i] = EndPart(nx[i], k, n)
        BY <1>5, <3>1
      <3> QED BY <1>0, <1>3, <3>1, <3>2, Zenon
    <2> QED BY <2>1
  <1>7. \A i \in 1 .. c : g[a + i] = IF i = j THEN p ELSE 0
    <2>1. ASSUME NEW i \in 1 .. c PROVE g[a + i] = IF i = j THEN p ELSE 0
      <3>1. a + i \in DOMAIN nx
        BY <1>2
      <3>2. g[a + i] = EndPart(nx[a + i], k, n)
        BY <1>5, <3>1
      <3> QED BY <1>0, <1>4, <3>2, Zenon
    <2> QED BY <2>1
  <1>8. SumOver(g, 1 .. a + c) = SumOver(f, 1 .. a) + p
    <2>1. GoesOn(f, g, a, c, j, p)
      BY <1>0, <1>6, <1>7, Zenon DEF GoesOn
    <2> QED BY <2>1, SumExtend
  <1>9. SumOver(f, 1 .. a) \in Nat
    <2>1. IsFiniteSet(1 .. a)
      BY FS_Interval
    <2> QED BY <1>6, <2>1, SumRemove
  <1>10. ASSUME NEW i \in DOMAIN nx PROVE EndPart(nx[i], k, n) \in Nat
    <2>1. g[i] = EndPart(nx[i], k, n)
      BY <1>5
    <2>2. CASE i \in 1 .. a
      BY <1>6, <2>1, <2>2
    <2>3. CASE i \notin 1 .. a
      <3>1. i - a \in 1 .. c /\ i = a + (i - a)
        BY <1>2, <1>10, <2>3
      <3>2. g[i] = IF i - a = j THEN p ELSE 0
        BY <1>7, <3>1, Zenon
      <3> QED BY <2>1, <3>2
    <2> QED BY <2>2, <2>3
  <1>11. Ended(nx, k, n) = SumOver(g, 1 .. a + c) /\ Ended(lg, k, n) = SumOver(f, 1 .. a)
    BY <1>2, <1>5, Zenon DEF Ended
  <1>12. AllCounts(nx, k, n)
    BY <1>10, Zenon DEF AllCounts
  <1> QED BY <1>8, <1>9, <1>11, <1>12

\* A wire with one more frame.
LEMMA CarriedAppend ==
  ASSUME NEW wr \in Seq(Observations), NEW o \in Observations, NEW k, NEW n \in Counters
  PROVE  /\ Carried(Append(wr, o), k, n) = Carried(wr, k, n) + FramePart(o, k, n)
         /\ Carried(wr, k, n) \in Nat /\ FramePart(o, k, n) \in Nat
  <1>1. ASSUME NEW x \in Observations PROVE FramePart(x, k, n) \in Nat
    <2>1. PICK f \in Frames : x = Observed(f)
      BY <1>1 DEF Observations
    <2>2. x.bytes \in Nat
      BY <2>1, FrameAssumption DEF Observed, ParsedPacket
    <2> QED BY <2>2 DEF FramePart
  <1>2. PICK a \in Nat : a = Len(wr)
    OBVIOUS
  <1>3. PICK wx : wx = Append(wr, o)
    OBVIOUS
  <1>4. /\ DOMAIN wr = 1 .. a /\ DOMAIN wx = 1 .. a + 1 /\ wx[a + 1] = o
        /\ \A i \in 1 .. a : wx[i] = wr[i] /\ wr[i] \in Observations
    BY <1>2, <1>3
  <1>5. PICK f, g : /\ f = [v \in DOMAIN wr |-> FramePart(wr[v], k, n)]
                    /\ g = [v \in DOMAIN wx |-> FramePart(wx[v], k, n)]
    OBVIOUS
  <1>6. \A i \in 1 .. a : f[i] \in Nat /\ g[i] = f[i]
    <2>1. ASSUME NEW i \in 1 .. a PROVE f[i] \in Nat /\ g[i] = f[i]
      <3>1. i \in DOMAIN wr /\ i \in DOMAIN wx /\ wx[i] = wr[i] /\ wr[i] \in Observations
        BY <1>4
      <3>2. f[i] = FramePart(wr[i], k, n) /\ g[i] = FramePart(wx[i], k, n)
        BY <1>5, <3>1
      <3> QED BY <1>1, <3>1, <3>2, Zenon
    <2> QED BY <2>1
  <1>7. PICK p \in Nat : p = FramePart(o, k, n)
    BY <1>1
  <1>8. \A i \in 1 .. 1 : g[a + i] = IF i = 1 THEN p ELSE 0
    <2>1. a + 1 \in DOMAIN wx
      BY <1>4
    <2>2. g[a + 1] = p
      BY <1>4, <1>5, <1>7, <2>1
    <2> QED BY <2>2
  <1>9. SumOver(g, 1 .. a + 1) = SumOver(f, 1 .. a) + p
    <2>1. 1 \in Nat /\ 1 \in 1 .. 1
      OBVIOUS
    <2>2. GoesOn(f, g, a, 1, 1, p)
      BY <1>6, <1>8, <2>1, Zenon DEF GoesOn
    <2> QED BY <2>2, SumExtend
  <1>10. SumOver(f, 1 .. a) \in Nat
    <2>1. IsFiniteSet(1 .. a)
      BY FS_Interval
    <2> QED BY <1>6, <2>1, SumRemove
  <1>11. Carried(wx, k, n) = SumOver(g, 1 .. a + 1) /\ Carried(wr, k, n) = SumOver(f, 1 .. a)
    BY <1>4, <1>5, Zenon DEF Carried
  <1> QED BY <1>3, <1>7, <1>9, <1>10, <1>11

\* The order that a set is enumerated in has each element once.
LEMMA SetToSeqOnce ==
  ASSUME NEW S, IsFiniteSet(S)
  PROVE  SetToSeq(S) \in Bijection(1 .. Cardinality(S), S)
  <1>1. Cardinality(S) \in Nat /\ ExistsBijection(1 .. Cardinality(S), S)
    BY FS_CardinalityType
  <1>2. \E f \in [1 .. Cardinality(S) -> S] : IsInjective(f)
    BY <1>1 DEF ExistsBijection, Bijection, Injection, IsInjective
  <1>3. PICK q : q = SetToSeq(S)
    OBVIOUS
  <1>4. q \in [1 .. Cardinality(S) -> S] /\ IsInjective(q)
    BY <1>2, <1>3 DEF SetToSeq
  <1>5. q \in Injection(1 .. Cardinality(S), S)
    BY <1>4 DEF Injection
  <1>6. IsFiniteSet(1 .. Cardinality(S)) /\ Cardinality(1 .. Cardinality(S)) = Cardinality(S)
    BY <1>1, FS_Interval
  <1>7. q \in Surjection(1 .. Cardinality(S), S)
    BY <1>5, <1>6, FS_Injection
  <1> QED BY <1>3, <1>5, <1>7 DEF Bijection

\* The total of a flow after events of which the j-th may end it.
LEMMA PublishTotal ==
  ASSUME LogInv, Serializable(schema), LogCounts(log), NEW evts, Len(evts) \in Nat, Publish(evts),
         NEW k \in Flows, NEW n \in Counters, NEW p \in Nat, NEW j, p = 0 \/ j \in 1 .. Len(evts),
         \A i \in 1 .. Len(evts) : EndPart(Message(evts[i]), k, n) = IF i = j THEN p ELSE 0
  PROVE  /\ Ended(log', k, n) = Ended(log, k, n) + p /\ Ended(log, k, n) \in Nat
         /\ AllCounts(log', k, n)
  <1>1. PICK new : /\ Extends(log', log, new, Len(evts))
                   /\ \A i \in 1 .. Len(evts) : new[i] = Message(evts[i])
    BY PublishExtends, Zenon
  <1>2. OnlyOne(new, Len(evts), j, p, k, n)
    BY <1>1, Zenon DEF OnlyOne
  <1>3. AllCounts(log, k, n)
    BY Zenon DEF LogCounts
  <1> QED BY <1>1, <1>2, <1>3, EndedExtend

\* One event.
LEMMA OneTotal ==
  ASSUME LogInv, Serializable(schema), LogCounts(log), NEW type \in {"Start", "End", "Stats"},
         NEW state, NEW now, NEW reason, Publish(<<Event(type, state, now, reason)>>),
         state.key \in Flows, \A n \in Counters : Count(state, n) \in Nat
  PROVE  /\ LogCounts(log')
         /\ \A k \in Flows, n \in Counters :
              /\ Ended(log, k, n) \in Nat
              /\ Ended(log', k, n) = Ended(log, k, n) + Share(type, state, k, n)
  <1>1. PICK e : e = Event(type, state, now, reason)
    OBVIOUS
  <1>2. PICK evts : evts = <<e>>
    OBVIOUS
  <1>3. Len(evts) = 1 /\ Len(evts) \in Nat /\ evts[1] = e /\ 1 \in 1 .. Len(evts)
        /\ \A i \in 1 .. Len(evts) : i = 1
    BY <1>2
  <1>4. Publish(evts)
    BY <1>1, <1>2, Zenon
  <1>5. ASSUME NEW k \in Flows, NEW n \in Counters
        PROVE  /\ Ended(log, k, n) \in Nat
               /\ Ended(log', k, n) = Ended(log, k, n) + Share(type, state, k, n)
               /\ AllCounts(log', k, n)
    <2>1. PICK p \in Nat : p = Share(type, state, k, n)
      <3>1. Count(state, n) \in Nat /\ 0 \in Nat
        OBVIOUS
      <3> QED BY <3>1 DEF Share
    <2>2. EndPart(Message(e), k, n) = p
      BY <1>1, <2>1, EventPart
    <2>3. \A i \in 1 .. Len(evts) : EndPart(Message(evts[i]), k, n) = IF i = 1 THEN p ELSE 0
      BY <1>3, <2>2, Zenon
    <2>4. /\ Ended(log', k, n) = Ended(log, k, n) + p /\ Ended(log, k, n) \in Nat
          /\ AllCounts(log', k, n)
      BY <1>3, <1>4, <2>3, PublishTotal, Zenon
    <2> QED BY <2>1, <2>4, Zenon
  <1>6. LogCounts(log')
    BY <1>5, Zenon DEF LogCounts
  <1> QED BY <1>5, <1>6, Zenon

\* An event of every flow in the table: each flow has one.
LEMMA AllTotals ==
  ASSUME LogInv, TableInv, Serializable(schema), LogCounts(log), TableCounts(flows),
         NEW type \in {"Start", "End", "Stats"}, NEW c,
         c = Len(SetToSeq(DOMAIN flows)) \/ c = Cardinality(DOMAIN flows),
         Publish([i \in 1 .. c |-> Event(type, flows[SetToSeq(DOMAIN flows)[i]], WallClock, "IdleTimeout")])
  PROVE  /\ LogCounts(log')
         /\ \A k \in Flows, n \in Counters :
              /\ Ended(log, k, n) \in Nat /\ Open(flows, k, n) \in Nat
              /\ Ended(log', k, n) = Ended(log, k, n) +
                   (IF type = "End" THEN Open(flows, k, n) ELSE 0)
  <1>1. PICK keys : keys = SetToSeq(DOMAIN flows)
    OBVIOUS
  <1>2. PICK evts : evts = [i \in 1 .. c |-> Event(type, flows[keys[i]], WallClock, "IdleTimeout")]
    OBVIOUS
  <1>3. /\ c \in Nat /\ (\A i \in 1 .. c : keys[i] \in DOMAIN flows)
        /\ (\A k \in DOMAIN flows : \E i \in 1 .. c : keys[i] = k)
        /\ \A i, j \in 1 .. c : keys[i] = keys[j] => i = j
    <2>1. /\ Cardinality(DOMAIN flows) \in Nat /\ Len(keys) = Cardinality(DOMAIN flows)
          /\ keys \in [1 .. Cardinality(DOMAIN flows) -> DOMAIN flows]
      BY <1>1, SetToSeqRange DEF TableInv
    <2>2. c = Cardinality(DOMAIN flows)
      BY <1>1, <2>1
    <2>3. keys \in Bijection(1 .. c, DOMAIN flows)
      BY <1>1, <2>2, SetToSeqOnce DEF TableInv
    <2> QED BY <2>1, <2>2, <2>3 DEF Bijection, Injection, Surjection, IsInjective
  <1>4. Len(evts) = c
    <2>1. PICK B : B = {Event(type, flows[keys[i]], WallClock, "IdleTimeout") : i \in 1 .. c}
      OBVIOUS
    <2>2. evts \in [1 .. c -> B]
      BY <1>2, <2>1
    <2> QED BY <1>3, <2>2
  <1>5. Publish(evts) /\ Len(evts) \in Nat
    BY <1>1, <1>2, <1>3, <1>4, Zenon
  <1>6. ASSUME NEW k \in Flows, NEW n \in Counters
        PROVE  /\ Ended(log, k, n) \in Nat /\ Open(flows, k, n) \in Nat
               /\ Ended(log', k, n) = Ended(log, k, n) +
                   (IF type = "End" THEN Open(flows, k, n) ELSE 0)
               /\ AllCounts(log', k, n)
    <2>1. Open(flows, k, n) \in Nat
      BY DEF Open, TableCounts
    <2>2. PICK p \in Nat : p = IF type = "End" THEN Open(flows, k, n) ELSE 0
      <3>1. 0 \in Nat
        OBVIOUS
      <3> QED BY <2>1, <3>1, Zenon
    <2>3. ASSUME NEW i \in 1 .. Len(evts)
          PROVE  EndPart(Message(evts[i]), k, n) =
                   IF type = "End" /\ keys[i] = k THEN Count(flows[k], n) ELSE 0
      <3>1. PICK l \in DOMAIN flows : l = keys[i]
        BY <1>3, <1>4, Zenon
      <3>2. evts[i] = Event(type, flows[l], WallClock, "IdleTimeout")
        BY <1>2, <1>4, <3>1
      <3>3. Entry(l, flows[l]) /\ l \in Flows
        BY Zenon DEF TableInv, TableCounts
      <3>4. flows[l].key = l
        BY <3>3 DEF Entry
      <3>5. EndPart(Message(evts[i]), k, n) = Share(type, flows[l], k, n)
        BY <3>2, <3>3, <3>4, EventPart
      <3> QED BY <3>1, <3>4, <3>5 DEF Share
    <2>4. \E j : /\ p = 0 \/ j \in 1 .. Len(evts)
                 /\ \A i \in 1 .. Len(evts) : EndPart(Message(evts[i]), k, n) = IF i = j THEN p ELSE 0
      <3>1. CASE k \in DOMAIN flows
        <4>1. PICK j \in 1 .. Len(evts) : keys[j] = k
          BY <1>3, <1>4, <3>1, Zenon
        <4>2. \A i \in 1 .. Len(evts) : keys[i] = k <=> i = j
          BY <1>3, <1>4, <4>1, Zenon
        <4>3. p = IF type = "End" THEN Count(flows[k], n) ELSE 0
          BY <2>2, <3>1 DEF Open
        <4>4. \A i \in 1 .. Len(evts) : EndPart(Message(evts[i]), k, n) = IF i = j THEN p ELSE 0
          BY <2>3, <4>2, <4>3, Zenon
        <4> QED BY <4>1, <4>4, Zenon
      <3>2. CASE k \notin DOMAIN flows
        <4>1. p = 0
          BY <2>2, <3>2 DEF Open
        <4>2. \A i \in 1 .. Len(evts) : EndPart(Message(evts[i]), k, n) = IF i = 0 THEN p ELSE 0
          BY <1>3, <1>4, <2>3, <3>2, <4>1, Zenon
        <4> QED BY <4>1, <4>2, Zenon
      <3> QED BY <3>1, <3>2
    <2>5. PICK j : /\ p = 0 \/ j \in 1 .. Len(evts)
                   /\ \A i \in 1 .. Len(evts) : EndPart(Message(evts[i]), k, n) = IF i = j THEN p ELSE 0
      BY <2>4, Zenon
    <2>6. /\ Ended(log', k, n) = Ended(log, k, n) + p /\ Ended(log, k, n) \in Nat
          /\ AllCounts(log', k, n)
      BY <1>5, <2>5, PublishTotal, Zenon
    <2> QED BY <2>1, <2>2, <2>6, Zenon
  <1>7. LogCounts(log')
    BY <1>6, Zenon DEF LogCounts
  <1> QED BY <1>6, <1>7, Zenon

\* A flow's total is a number.
LEMMA LogTotalType ==
  ASSUME LogInv, LogCounts(log), NEW k \in Flows, NEW n \in Counters
  PROVE  Ended(log, k, n) \in Nat
  <1>1. PICK A : log \in Seq(A)
    BY Zenon DEF LogInv, IsSeq
  <1>2. IsFiniteSet(DOMAIN log)
    <2>1. DOMAIN log = 1 .. Len(log) /\ Len(log) \in Nat
      BY <1>1
    <2> QED BY <2>1, FS_Interval
  <1>3. PICK f : f = [i \in DOMAIN log |-> EndPart(log[i], k, n)]
    OBVIOUS
  <1>4. \A i \in DOMAIN log : f[i] \in Nat
    BY <1>3 DEF LogCounts, AllCounts
  <1>5. SumOver(f, DOMAIN log) \in Nat
    BY <1>2, <1>4, SumRemove
  <1> QED BY <1>3, <1>5, Zenon DEF Ended

\* Nothing on the topic, in the table and on the wire.
LEMMA InitTotalInv == Init => TotalInv
  <1> SUFFICES ASSUME Init PROVE TotalInv
    OBVIOUS
  <1>1. DOMAIN flows = {} /\ DOMAIN log = {} /\ DOMAIN wire = {} /\ draining = FALSE
    BY DEF Init
  <1>2. TableCounts(flows) /\ LogCounts(log)
    BY <1>1 DEF TableCounts, LogCounts, AllCounts
  <1>3. \A f : SumOver(f, {}) = 0
    BY FS_EmptySet, SumStep
  <1>4. ASSUME NEW k \in Flows, NEW n \in Counters
        PROVE  Ended(log, k, n) + Open(flows, k, n) = Carried(wire, k, n)
    <2>1. Ended(log, k, n) = 0 /\ Carried(wire, k, n) = 0
      BY <1>1, <1>3, Zenon DEF Ended, Carried
    <2>2. Open(flows, k, n) = 0
      BY <1>1 DEF Open
    <2> QED BY <2>1, <2>2
  <1> QED BY <1>1, <1>2, <1>4 DEF TotalInv, Balanced

\* process() counts the frame, in the table or in the message that ends it.
LEMMA ProcessTotals ==
  ASSUME IInv, TotalInv, Process
  PROVE  TotalInv'
  <1>1. frame \in Frames /\ pkt = ParsedPacket(frame) /\ dpc = "decoded"
    BY DEF Process, IInv, DecoderInv
  <1>2. PICK key \in Flows : key = key_from_packet
    <2>1. key_from_packet = FiveTuple(frame)
      BY <1>1 DEF key_from_packet, ParsedPacket, FiveTuple
    <2> QED BY <1>1, <2>1 DEF Flows
  <1>3. PICK o \in Observations : o = Observed(frame)
    BY <1>1 DEF Observations
  <1>4. PICK size \in Nat : size = pkt.wire_length
    BY <1>1, FrameAssumption DEF ParsedPacket
  <1>5. o.flow = key /\ o.bytes = size
    BY <1>1, <1>2, <1>3, <1>4 DEF Observed, key_from_packet, ParsedPacket, FiveTuple
  <1>6. wire' = Append(wire, o) /\ schema' = schema /\ draining' = FALSE
    BY <1>1, <1>3 DEF Process, TotalInv
  <1>7. wire \in Seq(Observations) /\ LogInv
    BY DEF IInv, TableInv
  <1>8. PICK fresh : fresh = [key |-> key, start_us |-> pkt.timestamp_us, packet_count |-> 1,
                              byte_count |-> size]
    OBVIOUS
  <1>9. fresh.key = key /\ \A n \in Counters : Count(fresh, n) \in Nat /\ Count(fresh, n) = FramePart(o, key, n)
    BY <1>5, <1>8 DEF Count, FramePart, Counters
  <1>10. PICK known : known = [flows[key] EXCEPT !.packet_count = @ + 1, !.byte_count = @ + size]
    OBVIOUS
  <1>11. ASSUME key \in DOMAIN flows
         PROVE  /\ known.key = key
                /\ \A n \in Counters : /\ Count(flows[key], n) \in Nat /\ Count(known, n) \in Nat
                                       /\ Count(known, n) = Count(flows[key], n) + FramePart(o, key, n)
    <2>1. PICK a, b, c : flows[key] = [key |-> key, start_us |-> a, packet_count |-> b, byte_count |-> c]
      <3>1. Entry(key, flows[key])
        BY <1>11, Zenon DEF IInv, TableInv
      <3> QED BY <3>1, Zenon DEF Entry
    <2>2. b \in Nat /\ c \in Nat
      <3>1. \A n \in Counters : Count(flows[key], n) \in Nat
        BY <1>11, Zenon DEF TotalInv, TableCounts
      <3>2. Count(flows[key], 11) \in Nat /\ Count(flows[key], 12) \in Nat
        BY <3>1 DEF Counters
      <3> QED BY <2>1, <3>2 DEF Count
    <2>3. known = [key |-> key, start_us |-> a, packet_count |-> b + 1, byte_count |-> c + size]
      <3>1. PICK st : st = [key |-> key, start_us |-> a, packet_count |-> b, byte_count |-> c]
        OBVIOUS
      <3>2. known = [st EXCEPT !.packet_count = @ + 1, !.byte_count = @ + size]
        BY <1>10, <2>1, <3>1
      <3> QED BY <3>1, <3>2
    <2> QED BY <1>5, <2>1, <2>2, <2>3 DEF Count, FramePart, Counters
  \* The totals balance if the table and the topic share the frame.
  <1>12. ASSUME TableCounts(flows'), LogCounts(log'),
                ASSUME Serializable(schema), NEW k \in Flows, NEW n \in Counters
                PROVE  \E d \in Nat : /\ Ended(log', k, n) = Ended(log, k, n) + d
                                      /\ Ended(log, k, n) \in Nat
                                      /\ d + Open(flows', k, n) = Open(flows, k, n) + FramePart(o, k, n)
         PROVE  TotalInv'
    <2>1. ASSUME Serializable(schema), NEW k \in Flows, NEW n \in Counters
          PROVE  Ended(log', k, n) + Open(flows', k, n) = Carried(wire', k, n)
      <3>1. PICK d \in Nat : /\ Ended(log', k, n) = Ended(log, k, n) + d /\ Ended(log, k, n) \in Nat
                             /\ d + Open(flows', k, n) = Open(flows, k, n) + FramePart(o, k, n)
        BY <1>12, <2>1
      <3>2. /\ Carried(wire', k, n) = Carried(wire, k, n) + FramePart(o, k, n)
            /\ Carried(wire, k, n) \in Nat /\ FramePart(o, k, n) \in Nat
        BY <1>6, <1>7, CarriedAppend, Zenon
      <3>3. Open(flows, k, n) \in Nat
        BY DEF TotalInv, TableCounts, Open
      <3>4. Open(flows', k, n) \in Nat
        BY <1>12 DEF TableCounts, Open
      <3>5. Ended(log, k, n) + Open(flows, k, n) = Carried(wire, k, n)
        BY <2>1, Zenon DEF TotalInv, Balanced
      <3> QED BY <3>1, <3>2, <3>3, <3>4, <3>5
    <2>2. Serializable(schema') => Balanced(log', flows', wire')
      BY <1>6, <2>1, Zenon DEF Balanced
    <2> QED BY <1>6, <1>12, <2>2 DEF TotalInv
  <1>13. ASSUME ~ Serializable(schema), NEW evts, Publish(evts) PROVE LogCounts(log')
    <2>1. log' = log
      BY <1>13 DEF Publish
    <2> QED BY <2>1, Zenon DEF TotalInv
  <1>14. CASE /\ key \notin DOMAIN flows
              /\ flows' = [k \in DOMAIN flows \cup {key} |-> IF k = key THEN fresh ELSE flows[k]]
              /\ Publish(<<Event("Start", fresh, pkt.timestamp_us, "IdleTimeout")>>)
    <2>1. /\ DOMAIN flows' = DOMAIN flows \cup {key} /\ flows'[key] = fresh
          /\ \A k \in DOMAIN flows : flows'[k] = flows[k]
      BY <1>14
    <2>2. TableCounts(flows')
      BY <1>9, <2>1, Zenon DEF TotalInv, TableCounts
    <2>3. ASSUME Serializable(schema)
          PROVE  /\ LogCounts(log')
                 /\ \A k \in Flows, n \in Counters :
                      Ended(log, k, n) \in Nat /\ Ended(log', k, n) = Ended(log, k, n) + 0
      <3>1. /\ LogCounts(log')
            /\ \A k \in Flows, n \in Counters :
                 /\ Ended(log, k, n) \in Nat
                 /\ Ended(log', k, n) = Ended(log, k, n) + Share("Start", fresh, k, n)
        BY <1>7, <1>9, <1>14, <2>3, OneTotal DEF TotalInv
      <3>2. \A k, n : Share("Start", fresh, k, n) = 0
        BY DEF Share
      <3> QED BY <3>1, <3>2, Zenon
    <2>4. LogCounts(log')
      BY <1>13, <1>14, <2>3, Zenon
    <2>5. ASSUME NEW k \in Flows, NEW n \in Counters
          PROVE  0 + Open(flows', k, n) = Open(flows, k, n) + FramePart(o, k, n)
      <3>1. CASE k = key
        BY <1>9, <1>14, <2>1, <3>1 DEF Open
      <3>2. CASE k # key
        <4>1. FramePart(o, k, n) = 0 /\ Open(flows', k, n) = Open(flows, k, n)
          BY <1>5, <2>1, <3>2 DEF FramePart, Open
        <4>2. Open(flows, k, n) \in Nat
          BY DEF TotalInv, TableCounts, Open
        <4> QED BY <4>1, <4>2
      <3> QED BY <3>1, <3>2
    <2>7. 0 \in Nat
      OBVIOUS
    <2> QED BY <1>12, <2>2, <2>3, <2>4, <2>5, <2>7
  <1>15. CASE /\ key \in DOMAIN flows
              /\ flows' = [flows EXCEPT ![key] = known]
              /\ UNCHANGED log
    <2>1. /\ DOMAIN flows' = DOMAIN flows /\ flows'[key] = known
          /\ \A k \in DOMAIN flows : k # key => flows'[k] = flows[k]
      BY <1>15
    <2>2. TableCounts(flows')
      BY <1>11, <1>15, <2>1, Zenon DEF TotalInv, TableCounts
    <2>3. LogCounts(log') /\ log' = log
      BY <1>15, Zenon DEF TotalInv
    <2>4. ASSUME NEW k \in Flows, NEW n \in Counters
          PROVE  Ended(log, k, n) \in Nat
      BY <1>7, LogTotalType DEF TotalInv
    <2>5. ASSUME NEW k \in Flows, NEW n \in Counters
          PROVE  0 + Open(flows', k, n) = Open(flows, k, n) + FramePart(o, k, n)
      <3>1. CASE k = key
        BY <1>11, <1>15, <2>1, <3>1 DEF Open
      <3>2. CASE k # key
        <4>1. FramePart(o, k, n) = 0 /\ Open(flows', k, n) = Open(flows, k, n)
          BY <1>5, <2>1, <3>2 DEF FramePart, Open
        <4>2. Open(flows, k, n) \in Nat
          BY DEF TotalInv, TableCounts, Open
        <4> QED BY <4>1, <4>2
      <3> QED BY <3>1, <3>2
    <2>7. \A k \in Flows, n \in Counters : Ended(log', k, n) = Ended(log, k, n) + 0
      BY <2>3, <2>4
    <2>8. 0 \in Nat
      OBVIOUS
    <2> QED BY <1>12, <2>2, <2>3, <2>4, <2>5, <2>7, <2>8
  <1>16. CASE /\ key \in DOMAIN flows
              /\ flows' = Without(key)
              /\ Publish(<<Event("End", known, pkt.timestamp_us, "TcpTeardown")>>)
    <2>1. /\ DOMAIN flows' = DOMAIN flows \ {key}
          /\ \A k \in DOMAIN flows : k # key => flows'[k] = flows[k]
      BY <1>16 DEF Without
    <2>2. TableCounts(flows')
      BY <2>1 DEF TotalInv, TableCounts
    <2>3. ASSUME Serializable(schema)
          PROVE  /\ LogCounts(log')
                 /\ \A k \in Flows, n \in Counters :
                      /\ Ended(log, k, n) \in Nat
                      /\ Ended(log', k, n) = Ended(log, k, n) + Share("End", known, k, n)
      BY <1>7, <1>11, <1>16, <2>3, OneTotal DEF TotalInv
    <2>4. LogCounts(log')
      BY <1>13, <1>16, <2>3, Zenon
    <2>5. ASSUME NEW k \in Flows, NEW n \in Counters
          PROVE  /\ Share("End", known, k, n) \in Nat
                 /\ Share("End", known, k, n) + Open(flows', k, n) = Open(flows, k, n) + FramePart(o, k, n)
      <3>1. CASE k = key
        <4>1. Share("End", known, k, n) = Count(known, n) /\ Open(flows', k, n) = 0
              /\ Open(flows, k, n) = Count(flows[key], n)
          BY <1>11, <1>16, <2>1, <3>1 DEF Open, Share
        <4>2. Count(known, n) \in Nat /\ Count(known, n) = Count(flows[key], n) + FramePart(o, k, n)
          BY <1>11, <1>16, <3>1, Zenon
        <4> QED BY <4>1, <4>2
      <3>2. CASE k # key
        <4>1. /\ FramePart(o, k, n) = 0 /\ Open(flows', k, n) = Open(flows, k, n)
              /\ Share("End", known, k, n) = 0
          BY <1>5, <1>11, <1>16, <2>1, <3>2 DEF FramePart, Open, Share
        <4>2. Open(flows, k, n) \in Nat
          BY DEF TotalInv, TableCounts, Open
        <4> QED BY <4>1, <4>2
      <3> QED BY <3>1, <3>2
    <2> QED BY <1>12, <2>2, <2>3, <2>4, <2>5
  <1> QED BY <1>2, <1>4, <1>8, <1>10, <1>14, <1>15, <1>16, Zenon DEF Process

\* Every step keeps the totals.
LEMMA NextTotalInv == IInv /\ TotalInv /\ [Next]_vars => TotalInv'
  <1> SUFFICES ASSUME IInv, TotalInv, [Next]_vars PROVE TotalInv'
    OBVIOUS
  <1>0. LogInv /\ TableInv /\ TableCounts(flows) /\ LogCounts(log)
    BY DEF IInv, TotalInv
  \* Steps of the decoder.
  <1>1. ASSUME UNCHANGED <<schema, tableVars>>, draining => dpc' = "idle" PROVE TotalInv'
    <2>1. UNCHANGED <<schema, flows, log, wire, draining>>
      BY <1>1 DEF tableVars
    <2>2. TableCounts(flows') /\ LogCounts(log') /\ (Serializable(schema') => Balanced(log', flows', wire'))
      BY <2>1, Zenon DEF TotalInv
    <2> QED BY <1>1, <2>1, <2>2 DEF TotalInv
  \* Steps that leave the wire alone: what leaves the table goes to the topic.
  <1>2. ASSUME wire' = wire, schema' = schema, TableCounts(flows'), LogCounts(log'),
               draining' => DOMAIN flows' = {} /\ dpc' = "idle",
               ASSUME Serializable(schema), NEW k \in Flows, NEW n \in Counters
               PROVE  \E d \in Nat : /\ Ended(log', k, n) = Ended(log, k, n) + d
                                     /\ Ended(log, k, n) \in Nat
                                     /\ d + Open(flows', k, n) = Open(flows, k, n)
        PROVE  TotalInv'
    <2>1. ASSUME Serializable(schema), NEW k \in Flows, NEW n \in Counters
          PROVE  Ended(log', k, n) + Open(flows', k, n) = Carried(wire', k, n)
      <3>1. PICK d \in Nat : /\ Ended(log', k, n) = Ended(log, k, n) + d /\ Ended(log, k, n) \in Nat
                             /\ d + Open(flows', k, n) = Open(flows, k, n)
        BY <1>2, <2>1
      <3>2. Open(flows', k, n) \in Nat
        BY <1>2 DEF TableCounts, Open
      <3>3. Ended(log, k, n) + Open(flows, k, n) = Carried(wire', k, n)
        BY <1>2, <2>1, Zenon DEF TotalInv, Balanced
      <3> QED BY <3>1, <3>2, <3>3
    <2>2. Serializable(schema') => Balanced(log', flows', wire')
      BY <1>2, <2>1, Zenon DEF Balanced
    <2> QED BY <1>2, <2>2 DEF TotalInv
  <1>3. ASSUME ~ Serializable(schema), NEW evts, Publish(evts) PROVE LogCounts(log')
    <2>1. log' = log
      BY <1>3 DEF Publish
    <2> QED BY <1>0, <2>1, Zenon
  <1>4. CASE \E f \in Frames : Capture(f)
    BY <1>1, <1>4 DEF Capture
  <1>5. CASE Decode
    <2>1. dpc # "idle"
      BY <1>5 DEF Decode, DecodeStep, Ethernet, Vlan, IPv4, IPv6, Transport, Discard
    <2> QED BY <1>1, <1>5, <2>1 DEF Decode, TotalInv
  <1>6. CASE DropFrame
    <2>1. UNCHANGED <<schema, flows, log, wire, draining>> /\ dpc' = "idle"
      BY <1>6 DEF DropFrame, DecodeEnd
    <2>2. TableCounts(flows') /\ LogCounts(log') /\ (Serializable(schema') => Balanced(log', flows', wire'))
      BY <2>1, Zenon DEF TotalInv
    <2> QED BY <2>1, <2>2 DEF TotalInv
  <1>7. CASE Process
    BY <1>7, ProcessTotals
  <1>8. CASE Heartbeat
    <2>1. flows' = flows /\ schema' = schema /\ wire' = wire /\ ~ draining'
      BY <1>8 DEF Heartbeat
    <2>2. Publish([i \in 1 .. Cardinality(DOMAIN flows) |->
                     Event("Stats", flows[SetToSeq(DOMAIN flows)[i]], WallClock, "IdleTimeout")])
      BY <1>8, Zenon DEF Heartbeat
    <2>3. ASSUME Serializable(schema)
          PROVE  /\ LogCounts(log')
                 /\ \A k \in Flows, n \in Counters :
                      /\ Ended(log, k, n) \in Nat /\ Open(flows, k, n) \in Nat
                      /\ Ended(log', k, n) = Ended(log, k, n) + 0
      <3>1. /\ LogCounts(log')
            /\ \A k \in Flows, n \in Counters :
                 /\ Ended(log, k, n) \in Nat /\ Open(flows, k, n) \in Nat
                 /\ Ended(log', k, n) = Ended(log, k, n) + (IF "Stats" = "End" THEN Open(flows, k, n) ELSE 0)
        BY <1>0, <2>2, <2>3, AllTotals
      <3> QED BY <3>1
    <2>4. LogCounts(log')
      BY <1>3, <2>2, <2>3, Zenon
    <2>5. TableCounts(flows')
      BY <1>0, <2>1, Zenon
    <2>6. ASSUME Serializable(schema), NEW k \in Flows, NEW n \in Counters
          PROVE  \E d \in Nat : /\ Ended(log', k, n) = Ended(log, k, n) + d /\ Ended(log, k, n) \in Nat
                                /\ d + Open(flows', k, n) = Open(flows, k, n)
      <3>1. 0 + Open(flows', k, n) = Open(flows, k, n) /\ 0 \in Nat
        BY <2>1, <2>3, <2>6
      <3> QED BY <2>3, <2>6, <3>1
    <2> QED BY <1>2, <2>1, <2>4, <2>5, <2>6
  <1>9. CASE \E key \in DOMAIN flows : Expire(key)
    <2>1. PICK key \in DOMAIN flows : Expire(key)
      BY <1>9
    <2>2. /\ flows' = Without(key) /\ schema' = schema /\ wire' = wire /\ ~ draining'
          /\ Publish(<<Event("End", flows[key], WallClock, "IdleTimeout")>>)
      BY <2>1 DEF Expire
    <2>3. flows[key].key = key /\ key \in Flows /\ \A n \in Counters : Count(flows[key], n) \in Nat
      <3>1. Entry(key, flows[key])
        BY <1>0, Zenon DEF TableInv
      <3>2. flows[key].key = key
        BY <3>1 DEF Entry
      <3> QED BY <1>0, <3>2, Zenon DEF TableCounts
    <2>4. /\ DOMAIN flows' = DOMAIN flows \ {key}
          /\ \A k \in DOMAIN flows : k # key => flows'[k] = flows[k]
      BY <2>2 DEF Without
    <2>5. TableCounts(flows')
      BY <1>0, <2>4 DEF TableCounts
    <2>6. ASSUME Serializable(schema)
          PROVE  /\ LogCounts(log')
                 /\ \A k \in Flows, n \in Counters :
                      /\ Ended(log, k, n) \in Nat
                      /\ Ended(log', k, n) = Ended(log, k, n) + Share("End", flows[key], k, n)
      BY <1>0, <2>2, <2>3, <2>6, OneTotal
    <2>7. LogCounts(log')
      BY <1>3, <2>2, <2>6, Zenon
    <2>8. ASSUME NEW k \in Flows, NEW n \in Counters
          PROVE  /\ Share("End", flows[key], k, n) \in Nat
                 /\ Share("End", flows[key], k, n) + Open(flows', k, n) = Open(flows, k, n)
      <3>1. CASE k = key
        BY <2>3, <2>4, <3>1 DEF Open, Share
      <3>2. CASE k # key
        <4>1. Share("End", flows[key], k, n) = 0 /\ Open(flows', k, n) = Open(flows, k, n)
          BY <2>3, <2>4, <3>2 DEF Open, Share
        <4>2. Open(flows, k, n) \in Nat
          BY <1>0 DEF TableCounts, Open
        <4> QED BY <4>1, <4>2
      <3> QED BY <3>1, <3>2
    <2> QED BY <1>2, <2>2, <2>5, <2>6, <2>7, <2>8
  <1>10. CASE Drain
    <2>1. flows' = <<>> /\ schema' = schema /\ wire' = wire /\ dpc' = "idle"
      BY <1>10 DEF Drain, decoderVars
    <2>2. DOMAIN flows' = {}
      BY <2>1
    <2>3. Publish([i \in 1 .. Len(SetToSeq(DOMAIN flows)) |->
                     Event("End", flows[SetToSeq(DOMAIN flows)[i]], WallClock, "IdleTimeout")])
      BY <1>10, Zenon DEF Drain
    <2>4. ASSUME Serializable(schema)
          PROVE  /\ LogCounts(log')
                 /\ \A k \in Flows, n \in Counters :
                      /\ Ended(log, k, n) \in Nat /\ Open(flows, k, n) \in Nat
                      /\ Ended(log', k, n) = Ended(log, k, n) + Open(flows, k, n)
      <3>1. /\ LogCounts(log')
            /\ \A k \in Flows, n \in Counters :
                 /\ Ended(log, k, n) \in Nat /\ Open(flows, k, n) \in Nat
                 /\ Ended(log', k, n) = Ended(log, k, n) + (IF "End" = "End" THEN Open(flows, k, n) ELSE 0)
        BY <1>0, <2>3, <2>4, AllTotals
      <3> QED BY <3>1
    <2>5. LogCounts(log')
      BY <1>3, <2>3, <2>4, Zenon
    <2>6. TableCounts(flows')
      BY <2>2 DEF TableCounts
    <2>7. ASSUME Serializable(schema), NEW k \in Flows, NEW n \in Counters
          PROVE  \E d \in Nat : /\ Ended(log', k, n) = Ended(log, k, n) + d /\ Ended(log, k, n) \in Nat
                                /\ d + Open(flows', k, n) = Open(flows, k, n)
      <3>1. PICK d \in Nat : d = Open(flows, k, n)
        BY <2>4, <2>7
      <3>2. d + Open(flows', k, n) = d
        BY <2>2 DEF Open
      <3> QED BY <2>4, <2>7, <3>1, <3>2
    <2> QED BY <1>2, <2>1, <2>2, <2>5, <2>6, <2>7
  <1>11. CASE Finished \/ UNCHANGED vars
    <2>1. UNCHANGED <<schema, tableVars>> /\ dpc' = dpc
      BY <1>11 DEF Finished, vars, decoderVars
    <2> QED BY <1>1, <2>1 DEF TotalInv
  <1> QED BY <1>4, <1>5, <1>6, <1>7, <1>8, <1>9, <1>10, <1>11 DEF Next

\* A message's type and counters are read in the places they are written to.
LEMMA ReadsCounts ==
  ASSUME NEW i, schema = FlowEventSchema
  PROVE  /\ Read(i, "packet_count") = log[i].value.payload[11]
         /\ Read(i, "byte_count") = log[i].value.payload[12]
         /\ Read(i, "event_type") = log[i].value.payload[2]
         /\ \A k : FlowRead(i) = FlowText(k) <=> About(log[i], k)
  <1>1. PICK s : s = schema
    OBVIOUS
  <1>2. /\ (CHOOSE x \in 1 .. Len(s) : s[x] = "packet_count") = 11
        /\ (CHOOSE x \in 1 .. Len(s) : s[x] = "byte_count") = 12
    BY <1>1 DEF FlowEventSchema
  <1>3. PICK p : p = log[i].value.payload
    OBVIOUS
  <1>4. Read(i, "packet_count") = p[11] /\ Read(i, "byte_count") = p[12]
    BY <1>1, <1>2, <1>3, Zenon DEF Read, Field
  <1>5. /\ Read(i, "event_type") = p[2] /\ Read(i, "src_ip") = p[4] /\ Read(i, "dst_ip") = p[5]
        /\ Read(i, "src_port") = p[6] /\ Read(i, "dst_port") = p[7] /\ Read(i, "protocol") = p[8]
    BY <1>3, Positions, Zenon DEF Read
  <1>6. ASSUME NEW k PROVE FlowRead(i) = FlowText(k) <=> About(log[i], k)
    <2>1. FlowRead(i) = [src |-> p[4], dst |-> p[5], src_port |-> p[6], dst_port |-> p[7],
                         protocol |-> p[8]]
      BY <1>5, Zenon DEF FlowRead
    <2>2. PICK a, b : a = ip_array_to_string(k.src_ip) /\ b = ip_array_to_string(k.dst_ip)
      OBVIOUS
    <2>3. FlowText(k) = [src |-> a, dst |-> b, src_port |-> k.src_port, dst_port |-> k.dst_port,
                         protocol |-> k.protocol]
      BY <2>2, Zenon DEF FlowText
    <2>4. FlowRead(i) = FlowText(k) <=> /\ p[4] = a /\ p[5] = b /\ p[6] = k.src_port
                                        /\ p[7] = k.dst_port /\ p[8] = k.protocol
      BY <2>1, <2>3
    <2> QED BY <1>3, <2>2, <2>4, Zenon DEF About
  <1> QED BY <1>3, <1>4, <1>5, <1>6, Zenon

\* After the drain the messages that end a flow add up to its frames on the
\* wire, in packets and in bytes.
THEOREM TotalsAddUp == Spec => []TotalsAreTheWires
  <1>1. IInv /\ TotalInv => TotalsAreTheWires
    <2> SUFFICES ASSUME IInv, TotalInv, draining, Serializable(schema), NEW w \in DOMAIN wire
                 PROVE  LET ends   == {i \in Messages : Read(i, "event_type") = "FLOW_END"}
                            mine   == {i \in ends : FlowRead(i) = FlowText(wire[w].flow)}
                            frames == {v \in DOMAIN wire : wire[v].flow = wire[w].flow}
                            Total(name) == SumFunctionOnSet([i \in mine |-> Read(i, name)], mine)
                        IN /\ Total("packet_count") = Cardinality(frames)
                           /\ Total("byte_count") = SumFunctionOnSet([v \in frames |-> wire[v].bytes], frames)
      BY Zenon DEF TotalsAreTheWires
    <2> DEFINE k == wire[w].flow
               ends == {i \in Messages : Read(i, "event_type") = "FLOW_END"}
               mine == {i \in ends : FlowRead(i) = FlowText(k)}
               frames == {v \in DOMAIN wire : wire[v].flow = k}
    <2>1. k \in Flows /\ \A v \in DOMAIN wire : wire[v].bytes \in Nat
      <3>1. wire \in Seq(Observations)
        BY DEF IInv, TableInv
      <3>2. \A v \in DOMAIN wire : wire[v] \in Observations
        BY <3>1
      <3>3. \A x \in Observations : x.flow \in Flows /\ x.bytes \in Nat
        BY FrameAssumption DEF Observations, Flows, Observed, ParsedPacket
      <3> QED BY <3>2, <3>3
    <2>2. schema = FlowEventSchema
      BY SchemaAssumption DEF IInv, TableInv
    <2>3. IsFiniteSet(DOMAIN log) /\ IsFiniteSet(DOMAIN wire)
      <3>1. PICK A : log \in Seq(A)
        BY Zenon DEF IInv, LogInv, IsSeq
      <3>2. wire \in Seq(Observations)
        BY DEF IInv, TableInv
      <3>3. DOMAIN log = 1 .. Len(log) /\ Len(log) \in Nat
        BY <3>1
      <3>4. DOMAIN wire = 1 .. Len(wire) /\ Len(wire) \in Nat
        BY <3>2
      <3>5. IsFiniteSet(1 .. Len(log)) /\ IsFiniteSet(1 .. Len(wire))
        BY <3>3, <3>4, FS_Interval
      <3> QED BY <3>3, <3>4, <3>5, Zenon
    <2>4. ASSUME NEW i \in DOMAIN log
          PROVE  i \in mine <=> log[i].value.payload[2] = "FLOW_END" /\ About(log[i], k)
      BY <2>2, ReadsCounts, Zenon DEF Messages
    <2>5. mine \in SUBSET DOMAIN log /\ frames \in SUBSET DOMAIN wire
      BY DEF Messages
    <2>6. ASSUME NEW n \in Counters, NEW f, f = [i \in mine |-> log[i].value.payload[n]]
          PROVE  SumOver(f, mine) = Carried(wire, k, n)
      <3>1. PICK g : g = [i \in DOMAIN log |-> EndPart(log[i], k, n)]
        OBVIOUS
      <3>2. PICK T : T = mine
        OBVIOUS
      <3>3. \A i \in DOMAIN log : g[i] \in Nat /\ (i \notin T => g[i] = 0) /\ (i \in T => g[i] = f[i])
        <4> SUFFICES ASSUME NEW i \in DOMAIN log
                     PROVE  g[i] \in Nat /\ (i \notin T => g[i] = 0) /\ (i \in T => g[i] = f[i])
          OBVIOUS
        <4>1. g[i] = EndPart(log[i], k, n)
          BY <3>1
        <4>2. EndPart(log[i], k, n) \in Nat
          BY <2>1, Zenon DEF TotalInv, LogCounts, AllCounts
        <4>3. i \in T <=> log[i].value.payload[2] = "FLOW_END" /\ About(log[i], k)
          BY <2>4, <3>2
        <4>4. EndPart(log[i], k, n) = IF i \in T THEN log[i].value.payload[n] ELSE 0
          BY <4>3 DEF EndPart
        <4>5. i \in T => f[i] = log[i].value.payload[n]
          BY <2>6, <3>2
        <4> QED BY <4>1, <4>2, <4>4, <4>5
      <3>4. T \in SUBSET DOMAIN log /\ IsFiniteSet(T)
        BY <2>3, <2>5, <3>2, FS_Subset
      <3>5. SumOver(g, DOMAIN log) = SumOver(g, T)
        BY <2>3, <3>3, <3>4, SumWhere
      <3>6. SumOver(g, T) = SumOver(f, T)
        BY <3>3, <3>4, SumAgrees
      <3>7. Ended(log, k, n) = SumOver(g, DOMAIN log)
        BY <3>1, Zenon DEF Ended
      <3>8. Open(flows, k, n) = 0
        BY DEF TotalInv, Open
      <3>9. Ended(log, k, n) + Open(flows, k, n) = Carried(wire, k, n)
        BY <2>1, Zenon DEF TotalInv, Balanced
      <3>10. Ended(log, k, n) \in Nat
        BY <2>1, LogTotalType DEF IInv, TotalInv
      <3> QED BY <3>2, <3>5, <3>6, <3>7, <3>8, <3>9, <3>10
    <2>7. ASSUME NEW n \in Counters, NEW f, \A v \in frames : f[v] = IF n = 11 THEN 1 ELSE wire[v].bytes
          PROVE  Carried(wire, k, n) = SumOver(f, frames)
      <3>1. PICK g : g = [v \in DOMAIN wire |-> FramePart(wire[v], k, n)]
        OBVIOUS
      <3>2. PICK T : T = frames
        OBVIOUS
      <3>3. \A v \in DOMAIN wire : (v \notin T => g[v] = 0) /\ (v \in T => g[v] = f[v] /\ g[v] \in Nat)
        BY <2>1, <2>7, <3>1, <3>2 DEF FramePart
      <3>4. T \in SUBSET DOMAIN wire /\ IsFiniteSet(T)
        BY <2>3, <2>5, <3>2, FS_Subset
      <3>5. SumOver(g, DOMAIN wire) = SumOver(g, T)
        BY <2>3, <3>3, <3>4, SumWhere
      <3>6. SumOver(g, T) = SumOver(f, T)
        BY <3>3, <3>4, SumAgrees
      <3>7. Carried(wire, k, n) = SumOver(g, DOMAIN wire)
        BY <3>1, Zenon DEF Carried
      <3> QED BY <3>2, <3>5, <3>6, <3>7
    <2>8. SumFunctionOnSet([i \in mine |-> Read(i, "packet_count")], mine) = Cardinality(frames)
      <3>1. PICK f : f = [i \in mine |-> Read(i, "packet_count")]
        OBVIOUS
      <3>2. f = [i \in mine |-> log[i].value.payload[11]]
        BY <2>2, <3>1, ReadsCounts
      <3>3. SumOver(f, mine) = Carried(wire, k, 11)
        BY <2>6, <3>2 DEF Counters
      <3>4. PICK g : g = [v \in frames |-> 1]
        OBVIOUS
      <3>5. Carried(wire, k, 11) = SumOver(g, frames)
        BY <2>7, <3>4 DEF Counters
      <3>6. PICK T : T = frames
        OBVIOUS
      <3>7. IsFiniteSet(T) /\ \A v \in T : g[v] = 1
        BY <2>3, <2>5, <3>4, <3>6, FS_Subset
      <3>8. SumOver(g, T) = Cardinality(T)
        BY <3>7, SumConstant
      <3> QED BY <3>1, <3>3, <3>5, <3>6, <3>8 DEF SumOver
    <2>9. SumFunctionOnSet([i \in mine |-> Read(i, "byte_count")], mine)
            = SumFunctionOnSet([v \in frames |-> wire[v].bytes], frames)
      <3>1. PICK f : f = [i \in mine |-> Read(i, "byte_count")]
        OBVIOUS
      <3>2. f = [i \in mine |-> log[i].value.payload[12]]
        BY <2>2, <3>1, ReadsCounts
      <3>3. SumOver(f, mine) = Carried(wire, k, 12)
        BY <2>6, <3>2 DEF Counters
      <3>4. PICK g : g = [v \in frames |-> wire[v].bytes]
        OBVIOUS
      <3>5. Carried(wire, k, 12) = SumOver(g, frames)
        BY <2>7, <3>4 DEF Counters
      <3> QED BY <3>1, <3>3, <3>4, <3>5 DEF SumOver
    <2> QED BY <2>8, <2>9, Zenon
  <1>2. Spec => []TotalInv
    BY Invariance, InitTotalInv, NextTotalInv, PTL DEF Spec
  <1> QED BY <1>1, <1>2, Invariance, PTL
=============================================================================
