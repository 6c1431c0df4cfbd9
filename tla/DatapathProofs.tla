--------------------------- MODULE DatapathProofs ---------------------------
(***************************************************************************)
(* PacketDecoder and Datapath, for every set of frames.                    *)
(***************************************************************************)
EXTENDS Datapath, FiniteSetTheorems, TLAPS

\* What decode() knows when it has read a header, layer by layer.
KnownNetwork(f) == \/ f.type = "IPv4" /\ f.ip.v = 4 /\ f.ip.hl >= 5
                   \/ f.type = "IPv6" /\ f.ip.v = 6

Header(f) ==
  [src_ip |-> Mapped(f, f.ip.src), dst_ip |-> Mapped(f, f.ip.dst), protocol |-> f.ip.protocol,
   wire_length |-> f.ip.length + (IF f.type = "IPv6" THEN 40 ELSE 0),
   timestamp_us |-> timestamp_us(f),
   src_port |-> 0, dst_port |-> 0, tcp_fin |-> FALSE, tcp_rst |-> FALSE]

Whole(f) == Recognised(f) /\ f.len >= TransportAt(f) + TransportLen(f.ip.protocol)

DecoderInv ==
  /\ dpc \in {"idle", "ethernet", "vlan", "network", "transport", "decoded", "discarded"}
  /\ dpc # "idle" => frame \in Frames /\ readTo \in Nat /\ readTo <= frame.len
  /\ dpc = "ethernet" => offset = 0
  /\ dpc = "vlan" => offset = 14 /\ frame.len >= 14 /\ (frame.type = "VLAN" \/ frame.tagged)
  /\ dpc = "network" => \/ ethertype = frame.type /\ offset = NetworkAt(frame)
                        \/ ethertype = Garbage /\ frame.type = "VLAN"
  /\ dpc = "transport" => /\ offset = TransportAt(frame) /\ KnownNetwork(frame)
                          /\ pkt = Header(frame)
  /\ dpc = "decoded" => Whole(frame) /\ pkt = ParsedPacket(frame)
  /\ dpc = "discarded" => ~ Whole(frame)

\* Where the headers of a frame lie.
LEMMA Layout ==
  ASSUME NEW f \in Frames
  PROVE  /\ f.len \in Nat /\ NetworkAt(f) \in {14, 18} /\ (f.tagged <=> NetworkAt(f) = 18)
         /\ TransportAt(f) \in Nat /\ TransportAt(f) >= NetworkAt(f)
         /\ f.type = "IPv6" => TransportAt(f) = NetworkAt(f) + 40
         /\ f.type # "IPv6" => TransportAt(f) = NetworkAt(f) + 4 * f.ip.hl
  BY FrameAssumption DEF NetworkAt, TransportAt

\* The four sizes of a transport header.
LEMMA TransportSizes ==
  ASSUME NEW p \in {TCP, UDP, ICMP, ICMPV6}
  PROVE  TransportLen(p) \in {4, 8, 20}
  BY DEF TransportLen, TCP, UDP, ICMP, ICMPV6

\* A step of decode() keeps to what is known of the frame.
LEMMA DecodeStepInv ==
  ASSUME DecoderInv, DecodeStep
  PROVE  DecoderInv'
  <1>1. CASE Ethernet
    <2>1. frame \in Frames /\ frame' = frame /\ frame.len >= 14 /\ offset = 0
      BY <1>1 DEF Ethernet, EthernetOk, Fits, kEthHdrLen, DecoderInv
    <2>2. readTo' \in Nat /\ readTo' <= frame.len
      BY <1>1, <2>1, Layout DEF Ethernet, Reads, DecoderInv
    <2>3. CASE frame.tagged
      <3>1. ethertype' = "VLAN" /\ dpc' = "vlan" /\ offset' = 14
        BY <1>1, <2>3 DEF Ethernet, EtherTypeAt, NetworkAt, kEthHdrLen
      <3> QED BY <2>1, <2>2, <2>3, <3>1 DEF DecoderInv
    <2>4. CASE ~ frame.tagged
      <3>1. NetworkAt(frame) = 14
        BY <2>4 DEF NetworkAt
      <3>2. ethertype' = frame.type /\ offset' = 14
        BY <1>1, <2>4, <3>1 DEF Ethernet, EtherTypeAt, kEthHdrLen
      <3>3. dpc' = IF frame.type = "VLAN" THEN "vlan" ELSE "network"
        BY <1>1, <3>2 DEF Ethernet
      <3> QED BY <2>1, <2>2, <3>1, <3>2, <3>3 DEF DecoderInv, NetworkAt
    <2> QED BY <2>3, <2>4
  <1>2. CASE Vlan
    <2>1. frame \in Frames /\ frame' = frame /\ frame.len >= 18 /\ offset = 14
      BY <1>2 DEF Vlan, VlanOk, Fits, DecoderInv
    <2>2. readTo' \in Nat /\ readTo' <= frame.len
      BY <1>2, <2>1, Layout DEF Vlan, Reads, DecoderInv
    <2>3. dpc' = "network" /\ offset' = 18 /\ ethertype' = EtherTypeAt(frame, 16)
      BY <1>2, <2>1 DEF Vlan
    <2>4. CASE frame.tagged
      <3>1. NetworkAt(frame) = 18
        BY <2>4 DEF NetworkAt
      <3>2. ethertype' = frame.type
        BY <2>3, <3>1 DEF EtherTypeAt
      <3> QED BY <2>1, <2>2, <2>3, <3>1, <3>2 DEF DecoderInv, NetworkAt
    <2>5. CASE ~ frame.tagged
      <3>1. NetworkAt(frame) = 14 /\ frame.type = "VLAN"
        BY <1>2, <2>5 DEF NetworkAt, Vlan, DecoderInv
      <3>2. ethertype' = Garbage
        BY <2>3, <2>5, <3>1 DEF EtherTypeAt
      <3> QED BY <2>1, <2>2, <2>3, <3>1, <3>2 DEF DecoderInv
    <2> QED BY <2>4, <2>5
  <1>3. CASE IPv4
    <2>1. /\ frame \in Frames /\ frame' = frame /\ ethertype = "IPv4" /\ frame.type = "IPv4"
          /\ offset = NetworkAt(frame)
      BY <1>3, GarbageAssumption DEF IPv4, DecoderInv
    <2>2. /\ frame.len >= offset + 20 /\ frame.ip.v = 4 /\ 4 * frame.ip.hl >= 20
          /\ frame.ip.hl \in Nat
      BY <1>3, <2>1, FrameAssumption DEF IPv4, IPv4Ok, Fits, IPv4HdrLen
    <2>3. readTo' \in Nat /\ readTo' <= frame.len
      BY <1>3, <2>1, <2>2, Layout DEF IPv4, Reads, IPv4HdrLen, DecoderInv
    <2>4. dpc' = "transport" /\ offset' = TransportAt(frame)
      BY <1>3, <2>1 DEF IPv4, TransportAt
    <2>5. pkt' = Header(frame)
      <3>1. frame.ip.length + (IF frame.type = "IPv6" THEN 40 ELSE 0) = frame.ip.length
        BY <2>1, FrameAssumption
      <3>2. \A addr : Mapped(frame, addr) = set_ipv4_mapped(addr[2])
        BY <2>1 DEF Mapped, set_ipv4_mapped
      <3> QED BY <1>3, <3>1, <3>2, Zenon DEF IPv4, NetworkFields, Header
    <2>6. KnownNetwork(frame)
      BY <2>1, <2>2 DEF KnownNetwork
    <2> QED BY <2>1, <2>3, <2>4, <2>5, <2>6 DEF DecoderInv, TransportAt, NetworkAt, KnownNetwork, Header, Mapped
  <1>4. CASE IPv6
    <2>1. /\ frame \in Frames /\ frame' = frame /\ ethertype = "IPv6" /\ frame.type = "IPv6"
          /\ offset = NetworkAt(frame)
      BY <1>4, GarbageAssumption DEF IPv6, DecoderInv
    <2>2. frame.len >= offset + 40 /\ frame.ip.v = 6
      BY <1>4, <2>1, FrameAssumption DEF IPv6, IPv6Ok, Fits, IPv6HdrLen
    <2>3. readTo' \in Nat /\ readTo' <= frame.len
      BY <1>4, <2>1, <2>2, Layout DEF IPv6, Reads, IPv6HdrLen, DecoderInv
    <2>4. dpc' = "transport" /\ offset' = TransportAt(frame)
      BY <1>4, <2>1 DEF IPv6, TransportAt, IPv6HdrLen
    <2>5. pkt' = Header(frame)
      BY <1>4, <2>1 DEF IPv6, NetworkFields, Header, Mapped
    <2>6. KnownNetwork(frame)
      BY <2>1, <2>2 DEF KnownNetwork
    <2> QED BY <2>1, <2>3, <2>4, <2>5, <2>6 DEF DecoderInv, TransportAt, NetworkAt, KnownNetwork, Header, Mapped
  <1>5. CASE Transport
    <2>1. /\ frame \in Frames /\ frame' = frame /\ offset = TransportAt(frame)
          /\ KnownNetwork(frame) /\ pkt = Header(frame) /\ dpc' = "decoded"
      BY <1>5 DEF Transport, DecoderInv
    <2>2. pkt.protocol = frame.ip.protocol
      BY <2>1 DEF Header
    <2>3. Whole(frame)
      BY <1>5, <2>1, <2>2 DEF Transport, TransportOk, Fits, Whole, Recognised, KnownNetwork
    <2>4. TransportLen(frame.ip.protocol) \in {4, 8, 20}
      BY <1>5, <2>2, TransportSizes DEF Transport, TransportOk
    <2>5. readTo' \in Nat /\ readTo' <= frame.len
      BY <1>5, <2>1, <2>2, <2>3, <2>4, Layout DEF Transport, Reads, DecoderInv, Whole
    <2>6. TransportWords(frame, offset) = frame.l4 /\ frame.l4 # Garbage
      BY <2>1, GarbageAssumption DEF TransportWords
    <2>7. pkt' = [pkt EXCEPT !.src_port = frame.l4.first,
                             !.dst_port = IF pkt.protocol \in {TCP, UDP} THEN frame.l4.second ELSE 0,
                             !.tcp_fin  = pkt.protocol = TCP /\ frame.l4.fin,
                             !.tcp_rst  = pkt.protocol = TCP /\ frame.l4.rst]
      BY <1>5, <2>6 DEF Transport
    <2>8. pkt' = ParsedPacket(frame)
      BY <2>1, <2>7 DEF ParsedPacket, Header, FiveTuple
    <2> QED BY <2>1, <2>3, <2>5, <2>8 DEF DecoderInv
  <1>6. CASE Discard
    <2>1. /\ frame \in Frames /\ frame' = frame /\ dpc' = "discarded"
          /\ readTo' \in Nat /\ readTo' <= frame'.len
      BY <1>6 DEF Discard, DecoderInv
    <2>2. ASSUME Whole(frame) PROVE FALSE
      <3>1. /\ frame.len >= TransportAt(frame) + TransportLen(frame.ip.protocol)
            /\ TransportLen(frame.ip.protocol) \in {4, 8, 20} /\ KnownNetwork(frame)
        BY <2>2, TransportSizes DEF Whole, Recognised, KnownNetwork
      <3>2. /\ frame.type = "IPv6" => frame.ip.v = 6 /\ TransportAt(frame) = NetworkAt(frame) + 40
            /\ frame.type # "IPv6" => /\ frame.type = "IPv4" /\ frame.ip.v = 4
                                      /\ frame.ip.hl \in Nat /\ frame.ip.hl >= 5
                                      /\ TransportAt(frame) = NetworkAt(frame) + 4 * frame.ip.hl
            /\ frame.len \in Nat /\ NetworkAt(frame) \in {14, 18}
            /\ frame.tagged => NetworkAt(frame) = 18
        BY <2>1, <3>1, Layout, FrameAssumption DEF KnownNetwork
      <3>3. CASE dpc = "ethernet" /\ ~ EthernetOk
        BY <3>1, <3>2, <3>3 DEF EthernetOk, Fits, kEthHdrLen, DecoderInv
      <3>4. CASE dpc = "vlan" /\ ~ VlanOk
        BY <3>1, <3>2, <3>4 DEF VlanOk, Fits, DecoderInv
      <3>5. CASE dpc = "network" /\ CASE ethertype = "IPv4" -> ~ IPv4Ok
                                      [] ethertype = "IPv6" -> ~ IPv6Ok
                                      [] OTHER -> TRUE
        <4>1. ethertype = frame.type /\ offset = NetworkAt(frame)
          BY <3>1, <3>5 DEF DecoderInv, KnownNetwork
        <4>2. CASE frame.type = "IPv6"
          BY <3>1, <3>2, <3>5, <4>1, <4>2 DEF IPv6Ok, Fits, IPv6HdrLen
        <4>3. CASE frame.type # "IPv6"
          BY <3>1, <3>2, <3>5, <4>1, <4>3 DEF IPv4Ok, Fits, IPv4HdrLen
        <4> QED BY <4>2, <4>3
      <3>6. CASE dpc = "transport" /\ ~ TransportOk
        <4>1. offset = TransportAt(frame) /\ pkt.protocol = frame.ip.protocol
          BY <3>6 DEF DecoderInv, Header
        <4> QED BY <2>2, <3>6, <4>1 DEF TransportOk, Fits, Whole, Recognised
      <3> QED BY <1>6, <3>3, <3>4, <3>5, <3>6 DEF Discard
    <2>3. ~ Whole(frame')
      BY <2>1, <2>2, Zenon
    <2> QED BY <2>1, <2>3 DEF DecoderInv
  <1> QED BY <1>1, <1>2, <1>3, <1>4, <1>5, <1>6 DEF DecodeStep

-----------------------------------------------------------------------------
(***************************************************************************)
(* The text of a flow.                                                     *)
(***************************************************************************)
\* The parts of two sequences in a row.
LEMMA ConcatParts ==
  ASSUME NEW T, NEW u \in Seq(T), NEW v \in Seq(T), NEW w, w = u \o v
  PROVE  /\ Len(w) = Len(u) + Len(v)
         /\ \A i \in 1 .. Len(u) : w[i] = u[i]
         /\ \A i \in 1 .. Len(v) : w[Len(u) + i] = v[i]
  OBVIOUS

\* The places of an address s, a port p, an address t, a port q and a protocol
\* r in the text x.
Placed(x, s, p, t, q, r) ==
  /\ Len(x) = Len(s) + Len(t) + 7
  /\ \A i \in 1 .. Len(s) : x[i] = s[i]
  /\ x[Len(s) + 1] = ":" /\ x[Len(s) + 2] = p /\ x[Len(s) + 3] = "-"
  /\ \A i \in 1 .. Len(t) : x[Len(s) + 3 + i] = t[i]
  /\ x[Len(s) + Len(t) + 5] = q /\ x[Len(s) + Len(t) + 7] = r

\* Where the parts of a text made of them end up.
LEMMA Parts ==
  ASSUME NEW T, {":", "-", "/"} \subseteq T, NEW s \in Seq(T), NEW t \in Seq(T),
         NEW p \in T, NEW q \in T, NEW r \in T
  PROVE  Placed(s \o <<":", p, "-">> \o t \o <<":", q, "/", r>>, s, p, t, q, r)
  <1>1. \A u, v \in Seq(T) : u \o v \in Seq(T)
    OBVIOUS
  <1>2. PICK a \in Seq(T) : a = <<":", p, "-">>
    <2>1. <<":", p, "-">> \in Seq(T)
      OBVIOUS
    <2> QED BY <2>1, Zenon
  <1>3. PICK b \in Seq(T) : b = <<":", q, "/", r>>
    <2>1. <<":", q, "/", r>> \in Seq(T)
      OBVIOUS
    <2> QED BY <2>1, Zenon
  <1>4. /\ Len(a) = 3 /\ a[1] = ":" /\ a[2] = p /\ a[3] = "-"
        /\ Len(b) = 4 /\ b[2] = q /\ b[4] = r
    BY <1>2, <1>3
  <1>5. PICK sa \in Seq(T) : sa = s \o a
    BY <1>1, Zenon
  <1>6. PICK sat \in Seq(T) : sat = sa \o t
    BY <1>1, Zenon
  <1>7. PICK y \in Seq(T) : y = sat \o b
    BY <1>1, Zenon
  <1>8. s \o <<":", p, "-">> \o t \o <<":", q, "/", r>> = y
    BY <1>2, <1>3, <1>5, <1>6, <1>7
  <1>9. Len(s) \in Nat /\ Len(t) \in Nat
    OBVIOUS
  <1>10. /\ Len(sa) = Len(s) + 3 /\ \A i \in 1 .. Len(s) : sa[i] = s[i]
         /\ sa[Len(s) + 1] = ":" /\ sa[Len(s) + 2] = p /\ sa[Len(s) + 3] = "-"
    <2>1. /\ Len(sa) = Len(s) + Len(a) /\ \A i \in 1 .. Len(s) : sa[i] = s[i]
          /\ \A i \in 1 .. Len(a) : sa[Len(s) + i] = a[i]
      BY <1>5, ConcatParts
    <2>2. 1 \in 1 .. Len(a) /\ 2 \in 1 .. Len(a) /\ 3 \in 1 .. Len(a)
      BY <1>4
    <2> QED BY <1>4, <2>1, <2>2, Zenon
  <1>11. /\ Len(sat) = Len(sa) + Len(t) /\ \A i \in 1 .. Len(sa) : sat[i] = sa[i]
         /\ \A i \in 1 .. Len(t) : sat[Len(sa) + i] = t[i]
    BY <1>6, ConcatParts
  <1>12. /\ Len(y) = Len(sat) + 4 /\ \A i \in 1 .. Len(sat) : y[i] = sat[i]
         /\ y[Len(sat) + 2] = q /\ y[Len(sat) + 4] = r
    <2>1. /\ Len(y) = Len(sat) + Len(b) /\ \A i \in 1 .. Len(sat) : y[i] = sat[i]
          /\ \A i \in 1 .. Len(b) : y[Len(sat) + i] = b[i]
      BY <1>7, ConcatParts
    <2>2. 2 \in 1 .. Len(b) /\ 4 \in 1 .. Len(b)
      BY <1>4
    <2> QED BY <1>4, <2>1, <2>2, Zenon
  <1>13. Len(sa) \in Nat /\ Len(sat) \in Nat /\ Len(sat) = Len(s) + 3 + Len(t)
    BY <1>9, <1>10, <1>11
  <1>14. Len(y) = Len(s) + Len(t) + 7
    BY <1>9, <1>12, <1>13
  <1>15. ASSUME NEW i \in 1 .. Len(sa) PROVE y[i] = sa[i]
    <2>1. i \in 1 .. Len(sat)
      BY <1>9, <1>10, <1>13
    <2> QED BY <2>1, <1>11, <1>12, Zenon
  <1>16. ASSUME NEW i \in 1 .. Len(s) PROVE y[i] = s[i]
    <2>1. i \in 1 .. Len(sa)
      BY <1>9, <1>10
    <2> QED BY <2>1, <1>10, <1>15, Zenon
  <1>17. y[Len(s) + 1] = ":" /\ y[Len(s) + 2] = p /\ y[Len(s) + 3] = "-"
    <2>1. /\ Len(s) + 1 \in 1 .. Len(sa) /\ Len(s) + 2 \in 1 .. Len(sa)
          /\ Len(s) + 3 \in 1 .. Len(sa)
      BY <1>9, <1>10
    <2> QED BY <2>1, <1>10, <1>15, Zenon
  <1>18. ASSUME NEW i \in 1 .. Len(t) PROVE y[Len(s) + 3 + i] = t[i]
    <2>1. Len(sa) + i \in 1 .. Len(sat) /\ Len(sa) + i = Len(s) + 3 + i
      BY <1>9, <1>10, <1>11
    <2>2. y[Len(sa) + i] = t[i]
      BY <2>1, <1>11, <1>12, Zenon
    <2> QED BY <2>1, <2>2, Zenon
  <1>19. y[Len(s) + Len(t) + 5] = q /\ y[Len(s) + Len(t) + 7] = r
    <2>1. Len(sat) + 2 = Len(s) + Len(t) + 5 /\ Len(sat) + 4 = Len(s) + Len(t) + 7
      BY <1>9, <1>13
    <2> QED BY <2>1, <1>12, Zenon
  <1>20. Placed(y, s, p, t, q, r)
    BY <1>14, <1>16, <1>17, <1>18, <1>19, Zenon DEF Placed
  <1> QED BY <1>8, <1>20, Zenon

Fmt(ip) == IF is_ipv4_mapped(ip) THEN <<ip_array_to_string(ip)>>
                                 ELSE <<"[", ip_array_to_string(ip), "]">>

\* How many parts an address has, and which of them is its text.
Width(ip) == IF is_ipv4_mapped(ip) THEN 1 ELSE 3
At(ip)    == IF is_ipv4_mapped(ip) THEN 1 ELSE 2

\* The parts of one address.
LEMMA FmtParts ==
  ASSUME NEW ip, NEW T, ip_array_to_string(ip) \in T, "[" \in T, "]" \in T
  PROVE  /\ Fmt(ip) \in Seq(T) /\ Len(Fmt(ip)) = Width(ip)
         /\ Fmt(ip)[At(ip)] = ip_array_to_string(ip)
         /\ Width(ip) \in {1, 3} /\ At(ip) \in 1 .. Width(ip)
  <1>1. ASSUME NEW x, x = ip_array_to_string(ip)
        PROVE  /\ <<x>> \in Seq(T) /\ Len(<<x>>) = 1 /\ <<x>>[1] = x
               /\ <<"[", x, "]">> \in Seq(T) /\ Len(<<"[", x, "]">>) = 3 /\ <<"[", x, "]">>[2] = x
    BY <1>1
  <1> QED BY <1>1 DEF Fmt, Width, At

\* The parts of flow_id(), whose places depend on the brackets.
LEMMA FlowIdParts ==
  ASSUME NEW k, NEW m, m = Width(k.src_ip), NEW n, n = Width(k.dst_ip)
  PROVE  /\ Len(flow_id(k)) = m + n + 7
         /\ flow_id(k)[m + 1] = ":" /\ flow_id(k)[m + 3] = "-"
         /\ flow_id(k)[At(k.src_ip)] = ip_array_to_string(k.src_ip)
         /\ flow_id(k)[m + 2] = k.src_port
         /\ flow_id(k)[m + 3 + At(k.dst_ip)] = ip_array_to_string(k.dst_ip)
         /\ flow_id(k)[m + n + 5] = k.dst_port /\ flow_id(k)[m + n + 7] = k.protocol
  <1>1. PICK T : /\ ip_array_to_string(k.src_ip) \in T /\ ip_array_to_string(k.dst_ip) \in T
                 /\ k.src_port \in T /\ k.dst_port \in T /\ k.protocol \in T
                 /\ ":" \in T /\ "-" \in T /\ "/" \in T /\ "[" \in T /\ "]" \in T
    <2> WITNESS {ip_array_to_string(k.src_ip), ip_array_to_string(k.dst_ip), k.src_port,
                 k.dst_port, k.protocol, ":", "-", "/", "[", "]"}
    <2> QED OBVIOUS
  <1>2. PICK s \in Seq(T) : s = Fmt(k.src_ip)
    BY <1>1, FmtParts, Zenon
  <1>3. PICK t \in Seq(T) : t = Fmt(k.dst_ip)
    BY <1>1, FmtParts, Zenon
  <1>4. /\ Len(s) = m /\ s[At(k.src_ip)] = ip_array_to_string(k.src_ip)
        /\ At(k.src_ip) \in 1 .. m
    BY <1>1, <1>2, FmtParts, Zenon
  <1>5. /\ Len(t) = n /\ t[At(k.dst_ip)] = ip_array_to_string(k.dst_ip)
        /\ At(k.dst_ip) \in 1 .. n
    BY <1>1, <1>3, FmtParts, Zenon
  <1>6. PICK p \in T, q \in T, r \in T : p = k.src_port /\ q = k.dst_port /\ r = k.protocol
    BY <1>1, Zenon
  <1>7. flow_id(k) = s \o <<":", p, "-">> \o t \o <<":", q, "/", r>>
    BY <1>2, <1>3, <1>6, Zenon DEF flow_id, Fmt
  <1>8. Placed(flow_id(k), s, p, t, q, r)
    <2>1. {":", "-", "/"} \subseteq T
      BY <1>1
    <2> QED BY <1>7, <2>1, Parts, Zenon
  <1> QED BY <1>4, <1>5, <1>6, <1>8, Zenon DEF Placed

\* flow_id() tells flows apart exactly as their written addresses, ports and
\* protocol do, whichever of the addresses are in brackets.
LEMMA FlowIdIsText ==
  ASSUME NEW a, NEW b
  PROVE  flow_id(a) = flow_id(b) <=> FlowText(a) = FlowText(b)
  <1> DEFINE m == Width(a.src_ip)
             n == Width(a.dst_ip)
             m1 == Width(b.src_ip)
             n1 == Width(b.dst_ip)
  <1>1. m \in {1, 3} /\ n \in {1, 3} /\ m1 \in {1, 3} /\ n1 \in {1, 3}
    BY DEF Width
  <1>2. \A ip : At(ip) = IF Width(ip) = 1 THEN 1 ELSE 2
    BY DEF At, Width
  <1>3. ASSUME flow_id(a) = flow_id(b) PROVE FlowText(a) = FlowText(b)
    <2>1. /\ Len(flow_id(a)) = m + n + 7
          /\ flow_id(a)[m + 1] = ":" /\ flow_id(a)[m + 3] = "-"
          /\ flow_id(a)[At(a.src_ip)] = ip_array_to_string(a.src_ip)
          /\ flow_id(a)[m + 2] = a.src_port
          /\ flow_id(a)[m + 3 + At(a.dst_ip)] = ip_array_to_string(a.dst_ip)
          /\ flow_id(a)[m + n + 5] = a.dst_port /\ flow_id(a)[m + n + 7] = a.protocol
      BY FlowIdParts, Zenon
    <2>2. /\ Len(flow_id(b)) = m1 + n1 + 7
          /\ flow_id(b)[m1 + 1] = ":" /\ flow_id(b)[m1 + 3] = "-"
          /\ flow_id(b)[At(b.src_ip)] = ip_array_to_string(b.src_ip)
          /\ flow_id(b)[m1 + 2] = b.src_port
          /\ flow_id(b)[m1 + 3 + At(b.dst_ip)] = ip_array_to_string(b.dst_ip)
          /\ flow_id(b)[m1 + n1 + 5] = b.dst_port /\ flow_id(b)[m1 + n1 + 7] = b.protocol
      BY FlowIdParts, Zenon
    <2> HIDE DEF m, n, m1, n1
    <2>3. m + n = m1 + n1
      <3>1. m + n + 7 = m1 + n1 + 7
        BY <1>3, <2>1, <2>2, Zenon
      <3> QED BY <1>1, <3>1
    <2>4. m = m1
      <3>1. CASE m = 1 /\ m1 = 3
        <4>1. flow_id(a)[4] = "-" /\ flow_id(b)[4] = ":"
          <5>1. m + 3 = 4 /\ m1 + 1 = 4
            BY <3>1
          <5> QED BY <2>1, <2>2, <5>1, Zenon
        <4> QED BY <1>3, <4>1
      <3>2. CASE m = 3 /\ m1 = 1
        <4>1. flow_id(a)[4] = ":" /\ flow_id(b)[4] = "-"
          <5>1. m + 1 = 4 /\ m1 + 3 = 4
            BY <3>2
          <5> QED BY <2>1, <2>2, <5>1, Zenon
        <4> QED BY <1>3, <4>1
      <3> QED BY <1>1, <3>1, <3>2
    <2>5. n = n1
      BY <1>1, <2>3, <2>4
    <2>6. At(a.src_ip) = At(b.src_ip) /\ At(a.dst_ip) = At(b.dst_ip)
      BY <1>2, <2>4, <2>5, Zenon DEF m, n, m1, n1
    <2>7. /\ ip_array_to_string(a.src_ip) = ip_array_to_string(b.src_ip)
          /\ ip_array_to_string(a.dst_ip) = ip_array_to_string(b.dst_ip)
          /\ a.src_port = b.src_port /\ a.dst_port = b.dst_port /\ a.protocol = b.protocol
      BY <1>3, <2>1, <2>2, <2>4, <2>5, <2>6, Zenon
    <2> QED BY <2>7 DEF FlowText
  <1>4. ASSUME FlowText(a) = FlowText(b) PROVE flow_id(a) = flow_id(b)
    <2>1. /\ ip_array_to_string(a.src_ip) = ip_array_to_string(b.src_ip)
          /\ ip_array_to_string(a.dst_ip) = ip_array_to_string(b.dst_ip)
          /\ a.src_port = b.src_port /\ a.dst_port = b.dst_port /\ a.protocol = b.protocol
      BY <1>4 DEF FlowText
    <2>2. \A x, y : ip_array_to_string(x) = ip_array_to_string(y) =>
                      (is_ipv4_mapped(x) <=> is_ipv4_mapped(y))
      BY DEF ip_array_to_string
    <2>3. Fmt(a.src_ip) = Fmt(b.src_ip) /\ Fmt(a.dst_ip) = Fmt(b.dst_ip)
      BY <2>1, <2>2 DEF Fmt
    <2>4. \A k : flow_id(k) = Fmt(k.src_ip) \o <<":", k.src_port, "-">> \o
                                Fmt(k.dst_ip) \o <<":", k.dst_port, "/", k.protocol>>
      BY DEF flow_id, Fmt
    <2> QED BY <2>1, <2>3, <2>4
  <1> QED BY <1>3, <1>4

-----------------------------------------------------------------------------
(***************************************************************************)
(* The messages.                                                           *)
(***************************************************************************)
\* The positions that the serializer fills are the ones in which the schema
\* has the names.
LEMMA Positions ==
  ASSUME NEW msg, NEW s, s = FlowEventSchema
  PROVE  /\ Field(msg, s, "schema_version") = msg.payload[1]
         /\ Field(msg, s, "event_type") = msg.payload[2]
         /\ Field(msg, s, "flow_id") = msg.payload[3]
         /\ Field(msg, s, "src_ip") = msg.payload[4] /\ Field(msg, s, "dst_ip") = msg.payload[5]
         /\ Field(msg, s, "src_port") = msg.payload[6] /\ Field(msg, s, "dst_port") = msg.payload[7]
         /\ Field(msg, s, "protocol") = msg.payload[8]
         /\ Field(msg, s, "start_timestamp_us") = msg.payload[9]
         /\ Field(msg, s, "expire_reason") = msg.payload[13]
  <1>1. /\ (CHOOSE i \in 1 .. Len(s) : s[i] = "schema_version") = 1
        /\ (CHOOSE i \in 1 .. Len(s) : s[i] = "event_type") = 2
        /\ (CHOOSE i \in 1 .. Len(s) : s[i] = "flow_id") = 3
    BY DEF FlowEventSchema
  <1>2. /\ (CHOOSE i \in 1 .. Len(s) : s[i] = "src_ip") = 4
        /\ (CHOOSE i \in 1 .. Len(s) : s[i] = "dst_ip") = 5
        /\ (CHOOSE i \in 1 .. Len(s) : s[i] = "src_port") = 6
        /\ (CHOOSE i \in 1 .. Len(s) : s[i] = "dst_port") = 7
    BY DEF FlowEventSchema
  <1>3. /\ (CHOOSE i \in 1 .. Len(s) : s[i] = "protocol") = 8
        /\ (CHOOSE i \in 1 .. Len(s) : s[i] = "start_timestamp_us") = 9
        /\ (CHOOSE i \in 1 .. Len(s) : s[i] = "expire_reason") = 13
    BY DEF FlowEventSchema
  <1> QED BY <1>1, <1>2, <1>3, Zenon DEF Field

\* The bytes of the schema's id are the id.
LEMMA IdIsRead == ASSUME NEW msg, msg.id = BigEndian(SchemaId) PROVE SchemaIdOf(msg) = SchemaId
  <1>1. PICK id \in Nat : id = SchemaId /\ id <= 2147483647
    BY IdAssumption, SMT
  <1>2. /\ id \div 256 \in Nat /\ id \div 65536 \in Nat /\ id \div 16777216 \in Nat
        /\ (id \div 256) \div 256 = id \div 65536 /\ (id \div 65536) \div 256 = id \div 16777216
    BY SMT
  <1>3. (id \div 16777216) % 256 = id \div 16777216
    <2>1. id \div 16777216 < 256
      BY <1>1, SMT
    <2> QED BY <1>2, <2>1, SMT
  <1>4. \A n \in Nat : n % 256 = n - 256 * (n \div 256)
    BY SMT
  <1>5. /\ id % 256 = id - 256 * (id \div 256)
        /\ (id \div 256) % 256 = (id \div 256) - 256 * (id \div 65536)
        /\ (id \div 65536) % 256 = (id \div 65536) - 256 * (id \div 16777216)
    BY <1>2, <1>4, SMT
  <1>6. \A a, b, c, d \in Nat :
          ((a * 256 + (b - 256 * a)) * 256 + (c - 256 * b)) * 256 + (d - 256 * c) = d
    BY SMT
  <1>7. /\ msg.id[1] = (id \div 16777216) % 256 /\ msg.id[2] = (id \div 65536) % 256
        /\ msg.id[3] = (id \div 256) % 256 /\ msg.id[4] = id % 256
    BY <1>1, SMT DEF BigEndian
  <1> QED BY <1>1, <1>2, <1>3, <1>5, <1>6, <1>7, SMT DEF SchemaIdOf

\* Message m is a readable one about the flow, which started at start.
Describes(m, flow, start) ==
  /\ m.key = flow_id(flow) /\ m.value.magic = 0 /\ m.value.id = BigEndian(SchemaId)
  /\ m.value.payload[1] = "1.0" /\ m.value.payload[2] \in EventTypeSymbols
  /\ m.value.payload[3] = flow_id(flow)
  /\ m.value.payload[4] = ip_array_to_string(flow.src_ip)
  /\ m.value.payload[5] = ip_array_to_string(flow.dst_ip)
  /\ m.value.payload[6] = flow.src_port /\ m.value.payload[7] = flow.dst_port
  /\ m.value.payload[8] = flow.protocol /\ m.value.payload[9] = start
  /\ m.value.payload[13] \in IF m.value.payload[2] = "FLOW_END"
                             THEN {"idle_timeout", "tcp_teardown"} ELSE {Null}

\* attempt_produce() makes such a message of every event.
LEMMA MessageDescribes ==
  ASSUME NEW type \in {"Start", "End", "Stats"}, NEW state, NEW now, NEW reason
  PROVE  Describes(Message(Event(type, state, now, reason)), state.key, state.start_us)
  <1>0. PICK evt : evt = Event(type, state, now, reason)
    OBVIOUS
  <1>1. evt.type = type /\ evt.state = state
    BY <1>0 DEF Event
  <1>2. PICK symbol \in EventTypeSymbols : symbol = EventTypeSymbol(evt.type)
    BY <1>1 DEF EventTypeSymbol, EventTypeSymbols
  <1>3. symbol = "FLOW_END" <=> type = "End"
    BY <1>1, <1>2 DEF EventTypeSymbol
  <1>4. PICK r : /\ r = ExpireReasonField(evt)
                 /\ r \in IF symbol = "FLOW_END" THEN {"idle_timeout", "tcp_teardown"} ELSE {Null}
    BY <1>1, <1>3 DEF ExpireReasonField
  <1>5. PICK p : p = Record(evt)
    OBVIOUS
  <1>6. /\ p[1] = "1.0" /\ p[2] = symbol /\ p[3] = flow_id(state.key)
        /\ p[4] = ip_array_to_string(state.key.src_ip)
        /\ p[5] = ip_array_to_string(state.key.dst_ip)
        /\ p[6] = state.key.src_port /\ p[7] = state.key.dst_port /\ p[8] = state.key.protocol
        /\ p[9] = state.start_us /\ p[13] = r
    BY <1>1, <1>2, <1>4, <1>5 DEF Record
  <1>7. /\ Message(evt).key = flow_id(state.key) /\ Message(evt).value.magic = 0
        /\ Message(evt).value.id = BigEndian(SchemaId) /\ Message(evt).value.payload = p
    BY <1>1, <1>5 DEF Message, serialize
  <1> QED BY <1>0, <1>2, <1>4, <1>6, <1>7, Zenon DEF Describes

-----------------------------------------------------------------------------
(***************************************************************************)
(* The invariant of the table and of the topic.                            *)
(***************************************************************************)
Observations == {Observed(f) : f \in Frames}

\* A frame of the flow was seen at that time.
Seen(flow, start) == \E w \in DOMAIN wire : wire[w].flow = flow /\ wire[w].time = start

\* A flow's state, in the table under its key.
Entry(k, state) == state = [key |-> k, start_us |-> state.start_us,
                            packet_count |-> state.packet_count, byte_count |-> state.byte_count]

\* Every flow in the table is one that a frame has shown.
TableInv ==
  /\ schema \in Schemas /\ wire \in Seq(Observations) /\ IsFiniteSet(DOMAIN flows)
  /\ \A k \in DOMAIN flows : Entry(k, flows[k]) /\ Seen(k, flows[k].start_us)

IsSeq(s) == \E S : s \in Seq(S)

\* Every message is about such a flow, and there are none unless the schema
\* has all the fields.
LogInv ==
  /\ IsSeq(log) /\ (log # <<>> => Serializable(schema))
  /\ \A i \in DOMAIN log :
       \E w \in DOMAIN wire : Describes(log[i], wire[w].flow, wire[w].time)

IInv == DecoderInv /\ TableInv /\ LogInv

\* The order that a set is enumerated in has its elements.
LEMMA SetToSeqRange ==
  ASSUME NEW S, IsFiniteSet(S)
  PROVE  /\ Cardinality(S) \in Nat /\ SetToSeq(S) \in [1 .. Cardinality(S) -> S]
         /\ SetToSeq(S) \in Seq(S) /\ Len(SetToSeq(S)) = Cardinality(S)
  <1>1. Cardinality(S) \in Nat /\ ExistsBijection(1 .. Cardinality(S), S)
    BY FS_CardinalityType
  <1>2. \E f \in [1 .. Cardinality(S) -> S] : IsInjective(f)
    BY <1>1 DEF ExistsBijection, Bijection, Injection, IsInjective
  <1>3. SetToSeq(S) \in [1 .. Cardinality(S) -> S]
    BY <1>2 DEF SetToSeq
  <1> QED BY <1>1, <1>3

\* Another frame is seen, and the earlier ones stay so.
LEMMA AppendWire ==
  ASSUME wire \in Seq(Observations), NEW o \in Observations, wire' = Append(wire, o)
  PROVE  /\ wire' \in Seq(Observations)
         /\ \A w \in DOMAIN wire : w \in DOMAIN wire' /\ wire'[w] = wire[w]
         /\ \E w \in DOMAIN wire' : wire'[w] = o
  <1>1. Len(wire') = Len(wire) + 1 /\ wire'[Len(wire) + 1] = o /\ wire' \in Seq(Observations)
    OBVIOUS
  <1>2. Len(wire) + 1 \in DOMAIN wire'
    BY <1>1
  <1> QED BY <1>1, <1>2

\* Sequence w is s extended by n elements.
Extends(w, s, t, n) ==
  /\ IsSeq(w) /\ Len(s) \in Nat /\ DOMAIN s = 1 .. Len(s) /\ DOMAIN w = 1 .. Len(s) + n
  /\ \A i \in 1 .. Len(s) : w[i] = s[i]
  /\ \A i \in 1 .. n : w[Len(s) + i] = t[i]

LEMMA Extend ==
  ASSUME NEW s, NEW t, NEW n \in Nat, NEW A, NEW B, s \in Seq(A), t \in [1 .. n -> B]
  PROVE  Extends(s \o t, s, t, n)
  <1>1. PICK T : T = A \cup B
    OBVIOUS
  <1>2. \A i \in 1 .. Len(s) : s[i] \in T
    BY <1>1
  <1>3. s \in Seq(T)
    <2>1. s \in [1 .. Len(s) -> T] /\ Len(s) \in Nat
      BY <1>2
    <2> QED BY <2>1
  <1>4. t \in [1 .. n -> T]
    BY <1>1
  <1>5. t \in Seq(T) /\ Len(t) = n
    BY <1>4
  <1>6. s \o t \in Seq(T) /\ Len(s \o t) = Len(s) + n
    BY <1>3, <1>5
  <1>7. IsSeq(s \o t)
    BY <1>6 DEF IsSeq
  <1>8. /\ \A i \in 1 .. Len(s) : (s \o t)[i] = s[i]
        /\ \A i \in 1 .. n : (s \o t)[Len(s) + i] = t[i]
    BY <1>3, <1>5
  <1>9. Len(s) \in Nat /\ DOMAIN s = 1 .. Len(s) /\ DOMAIN (s \o t) = 1 .. Len(s \o t)
    BY <1>3, <1>6
  <1> QED BY <1>6, <1>7, <1>8, <1>9, Zenon DEF Extends

\* What Publish() appends to the topic.
LEMMA PublishExtends ==
  ASSUME LogInv, Serializable(schema), NEW evts, Len(evts) \in Nat, Publish(evts)
  PROVE  \E new : /\ Extends(log', log, new, Len(evts))
                  /\ \A i \in 1 .. Len(evts) : new[i] = Message(evts[i])
  <1>1. PICK new : new = [i \in 1 .. Len(evts) |-> Message(evts[i])]
    OBVIOUS
  <1>2. log' = log \o new
    BY <1>1 DEF Publish
  <1>3. PICK B : B = {Message(evts[i]) : i \in 1 .. Len(evts)}
    OBVIOUS
  <1>4. new \in [1 .. Len(evts) -> B] /\ \A i \in 1 .. Len(evts) : new[i] = Message(evts[i])
    BY <1>1, <1>3
  <1>5. PICK A : log \in Seq(A)
    BY Zenon DEF LogInv, IsSeq
  <1>6. Extends(log \o new, log, new, Len(evts))
    BY <1>4, <1>5, Extend
  <1> QED BY <1>2, <1>4, <1>6, Zenon

\* Publishing events of flows that were seen.
LEMMA PublishInv ==
  ASSUME LogInv, NEW evts, Len(evts) \in Nat, Publish(evts), schema' = schema,
         \A w \in DOMAIN wire : w \in DOMAIN wire' /\ wire'[w] = wire[w],
         \A i \in 1 .. Len(evts) :
           \E w \in DOMAIN wire' : Describes(Message(evts[i]), wire'[w].flow, wire'[w].time)
  PROVE  LogInv'
  <1>1. \A i \in DOMAIN log :
          \E w \in DOMAIN wire' : Describes(log[i], wire'[w].flow, wire'[w].time)
    BY Zenon DEF LogInv
  <1>2. CASE ~ Serializable(schema)
    <2>1. log' = log
      BY <1>2 DEF Publish
    <2>2. IsSeq(log') /\ (log' # <<>> => Serializable(schema'))
      BY <2>1, Zenon DEF LogInv
    <2>3. \A i \in DOMAIN log' :
            \E w \in DOMAIN wire' : Describes(log'[i], wire'[w].flow, wire'[w].time)
      BY <1>1, <2>1, Zenon
    <2> QED BY <2>2, <2>3, Zenon DEF LogInv
  <1>3. CASE Serializable(schema)
    <2>1. PICK new : /\ Extends(log', log, new, Len(evts))
                     /\ \A i \in 1 .. Len(evts) : new[i] = Message(evts[i])
      BY <1>3, PublishExtends, Zenon
    <2>6. /\ IsSeq(log') /\ Len(log) \in Nat /\ DOMAIN log = 1 .. Len(log)
          /\ DOMAIN log' = 1 .. Len(log) + Len(evts)
          /\ \A i \in 1 .. Len(log) : log'[i] = log[i]
          /\ \A i \in 1 .. Len(evts) : log'[Len(log) + i] = new[i]
      BY <2>1, Zenon DEF Extends
    <2>7. ASSUME NEW i \in DOMAIN log'
          PROVE  \E w \in DOMAIN wire' : Describes(log'[i], wire'[w].flow, wire'[w].time)
      <3>1. CASE i \in 1 .. Len(log)
        BY <1>1, <2>6, <3>1, Zenon
      <3>2. CASE i \notin 1 .. Len(log)
        <4>1. i - Len(log) \in 1 .. Len(evts) /\ i = Len(log) + (i - Len(log))
          BY <2>6, <3>2
        <4>2. log'[i] = Message(evts[i - Len(log)])
          BY <2>1, <2>6, <4>1, Zenon
        <4> QED BY <4>1, <4>2, Zenon
      <3> QED BY <3>1, <3>2
    <2>8. Serializable(schema')
      BY <1>3
    <2> QED BY <2>6, <2>7, <2>8, Zenon DEF LogInv
  <1> QED BY <1>2, <1>3

\* Publishing one event.
LEMMA PublishOne ==
  ASSUME LogInv, NEW type \in {"Start", "End", "Stats"}, NEW state, NEW now, NEW reason,
         Publish(<<Event(type, state, now, reason)>>), schema' = schema,
         \A w \in DOMAIN wire : w \in DOMAIN wire' /\ wire'[w] = wire[w],
         \E w \in DOMAIN wire' : wire'[w].flow = state.key /\ wire'[w].time = state.start_us
  PROVE  LogInv'
  <1>1. PICK e : e = Event(type, state, now, reason)
    OBVIOUS
  <1>2. Describes(Message(e), state.key, state.start_us)
    BY <1>1, MessageDescribes, Zenon
  <1>3. Len(<<e>>) = 1 /\ \A i \in 1 .. Len(<<e>>) : <<e>>[i] = e
    OBVIOUS
  <1>4. \A i \in 1 .. Len(<<e>>) :
          \E w \in DOMAIN wire' : Describes(Message(<<e>>[i]), wire'[w].flow, wire'[w].time)
    BY <1>2, <1>3, Zenon
  <1>5. Len(<<e>>) \in Nat
    BY <1>3
  <1>6. Publish(<<e>>)
    BY <1>1, Zenon
  <1> QED BY <1>4, <1>5, <1>6, PublishInv, Zenon

\* Publishing an event of every flow in the table.
LEMMA PublishAll ==
  ASSUME LogInv, TableInv, NEW type \in {"Start", "End", "Stats"}, NEW n,
         n = Len(SetToSeq(DOMAIN flows)) \/ n = Cardinality(DOMAIN flows),
         Publish([i \in 1 .. n |-> Event(type, flows[SetToSeq(DOMAIN flows)[i]], WallClock, "IdleTimeout")]),
         schema' = schema, wire' = wire
  PROVE  LogInv'
  <1>1. PICK keys : keys = SetToSeq(DOMAIN flows)
    OBVIOUS
  <1>2. PICK evts : evts = [i \in 1 .. n |-> Event(type, flows[keys[i]], WallClock, "IdleTimeout")]
    OBVIOUS
  <1>3. n \in Nat /\ \A i \in 1 .. n : keys[i] \in DOMAIN flows
    <2>1. /\ Cardinality(DOMAIN flows) \in Nat /\ Len(keys) = Cardinality(DOMAIN flows)
          /\ keys \in [1 .. Cardinality(DOMAIN flows) -> DOMAIN flows]
      BY <1>1, SetToSeqRange DEF TableInv
    <2> QED BY <1>1, <2>1
  <1>4. Len(evts) = n
    <2>1. PICK B : evts \in [1 .. n -> B]
      <3>1. \A B : (\A i \in 1 .. n : Event(type, flows[keys[i]], WallClock, "IdleTimeout") \in B)
                     => evts \in [1 .. n -> B]
        BY <1>2
      <3>2. PICK B : B = {Event(type, flows[keys[i]], WallClock, "IdleTimeout") : i \in 1 .. n}
        OBVIOUS
      <3>3. \A i \in 1 .. n : Event(type, flows[keys[i]], WallClock, "IdleTimeout") \in B
        BY <3>2
      <3> QED BY <3>1, <3>3, Zenon
    <2> QED BY <1>3, <2>1
  <1>5. ASSUME NEW i \in 1 .. Len(evts)
        PROVE  \E w \in DOMAIN wire' : Describes(Message(evts[i]), wire'[w].flow, wire'[w].time)
    <2>1. PICK k \in DOMAIN flows : k = keys[i]
      BY <1>3, <1>4
    <2>2. evts[i] = Event(type, flows[k], WallClock, "IdleTimeout")
      BY <1>2, <1>4, <2>1
    <2>3. Entry(k, flows[k]) /\ Seen(k, flows[k].start_us)
      BY Zenon DEF TableInv
    <2>4. flows[k].key = k
      BY <2>3 DEF Entry
    <2>5. Describes(Message(evts[i]), k, flows[k].start_us)
      BY <2>2, <2>4, MessageDescribes, Zenon
    <2> QED BY <2>3, <2>5, Zenon DEF Seen
  <1>6. Publish(evts)
    BY <1>1, <1>2, Zenon
  <1>7. Len(evts) \in Nat
    BY <1>3, <1>4
  <1>8. \A w \in DOMAIN wire : w \in DOMAIN wire' /\ wire'[w] = wire[w]
    OBVIOUS
  <1> QED BY <1>5, <1>6, <1>7, <1>8, PublishInv, Zenon

\* A flow that stays in the table, or one that a frame has shown.
LEMMA TableNext ==
  ASSUME TableInv, schema' = schema, wire' \in Seq(Observations), IsFiniteSet(DOMAIN flows'),
         \A w \in DOMAIN wire : w \in DOMAIN wire' /\ wire'[w] = wire[w],
         \A k \in DOMAIN flows' :
           \/ k \in DOMAIN flows /\ flows'[k] = flows[k]
           \/ /\ Entry(k, flows'[k])
              /\ \E w \in DOMAIN wire' : wire'[w].flow = k /\ wire'[w].time = flows'[k].start_us
  PROVE  TableInv'
  <1>1. ASSUME NEW k \in DOMAIN flows'
        PROVE  /\ Entry(k, flows'[k])
               /\ \E w \in DOMAIN wire' : wire'[w].flow = k /\ wire'[w].time = flows'[k].start_us
    <2>1. CASE k \in DOMAIN flows /\ flows'[k] = flows[k]
      <3>1. Entry(k, flows[k]) /\ Seen(k, flows[k].start_us)
        BY <2>1, Zenon DEF TableInv
      <3> QED BY <2>1, <3>1, Zenon DEF Seen
    <2>2. CASE ~ (k \in DOMAIN flows /\ flows'[k] = flows[k])
      BY <2>2, Zenon
    <2> QED BY <2>1, <2>2
  <1>2. schema' \in Schemas
    BY DEF TableInv
  <1> QED BY <1>1, <1>2, Zenon DEF TableInv, Seen

\* Initially nothing is in the table or on the topic.
LEMMA InitIInv == Init => IInv
  <1> SUFFICES ASSUME Init PROVE IInv
    OBVIOUS
  <1>1. PICK f \in Frames : DecodeInit(f)
    BY DEF Init
  <1>2. DecoderInv
    BY <1>1, FrameAssumption DEF DecodeInit, DecoderInv
  <1>3. DOMAIN flows = {} /\ DOMAIN log = {} /\ log = <<>> /\ schema \in Schemas /\ wire = <<>>
    BY DEF Init
  <1>4. TableInv
    <2>1. wire \in Seq(Observations)
      BY <1>3
    <2> QED BY <1>3, <2>1, FS_EmptySet DEF TableInv
  <1>5. LogInv
    <2>1. IsSeq(log)
      <3>1. log \in Seq({})
        BY <1>3
      <3> QED BY <3>1, Zenon DEF IsSeq
    <2> QED BY <1>3, <2>1, Zenon DEF LogInv
  <1> QED BY <1>2, <1>4, <1>5 DEF IInv

\* process() of a decoded packet.
LEMMA ProcessInv ==
  ASSUME IInv, Process
  PROVE  IInv'
  <1>1. frame \in Frames /\ pkt = ParsedPacket(frame)
    BY DEF Process, IInv, DecoderInv
  <1>2. PICK key : key = key_from_packet
    OBVIOUS
  <1>3. key = FiveTuple(frame) /\ pkt.timestamp_us = timestamp_us(frame)
    BY <1>1, <1>2 DEF key_from_packet, ParsedPacket, FiveTuple
  <1>4. PICK o \in Observations : o = Observed(frame)
    BY <1>1 DEF Observations
  <1>5. o.flow = key /\ o.time = pkt.timestamp_us
    BY <1>3, <1>4 DEF Observed
  <1>6. wire' = Append(wire, o) /\ schema' = schema /\ dpc' = "idle"
    BY <1>4 DEF Process, DecodeEnd
  <1>7. /\ wire' \in Seq(Observations)
        /\ \A w \in DOMAIN wire : w \in DOMAIN wire' /\ wire'[w] = wire[w]
        /\ \E w \in DOMAIN wire' : wire'[w] = o
    BY <1>6, AppendWire DEF IInv, TableInv
  <1>8. \E w \in DOMAIN wire' : wire'[w].flow = key /\ wire'[w].time = pkt.timestamp_us
    BY <1>5, <1>7, Zenon
  <1>9. DecoderInv'
    BY <1>6 DEF DecoderInv
  <1>10. PICK fresh : fresh = [key |-> key, start_us |-> pkt.timestamp_us, packet_count |-> 1,
                               byte_count |-> pkt.wire_length]
    OBVIOUS
  <1>11. Entry(key, fresh) /\ fresh.key = key /\ fresh.start_us = pkt.timestamp_us
    BY <1>10 DEF Entry
  <1>12. PICK known : known = [flows[key] EXCEPT !.packet_count = @ + 1,
                                                 !.byte_count = @ + pkt.wire_length]
    OBVIOUS
  <1>13. ASSUME key \in DOMAIN flows
         PROVE  /\ Entry(key, known) /\ known.key = key
                /\ \E w \in DOMAIN wire' : wire'[w].flow = key /\ wire'[w].time = known.start_us
    <2>1. Entry(key, flows[key]) /\ Seen(key, flows[key].start_us)
      BY <1>13, Zenon DEF IInv, TableInv
    <2>2. Entry(key, known) /\ known.key = key /\ known.start_us = flows[key].start_us
      <3>1. PICK a, b, c : flows[key] = [key |-> key, start_us |-> a, packet_count |-> b, byte_count |-> c]
        BY <2>1, Zenon DEF Entry
      <3>2. flows[key].start_us = a
        BY <3>1
      <3>3. known = [key |-> key, start_us |-> a, packet_count |-> b + 1,
                     byte_count |-> c + pkt.wire_length]
        <4>1. PICK st : st = [key |-> key, start_us |-> a, packet_count |-> b, byte_count |-> c]
          OBVIOUS
        <4>2. PICK n : n = pkt.wire_length
          OBVIOUS
        <4>3. known = [st EXCEPT !.packet_count = @ + 1, !.byte_count = @ + n]
          BY <1>12, <3>1, <4>1, <4>2
        <4> QED BY <4>1, <4>2, <4>3
      <3> QED BY <3>2, <3>3 DEF Entry
    <2> QED BY <1>7, <2>1, <2>2, Zenon DEF Seen
  <1>14. CASE /\ key \notin DOMAIN flows
              /\ flows' = [k \in DOMAIN flows \cup {key} |-> IF k = key THEN fresh ELSE flows[k]]
              /\ Publish(<<Event("Start", fresh, pkt.timestamp_us, "IdleTimeout")>>)
    <2>1. DOMAIN flows' = DOMAIN flows \cup {key}
      BY <1>14
    <2>2. IsFiniteSet(DOMAIN flows')
      BY <2>1, FS_AddElement, Zenon DEF IInv, TableInv
    <2>3. flows'[key] = fresh /\ \A k \in DOMAIN flows : flows'[k] = flows[k]
      BY <1>14
    <2>4. \A k \in DOMAIN flows' :
            \/ k \in DOMAIN flows /\ flows'[k] = flows[k]
            \/ /\ Entry(k, flows'[k])
               /\ \E w \in DOMAIN wire' : wire'[w].flow = k /\ wire'[w].time = flows'[k].start_us
      BY <1>8, <1>11, <2>1, <2>3, Zenon
    <2>5. TableInv'
      BY <1>6, <1>7, <2>2, <2>4, TableNext, Zenon DEF IInv
    <2>6. LogInv'
      BY <1>6, <1>7, <1>8, <1>11, <1>14, PublishOne, Zenon DEF IInv
    <2> QED BY <1>9, <2>5, <2>6 DEF IInv
  <1>15. CASE /\ key \in DOMAIN flows
              /\ flows' = [flows EXCEPT ![key] = known]
              /\ UNCHANGED log
    <2>1. DOMAIN flows' = DOMAIN flows
      BY <1>15
    <2>2. IsFiniteSet(DOMAIN flows')
      BY <2>1, Zenon DEF IInv, TableInv
    <2>3. flows'[key] = known /\ \A k \in DOMAIN flows : k # key => flows'[k] = flows[k]
      BY <1>15
    <2>4. \A k \in DOMAIN flows' :
            \/ k \in DOMAIN flows /\ flows'[k] = flows[k]
            \/ /\ Entry(k, flows'[k])
               /\ \E w \in DOMAIN wire' : wire'[w].flow = k /\ wire'[w].time = flows'[k].start_us
      BY <1>13, <1>15, <2>1, <2>3, Zenon
    <2>5. TableInv'
      BY <1>6, <1>7, <2>2, <2>4, TableNext, Zenon DEF IInv
    <2>6. LogInv'
      <3>1. \A i \in DOMAIN log :
              \E w \in DOMAIN wire' : Describes(log[i], wire'[w].flow, wire'[w].time)
        BY <1>7, Zenon DEF IInv, LogInv
      <3>2. IsSeq(log) /\ (log # <<>> => Serializable(schema)) /\ log' = log
        BY <1>15, Zenon DEF IInv, LogInv
      <3> QED BY <1>6, <3>1, <3>2, Zenon DEF LogInv
    <2> QED BY <1>9, <2>5, <2>6 DEF IInv
  <1>16. CASE /\ key \in DOMAIN flows
              /\ flows' = Without(key)
              /\ Publish(<<Event("End", known, pkt.timestamp_us, "TcpTeardown")>>)
    <2>1. DOMAIN flows' = DOMAIN flows \ {key} /\ \A k \in DOMAIN flows' : flows'[k] = flows[k]
      BY <1>16 DEF Without
    <2>2. IsFiniteSet(DOMAIN flows')
      BY <2>1, FS_RemoveElement, Zenon DEF IInv, TableInv
    <2>5. TableInv'
      BY <1>6, <1>7, <2>1, <2>2, TableNext, Zenon DEF IInv
    <2>6. LogInv'
      BY <1>6, <1>7, <1>13, <1>16, PublishOne, Zenon DEF IInv
    <2> QED BY <1>9, <2>5, <2>6 DEF IInv
  <1> QED BY <1>2, <1>10, <1>12, <1>14, <1>15, <1>16, Zenon DEF Process

\* Every step keeps the invariant.
LEMMA NextIInv == IInv /\ [Next]_vars => IInv'
  <1> SUFFICES ASSUME IInv, [Next]_vars PROVE IInv'
    OBVIOUS
  <1>0. IsFiniteSet(DOMAIN flows) /\ wire \in Seq(Observations)
    BY DEF IInv, TableInv
  \* Steps that leave the table and the topic alone.
  <1>1. ASSUME DecoderInv', UNCHANGED <<schema, flows, log, wire>> PROVE IInv'
    <2>1. TableInv'
      <3>1. /\ schema' = schema /\ wire' = wire /\ flows' = flows
        BY <1>1
      <3> QED BY <3>1, Zenon DEF IInv, TableInv, Seen
    <2>2. LogInv'
      <3>1. /\ schema' = schema /\ wire' = wire /\ log' = log
        BY <1>1
      <3> QED BY <3>1, Zenon DEF IInv, LogInv
    <2> QED BY <1>1, <2>1, <2>2 DEF IInv
  \* Steps that leave the decoder and the wire alone.
  <1>2. ASSUME UNCHANGED <<decoderVars, schema, wire>>, TableInv', LogInv' PROVE IInv'
    <2>1. DecoderInv'
      <3>1. UNCHANGED <<frame, dpc, offset, ethertype, pkt, readTo>>
        BY <1>2 DEF decoderVars
      <3> QED BY <3>1 DEF IInv, DecoderInv
    <2> QED BY <1>2, <2>1 DEF IInv
  <1>3. ASSUME UNCHANGED <<decoderVars, schema, wire>>, LogInv',
               DOMAIN flows' \subseteq DOMAIN flows, \A k \in DOMAIN flows' : flows'[k] = flows[k]
        PROVE  IInv'
    <2>1. IsFiniteSet(DOMAIN flows')
      BY <1>0, <1>3, FS_Subset, Zenon
    <2>2. schema' = schema /\ wire' = wire
      BY <1>3
    <2>3. wire' \in Seq(Observations) /\ \A w \in DOMAIN wire : w \in DOMAIN wire' /\ wire'[w] = wire[w]
      BY <1>0, <2>2
    <2>4. \A k \in DOMAIN flows' : k \in DOMAIN flows /\ flows'[k] = flows[k]
      BY <1>3, Zenon
    <2>5. TableInv'
      BY <2>1, <2>2, <2>3, <2>4, TableNext, Zenon DEF IInv
    <2> QED BY <1>2, <1>3, <2>5
  <1>4. CASE \E f \in Frames : Capture(f)
    <2>1. PICK f \in Frames : Capture(f)
      BY <1>4
    <2>2. DecoderInv'
      BY <2>1, FrameAssumption DEF Capture, DecodeStart, DecoderInv
    <2> QED BY <1>1, <2>1, <2>2 DEF Capture, tableVars
  <1>5. CASE Decode
    <2>1. DecoderInv'
      BY <1>5, DecodeStepInv DEF Decode, IInv
    <2> QED BY <1>1, <1>5, <2>1 DEF Decode, tableVars
  <1>6. CASE DropFrame
    <2>1. DecoderInv'
      BY <1>6 DEF DropFrame, DecodeEnd, DecoderInv
    <2> QED BY <1>1, <1>6, <2>1 DEF DropFrame
  <1>7. CASE Process
    BY <1>7, ProcessInv
  <1>8. CASE Heartbeat
    <2>1. UNCHANGED <<decoderVars, schema, wire>> /\ flows' = flows /\ schema' = schema /\ wire' = wire
      BY <1>8 DEF Heartbeat
    <2>2. LogInv'
      BY <1>8, <2>1, PublishAll, Zenon DEF Heartbeat, IInv
    <2> QED BY <1>3, <2>1, <2>2
  <1>9. CASE \E key \in DOMAIN flows : Expire(key)
    <2>1. PICK key \in DOMAIN flows : Expire(key)
      BY <1>9
    <2>2. /\ UNCHANGED <<decoderVars, schema, wire>> /\ flows' = Without(key)
          /\ schema' = schema /\ wire' = wire
          /\ Publish(<<Event("End", flows[key], WallClock, "IdleTimeout")>>)
      BY <2>1 DEF Expire
    <2>3. Entry(key, flows[key]) /\ Seen(key, flows[key].start_us)
      BY Zenon DEF IInv, TableInv
    <2>4. flows[key].key = key
      BY <2>3 DEF Entry
    <2>5. /\ \E w \in DOMAIN wire' : wire'[w].flow = flows[key].key /\ wire'[w].time = flows[key].start_us
          /\ \A w \in DOMAIN wire : w \in DOMAIN wire' /\ wire'[w] = wire[w]
      BY <2>2, <2>3, <2>4, Zenon DEF Seen
    <2>6. LogInv'
      BY <2>2, <2>5, PublishOne, Zenon DEF IInv
    <2>7. DOMAIN flows' \subseteq DOMAIN flows /\ \A k \in DOMAIN flows' : flows'[k] = flows[k]
      BY <2>2 DEF Without
    <2> QED BY <1>3, <2>2, <2>6, <2>7
  <1>10. CASE Drain
    <2>1. UNCHANGED <<decoderVars, schema, wire>> /\ flows' = <<>> /\ schema' = schema /\ wire' = wire
      BY <1>10 DEF Drain
    <2>2. LogInv'
      BY <1>10, <2>1, PublishAll, Zenon DEF Drain, IInv
    <2>3. DOMAIN flows' = {}
      BY <2>1
    <2> QED BY <1>3, <2>1, <2>2, <2>3
  <1>11. CASE Finished \/ UNCHANGED vars
    <2>1. UNCHANGED <<decoderVars, schema, wire>> /\ UNCHANGED <<schema, flows, log, wire>>
      BY <1>11 DEF Finished, vars, tableVars
    <2>2. UNCHANGED <<frame, dpc, offset, ethertype, pkt, readTo>>
      BY <2>1 DEF decoderVars
    <2>3. DecoderInv'
      BY <2>2 DEF IInv, DecoderInv
    <2> QED BY <1>1, <2>1, <2>3
  <1> QED BY <1>4, <1>5, <1>6, <1>7, <1>8, <1>9, <1>10, <1>11 DEF Next

\* The invariant holds throughout.
LEMMA Invariance == Spec => []IInv
  BY InitIInv, NextIInv, PTL DEF Spec

-----------------------------------------------------------------------------
(***************************************************************************)
(* The theorems.                                                           *)
(***************************************************************************)
\* decode() reads no byte beyond the captured ones, whatever frames come.
THEOREM ReadsInBounds == Spec => []ReadsAreInBounds
  <1>1. IInv => ReadsAreInBounds
    BY DEF IInv, DecoderInv, ReadsAreInBounds
  <1> QED BY <1>1, Invariance, PTL

\* decode() yields the packet of the frame, and for whole frames only.
THEOREM FrameIsDecoded == Spec => []DecodesTheFrame
  <1>1. IInv => DecodesTheFrame
    BY DEF IInv, DecoderInv, DecodesTheFrame, Whole
  <1> QED BY <1>1, Invariance, PTL

\* A message that describes a flow is read as one.
LEMMA ReadsFlow ==
  ASSUME NEW i, NEW flow, NEW start, Describes(log[i], flow, start), schema = FlowEventSchema
  PROVE  /\ FlowRead(i) = FlowText(flow) /\ Read(i, "start_timestamp_us") = start
         /\ log[i].key = flow_id(flow) /\ Read(i, "flow_id") = log[i].key
         /\ log[i].value.magic = 0 /\ SchemaIdOf(log[i].value) = SchemaId
         /\ Read(i, "schema_version") = "1.0" /\ Read(i, "event_type") \in EventTypeSymbols
         /\ Read(i, "expire_reason") \in IF Read(i, "event_type") = "FLOW_END"
                                         THEN {"idle_timeout", "tcp_teardown"} ELSE {Null}
  <1>1. PICK p : p = log[i].value.payload
    OBVIOUS
  <1>2. /\ Read(i, "schema_version") = p[1] /\ Read(i, "event_type") = p[2]
        /\ Read(i, "flow_id") = p[3] /\ Read(i, "src_ip") = p[4] /\ Read(i, "dst_ip") = p[5]
        /\ Read(i, "src_port") = p[6] /\ Read(i, "dst_port") = p[7] /\ Read(i, "protocol") = p[8]
        /\ Read(i, "start_timestamp_us") = p[9] /\ Read(i, "expire_reason") = p[13]
    BY <1>1, Positions, Zenon DEF Read
  <1>3. /\ p[1] = "1.0" /\ p[2] \in EventTypeSymbols /\ p[3] = flow_id(flow)
        /\ p[4] = ip_array_to_string(flow.src_ip) /\ p[5] = ip_array_to_string(flow.dst_ip)
        /\ p[6] = flow.src_port /\ p[7] = flow.dst_port /\ p[8] = flow.protocol /\ p[9] = start
        /\ p[13] \in IF p[2] = "FLOW_END" THEN {"idle_timeout", "tcp_teardown"} ELSE {Null}
        /\ log[i].key = flow_id(flow) /\ log[i].value.magic = 0
        /\ log[i].value.id = BigEndian(SchemaId)
    BY <1>1, Zenon DEF Describes
  <1>4. SchemaIdOf(log[i].value) = SchemaId
    BY <1>3, IdIsRead, Zenon
  <1>5. FlowRead(i) = FlowText(flow)
    BY <1>2, <1>3, Zenon DEF FlowRead, FlowText
  <1> QED BY <1>2, <1>3, <1>4, <1>5, Zenon

\* The schema has all the fields when there are messages.
LEMMA SchemaOfMessages ==
  ASSUME IInv, NEW i \in DOMAIN log
  PROVE  /\ schema = FlowEventSchema
         /\ \E w \in DOMAIN wire : Describes(log[i], wire[w].flow, wire[w].time)
  <1>1. log # <<>>
    <2>1. DOMAIN << >> = {}
      OBVIOUS
    <2> QED BY <2>1, Zenon
  <1>2. Serializable(schema) /\ schema \in Schemas
    BY <1>1, Zenon DEF IInv, LogInv, TableInv
  <1>3. schema = FlowEventSchema
    BY <1>2, SchemaAssumption, Zenon
  <1> QED BY <1>3, Zenon DEF IInv, LogInv

\* Messages have the same Kafka key exactly if they are about the same flow:
\* flow_id(), as a sequence of parts, is one to one on the flows that decode()
\* can yield.
THEOREM KeyIsTheFlow == Spec => []KeyIsFlow
  <1>1. IInv => KeyIsFlow
    <2> SUFFICES ASSUME IInv, NEW i \in DOMAIN log, NEW j \in DOMAIN log
                 PROVE  log[i].key = log[j].key <=> FlowRead(i) = FlowRead(j)
      BY Zenon DEF KeyIsFlow, Messages
    <2>1. PICK v \in DOMAIN wire : Describes(log[i], wire[v].flow, wire[v].time)
      BY SchemaOfMessages, Zenon
    <2>2. PICK w \in DOMAIN wire : Describes(log[j], wire[w].flow, wire[w].time)
      BY SchemaOfMessages, Zenon
    <2>3. FlowRead(i) = FlowText(wire[v].flow) /\ log[i].key = flow_id(wire[v].flow)
      BY <2>1, SchemaOfMessages, ReadsFlow, Zenon
    <2>4. FlowRead(j) = FlowText(wire[w].flow) /\ log[j].key = flow_id(wire[w].flow)
      BY <2>2, SchemaOfMessages, ReadsFlow, Zenon
    <2> QED BY <2>3, <2>4, FlowIdIsText, Zenon
  <1> QED BY <1>1, Invariance, PTL

\* A consumer with the registry's schema reads every message, by the names of
\* the fields, and what it reads was on the wire.
THEOREM MessagesAreReadable == Spec => []ReadableByName
  <1>1. IInv => ReadableByName
    <2> SUFFICES ASSUME IInv, NEW i \in DOMAIN log
                 PROVE  /\ log[i].value.magic = 0 /\ SchemaIdOf(log[i].value) = SchemaId
                        /\ Read(i, "schema_version") = "1.0"
                        /\ Read(i, "event_type") \in EventTypeSymbols
                        /\ Read(i, "flow_id") = log[i].key
                        /\ Read(i, "expire_reason") \in
                             IF Read(i, "event_type") = "FLOW_END"
                             THEN {"idle_timeout", "tcp_teardown"} ELSE {Null}
                        /\ \E w \in DOMAIN wire : /\ FlowRead(i) = FlowText(wire[w].flow)
                                                 /\ Read(i, "start_timestamp_us") = wire[w].time
      BY Zenon DEF ReadableByName, Messages
    <2>1. PICK w \in DOMAIN wire : Describes(log[i], wire[w].flow, wire[w].time)
      BY SchemaOfMessages, Zenon
    <2> QED BY <2>1, SchemaOfMessages, ReadsFlow, Zenon
  <1> QED BY <1>1, Invariance, PTL
=============================================================================
