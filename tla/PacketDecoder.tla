--------------------------- MODULE PacketDecoder ---------------------------
(***************************************************************************)
(* PacketDecoder::decode() (src/src/packets/packet_decoder.cpp): one step  *)
(* per layer over a frame of which libpcap captured the first len bytes.   *)
(*                                                                         *)
(* A frame says what lies where on the wire: tagged (an 802.1Q tag after   *)
(* the addresses), type (the ethertype in front of the network header), ip *)
(* (version, header length in words, protocol, addresses, length field),   *)
(* and l4, what follows the network header: in all but the later fragments *)
(* of a datagram, the transport header's first two words and its flags.    *)
(* The decoder only sees bytes at offsets, so what it reads at the place   *)
(* of a header is that header, and anywhere else it is Garbage.            *)
(***************************************************************************)
EXTENDS Naturals

CONSTANTS Frames,      \* the frames libpcap can hand over
          Garbage      \* what the bytes mean that are read in a wrong place

TCP == 6
UDP == 17
ICMP == 1
ICMPV6 == 58

\* An address is its first twelve bytes and its last four.
ASSUME FrameAssumption ==
  \A f \in Frames : /\ f.len \in Nat /\ f.tagged \in BOOLEAN
                     /\ f.ip.hl \in Nat /\ f.ip.length \in Nat
                     /\ \A a \in {f.ip.src, f.ip.dst} : a = <<a[1], a[2]>>

\* What is read in a wrong place is taken for nothing that is right.
ASSUME GarbageAssumption == /\ Garbage \notin {"VLAN", "IPv4", "IPv6"}
                            /\ \A f \in Frames : f.l4 # Garbage

VARIABLES frame, dpc,
          offset, ethertype, pkt,
          readTo       \* history: end of the furthest byte read

decoderVars == <<frame, dpc, offset, ethertype, pkt, readTo>>

kEthHdrLen == 14
IPv4HdrLen == 20
IPv6HdrLen == 40

\* The frame on the wire: where its headers lie, and what is read at o.
NetworkAt(f)   == IF f.tagged THEN 18 ELSE 14
TransportAt(f) == NetworkAt(f) + IF f.type = "IPv6" THEN 40 ELSE 4 * f.ip.hl
EtherTypeAt(f, o) == CASE f.tagged /\ o = 12 -> "VLAN"
                       [] o = NetworkAt(f) - 2 -> f.type
                       [] OTHER -> Garbage
TransportWords(f, o) == IF o = TransportAt(f) THEN f.l4 ELSE Garbage

Fits(n) == frame.len >= offset + n
Reads(o, n) == readTo' = IF o + n > readTo THEN o + n ELSE readTo

\* sizeof of the header that each protocol's case of the switch asks for.
TransportLen(protocol) == CASE protocol = TCP -> 20
                            [] protocol = UDP -> 8
                            [] protocol = ICMP -> 8
                            [] protocol = ICMPV6 -> 4

\* IPv4 addresses become IPv4-mapped IPv6 addresses: a prefix of 12 bytes
\* and the last 4.
set_ipv4_mapped(addr4) == <<"mapped", addr4>>

-----------------------------------------------------------------------------
DecodeInit(f) == /\ frame = f /\ dpc = "ethernet"
                 /\ offset = 0 /\ ethertype = Garbage /\ pkt = Garbage /\ readTo = 0

DecodeStart(f) == /\ frame' = f /\ dpc' = "ethernet"
                  /\ offset' = 0 /\ ethertype' = Garbage /\ pkt' = Garbage /\ readTo' = 0

\* The caller is done with the result, and libpcap with the frame.
DecodeEnd == /\ frame' = Garbage /\ dpc' = "idle"
             /\ offset' = 0 /\ ethertype' = Garbage /\ pkt' = Garbage /\ readTo' = 0

\* Nothing is asked of the length of a tagged frame.
VlanOkUnchecked == TRUE

\* The conditions under which each layer is not the end of decode().
EthernetOk == Fits(kEthHdrLen)
VlanOk     == Fits(4)
IPv4Ok     == /\ Fits(IPv4HdrLen)
              /\ frame.ip.v = 4
              /\ 4 * frame.ip.hl >= 20 /\ Fits(4 * frame.ip.hl)
IPv6Ok     == Fits(IPv6HdrLen) /\ frame.ip.v = 6
TransportOk == /\ pkt.protocol \in {TCP, UDP, ICMP, ICMPV6}
               /\ Fits(TransportLen(pkt.protocol))

Ethernet == /\ dpc = "ethernet" /\ EthernetOk
            /\ ethertype' = EtherTypeAt(frame, 12) /\ Reads(12, 2)
            /\ offset' = kEthHdrLen
            /\ dpc' = IF ethertype' = "VLAN" THEN "vlan" ELSE "network"
            /\ UNCHANGED <<frame, pkt>>

\* A single tag is unwrapped.
Vlan == /\ dpc = "vlan" /\ VlanOk
        /\ ethertype' = EtherTypeAt(frame, offset + 2) /\ Reads(offset + 2, 2)
        /\ offset' = offset + 4
        /\ dpc' = "network"
        /\ UNCHANGED <<frame, pkt>>

\* ts, in microseconds.
timestamp_us(f) == f.sec * 1000000 + f.usec

\* What both network headers put into pkt; the ports and flags of a
\* ParsedPacket are 0 until the transport header is read.
NetworkFields(src, dst, length) ==
  [src_ip |-> src, dst_ip |-> dst, protocol |-> frame.ip.protocol,
   wire_length |-> length, timestamp_us |-> timestamp_us(frame),
   src_port |-> 0, dst_port |-> 0, tcp_fin |-> FALSE, tcp_rst |-> FALSE]

\* The options of the IPv4 header are not skipped.
IPv4NoOptions ==
  /\ dpc = "network" /\ ethertype = "IPv4" /\ IPv4Ok
  /\ pkt' = NetworkFields(set_ipv4_mapped(frame.ip.src[2]), set_ipv4_mapped(frame.ip.dst[2]),
                          frame.ip.length)
  /\ Reads(offset, IPv4HdrLen)
  /\ offset' = offset + IPv4HdrLen
  /\ dpc' = "transport"
  /\ UNCHANGED <<frame, ethertype>>

IPv4 == /\ dpc = "network" /\ ethertype = "IPv4" /\ IPv4Ok
        /\ pkt' = NetworkFields(set_ipv4_mapped(frame.ip.src[2]), set_ipv4_mapped(frame.ip.dst[2]),
                                frame.ip.length)
        /\ Reads(offset, IPv4HdrLen)
        /\ offset' = offset + 4 * frame.ip.hl
        /\ dpc' = "transport"
        /\ UNCHANGED <<frame, ethertype>>

IPv6 == /\ dpc = "network" /\ ethertype = "IPv6" /\ IPv6Ok
        /\ pkt' = NetworkFields(frame.ip.src, frame.ip.dst, frame.ip.length + 40)
        /\ Reads(offset, IPv6HdrLen)
        /\ offset' = offset + IPv6HdrLen
        /\ dpc' = "transport"
        /\ UNCHANGED <<frame, ethertype>>

\* The first word is the source port or, in ICMP, type and code; only TCP
\* and UDP have a second port, only TCP has flags.
Transport ==
  LET words == TransportWords(frame, offset)
      tcp   == pkt.protocol = TCP
  IN /\ dpc = "transport" /\ TransportOk
     /\ pkt' = IF words = Garbage THEN Garbage
               ELSE [pkt EXCEPT !.src_port = words.first,
                                !.dst_port = IF pkt.protocol \in {TCP, UDP} THEN words.second ELSE 0,
                                !.tcp_fin  = tcp /\ words.fin,
                                !.tcp_rst  = tcp /\ words.rst]
     /\ Reads(offset, TransportLen(pkt.protocol))
     /\ dpc' = "decoded"
     /\ UNCHANGED <<frame, offset, ethertype>>

\* return std::nullopt.
Discard == /\ \/ dpc = "ethernet" /\ ~ EthernetOk
              \/ dpc = "vlan" /\ ~ VlanOk
              \/ dpc = "network" /\ CASE ethertype = "IPv4" -> ~ IPv4Ok
                                      [] ethertype = "IPv6" -> ~ IPv6Ok
                                      [] OTHER -> TRUE
              \/ dpc = "transport" /\ ~ TransportOk
           /\ dpc' = "discarded"
           /\ UNCHANGED <<frame, offset, ethertype, pkt, readTo>>

DecodeStep == Ethernet \/ Vlan \/ IPv4 \/ IPv6 \/ Transport \/ Discard

-----------------------------------------------------------------------------
\* decode() reads no byte that was not captured, however short the frame and
\* whatever lengths its headers claim (NFR-REL-2, docs/requirements/srs.md:117).
ReadsAreInBounds == dpc # "idle" => readTo <= frame.len

Recognised(f) == /\ \/ f.type = "IPv4" /\ f.ip.v = 4 /\ f.ip.hl >= 5
                    \/ f.type = "IPv6" /\ f.ip.v = 6
                 /\ f.ip.protocol \in {TCP, UDP, ICMP, ICMPV6}

\* The flow that a frame belongs to, read off the wire.
Mapped(f, addr) == IF f.type = "IPv4" THEN <<"mapped", addr[2]>> ELSE addr
FiveTuple(f) == [src_ip |-> Mapped(f, f.ip.src), dst_ip |-> Mapped(f, f.ip.dst),
                 src_port |-> f.l4.first,
                 dst_port |-> IF f.ip.protocol \in {TCP, UDP} THEN f.l4.second ELSE 0,
                 protocol |-> f.ip.protocol]

\* The packet that a whole frame of a known kind is.
ParsedPacket(f) ==
  [src_ip |-> Mapped(f, f.ip.src), dst_ip |-> Mapped(f, f.ip.dst), protocol |-> f.ip.protocol,
   wire_length |-> f.ip.length + (IF f.type = "IPv6" THEN 40 ELSE 0),
   timestamp_us |-> timestamp_us(f),
   src_port |-> FiveTuple(f).src_port, dst_port |-> FiveTuple(f).dst_port,
   tcp_fin |-> f.ip.protocol = TCP /\ f.l4.fin, tcp_rst |-> f.ip.protocol = TCP /\ f.l4.rst]

\* decode() gives a packet exactly for the frames of a known kind whose
\* headers were captured to the end, and it is the packet on the wire: its
\* five length checks amount to one.
DecodesTheFrame ==
  /\ dpc \in {"decoded", "discarded"} =>
       (dpc = "decoded" <=>
          Recognised(frame) /\ frame.len >= TransportAt(frame) + TransportLen(frame.ip.protocol))
  /\ dpc = "decoded" => pkt = ParsedPacket(frame)
=============================================================================
