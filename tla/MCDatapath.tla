----------------------------- MODULE MCDatapath -----------------------------
(* Frames for TLC: every kind of frame cut off around the ends of its       *)
(* headers, and whole frames of flows that differ in one thing each.        *)
EXTENDS Datapath

A == <<"mapped", 1>>    \* also ::ffff:0.0.0.1
B == <<"other", 1>>

\* An IPv4 header has only the last four bytes of an address.
Frame(len, tagged, type, v, hl, protocol, src, dst, l4) ==
  [len |-> len, tagged |-> tagged, type |-> type, sec |-> 1, usec |-> 5, l4 |-> l4,
   ip |-> [v |-> v, hl |-> hl, protocol |-> protocol, length |-> 60, src |-> src, dst |-> dst]]

Words(first, second, fin) == [first |-> first, second |-> second, fin |-> fin, rst |-> FALSE]

Cuts(f) == {0, 13, 14, 17, 18} \cup
           UNION {{n - 1, n} : n \in {NetworkAt(f) + 20, NetworkAt(f) + 40} \cup
                                     {TransportAt(f) + d : d \in {0, 4, 8, 20}}}

Shapes == {f \in {Frame(0, tagged, type, v, hl, protocol, A, A, Words(7, 8, FALSE)) :
                    tagged \in BOOLEAN, type \in {"IPv4", "IPv6", "VLAN", "ARP"}, v \in {4, 6},
                    hl \in {4, 5, 6}, protocol \in {TCP, UDP, ICMP, ICMPV6, 2}} :
             /\ f.type = "VLAN" => f.tagged
             /\ f.type # "IPv4" => f.ip.hl = 5
             /\ f.type \in {"VLAN", "ARP"} => f.ip.protocol = TCP /\ f.ip.v = 4}

CutFrames == UNION {{[f EXCEPT !.len = n] : n \in Cuts(f)} : f \in Shapes}

WholeFrames ==
  {Frame(78, FALSE, IF v = 4 THEN "IPv4" ELSE "IPv6", v, 5, protocol, src, A, l4) :
     v \in {4, 6}, protocol \in {TCP, UDP, ICMP}, src \in {A, B},
     l4 \in {Words(7, 8, FALSE), Words(8, 7, FALSE), Words(7, 8, TRUE)}}

MCFrames == CutFrames \cup WholeFrames
MCSchemas == {FlowEventSchema, SubSeq(FlowEventSchema, 1, 12)}
=============================================================================
