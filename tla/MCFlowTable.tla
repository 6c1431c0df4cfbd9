---------------------------- MODULE MCFlowTable ----------------------------
(* FlowTable with two TCP keys and a UDP key.                              *)
EXTENDS FlowTable, TLC

CONSTANTS tcp1, tcp2, udp

MCKeys     == {tcp1, tcp2, udp}
MCTwoKeys  == {tcp1, udp}
MCTcpKeys  == {tcp1, tcp2}
MCOneTcp   == {tcp1}
MCRecorded == {1, 3}
MCClockSet == {2, 5}
MCNever    == {}
Symmetry   == Permutations(MCTcpKeys)
=============================================================================
