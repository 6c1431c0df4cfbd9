--------------------------- MODULE FlowLifecycle ---------------------------
(***************************************************************************)
(* What FlowTable (src/src/flowtable/flow_table.cpp) promises to whoever   *)
(* reads its events: for each 5-tuple, a sequence of flows, each of them a *)
(* Start, any number of Stats and one End, all with the Start's            *)
(* timestamp and with packet counts that never decrease.                   *)
(***************************************************************************)
EXTENDS Integers

CONSTANT Keys        \* the 5-tuples

VARIABLE last        \* for each key, the event emitted most recently

Closed(k) == last[k].type \in {"None", "End"}
Open(k)   == last[k].type \in {"Start", "Stats"}

LifeInit == \A k \in Keys : last[k].type = "None"

Starts(k) == /\ Closed(k)
             /\ last'[k].type = "Start"
             /\ last'[k].count = 1

\* Stats or End: the same flow, with everything counted so far.
Continues(k) == /\ Open(k)
                /\ last'[k].type \in {"Stats", "End"}
                /\ last'[k].start = last[k].start
                /\ last'[k].count >= last[k].count

\* One critical section of the table emits at most one event per key.
LifeNext == \A k \in Keys : last'[k] = last[k] \/ Starts(k) \/ Continues(k)

LifeSpec == LifeInit /\ [][LifeNext]_last
=============================================================================
