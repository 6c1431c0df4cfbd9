----------------------------- MODULE FlowTable -----------------------------
(***************************************************************************)
(* FlowTable (src/src/flowtable/flow_table.cpp) with the two threads that  *)
(* main() (src/src/main.cpp) runs on it: the capture thread, which calls   *)
(* process() for every decoded packet and drain_all() at the end, and the  *)
(* timer thread, which calls timer_sweep() periodically.                   *)
(*                                                                         *)
(* Every access to flows_ is made under mutex_, so the body of each call   *)
(* after it has taken the lock is one step; what a caller does before the  *)
(* lock (counting the packet, reading the clock) is a step of its own.     *)
(* Whether the sink's queue accepts an event is not the table's choice:    *)
(* each call takes the set of keys whose event is refused.                 *)
(*                                                                         *)
(* Time is counted in half seconds, the unit of the timer's interval.      *)
(* Jitter bounds how late the timer thread runs, MaxLag how old a live     *)
(* packet is when it has been processed; a replayed packet has the time of *)
(* its recording.  ClockSets holds the times that somebody may set the     *)
(* wall clock to while the program runs.                                   *)
(***************************************************************************)
EXTENDS Integers, FiniteSets, Functions

CONSTANTS Keys,             \* 5-tuples
          TcpKeys,          \* those with protocol TCP
          MaxFlows,         \* cfg.max_flows
          FlowTimeoutSec,   \* cfg.flow_timeout_sec
          StatsIntervalSec, \* cfg.stats_interval_sec
          Live,             \* LiveCaptureSource, or PcapFileSource
          Recorded,         \* timestamps in the pcap file
          Epoch,            \* wall clock at start
          MaxLag, Jitter,
          ClockSets,        \* what the wall clock may be set to
          MaxTime, MaxPkts  \* bounds of the model

ASSUME TableAssumption ==
  /\ IsFiniteSet(Keys) /\ TcpKeys \subseteq Keys
  /\ MaxFlows \in Nat \ {0}
  /\ FlowTimeoutSec \in Nat \ {0} /\ StatsIntervalSec \in Nat \ {0}
  /\ Live \in BOOLEAN /\ Recorded \subseteq Nat /\ ClockSets \subseteq Nat
  /\ MaxLag \in Nat /\ Jitter \in Nat /\ MaxTime \in Nat /\ MaxPkts \in Nat

\* A live packet is handed over before its flow could time out.
ASSUME LagAssumption == MaxLag < 2 * FlowTimeoutSec

\* The wall clock counts from 1970.
ASSUME EpochAssumption ==
  Epoch \in Nat /\ Epoch > 2 * StatsIntervalSec /\ Epoch > MaxLag

VARIABLES flows,            \* flows_: key -> FlowState
          lastHeartbeat,    \* last_heartbeat_us_
          clock,            \* CLOCK_REALTIME
          cpc, pkt,         \* capture thread, and the packet in process()
          dnow,             \* the now_us that main() passes to drain_all()
          tpc, wake, tnow,  \* timer thread: end of its sleep, now_us
          stop,             \* the timer thread's stop token
          received, dropped, active, created, expired,   \* metrics
          last,             \* history: latest event emitted for each key
          closed,           \* history: packets of the flows that have ended
          refused           \* history: events that the queue refused

tableVars == <<flows, lastHeartbeat>>
timerVars == <<tpc, wake, tnow>>
metrics   == <<dropped, active, created, expired>>
history   == <<last, closed, refused>>
vars      == <<tableVars, clock, cpc, pkt, dnow, timerVars, stop, received, metrics, history>>

Reasons == {"IdleTimeout", "TcpTeardown"}

\* idle_timeout_us_ and stats_interval_us_
IdleTimeout   == 2 * FlowTimeoutSec
StatsInterval == 2 * StatsIntervalSec

LargerOf(a, b)  == IF a >= b THEN a ELSE b
SmallerOf(a, b) == IF a <= b THEN a ELSE b

\* The timer thread's interval, in half seconds.
Interval == LargerOf(1, SmallerOf(StatsIntervalSec, FlowTimeoutSec))

NoPacket == [key |-> "none", ts |-> 0, teardown |-> FALSE]
NoEvent  == [type |-> "None", start |-> 0, seen |-> 0, count |-> 0, at |-> 0, reason |-> "None"]

Event(type, state, at, reason) ==
  [type |-> type, start |-> state.start, seen |-> state.seen, count |-> state.count,
   at |-> at, reason |-> reason]

Tracked == DOMAIN flows

Store(k, state) == [x \in Tracked \cup {k} |-> IF x = k THEN state ELSE flows[x]]
Erase(ks)       == [x \in Tracked \ ks |-> flows[x]]

Init ==
  /\ flows = [k \in {} |-> NoEvent] /\ lastHeartbeat = 0
  /\ clock = Epoch
  /\ cpc = "run" /\ pkt = NoPacket /\ dnow = 0
  /\ tpc = "sleep" /\ wake = Epoch + Interval /\ tnow = 0
  /\ stop = FALSE
  /\ received = 0 /\ dropped = 0 /\ active = 0 /\ created = 0
  /\ expired = [r \in Reasons |-> 0]
  /\ last = [k \in Keys |-> NoEvent] /\ closed = 0 /\ refused = 0

\* emit(), for a critical section in which the keys of evts each emit one
\* event and the queue refuses those of no.
Emit(evts, no) ==
  /\ no \subseteq DOMAIN evts
  /\ last' = [k \in Keys |-> IF k \in DOMAIN evts THEN evts[k] ELSE last[k]]
  /\ dropped' = dropped + Cardinality(no)
  /\ refused' = refused + Cardinality(no)

\* Packets counted in the flows ks.
PacketsOf(ks) == SumFunctionOnSet([k \in ks |-> flows[k].count], ks)

(***************************************************************************)
(* The capture thread.                                                     *)
(***************************************************************************)
\* The timestamps that a packet arriving now can carry.
Stamps == IF Live THEN (clock - MaxLag) .. clock ELSE Recorded

\* Flags read from any packet.
ReceiveAnyFlags(k, ts, teardown) ==
  /\ cpc = "run" /\ received < MaxPkts
  /\ received' = received + 1
  /\ pkt' = [key |-> k, ts |-> ts, teardown |-> teardown]
  /\ cpc' = "process"
  /\ UNCHANGED <<tableVars, clock, dnow, timerVars, stop, metrics, history>>

\* process(), up to the lock.  The decoder sets the FIN and RST flags of TCP
\* packets only.
Receive(k, ts, teardown) ==
  /\ cpc = "run" /\ received < MaxPkts
  /\ teardown => k \in TcpKeys
  /\ received' = received + 1
  /\ pkt' = [key |-> k, ts |-> ts, teardown |-> teardown]
  /\ cpc' = "process"
  /\ UNCHANGED <<tableVars, clock, dnow, timerVars, stop, metrics, history>>

Return == /\ cpc' = "run" /\ pkt' = NoPacket
          /\ UNCHANGED <<lastHeartbeat, clock, dnow, timerVars, stop, received>>

\* The early return forgets the counter.
RejectFlowUncounted ==
  /\ cpc = "process" /\ pkt.key \notin Tracked /\ Cardinality(Tracked) >= MaxFlows
  /\ Return
  /\ UNCHANGED <<flows, metrics, history>>

\* process(), in the lock: a new flow, but the table is full.
RejectFlow ==
  /\ cpc = "process" /\ pkt.key \notin Tracked /\ Cardinality(Tracked) >= MaxFlows
  /\ dropped' = dropped + 1
  /\ Return
  /\ UNCHANGED <<flows, active, created, expired, history>>

\* Off by one in the limit.
CreateFlowOverCap(no) ==
  LET state == [start |-> pkt.ts, seen |-> pkt.ts, count |-> 1]
  IN /\ cpc = "process" /\ pkt.key \notin Tracked /\ Cardinality(Tracked) <= MaxFlows
     /\ flows' = Store(pkt.key, state)
     /\ Emit([k \in {pkt.key} |-> Event("Start", state, pkt.ts, "None")], no)
     /\ active' = active + 1 /\ created' = created + 1
     /\ Return
     /\ UNCHANGED <<expired, closed>>

\* process(), in the lock: a new flow.
CreateFlow(no) ==
  LET state == [start |-> pkt.ts, seen |-> pkt.ts, count |-> 1]
  IN /\ cpc = "process" /\ pkt.key \notin Tracked /\ Cardinality(Tracked) < MaxFlows
     /\ flows' = Store(pkt.key, state)
     /\ Emit([k \in {pkt.key} |-> Event("Start", state, pkt.ts, "None")], no)
     /\ active' = active + 1 /\ created' = created + 1
     /\ Return
     /\ UNCHANGED <<expired, closed>>

\* The flow with one packet more.
Counted == [start |-> flows[pkt.key].start, seen |-> pkt.ts, count |-> flows[pkt.key].count + 1]

\* process(), in the lock: a packet of a flow that is already tracked.
UpdateFlow ==
  /\ cpc = "process" /\ pkt.key \in Tracked /\ ~ pkt.teardown
  /\ flows' = Store(pkt.key, Counted)
  /\ Return
  /\ UNCHANGED <<metrics, history>>

\* ... whose FIN or RST ends the flow: expire_flow(TcpTeardown).
TearDownFlow(no) ==
  /\ cpc = "process" /\ pkt.key \in Tracked /\ pkt.teardown
  /\ flows' = Erase({pkt.key})
  /\ Emit([k \in {pkt.key} |-> Event("End", Counted, pkt.ts, "TcpTeardown")], no)
  /\ active' = active - 1
  /\ expired' = [expired EXCEPT !["TcpTeardown"] = @ + 1]
  /\ closed' = closed + Counted.count
  /\ Return
  /\ UNCHANGED created

\* main() goes on without drain_all().
EndCaptureNoDrain ==
  /\ cpc = "run"
  /\ cpc' = "drained"
  /\ UNCHANGED <<tableVars, clock, pkt, dnow, timerVars, stop, received, metrics, history>>

\* source->run() returns: end of file, or a signal handler called stop().
\* main() reads the clock and calls drain_all(), which waits for the lock.
EndCapture == /\ cpc = "run"
              /\ cpc' = "drain" /\ dnow' = clock
              /\ UNCHANGED <<tableVars, clock, pkt, timerVars, stop, received, metrics, history>>

\* source->run() throws: the flows are abandoned, and the destructor of the
\* timer thread requests the stop.
FailCapture == /\ cpc = "run"
               /\ cpc' = "failed" /\ stop' = TRUE
               /\ UNCHANGED <<tableVars, clock, pkt, dnow, timerVars, received, metrics, history>>

\* Only emits: the flows stay in the table after their End.
DrainAllKeepsFlows(no) ==
  /\ cpc = "drain"
  /\ Emit([k \in Tracked |-> Event("End", flows[k], dnow, "IdleTimeout")], no)
  /\ cpc' = "drained" /\ dnow' = 0
  /\ UNCHANGED <<tableVars, clock, pkt, timerVars, stop, received, active, created, expired, closed>>

\* drain_all(), in the lock: every flow still tracked gets its End.
DrainAll(no) ==
  /\ cpc = "drain"
  /\ flows' = Erase(Tracked)
  /\ Emit([k \in Tracked |-> Event("End", flows[k], dnow, "IdleTimeout")], no)
  /\ active' = active - Cardinality(Tracked)
  /\ expired' = [expired EXCEPT !["IdleTimeout"] = @ + Cardinality(Tracked)]
  /\ closed' = closed + PacketsOf(Tracked)
  /\ cpc' = "drained" /\ dnow' = 0
  /\ UNCHANGED <<lastHeartbeat, clock, pkt, timerVars, stop, received, created>>

\* timer_thread.request_stop(), after which main() only flushes and joins.
RequestStop == /\ cpc = "drained"
               /\ cpc' = "done" /\ stop' = TRUE
               /\ UNCHANGED <<tableVars, clock, pkt, dnow, timerVars, received, metrics, history>>

(***************************************************************************)
(* The timer thread.                                                       *)
(***************************************************************************)
\* sleep_for returns; unless stopped the thread reads the clock and calls
\* timer_sweep(), which waits for the lock.
TimerWake ==
  /\ tpc = "sleep" /\ clock >= wake
  /\ IF stop THEN tpc' = "stopped" /\ UNCHANGED tnow
             ELSE tpc' = "call" /\ tnow' = clock
  /\ UNCHANGED <<tableVars, clock, cpc, pkt, dnow, wake, stop, received, metrics, history>>

\* > instead of >=, in either test.
EmitStatsLate == tnow - lastHeartbeat > StatsInterval
ToExpireLate  == {k \in Tracked : tnow - flows[k].seen > IdleTimeout}

\* The age of the flow instead of its idle time.
ToExpireByAge == {k \in Tracked : tnow - flows[k].start >= IdleTimeout}

EmitStats == tnow - lastHeartbeat >= StatsInterval
ToExpire  == {k \in Tracked : tnow - flows[k].seen >= IdleTimeout}

\* timer_sweep(), in the lock, and the test of the stop token after it.
TimerSweep(no) ==
  LET evts == [k \in (IF EmitStats THEN Tracked ELSE ToExpire) |->
                 IF k \in ToExpire THEN Event("End", flows[k], tnow, "IdleTimeout")
                                   ELSE Event("Stats", flows[k], tnow, "None")]
  IN /\ tpc = "call"
     /\ Emit(evts, no)
     /\ flows' = Erase(ToExpire)
     /\ active' = active - Cardinality(ToExpire)
     /\ expired' = [expired EXCEPT !["IdleTimeout"] = @ + Cardinality(ToExpire)]
     /\ closed' = closed + PacketsOf(ToExpire)
     /\ lastHeartbeat' = IF EmitStats THEN tnow ELSE lastHeartbeat
     /\ tpc' = IF stop THEN "stopped" ELSE "sleep"
     /\ wake' = clock + Interval
     /\ UNCHANGED <<clock, cpc, pkt, dnow, tnow, stop, received, created>>

(***************************************************************************)
(* Time passes, unless a thread would then be later than it ever is.       *)
(***************************************************************************)
Tick ==
  /\ clock < MaxTime \/ stop
  /\ \/ tpc = "sleep" /\ clock < wake + Jitter
     \/ tpc = "call"  /\ clock < tnow + Jitter
  /\ (Live /\ cpc = "process") => clock < pkt.ts + MaxLag
  /\ clock' = clock + 1
  /\ UNCHANGED <<tableVars, cpc, pkt, dnow, timerVars, stop, received, metrics, history>>

\* Somebody sets the wall clock, which now_us() reads; sleep_for goes by
\* another clock and still ends after the same time.  After the request to
\* stop nobody reads the clock any more.
SetClock(t) == /\ ~ stop
               /\ clock' = t
               /\ wake' = IF tpc = "sleep" THEN wake + (t - clock) ELSE wake
               /\ UNCHANGED <<tableVars, cpc, pkt, dnow, tpc, tnow, stop, received, metrics, history>>

\* The process has nothing left to do on the table.
Finished == cpc \in {"done", "failed"} /\ tpc = "stopped" /\ UNCHANGED vars

CaptureNext ==
  \/ \E k \in Keys, ts \in Stamps, teardown \in BOOLEAN : Receive(k, ts, teardown)
  \/ \E no \in SUBSET {pkt.key} : CreateFlow(no) \/ TearDownFlow(no)
  \/ RejectFlow \/ UpdateFlow
  \/ EndCapture \/ FailCapture \/ RequestStop
  \/ \E no \in SUBSET Tracked : DrainAll(no)

TimerNext == TimerWake \/ \E no \in SUBSET Tracked : TimerSweep(no)

Next == CaptureNext \/ TimerNext \/ Tick \/ (\E t \in ClockSets : SetClock(t)) \/ Finished

Spec == Init /\ [][Next]_vars

-----------------------------------------------------------------------------
FlowState == [start : Int, seen : Int, count : Nat]
FlowEvent == [type : {"None", "Start", "Stats", "End"}, start : Int, seen : Int, count : Nat,
              at : Int, reason : Reasons \cup {"None"}]

\* Types of the variables; only a TCP packet can carry the teardown flags.
TypeOK ==
  /\ Tracked \subseteq Keys /\ flows \in [Tracked -> FlowState]
  /\ lastHeartbeat \in Nat /\ clock \in Nat /\ dnow \in Nat
  /\ cpc \in {"run", "process", "drain", "drained", "done", "failed"}
  /\ cpc = "process" => /\ pkt \in [key : Keys, ts : Int, teardown : BOOLEAN]
                        /\ pkt.teardown => pkt.key \in TcpKeys
  /\ tpc \in {"sleep", "call", "stopped"} /\ wake \in Int /\ tnow \in Nat
  /\ stop \in BOOLEAN
  /\ received \in Nat /\ dropped \in Nat /\ active \in Int /\ created \in Nat
  /\ expired \in [Reasons -> Nat]
  /\ last \in [Keys -> FlowEvent]

\* The exported counters describe the table: the flows_active gauge is the
\* number of flows tracked and every flow created is tracked or was expired
\* for one of the two reasons; and the table never outgrows max_flows.
Accounting ==
  /\ active = Cardinality(Tracked)
  /\ created = active + expired["IdleTimeout"] + expired["TcpTeardown"]
  /\ active <= MaxFlows

\* No decoded packet is lost or counted twice: each one that process() is
\* given is in a tracked flow, in the End of a flow, in packets_dropped (which
\* also counts the events that the queue refused), or about to take the lock.
\* The frames that the decoder turns down never get here: the capture counts
\* them in packets_dropped without having counted them as received.
PacketConservation ==
  received = PacketsOf(Tracked) + closed + (dropped - refused)
             + (IF cpc = "process" THEN 1 ELSE 0)

Life == INSTANCE FlowLifecycle

\* The events form Start Stats* End lives, although two threads emit them, a
\* flow can end in three places (teardown, sweep and drain) and the clock may
\* be set between any two steps.  These are the events emitted: one that the
\* queue refuses is counted in packets_dropped and never reaches a reader.
WellFormedLives == Life!LifeSpec

\* Once drain_all() is over every flow that ever started has ended, and the
\* sweeps that can still come change nothing.  The End is emitted for each;
\* the queue may refuse it.
EveryFlowEnded == cpc \in {"drained", "done"} => \A k \in Keys : Life!Closed(k)

\* Packets arrive with the time at which they are captured, by a clock that
\* nobody sets.
OneClock == Live /\ ClockSets = {}

\* A flow is expired within one timer interval, and the threads' delays, of
\* its idle timeout.
TimelyExpiry ==
  (OneClock /\ cpc # "failed") =>
    \A k \in Tracked : clock - flows[k].seen < IdleTimeout + Interval + 3 * Jitter

\* A tracked flow is never silent for much longer than stats_interval.
TimelyHeartbeat ==
  (OneClock /\ cpc # "failed") =>
    \A k \in Tracked : clock - last[k].at < StatsInterval + Interval + 3 * Jitter + MaxLag

\* A flow ended by the idle timeout really was idle for that long: its key
\* does not come back with a packet captured earlier than that.
IdleMeansIdle(slack) ==
  \A k \in Keys :
    (last[k].type = "End" /\ last[k].reason = "IdleTimeout" /\ last'[k].type = "Start")
      => last'[k].start - last[k].seen >= IdleTimeout - slack

\* Live capture: up to the age of the packets in flight.
NoEarlyExpiry == [][OneClock => IdleMeansIdle(MaxLag)]_vars

\* FR-FLOW-3, docs/requirements/srs.md:36, for any source of packets.
IdleTimeoutRespected == [][IdleMeansIdle(MaxLag)]_vars
=============================================================================
