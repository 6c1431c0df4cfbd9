-------------------------- MODULE FlowTableProofs --------------------------
(***************************************************************************)
(* FlowTable, for every set of keys, every configuration and every bound   *)
(* on the delays of the threads.                                           *)
(***************************************************************************)
EXTENDS FlowTable, Sums, FiniteSetTheorems, TLAPS

\* Where main() is determines the stop token and, at the end, the table.
PhaseInv ==
  /\ stop <=> cpc \in {"done", "failed"}
  /\ tpc = "stopped" => stop
  /\ cpc \in {"drained", "done"} => Tracked = {}

\* The table and the events agree on which flows are open, since when, and
\* on how many packets they have at least.
LifeInv ==
  \A k \in Keys :
    /\ k \in Tracked <=> last[k].type \in {"Start", "Stats"}
    /\ k \in Tracked => last[k].start = flows[k].start /\ last[k].count <= flows[k].count

IInv == TypeOK /\ PhaseInv /\ Accounting /\ LifeInv

\* The table is finite, so its size is a number.
LEMMA TrackedFinite ==
  ASSUME Tracked \subseteq Keys
  PROVE  IsFiniteSet(Tracked) /\ Cardinality(Tracked) \in Nat
  BY FS_Subset, FS_CardinalityType, TableAssumption

\* What flows_.erase() leaves: the other flows, unchanged.
LEMMA EraseFacts ==
  ASSUME TypeOK, NEW ks \in SUBSET Tracked, flows' = Erase(ks)
  PROVE  /\ Tracked' = Tracked \ ks
         /\ flows' \in [Tracked' -> FlowState]
         /\ \A k \in Tracked \ ks : flows'[k] = flows[k]
         /\ Cardinality(ks) \in Nat
         /\ Cardinality(Tracked') = Cardinality(Tracked) - Cardinality(ks)
  <1>1. Tracked' = Tracked \ ks /\ \A k \in Tracked \ ks : flows'[k] = flows[k]
    BY DEF Erase, Tracked
  <1>2. flows' \in [Tracked' -> FlowState]
    BY <1>1 DEF Erase, TypeOK, Tracked
  <1>3. IsFiniteSet(Tracked)
    BY TrackedFinite DEF TypeOK
  <1>4. IsFiniteSet(ks) /\ Cardinality(ks) \in Nat
    BY <1>3, FS_Subset, FS_CardinalityType
  <1>5. Cardinality(Tracked \ ks) = Cardinality(Tracked) - Cardinality(Tracked \cap ks)
    BY <1>3, FS_Difference
  <1>6. Tracked \cap ks = ks
    OBVIOUS
  <1> QED BY <1>1, <1>2, <1>4, <1>5, <1>6

\* What flows_.emplace() or an update leaves: one flow more at most.
LEMMA StoreFacts ==
  ASSUME TypeOK, NEW k \in Keys, NEW state \in FlowState, flows' = Store(k, state)
  PROVE  /\ Tracked' = Tracked \cup {k}
         /\ flows' \in [Tracked' -> FlowState]
         /\ flows'[k] = state
         /\ \A x \in Tracked \ {k} : flows'[x] = flows[x]
         /\ Cardinality(Tracked') = IF k \in Tracked THEN Cardinality(Tracked)
                                                     ELSE Cardinality(Tracked) + 1
  <1>1. Tracked' = Tracked \cup {k}
    BY DEF Store, Tracked
  <1>2. /\ flows' \in [Tracked' -> FlowState]
        /\ flows'[k] = state
        /\ \A x \in Tracked \ {k} : flows'[x] = flows[x]
    BY <1>1 DEF Store, TypeOK, Tracked
  <1>3. IsFiniteSet(Tracked)
    BY TrackedFinite DEF TypeOK
  <1> QED BY <1>1, <1>2, <1>3, FS_AddElement

\* What emit() records: the new events, and one drop per event refused.
LEMMA EmitFacts ==
  ASSUME TypeOK, NEW E \in SUBSET Keys, NEW evts \in [E -> FlowEvent], NEW no, Emit(evts, no)
  PROVE  /\ last' \in [Keys -> FlowEvent]
         /\ \A k \in E : last'[k] = evts[k]
         /\ \A k \in Keys \ E : last'[k] = last[k]
         /\ dropped' \in Nat
  <1>1. DOMAIN evts = E
    OBVIOUS
  <1>2. /\ last' \in [Keys -> FlowEvent]
        /\ \A k \in E : last'[k] = evts[k]
        /\ \A k \in Keys \ E : last'[k] = last[k]
    BY <1>1 DEF Emit, TypeOK
  <1>3. Cardinality(no) \in Nat
    BY <1>1, FS_Subset, FS_CardinalityType, TableAssumption DEF Emit
  <1> QED BY <1>2, <1>3 DEF Emit, TypeOK

\* The fields of a FlowEvent.
LEMMA EventFields ==
  ASSUME NEW type, NEW state, NEW at, NEW reason
  PROVE  /\ Event(type, state, at, reason).type = type
         /\ Event(type, state, at, reason).start = state.start
         /\ Event(type, state, at, reason).seen = state.seen
         /\ Event(type, state, at, reason).count = state.count
         /\ Event(type, state, at, reason).at = at
         /\ Event(type, state, at, reason).reason = reason
  BY DEF Event

\* The arithmetic of the configured timeouts.
LEMMA Configuration ==
  /\ IdleTimeout \in Nat /\ IdleTimeout > MaxLag
  /\ StatsInterval \in Nat /\ Epoch > StatsInterval
  /\ Interval \in Nat \ {0}
  BY TableAssumption, LagAssumption, EpochAssumption
  DEF IdleTimeout, StatsInterval, Interval, LargerOf, SmallerOf

(***************************************************************************)
(* What the four actions that emit do to the table and to the events.      *)
(***************************************************************************)
\* A new flow in process(): one flow more, and its Start.
LEMMA CreateFacts ==
  ASSUME TypeOK, NEW no, CreateFlow(no)
  PROVE  /\ pkt.key \in Keys \ Tracked /\ pkt.ts \in Int
         /\ Tracked' = Tracked \cup {pkt.key}
         /\ flows' \in [Tracked' -> FlowState]
         /\ flows'[pkt.key] = [start |-> pkt.ts, seen |-> pkt.ts, count |-> 1]
         /\ \A x \in Tracked : flows'[x] = flows[x]
         /\ Cardinality(Tracked') = Cardinality(Tracked) + 1
         /\ last' \in [Keys -> FlowEvent] /\ dropped' \in Nat
         /\ last'[pkt.key].type = "Start" /\ last'[pkt.key].count = 1
         /\ last'[pkt.key].start = pkt.ts /\ last'[pkt.key].at = pkt.ts
         /\ \A k \in Keys \ {pkt.key} : last'[k] = last[k]
  <1> DEFINE state == [start |-> pkt.ts, seen |-> pkt.ts, count |-> 1]
             evt   == Event("Start", state, pkt.ts, "None")
             evts  == [x \in {pkt.key} |-> evt]
  <1>1. pkt.key \in Keys \ Tracked /\ pkt.ts \in Int /\ state \in FlowState
    BY DEF CreateFlow, TypeOK, FlowState
  <1>2. evts \in [{pkt.key} -> FlowEvent]
    BY <1>1 DEF Event, FlowEvent, FlowState
  <1>3. flows' = Store(pkt.key, state) /\ Emit(evts, no)
    BY DEF CreateFlow
  <1>4. /\ Tracked' = Tracked \cup {pkt.key}
        /\ flows' \in [Tracked' -> FlowState]
        /\ flows'[pkt.key] = state
        /\ \A x \in Tracked : flows'[x] = flows[x]
        /\ Cardinality(Tracked') = Cardinality(Tracked) + 1
    BY <1>1, <1>3, StoreFacts
  <1>5. /\ last' \in [Keys -> FlowEvent] /\ dropped' \in Nat
        /\ last'[pkt.key] = evt
        /\ \A k \in Keys \ {pkt.key} : last'[k] = last[k]
    BY <1>1, <1>2, <1>3, EmitFacts
  <1>6. evt.type = "Start" /\ evt.count = 1 /\ evt.start = pkt.ts /\ evt.at = pkt.ts
    BY DEF Event
  <1> QED BY <1>1, <1>4, <1>5, <1>6

\* A further packet in process(): the flow counts it.
LEMMA UpdateFacts ==
  ASSUME TypeOK, UpdateFlow
  PROVE  /\ pkt.key \in Tracked /\ pkt.key \in Keys /\ pkt.ts \in Int
         /\ Tracked' = Tracked
         /\ flows' \in [Tracked' -> FlowState]
         /\ flows'[pkt.key] = Counted
         /\ \A x \in Tracked \ {pkt.key} : flows'[x] = flows[x]
         /\ Cardinality(Tracked') = Cardinality(Tracked)
  <1>1. pkt.key \in Keys /\ pkt.key \in Tracked /\ pkt.ts \in Int
    BY DEF UpdateFlow, TypeOK
  <1>2. flows[pkt.key] \in FlowState
    BY <1>1 DEF TypeOK
  <1>3. Counted \in FlowState
    BY <1>1, <1>2 DEF FlowState, Counted
  <1>4. flows' = Store(pkt.key, Counted) /\ Tracked \cup {pkt.key} = Tracked
    BY <1>1 DEF UpdateFlow
  <1>5. /\ Tracked' = Tracked
        /\ flows' \in [Tracked' -> FlowState]
        /\ flows'[pkt.key] = Counted
        /\ \A x \in Tracked \ {pkt.key} : flows'[x] = flows[x]
    BY <1>1, <1>3, <1>4, StoreFacts
  <1> QED BY <1>1, <1>5

\* FIN or RST in process(): one flow less, and its End.
LEMMA TearDownFacts ==
  ASSUME TypeOK, NEW no, TearDownFlow(no)
  PROVE  /\ pkt.key \in Tracked /\ pkt.key \in Keys /\ pkt.ts \in Int
         /\ Tracked' = Tracked \ {pkt.key}
         /\ flows' \in [Tracked' -> FlowState]
         /\ \A x \in Tracked \ {pkt.key} : flows'[x] = flows[x]
         /\ Cardinality(Tracked') = Cardinality(Tracked) - 1
         /\ last' \in [Keys -> FlowEvent] /\ dropped' \in Nat
         /\ last'[pkt.key].type = "End" /\ last'[pkt.key].reason = "TcpTeardown"
         /\ last'[pkt.key].start = flows[pkt.key].start
         /\ last'[pkt.key].count = flows[pkt.key].count + 1
         /\ \A k \in Keys \ {pkt.key} : last'[k] = last[k]
  <1> DEFINE evt  == Event("End", Counted, pkt.ts, "TcpTeardown")
             evts == [x \in {pkt.key} |-> evt]
  <1>1. pkt.key \in Keys /\ pkt.key \in Tracked /\ pkt.ts \in Int
    BY DEF TearDownFlow, TypeOK
  <1>2. flows[pkt.key] \in FlowState
    BY <1>1 DEF TypeOK
  <1>3. Counted \in FlowState
    BY <1>1, <1>2 DEF FlowState, Counted
  <1>4. evts \in [{pkt.key} -> FlowEvent]
    BY <1>1, <1>3 DEF Event, FlowEvent, FlowState, Reasons
  <1>5. flows' = Erase({pkt.key}) /\ Emit(evts, no)
    BY DEF TearDownFlow
  <1>6. {pkt.key} \in SUBSET Tracked /\ Cardinality({pkt.key}) = 1
    BY <1>1, FS_Singleton
  <1>7. /\ Tracked' = Tracked \ {pkt.key}
        /\ flows' \in [Tracked' -> FlowState]
        /\ \A x \in Tracked \ {pkt.key} : flows'[x] = flows[x]
        /\ Cardinality(Tracked') = Cardinality(Tracked) - 1
    BY <1>5, <1>6, EraseFacts
  <1>8. /\ last' \in [Keys -> FlowEvent] /\ dropped' \in Nat
        /\ last'[pkt.key] = evt
        /\ \A k \in Keys \ {pkt.key} : last'[k] = last[k]
    BY <1>1, <1>4, <1>5, EmitFacts
  <1>9. /\ evt.type = "End" /\ evt.reason = "TcpTeardown"
        /\ evt.start = flows[pkt.key].start /\ evt.count = flows[pkt.key].count + 1
    BY DEF Event, Counted
  <1> QED BY <1>1, <1>7, <1>8, <1>9

\* drain_all(): an empty table, and an End for every flow.
LEMMA DrainFacts ==
  ASSUME TypeOK, NEW no, DrainAll(no)
  PROVE  /\ Tracked' = {} /\ flows' \in [Tracked' -> FlowState]
         /\ Cardinality(Tracked) \in Nat /\ Cardinality(Tracked') = 0
         /\ last' \in [Keys -> FlowEvent] /\ dropped' \in Nat
         /\ \A k \in Tracked : /\ last'[k].type = "End"
                               /\ last'[k].start = flows[k].start
                               /\ last'[k].count = flows[k].count
         /\ \A k \in Keys \ Tracked : last'[k] = last[k]
  <1> DEFINE evts == [x \in Tracked |-> Event("End", flows[x], dnow, "IdleTimeout")]
  <1>1. evts \in [Tracked -> FlowEvent] /\ Tracked \subseteq Keys
    BY DEF TypeOK, Event, FlowEvent, FlowState, Reasons
  <1>2. flows' = Erase(Tracked) /\ Emit(evts, no)
    BY DEF DrainAll
  <1>3. /\ Tracked' = {} /\ flows' \in [Tracked' -> FlowState]
        /\ Cardinality(Tracked) \in Nat /\ Cardinality(Tracked') = 0
    BY <1>2, EraseFacts, FS_EmptySet
  <1>4. /\ last' \in [Keys -> FlowEvent] /\ dropped' \in Nat
        /\ \A k \in Tracked : last'[k] = Event("End", flows[k], dnow, "IdleTimeout")
        /\ \A k \in Keys \ Tracked : last'[k] = last[k]
    BY <1>1, <1>2, EmitFacts
  <1> QED BY <1>3, <1>4, EventFields

\* timer_sweep(): the idle flows leave with an End; the others stay and, when
\* a heartbeat is due, emit Stats.
LEMMA SweepFacts ==
  ASSUME TypeOK, NEW no, TimerSweep(no)
  PROVE  /\ ToExpire \subseteq Tracked /\ Tracked \subseteq Keys
         /\ Tracked' = Tracked \ ToExpire
         /\ flows' \in [Tracked' -> FlowState]
         /\ \A k \in Tracked \ ToExpire : flows'[k] = flows[k]
         /\ Cardinality(ToExpire) \in Nat
         /\ Cardinality(Tracked') = Cardinality(Tracked) - Cardinality(ToExpire)
         /\ last' \in [Keys -> FlowEvent] /\ dropped' \in Nat
         /\ \A k \in ToExpire : last'[k] = Event("End", flows[k], tnow, "IdleTimeout")
         /\ EmitStats => \A k \in Tracked \ ToExpire :
                           last'[k] = Event("Stats", flows[k], tnow, "None")
         /\ ~ EmitStats => \A k \in Tracked \ ToExpire : last'[k] = last[k]
         /\ \A k \in Keys \ Tracked : last'[k] = last[k]
  <1> DEFINE E    == IF EmitStats THEN Tracked ELSE ToExpire
             evts == [x \in E |-> IF x \in ToExpire
                                  THEN Event("End", flows[x], tnow, "IdleTimeout")
                                  ELSE Event("Stats", flows[x], tnow, "None")]
  <1>1. /\ ToExpire \subseteq Tracked /\ Tracked \subseteq Keys
        /\ E \subseteq Tracked /\ ToExpire \subseteq E
    BY DEF TypeOK, ToExpire
  <1>2. evts \in [E -> FlowEvent]
    BY <1>1 DEF TypeOK, Event, FlowEvent, FlowState, Reasons
  <1>3. flows' = Erase(ToExpire) /\ Emit(evts, no)
    BY DEF TimerSweep
  <1>4. /\ Tracked' = Tracked \ ToExpire
        /\ flows' \in [Tracked' -> FlowState]
        /\ \A k \in Tracked \ ToExpire : flows'[k] = flows[k]
        /\ Cardinality(ToExpire) \in Nat
        /\ Cardinality(Tracked') = Cardinality(Tracked) - Cardinality(ToExpire)
    BY <1>1, <1>3, EraseFacts
  <1>5. /\ last' \in [Keys -> FlowEvent] /\ dropped' \in Nat
        /\ \A k \in E : last'[k] = evts[k]
        /\ \A k \in Keys \ E : last'[k] = last[k]
    BY <1>1, <1>2, <1>3, EmitFacts
  <1> QED BY <1>1, <1>4, <1>5

(***************************************************************************)
(* The inductive invariant.                                                *)
(***************************************************************************)
\* The empty table satisfies the inductive invariant.
LEMMA InitIInv == Init => IInv
  <1> SUFFICES ASSUME Init PROVE IInv
    OBVIOUS
  <1>1. Tracked = {}
    BY DEF Init, Tracked
  <1>2. TypeOK
    <2>1. NoEvent \in FlowEvent
      BY DEF NoEvent, FlowEvent, Reasons
    <2>2. flows \in [Tracked -> FlowState]
      BY <1>1 DEF Init, Tracked
    <2>3. expired \in [Reasons -> Nat] /\ last \in [Keys -> FlowEvent]
      BY <2>1 DEF Init
    <2>4. clock \in Nat /\ wake \in Int
      BY Configuration, EpochAssumption DEF Init
    <2>5. /\ Tracked \subseteq Keys /\ lastHeartbeat \in Nat /\ tnow \in Nat /\ dnow \in Nat
          /\ received \in Nat /\ dropped \in Nat /\ active \in Int /\ created \in Nat
      BY <1>1 DEF Init
    <2>6. /\ cpc \in {"run", "process", "drain", "drained", "done", "failed"}
          /\ cpc # "process" /\ tpc \in {"sleep", "call", "stopped"} /\ stop \in BOOLEAN
      BY DEF Init
    <2> QED BY <2>2, <2>3, <2>4, <2>5, <2>6 DEF TypeOK
  <1>3. PhaseInv
    BY <1>1 DEF Init, PhaseInv
  <1>4. Accounting
    BY <1>1, FS_EmptySet, TableAssumption DEF Init, Accounting, Reasons
  <1>5. LifeInv
    BY <1>1 DEF Init, LifeInv, NoEvent
  <1> QED BY <1>2, <1>3, <1>4, <1>5 DEF IInv

\* Every step of the two threads, and of time, preserves it.
LEMMA NextIInv == IInv /\ [Next]_vars => IInv'
  <1> SUFFICES ASSUME IInv, [Next]_vars PROVE IInv'
    OBVIOUS
  <1> USE TableAssumption
      DEF IInv, tableVars, timerVars, metrics, history
  <1>1. ASSUME NEW k \in Keys, NEW ts \in Stamps, NEW teardown \in BOOLEAN,
               Receive(k, ts, teardown)
        PROVE  IInv'
    <2>1. ts \in Int
      BY DEF Stamps, TypeOK
    <2>2. TypeOK'
      BY <1>1, <2>1 DEF Receive, TypeOK, Tracked
    <2>3. PhaseInv' /\ Accounting' /\ LifeInv'
      BY <1>1 DEF Receive, PhaseInv, Accounting, LifeInv, Tracked
    <2> QED BY <2>2, <2>3
  <1>2. CASE RejectFlow
    <2>1. TypeOK'
      BY <1>2 DEF RejectFlow, Return, TypeOK, Tracked
    <2>2. PhaseInv' /\ Accounting' /\ LifeInv'
      BY <1>2 DEF RejectFlow, Return, PhaseInv, Accounting, LifeInv, Tracked
    <2> QED BY <2>1, <2>2
  <1>3. ASSUME NEW no, CreateFlow(no) PROVE IInv'
    <2>1. TypeOK'
      BY <1>3, CreateFacts DEF CreateFlow, Return, TypeOK
    <2>2. PhaseInv'
      BY <1>3 DEF CreateFlow, Return, PhaseInv
    <2>3. Accounting'
      BY <1>3, CreateFacts, TrackedFinite DEF CreateFlow, Return, Accounting, TypeOK, Reasons
    <2>4. LifeInv'
      BY <1>3, CreateFacts DEF LifeInv
    <2> QED BY <2>1, <2>2, <2>3, <2>4
  <1>4. CASE UpdateFlow
    <2>1. TypeOK'
      BY <1>4, UpdateFacts DEF UpdateFlow, Return, TypeOK
    <2>2. PhaseInv' /\ Accounting'
      BY <1>4, UpdateFacts DEF UpdateFlow, Return, PhaseInv, Accounting
    <2>3. /\ Counted.start = flows[pkt.key].start /\ Counted.count = flows[pkt.key].count + 1
          /\ flows[pkt.key].count \in Nat /\ last[pkt.key].count \in Nat
      BY <1>4, UpdateFacts DEF Counted, TypeOK, FlowState, FlowEvent
    <2>4. LifeInv'
      BY <1>4, <2>3, UpdateFacts DEF UpdateFlow, LifeInv
    <2> QED BY <2>1, <2>2, <2>4
  <1>5. ASSUME NEW no, TearDownFlow(no) PROVE IInv'
    <2>1. TypeOK'
      <3>1. expired' \in [Reasons -> Nat]
        BY <1>5 DEF TearDownFlow, TypeOK, Reasons
      <3>2. active' \in Int /\ cpc' = "run" /\ Tracked' \subseteq Keys
        BY <1>5, TearDownFacts DEF TearDownFlow, Return, TypeOK
      <3> QED BY <1>5, <3>1, <3>2, TearDownFacts DEF TearDownFlow, Return, TypeOK
    <2>2. PhaseInv'
      BY <1>5 DEF TearDownFlow, Return, PhaseInv
    <2>3. Accounting'
      BY <1>5, TearDownFacts, TrackedFinite DEF TearDownFlow, Return, Accounting, TypeOK, Reasons
    <2>4. LifeInv'
      BY <1>5, TearDownFacts DEF LifeInv
    <2> QED BY <2>1, <2>2, <2>3, <2>4
  <1>6. CASE EndCapture \/ FailCapture \/ RequestStop
    <2>1. TypeOK'
      BY <1>6 DEF EndCapture, FailCapture, RequestStop, TypeOK, Tracked
    <2>2. PhaseInv'
      BY <1>6 DEF EndCapture, FailCapture, RequestStop, TypeOK, PhaseInv, Tracked
    <2>3. Accounting' /\ LifeInv'
      BY <1>6 DEF EndCapture, FailCapture, RequestStop, Accounting, LifeInv, Tracked
    <2> QED BY <2>1, <2>2, <2>3
  <1>7. ASSUME NEW no, DrainAll(no) PROVE IInv'
    <2>1. TypeOK'
      BY <1>7, DrainFacts DEF DrainAll, TypeOK, Reasons
    <2>2. PhaseInv'
      BY <1>7, DrainFacts DEF DrainAll, PhaseInv
    <2>3. Accounting'
      BY <1>7, DrainFacts DEF DrainAll, Accounting, TypeOK, Reasons
    <2>4. LifeInv'
      BY <1>7, DrainFacts DEF LifeInv, TypeOK
    <2> QED BY <2>1, <2>2, <2>3, <2>4
  <1>8. CASE TimerWake
    BY <1>8 DEF TimerWake, TypeOK, PhaseInv, Accounting, LifeInv, Tracked
  <1>9. ASSUME NEW no, TimerSweep(no) PROVE IInv'
    <2>1. TypeOK'
      <3>1. wake' \in Int
        BY <1>9, Configuration DEF TimerSweep, TypeOK
      <3>2. expired' \in [Reasons -> Nat]
        BY <1>9, SweepFacts DEF TimerSweep, TypeOK, Reasons
      <3> QED BY <1>9, <3>1, <3>2, SweepFacts DEF TimerSweep, TypeOK
    <2>2. PhaseInv'
      BY <1>9, SweepFacts DEF TimerSweep, PhaseInv
    <2>3. Accounting'
      BY <1>9, SweepFacts, TrackedFinite DEF TimerSweep, Accounting, TypeOK, Reasons
    <2>4. LifeInv'
      <3>1. \A k \in ToExpire : last'[k].type = "End"
        BY <1>9, SweepFacts, EventFields
      <3>2. EmitStats => \A k \in Tracked \ ToExpire :
              /\ last'[k].type = "Stats"
              /\ last'[k].start = flows[k].start /\ last'[k].count = flows[k].count
        BY <1>9, SweepFacts, EventFields
      <3>3. \A k \in Tracked : flows[k].count \in Nat
        BY DEF TypeOK, FlowState
      <3> QED BY <1>9, <3>1, <3>2, <3>3, SweepFacts DEF LifeInv
    <2> QED BY <2>1, <2>2, <2>3, <2>4
  <1>10. CASE Tick
    <2>1. TypeOK'
      BY <1>10 DEF Tick, TypeOK, Tracked
    <2>2. PhaseInv' /\ Accounting' /\ LifeInv'
      BY <1>10 DEF Tick, PhaseInv, Accounting, LifeInv, Tracked
    <2> QED BY <2>1, <2>2
  <1>11. ASSUME NEW t \in ClockSets, SetClock(t) PROVE IInv'
    <2>1. TypeOK'
      BY <1>11 DEF SetClock, TypeOK, Tracked
    <2>2. PhaseInv' /\ Accounting' /\ LifeInv'
      BY <1>11 DEF SetClock, PhaseInv, Accounting, LifeInv, Tracked
    <2> QED BY <2>1, <2>2
  <1>12. CASE Finished \/ UNCHANGED vars
    <2>1. TypeOK'
      BY <1>12 DEF Finished, vars, TypeOK, Tracked
    <2>2. PhaseInv' /\ Accounting' /\ LifeInv'
      BY <1>12 DEF Finished, vars, PhaseInv, Accounting, LifeInv, Tracked
    <2> QED BY <2>1, <2>2
  <1> QED
    BY <1>1, <1>2, <1>3, <1>4, <1>5, <1>6, <1>7, <1>8, <1>9, <1>10, <1>11, <1>12
    DEF Next, CaptureNext, TimerNext

\* The inductive invariant holds in every reachable state.
LEMMA Invariant == Spec => []IInv
  BY InitIInv, NextIInv, PTL DEF Spec

\* Whatever is decoded, swept or refused, every variable keeps its type.
THEOREM TypeCorrect == Spec => []TypeOK
  <1>1. IInv => TypeOK
    BY DEF IInv
  <1> QED BY Invariant, <1>1, PTL

\* The exported counters always describe the table, and the table never
\* holds more than max_flows flows, for every max_flows.
THEOREM AccountingCorrect == Spec => []Accounting
  <1>1. IInv => Accounting
    BY DEF IInv
  <1> QED BY Invariant, <1>1, PTL

\* After drain_all() every flow that started has ended.
THEOREM AllFlowsEnd == Spec => []EveryFlowEnded
  <1>1. IInv => EveryFlowEnded
    <2> SUFFICES ASSUME IInv, cpc \in {"drained", "done"}, NEW k \in Keys PROVE Life!Closed(k)
      BY DEF EveryFlowEnded
    <2>1. last[k].type \in {"None", "Start", "Stats", "End"} /\ k \notin Tracked
      BY DEF IInv, TypeOK, PhaseInv, FlowEvent
    <2> QED BY <2>1 DEF IInv, LifeInv, Life!Closed
  <1> QED BY Invariant, <1>1, PTL

\* The events of every key are Start Stats* End lives.
THEOREM LivesAreWellFormed == Spec => WellFormedLives
  <1>1. Init => Life!LifeInit
    BY DEF Init, Life!LifeInit, NoEvent
  <1>2. IInv /\ [Next]_vars => [Life!LifeNext]_last
    <2> SUFFICES ASSUME IInv, [Next]_vars PROVE Life!LifeNext \/ last' = last
      OBVIOUS
    <2> USE DEF IInv, history
    <2>1. \A k \in Keys : last[k].type \in {"None", "Start", "Stats", "End"}
      BY DEF TypeOK, FlowEvent
    <2>2. ASSUME NEW no, CreateFlow(no) PROVE Life!LifeNext
      BY <2>1, <2>2, CreateFacts DEF LifeInv, Life!LifeNext, Life!Starts, Life!Closed
    <2>3. ASSUME NEW no, TearDownFlow(no) PROVE Life!LifeNext
      <3>1. flows[pkt.key].count \in Nat /\ last[pkt.key].count \in Nat
        BY <2>3, TearDownFacts DEF TypeOK, FlowState, FlowEvent
      <3>2. Life!Continues(pkt.key)
        BY <2>3, <3>1, TearDownFacts DEF LifeInv, Life!Continues, Life!Open
      <3> QED BY <2>3, <3>2, TearDownFacts DEF Life!LifeNext
    <2>4. ASSUME NEW no, DrainAll(no) PROVE Life!LifeNext
      <3>1. \A k \in Tracked : Life!Continues(k)
        BY <2>4, DrainFacts DEF TypeOK, LifeInv, Life!Continues, Life!Open
      <3> QED BY <2>4, <3>1, DrainFacts DEF Life!LifeNext
    <2>5. ASSUME NEW no, TimerSweep(no) PROVE Life!LifeNext
      <3>1. \A k \in ToExpire : /\ last'[k].type = "End"
                                /\ last'[k].start = flows[k].start
                                /\ last'[k].count = flows[k].count
        BY <2>5, SweepFacts, EventFields
      <3>2. EmitStats => \A k \in Tracked \ ToExpire :
              /\ last'[k].type = "Stats"
              /\ last'[k].start = flows[k].start /\ last'[k].count = flows[k].count
        BY <2>5, SweepFacts, EventFields
      <3>3. /\ \A k \in ToExpire : Life!Continues(k)
            /\ EmitStats => \A k \in Tracked \ ToExpire : Life!Continues(k)
        BY <2>5, <3>1, <3>2, SweepFacts DEF LifeInv, Life!Continues, Life!Open
      <3> QED BY <2>5, <3>3, SweepFacts DEF Life!LifeNext
    <2>6. CASE \/ RejectFlow \/ UpdateFlow \/ EndCapture \/ FailCapture \/ RequestStop
               \/ TimerWake \/ Tick \/ (\E t \in ClockSets : SetClock(t))
               \/ Finished \/ UNCHANGED vars
               \/ \E k \in Keys, ts \in Stamps, teardown \in BOOLEAN : Receive(k, ts, teardown)
      BY <2>6 DEF RejectFlow, UpdateFlow, EndCapture, FailCapture, RequestStop, TimerWake,
                  Tick, SetClock, Finished, Receive, vars
    <2> QED BY <2>2, <2>3, <2>4, <2>5, <2>6 DEF Next, CaptureNext, TimerNext
  <1> QED BY <1>1, <1>2, Invariant, PTL DEF Spec, WellFormedLives, Life!LifeSpec

-----------------------------------------------------------------------------
(***************************************************************************)
(* Time.  The argument goes through Deadline, the latest moment at which   *)
(* the sweep that comes next can take the lock: it only moves forward when *)
(* a sweep takes place, and a sweep leaves no idle flow behind.  All of it *)
(* supposes that nobody sets the clock.                                    *)
(***************************************************************************)
Deadline == IF tpc = "sleep" THEN wake + 2 * Jitter ELSE tnow + Jitter

\* last_heartbeat_us_, or the start of the program while it is still 0.
Heartbeat == IF lastHeartbeat = 0 THEN Epoch ELSE lastHeartbeat

ClockInv ==
  /\ clock >= Epoch /\ Heartbeat <= clock
  /\ tpc = "sleep" => clock <= wake + Jitter /\ wake <= clock + Interval
  /\ tpc = "call"  => /\ tnow >= Epoch /\ tnow >= Heartbeat
                      /\ tnow <= clock /\ clock <= tnow + Jitter
  /\ (Live /\ cpc = "process") => clock <= pkt.ts + MaxLag

Swept == Live /\ cpc # "failed" /\ tpc # "stopped"

ExpiryInv ==
  Swept => \A k \in Tracked : Deadline - flows[k].seen < IdleTimeout + Interval + 3 * Jitter

HeartbeatInv ==
  Swept => /\ Deadline - Heartbeat < StatsInterval + Interval + 3 * Jitter
           /\ \A k \in Tracked : last[k].at >= Heartbeat - MaxLag

\* Until drain_all(), which uses the same reason, an idle End is the work of
\* a sweep that found the flow idle.
IdleInv ==
  cpc \notin {"drained", "done"} =>
    \A k \in Keys : (last[k].type = "End" /\ last[k].reason = "IdleTimeout") =>
                      last[k].at - last[k].seen >= IdleTimeout /\ last[k].at <= clock

TimeInv == ClockInv /\ ExpiryInv /\ HeartbeatInv /\ IdleInv

SteadyTimeInv == ClockSets = {} => TimeInv

\* The invariant about time holds at the start.
LEMMA InitTimeInv == Init => TimeInv
  <1> SUFFICES ASSUME Init PROVE TimeInv
    OBVIOUS
  <1> USE Configuration, TableAssumption, EpochAssumption
  <1>1. Tracked = {}
    BY DEF Init, Tracked
  <1>2. ClockInv
    BY DEF Init, ClockInv, Heartbeat
  <1>3. ExpiryInv
    BY <1>1 DEF ExpiryInv
  <1>4. HeartbeatInv
    <2>1. StatsInterval > 0
      BY DEF StatsInterval
    <2> QED BY <1>1, <2>1 DEF Init, HeartbeatInv, Heartbeat, Deadline
  <1>5. IdleInv
    BY DEF Init, IdleInv, NoEvent
  <1> QED BY <1>2, <1>3, <1>4, <1>5 DEF TimeInv

\* Every step of the two threads, and of time, preserves the invariant
\* about time.
LEMMA NextTimeInv == ClockSets = {} /\ IInv /\ TimeInv /\ [Next]_vars => TimeInv'
  <1> SUFFICES ASSUME ClockSets = {}, IInv, TimeInv, [Next]_vars PROVE TimeInv'
    OBVIOUS
  <1> USE Configuration, TableAssumption, EpochAssumption
      DEF IInv, TimeInv, tableVars, timerVars, metrics, history
  <1>0. /\ clock \in Nat /\ wake \in Int /\ tnow \in Nat /\ lastHeartbeat \in Nat
        /\ Deadline \in Int /\ Heartbeat \in Nat
        /\ \A k \in Tracked : k \in Keys /\ flows[k].seen \in Int
        /\ \A k \in Keys : last[k].at \in Int /\ last[k].seen \in Int
    BY DEF TypeOK, FlowState, FlowEvent, Deadline, Heartbeat
  <1>1. ASSUME NEW k \in Keys, NEW ts \in Stamps, NEW teardown \in BOOLEAN,
               Receive(k, ts, teardown)
        PROVE  TimeInv'
    <2>1. ClockInv'
      <3>1. Live => ts \in Int /\ ts >= clock - MaxLag
        BY <1>0 DEF Stamps
      <3>2. pkt'.ts = ts
        BY <1>1 DEF Receive
      <3> QED BY <1>0, <1>1, <3>1, <3>2 DEF Receive, ClockInv, Heartbeat
    <2>2. ExpiryInv' /\ HeartbeatInv' /\ IdleInv'
      BY <1>1 DEF Receive, ExpiryInv, HeartbeatInv, IdleInv, Swept, Deadline, Heartbeat, Tracked
    <2> QED BY <2>1, <2>2
  <1>2. CASE RejectFlow
    BY <1>2 DEF RejectFlow, Return, ClockInv, ExpiryInv, HeartbeatInv, IdleInv, Swept, Deadline,
                Heartbeat, Tracked
  <1>3. Live /\ cpc = "process" =>
          /\ pkt.ts \in Int /\ pkt.ts >= clock - MaxLag
          /\ Swept => Deadline - pkt.ts < IdleTimeout + Interval + 3 * Jitter
    <2> SUFFICES ASSUME Live, cpc = "process"
                 PROVE  /\ pkt.ts \in Int /\ pkt.ts >= clock - MaxLag
                        /\ Swept => Deadline - pkt.ts < IdleTimeout + Interval + 3 * Jitter
      OBVIOUS
    <2>1. pkt.ts \in Int /\ pkt.ts >= clock - MaxLag
      BY <1>0 DEF ClockInv, TypeOK
    <2>2. Swept => Deadline <= clock + Interval + 2 * Jitter
      BY <1>0 DEF ClockInv, Deadline, Swept, TypeOK
    <2> QED BY <1>0, <2>1, <2>2
  <1>4. ASSUME NEW no, CreateFlow(no) PROVE TimeInv'
    <2>1. ClockInv' /\ UNCHANGED <<Deadline, Heartbeat>> /\ (Swept' => Swept) /\ cpc = "process"
      BY <1>4 DEF CreateFlow, Return, ClockInv, Heartbeat, Deadline, Swept
    <2>2. ExpiryInv'
      <3>1. flows'[pkt.key].seen = pkt.ts
        BY <1>4, CreateFacts
      <3> QED BY <1>3, <1>4, <2>1, <3>1, CreateFacts DEF ExpiryInv, Swept
    <2>3. HeartbeatInv'
      <3>1. Live => pkt.ts >= Heartbeat - MaxLag
        BY <1>0, <1>3, <2>1 DEF ClockInv
      <3>2. \A k \in Tracked : last'[k] = last[k]
        BY <1>0, <1>4, CreateFacts
      <3> QED BY <1>4, <2>1, <3>1, <3>2, CreateFacts DEF HeartbeatInv, Swept
    <2>4. IdleInv'
      BY <1>4, CreateFacts DEF CreateFlow, Return, IdleInv
    <2> QED BY <2>1, <2>2, <2>3, <2>4
  <1>5. CASE UpdateFlow
    <2>1. ClockInv' /\ UNCHANGED <<Deadline, Heartbeat, last>> /\ (Swept' => Swept)
          /\ cpc = "process"
      BY <1>5 DEF UpdateFlow, Return, ClockInv, Heartbeat, Deadline, Swept
    <2>2. ExpiryInv'
      <3>1. flows'[pkt.key].seen = pkt.ts
        BY <1>5, UpdateFacts DEF Counted
      <3> QED BY <1>3, <1>5, <2>1, <3>1, UpdateFacts DEF ExpiryInv, Swept
    <2>3. HeartbeatInv' /\ IdleInv'
      BY <1>5, <2>1, UpdateFacts DEF UpdateFlow, Return, HeartbeatInv, IdleInv
    <2> QED BY <2>1, <2>2, <2>3
  <1>6. ASSUME NEW no, TearDownFlow(no) PROVE TimeInv'
    <2>1. ClockInv' /\ UNCHANGED <<Deadline, Heartbeat>> /\ (Swept' => Swept)
      BY <1>6 DEF TearDownFlow, Return, ClockInv, Heartbeat, Deadline, Swept
    <2>2. ExpiryInv'
      BY <1>6, <2>1, TearDownFacts DEF ExpiryInv
    <2>3. HeartbeatInv'
      BY <1>0, <1>6, <2>1, TearDownFacts DEF HeartbeatInv
    <2>4. IdleInv'
      BY <1>6, TearDownFacts DEF TearDownFlow, Return, IdleInv
    <2> QED BY <2>1, <2>2, <2>3, <2>4
  <1>7. CASE EndCapture \/ FailCapture
    BY <1>7 DEF EndCapture, FailCapture, ClockInv, ExpiryInv, HeartbeatInv, IdleInv, Swept,
                Deadline, Heartbeat, Tracked
  <1>8. CASE RequestStop
    BY <1>8 DEF RequestStop, ClockInv, ExpiryInv, HeartbeatInv, IdleInv, Swept, Deadline,
                Heartbeat, Tracked
  <1>9. ASSUME NEW no, DrainAll(no) PROVE TimeInv'
    <2>1. ClockInv' /\ UNCHANGED <<Deadline, Heartbeat>> /\ (Swept' => Swept)
      BY <1>9 DEF DrainAll, ClockInv, Heartbeat, Deadline, Swept
    <2>2. Tracked' = {} /\ cpc' = "drained"
      BY <1>9, DrainFacts DEF DrainAll
    <2> QED BY <2>1, <2>2 DEF ExpiryInv, HeartbeatInv, IdleInv
  <1>10. CASE TimerWake
    <2>1. UNCHANGED <<flows, last, Heartbeat, clock, cpc, pkt>> /\ (Swept' => Swept)
      BY <1>10 DEF TimerWake, Heartbeat, Swept
    <2>2. ClockInv'
      BY <1>0, <1>10, <2>1 DEF TimerWake, ClockInv, Heartbeat
    <2>3. Swept' => Deadline' \in Int /\ Deadline' <= Deadline
      BY <1>0, <1>10 DEF TimerWake, ClockInv, Deadline, Swept
    <2>4. ExpiryInv' /\ HeartbeatInv'
      BY <1>0, <2>1, <2>3 DEF ExpiryInv, HeartbeatInv, Tracked
    <2>5. IdleInv'
      BY <2>1 DEF IdleInv
    <2> QED BY <2>2, <2>4, <2>5
  <1>11. ASSUME NEW no, TimerSweep(no) PROVE TimeInv'
    <2>1. /\ tpc = "call" /\ tnow >= Epoch /\ tnow >= Heartbeat
          /\ tnow <= clock /\ clock <= tnow + Jitter
          /\ UNCHANGED <<clock, cpc, pkt, tnow>>
          /\ wake' = clock + Interval /\ tpc' \in {"sleep", "stopped"}
          /\ lastHeartbeat' = IF EmitStats THEN tnow ELSE lastHeartbeat
      BY <1>11 DEF TimerSweep, ClockInv
    <2>2. EmitStats => Heartbeat' = tnow
      BY <2>1, <1>0 DEF Heartbeat
    <2>3. ~ EmitStats => Heartbeat' = Heartbeat /\ tnow - Heartbeat < StatsInterval
      BY <2>1, <1>0 DEF Heartbeat, EmitStats
    <2>4. ClockInv'
      BY <1>0, <2>1, <2>2, <2>3 DEF ClockInv
    <2>5. Swept' => Swept /\ Deadline' = clock + Interval + 2 * Jitter
      BY <1>0, <2>1 DEF Swept, Deadline
    <2>6. ExpiryInv'
      <3>1. \A k \in Tracked \ ToExpire : tnow - flows[k].seen < IdleTimeout
        BY <1>0 DEF ToExpire
      <3> QED BY <1>0, <1>11, <2>1, <2>5, <3>1, SweepFacts DEF ExpiryInv
    <2>7. HeartbeatInv'
      <3>1. Swept' => Deadline' - Heartbeat' < StatsInterval + Interval + 3 * Jitter
        <4>1. StatsInterval > 0
          BY DEF StatsInterval
        <4> QED BY <1>0, <2>1, <2>2, <2>3, <2>5, <4>1
      <3>2. EmitStats => \A k \in Tracked \ ToExpire : last'[k].at = tnow
        BY <1>11, SweepFacts, EventFields
      <3>3. Swept' => \A k \in Tracked \ ToExpire : last'[k].at >= Heartbeat' - MaxLag
        BY <1>0, <1>11, <2>2, <2>3, <2>5, <3>2, SweepFacts DEF HeartbeatInv
      <3> QED BY <1>11, <3>1, <3>3, SweepFacts DEF HeartbeatInv
    <2>8. IdleInv'
      <3>1. \A k \in ToExpire : last'[k].at = tnow /\ last'[k].seen = flows[k].seen
        BY <1>11, SweepFacts, EventFields
      <3>2. \A k \in ToExpire : tnow - flows[k].seen >= IdleTimeout
        BY DEF ToExpire
      <3>3. EmitStats => \A k \in Tracked \ ToExpire : last'[k].type # "End"
        BY <1>11, SweepFacts, EventFields
      <3> QED BY <1>11, <2>1, <3>1, <3>2, <3>3, SweepFacts DEF IdleInv
    <2> QED BY <2>4, <2>6, <2>7, <2>8
  <1>12. CASE Tick
    <2>1. clock' = clock + 1 /\ tpc # "stopped"
          /\ UNCHANGED <<flows, last, Heartbeat, Deadline, cpc, pkt, Swept>>
      BY <1>12 DEF Tick, Heartbeat, Deadline, Swept
    <2>2. ClockInv'
      BY <1>0, <1>12, <2>1 DEF Tick, ClockInv, TypeOK
    <2>3. ExpiryInv' /\ HeartbeatInv'
      BY <2>1 DEF ExpiryInv, HeartbeatInv, Tracked
    <2>4. IdleInv'
      BY <1>0, <2>1 DEF IdleInv
    <2> QED BY <2>2, <2>3, <2>4
  <1>13. CASE Finished \/ UNCHANGED vars
    BY <1>13 DEF Finished, vars, ClockInv, ExpiryInv, HeartbeatInv, IdleInv, Swept, Deadline,
                 Heartbeat, Tracked
  <1> QED
    BY <1>1, <1>2, <1>4, <1>5, <1>6, <1>7, <1>8, <1>9, <1>10, <1>11, <1>12, <1>13
    DEF Next, CaptureNext, TimerNext

\* Both invariants hold in every reachable state, the second one if nobody
\* sets the clock.
LEMMA TimeInvariant == Spec => [](IInv /\ SteadyTimeInv)
  <1>1. Init => SteadyTimeInv
    BY InitTimeInv DEF SteadyTimeInv
  <1>2. IInv /\ SteadyTimeInv /\ [Next]_vars => SteadyTimeInv'
    BY NextTimeInv DEF SteadyTimeInv
  <1> QED BY <1>1, <1>2, Invariant, PTL DEF Spec

\* While there are flows the timer thread is alive, and the clock has not
\* passed the end of its next sweep.
LEMMA ClockBeforeDeadline ==
  ASSUME IInv, TimeInv, Live, cpc # "failed", Tracked # {}
  PROVE  Swept /\ clock \in Nat /\ Deadline \in Int /\ clock <= Deadline
  <1>1. Swept
    BY DEF IInv, PhaseInv, Swept, TypeOK
  <1> QED BY <1>1, TableAssumption DEF IInv, TypeOK, TimeInv, ClockInv, Swept, Deadline

\* A flow is gone one timer interval and three delays after its timeout at
\* the latest, for every configuration.
THEOREM ExpiryIsTimely == Spec => []TimelyExpiry
  <1>1. IInv /\ SteadyTimeInv => TimelyExpiry
    <2> SUFFICES ASSUME IInv, TimeInv, Live, cpc # "failed", NEW k \in Tracked
                 PROVE  clock - flows[k].seen < IdleTimeout + Interval + 3 * Jitter
      BY DEF TimelyExpiry, OneClock, SteadyTimeInv
    <2>1. flows[k].seen \in Int
      BY DEF IInv, TypeOK, FlowState
    <2> QED BY <2>1, ClockBeforeDeadline, Configuration, TableAssumption DEF TimeInv, ExpiryInv
  <1> QED BY TimeInvariant, <1>1, PTL

\* A tracked flow has emitted something at most stats_interval, one timer
\* interval and the delays ago, for every configuration.
THEOREM HeartbeatIsTimely == Spec => []TimelyHeartbeat
  <1>1. IInv /\ SteadyTimeInv => TimelyHeartbeat
    <2> SUFFICES ASSUME IInv, TimeInv, Live, cpc # "failed", NEW k \in Tracked
                 PROVE  clock - last[k].at < StatsInterval + Interval + 3 * Jitter + MaxLag
      BY DEF TimelyHeartbeat, OneClock, SteadyTimeInv
    <2>1. last[k].at \in Int /\ Heartbeat \in Nat
      BY EpochAssumption DEF IInv, TypeOK, FlowEvent, Heartbeat
    <2> QED BY <2>1, ClockBeforeDeadline, Configuration, TableAssumption
            DEF TimeInv, HeartbeatInv
  <1> QED BY TimeInvariant, <1>1, PTL

\* Live capture never splits a flow whose packets are less than the idle
\* timeout, minus the age of the packets in flight, apart.
THEOREM NoFlowIsSplit == Spec => NoEarlyExpiry
  <1>1. IInv /\ SteadyTimeInv /\ [Next]_vars => [OneClock => IdleMeansIdle(MaxLag)]_vars
    <2> SUFFICES ASSUME IInv, TimeInv, Next, Live, NEW k \in Keys,
                        last[k].type = "End", last[k].reason = "IdleTimeout",
                        last'[k].type = "Start"
                 PROVE  last'[k].start - last[k].seen >= IdleTimeout - MaxLag
      BY DEF IdleMeansIdle, OneClock, SteadyTimeInv
    <2> USE DEF IInv, TimeInv, history
    <2>1. ASSUME NEW no, CreateFlow(no)
          PROVE  last'[k].start - last[k].seen >= IdleTimeout - MaxLag
      <3>1. k = pkt.key /\ last'[k].start = pkt.ts /\ pkt.ts \in Int
        BY <2>1, CreateFacts
      <3>2. cpc = "process" /\ clock <= pkt.ts + MaxLag
        BY <2>1 DEF CreateFlow, ClockInv
      <3>3. last[k].at - last[k].seen >= IdleTimeout /\ last[k].at <= clock
        BY <3>2 DEF IdleInv
      <3>4. last[k].at \in Int /\ last[k].seen \in Int /\ clock \in Nat
        BY DEF TypeOK, FlowEvent
      <3> QED BY <3>1, <3>2, <3>3, <3>4, Configuration, TableAssumption
    <2>2. ASSUME NEW no, TearDownFlow(no) PROVE FALSE
      BY <2>2, TearDownFacts
    <2>3. ASSUME NEW no, DrainAll(no) PROVE FALSE
      BY <2>3, DrainFacts
    <2>4. ASSUME NEW no, TimerSweep(no) PROVE FALSE
      BY <2>4, SweepFacts, EventFields
    <2>5. ASSUME UNCHANGED last PROVE FALSE
      BY <2>5
    <2>6. CASE \/ RejectFlow \/ UpdateFlow \/ EndCapture \/ FailCapture \/ RequestStop
               \/ TimerWake \/ Tick \/ (\E t \in ClockSets : SetClock(t)) \/ Finished
               \/ \E x \in Keys, ts \in Stamps, teardown \in BOOLEAN : Receive(x, ts, teardown)
      <3>1. UNCHANGED last
        BY <2>6 DEF RejectFlow, UpdateFlow, EndCapture, FailCapture, RequestStop, TimerWake,
                    Tick, SetClock, Finished, Receive, vars
      <3> QED BY <2>5, <3>1
    <2> QED BY <2>1, <2>2, <2>3, <2>4, <2>6 DEF Next, CaptureNext, TimerNext
  <1> QED BY TimeInvariant, <1>1, PTL DEF Spec, NoEarlyExpiry

-----------------------------------------------------------------------------
(***************************************************************************)
(* Packets: sums over the table.                                           *)
(***************************************************************************)
\* The packets counted in the flows ks of a table fl.
Packets(fl, ks) == SumOver([k \in ks |-> fl[k].count], ks)

\* A table is a part of it and the rest, and one flow is its own count.
LEMMA PacketsSplit ==
  ASSUME NEW fl, NEW S, IsFiniteSet(S), \A k \in S : fl[k].count \in Nat, NEW T \in SUBSET S
  PROVE  /\ Packets(fl, S) \in Nat /\ Packets(fl, T) \in Nat /\ Packets(fl, S \ T) \in Nat
         /\ Packets(fl, S) = Packets(fl, T) + Packets(fl, S \ T)
  <1>1. PICK f : f = [k \in S |-> fl[k].count]
    OBVIOUS
  <1>2. \A x \in S : f[x] = fl[x].count /\ f[x] \in Nat
    BY <1>1
  <1>3. ASSUME NEW R \in SUBSET S PROVE Packets(fl, R) = SumOver(f, R) /\ SumOver(f, R) \in Nat
    <2>1. IsFiniteSet(R) /\ \A x \in R : f[x] \in Nat
      BY <1>2, <1>3, FS_Subset
    <2>2. PICK e : e = [k \in R |-> fl[k].count]
      OBVIOUS
    <2>3. \A x \in R : e[x] = f[x]
      BY <1>2, <1>3, <2>2
    <2>4. SumOver(e, R) = SumOver(f, R)
      BY <2>1, <2>3, SumAgrees
    <2>5. Packets(fl, R) = SumOver(e, R)
      BY <2>2 DEF Packets
    <2> QED BY <2>1, <2>4, <2>5, SumRemove
  <1>4. SumOver(f, S) = SumOver(f, T) + SumOver(f, S \ T)
    BY <1>2, SumSplit
  <1>5. S \in SUBSET S /\ S \ T \in SUBSET S
    OBVIOUS
  <1> QED BY <1>3, <1>4, <1>5

LEMMA PacketsOfOne ==
  ASSUME NEW fl, NEW k, fl[k].count \in Nat
  PROVE  Packets(fl, {k}) = fl[k].count /\ Packets(fl, {}) = 0
  <1>1. PICK f : f = [x \in {k} |-> fl[x].count]
    OBVIOUS
  <1>2. f[k] = fl[k].count /\ f[k] \in Nat
    BY <1>1
  <1>3. IsFiniteSet({}) /\ {} \cup {k} = {k} /\ k \notin {}
    BY FS_EmptySet
  <1>4. \A g : SumOver(g, {}) = 0
    BY <1>3, SumStep
  <1>5. \A x \in {} \cup {k} : f[x] \in Nat
    BY <1>2
  <1>6. SumOver(f, {} \cup {k}) = SumOver(f, {}) + f[k]
    BY <1>3, <1>5, SumAdd
  <1>7. SumOver(f, {k}) = f[k]
    BY <1>2, <1>3, <1>4, <1>6
  <1> QED BY <1>1, <1>2, <1>4, <1>7 DEF Packets

\* Tables that agree on ks count the same.
LEMMA PacketsAgree ==
  ASSUME NEW fl, NEW gl, NEW ks, \A k \in ks : fl[k] = gl[k]
  PROVE  Packets(fl, ks) = Packets(gl, ks)
  <1>1. [k \in ks |-> fl[k].count] = [k \in ks |-> gl[k].count]
    OBVIOUS
  <1> QED BY <1>1, Zenon DEF Packets

CountInv == closed \in Nat /\ refused \in Nat /\ PacketConservation

\* What is known of the counters in a step.
LEMMA CountFacts ==
  ASSUME IInv
  PROVE  /\ IsFiniteSet(Tracked) /\ \A k \in Tracked : flows[k].count \in Nat
         /\ received \in Nat /\ dropped \in Nat
         /\ \A ks : PacketsOf(ks) = Packets(flows, ks)
  <1>1. IsFiniteSet(Tracked)
    BY TrackedFinite DEF IInv, TypeOK
  <1>2. \A k \in Tracked : flows[k].count \in Nat
    BY DEF IInv, TypeOK, FlowState
  <1>3. \A ks : PacketsOf(ks) = Packets(flows, ks)
    BY DEF PacketsOf, Packets, SumOver
  <1> QED BY <1>1, <1>2, <1>3 DEF IInv, TypeOK

\* The equation between the counters, in numbers.
LEMMA CountNext ==
  ASSUME IInv, IInv', CountInv, NEW in \in Nat, NEW more \in Nat, NEW lost \in Nat, NEW out \in Nat,
         received' = received + in, refused' = refused + more, dropped' = dropped + more + lost,
         closed' = closed + out,
         Packets(flows', Tracked') + out + lost + (IF cpc' = "process" THEN 1 ELSE 0)
           = Packets(flows, Tracked) + in + (IF cpc = "process" THEN 1 ELSE 0)
  PROVE  CountInv'
  <1>1. PacketsOf(Tracked) = Packets(flows, Tracked) /\ PacketsOf(Tracked)' = Packets(flows', Tracked')
    BY DEF PacketsOf, Packets, SumOver
  <1>2. PICK a, b, p, q \in Nat :
          /\ a = Packets(flows, Tracked) /\ b = Packets(flows', Tracked')
          /\ p = (IF cpc = "process" THEN 1 ELSE 0) /\ q = (IF cpc' = "process" THEN 1 ELSE 0)
    <2>1. Packets(flows, Tracked) \in Nat
      <3>1. IsFiniteSet(Tracked) /\ (\A k \in Tracked : flows[k].count \in Nat)
            /\ {} \in SUBSET Tracked
        BY CountFacts
      <3> QED BY <3>1, PacketsSplit
    <2>2. Packets(flows', Tracked') \in Nat
      <3>1. IsFiniteSet(Tracked') /\ \A k \in Tracked' : flows'[k].count \in Nat
        <4>1. Tracked' \subseteq Keys /\ flows' \in [Tracked' -> FlowState]
          BY DEF IInv, TypeOK
        <4>2. IsFiniteSet(Tracked')
          BY <4>1, FS_Subset, TableAssumption
        <4> QED BY <4>1, <4>2 DEF FlowState
      <3>2. {} \in SUBSET Tracked'
        OBVIOUS
      <3> QED BY <3>1, <3>2, PacketsSplit
    <2> QED BY <2>1, <2>2
  <1>3. /\ closed \in Nat /\ refused \in Nat /\ received \in Nat /\ dropped \in Nat
        /\ received = a + closed + (dropped - refused) + p
    BY <1>1, <1>2, CountFacts DEF CountInv, PacketConservation
  <1>4. b + out + lost + q = a + in + p
    BY <1>2
  <1>5. received' = b + closed' + (dropped' - refused') + q
    BY <1>3, <1>4
  <1>6. PacketConservation'
    BY <1>1, <1>2, <1>5 DEF PacketConservation
  <1>7. closed' \in Nat /\ refused' \in Nat
    BY <1>3
  <1> QED BY <1>6, <1>7 DEF CountInv


\* Events refused are counted twice, as drops and in refused.
LEMMA EmitCounts ==
  ASSUME NEW evts, NEW no, Emit(evts, no), DOMAIN evts \subseteq Keys
  PROVE  \E more \in Nat : dropped' = dropped + more /\ refused' = refused + more
  <1>1. Cardinality(no) \in Nat
    BY FS_Subset, FS_CardinalityType, TableAssumption DEF Emit
  <1> QED BY <1>1 DEF Emit

\* A step of the threads accounts for the packets it moves.
LEMMA NextCountInv == IInv /\ IInv' /\ CountInv /\ [Next]_vars => CountInv'
  <1> SUFFICES ASSUME IInv, IInv', CountInv, [Next]_vars PROVE CountInv'
    OBVIOUS
  <1>0. /\ TypeOK /\ IsFiniteSet(Tracked) /\ (\A k \in Tracked : flows[k].count \in Nat)
        /\ received \in Nat /\ dropped \in Nat /\ closed \in Nat /\ refused \in Nat
        /\ Tracked \subseteq Keys
    BY CountFacts DEF IInv, CountInv, TypeOK
  <1>f. IsFiniteSet(Tracked) /\ \A k \in Tracked : flows[k].count \in Nat
    BY <1>0
  <1>s. ASSUME NEW T \in SUBSET Tracked
        PROVE  /\ Packets(flows, T) \in Nat /\ Packets(flows, Tracked \ T) \in Nat
               /\ Packets(flows, Tracked) = Packets(flows, T) + Packets(flows, Tracked \ T)
    <2>1. PICK S, fl : S = Tracked /\ fl = flows
      OBVIOUS
    <2>2. IsFiniteSet(S) /\ (\A k \in S : fl[k].count \in Nat) /\ T \in SUBSET S
      BY <1>f, <1>s, <2>1
    <2>3. /\ Packets(fl, S) \in Nat /\ Packets(fl, T) \in Nat /\ Packets(fl, S \ T) \in Nat
          /\ Packets(fl, S) = Packets(fl, T) + Packets(fl, S \ T)
      <3>1. Packets(fl, S) \in Nat
        BY ONLY <2>2, PacketsSplit
      <3>2. Packets(fl, T) \in Nat
        BY ONLY <2>2, PacketsSplit
      <3>3. Packets(fl, S \ T) \in Nat
        BY ONLY <2>2, PacketsSplit
      <3>4. Packets(fl, S) = Packets(fl, T) + Packets(fl, S \ T)
        BY ONLY <2>2, PacketsSplit
      <3> QED BY <3>1, <3>2, <3>3, <3>4
    <2> QED BY <2>1, <2>3
  <1>1. PICK P \in Nat : P = Packets(flows, Tracked)
    <2>1. {} \in SUBSET Tracked
      OBVIOUS
    <2> QED BY <1>f, <2>1, PacketsSplit
  <1>2. /\ IsFiniteSet(Tracked') /\ \A k \in Tracked' : flows'[k].count \in Nat
    <2>1. Tracked' \subseteq Keys /\ flows' \in [Tracked' -> FlowState]
      BY DEF IInv, TypeOK
    <2>2. IsFiniteSet(Tracked')
      BY <2>1, FS_Subset, TableAssumption
    <2> QED BY <2>1, <2>2 DEF FlowState
  \* Steps that leave the table and the counters alone.
  <1>3. ASSUME UNCHANGED <<flows, received, refused, dropped, closed>>,
               cpc' = "process" <=> cpc = "process"
        PROVE  CountInv'
    <2>1. Packets(flows', Tracked') = P
      BY <1>1, <1>3 DEF Tracked
    <2>2. (IF cpc' = "process" THEN 1 ELSE 0) = (IF cpc = "process" THEN 1 ELSE 0)
      BY <1>3
    <2>3. /\ received' = received + 0 /\ refused' = refused + 0 /\ dropped' = dropped + 0 + 0
          /\ closed' = closed + 0
      BY <1>0, <1>3
    <2>4. P + 0 + 0 + (IF cpc' = "process" THEN 1 ELSE 0) = P + 0 + (IF cpc = "process" THEN 1 ELSE 0)
      BY <2>2
    <2> QED BY <1>1, <2>1, <2>3, <2>4, CountNext
  <1>4. ASSUME NEW k \in Keys, NEW ts \in Stamps, NEW teardown \in BOOLEAN,
               Receive(k, ts, teardown)
        PROVE  CountInv'
    <2>1. /\ UNCHANGED <<flows, refused, dropped, closed>> /\ received' = received + 1
          /\ cpc = "run" /\ cpc' = "process"
      BY <1>4 DEF Receive, tableVars, metrics, history
    <2>2. Packets(flows', Tracked') = P
      BY <1>1, <2>1 DEF Tracked
    <2>3. refused' = refused + 0 /\ dropped' = dropped + 0 + 0 /\ closed' = closed + 0
      BY <1>0, <2>1
    <2>4. P + 0 + 0 + (IF cpc' = "process" THEN 1 ELSE 0) = P + 1 + (IF cpc = "process" THEN 1 ELSE 0)
      BY <2>1
    <2> QED BY <1>1, <2>1, <2>2, <2>3, <2>4, CountNext
  <1>5. CASE RejectFlow
    <2>1. /\ UNCHANGED <<flows, refused, received, closed>> /\ dropped' = dropped + 1
          /\ cpc = "process" /\ cpc' = "run"
      BY <1>5 DEF RejectFlow, Return, history
    <2>2. Packets(flows', Tracked') = P
      BY <1>1, <2>1 DEF Tracked
    <2>3. /\ refused' = refused + 0 /\ dropped' = dropped + 0 + 1 /\ closed' = closed + 0
          /\ received' = received + 0
      BY <1>0, <2>1
    <2>4. P + 0 + 1 + (IF cpc' = "process" THEN 1 ELSE 0) = P + 0 + (IF cpc = "process" THEN 1 ELSE 0)
      BY <2>1
    <2> QED BY <1>1, <2>2, <2>3, <2>4, CountNext
  <1>6. ASSUME NEW no, CreateFlow(no) PROVE CountInv'
    <2>1. PICK more \in Nat : dropped' = dropped + more /\ refused' = refused + more
      <3>1. PICK evts : Emit(evts, no) /\ DOMAIN evts = {pkt.key}
        BY <1>6 DEF CreateFlow
      <3>2. pkt.key \in Keys
        BY <1>0, <1>6, CreateFacts
      <3> QED BY <3>1, <3>2, EmitCounts
    <2>2. received' = received /\ closed' = closed /\ cpc = "process" /\ cpc' = "run"
      BY <1>6 DEF CreateFlow, Return
    <2>3. PICK key : key = pkt.key
      OBVIOUS
    <2>4. /\ key \notin Tracked /\ Tracked' = Tracked \cup {key}
          /\ flows'[key].count = 1 /\ \A x \in Tracked : flows'[x] = flows[x]
      BY <1>0, <1>6, <2>3, CreateFacts
    <2>5. {key} \in SUBSET Tracked' /\ Tracked' \ {key} = Tracked
      BY <2>4
    <2>6. Packets(flows', Tracked') = Packets(flows', {key}) + Packets(flows', Tracked)
      BY <1>2, <2>5, PacketsSplit
    <2>7. Packets(flows', {key}) = 1
      BY <2>4, PacketsOfOne
    <2>8. Packets(flows', Tracked) = P
      BY <1>1, <2>4, PacketsAgree
    <2>9. Packets(flows', Tracked') = P + 1
      BY <2>6, <2>7, <2>8
    <2>10. received' = received + 0 /\ closed' = closed + 0 /\ dropped' = dropped + more + 0
      BY <1>0, <2>1, <2>2
    <2>11. (P + 1) + 0 + 0 + (IF cpc' = "process" THEN 1 ELSE 0) = P + 0 + (IF cpc = "process" THEN 1 ELSE 0)
      BY <2>2
    <2> QED BY <1>1, <2>1, <2>9, <2>10, <2>11, CountNext
  <1>7. CASE UpdateFlow
    <2>1. /\ UNCHANGED <<received, closed, dropped, refused>> /\ cpc = "process" /\ cpc' = "run"
      BY <1>7 DEF UpdateFlow, Return, metrics, history
    <2>2. PICK key \in Tracked : key = pkt.key
      BY <1>7 DEF UpdateFlow
    <2>3. PICK c \in Nat : c = flows[key].count
      BY <1>0
    <2>4. /\ Tracked' = Tracked /\ flows'[key].count = c + 1
          /\ \A x \in Tracked \ {key} : flows'[x] = flows[x]
      BY <1>0, <1>7, <2>2, <2>3, UpdateFacts DEF Counted
    <2>5. {key} \in SUBSET Tracked
      OBVIOUS
    <2>6. PICK Q \in Nat : Q = Packets(flows, Tracked \ {key}) /\ P = Packets(flows, {key}) + Q
      <3>1. /\ Packets(flows, Tracked \ {key}) \in Nat
            /\ Packets(flows, Tracked) = Packets(flows, {key}) + Packets(flows, Tracked \ {key})
        BY <1>s, <2>5
      <3> QED BY <1>1, <3>1
    <2>7. Packets(flows', Tracked') = Packets(flows', {key}) + Packets(flows', Tracked \ {key})
      BY <1>2, <2>4, <2>5, PacketsSplit
    <2>8. Packets(flows', Tracked \ {key}) = Q
      BY <2>4, <2>6, PacketsAgree
    <2>9. Packets(flows, {key}) = c /\ Packets(flows', {key}) = c + 1
      <3>1. Packets(flows, {key}) = c
        BY <2>3, PacketsOfOne
      <3>2. c + 1 \in Nat
        OBVIOUS
      <3>3. Packets(flows', {key}) = c + 1
        BY <2>4, <3>2, PacketsOfOne
      <3> QED BY <3>1, <3>3
    <2>10. Packets(flows', Tracked') = P + 1
      BY <2>6, <2>7, <2>8, <2>9
    <2>11. /\ received' = received + 0 /\ closed' = closed + 0 /\ dropped' = dropped + 0 + 0
           /\ refused' = refused + 0
      BY <1>0, <2>1
    <2>12. (P + 1) + 0 + 0 + (IF cpc' = "process" THEN 1 ELSE 0) = P + 0 + (IF cpc = "process" THEN 1 ELSE 0)
      BY <2>1
    <2> QED BY <1>1, <2>10, <2>11, <2>12, CountNext
  <1>8. ASSUME NEW no, TearDownFlow(no) PROVE CountInv'
    <2>1. PICK key \in Tracked : key = pkt.key
      BY <1>8 DEF TearDownFlow
    <2>2. PICK c \in Nat : c = flows[key].count
      BY <1>0
    <2>3. /\ received' = received /\ closed' = closed + (c + 1) /\ cpc = "process" /\ cpc' = "run"
      BY <1>8, <2>1, <2>2 DEF TearDownFlow, Return, Counted
    <2>4. PICK more \in Nat : dropped' = dropped + more /\ refused' = refused + more
      <3>1. PICK evts : Emit(evts, no) /\ DOMAIN evts = {pkt.key}
        BY <1>8 DEF TearDownFlow
      <3> QED BY <1>0, <2>1, <3>1, EmitCounts
    <2>5. Tracked' = Tracked \ {key} /\ \A x \in Tracked \ {key} : flows'[x] = flows[x]
      BY <1>0, <1>8, <2>1, TearDownFacts
    <2>6. {key} \in SUBSET Tracked
      OBVIOUS
    <2>7. PICK Q \in Nat : Q = Packets(flows, Tracked \ {key}) /\ P = Packets(flows, {key}) + Q
      <3>1. /\ Packets(flows, Tracked \ {key}) \in Nat
            /\ Packets(flows, Tracked) = Packets(flows, {key}) + Packets(flows, Tracked \ {key})
        BY <1>s, <2>6
      <3> QED BY <1>1, <3>1
    <2>8. Packets(flows', Tracked') = Q
      BY <2>5, <2>7, PacketsAgree
    <2>9. Packets(flows, {key}) = c
      BY <2>2, PacketsOfOne
    <2>10. received' = received + 0 /\ dropped' = dropped + more + 0
      BY <1>0, <2>3, <2>4
    <2>11. Q + (c + 1) + 0 + (IF cpc' = "process" THEN 1 ELSE 0) = P + 0 + (IF cpc = "process" THEN 1 ELSE 0)
      BY <2>3, <2>7, <2>9
    <2>12. c + 1 \in Nat
      OBVIOUS
    <2> QED BY <1>1, <2>3, <2>4, <2>8, <2>10, <2>11, <2>12, CountNext
  \* The flows out leave with their packets: drain_all() and timer_sweep().
  <1>9. ASSUME NEW out \in SUBSET Tracked, closed' = closed + PacketsOf(out), received' = received,
               NEW evts, NEW no, Emit(evts, no), DOMAIN evts \subseteq Keys,
               Tracked' = Tracked \ out, \A k \in Tracked \ out : flows'[k] = flows[k],
               cpc' = "process" <=> cpc = "process"
        PROVE  CountInv'
    <2>1. PICK more \in Nat : dropped' = dropped + more /\ refused' = refused + more
      BY <1>9, EmitCounts
    <2>2. PICK Q, R \in Nat : /\ Q = Packets(flows, Tracked \ out) /\ R = Packets(flows, out)
                              /\ P = R + Q
      <3>1. /\ Packets(flows, Tracked \ out) \in Nat /\ Packets(flows, out) \in Nat
            /\ Packets(flows, Tracked) = Packets(flows, out) + Packets(flows, Tracked \ out)
        BY <1>s
      <3> QED BY <1>1, <3>1
    <2>3. Packets(flows', Tracked') = Q
      BY <1>9, <2>2, PacketsAgree
    <2>4. closed' = closed + R
      BY <1>9, <2>2, CountFacts
    <2>5. received' = received + 0 /\ dropped' = dropped + more + 0
      BY <1>0, <1>9, <2>1
    <2>6. (IF cpc' = "process" THEN 1 ELSE 0) = (IF cpc = "process" THEN 1 ELSE 0)
      BY <1>9
    <2>7. Q + R + 0 + (IF cpc' = "process" THEN 1 ELSE 0) = P + 0 + (IF cpc = "process" THEN 1 ELSE 0)
      BY <2>2, <2>6
    <2> QED BY <1>1, <2>1, <2>2, <2>3, <2>4, <2>5, <2>7, CountNext
  <1>10. ASSUME NEW no, DrainAll(no) PROVE CountInv'
    <2>1. /\ closed' = closed + PacketsOf(Tracked) /\ received' = received
          /\ cpc = "drain" /\ cpc' = "drained"
      BY <1>10 DEF DrainAll
    <2>2. PICK evts : Emit(evts, no) /\ DOMAIN evts = Tracked
      BY <1>10 DEF DrainAll
    <2>3. Tracked' = Tracked \ Tracked /\ \A k \in Tracked \ Tracked : flows'[k] = flows[k]
      BY <1>0, <1>10, DrainFacts
    <2>4. Tracked \in SUBSET Tracked /\ (cpc' = "process" <=> cpc = "process")
      BY <2>1
    <2> QED BY <1>0, <1>9, <2>1, <2>2, <2>3, <2>4
  <1>11. ASSUME NEW no, TimerSweep(no) PROVE CountInv'
    <2>1. closed' = closed + PacketsOf(ToExpire) /\ received' = received /\ cpc' = cpc
      BY <1>11 DEF TimerSweep
    <2>2. PICK evts : Emit(evts, no) /\ DOMAIN evts = IF EmitStats THEN Tracked ELSE ToExpire
      BY <1>11 DEF TimerSweep
    <2>3. /\ ToExpire \in SUBSET Tracked /\ Tracked' = Tracked \ ToExpire
          /\ \A k \in Tracked \ ToExpire : flows'[k] = flows[k]
      BY <1>0, <1>11, SweepFacts
    <2>4. DOMAIN evts \subseteq Keys
      BY <1>0, <2>2, <2>3
    <2> QED BY <1>9, <2>1, <2>2, <2>3, <2>4
  <1>12. CASE EndCapture \/ FailCapture \/ RequestStop \/ TimerWake \/ Tick
    BY <1>3, <1>12 DEF EndCapture, FailCapture, RequestStop, TimerWake, Tick,
                       tableVars, metrics, history
  <1>13. ASSUME NEW t, SetClock(t) PROVE CountInv'
    BY <1>3, <1>13 DEF SetClock, tableVars, metrics, history
  <1>14. CASE Finished \/ UNCHANGED vars
    BY <1>3, <1>14 DEF Finished, vars, tableVars, metrics, history
  <1> QED
    BY <1>4, <1>5, <1>6, <1>7, <1>8, <1>10, <1>11, <1>12, <1>13, <1>14
    DEF Next, CaptureNext, TimerNext

\* No packet is lost or counted twice, however many flows there are and in
\* whatever order they end.
THEOREM PacketsAreConserved == Spec => []PacketConservation
  <1>1. Init => CountInv
    <2> SUFFICES ASSUME Init PROVE CountInv
      OBVIOUS
    <2>1. Tracked = {} /\ IsFiniteSet({})
      BY FS_EmptySet DEF Init, Tracked
    <2>2. Packets(flows, {}) = 0
      BY <2>1, SumStep DEF Packets
    <2>3. PacketsOf(Tracked) = 0
      BY <2>1, <2>2 DEF PacketsOf, Packets, SumOver
    <2> QED BY <2>3 DEF Init, CountInv, PacketConservation
  <1>2. CountInv => PacketConservation
    BY DEF CountInv
  <1> QED BY <1>1, <1>2, Invariant, NextCountInv, PTL DEF Spec

=============================================================================
