-------------------------- MODULE PacketpipeProofs --------------------------
(***************************************************************************)
(* Packetpipe, for every timer interval and flush timeout and any number   *)
(* of signals.                                                             *)
(***************************************************************************)
EXTENDS Packetpipe, TLAPS

(***************************************************************************)
(* The source.                                                             *)
(***************************************************************************)
\* Where run() is determines the handle and how often it was opened and
\* closed, and how far the signal handlers can have come.
HandleInv ==
  /\ rpc = "start" => handle = "null" /\ opens = 0 /\ closes = 0
       /\ \A s \in 1 .. MaxSignals : hpc[s] \in {"idle", "test"}
  /\ rpc \in {"filter", "nonblock", "loop", "close"} =>
       handle = "open" /\ opens = 1 /\ closes = 0 /\ ~ Crashed
  /\ rpc = "reset" => handle = "closed" /\ opens = 1 /\ closes = 1
  /\ rpc = "over" => \/ handle = "null" /\ opens = closes
                     \/ handle = "open" /\ opens = 1 /\ closes = 0
  /\ rpc = "destroyed" => opens = closes

SourceInv == SourceTypeOK /\ HandleInv

\* The invariant of the source holds at the start.
LEMMA InitSourceInv == SourceInit => SourceInv
  <1> SUFFICES ASSUME SourceInit PROVE SourceInv
    OBVIOUS
  <1>1. live \in BOOLEAN /\ breakLoop \in BOOLEAN
    BY DEF SourceInit
  <1>2. signals \in 0 .. MaxSignals
    BY SignalAssumption DEF SourceInit
  <1> QED BY <1>1, <1>2 DEF SourceInit, SourceInv, SourceTypeOK, HandleInv

\* Every step of run(), of the destructor and of stop() preserves it.
LEMMA NextSourceInv == SourceInv /\ [SourceNext]_sourceVars => SourceInv'
  <1> SUFFICES ASSUME SourceInv, [SourceNext]_sourceVars PROVE SourceInv'
    OBVIOUS
  <1> USE DEF SourceInv, SourceTypeOK, HandleInv, Crashed, runVars, stopVars
  <1>1. CASE Open
    <2>1. /\ rpc' = "filter" /\ handle' = "open" /\ opens' = 1
          /\ UNCHANGED <<live, after, closes, hpc, signals>> /\ rpc = "start"
      BY <1>1 DEF Open
    <2>2. breakLoop' \in BOOLEAN
      BY <1>1 DEF Open
    <2> QED BY <2>1, <2>2
  <1>2. CASE OpenFails
    BY <1>2 DEF OpenFails, Goto
  <1>3. CASE SetFilter \/ SetFilterFails
    BY <1>3 DEF SetFilter, SetFilterFails, Goto
  <1>4. CASE SetNonblock \/ LiveFails
    BY <1>4 DEF SetNonblock, LiveFails, Goto
  <1>5. CASE LoopBroken \/ EndOfFile
    BY <1>5 DEF LoopBroken, EndOfFile, Goto
  <1>6. CASE Close
    <2>1. /\ rpc' = "reset" /\ handle' = "closed" /\ closes' = 1
          /\ UNCHANGED <<live, after, opens, hpc, signals>> /\ rpc = "close"
      BY <1>6 DEF Close
    <2>2. breakLoop' \in BOOLEAN
      BY <1>6 DEF Close
    <2> QED BY <2>1, <2>2
  <1>7. CASE Reset
    BY <1>7 DEF Reset
  <1>8. CASE Destroy
    <2>1. /\ rpc' = "destroyed" /\ handle' = "destroyed" /\ breakLoop' = FALSE
          /\ UNCHANGED <<live, after, opens, hpc, signals>>
      BY <1>8 DEF Destroy
    <2>2. closes' = opens
      BY <1>8 DEF Destroy
    <2> QED BY <2>1, <2>2
  <1>9. CASE Signal
    <2>1. signals' \in 1 .. MaxSignals
      BY <1>9, SignalAssumption DEF Signal
    <2> QED BY <1>9, <2>1 DEF Signal
  <1>10. ASSUME NEW s \in 1 .. MaxSignals, StopTest(s) PROVE SourceInv'
    BY <1>10 DEF StopTest
  <1>11. ASSUME NEW s \in 1 .. MaxSignals, StopBreak(s) PROVE SourceInv'
    BY <1>11 DEF StopBreak
  <1>12. CASE UNCHANGED sourceVars
    BY <1>12 DEF sourceVars
  <1> QED
    BY <1>1, <1>2, <1>3, <1>4, <1>5, <1>6, <1>7, <1>8, <1>9, <1>10, <1>11, <1>12
    DEF SourceNext, RunNext, Stop

\* Every step of the composition is a step of the source or leaves it alone.
LEMMA SourceSteps == Spec => SourceSpec
  <1>1. Init => SourceInit
    BY DEF Init
  <1>2. [Next]_vars => [SourceNext]_sourceVars
    <2> SUFFICES ASSUME [Next]_vars PROVE SourceNext \/ UNCHANGED sourceVars
      OBVIOUS
    <2>1. CASE Running /\ Run
      BY <2>1 DEF Running, Run, SourceNext
    <2>2. CASE Running /\ Handler
      BY <2>2 DEF Running, Handler, SourceNext
    <2>3. CASE Running /\ Unwind
      BY <2>3 DEF Running, Unwind, SourceNext
    <2>4. CASE \/ \E valid \in BOOLEAN : Parse(valid)
               \/ Construct \/ ConstructThrows \/ InstallHandlers \/ StartRun
      BY <2>4 DEF Parse, Construct, ConstructThrows, InstallHandlers, StartRun
    <2>5. CASE \/ RunOver \/ DrainAll \/ StopTimer \/ FlushEnds \/ RequestStop \/ Return
               \/ Killed
      BY <2>5 DEF RunOver, DrainAll, StopTimer, FlushEnds, RequestStop, Return, Killed
    <2>6. CASE ThreadNext \/ Tick
      BY <2>6 DEF ThreadNext, TimerWake, TimerLoop, SinkFlushes, SinkExits, Tick
    <2>7. CASE UNCHANGED vars
      BY <2>7 DEF vars
    <2> QED BY <2>1, <2>2, <2>3, <2>4, <2>5, <2>6, <2>7 DEF Next, MainNext
  <1> QED BY <1>1, <1>2, PTL DEF Spec, SourceSpec

\* The source's invariant holds in every state of the composition.
LEMMA SourceInvariant == Spec => []SourceInv
  <1>1. SourceSpec => []SourceInv
    BY InitSourceInv, NextSourceInv, PTL DEF SourceSpec
  <1> QED BY SourceSteps, <1>1, PTL

\* On every way out of run(), return, failure before the loop and failure in
\* it, the handle that was opened is closed, once.
THEOREM HandleClosedOnce == Spec => []ClosedOnce
  <1>1. SourceInv => ClosedOnce
    BY DEF SourceInv, SourceTypeOK, HandleInv, ClosedOnce
  <1> QED BY SourceInvariant, <1>1, PTL

\* No signal does harm before run() closes its handle.
THEOREM SignalsAreHarmless == Spec => []CrashOnlyAfterClose
  <1>1. SourceInv => CrashOnlyAfterClose
    BY DEF SourceInv, SourceTypeOK, HandleInv, Crashed, CrashOnlyAfterClose
  <1> QED BY SourceInvariant, <1>1, PTL

-----------------------------------------------------------------------------
(***************************************************************************)
(* main() and its threads.                                                 *)
(***************************************************************************)
\* The place of the objects that matter in the order of the declarations.
LEMMA OrderFacts ==
  /\ Len(Order) = 9
  /\ Order[1] = "metrics" /\ Order[3] = "serializer" /\ Order[4] = "kafka" /\ Order[5] = "queue"
  /\ Order[6] = "sink" /\ Order[7] = "source" /\ Order[8] = "table" /\ Order[9] = "timer"
  /\ \A i \in 1 .. 9 : /\ Order[i] = "timer" => i = 9
                       /\ Order[i] = "sink" => i = 6
                       /\ Order[i] = "source" => i = 7
                       /\ Order[i] = "table" => i = 8
  BY DEF Order

\* Where main() is determines how many objects exist.
StageInv ==
  /\ mpc = "parse" => built = 0
  /\ mpc \in {"run", "drain", "stop", "flush"} => built = 9
  /\ mpc = "exited" => built = 0
  /\ mpc \in {"parse", "build"} => rpc = "start"
  /\ built < 7 => rpc \in {"start", "destroyed"}

\* A thread runs only while its object exists, and is asked to stop only when
\* that object's turn has come.
ThreadInv ==
  /\ timer \in {"asleep", "awake"} => built = 9
  /\ timer = "none" => built < 9
  /\ sink \in {"running", "flush"} => built >= 6
  /\ sink = "none" => built < 6
  /\ sink \in {"flush", "exited"} => sinkStop
  /\ timerStop => mpc \in {"flush", "unwind", "exited", "killed"}
  /\ sinkStop => mpc \in {"unwind", "exited", "killed"} /\ built <= 6

\* The exit code tells whether the flows were drained.
ExitInv ==
  /\ mpc \in {"build", "run", "drain", "stop", "flush"} => code = 0
  /\ mpc \in {"unwind", "exited"} => (code = 0 <=> drained)
  /\ mpc \in {"stop", "flush"} => drained
  /\ mpc = "drain" => after = "returned"
  /\ drained => /\ mpc \in {"stop", "flush", "unwind", "exited", "killed"}
                /\ after = "returned"
                /\ built < 7 => rpc = "destroyed"

\* The end of run() and the start of each wait bound the time that has passed.
FirstWait == IF FlushTimeout > Interval THEN FlushTimeout ELSE Interval

TimeInv ==
  /\ mpc \in {"parse", "build", "run", "drain", "stop"} => elapsed = 0
  /\ mpc = "flush" => timerStop /\ elapsed + left["flush"] <= FlushTimeout
  /\ (timerStop /\ timer = "asleep") => left["timer"] + elapsed <= Interval
  /\ (built = 9 /\ ~ timerStop) => elapsed = 0
  /\ (built >= 6 /\ sink \notin {"flush", "exited"}) => elapsed <= FirstWait
  /\ sink = "flush" => elapsed + left["sink"] <= FirstWait + FlushTimeout
  /\ elapsed <= FirstWait + FlushTimeout

IInv == TypeOK /\ StageInv /\ ThreadInv /\ ExitInv /\ TimeInv

\* The invariant of main() holds at the start.
LEMMA InitIInv == Init => IInv
  <1> SUFFICES ASSUME Init PROVE IInv
    OBVIOUS
  <1> USE WaitAssumption, OrderFacts
  <1>1. SourceTypeOK
    BY InitSourceInv DEF Init, SourceInv
  <1>2. left \in [Waits -> Nat] /\ left["timer"] = 0 /\ left["flush"] = 0 /\ left["sink"] = 0
    BY DEF Init, Waits
  <1>3. timerStop \in BOOLEAN /\ sinkStop \in BOOLEAN /\ handlers \in BOOLEAN /\ drained \in BOOLEAN
    BY DEF Init
  <1>4. TypeOK
    BY <1>1, <1>2, <1>3 DEF Init, TypeOK
  <1>5. StageInv /\ ThreadInv /\ ExitInv
    BY DEF Init, SourceInit, StageInv, ThreadInv, ExitInv
  <1>6. TimeInv
    BY <1>2 DEF Init, TimeInv, FirstWait
  <1> QED BY <1>4, <1>5, <1>6 DEF IInv

\* Every step of main() and its threads preserves it.
LEMMA NextIInv == SourceInv /\ SourceInv' /\ IInv /\ [Next]_vars => IInv'
  <1> SUFFICES ASSUME SourceInv, SourceInv', IInv, [Next]_vars PROVE IInv'
    OBVIOUS
  <1> USE WaitAssumption, OrderFacts
      DEF IInv, sourceVars, runVars, stopVars, mainVars, timerVars, sinkVars, timeVars
  <1>0. SourceTypeOK'
    BY DEF SourceInv
  <1>1. ASSUME NEW valid \in BOOLEAN, Parse(valid) PROVE IInv'
    <2>1. TypeOK'
      BY <1>0, <1>1 DEF Parse, TypeOK
    <2>2. StageInv' /\ ThreadInv' /\ ExitInv' /\ TimeInv'
      BY <1>1 DEF Parse, TypeOK, StageInv, ThreadInv, ExitInv, TimeInv
    <2> QED BY <2>1, <2>2
  <1>2. CASE Construct
    <2>1. TypeOK'
      BY <1>0, <1>2 DEF Construct, TypeOK
    <2>2. StageInv'
      BY <1>2 DEF Construct, TypeOK, StageInv
    <2>3. ThreadInv'
      BY <1>2 DEF Construct, TypeOK, StageInv, ThreadInv
    <2>4. ExitInv'
      BY <1>2 DEF Construct, TypeOK, StageInv, ExitInv
    <2>5. TimeInv'
      BY <1>2 DEF Construct, TypeOK, StageInv, ThreadInv, TimeInv, FirstWait
    <2> QED BY <2>1, <2>2, <2>3, <2>4, <2>5
  <1>3. CASE ConstructThrows
    <2>1. TypeOK'
      BY <1>0, <1>3 DEF ConstructThrows, TypeOK
    <2>2. StageInv'
      BY <1>3 DEF ConstructThrows, TypeOK, StageInv
    <2>3. ThreadInv'
      BY <1>3 DEF ConstructThrows, TypeOK, StageInv, ThreadInv
    <2>4. ExitInv'
      BY <1>3 DEF ConstructThrows, TypeOK, StageInv, ExitInv
    <2>5. TimeInv'
      BY <1>3 DEF ConstructThrows, TypeOK, StageInv, ThreadInv, TimeInv, FirstWait
    <2> QED BY <2>1, <2>2, <2>3, <2>4, <2>5
  <1>4. CASE InstallHandlers
    <2>1. TypeOK'
      BY <1>0, <1>4 DEF InstallHandlers, TypeOK
    <2>2. StageInv'
      BY <1>4 DEF InstallHandlers, TypeOK, StageInv
    <2>3. ThreadInv'
      BY <1>4 DEF InstallHandlers, TypeOK, StageInv, ThreadInv
    <2>4. ExitInv'
      BY <1>4 DEF InstallHandlers, TypeOK, StageInv, ExitInv
    <2>5. TimeInv'
      BY <1>4 DEF InstallHandlers, TypeOK, StageInv, ThreadInv, TimeInv, FirstWait
    <2> QED BY <2>1, <2>2, <2>3, <2>4, <2>5
  <1>5. CASE StartRun
    <2>1. TypeOK'
      BY <1>0, <1>5 DEF StartRun, TypeOK
    <2>2. StageInv'
      BY <1>5 DEF StartRun, TypeOK, StageInv
    <2>3. ThreadInv'
      BY <1>5 DEF StartRun, TypeOK, StageInv, ThreadInv
    <2>4. ExitInv'
      BY <1>5 DEF StartRun, TypeOK, StageInv, ExitInv
    <2>5. TimeInv'
      BY <1>5 DEF StartRun, TypeOK, StageInv, ThreadInv, TimeInv, FirstWait
    <2> QED BY <2>1, <2>2, <2>3, <2>4, <2>5
  <1>6. CASE RunOver
    <2>1. TypeOK'
      BY <1>0, <1>6 DEF RunOver, TypeOK
    <2>2. StageInv'
      BY <1>6 DEF RunOver, TypeOK, StageInv
    <2>3. ThreadInv'
      BY <1>6 DEF RunOver, TypeOK, StageInv, ThreadInv
    <2>4. ExitInv'
      BY <1>6 DEF RunOver, TypeOK, StageInv, ExitInv
    <2>5. TimeInv'
      BY <1>6 DEF RunOver, TypeOK, StageInv, ThreadInv, TimeInv, FirstWait
    <2> QED BY <2>1, <2>2, <2>3, <2>4, <2>5
  <1>7. CASE DrainAll
    <2>1. TypeOK'
      BY <1>0, <1>7 DEF DrainAll, TypeOK
    <2>2. StageInv'
      BY <1>7 DEF DrainAll, TypeOK, StageInv
    <2>3. ThreadInv'
      BY <1>7 DEF DrainAll, TypeOK, StageInv, ThreadInv
    <2>4. ExitInv'
      BY <1>7 DEF DrainAll, TypeOK, StageInv, ExitInv
    <2>5. TimeInv'
      BY <1>7 DEF DrainAll, TypeOK, StageInv, ThreadInv, TimeInv, FirstWait
    <2> QED BY <2>1, <2>2, <2>3, <2>4, <2>5
  <1>8. CASE StopTimer
    <2>1. TypeOK'
      BY <1>0, <1>8 DEF StopTimer, TypeOK, Waits
    <2>2. StageInv'
      BY <1>8 DEF StopTimer, TypeOK, StageInv, Waits
    <2>3. ThreadInv'
      BY <1>8 DEF StopTimer, TypeOK, StageInv, ThreadInv, Waits
    <2>4. ExitInv'
      BY <1>8 DEF StopTimer, TypeOK, StageInv, ExitInv, Waits
    <2>5. TimeInv'
      BY <1>8 DEF StopTimer, TypeOK, StageInv, ThreadInv, TimeInv, FirstWait, Waits
    <2> QED BY <2>1, <2>2, <2>3, <2>4, <2>5
  <1>9. CASE FlushEnds
    <2>1. TypeOK'
      BY <1>0, <1>9 DEF FlushEnds, TypeOK
    <2>2. StageInv'
      BY <1>9 DEF FlushEnds, TypeOK, StageInv
    <2>3. ThreadInv'
      BY <1>9 DEF FlushEnds, TypeOK, StageInv, ThreadInv
    <2>4. ExitInv'
      BY <1>9 DEF FlushEnds, TypeOK, StageInv, ExitInv
    <2>5. TimeInv'
      BY <1>9 DEF FlushEnds, TypeOK, StageInv, ThreadInv, TimeInv, FirstWait
    <2> QED BY <2>1, <2>2, <2>3, <2>4, <2>5
  <1>10. CASE RequestStop
    <2>1. TypeOK'
      BY <1>0, <1>10 DEF RequestStop, TypeOK, StopPending
    <2>2. StageInv'
      BY <1>10 DEF RequestStop, TypeOK, StageInv, StopPending
    <2>3. ThreadInv'
      BY <1>10 DEF RequestStop, TypeOK, StageInv, ThreadInv, StopPending
    <2>4. ExitInv'
      BY <1>10 DEF RequestStop, TypeOK, StageInv, ExitInv, StopPending
    <2>5. TimeInv'
      <3>1. CASE Order[built] = "timer"
        <4>1. built = 9 /\ ~ timerStop
          BY <1>10, <3>1 DEF RequestStop, StopPending, TypeOK
        <4>2. elapsed = 0 /\ mpc = "unwind" /\ left["timer"] <= Interval /\ left["timer"] \in Nat
          BY <1>10, <4>1 DEF RequestStop, TypeOK, TimeInv, Waits
        <4> QED
          BY <1>10, <3>1, <4>1, <4>2 DEF RequestStop, TypeOK, TimeInv, FirstWait
      <3>2. CASE Order[built] # "timer"
        <4>1. timerStop' = timerStop
          BY <1>10, <3>2 DEF RequestStop, TypeOK
        <4> QED
          BY <1>10, <4>1 DEF RequestStop, TypeOK, TimeInv, FirstWait
      <3> QED BY <3>1, <3>2
    <2> QED BY <2>1, <2>2, <2>3, <2>4, <2>5
  <1>11. CASE Unwind
    <2>1. TypeOK'
      BY <1>0, <1>11 DEF Unwind, TypeOK, Joined, Destroy
    <2>2. StageInv'
      BY <1>11 DEF Unwind, TypeOK, StageInv, Joined, Destroy
    <2>3. ThreadInv'
      BY <1>11 DEF Unwind, TypeOK, StageInv, ThreadInv, Joined, Destroy
    <2>4. ExitInv'
      BY <1>11 DEF Unwind, TypeOK, StageInv, ExitInv, Joined, Destroy
    <2>5. TimeInv'
      BY <1>11 DEF Unwind, TypeOK, StageInv, ThreadInv, TimeInv, FirstWait, Joined, Destroy
    <2> QED BY <2>1, <2>2, <2>3, <2>4, <2>5
  <1>12. CASE Return
    <2>1. TypeOK'
      BY <1>0, <1>12 DEF Return, TypeOK
    <2>2. StageInv'
      BY <1>12 DEF Return, TypeOK, StageInv
    <2>3. ThreadInv'
      BY <1>12 DEF Return, TypeOK, StageInv, ThreadInv
    <2>4. ExitInv'
      BY <1>12 DEF Return, TypeOK, StageInv, ExitInv
    <2>5. TimeInv'
      BY <1>12 DEF Return, TypeOK, StageInv, ThreadInv, TimeInv, FirstWait
    <2> QED BY <2>1, <2>2, <2>3, <2>4, <2>5
  <1>13. CASE TimerWake
    <2>1. TypeOK'
      BY <1>0, <1>13 DEF TimerWake, TypeOK
    <2>2. StageInv'
      BY <1>13 DEF TimerWake, TypeOK, StageInv
    <2>3. ThreadInv'
      BY <1>13 DEF TimerWake, TypeOK, StageInv, ThreadInv
    <2>4. ExitInv'
      BY <1>13 DEF TimerWake, TypeOK, StageInv, ExitInv
    <2>5. TimeInv'
      BY <1>13 DEF TimerWake, TypeOK, StageInv, ThreadInv, TimeInv, FirstWait
    <2> QED BY <2>1, <2>2, <2>3, <2>4, <2>5
  <1>14. CASE TimerLoop
    <2>1. TypeOK'
      BY <1>0, <1>14 DEF TimerLoop, TypeOK, Waits
    <2>2. StageInv'
      BY <1>14 DEF TimerLoop, TypeOK, StageInv, Waits
    <2>3. ThreadInv'
      BY <1>14 DEF TimerLoop, TypeOK, StageInv, ThreadInv, Waits
    <2>4. ExitInv'
      BY <1>14 DEF TimerLoop, TypeOK, StageInv, ExitInv, Waits
    <2>5. TimeInv'
      BY <1>14 DEF TimerLoop, TypeOK, StageInv, ThreadInv, TimeInv, FirstWait, Waits
    <2> QED BY <2>1, <2>2, <2>3, <2>4, <2>5
  <1>15. CASE SinkFlushes
    <2>1. TypeOK'
      BY <1>0, <1>15 DEF SinkFlushes, TypeOK, Waits
    <2>2. StageInv'
      BY <1>15 DEF SinkFlushes, TypeOK, StageInv, Waits
    <2>3. ThreadInv'
      BY <1>15 DEF SinkFlushes, TypeOK, StageInv, ThreadInv, Waits
    <2>4. ExitInv'
      BY <1>15 DEF SinkFlushes, TypeOK, StageInv, ExitInv, Waits
    <2>5. TimeInv'
      BY <1>15 DEF SinkFlushes, TypeOK, StageInv, ThreadInv, TimeInv, FirstWait, Waits
    <2> QED BY <2>1, <2>2, <2>3, <2>4, <2>5
  <1>16. CASE SinkExits
    <2>1. TypeOK'
      BY <1>0, <1>16 DEF SinkExits, TypeOK
    <2>2. StageInv'
      BY <1>16 DEF SinkExits, TypeOK, StageInv
    <2>3. ThreadInv'
      BY <1>16 DEF SinkExits, TypeOK, StageInv, ThreadInv
    <2>4. ExitInv'
      BY <1>16 DEF SinkExits, TypeOK, StageInv, ExitInv
    <2>5. TimeInv'
      BY <1>16 DEF SinkExits, TypeOK, StageInv, ThreadInv, TimeInv, FirstWait
    <2> QED BY <2>1, <2>2, <2>3, <2>4, <2>5
  <1>17. CASE Killed
    <2>1. TypeOK'
      BY <1>0, <1>17 DEF Killed, TypeOK
    <2>2. StageInv'
      BY <1>17 DEF Killed, TypeOK, StageInv
    <2>3. ThreadInv'
      BY <1>17 DEF Killed, TypeOK, StageInv, ThreadInv
    <2>4. ExitInv'
      BY <1>17 DEF Killed, TypeOK, StageInv, ExitInv
    <2>5. TimeInv'
      BY <1>17 DEF Killed, TypeOK, StageInv, ThreadInv, TimeInv, FirstWait
    <2> QED BY <2>1, <2>2, <2>3, <2>4, <2>5
  <1>18. CASE Running /\ Handler
    <2>1. TypeOK'
      BY <1>0, <1>18 DEF Handler, TypeOK, Signal, Stop, StopTest, StopBreak
    <2>2. StageInv'
      BY <1>18 DEF Handler, TypeOK, StageInv, Signal, Stop, StopTest, StopBreak
    <2>3. ThreadInv'
      BY <1>18 DEF Handler, TypeOK, StageInv, ThreadInv, Signal, Stop, StopTest, StopBreak
    <2>4. ExitInv'
      BY <1>18 DEF Handler, TypeOK, StageInv, ExitInv, Signal, Stop, StopTest, StopBreak
    <2>5. TimeInv'
      BY <1>18 DEF Handler, TypeOK, StageInv, ThreadInv, TimeInv, FirstWait, Signal, Stop, StopTest, StopBreak
    <2> QED BY <2>1, <2>2, <2>3, <2>4, <2>5
  <1>19. CASE Running /\ Run
    <2>1. TypeOK'
      BY <1>0, <1>19 DEF Run, TypeOK
    <2>2. StageInv'
      BY <1>19 DEF Run, TypeOK, StageInv
    <2>3. ThreadInv'
      BY <1>19 DEF Run, TypeOK, StageInv, ThreadInv
    <2>4. ExitInv'
      BY <1>19 DEF Run, TypeOK, StageInv, ExitInv
    <2>5. TimeInv'
      BY <1>19 DEF Run, TypeOK, StageInv, ThreadInv, TimeInv, FirstWait
    <2> QED BY <2>1, <2>2, <2>3, <2>4, <2>5
  <1>20. CASE Tick
    <2>1. TypeOK'
      BY <1>0, <1>20 DEF Tick, TypeOK, MainWaits, Dec, StopPending, Joined, Waits
    <2>2. StageInv'
      BY <1>20 DEF Tick, TypeOK, StageInv, MainWaits, Dec, StopPending, Joined, Waits
    <2>3. ThreadInv'
      BY <1>20 DEF Tick, TypeOK, StageInv, ThreadInv, MainWaits, Dec, StopPending, Joined, Waits
    <2>4. ExitInv'
      BY <1>20 DEF Tick, TypeOK, StageInv, ExitInv, MainWaits, Dec, StopPending, Joined, Waits
    <2>5. TimeInv'
      BY <1>20 DEF Tick, TypeOK, StageInv, ThreadInv, TimeInv, FirstWait, MainWaits, Dec, StopPending, Joined, Waits
    <2> QED BY <2>1, <2>2, <2>3, <2>4, <2>5
  <1>21. CASE UNCHANGED vars
    BY <1>0, <1>21 DEF vars, TypeOK, StageInv, ThreadInv, ExitInv, TimeInv
  <1> QED
    BY <1>1, <1>2, <1>3, <1>4, <1>5, <1>6, <1>7, <1>8, <1>9, <1>10, <1>11,
       <1>12, <1>13, <1>14, <1>15, <1>16, <1>17, <1>18, <1>19, <1>20, <1>21
    DEF Next, MainNext, ThreadNext

\* main() keeps both invariants.
LEMMA Invariant == Spec => [](SourceInv /\ IInv)
  BY InitIInv, NextIInv, SourceInvariant, PTL DEF Spec

\* The variables of main() and its threads keep their types.
THEOREM TypeCorrect == Spec => []TypeOK
  BY Invariant, PTL DEF IInv

\* main.cpp:79-142, for every timeout: no thread of the program outlives an
\* object it refers to, whichever constructor throws.
THEOREM ThreadsUseLiveObjects == Spec => []NoDanglingUse
  <1>1. IInv => NoDanglingUse
    <2> SUFFICES ASSUME IInv PROVE NoDanglingUse
      OBVIOUS
    <2>1. \A i \in 1 .. built : Order[i] \in Alive
      BY DEF Alive
    <2>2. built >= 6 => {"serializer", "kafka", "queue", "metrics"} \subseteq Alive
      BY <2>1, OrderFacts DEF IInv, TypeOK
    <2>3. built = 9 => {"source", "table", "queue", "metrics"} \subseteq Alive
      BY <2>1, OrderFacts
    <2> QED
      BY <2>2, <2>3 DEF NoDanglingUse, IInv, StageInv, ThreadInv
  <1> QED BY <1>1, Invariant, PTL

\* avro_kafka_sink.cpp:20-23 and main.cpp:135: when the sink's last look at
\* the queue can come, every producer of events is gone.
THEOREM SinkIsLast == Spec => []SinkStopsLast
  <1>1. IInv => SinkStopsLast
    BY DEF IInv, TypeOK, ThreadInv, SinkStopsLast, Running
  <1> QED BY <1>1, Invariant, PTL

\* main.cpp:144-149: what the exit code says, and what is released.
THEOREM ExitIsClean == Spec => []CleanExit
  <1>1. SourceInv /\ IInv => CleanExit
    BY DEF SourceInv, HandleInv, IInv, TypeOK, StageInv, ThreadInv, ExitInv, CleanExit
  <1> QED BY <1>1, Invariant, PTL

\* main.cpp:133-142: the shutdown's length for every timer interval and flush
\* timeout.
THEOREM ShutdownTime == Spec => []ShutdownBounded
  <1>1. IInv => ShutdownBounded
    BY DEF IInv, TimeInv, FirstWait, ShutdownBounded
  <1> QED BY <1>1, Invariant, PTL
=============================================================================
