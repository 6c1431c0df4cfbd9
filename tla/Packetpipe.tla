----------------------------- MODULE Packetpipe -----------------------------
(***************************************************************************)
(* main() (src/src/main.cpp): the order in which the objects are built and *)
(* destroyed, the threads that use them, signals, failures at every step,  *)
(* the exit code, and how long the shutdown takes.                         *)
(*                                                                         *)
(* The source is PacketSource.  Of the timer and the sink thread the model *)
(* keeps when they run and wait; what they do is in FlowTable and          *)
(* AvroKafkaSink.  Only waiting takes time: the timer's sleep and the two  *)
(* flushes.  A wait is a number of time units left, and time passes when   *)
(* every thread waits.                                                     *)
(***************************************************************************)
EXTENDS PacketSource, Sequences

CONSTANTS Interval,      \* of the timer thread
          FlushTimeout   \* 9000 ms

ASSUME WaitAssumption == Interval \in Nat \ {0} /\ FlushTimeout \in Nat

VARIABLES mpc,           \* main()
          built,         \* how many of the objects in Order exist
          handlers,      \* the signal handlers are installed
          timer, timerStop,   \* timer thread and its stop token
          sink, sinkStop,     \* sink thread and its stop token
          left,          \* time left of the waits
          elapsed,       \* time since run() ended
          drained,       \* drain_all() has run
          code           \* exit code

timeVars   == <<left, elapsed>>
timerVars  == <<timer, timerStop>>
sinkVars   == <<sink, sinkStop>>
mainVars   == <<mpc, built, handlers, drained, code>>
vars == <<sourceVars, mainVars, timerVars, sinkVars, timeVars>>

\* The sink is declared after the flow table.
OrderSinkLast == <<"metrics", "registry", "serializer", "kafka", "queue", "source", "table",
                   "timer", "sink">>

\* The objects of main()'s try block in the order of their declarations.
Order == <<"metrics", "registry", "serializer", "kafka", "queue", "sink", "source", "table",
           "timer">>

\* The timer's sleep, main()'s flush and the sink thread's.
Waits == {"timer", "flush", "sink"}

Init == /\ SourceInit
        /\ mpc = "parse" /\ built = 0 /\ handlers = FALSE
        /\ timer = "none" /\ timerStop = FALSE /\ sink = "none" /\ sinkStop = FALSE
        /\ left = [w \in Waits |-> 0] /\ elapsed = 0
        /\ drained = FALSE /\ code = 0

Running == mpc \notin {"exited", "killed"} /\ ~ Crashed
Alive   == {Order[i] : i \in 1 .. built}

-----------------------------------------------------------------------------
(***************************************************************************)
(* Start-up.                                                               *)
(***************************************************************************)
\* ConfigParser::parse() returns, or throws std::invalid_argument.
Parse(valid) == /\ mpc = "parse"
                /\ mpc' = IF valid THEN "build" ELSE "exited"
                /\ code' = IF valid THEN 0 ELSE 1
                /\ UNCHANGED <<sourceVars, built, handlers, drained, timerVars, sinkVars, timeVars>>

\* How the constructors end.
MetricsRegistry == {"ok", "port in use"}
SchemaRegistryClient == {"ok", "invalid URL", "unreachable", "status not 200", "no id in the body"}
AvroSerializer == {"ok", "no schema file", "invalid schema"}
KafkaProducer == {"ok", "no conf file", "setting refused", "no producer"}
EventQueue == {"ok", "no memory"}
Source == IF live THEN {"ok", "no CAP_NET_RAW"} ELSE {"ok"}
FlowTable == {"ok", "no memory for max_flows"}
Thread == {"ok", "no thread"}

Outcomes(object) == CASE object = "metrics" -> MetricsRegistry
                      [] object = "registry" -> SchemaRegistryClient
                      [] object = "serializer" -> AvroSerializer
                      [] object = "kafka" -> KafkaProducer
                      [] object = "queue" -> EventQueue
                      [] object = "source" -> Source
                      [] object = "table" -> FlowTable
                      [] object \in {"sink", "timer"} -> Thread

\* The next object; the sink and the timer start their threads.
Construct == LET object == Order[built + 1]
             IN /\ mpc = "build" /\ built < Len(Order)
                /\ object = "timer" => handlers
                /\ built' = built + 1
                /\ sink' = IF object = "sink" THEN "running" ELSE sink
                /\ timer' = IF object = "timer" THEN "awake" ELSE timer
                /\ UNCHANGED <<sourceVars, mpc, handlers, drained, code, timerStop, sinkStop, timeVars>>

\* A constructor throws: main() unwinds and returns 1.
ConstructThrows == /\ mpc = "build" /\ built < Len(Order)
                   /\ Order[built + 1] = "timer" => handlers
                   /\ \E how \in Outcomes(Order[built + 1]) : how # "ok"
                   /\ mpc' = "unwind" /\ code' = 1
                   /\ UNCHANGED <<sourceVars, built, handlers, drained, timerVars, sinkVars, timeVars>>

InstallHandlers == /\ mpc = "build" /\ built > 0 /\ Order[built] = "table" /\ ~ handlers
                   /\ handlers' = TRUE
                   /\ UNCHANGED <<sourceVars, mpc, built, drained, code, timerVars, sinkVars, timeVars>>

StartRun == /\ mpc = "build" /\ built = Len(Order)
            /\ mpc' = "run"
            /\ UNCHANGED <<sourceVars, built, handlers, drained, code, timerVars, sinkVars, timeVars>>

(***************************************************************************)
(* Signals and capture.                                                    *)
(***************************************************************************)
\* Without a handler SIGINT and SIGTERM end the process.
Killed == /\ ~ handlers
          /\ mpc' = "killed"
          /\ UNCHANGED <<sourceVars, built, handlers, drained, code, timerVars, sinkVars, timeVars>>

Handler == /\ handlers
           /\ Signal \/ \E s \in 1 .. MaxSignals : Stop(s)
           /\ UNCHANGED <<mainVars, timerVars, sinkVars, timeVars>>

Run == /\ mpc = "run"
       /\ RunNext
       /\ UNCHANGED <<mainVars, timerVars, sinkVars, timeVars>>

\* The exception is logged, and forgotten.
RunOverExitsZero == /\ mpc = "run" /\ rpc = "over"
                    /\ mpc' = IF after = "returned" THEN "drain" ELSE "unwind"
                    /\ UNCHANGED <<sourceVars, built, handlers, drained, code, timerVars, sinkVars, timeVars>>

\* run() returns or throws.
RunOver == /\ mpc = "run" /\ rpc = "over"
           /\ mpc' = IF after = "returned" THEN "drain" ELSE "unwind"
           /\ code' = IF after = "returned" THEN code ELSE 1
           /\ UNCHANGED <<sourceVars, built, handlers, drained, timerVars, sinkVars, timeVars>>

(***************************************************************************)
(* Shutdown.                                                               *)
(***************************************************************************)
DrainAll == /\ mpc = "drain"
            /\ drained' = TRUE /\ mpc' = "stop"
            /\ UNCHANGED <<sourceVars, built, handlers, code, timerVars, sinkVars, timeVars>>

\* The timer's stop is left to its destructor.
StopTimerLate == /\ mpc = "stop"
                 /\ mpc' = "flush" /\ left' = [left EXCEPT !["flush"] = FlushTimeout]
                 /\ UNCHANGED <<sourceVars, built, handlers, drained, code, timerVars, sinkVars, elapsed>>

\* timer_thread.request_stop(), and sink.flush(9000) begins.
StopTimer == /\ mpc = "stop"
             /\ timerStop' = TRUE
             /\ mpc' = "flush" /\ left' = [left EXCEPT !["flush"] = FlushTimeout]
             /\ UNCHANGED <<sourceVars, built, handlers, drained, code, timer, sinkVars, elapsed>>

\* librdkafka's queue is empty, or the time is up.
FlushEnds == /\ mpc = "flush"
             /\ mpc' = "unwind"
             /\ UNCHANGED <<sourceVars, built, handlers, drained, code, timerVars, sinkVars, timeVars>>

\* The end of the try block, or an exception: the last object in Order that
\* exists is destroyed.  A thread is asked to stop ...
StopPending == \/ Order[built] = "timer" /\ ~ timerStop
               \/ Order[built] = "sink" /\ ~ sinkStop

RequestStop == /\ mpc = "unwind" /\ built > 0 /\ StopPending
               /\ timerStop' = (timerStop \/ Order[built] = "timer")
               /\ sinkStop' = (sinkStop \/ Order[built] = "sink")
               /\ UNCHANGED <<sourceVars, mainVars, timer, sink, timeVars>>

\* A thread is left running.
Detached(object) == TRUE

\* ... and joined.
Joined(object) == /\ object = "timer" => timerStop /\ timer = "exited"
                  /\ object = "sink" => sinkStop /\ sink = "exited"

Unwind == /\ mpc = "unwind" /\ built > 0
          /\ Joined(Order[built])
          /\ built' = built - 1
          /\ IF Order[built] = "source" THEN Destroy ELSE UNCHANGED sourceVars
          /\ UNCHANGED <<mpc, handlers, drained, code, timerVars, sinkVars, timeVars>>

Return == /\ mpc = "unwind" /\ built = 0
          /\ mpc' = "exited"
          /\ UNCHANGED <<sourceVars, built, handlers, drained, code, timerVars, sinkVars, timeVars>>

(***************************************************************************)
(* The threads, and time.                                                  *)
(***************************************************************************)
TimerWake == /\ timer = "asleep" /\ left["timer"] = 0
             /\ timer' = IF timerStop THEN "exited" ELSE "awake"
             /\ UNCHANGED <<sourceVars, mainVars, timerStop, sinkVars, timeVars>>

\* The loop's condition, when the thread starts and after each sweep.
TimerLoop == /\ timer = "awake"
             /\ timer' = IF timerStop THEN "exited" ELSE "asleep"
             /\ left' = IF timerStop THEN left ELSE [left EXCEPT !["timer"] = Interval]
             /\ UNCHANGED <<sourceVars, mainVars, timerStop, sinkVars, elapsed>>

\* Asked to stop, the sink thread empties the queue and flushes.
SinkFlushes == /\ sink = "running" /\ sinkStop
               /\ sink' = "flush" /\ left' = [left EXCEPT !["sink"] = FlushTimeout]
               /\ UNCHANGED <<sourceVars, mainVars, timerVars, sinkStop, elapsed>>

SinkExits == /\ sink = "flush"
             /\ sink' = "exited"
             /\ UNCHANGED <<sourceVars, mainVars, timerVars, sinkStop, timeVars>>

MainWaits == \/ mpc = "run"
             \/ mpc = "flush" /\ left["flush"] > 0
             \/ mpc = "unwind" /\ built > 0 /\ ~ StopPending /\ ~ Joined(Order[built])

Dec(n) == IF n = 0 THEN 0 ELSE n - 1

Tick == /\ MainWaits
        /\ timer = "asleep" => left["timer"] > 0
        /\ timer # "awake"
        /\ sink = "flush" => left["sink"] > 0
        /\ ~ (sink = "running" /\ sinkStop)
        /\ left' = [w \in Waits |-> Dec(left[w])]
        /\ elapsed' = IF mpc = "run" THEN 0 ELSE elapsed + 1
        /\ UNCHANGED <<sourceVars, mainVars, timerVars, sinkVars>>

MainNext == \/ Construct \/ ConstructThrows \/ InstallHandlers \/ StartRun
            \/ RunOver \/ DrainAll \/ StopTimer \/ FlushEnds \/ RequestStop \/ Unwind \/ Return
ThreadNext == TimerWake \/ TimerLoop \/ SinkFlushes \/ SinkExits

Next == \/ /\ Running
           /\ \/ \E valid \in BOOLEAN : Parse(valid)
              \/ MainNext \/ ThreadNext \/ Killed \/ Handler \/ Run \/ Tick
        \/ ~ Running /\ UNCHANGED vars

Spec == Init /\ [][Next]_vars

\* All threads run, time passes and a file ends; nothing says that signals,
\* errors or acknowledgements come.
FairSpec == /\ Spec
            /\ WF_vars(Running /\ MainNext) /\ WF_vars(Running /\ ThreadNext)
            /\ WF_vars(Running /\ Tick)
            /\ \A s \in 1 .. MaxSignals : WF_vars(Running /\ Handler /\ Stop(s))
            /\ WF_vars(Running /\ Run /\ (Open \/ SetFilter \/ SetNonblock \/ LoopBroken
                                            \/ EndOfFile \/ Close \/ Reset))

-----------------------------------------------------------------------------
\* Types of the variables.
TypeOK ==
  /\ SourceTypeOK
  /\ mpc \in {"parse", "build", "run", "drain", "stop", "flush", "unwind", "exited", "killed"}
  /\ built \in 0 .. Len(Order) /\ handlers \in BOOLEAN
  /\ timer \in {"none", "asleep", "awake", "exited"} /\ timerStop \in BOOLEAN
  /\ sink \in {"none", "running", "flush", "exited"} /\ sinkStop \in BOOLEAN
  /\ left \in [Waits -> Nat] /\ left["timer"] <= Interval
  /\ left["flush"] <= FlushTimeout /\ left["sink"] <= FlushTimeout
  /\ elapsed \in Nat /\ drained \in BOOLEAN /\ code \in {0, 1}

\* No thread runs when an object that it uses does not exist yet or any more,
\* wherever start-up or the capture fails: the timer thread holds references
\* to the table and through it to the queue and the metrics, the sink thread
\* to serializer, producer, queue and metrics.
NoDanglingUse ==
  Running => /\ timer \in {"asleep", "awake"} => {"table", "queue", "metrics"} \subseteq Alive
             /\ sink \in {"running", "flush"} =>
                  {"serializer", "kafka", "queue", "metrics"} \subseteq Alive
             /\ mpc = "run" => {"source", "table", "queue", "metrics"} \subseteq Alive

\* When the sink thread is asked to stop, nobody is left who could push an
\* event behind its last look at the queue.
SinkStopsLast == (Running /\ sinkStop) => timer \in {"none", "exited"} /\ mpc = "unwind"

\* The exit code is 0 exactly when the capture ended without an error and the
\* flows were drained; and main() returns only with both threads joined, every
\* object destroyed and the handle closed.
CleanExit ==
  mpc = "exited" =>
    /\ code = 0 <=> drained
    /\ drained => after = "returned" /\ rpc = "destroyed"
    /\ timer \in {"none", "exited"} /\ sink \in {"none", "exited"}
    /\ built = 0 /\ opens = closes

\* Once run() has ended, the process is gone after two flushes, or after one
\* and the timer's last sleep, whichever is longer; main()'s flush and that
\* sleep overlap because the stop is requested first.
ShutdownBounded ==
  elapsed <= (IF FlushTimeout > Interval THEN FlushTimeout ELSE Interval) + FlushTimeout

\* A stop() that finds run() in its loop ends the process, although the flag
\* it sets is cleared by the loop, a second signal may come, and three threads
\* have to be stopped.
StopEndsProcess == (breakLoop /\ rpc = "loop") ~> ~ Running

\* docs/requirements/srs.md:118 (NFR-REL-3): "SIGINT and SIGTERM shall trigger
\* a clean shutdown".  Signals are received once main() has installed its
\* handler.
SignalEndsProcess == (signals > 0) ~> ~ Running

\* docs/design/architecture.md:506: "The process never hangs beyond 10 s total
\* after shutdown signal".
ShutdownWithin10s == elapsed <= 10
=============================================================================
