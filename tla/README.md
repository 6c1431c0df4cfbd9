# Verification of packetpipe

packetpipe captures packets, groups them into flows and publishes the flows'
events to Kafka. This directory holds TLA+ models of all its components, the
TLC configurations that check them on small instances, and proofs, checked by
TLAPS, that the most important properties hold for every instance. Paths are
relative to the repository; line numbers are those of the modelled commit.

## The system

| Component | State | Operations | Hard because |
|---|---|---|---|
| Packet sources (`src/packets/*_source.cpp`) | `handle_` | `run()`, `stop()`, destructor | `stop()` runs in a signal handler, on any thread, at any point of `run()` |
| `PacketDecoder` | offset in the frame | `decode()` | frames cut anywhere, headers that claim their own length |
| `FlowTable` (`src/flowtable`) | `flows_`, `last_heartbeat_us_`, counters | `process()`, `timer_sweep()`, `drain_all()` | two threads, two clocks (packets' and wall), three ways to end a flow, a limit on its size |
| Timer thread (`main.cpp:119`) | stop token | sleep, sweep | reads the clock before it has the lock; may sweep after the drain |
| `EventQueue` (`src/events/event_queue.hpp`) | ring, two atomic indices, condition variable | `push()`, `pop()`, `pop_wait()` | lock-free, written for one producer and used by two, notifies without the mutex |
| `AvroKafkaSink` (`src/kafka`) | retry buffer, stop token | sink thread, `flush()`, destructor | order and loss across three queues, a second thread that flushes |
| `KafkaProducer` | librdkafka handle | constructor, `produce()`, `poll()`, `flush()`, delivery callback | failures reported long after the call; three layers of settings |
| `AvroSerializer`, `SchemaRegistryClient` | schema, id | `serialize()`, `flow_id()`, one HTTP request | filled by position, read by name; the key of every message |
| `ConfigParser` | `AppConfig` | `parse()` | repeated and reordered options; accepts numbers that later overflow |
| `MetricsRegistry` | prometheus counters | registration | none of its own |
| `main()` | `g_shutdown`, `g_source_ptr` | start-up, shutdown | order of stops, flushes and destructors when any step fails |

Data flows in one direction: source -> `process()` -> `emit()` -> `EventQueue` ->
sink thread -> librdkafka. Three threads meet: *capture* (also `main()`), *timer*
and *sink*. Capture and timer share `flows_` under `FlowTable::mutex_` and
call `push()` inside it; the sink thread shares only the queue with them, and
librdkafka with `main()`'s flush. Signals arrive on any thread.

What makes the parts correct: the queue is a bounded FIFO queue without races;
every flow is one Start, some Stats and one End, with counters that agree with
the table, expired neither early nor late; every event handed to the sink is in
exactly one place and is handed to librdkafka in order; shutdown drains everything and ends; the
capture handle is closed once and a stop that reaches the loop ends the process;
no frame makes the decoder read too far; what a consumer reads is what was on
the wire; the configuration is what was asked for.
`PROJECT.json` lists the hazards behind these sentences, line by line.

## Modules

| Module | Models | How |
|---|---|---|
| `BoundedFifo` | what the queue promises | abstract specification, `Store`, `Take`, `TakeNothing` |
| `EventQueue` | `event_queue.hpp` and the mutex around `push()` | one action per access to shared memory |
| `FlowLifecycle` | what readers of the events rely on | abstract specification over the latest event of each key |
| `FlowTable` | `flow_table.cpp`, timer thread and the parts of `main()` that drive it | one action per critical section and per step before it |
| `AvroKafkaSink` | `avro_kafka_sink.cpp`, `kafka_producer.cpp`, shutdown | one action per call of the sink thread |
| `PacketSource` | both sources and `signal_handler()` | one action per step of `run()` and per read of `handle_` |
| `Packetpipe` | `main()` with `PacketSource`, the timer and the sink thread | one action per step of start-up and shutdown; waits with their length |
| `PacketDecoder` | `packet_decoder.cpp` | one action per layer of a frame |
| `AvroSerializer` | `avro_serializer.cpp`, `FlowEvent.avsc` | operators, and the consumer's view of a message |
| `Datapath` | frame to message: `pcap_handler()`, `PacketDecoder`, a flow's data, `AvroSerializer`, the Kafka key | composition of the two modules above with the table's arithmetic |
| `Configuration` | `config_parser.cpp`, the constructor of `KafkaProducer` | one action per option and per line of the file |
| `MCEventQueue`, `MCFlowTable`, `MCDatapath`, `MCConfiguration` | - | instances for TLC |
| `EventQueueProofs`, `FlowTableProofs`, `AvroKafkaSinkProofs`, `PacketpipeProofs`, `DatapathProofs`, `DatapathTotals`, `ConfigurationProofs` | - | theorems |
| `Sums` | - | lemmas about sums over finite sets, for `FlowTableProofs` and `DatapathTotals` |

Operators whose comment names a mistake (`PushCheckNoSpare`, `DrainAllKeepsFlows`,
...) are variants of the definition that follows them. No specification uses
them; each exists to show that a property notices that mistake.

### EventQueue

`head_` and `tail_` are stored with release and loaded with acquire. `head`,
`tail` are the last stores; `headVis`, `tailVis` what the other side's next load
returns, which catches up one store at a time. Slots are plain memory, so
writing and reading one are separate steps, and `NoSlotRace` says that they
never coincide. The consumer's `wait_for` is split at the gap in which a
notification is lost, and it can wake up spuriously. `N` is any positive number
in the module: the mask `& (N - 1)` is the wrap-around that the `static_assert`
makes it.

### FlowTable

`process()` counts the packet before it locks, so `Receive` is one step and what
happens in the lock another (`RejectFlow`, `CreateFlow`, `UpdateFlow`,
`TearDownFlow`). `TimerWake` reads the clock, `TimerSweep` is the critical
section; `EndCapture` and `DrainAll` split `drain_all(now_us())` the same way. Whether the queue accepts an event is an input of each action (`no`,
the keys whose event is refused). Time is counted in half seconds, the unit of
the timer's interval; `Jitter` bounds how late the timer thread runs, `MaxLag` how
old a live packet is when it has been processed. `Live` chooses the source: a
replayed packet carries any timestamp of `Recorded`. `SetClock` sets the wall clock,
forward or back, to any time in `ClockSets`: lives, accounting and drain hold
whatever it is set to; the properties about time suppose that nobody sets it
(`OneClock`). Bytes are left out here because they change exactly when packets do
(`Datapath` has them); `drop_count_` only throttles a log line. `PacketConservation` is
about decoded packets: a frame that the decoder turns down is counted in
`packets_dropped` by the source and never in `packets_received` (`architecture.md:698`
counts before the decoder). `WellFormedLives` and `EveryFlowEnded` are about the events
emitted; one that the queue refuses never reaches a reader.

### AvroKafkaSink

Events are numbers in the order in which they are pushed. The queue is the
FIFO queue that `EventQueue` implements. librdkafka is external: a bounded queue
from which a message leaves when its report is served, by `poll()` or by one of
the two flushes. `KafkaProducer` sets it up with retries and without idempotence, so
nothing is assumed about order: of the messages `inflight` the broker writes any one
(`Write`, up to `MaxWrites` times each), and any one that was written is acknowledged,
or any one at all, written or not, is given up. `topic` is what was written, `handed`
what `produce()` accepted. What is given up on this side is recorded in
`invalid` (it cannot be serialized) and `dropped` (no room to retry).
`produce()` can fail although there is room; `localError` remembers that it
did, because such an event is overtaken by the next one.

### PacketSource and Packetpipe

`handle` is null, open, closed (freed, but `handle_` not reset yet) or destroyed
with the source. Every signal has a handler of its own (`hpc[s]`), because SIGINT and
SIGTERM can be handled on two threads at once. `stop()` reads `handle_` twice without synchronisation, so it is
two steps, and the second may use the value of the first; `pcap_breakloop()` on a
handle that is gone does nothing or crashes the process. libpcap is external:
its loop tests the flag before each packet, clears it and returns.

`Packetpipe` EXTENDS `PacketSource` and adds `main()`. `Order` is the order of the
declarations in the try block, `built` how many of the objects exist: `Construct`
goes up, `Unwind` goes down, at the end and after an exception anywhere. An
object with a thread is destroyed in two steps, request to stop and join.
`Outcomes` lists how each constructor can end. Time passes only while every thread
waits (`Tick`), so `elapsed` is the time that sleeps and flushes add to the
shutdown.

### PacketDecoder, AvroSerializer and Datapath

A frame records what lies where; the decoder gets the meaning of the bytes only
when it reads them at the offset of their header, and `Garbage` anywhere else.
That keeps every length check and every offset of `decode()` without a byte of
payload. `readTo` is the end of the furthest read. `DecodesTheFrame` compares with
`ParsedPacket`, a reference that knows the frame and has one length test.

`Record` lists the values in the order of the `k...Idx` constants and `Field` looks one
up by its name in the schema, so a swapped position is seen by the consumer. An
address is its notation and its bytes; the text of `flow_id()` is the sequence of its parts.
That the parts can still be told apart in the string they are joined to is assumed, so
`KeyIsFlow` would not notice missing brackets.
`Datapath` runs frames through `decode()`, the flow's counters and the
serializer, and reads the topic as a consumer does; `wire` remembers flow, time and
length of the frames decoded, for the properties to compare with. A file without
the thirteenth field makes every event unserializable.

### Configuration

`stoi` is a constant: the number a text starts with, or none. `IntMax` is a
parameter; the instance has 17 bits, so that the product with 500 overflows for
small numbers, and `SweepsTwicePerTimeout` is stated with it. The overflow is undefined
in C++; `AsInt` wraps, which is what the arithmetic does where the compiler leaves it
to the processor.

## Runs

| Run | Result | Shows |
|---|---|---|
| `queue` | pass | ring of 4, two producers, two values: FIFO refinement, no race, every stored event is taken |
| `table_replay` | pass | 3 keys, 2 flows at most, 3 packets, a clock that is set back and forward: accounting, conservation, lives, drain |
| `table_live` | pass | delays of one unit: expiry and heartbeat in time, no flow split |
| `table_replay_idle` | violation | a replayed flow is expired by the wall clock |
| `sink` | pass | room for 2 in queue and librdkafka and 1 in the retry buffer, 4 events, any order of answers: conservation, order of the hand-over, drained queue; shutdown ends, whatever the broker does |
| `sink_exit` | violation | the retry buffer is abandoned at exit |
| `sink_order` | violation | an event overtakes the retry buffer during `main()`'s flush |
| `pipeline` | pass | the real 15 s and 9 s, two signals, every failure: no dangling use, sink stops last, exit code, handle, duration and end of the shutdown |
| `shutdown_10s` | violation | flush, sleep and flush again take more than 10 s |
| `signal_lost` | violation | a signal before the handle is open is forgotten |
| `datapath` | pass | two frames and a heartbeat: reads in bounds, decoding, Kafka keys, totals and readability of the messages |
| `config` | pass | command lines of up to three options, files of up to two lines: last value wins, sweeps in time, layers |

The violations are places where the code does something else than a document
or a header says; `PROJECT.json` quotes the sentence of each. Others can be read
off the actions directly:

- a FIN or RST that is the first packet of its key creates a flow (`CreateFlow` does
  not look at `teardown`; `docs/requirements/srs.md:37`);
- a full retry buffer discards the newest event and not the oldest (`Produce`;
  `docs/design/architecture.md:678`), and a failed delivery is not queued again
  (`ServeReports`; `architecture.md:551`);
- `flush()` does not wait for the queue and the retry buffer (`EndFlush` looks at
  librdkafka only; `src/kafka/ievent_sink.hpp:15`);
- librdkafka may write the events of a flow out of order, or twice, at any time:
  idempotence is off and retries are on (`Write` in any order; `kafka_producer.cpp:27-28`
  against `architecture.md:670`). `TopicInOrder` fails for this reason as soon as
  librdkafka holds two messages; `sink_order` leaves room for one and shows the
  sink's own part in it;
- a signal between `pcap_close()` and the reset of `handle_`, or after the source is
  destroyed, uses what is gone (`StopBreak`; `main.cpp:30` says "must be
  signal-handler-safe", `architecture.md:461` "Signal-handler-safe"):
  `CrashOnlyAfterClose` says that it takes a signal this late;
- when both `--stats-interval` and `--flow-timeout` are 4294968 s (49.7 days) or more
  the product with 500 overflows (`Interval`; `main.cpp:121`), and can be negative, so that the
  timer thread sweeps without a pause; and 1 s in either gives 2 Hz
  (`architecture.md:455` says at most 1 Hz);
- `--flow-timeout 7x` is 7 (`stoi`), and `--pcap "" --iface x` is accepted (`OneSource`).

**Bounds.** A ring of 4 lets both indices wrap, both views lag by more than one
store and the ring be full; two producers are all that exist. Three keys with
`MaxFlows = 2` make the limit bite while flows expire and return; three packets
open, tear down and reopen a flow, or fill the table and are rejected. The clock
is set to a time before the start and to the last one, as often as one likes. The time runs go beyond one timeout, two
heartbeats and all delays. In the sink 4 events fill librdkafka's
queue and the retry buffer and make the next one be dropped, and two messages in flight
are written and answered in either order. The broker writes each once there:
nothing in the sink reads the topic, and the proof is for any number of times. The clock stops at
`MaxTime` only until a stop is requested. `Packetpipe` has the default timer interval
of 15 s and the flushes' 9 s as they are; two signals are handled at once or one after the other. In `Datapath` every kind of frame is cut one byte before
and at the end of each header, and two frames are enough for one flow to go on,
to end and to come back, and for two flows to be confused. Command lines of three
options repeat one and set both sources. Symmetry is used in `table_replay` only, for keys that its properties treat alike. Deadlock is checked in every run.

**Fairness.** In `EventQueue` only the consumer's steps and the visibility of
`tail_` are fair: the sink thread is scheduled, `wait_for` returns at its
deadline, and the C++ standard makes a store visible in finite time. In
`AvroKafkaSink` the sink thread runs, its flush and `main()`'s end at their
timeouts, and `PopEvent` is strongly fair because the queue gives out what it
holds (`TakesEverything`); the broker and the capture owe nothing. In
`Packetpipe` all threads run, time passes, sleeps and flushes end with it, a
handler that has begun goes on, and a file ends; packets, errors,
acknowledgements and signals need not come.

## Proofs

`EventQueueProofs`, from `QueueAssumption` only (a positive ring size, `NoEvent` is
no event, `Nobody` no thread), for any number of producers:

- `TypeCorrect`, `NoRace`: `NoSlotRace` is not inductive: nothing in it says why a
  producer that passed the test for full may still write. `IInv` adds that only
  the holder of the mutex is inside `push()` (`MutexInv`), that it holds the current
  `tail` and has found room (`PushInv`), that the four indices keep the order
  headVis, head, tailVis, tail around the ring and never span it all
  (`OrderInv`), and that a consumer that reads has something to read (`PopInv`).
- `Refinement`: `EventQueue` implements `BoundedFifo` with the slots from head to
  tail as the queue. Only `PushStore` stores, only `PopAdvance` takes; every
  other step leaves the contents alone because it writes no slot in use.

`FlowTableProofs`, from the assumptions named in `FlowTable` (positive options,
finitely many keys; a live packet is processed before its flow could time out;
the wall clock counts from 1970), with a clock that may be set at any time in all
theorems but the three about time:

- `TypeCorrect`, `AccountingCorrect`, `AllFlowsEnd`, `LivesAreWellFormed`. The
  inductive invariant joins the types, the phases of the two threads, the
  accounting, and the link between table and events: a key is tracked exactly
  when its latest event is a Start or Stats, with the same start and no larger
  count.
- `ExpiryIsTimely`, `HeartbeatIsTimely`, `NoFlowIsSplit`. `TimeInv` relates the clock
  to the latest time at which the next sweep is over, each flow's last packet to the sweep
  that spared it, and each idle End to the clock that it was judged by.
- `PacketsAreConserved`. `CountInv` is `PacketConservation` itself with the types of its
  two history counters: every step moves packets between its terms. The sum over
  the flows is taken apart with the lemmas of `Sums`.

`Sums` proves what `SumFunctionOnSet` does when an element comes, goes or counts for
nothing. The definition is a CHOOSE over tables that are recursive in the
subsets; the lemmas show that a table exists and that two agree, by taking the
least size for which a statement fails (`LeastNumber`, from the well-foundedness
of `<`). The library's induction theorems, which take an operator, are not used.

`PacketpipeProofs`, from `WaitAssumption` (a positive timer interval, any flush
timeout) and `SignalAssumption` (any bound on the signals):

- `HandleClosedOnce`, `SignalsAreHarmless`. Every step of `main()` and its threads is a
  step of `PacketSource` or leaves the source alone (`SourceSteps`), so the source's
  invariant can be proved of the source: `HandleInv`, where `run()` is fixes the
  handle, how often it was opened and closed, and how far a handler can be.
- `TypeCorrect`, `ThreadsUseLiveObjects`, `SinkIsLast`, `ExitIsClean`, `ShutdownTime`.
  None of these properties is inductive. `IInv` adds where `main()` is against how
  many objects exist (`StageInv`), each thread against its object and its stop token
  (`ThreadInv`), the exit code against the drain (`ExitInv`), and the time elapsed
  plus what is left of each wait against its bound (`TimeInv`).

`AvroKafkaSinkProofs`, from `SinkAssumption` (positive capacities), for every size of
the three queues and any number of events: `TypeCorrect`, `EventsAreConserved`,
`OrderIsKept`, `QueueIsDrained`. `IInv` has

- `PlaceInv`, conservation as a count and as a set: six places have as many events
  as were pushed and have all of them, so none is there twice; `LibInv`, what librdkafka
  and the topic have was handed over, and every message is reported once. Neither
  depends on the order in which the broker answers;
- `OrderInv`, the order place by place: handed over, retry buffer, the event
  in hand, queue. It is not inductive without `RoomInv`: while `main()` captures,
  nobody but the sink thread serves reports, so a retry that found librdkafka full
  still finds it full when the next event is produced, and that event waits
  behind it. During `main()`'s flush this fails, which is the violation `sink_order`. What
  becomes of the order beyond `produce()` is no part of it, as librdkafka may reorder it;
- `StopInv`: the thread leaves its loop after the stop and with an empty queue.

`DatapathProofs` and `DatapathTotals`, from `FrameAssumption` and `GarbageAssumption`
(any set of frames, of any captured length, with any header length; an address is two
parts; what is read in a wrong place is no header), `SchemaAssumption` (a
schema with all the fields is the repository's) and `IdAssumption` (an int that is
not negative):

- `ReadsInBounds`, `FrameIsDecoded`. `DecoderInv` says, layer by layer, that the
  offset is that of the next header and what has been read so far is right.
- `KeyIsTheFlow`, `MessagesAreReadable`. `TableInv` and `LogInv` link flows and messages
  to a frame on the wire; the key is one to one because the parts of `flow_id()`
  can be told apart (`FlowIdIsText`).
- `TotalsAddUp`. `TotalInv` is the equation that `TotalsAreTheWires` becomes when the table
  is not yet empty: of every flow, what FLOW_END messages report and what the
  table has is what the wire carried. `drain_all()` ends each flow once
  (`SetToSeqOnce`), and a message counts for one flow only (`TextIsFlow`).

`ConfigurationProofs`, from `ConfigAssumption` (an int holds the defaults; a skipped
line is no setting), for command lines and files of any length:
`LastGivenWins`, `IntervalIsHalf`, `LaterLayersWin`. `ParseInv` and
`FileInv` say that at every turn the configuration is that of the options, and the
settings those of the lines, read so far. Both carry that an option or key that was
given has a last position (`HasLast`), which spares an induction at the end.

Only model-checked: liveness (`TakesEverything`, `Terminates`, `StopEndsProcess`),
which the prover does not support. Every invariant and every other action property of the
passing runs is the subject of a theorem.

## Not modelled

The HTTP request of `SchemaRegistryClient` and the splitting of its URL, and the
names and labels that `MetricsRegistry` registers: I/O and text, of which the
models keep the outcomes. Logging, hashing and Avro's binary encoding. Later
fragments of IPv4 datagrams: the decoder reads their payload as ports, and no
document says what it should do. What the code leaves undefined after a crash in
`pcap_breakloop()`.

## Plan

1. Done: `EventQueue`, `FlowTable`, `AvroKafkaSink`, `PacketSource`, with the proofs above.
2. Done: `Packetpipe`, `PacketDecoder`, `AvroSerializer`, `Datapath`, `Configuration`.
3. Done: proofs for the sink, the decoder and the messages, the configuration, and
   the sums of `FlowTable` and `Datapath`.
4. Next: shorter proofs where lemmas repeat (sequences that grow by one, in
   `DatapathProofs` and `ConfigurationProofs`).
