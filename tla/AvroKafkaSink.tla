--------------------------- MODULE AvroKafkaSink ---------------------------
(***************************************************************************)
(* AvroKafkaSink and KafkaProducer (src/src/kafka): the sink thread takes  *)
(* events from the queue, serializes and produces them, and keeps those    *)
(* that librdkafka refuses in a retry buffer; main() flushes the producer  *)
(* at shutdown, concurrently, and then stops the sink thread.              *)
(*                                                                         *)
(* Events are numbered in the order in which FlowTable pushes them.  The   *)
(* queue between them is the FIFO queue that EventQueue implements.  Of    *)
(* librdkafka the model keeps its bounded queue of messages: a message     *)
(* counts against the bound until its delivery report is served, by poll() *)
(* or flush().  The producer is set up with retries and without            *)
(* idempotence, so librdkafka may send a message more than once and have   *)
(* messages written and answered in any order, and a message that is       *)
(* reported as failed may have been written all the same.                  *)
(***************************************************************************)
EXTENDS Integers, Sequences, FiniteSets, SequencesExt

CONSTANTS QueueCapacity,   \* of EventQueue
          SrBufferSize,    \* cfg.sr_buffer_size
          OutqCapacity,    \* queue.buffering.max.messages
          MaxWrites,       \* 1 + message.send.max.retries
          MaxEvents        \* bound of the model

ASSUME SinkAssumption == /\ QueueCapacity \in Nat \ {0} /\ SrBufferSize \in Nat \ {0}
                         /\ OutqCapacity \in Nat \ {0} /\ MaxWrites \in Nat \ {0}
                         /\ MaxEvents \in Nat

VARIABLES queue,           \* queue_
          pushed,          \* number of events pushed so far
          spc, evt,        \* sink thread, and the event it holds
          retryBuf,        \* retry_buf_
          stop,            \* the sink thread's stop token
          mpc,             \* main()
          inflight,        \* librdkafka: messages without an answer
          acks, failed,    \* librdkafka: reports not served, by result
          delivered, undelivered,   \* history: reports served, by result
          topic,           \* the topic's partition: messages written
          produced,        \* kafka_messages_produced
          localError,      \* history: produce() failed although there was room
          handed,          \* history: events that produce() accepted, in order
          invalid,         \* history: events that cannot be serialized
          dropped          \* history: events the retry buffer had no room for

sinkVars == <<spc, evt, retryBuf>>
producerVars == <<produced, localError, handed>>
outqVars == <<inflight, acks, failed, delivered, undelivered>>
goneVars == <<invalid, dropped>>
vars == <<queue, pushed, sinkVars, stop, mpc, outqVars, topic, producerVars, goneVars>>

NoEvt == 0

Init == /\ queue = <<>> /\ pushed = 0
        /\ spc = "test" /\ evt = NoEvt /\ retryBuf = <<>> /\ stop = FALSE
        /\ mpc = "run"
        /\ inflight = <<>> /\ acks = 0 /\ failed = 0 /\ delivered = 0 /\ undelivered = 0
        /\ topic = <<>> /\ invalid = <<>> /\ dropped = <<>>
        /\ produced = 0 /\ localError = FALSE /\ handed = <<>>

\* The serializer throws: the event is counted and forgotten.
Invalid(e) == invalid' = Append(invalid, e) /\ UNCHANGED <<dropped, outqVars, producerVars>>

(***************************************************************************)
(* librdkafka and the broker.                                              *)
(***************************************************************************)
outq_len == Len(inflight) + acks + failed

Writes(e) == Cardinality({n \in 1 .. Len(topic) : topic[n] = e})

\* The broker writes one of the messages in flight, again if librdkafka sends
\* it again.
Write(i) == /\ mpc # "done" /\ Writes(inflight[i]) < MaxWrites
            /\ topic' = Append(topic, inflight[i])
            /\ UNCHANGED <<queue, pushed, sinkVars, stop, mpc, outqVars, producerVars, goneVars>>

\* A message that was written is acknowledged ...
Acknowledge(i) == /\ mpc # "done" /\ Writes(inflight[i]) > 0
                  /\ inflight' = RemoveAt(inflight, i) /\ acks' = acks + 1
                  /\ UNCHANGED <<queue, pushed, sinkVars, stop, mpc, failed, delivered,
                                 undelivered, topic, producerVars, goneVars>>

\* ... or, written or not, given up by librdkafka.
FailDelivery(i) == /\ mpc # "done"
                   /\ inflight' = RemoveAt(inflight, i) /\ failed' = failed + 1
                   /\ UNCHANGED <<queue, pushed, sinkVars, stop, mpc, acks, delivered,
                                  undelivered, topic, producerVars, goneVars>>

\* poll() and flush() serve the reports: DeliveryCb counts a failure and
\* nothing else.
ServeReports == /\ delivered' = delivered + acks /\ undelivered' = undelivered + failed
                /\ acks' = 0 /\ failed' = 0
                /\ UNCHANGED <<inflight, goneVars>>

(***************************************************************************)
(* KafkaProducer::produce().                                               *)
(***************************************************************************)
ProduceOk(e) == /\ outq_len < OutqCapacity
                /\ inflight' = Append(inflight, e)
                /\ produced' = produced + 1 /\ handed' = Append(handed, e)
                /\ UNCHANGED <<acks, failed, delivered, undelivered, localError>>

\* librdkafka's queue is full, or it refuses the message for another reason
\* (its size, the topic).
ProduceFails == /\ localError' = (localError \/ outq_len < OutqCapacity)
                /\ UNCHANGED <<outqVars, produced, handed>>

(***************************************************************************)
(* The sink thread: sink_thread_func().                                    *)
(***************************************************************************)
\* while (!stop.stop_requested()), without the test of the queue.
TestStopOnly ==
  /\ spc = "test"
  /\ spc' = IF stop THEN "flush" ELSE "retry"
  /\ UNCHANGED <<queue, pushed, evt, retryBuf, stop, mpc, outqVars, topic, producerVars, goneVars>>

\* The two operands of the loop's condition.  Reading the stop token after
\* main() has set it makes all the pushes visible to empty().
TestStop == /\ spc = "test"
            /\ spc' = IF stop THEN "empty" ELSE "retry"
            /\ UNCHANGED <<queue, pushed, evt, retryBuf, stop, mpc, outqVars, topic, producerVars, goneVars>>

\* Waits for the retry buffer too, for as long as the broker is down.
TestBothEmpty ==
  /\ spc = "empty"
  /\ spc' = IF queue = <<>> /\ retryBuf = <<>> THEN "flush" ELSE "retry"
  /\ UNCHANGED <<queue, pushed, evt, retryBuf, stop, mpc, outqVars, topic, producerVars, goneVars>>

TestEmpty == /\ spc = "empty"
             /\ spc' = IF queue = <<>> THEN "flush" ELSE "retry"
             /\ UNCHANGED <<queue, pushed, evt, retryBuf, stop, mpc, outqVars, topic, producerVars, goneVars>>

\* The event is produced but stays in the buffer.
RetryFrontKeeps ==
  /\ spc = "retry" /\ retryBuf # <<>>
  /\ ProduceOk(Head(retryBuf)) \/ ProduceFails
  /\ spc' = "pop"
  /\ UNCHANGED <<queue, pushed, evt, retryBuf, stop, mpc, topic, goneVars>>

\* One iteration of the loop that drains the retry buffer.
RetryFront ==
  /\ spc = "retry" /\ retryBuf # <<>>
  /\ \/ /\ ProduceOk(Head(retryBuf))
        /\ retryBuf' = Tail(retryBuf) /\ UNCHANGED <<spc, goneVars>>
     \/ /\ ProduceFails
        /\ spc' = "pop" /\ UNCHANGED <<retryBuf, goneVars>>
     \/ /\ Invalid(Head(retryBuf))
        /\ retryBuf' = Tail(retryBuf) /\ UNCHANGED spc
  /\ UNCHANGED <<queue, pushed, evt, stop, mpc, topic>>

\* The retry buffer is left alone.
RetrySkipped ==
  /\ spc = "retry"
  /\ spc' = "pop"
  /\ UNCHANGED <<queue, pushed, evt, retryBuf, stop, mpc, outqVars, topic, producerVars, goneVars>>

RetryEmpty == /\ spc = "retry" /\ retryBuf = <<>>
              /\ spc' = "pop"
              /\ UNCHANGED <<queue, pushed, evt, retryBuf, stop, mpc, outqVars, topic, producerVars, goneVars>>

\* pop_wait() returns the oldest event ...
PopEvent == /\ spc = "pop" /\ queue # <<>>
            /\ evt' = Head(queue) /\ queue' = Tail(queue)
            /\ spc' = "produce"
            /\ UNCHANGED <<pushed, retryBuf, stop, mpc, outqVars, topic, producerVars, goneVars>>

\* ... or nothing: its deadline passed, or the event is not visible yet.
PopNothing == /\ spc = "pop"
              /\ spc' = "poll"
              /\ UNCHANGED <<queue, pushed, evt, retryBuf, stop, mpc, outqVars, topic, producerVars, goneVars>>

\* The size of the retry buffer is not tested.
ProduceUnbounded ==
  /\ spc = "produce"
  /\ \/ ProduceOk(evt) /\ UNCHANGED <<retryBuf, goneVars>>
     \/ Invalid(evt) /\ UNCHANGED retryBuf
     \/ ProduceFails /\ retryBuf' = Append(retryBuf, evt) /\ UNCHANGED goneVars
  /\ evt' = NoEvt /\ spc' = "poll"
  /\ UNCHANGED <<queue, pushed, stop, mpc, topic>>

\* attempt_produce(), and what follows when it returns false.
Produce ==
  /\ spc = "produce"
  /\ \/ ProduceOk(evt) /\ UNCHANGED <<retryBuf, goneVars>>
     \/ Invalid(evt) /\ UNCHANGED retryBuf
     \/ /\ ProduceFails /\ Len(retryBuf) < SrBufferSize
        /\ retryBuf' = Append(retryBuf, evt) /\ UNCHANGED goneVars
     \/ /\ ProduceFails /\ Len(retryBuf) >= SrBufferSize
        /\ dropped' = Append(dropped, evt) /\ UNCHANGED <<retryBuf, invalid>>
  /\ evt' = NoEvt /\ spc' = "poll"
  /\ UNCHANGED <<queue, pushed, stop, mpc, topic>>

Poll == /\ spc = "poll"
        /\ ServeReports
        /\ spc' = "test"
        /\ UNCHANGED <<queue, pushed, evt, retryBuf, stop, mpc, topic, producerVars>>

\* flush(9000): serves reports until no message is left or the time is up.
SinkFlush == /\ spc = "flush"
             /\ ServeReports
             /\ spc' \in {"flush", "exited"}
             /\ UNCHANGED <<queue, pushed, evt, retryBuf, stop, mpc, topic, producerVars>>

(***************************************************************************)
(* The other threads.                                                      *)
(***************************************************************************)
\* FlowTable emits an event, which the queue accepts; until main() has
\* drained the table.
Push == /\ mpc = "run" /\ pushed < MaxEvents /\ Len(queue) < QueueCapacity
        /\ pushed' = pushed + 1
        /\ queue' = Append(queue, pushed')
        /\ UNCHANGED <<sinkVars, stop, mpc, outqVars, topic, producerVars, goneVars>>

\* sink.flush(9000), in main(), after drain_all().
StartFlush == /\ mpc = "run"
              /\ mpc' = "flush"
              /\ UNCHANGED <<queue, pushed, sinkVars, stop, outqVars, topic, producerVars, goneVars>>

MainServe == /\ mpc = "flush"
             /\ ServeReports
             /\ UNCHANGED <<queue, pushed, sinkVars, stop, mpc, topic, producerVars>>

\* flush() returns because librdkafka's queue is empty, or because of its
\* timeout.
EndFlush(why) == /\ mpc = "flush"
                 /\ why = "empty" => outq_len = 0
                 /\ mpc' = IF why = "empty" THEN "flushed" ELSE "timedout"
                 /\ UNCHANGED <<queue, pushed, sinkVars, stop, outqVars, topic, producerVars, goneVars>>

\* source->run() throws: main() unwinds without a flush of its own.
FailRun == /\ mpc = "run"
           /\ mpc' = "failed"
           /\ UNCHANGED <<queue, pushed, sinkVars, stop, outqVars, topic, producerVars, goneVars>>

\* ~AvroKafkaSink(): request_stop(), then the thread is joined.
RequestStop == /\ mpc \in {"flushed", "timedout", "failed"}
               /\ stop' = TRUE /\ mpc' = "join"
               /\ UNCHANGED <<queue, pushed, sinkVars, outqVars, topic, producerVars, goneVars>>

Join == /\ mpc = "join" /\ spc = "exited"
        /\ mpc' = "done"
        /\ UNCHANGED <<queue, pushed, sinkVars, stop, outqVars, topic, producerVars, goneVars>>

Finished == mpc = "done" /\ UNCHANGED vars

SinkNext == \/ TestStop \/ TestEmpty \/ RetryFront \/ RetryEmpty \/ PopEvent \/ PopNothing
            \/ Produce \/ Poll \/ SinkFlush
MainNext == \/ FailRun \/ StartFlush \/ MainServe \/ \E why \in {"empty", "timeout"} : EndFlush(why)
            \/ RequestStop \/ Join
Broker   == \E i \in 1 .. Len(inflight) : Write(i) \/ Acknowledge(i) \/ FailDelivery(i)

Next == SinkNext \/ MainNext \/ Push \/ Broker \/ Finished

Spec == Init /\ [][Next]_vars

\* The threads run, what the queue holds is eventually taken (EventQueue's
\* TakesEverything) and the timeouts of flush() pass.  The broker owes
\* nothing, and main() may capture for ever.
Fairness == /\ WF_vars(SinkNext /\ (spc = "flush" => spc' = "exited")) /\ SF_vars(PopEvent)
            /\ WF_vars(EndFlush("timeout") \/ RequestStop \/ Join)

FairSpec == Spec /\ Fairness

-----------------------------------------------------------------------------
Evts == 1 .. MaxEvents

\* Types of the variables, and the limits of the three bounded containers:
\* the event queue, retry_buf_ and librdkafka's queue.
TypeOK ==
  /\ queue \in Seq(Evts) /\ Len(queue) <= QueueCapacity
  /\ pushed \in 0 .. MaxEvents
  /\ spc \in {"test", "empty", "retry", "pop", "produce", "poll", "flush", "exited"}
  /\ evt \in Evts \cup {NoEvt} /\ (evt # NoEvt <=> spc = "produce")
  /\ retryBuf \in Seq(Evts) /\ Len(retryBuf) <= SrBufferSize
  /\ stop \in BOOLEAN
  /\ mpc \in {"run", "flush", "flushed", "timedout", "failed", "join", "done"}
  /\ inflight \in Seq(Evts) /\ acks \in Nat /\ failed \in Nat
  /\ outq_len <= OutqCapacity
  /\ delivered \in Nat /\ undelivered \in Nat
  /\ produced \in 0 .. MaxEvents /\ localError \in BOOLEAN
  /\ topic \in Seq(Evts) /\ handed \in Seq(Evts) /\ invalid \in Seq(Evts) /\ dropped \in Seq(Evts)

InHand   == IF evt = NoEvt THEN <<>> ELSE <<evt>>
Waiting  == queue \o InHand \o retryBuf
GivenUp  == invalid \o dropped

\* Every event pushed is in exactly one place: waiting, handed over to
\* librdkafka, or given up for a reason that was counted.  None is handed over
\* twice, so if the topic has one twice (SC-7, docs/requirements/srs.md:176,
\* allows it) librdkafka has sent it again; and what is in the topic neither
\* waits nor was given up.  kafka_messages_produced counts the events handed
\* over, each of which is in librdkafka or had its report served once.
Conservation ==
  LET everywhere == Waiting \o handed \o GivenUp
  IN /\ Len(everywhere) = pushed /\ ToSet(everywhere) = 1 .. pushed
     /\ ToSet(topic) \subseteq ToSet(handed)
     /\ produced = Len(handed) /\ produced = outq_len + delivered + undelivered

Increasing(s) == \A i, j \in 1 .. Len(s) : i < j => s[i] < s[j]

\* While main() captures, only the sink thread serves delivery reports, so a
\* refused event stays ahead of every later one as long as it was refused
\* for lack of room: what produce() has accepted, what waits for a retry, the
\* event in hand and the queue are together in the order of the pushes.  What
\* librdkafka and the broker make of that order is theirs.
OrderedWhileCapturing ==
  (mpc = "run" /\ ~ localError) => Increasing(handed \o retryBuf \o InHand \o queue)

\* The sink thread leaves its loop only when it has taken every event.
QueueDrained == spc \in {"flush", "exited"} => queue = <<>>

\* Shutdown ends, whatever the broker does, after a capture that ended and
\* after one that failed.
Terminates == (mpc \in {"flush", "failed"}) ~> (mpc = "done")

\* FR-SER-4, docs/requirements/srs.md:58: buffered events are retried before
\* they are dropped.
RetriedBeforeExit == (spc = "exited" /\ ~ localError) => retryBuf = <<>>

\* In order, if repetitions are left out of account.
InOrder(s) == \A i, j \in 1 .. Len(s) : i < j => s[i] <= s[j]

\* docs/design/architecture.md:670: "ordering guarantees within a flow".  The
\* events pushed can be the Start, Stats and End of one flow.
TopicInOrder == ~ localError => InOrder(topic)
=============================================================================
