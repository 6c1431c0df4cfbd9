------------------------------ MODULE Datapath ------------------------------
(***************************************************************************)
(* From a captured frame to the message on the topic: pcap_handler(),      *)
(* PacketDecoder, what FlowTable does to a flow's data, AvroSerializer and *)
(* the key that AvroKafkaSink produces with.  The threads, limits and      *)
(* failures on the way have modules of their own (FlowTable, EventQueue,   *)
(* AvroKafkaSink); here every event arrives, and the question is whether a *)
(* consumer learns from the messages what was on the wire.                 *)
(***************************************************************************)
EXTENDS PacketDecoder, AvroSerializer, SequencesExt

CONSTANTS SchemaId,     \* the registry's answer
          Schemas,      \* what the schema file may hold
          WallClock,    \* now_us() in sweeps and at the end
          MaxFrames, MaxHeartbeats   \* bounds of the model

\* A schema file with all the fields is the repository's; the registry's
\* ids are ints, and not negative.
ASSUME SchemaAssumption == \A s \in Schemas : Serializable(s) => s = FlowEventSchema
ASSUME IdAssumption == SchemaId \in Nat /\ SchemaId <= 2147483647

VARIABLES schema,
          flows,        \* flows_: key -> FlowState
          log,          \* messages on the topic, with their Kafka keys
          dropped,      \* packets_dropped
          draining,     \* run() has returned
          heartbeats,   \* sweeps with a heartbeat so far
          wire          \* history: flow, time and IP length of the frames decoded

tableVars == <<flows, log, dropped, heartbeats, wire, draining>>
vars == <<decoderVars, schema, tableVars>>

Init == /\ \E f \in Frames : DecodeInit(f)
        /\ schema \in Schemas
        /\ flows = <<>> /\ log = <<>> /\ dropped = 0 /\ heartbeats = 0
        /\ wire = <<>> /\ draining = FALSE

-----------------------------------------------------------------------------
\* attempt_produce(): an event that cannot be serialized is counted and
\* forgotten, every other one becomes a message.
Message(evt) == [key |-> flow_id(evt.state.key), value |-> serialize(evt, SchemaId)]
Publish(evts) ==
  log' = IF Serializable(schema) THEN log \o [i \in 1 .. Len(evts) |-> Message(evts[i])] ELSE log

Event(type, state, now, reason) ==
  [type |-> type, state |-> state, event_timestamp_us |-> now, reason |-> reason]

key_from_packet == [src_ip |-> pkt.src_ip, dst_ip |-> pkt.dst_ip, src_port |-> pkt.src_port,
                    dst_port |-> pkt.dst_port, protocol |-> pkt.protocol]

\* What the wire showed of a frame.
Observed(f) == [flow |-> FiveTuple(f), time |-> timestamp_us(f),
                bytes |-> ParsedPacket(f).wire_length]

Without(key) == [k \in DOMAIN flows \ {key} |-> flows[k]]

\* The next frame; pcap_handler() has returned from the previous one.
Capture(f) == /\ dpc = "idle" /\ ~ draining /\ Len(wire) + dropped < MaxFrames
              /\ DecodeStart(f)
              /\ UNCHANGED <<schema, tableVars>>

Decode == DecodeStep /\ UNCHANGED <<schema, tableVars>>

\* pcap_handler() gets no packet.
DropFrame == /\ dpc = "discarded"
             /\ dropped' = dropped + 1
             /\ DecodeEnd
             /\ UNCHANGED <<schema, flows, log, heartbeats, wire, draining>>

\* pcap_handler() hands the packet to FlowTable::process().
Process ==
  LET key   == key_from_packet
      fresh == [key |-> key, start_us |-> pkt.timestamp_us, packet_count |-> 1,
                byte_count |-> pkt.wire_length]
      known == [flows[key] EXCEPT !.packet_count = @ + 1, !.byte_count = @ + pkt.wire_length]
      ends  == pkt.protocol = TCP /\ (pkt.tcp_fin \/ pkt.tcp_rst)
  IN /\ dpc = "decoded"
     /\ \/ /\ key \notin DOMAIN flows
           /\ flows' = [k \in DOMAIN flows \cup {key} |-> IF k = key THEN fresh ELSE flows[k]]
           /\ Publish(<<Event("Start", fresh, pkt.timestamp_us, "IdleTimeout")>>)
        \/ /\ key \in DOMAIN flows /\ ~ ends
           /\ flows' = [flows EXCEPT ![key] = known]
           /\ UNCHANGED log
        \/ /\ key \in DOMAIN flows /\ ends
           /\ flows' = Without(key)
           /\ Publish(<<Event("End", known, pkt.timestamp_us, "TcpTeardown")>>)
     /\ wire' = Append(wire, Observed(frame))
     /\ DecodeEnd
     /\ UNCHANGED <<schema, dropped, heartbeats, draining>>

\* timer_sweep() between two packets: a heartbeat of every flow, or the end
\* of an idle one.
Heartbeat == /\ dpc = "idle" /\ ~ draining /\ DOMAIN flows # {} /\ heartbeats < MaxHeartbeats
             /\ heartbeats' = heartbeats + 1
             /\ Publish([i \in 1 .. Cardinality(DOMAIN flows) |->
                           Event("Stats", flows[SetToSeq(DOMAIN flows)[i]], WallClock, "IdleTimeout")])
             /\ UNCHANGED <<decoderVars, schema, flows, dropped, wire, draining>>

Expire(key) == /\ dpc = "idle" /\ ~ draining
               /\ flows' = Without(key)
               /\ Publish(<<Event("End", flows[key], WallClock, "IdleTimeout")>>)
               /\ UNCHANGED <<decoderVars, schema, dropped, heartbeats, wire, draining>>

\* drain_all(), in any order of the flows.
Drain == LET keys == SetToSeq(DOMAIN flows)
         IN /\ dpc = "idle" /\ ~ draining
            /\ draining' = TRUE
            /\ flows' = <<>>
            /\ Publish([i \in 1 .. Len(keys) |-> Event("End", flows[keys[i]], WallClock, "IdleTimeout")])
            /\ UNCHANGED <<decoderVars, schema, dropped, heartbeats, wire>>

Finished == draining /\ UNCHANGED vars

Next == \/ \E f \in Frames : Capture(f)
        \/ Decode \/ DropFrame \/ Process
        \/ Heartbeat \/ (\E key \in DOMAIN flows : Expire(key))
        \/ Drain \/ Finished

Spec == Init /\ [][Next]_vars

-----------------------------------------------------------------------------
Read(i, name) == Field(log[i].value, schema, name)
Messages == DOMAIN log

\* What the consumer knows of the flow that message i is about.
FlowRead(i) == [src |-> Read(i, "src_ip"), dst |-> Read(i, "dst_ip"),
                src_port |-> Read(i, "src_port"), dst_port |-> Read(i, "dst_port"),
                protocol |-> Read(i, "protocol")]
FlowText(tuple) == [src |-> ip_array_to_string(tuple.src_ip), dst |-> ip_array_to_string(tuple.dst_ip),
                    src_port |-> tuple.src_port, dst_port |-> tuple.dst_port,
                    protocol |-> tuple.protocol]

\* Two messages have the same Kafka key, hence the same partition and an
\* order, exactly if they are about the same flow on the wire; flow_id() is
\* the only thing that joins the events of a flow.
KeyIsFlow ==
  \A i, j \in Messages : log[i].key = log[j].key <=> FlowRead(i) = FlowRead(j)

\* After the drain, the FLOW_END messages that a consumer reads for a flow
\* add up to the packets and bytes captured of it, frame by frame.
TotalsAreTheWires ==
  (draining /\ Serializable(schema)) =>
    LET ends == {i \in Messages : Read(i, "event_type") = "FLOW_END"}
    IN \A w \in DOMAIN wire :
         LET mine   == {i \in ends : FlowRead(i) = FlowText(wire[w].flow)}
             frames == {v \in DOMAIN wire : wire[v].flow = wire[w].flow}
             Total(name) == SumFunctionOnSet([i \in mine |-> Read(i, name)], mine)
         IN /\ Total("packet_count") = Cardinality(frames)
            /\ Total("byte_count") = SumFunctionOnSet([v \in frames |-> wire[v].bytes], frames)

\* A consumer with the registry's schema can read every message: the id in
\* its first bytes is the registry's, the enum has its symbol, a reason comes
\* with FLOW_END only (schemas/FlowEvent.avsc:39), and the flow and its start
\* are those of a frame that was captured.
ReadableByName ==
  \A i \in Messages :
    /\ log[i].value.magic = 0 /\ SchemaIdOf(log[i].value) = SchemaId
    /\ Read(i, "schema_version") = "1.0" /\ Read(i, "event_type") \in EventTypeSymbols
    /\ Read(i, "flow_id") = log[i].key
    /\ Read(i, "expire_reason") \in IF Read(i, "event_type") = "FLOW_END"
                                    THEN {"idle_timeout", "tcp_teardown"} ELSE {Null}
    /\ \E w \in DOMAIN wire : /\ FlowRead(i) = FlowText(wire[w].flow)
                             /\ Read(i, "start_timestamp_us") = wire[w].time
=============================================================================
