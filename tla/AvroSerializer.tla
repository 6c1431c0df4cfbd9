--------------------------- MODULE AvroSerializer ---------------------------
(***************************************************************************)
(* AvroSerializer (src/src/avro/avro_serializer.cpp): from a FlowEvent to  *)
(* the message that a consumer reads with schemas/FlowEvent.avsc.          *)
(*                                                                         *)
(* The serializer fills the record by position, the consumer reads it by   *)
(* name.  Avro's binary encoding keeps a record's values in their order    *)
(* and is external.  Texts are kept as what they tell apart: a textual     *)
(* address as its notation and its bytes.                                  *)
(***************************************************************************)
EXTENDS Integers, Sequences

\* schemas/FlowEvent.avsc.
FlowEventSchema ==
  <<"schema_version", "event_type", "flow_id", "src_ip", "dst_ip", "src_port", "dst_port",
    "protocol", "start_timestamp_us", "event_timestamp_us", "packet_count", "byte_count",
    "expire_reason">>

EventTypeSymbols == {"FLOW_START", "FLOW_END", "FLOW_STATS"}
Null == "null"

kExpireReasonIdx == 12

is_ipv4_mapped(ip) == ip[1] = "mapped"

\* Dotted quads for IPv4-mapped addresses, groups for all others.
ip_array_to_string(ip) == IF is_ipv4_mapped(ip) THEN <<"ipv4", ip[2]>> ELSE <<"ipv6", ip>>

\* The protocol is left out.
flow_idNoProtocol(key) ==
  <<ip_array_to_string(key.src_ip), key.src_port, ip_array_to_string(key.dst_ip), key.dst_port>>

\* "a.b.c.d:port-e.f.g.h:port/protocol", IPv6 addresses in brackets.  The
\* text is the sequence of its parts: that they can be told apart once they
\* are joined to one string, which is what the brackets are for, is assumed.
flow_id(key) ==
  LET Fmt(ip) == IF is_ipv4_mapped(ip) THEN <<ip_array_to_string(ip)>>
                                       ELSE <<"[", ip_array_to_string(ip), "]">>
  IN Fmt(key.src_ip) \o <<":", key.src_port, "-">> \o
     Fmt(key.dst_ip) \o <<":", key.dst_port, "/", key.protocol>>

EventTypeSymbol(type) == CASE type = "Start" -> "FLOW_START"
                           [] type = "End"   -> "FLOW_END"
                           [] type = "Stats" -> "FLOW_STATS"

\* The union ["null", "string"].
ExpireReasonField(evt) ==
  IF evt.type # "End" THEN Null
  ELSE IF evt.reason = "IdleTimeout" THEN "idle_timeout" ELSE "tcp_teardown"

\* Source and destination port have changed places.
RecordSwapped(evt) ==
  LET key == evt.state.key
  IN <<"1.0", EventTypeSymbol(evt.type), flow_id(key),
       ip_array_to_string(key.src_ip), ip_array_to_string(key.dst_ip),
       key.dst_port, key.src_port, key.protocol,
       evt.state.start_us, evt.event_timestamp_us,
       evt.state.packet_count, evt.state.byte_count, ExpireReasonField(evt)>>

\* The values in the order of the positions kSchemaVersionIdx = 0, ...,
\* kExpireReasonIdx = 12.
Record(evt) ==
  LET key == evt.state.key
  IN <<"1.0", EventTypeSymbol(evt.type), flow_id(key),
       ip_array_to_string(key.src_ip), ip_array_to_string(key.dst_ip),
       key.src_port, key.dst_port, key.protocol,
       evt.state.start_us, evt.event_timestamp_us,
       evt.state.packet_count, evt.state.byte_count, ExpireReasonField(evt)>>

\* AvroSerializationError unless the schema has a field for every position.
Serializable(schema) == Len(schema) > kExpireReasonIdx

\* The bytes as they lie in memory.
LittleEndian(id) == <<id % 256, (id \div 256) % 256, (id \div 65536) % 256, (id \div 16777216) % 256>>

\* The four bytes of the id, in network order.
BigEndian(id) == <<(id \div 16777216) % 256, (id \div 65536) % 256, (id \div 256) % 256, id % 256>>

\* Confluent wire format: a zero byte, the schema's id, Avro binary.
serialize(evt, schemaId) == [magic |-> 0, id |-> BigEndian(schemaId), payload |-> Record(evt)]

(***************************************************************************)
(* The consumer: Confluent's deserializer with the same schema.            *)
(***************************************************************************)
SchemaIdOf(msg) == ((msg.id[1] * 256 + msg.id[2]) * 256 + msg.id[3]) * 256 + msg.id[4]

Field(msg, schema, name) ==
  msg.payload[CHOOSE i \in 1 .. Len(schema) : schema[i] = name]
=============================================================================
