--------------------------- MODULE Configuration ---------------------------
(***************************************************************************)
(* What the program runs with: ConfigParser::parse()                       *)
(* (src/src/config/config_parser.cpp), one step per turn of its loop, and  *)
(* then the layers of librdkafka settings that KafkaProducer's constructor *)
(* (src/src/kafka/kafka_producer.cpp) builds, one step per line of the     *)
(* file.  Values are texts; stoi gives the number a text starts with.      *)
(***************************************************************************)
EXTENDS Integers, Sequences, SequencesExt, FiniteSetsExt

CONSTANTS Flags,        \* the options that are given in the model
          Values,       \* and their values
          stoi,         \* std::stoi: [Values -> Int \cup {NotANumber}]
          NotANumber,
          IntMax,       \* largest int; the code's has 31 bits
          ConfLines,    \* lines of a file: a key and a value, or Skipped
          Skipped,      \* an empty line, a comment, a line without '='
          Rejected,     \* settings that librdkafka does not accept
          MaxOptions, MaxLines   \* bounds of the model

Empty == ""
TextOptions == {"--pcap", "--iface", "--filter", "--kafka-brokers", "--kafka-topic",
                "--kafka-conf", "--schema-registry-url"}
IntOptions  == {"--flow-timeout", "--max-flows", "--stats-interval", "--sr-buffer"}
Options     == TextOptions \cup IntOptions \cup {"--metrics-port", "--log-level"}
MaxPort     == 65535
Levels      == {"error", "warn", "info", "debug"}

\* An int holds the defaults.
ASSUME ConfigAssumption == /\ Flags \subseteq Options
                           /\ IntMax \in Nat /\ IntMax >= 100000
                           /\ Skipped \notin Rejected
                           /\ \A v \in Values : stoi[v] \in Int \cup {NotANumber}
                           /\ MaxOptions \in Nat /\ MaxLines \in Nat

VARIABLES ppc,          \* parse(), then KafkaProducer()
          argv,         \* history: the options parsed, with their values
          cfg,          \* AppConfig, by option
          conf,         \* RdKafka::Conf: setting -> value
          file          \* history: the lines read

vars == <<ppc, argv, cfg, conf, file>>

AppConfig ==
  [o \in Options |->
     CASE o = "--flow-timeout" -> 60 [] o = "--max-flows" -> 100000 [] o = "--stats-interval" -> 30
       [] o = "--kafka-brokers" -> "localhost:9092" [] o = "--kafka-topic" -> "packetpipe.flows"
       [] o = "--schema-registry-url" -> "http://localhost:8081" [] o = "--sr-buffer" -> 1000
       [] o = "--metrics-port" -> 9090 [] o = "--log-level" -> "info" [] OTHER -> Empty]

Init == /\ ppc = "parse" /\ argv = <<>> /\ cfg = AppConfig
        /\ conf = <<>> /\ file = <<>>

-----------------------------------------------------------------------------
\* parse_positive_int() returns; otherwise it dies.
PositiveInt(v) == stoi[v] # NotANumber /\ stoi[v] \in 1 .. IntMax

\* The branch of the option's flag does not die.
ValueOk(flag, v) == CASE flag \in TextOptions -> TRUE
                      [] flag \in IntOptions -> PositiveInt(v)
                      [] flag = "--metrics-port" -> PositiveInt(v) /\ stoi[v] <= MaxPort
                      [] flag = "--log-level" -> v \in Levels

Converted(flag, v) == IF flag \in IntOptions \cup {"--metrics-port"} THEN stoi[v] ELSE v

\* The first value given to an option stays.
ParseOptionFirst(flag, v) ==
  /\ ppc = "parse" /\ Len(argv) < MaxOptions
  /\ argv' = Append(argv, <<flag, v>>)
  /\ \/ ValueOk(flag, v) /\ cfg[flag] # AppConfig[flag] /\ UNCHANGED <<ppc, cfg>>
     \/ /\ ValueOk(flag, v) /\ cfg[flag] = AppConfig[flag]
        /\ cfg' = [cfg EXCEPT ![flag] = Converted(flag, v)] /\ UNCHANGED ppc
     \/ ~ ValueOk(flag, v) /\ ppc' = "usage" /\ UNCHANGED cfg
  /\ UNCHANGED <<conf, file>>

\* One turn of the loop: a flag and its next_arg().
ParseOption(flag, v) ==
  /\ ppc = "parse" /\ Len(argv) < MaxOptions
  /\ argv' = Append(argv, <<flag, v>>)
  /\ \/ /\ ValueOk(flag, v)
        /\ cfg' = [cfg EXCEPT ![flag] = Converted(flag, v)] /\ UNCHANGED ppc
     \/ ~ ValueOk(flag, v) /\ ppc' = "usage" /\ UNCHANGED cfg
  /\ UNCHANGED <<conf, file>>

\* --help, an unknown argument, or a flag without its value.
ParseDies == /\ ppc = "parse"
             /\ ppc' = "usage"
             /\ UNCHANGED <<argv, cfg, conf, file>>

OneSource == (cfg["--pcap"] # Empty) # (cfg["--iface"] # Empty)

\* The end of argv: exactly one source, or die().
ParseEnds == /\ ppc = "parse"
             /\ ppc' = IF OneSource THEN "defaults" ELSE "usage"
             /\ UNCHANGED <<argv, cfg, conf, file>>

(***************************************************************************)
(* KafkaProducer::KafkaProducer().                                         *)
(***************************************************************************)
Set(key, val) == conf' = [k \in DOMAIN conf \cup {key} |-> IF k = key THEN val ELSE conf[k]]

Defaults == [k \in {"compression.codec", "linger.ms", "batch.num.messages",
                    "enable.idempotence", "message.send.max.retries"} |->
               CASE k = "compression.codec" -> "snappy" [] k = "linger.ms" -> "5"
                 [] k = "batch.num.messages" -> "1000" [] k = "enable.idempotence" -> "false"
                 [] k = "message.send.max.retries" -> "3"]

SetDefaults == /\ ppc = "defaults"
               /\ conf' = Defaults
               /\ ppc' = IF cfg["--kafka-conf"] # Empty THEN "open" ELSE "override"
               /\ UNCHANGED <<argv, cfg, file>>

OpenConf(opened) == /\ ppc = "open"
                    /\ ppc' = IF opened THEN "file" ELSE "failed"
                    /\ UNCHANGED <<argv, cfg, conf, file>>

ReadLine(line) == /\ ppc = "file" /\ Len(file) < MaxLines
                  /\ file' = Append(file, line)
                  /\ \/ line = Skipped /\ UNCHANGED <<conf, ppc>>
                     \/ line \in Rejected /\ ppc' = "failed" /\ UNCHANGED conf
                     \/ line \notin Rejected \cup {Skipped} /\ Set(line[1], line[2]) /\ UNCHANGED ppc
                  /\ UNCHANGED <<argv, cfg>>

EndOfFile == /\ ppc = "file"
             /\ ppc' = "override"
             /\ UNCHANGED <<argv, cfg, conf, file>>

\* The file's brokers are kept.
OverrideIfUnset == /\ ppc = "override"
                   /\ IF "bootstrap.servers" \in DOMAIN conf THEN UNCHANGED conf
                      ELSE Set("bootstrap.servers", cfg["--kafka-brokers"])
                   /\ ppc' \in {"created", "failed"}
                   /\ UNCHANGED <<argv, cfg, file>>

\* bootstrap.servers, dr_cb, and the producer, which librdkafka may refuse.
Override == /\ ppc = "override"
            /\ Set("bootstrap.servers", cfg["--kafka-brokers"])
            /\ ppc' \in {"created", "failed"}
            /\ UNCHANGED <<argv, cfg, file>>

Stopped == ppc \in {"usage", "failed", "created"} /\ UNCHANGED vars

Next == \/ \E flag \in Flags, v \in Values : ParseOption(flag, v)
        \/ ParseDies \/ ParseEnds
        \/ SetDefaults \/ (\E opened \in BOOLEAN : OpenConf(opened))
        \/ (\E line \in ConfLines : ReadLine(line)) \/ EndOfFile \/ Override
        \/ Stopped

Spec == Init /\ [][Next]_vars

(***************************************************************************)
(* What main() makes of it: the timer thread's interval in milliseconds,   *)
(* as the product that an int holds.  A product too large is undefined in  *)
(* C++; it is modelled by what the machine's multiplication leaves of it.  *)
(***************************************************************************)
AsInt(n) == ((n + IntMax + 1) % (2 * (IntMax + 1))) - (IntMax + 1)

\* stats_interval_sec is forgotten.
IntervalOfTimeout == AsInt(cfg["--flow-timeout"] * 500)

Interval == AsInt(Max({1, Min({cfg["--stats-interval"], cfg["--flow-timeout"]})}) * 500)

-----------------------------------------------------------------------------
Accepted == ppc \notin {"parse", "usage"}

Given(flag) == {i \in 1 .. Len(argv) : argv[i][1] = flag}
LastGiven(flag) == argv[Max(Given(flag))][2]

\* A command line is accepted only with values that are all in range, and
\* then the configuration is the last value of each option given and the
\* default of every other, with one source to capture from: the option's
\* order, repetition and the values that an earlier option had do not matter.
ConfigIsLastGiven ==
  Accepted =>
    /\ \A i \in 1 .. Len(argv) : ValueOk(argv[i][1], argv[i][2])
    /\ cfg = [o \in Options |-> IF Given(o) = {} THEN AppConfig[o] ELSE Converted(o, LastGiven(o))]
    /\ Cardinality({o \in {"--pcap", "--iface"} : Given(o) # {} /\ LastGiven(o) # Empty}) = 1

\* The timer sweeps at least twice per flow timeout and per heartbeat, and
\* does not spin, as long as the product fits: up to IntMax \div 500 seconds
\* in the smaller of the two options (49 days).
SweepsTwicePerTimeout ==
  (Accepted /\ Min({cfg["--stats-interval"], cfg["--flow-timeout"]}) <= IntMax \div 500) =>
    /\ Interval > 0
    /\ 2 * Interval <= 1000 * cfg["--flow-timeout"]
    /\ 2 * Interval <= 1000 * cfg["--stats-interval"]

Lines(key) == {i \in 1 .. Len(file) : file[i] # Skipped /\ file[i][1] = key}

\* docs/design/architecture.md:655: "later layers override earlier": the
\* producer runs with the brokers of the command line, then the last line
\* that sets a key, then the defaults, and with no setting librdkafka refused.
LaterLayersOverride ==
  ppc = "created" =>
    /\ \A i \in 1 .. Len(file) : file[i] \notin Rejected
    /\ \A k \in DOMAIN conf :
         conf[k] = CASE k = "bootstrap.servers" -> cfg["--kafka-brokers"]
                     [] k # "bootstrap.servers" /\ Lines(k) # {} -> file[Max(Lines(k))][2]
                     [] OTHER -> Defaults[k]
=============================================================================
