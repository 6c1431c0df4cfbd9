------------------------ MODULE ConfigurationProofs ------------------------
(***************************************************************************)
(* Configuration, for every command line and every file.                   *)
(***************************************************************************)
EXTENDS Configuration, FiniteSetTheorems, TLAPS

\* An index after all the others is the last.
LEMMA MaxIsLast ==
  ASSUME NEW n \in Nat, NEW S, S \subseteq 1 .. n
  PROVE  Max(S \cup {n + 1}) = n + 1
  <1>1. PICK T : T = S \cup {n + 1}
    OBVIOUS
  <1>2. n + 1 \in T /\ \A y \in T : n + 1 >= y
    BY <1>1
  <1>3. \A x \in T : (\A y \in T : x >= y) => x = n + 1
    BY <1>1, <1>2
  <1> QED BY <1>1, <1>2, <1>3 DEF Max

\* The smaller of two numbers.
LEMMA MinOfTwo ==
  ASSUME NEW a \in Nat, NEW b \in Nat
  PROVE  Min({a, b}) = IF a <= b THEN a ELSE b
  BY DEF Min

\* A number that fits is not wrapped around.
LEMMA SmallModulo ==
  ASSUME NEW x \in Nat, NEW d \in Nat, x < d
  PROVE  x % d = x
  BY SMTT(30)

-----------------------------------------------------------------------------
(***************************************************************************)
(* parse().                                                                *)
(***************************************************************************)
\* An option that was given was given a last time.
HasLast(S) == S # {} => \E m \in S : m = Max(S)

\* The value that the option has so far.
Latest(o) == IF Given(o) = {} THEN AppConfig[o] ELSE Converted(o, LastGiven(o))

ParseInv ==
  /\ argv \in Seq(Flags \X Values)
  /\ \A o \in Options : HasLast(Given(o))
  /\ ppc # "usage" => /\ \A i \in 1 .. Len(argv) : ValueOk(argv[i][1], argv[i][2])
                      /\ cfg = [o \in Options |-> Latest(o)]
  /\ Accepted => OneSource

\* One more option is given.
LEMMA AppendOption ==
  ASSUME ParseInv, NEW flag \in Flags, NEW v \in Values, argv' = Append(argv, <<flag, v>>)
  PROVE  /\ argv' \in Seq(Flags \X Values) /\ \A o \in Options : HasLast(Given(o)')
         /\ Latest(flag)' = Converted(flag, v)
         /\ \A o \in Options : o # flag => Latest(o)' = Latest(o)
         /\ \A i \in 1 .. Len(argv') : \/ i \in 1 .. Len(argv) /\ argv'[i] = argv[i]
                                       \/ argv'[i] = <<flag, v>>
  <1>1. PICK n \in Nat : n = Len(argv)
    BY DEF ParseInv
  <1>2. argv \in Seq(Flags \X Values) /\ <<flag, v>> \in Flags \X Values
    BY DEF ParseInv
  <1>3. /\ argv' \in Seq(Flags \X Values) /\ Len(argv') = n + 1 /\ argv'[n + 1] = <<flag, v>>
        /\ \A i \in 1 .. n : argv'[i] = argv[i]
    BY <1>1, <1>2
  <1>4. <<flag, v>>[1] = flag /\ <<flag, v>>[2] = v
    OBVIOUS
  <1>5. \A i \in 1 .. n + 1 : i \in 1 .. n \/ i = n + 1
    OBVIOUS
  <1>6. Given(flag)' = Given(flag) \cup {n + 1}
    <2>1. \A i \in 1 .. n : argv'[i][1] = argv[i][1]
      BY <1>3
    <2>2. argv'[n + 1][1] = flag
      BY <1>3, <1>4
    <2>3. Given(flag)' = {i \in 1 .. n + 1 : argv'[i][1] = flag} /\ Given(flag) = {i \in 1 .. n : argv[i][1] = flag}
      BY <1>1, <1>3 DEF Given
    <2>4. ASSUME NEW i PROVE i \in Given(flag)' <=> i \in Given(flag) \/ i = n + 1
      <3>1. CASE i \in 1 .. n
        <4>1. i \in 1 .. n + 1 /\ i # n + 1
          BY <3>1
        <4> QED BY <2>1, <2>3, <3>1, <4>1, Zenon
      <3>2. CASE i = n + 1
        <4>1. n + 1 \in 1 .. n + 1
          OBVIOUS
        <4> QED BY <2>2, <2>3, <3>2, <4>1, Zenon
      <3>3. CASE i \notin 1 .. n /\ i # n + 1
        BY <1>5, <2>3, <3>3, Zenon
      <3> QED BY <3>1, <3>2, <3>3
    <2> QED BY <2>4
  <1>7. Max(Given(flag)') = n + 1
    BY <1>1, <1>6, MaxIsLast DEF Given
  <1>8. Given(flag)' # {} /\ LastGiven(flag)' = v /\ HasLast(Given(flag)')
    BY <1>3, <1>4, <1>6, <1>7 DEF LastGiven, HasLast
  <1>9. ASSUME NEW o \in Options, o # flag
        PROVE  HasLast(Given(o)') /\ Latest(o)' = Latest(o)
    <2>1. \A i \in 1 .. n : argv'[i][1] = argv[i][1]
      BY <1>3
    <2>2. argv'[n + 1][1] = flag
      BY <1>3, <1>4
    <2>3. Given(o)' = {i \in 1 .. n + 1 : argv'[i][1] = o} /\ Given(o) = {i \in 1 .. n : argv[i][1] = o}
      BY <1>1, <1>3 DEF Given
    <2>4. Given(o)' = Given(o)
      <3>1. ASSUME NEW i PROVE i \in Given(o)' <=> i \in Given(o)
        <4>1. CASE i \in 1 .. n
          <5>1. i \in 1 .. n + 1
            BY <4>1
          <5> QED BY <2>1, <2>3, <4>1, <5>1, Zenon
        <4>2. CASE i = n + 1
          <5>1. i \notin 1 .. n
            BY <4>2
          <5>2. argv'[i][1] # o
            BY <1>9, <2>2, <4>2
          <5> QED BY <2>3, <5>1, <5>2, Zenon
        <4>3. CASE i \notin 1 .. n /\ i # n + 1
          BY <1>5, <2>3, <4>3, Zenon
        <4> QED BY <4>1, <4>2, <4>3
      <3> QED BY <3>1
    <2>5. ASSUME Given(o) # {} PROVE LastGiven(o)' = LastGiven(o)
      <3>1. PICK m \in Given(o) : m = Max(Given(o))
        BY <2>5, Zenon DEF ParseInv, HasLast
      <3>2. m \in 1 .. n
        BY <2>3, <3>1
      <3> QED BY <1>3, <2>4, <3>1, <3>2 DEF LastGiven
    <2>6. HasLast(Given(o)')
      BY <2>4, Zenon DEF ParseInv
    <2>7. CASE Given(o) = {}
      BY <2>4, <2>6, <2>7, Zenon DEF Latest
    <2>8. CASE Given(o) # {}
      BY <2>4, <2>5, <2>6, <2>8, Zenon DEF Latest
    <2> QED BY <2>7, <2>8
  <1>10. \A o \in Options : HasLast(Given(o)')
    BY <1>8, <1>9, Zenon
  <1>11. Latest(flag)' = Converted(flag, v)
    BY <1>8, Zenon DEF Latest
  <1> QED BY <1>1, <1>3, <1>5, <1>9, <1>10, <1>11


-----------------------------------------------------------------------------
(***************************************************************************)
(* The file of settings.                                                   *)
(***************************************************************************)
\* The value that a setting has so far.
Layered(k) == IF Lines(k) # {} THEN file[Max(Lines(k))][2] ELSE Defaults[k]

FileInv ==
  /\ file \in Seq(ConfLines)
  /\ \A k : HasLast(Lines(k))
  /\ ppc \in {"parse", "defaults", "open"} => file = <<>>
  /\ ppc \in {"file", "override", "created"} => \A i \in 1 .. Len(file) : file[i] \notin Rejected
  /\ ppc \in {"open", "file", "override"} => \A k \in DOMAIN conf : conf[k] = Layered(k)
  /\ ppc = "created" =>
       \A k \in DOMAIN conf :
         conf[k] = IF k = "bootstrap.servers" THEN cfg["--kafka-brokers"] ELSE Layered(k)

\* One more line is read.
LEMMA AppendLine ==
  ASSUME FileInv, NEW line \in ConfLines, file' = Append(file, line)
  PROVE  /\ file' \in Seq(ConfLines) /\ \A k : HasLast(Lines(k)')
         /\ line # Skipped => Layered(line[1])' = line[2]
         /\ \A k : line = Skipped \/ line[1] # k => Layered(k)' = Layered(k)
         /\ \A i \in 1 .. Len(file') : \/ i \in 1 .. Len(file) /\ file'[i] = file[i]
                                       \/ file'[i] = line
  <1>1. PICK n \in Nat : n = Len(file)
    BY DEF FileInv
  <1>2. file \in Seq(ConfLines)
    BY DEF FileInv
  <1>3. /\ file' \in Seq(ConfLines) /\ Len(file') = n + 1 /\ file'[n + 1] = line
        /\ \A i \in 1 .. n : file'[i] = file[i]
    BY <1>1, <1>2
  <1>4. \A k : /\ Lines(k)' = {i \in 1 .. n + 1 : file'[i] # Skipped /\ file'[i][1] = k}
               /\ Lines(k) = {i \in 1 .. n : file[i] # Skipped /\ file[i][1] = k}
    BY <1>1, <1>3 DEF Lines
  <1>5. ASSUME NEW k, line # Skipped, line[1] = k
        PROVE  HasLast(Lines(k)') /\ Layered(k)' = line[2]
    <2>1. \A i : i \in Lines(k)' <=> i \in Lines(k) \/ i = n + 1
      BY <1>3, <1>4, <1>5
    <2>2. Lines(k)' = Lines(k) \cup {n + 1} /\ Lines(k) \subseteq 1 .. n
      BY <1>4, <2>1
    <2>3. Max(Lines(k)') = n + 1
      BY <2>2, MaxIsLast
    <2>4. Lines(k)' # {} /\ n + 1 \in Lines(k)'
      BY <2>2
    <2> QED BY <1>3, <2>3, <2>4 DEF Layered, HasLast
  <1>6. ASSUME NEW k, line = Skipped \/ line[1] # k
        PROVE  HasLast(Lines(k)') /\ Layered(k)' = Layered(k)
    <2>1. Lines(k)' = Lines(k)
      <3>1. \A i : i \in Lines(k)' <=> i \in Lines(k)
        BY <1>3, <1>4, <1>6
      <3> QED BY <3>1
    <2>2. CASE Lines(k) = {}
      BY <2>1, <2>2, Zenon DEF HasLast, Layered
    <2>3. CASE Lines(k) # {}
      <3>1. PICK m \in Lines(k) : m = Max(Lines(k))
        BY <2>3, Zenon DEF FileInv, HasLast
      <3>2. m \in 1 .. n
        BY <1>4, <3>1
      <3>3. file'[Max(Lines(k))] = file[Max(Lines(k))]
        BY <1>3, <3>1, <3>2
      <3> QED BY <2>1, <2>3, <3>1, <3>3, Zenon DEF Layered, HasLast
    <2> QED BY <2>2, <2>3
  <1>7. \A k : HasLast(Lines(k)')
    BY <1>5, <1>6, Zenon
  <1>8. \A i \in 1 .. Len(file') : (i \in 1 .. n /\ file'[i] = file[i]) \/ file'[i] = line
    BY <1>3
  <1> QED BY <1>1, <1>3, <1>5, <1>6, <1>7, <1>8, Zenon


-----------------------------------------------------------------------------
Phases == {"parse", "usage", "defaults", "open", "file", "override", "created", "failed"}

IInv == ppc \in Phases /\ ParseInv /\ FileInv

\* Nothing is parsed or read at first.
LEMMA InitIInv == Init => IInv
  <1> SUFFICES ASSUME Init PROVE IInv
    OBVIOUS
  <1>1. ppc = "parse" /\ argv = <<>> /\ cfg = AppConfig /\ conf = <<>> /\ file = <<>>
    BY DEF Init
  <1>2. /\ Len(argv) = 0 /\ Len(file) = 0 /\ argv \in Seq(Flags \X Values)
        /\ file \in Seq(ConfLines) /\ 1 .. 0 = {}
    BY <1>1
  <1>3. \A o : Given(o) = {}
    BY <1>2 DEF Given
  <1>4. \A k : Lines(k) = {}
    BY <1>2 DEF Lines
  <1>5. cfg = [o \in Options |-> Latest(o)]
    <2>1. \A o \in Options : Latest(o) = AppConfig[o]
      BY <1>3, Zenon DEF Latest
    <2>2. AppConfig = [o \in Options |-> AppConfig[o]]
      BY SMT DEF AppConfig
    <2> QED BY <1>1, <2>1, <2>2
  <1>6. ParseInv
    <2>1. \A i \in 1 .. Len(argv) : ValueOk(argv[i][1], argv[i][2])
      BY <1>2
    <2>2. ~ Accepted /\ \A o \in Options : HasLast(Given(o))
      BY <1>1, <1>3 DEF Accepted, HasLast
    <2> QED BY <1>2, <1>5, <2>1, <2>2, Zenon DEF ParseInv
  <1>7. FileInv
    BY <1>1, <1>2, <1>4 DEF FileInv, HasLast
  <1> QED BY <1>1, <1>6, <1>7 DEF IInv, Phases

\* A step after parse() leaves what was parsed.
LEMMA ParseStays ==
  ASSUME ParseInv, UNCHANGED <<argv, cfg>>, ppc' # "usage" => ppc # "usage",
         ppc' \notin {"parse", "usage"} => OneSource
  PROVE  ParseInv'
  <1>1. argv' = argv /\ cfg' = cfg
    OBVIOUS
  <1>2. \A o : Given(o)' = Given(o) /\ LastGiven(o)' = LastGiven(o) /\ Latest(o)' = Latest(o)
    BY <1>1, Zenon DEF Given, LastGiven, Latest
  <1>3. OneSource' <=> OneSource
    BY <1>1 DEF OneSource
  <1>4. [o \in Options |-> Latest(o)]' = [o \in Options |-> Latest(o)]
    BY <1>2, Zenon
  <1> QED BY <1>1, <1>2, <1>3, <1>4, Zenon DEF ParseInv, Accepted

\* A step that reads no line.
LEMMA FileStays ==
  ASSUME FileInv, UNCHANGED <<cfg, conf, file>>,
         ppc' \in {"parse", "defaults", "open"} => ppc \in {"parse", "defaults", "open"},
         ppc' = "file" => ppc \in {"file", "open"}, ppc' = "override" => ppc \in {"file", "override"},
         ppc' = "open" => ppc = "open", ppc' = "created" => ppc = "created"
  PROVE  FileInv'
  <1>1. \A k : Lines(k)' = Lines(k) /\ Layered(k)' = Layered(k)
    BY DEF Lines, Layered
  <1>2. cfg' = cfg /\ conf' = conf /\ file' = file
    OBVIOUS
  <1>3. ppc = "open" => \A i \in 1 .. Len(file) : file[i] \notin Rejected
    BY DEF FileInv
  <1>4. file' \in Seq(ConfLines) /\ \A k : HasLast(Lines(k)')
    BY <1>1, <1>2, Zenon DEF FileInv
  <1>5. ppc' \in {"parse", "defaults", "open"} => file' = <<>>
    BY <1>2, Zenon DEF FileInv
  <1>6. ppc' \in {"file", "override", "created"} => \A i \in 1 .. Len(file') : file'[i] \notin Rejected
    BY <1>2, <1>3 DEF FileInv
  <1>7. ppc' \in {"open", "file", "override"} => \A k \in DOMAIN conf' : conf'[k] = Layered(k)'
    BY <1>1, <1>2 DEF FileInv
  <1>8. ppc' = "created" =>
          \A k \in DOMAIN conf' :
            conf'[k] = IF k = "bootstrap.servers" THEN cfg'["--kafka-brokers"] ELSE Layered(k)'
    BY <1>1, <1>2 DEF FileInv
  <1> QED BY <1>4, <1>5, <1>6, <1>7, <1>8, Zenon DEF FileInv


\* A turn of parse()'s loop.
LEMMA ParseOptionInv ==
  ASSUME IInv, NEW flag \in Flags, NEW v \in Values, ParseOption(flag, v)
  PROVE  IInv'
  <1>1. /\ ppc = "parse" /\ argv' = Append(argv, <<flag, v>>) /\ UNCHANGED <<conf, file>>
        /\ flag \in Options
    BY ConfigAssumption, SMT DEF ParseOption
  <1>2. /\ argv' \in Seq(Flags \X Values) /\ \A o \in Options : HasLast(Given(o)')
        /\ Latest(flag)' = Converted(flag, v)
        /\ \A o \in Options : o # flag => Latest(o)' = Latest(o)
        /\ \A i \in 1 .. Len(argv') : \/ i \in 1 .. Len(argv) /\ argv'[i] = argv[i]
                                      \/ argv'[i] = <<flag, v>>
    BY <1>1, AppendOption, Zenon DEF IInv
  <1>3. CASE ValueOk(flag, v) /\ cfg' = [cfg EXCEPT ![flag] = Converted(flag, v)] /\ ppc' = ppc
    <2>1. \A i \in 1 .. Len(argv') : ValueOk(argv'[i][1], argv'[i][2])
      <3>1. <<flag, v>>[1] = flag /\ <<flag, v>>[2] = v
        OBVIOUS
      <3>2. \A i \in 1 .. Len(argv) : ValueOk(argv[i][1], argv[i][2])
        BY <1>1 DEF IInv, ParseInv
      <3> QED BY <1>2, <1>3, <3>1, <3>2, Zenon
    <2>2. cfg' = [o \in Options |-> Latest(o)']
      <3>1. cfg = [o \in Options |-> Latest(o)]
        BY <1>1 DEF IInv, ParseInv
      <3>4. cfg' = [o \in Options |-> IF o = flag THEN Converted(flag, v) ELSE Latest(o)]
        BY <1>1, <1>3, <3>1
      <3> QED BY <1>2, <3>4
    <2>3. ~ Accepted'
      BY <1>1, <1>3 DEF Accepted
    <2>4. ParseInv'
      BY <1>2, <2>1, <2>2, <2>3, Zenon DEF ParseInv
    <2>5. FileInv'
      <3>1. ppc' = "parse" /\ file' = file /\ \A k : Lines(k)' = Lines(k)
        BY <1>1, <1>3 DEF Lines
      <3> QED BY <1>1, <3>1 DEF IInv, FileInv
    <2> QED BY <1>1, <1>3, <2>4, <2>5 DEF IInv
  <1>4. CASE ppc' = "usage" /\ cfg' = cfg
    <2>1. ParseInv'
      BY <1>2, <1>4 DEF ParseInv, Accepted
    <2>2. FileInv'
      BY <1>1, <1>4, FileStays DEF IInv
    <2> QED BY <1>4, <2>1, <2>2 DEF IInv, Phases
  <1> QED BY <1>3, <1>4 DEF ParseOption

\* A line of the file.
LEMMA ReadLineInv ==
  ASSUME IInv, NEW line \in ConfLines, ReadLine(line)
  PROVE  IInv'
  <1>1. ppc = "file" /\ file' = Append(file, line) /\ UNCHANGED <<argv, cfg>>
    BY DEF ReadLine
  <1>2. /\ file' \in Seq(ConfLines) /\ \A k : HasLast(Lines(k)')
        /\ line # Skipped => Layered(line[1])' = line[2]
        /\ \A k : line = Skipped \/ line[1] # k => Layered(k)' = Layered(k)
        /\ \A i \in 1 .. Len(file') : \/ i \in 1 .. Len(file) /\ file'[i] = file[i]
                                      \/ file'[i] = line
    BY <1>1, AppendLine, Zenon DEF IInv
  <1>3. ppc' \in {"file", "failed"} /\ ParseInv'
    <2>1. ppc' \in {"file", "failed"}
      BY <1>1 DEF ReadLine
    <2>2. OneSource
      BY <1>1 DEF IInv, ParseInv, Accepted
    <2> QED BY <1>1, <2>1, <2>2, ParseStays DEF IInv
  <1>4. /\ \A k \in DOMAIN conf : conf[k] = Layered(k)
        /\ \A i \in 1 .. Len(file) : file[i] \notin Rejected
    BY <1>1 DEF IInv, FileInv
  <1>5. CASE line = Skipped /\ conf' = conf /\ ppc' = ppc
    <2>1. \A i \in 1 .. Len(file') : file'[i] \notin Rejected
      <3>1. line \notin Rejected
        BY <1>5, ConfigAssumption, SMT
      <3> QED BY <1>2, <1>4, <3>1, Zenon
    <2>2. \A k \in DOMAIN conf' : conf'[k] = Layered(k)'
      BY <1>2, <1>4, <1>5, Zenon
    <2>3. FileInv'
      BY <1>1, <1>2, <1>5, <2>1, <2>2 DEF FileInv
    <2> QED BY <1>3, <2>3 DEF IInv, Phases
  <1>6. CASE ppc' = "failed"
    <2>1. FileInv'
      BY <1>2, <1>6 DEF FileInv
    <2> QED BY <1>3, <2>1 DEF IInv, Phases
  <1>7. CASE line \notin Rejected \cup {Skipped} /\ Set(line[1], line[2]) /\ ppc' = ppc
    <2>1. \A i \in 1 .. Len(file') : file'[i] \notin Rejected
      <3>1. line \notin Rejected
        BY <1>7
      <3> QED BY <1>2, <1>4, <3>1, Zenon
    <2>2. ASSUME NEW k \in DOMAIN conf' PROVE conf'[k] = Layered(k)'
      <3>1. conf'[k] = IF k = line[1] THEN line[2] ELSE conf[k]
        BY <1>7, <2>2 DEF Set
      <3>2. k # line[1] => k \in DOMAIN conf
        BY <1>7, <2>2 DEF Set
      <3>3. line # Skipped
        BY <1>7
      <3>4. CASE k = line[1]
        BY <1>2, <3>1, <3>3, <3>4, Zenon
      <3>5. CASE k # line[1]
        BY <1>2, <1>4, <3>1, <3>2, <3>5, Zenon
      <3> QED BY <3>4, <3>5
    <2>3. FileInv'
      BY <1>1, <1>2, <1>7, <2>1, <2>2 DEF FileInv
    <2> QED BY <1>3, <2>3 DEF IInv, Phases
  <1> QED BY <1>5, <1>6, <1>7 DEF ReadLine

\* Every step keeps the invariant.
LEMMA NextIInv == IInv /\ [Next]_vars => IInv'
  <1> SUFFICES ASSUME IInv, [Next]_vars PROVE IInv'
    OBVIOUS
  <1>0. (Accepted => OneSource) /\ ParseInv /\ FileInv /\ ppc \in Phases
    BY DEF IInv, ParseInv
  <1>1. CASE \E flag \in Flags, v \in Values : ParseOption(flag, v)
    BY <1>1, ParseOptionInv
  <1>2. CASE ParseDies
    <2>1. UNCHANGED <<argv, cfg, conf, file>> /\ ppc' = "usage"
      BY <1>2 DEF ParseDies
    <2> QED BY <1>0, <2>1, ParseStays, FileStays DEF IInv, Phases
  <1>3. CASE ParseEnds
    <2>1. /\ UNCHANGED <<argv, cfg, conf, file>> /\ ppc = "parse"
          /\ ppc' \in {"defaults", "usage"} /\ (ppc' = "defaults" => OneSource)
      BY <1>3 DEF ParseEnds
    <2>2. ParseInv'
      BY <1>0, <2>1, ParseStays
    <2>3. FileInv'
      BY <1>0, <2>1, FileStays
    <2> QED BY <2>1, <2>2, <2>3 DEF IInv, Phases
  <1>4. CASE SetDefaults
    <2>1. /\ ppc = "defaults" /\ conf' = Defaults /\ ppc' \in {"open", "override"}
          /\ UNCHANGED <<argv, cfg, file>>
      BY <1>4 DEF SetDefaults
    <2>2. ParseInv'
      BY <1>0, <2>1, ParseStays DEF Accepted
    <2>3. file' = <<>> /\ file' \in Seq(ConfLines) /\ Len(file') = 0 /\ 1 .. 0 = {}
      BY <1>0, <2>1 DEF FileInv
    <2>4. \A k : Lines(k)' = {}
      BY <2>3 DEF Lines
    <2>5. \A k : HasLast(Lines(k)') /\ Layered(k)' = Defaults[k]
      BY <2>4, Zenon DEF HasLast, Layered
    <2>6. FileInv'
      <3>1. \A k \in DOMAIN conf' : conf'[k] = Layered(k)'
        BY <2>1, <2>5, Zenon
      <3>2. \A i \in 1 .. Len(file') : file'[i] \notin Rejected
        BY <2>3
      <3> QED BY <2>1, <2>3, <2>5, <3>1, <3>2 DEF FileInv
    <2> QED BY <2>1, <2>2, <2>6 DEF IInv, Phases
  <1>5. CASE \E opened \in BOOLEAN : OpenConf(opened)
    <2>1. UNCHANGED <<argv, cfg, conf, file>> /\ ppc = "open" /\ ppc' \in {"file", "failed"}
      BY <1>5 DEF OpenConf
    <2>2. ParseInv'
      BY <1>0, <2>1, ParseStays DEF Accepted
    <2>3. FileInv'
      BY <1>0, <2>1, FileStays
    <2> QED BY <2>1, <2>2, <2>3 DEF IInv, Phases
  <1>6. CASE \E line \in ConfLines : ReadLine(line)
    BY <1>6, ReadLineInv
  <1>7. CASE EndOfFile
    <2>1. UNCHANGED <<argv, cfg, conf, file>> /\ ppc = "file" /\ ppc' = "override"
      BY <1>7 DEF EndOfFile
    <2>2. ParseInv'
      BY <1>0, <2>1, ParseStays DEF Accepted
    <2>3. FileInv'
      BY <1>0, <2>1, FileStays
    <2> QED BY <2>1, <2>2, <2>3 DEF IInv, Phases
  <1>8. CASE Override
    <2>1. /\ ppc = "override" /\ Set("bootstrap.servers", cfg["--kafka-brokers"])
          /\ ppc' \in {"created", "failed"} /\ UNCHANGED <<argv, cfg, file>>
      BY <1>8 DEF Override
    <2>2. ParseInv'
      BY <1>0, <2>1, ParseStays DEF Accepted
    <2>3. /\ \A k \in DOMAIN conf : conf[k] = Layered(k)
          /\ \A i \in 1 .. Len(file') : file'[i] \notin Rejected
      BY <1>0, <2>1 DEF FileInv
    <2>4. \A k : Lines(k)' = Lines(k) /\ Layered(k)' = Layered(k)
      BY <2>1 DEF Lines, Layered
    <2>5. \A k \in DOMAIN conf' :
            conf'[k] = IF k = "bootstrap.servers" THEN cfg'["--kafka-brokers"] ELSE Layered(k)'
      BY <2>1, <2>3, <2>4 DEF Set
    <2>6. file' \in Seq(ConfLines) /\ \A k : HasLast(Lines(k)')
      BY <1>0, <2>1, <2>4 DEF FileInv
    <2>7. FileInv'
      BY <2>1, <2>3, <2>5, <2>6 DEF FileInv
    <2> QED BY <2>1, <2>2, <2>7 DEF IInv, Phases
  <1>9. CASE Stopped \/ UNCHANGED vars
    <2>1. UNCHANGED <<argv, cfg, conf, file>> /\ ppc' = ppc
      BY <1>9 DEF Stopped, vars
    <2>2. ParseInv'
      BY <1>0, <2>1, ParseStays DEF Accepted
    <2>3. FileInv'
      BY <1>0, <2>1, FileStays
    <2> QED BY <1>0, <2>1, <2>2, <2>3 DEF IInv
  <1> QED BY <1>1, <1>2, <1>3, <1>4, <1>5, <1>6, <1>7, <1>8, <1>9 DEF Next

\* The invariant holds throughout.
LEMMA Invariance == Spec => []IInv
  BY InitIInv, NextIInv, PTL DEF Spec


-----------------------------------------------------------------------------
(***************************************************************************)
(* The theorems.                                                           *)
(***************************************************************************)
\* The last value given to an option has passed its checks.
LEMMA LatestOk ==
  ASSUME IInv, Accepted, NEW o \in Options, Given(o) # {}
  PROVE  ValueOk(o, LastGiven(o)) /\ cfg[o] = Converted(o, LastGiven(o))
  <1>1. PICK m \in Given(o) : m = Max(Given(o))
    BY Zenon DEF IInv, ParseInv, HasLast
  <1>2. m \in 1 .. Len(argv) /\ argv[m][1] = o
    BY <1>1 DEF Given
  <1>3. ppc # "usage"
    BY DEF Accepted
  <1>4. ValueOk(argv[m][1], argv[m][2])
    BY <1>2, <1>3, Zenon DEF IInv, ParseInv
  <1>5. cfg = [x \in Options |-> Latest(x)]
    BY <1>3, Zenon DEF IInv, ParseInv
  <1>6. cfg[o] = Converted(o, LastGiven(o))
    BY <1>5, Zenon DEF Latest
  <1> QED BY <1>1, <1>2, <1>4, <1>6, Zenon DEF LastGiven

\* An option that is not given has its default.
LEMMA DefaultStays ==
  ASSUME IInv, Accepted, NEW o \in Options, Given(o) = {}
  PROVE  cfg[o] = AppConfig[o]
  <1>1. ppc # "usage"
    BY DEF Accepted
  <1>2. cfg = [x \in Options |-> Latest(x)]
    BY <1>1, Zenon DEF IInv, ParseInv
  <1> QED BY <1>2, Zenon DEF Latest

\* The numbers of an accepted command line are positive.
LEMMA PositiveNumbers ==
  ASSUME IInv, Accepted, NEW o \in IntOptions
  PROVE  cfg[o] \in 1 .. IntMax
  <1>0. IntOptions \subseteq Options
    BY SMT DEF Options
  <1>1. CASE Given(o) = {}
    <2>1. cfg[o] = AppConfig[o] /\ o \in Options
      BY <1>0, <1>1, DefaultStays
    <2>2. AppConfig[o] \in {60, 100000, 30, 1000}
      BY <2>1, SMT DEF AppConfig, IntOptions
    <2> QED BY <2>1, <2>2, ConfigAssumption, SMT
  <1>2. CASE Given(o) # {}
    <2>1. PICK v : ValueOk(o, v) /\ cfg[o] = Converted(o, v)
      BY <1>0, <1>2, LatestOk
    <2>2. PositiveInt(v)
      <3>1. /\ ValueOk("--flow-timeout", v) => PositiveInt(v)
            /\ ValueOk("--max-flows", v) => PositiveInt(v)
            /\ ValueOk("--stats-interval", v) => PositiveInt(v)
            /\ ValueOk("--sr-buffer", v) => PositiveInt(v)
        BY SMT DEF ValueOk, IntOptions, TextOptions
      <3> QED BY <2>1, <3>1, Zenon DEF IntOptions
    <2>3. cfg[o] = stoi[v]
      BY <2>1, SMT DEF Converted
    <2> QED BY <2>2, <2>3, SMT DEF PositiveInt
  <1> QED BY <1>1, <1>2

\* The configuration is the last value of every option, all values were in
\* range, and there is one source.
THEOREM LastGivenWins == Spec => []ConfigIsLastGiven
  <1>1. IInv => ConfigIsLastGiven
    <2> SUFFICES ASSUME IInv, Accepted
                 PROVE  /\ \A i \in 1 .. Len(argv) : ValueOk(argv[i][1], argv[i][2])
                        /\ cfg = [o \in Options |-> IF Given(o) = {} THEN AppConfig[o]
                                                    ELSE Converted(o, LastGiven(o))]
                        /\ Cardinality({o \in {"--pcap", "--iface"} :
                                          Given(o) # {} /\ LastGiven(o) # Empty}) = 1
      BY Zenon DEF ConfigIsLastGiven
    <2>1. ppc # "usage"
      BY DEF Accepted
    <2>2. /\ \A i \in 1 .. Len(argv) : ValueOk(argv[i][1], argv[i][2])
          /\ cfg = [o \in Options |-> Latest(o)] /\ OneSource
      BY <2>1, Zenon DEF IInv, ParseInv
    <2>3. PICK S : S = {o \in {"--pcap", "--iface"} : Given(o) # {} /\ LastGiven(o) # Empty}
      OBVIOUS
    <2>4. ASSUME NEW o \in {"--pcap", "--iface"} PROVE o \in S <=> cfg[o] # Empty
      <3>1. o \in Options /\ o \in TextOptions /\ o \notin IntOptions \cup {"--metrics-port"}
        BY <2>4, SMT DEF Options, TextOptions, IntOptions
      <3>2. CASE Given(o) = {}
        <4>1. cfg[o] = AppConfig[o]
          BY <3>1, <3>2, DefaultStays
        <4>2. AppConfig[o] = Empty
          BY <2>4, <3>1, SMT DEF AppConfig
        <4> QED BY <2>3, <3>2, <4>1, <4>2, Zenon
      <3>3. CASE Given(o) # {}
        <4>1. cfg[o] = Converted(o, LastGiven(o))
          BY <3>1, <3>3, LatestOk
        <4>2. cfg[o] = LastGiven(o)
          BY <3>1, <4>1, Zenon DEF Converted
        <4> QED BY <2>3, <2>4, <3>3, <4>2, Zenon
      <3> QED BY <3>2, <3>3
    <2>5. \E o : S = {o}
      <3>1. CASE cfg["--pcap"] # Empty
        <4>1. cfg["--iface"] = Empty
          BY <2>2, <3>1 DEF OneSource
        <4>2. S = {"--pcap"}
          BY <2>3, <2>4, <3>1, <4>1
        <4> QED BY <4>2
      <3>2. CASE cfg["--pcap"] = Empty
        <4>1. cfg["--iface"] # Empty
          BY <2>2, <3>2 DEF OneSource
        <4>2. S = {"--iface"}
          BY <2>3, <2>4, <3>2, <4>1
        <4> QED BY <4>2
      <3> QED BY <3>1, <3>2
    <2>6. Cardinality(S) = 1
      BY <2>5, FS_Singleton, Zenon
    <2>7. cfg = [o \in Options |-> IF Given(o) = {} THEN AppConfig[o] ELSE Converted(o, LastGiven(o))]
      BY <2>2, Zenon DEF Latest
    <2> QED BY <2>2, <2>3, <2>6, <2>7, Zenon
  <1> QED BY <1>1, Invariance, PTL

\* The timer thread's interval does not overflow below 49 days, is positive
\* and is at most half of either option, whatever the options and the width
\* of an int.
THEOREM IntervalIsHalf == Spec => []SweepsTwicePerTimeout
  <1>1. IInv => SweepsTwicePerTimeout
    <2> SUFFICES ASSUME IInv, Accepted,
                        Min({cfg["--stats-interval"], cfg["--flow-timeout"]}) <= IntMax \div 500
                 PROVE  /\ Interval > 0
                        /\ 2 * Interval <= 1000 * cfg["--flow-timeout"]
                        /\ 2 * Interval <= 1000 * cfg["--stats-interval"]
      BY SMT DEF SweepsTwicePerTimeout
    <2>1. PICK a, b \in Nat : /\ a = cfg["--stats-interval"] /\ b = cfg["--flow-timeout"]
                              /\ a >= 1 /\ b >= 1
      <3>1. "--stats-interval" \in IntOptions /\ "--flow-timeout" \in IntOptions
        BY DEF IntOptions
      <3>2. cfg["--stats-interval"] \in 1 .. IntMax /\ cfg["--flow-timeout"] \in 1 .. IntMax
        BY <3>1, PositiveNumbers
      <3> QED BY <3>2, ConfigAssumption, SMT
    <2>2. PICK c \in Nat : c = Min({a, b}) /\ c >= 1 /\ c <= a /\ c <= b
      BY <2>1, MinOfTwo
    <2>3. Max({1, Min({a, b})}) = c
      <3>1. Max({1, c}) = c
        BY <2>2 DEF Max
      <3> QED BY <2>2, <3>1
    <2>4. IntMax \in Nat /\ c * 500 <= IntMax
      <3>1. c <= IntMax \div 500 /\ IntMax \in Nat
        BY <2>1, <2>2, ConfigAssumption, SMT
      <3> QED BY <3>1, SMT
    <2>5. AsInt(c * 500) = c * 500
      <3>1. PICK x, d \in Nat : x = c * 500 + IntMax + 1 /\ d = 2 * (IntMax + 1)
        BY <2>4, SMT
      <3>2. x < d
        BY <2>4, <3>1, SMT
      <3>3. x % d = x
        BY <3>2, SmallModulo
      <3>4. AsInt(c * 500) = x - (IntMax + 1)
        BY <3>1, <3>3, SMT DEF AsInt
      <3> QED BY <2>4, <3>1, <3>4, SMT
    <2>6. Interval = c * 500
      BY <2>1, <2>3, <2>5 DEF Interval
    <2> QED BY <2>1, <2>2, <2>6, SMT
  <1> QED BY <1>1, Invariance, PTL

\* The producer is created with the command line's brokers, the last line of
\* the file for any other key, and the defaults for the rest.
THEOREM LaterLayersWin == Spec => []LaterLayersOverride
  <1>1. IInv => LaterLayersOverride
    <2> SUFFICES ASSUME IInv, ppc = "created"
                 PROVE  /\ \A i \in 1 .. Len(file) : file[i] \notin Rejected
                        /\ \A k \in DOMAIN conf :
                             conf[k] = CASE k = "bootstrap.servers" -> cfg["--kafka-brokers"]
                                         [] k # "bootstrap.servers" /\ Lines(k) # {} -> file[Max(Lines(k))][2]
                                         [] OTHER -> Defaults[k]
      BY DEF LaterLayersOverride
    <2>1. /\ \A i \in 1 .. Len(file) : file[i] \notin Rejected
          /\ \A k \in DOMAIN conf :
               conf[k] = IF k = "bootstrap.servers" THEN cfg["--kafka-brokers"] ELSE Layered(k)
      BY DEF IInv, FileInv
    <2> QED BY <2>1 DEF Layered
  <1> QED BY <1>1, Invariance, PTL

=============================================================================
