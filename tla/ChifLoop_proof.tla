--------------------------- MODULE ChifLoop_proof ---------------------------
(***************************************************************************)
(* What the daemon promises, for every platform definition, mapping file   *)
(* and host, and every number of descriptors.                              *)
(***************************************************************************)
EXTENDS ChifLoop, SequenceFacts

(***************************************************************************)
(* The I2C command in the daemon: the tables are built as they are defined,*)
(* a request goes to the bus they give, its answer is that of one run of   *)
(* the program, and tells what the runs have done.  Every step of the      *)
(* daemon is a move of the transaction and its tables, or leaves them;     *)
(* what a move preserves is shown first.                                   *)
(***************************************************************************)

\* What a step of the daemon is to the transaction and its tables.
I2cMove ==
    \/ UNCHANGED i2cVars
    \/ Load \/ Handle \/ Forget \/ I2cRestart
    \/ \E r \in I2cPackets : Receive(r)

\* The handlers that leave the transaction alone and respond or do not.
Plain ==
    \/ FixedAnswer \/ BadCommand
    \/ NetworkInfo \/ NicConfig \/ Ipv6Config \/ ReadRegister \/ OtherIoBits
    \/ ReadEvStatus \/ ReadEv \/ RewriteFails \/ Rewrite \/ RewriteCut
    \/ ExitInRewrite \/ DeleteMissing
    \/ EvRefused \/ ClearEVs
    \/ QuickEvent \/ PlatformRecords \/ EndlessRecords
    \/ RomCommand \/ TritonCommand \/ GenCommand \/ GenIgnored \/ UnknownService

\* They leave it alone, each of them.
LEMMA PlainLeaves == ASSUME Plain PROVE UNCHANGED i2cVars
<1>1. \A answer : Respond(answer) => UNCHANGED i2cVars
  BY DEF Respond
<1>2. Ignore => UNCHANGED i2cVars
  BY DEF Ignore
<1>3. CASE FixedAnswer \/ BadCommand \/ NetworkInfo \/ NicConfig \/ Ipv6Config
  BY <1>1, <1>3 DEF FixedAnswer, BadCommand, NetworkInfo, NicConfig, Ipv6Config
<1>4. CASE ReadRegister \/ OtherIoBits \/ ReadEvStatus \/ ReadEv
  BY <1>1, <1>4 DEF ReadRegister, OtherIoBits, ReadEvStatus, ReadEv
<1>5. CASE RewriteFails \/ Rewrite \/ RewriteCut \/ ExitInRewrite \/ DeleteMissing
  BY <1>1, <1>5 DEF RewriteFails, Rewrite, RewriteCut, ExitInRewrite, DeleteMissing
<1>6. CASE EvRefused \/ ClearEVs \/ QuickEvent \/ PlatformRecords \/ EndlessRecords
  BY <1>1, <1>6 DEF EvRefused, ClearEVs, QuickEvent, PlatformRecords, EndlessRecords
<1>7. CASE RomCommand \/ TritonCommand \/ GenCommand \/ GenIgnored \/ UnknownService
  BY <1>1, <1>2, <1>7 DEF RomCommand, TritonCommand, GenCommand, GenIgnored, UnknownService
<1>8. QED
  BY <1>3, <1>4, <1>5, <1>6, <1>7 DEF Plain

\* There is no other: what does not serve the I2C command leaves the
\* transaction and the tables alone.
LEMMA MovesOfDaemon ==
    ASSUME [ChifNext]_chifVars PROVE I2cMove
<1>1. CASE UNCHANGED chifVars
  BY <1>1 DEF chifVars, I2cMove
<1>2. CASE Loading \/ Loaded \/ WriteAnswer \/ Stop \/ Restarted
  BY <1>2 DEF Loading, Loaded, WriteAnswer, Stop, Restarted, I2cMove
<1>3. CASE Host
  BY <1>3 DEF Host, ReadPacket, ReadI2c, I2cMove
<1>4. CASE I2cStep
  BY <1>4 DEF I2cStep, Handle, I2cMove
<1>5. CASE I2cDone
  BY <1>5 DEF I2cDone, I2cMove
<1>6. CASE Plain
  BY <1>6, PlainLeaves DEF I2cMove
<1>7. QED
  BY <1>1, <1>2, <1>3, <1>4, <1>5, <1>6 DEF ChifNext, Daemon, Handler, Plain

(***************************************************************************)
(* Searches: LastOf() of the segments of an engine, as the loop of         *)
(* i2c_topology.cpp:42 leaves it, and select_bus() (smif.cpp:907).         *)
(***************************************************************************)

\* A set of places in a sequence that is not empty has a last one.
LEMMA GreatestElement ==
    ASSUME NEW n \in Nat, NEW S \in SUBSET (1 .. n), S # {}
    PROVE  \E x \in S : \A y \in S : y <= x
<1> DEFINE D == {n - k : k \in S}
<1>1. D \in SUBSET Nat /\ D # {}
  <2>1. \A k \in S : k \in Nat /\ k <= n
    OBVIOUS
  <2>2. \A k \in S : n - k \in Nat
    BY <2>1
  <2>3. QED
    BY <2>2
<1>2. PICK d \in D : \A e \in D : d <= e
  BY <1>1, LeastElement
<1>3. PICK x \in S : d = n - x
  BY <1>2
<1>4. ASSUME NEW y \in S PROVE y <= x
  <2>1. n - y \in D
    OBVIOUS
  <2>2. n - x <= n - y
    BY <1>2, <1>3, <2>1
  <2>3. x \in Nat /\ y \in Nat
    OBVIOUS
  <2>4. QED
    BY <2>2, <2>3
<1>5. QED
  BY <1>4

\* LastOf() is the last of the segments of an engine that count for a number.
LEMMA LastOfIs ==
    ASSUME NEW T, NEW segments \in Seq(T), NEW s,
           NEW K, K = {k \in DOMAIN segments : segments[k].id = s /\ ~segments[k].ignore}
    PROVE  /\ LastOf(segments, s) \in Nat
           /\ LastOf(segments, s) = 0 <=> K = {}
           /\ LastOf(segments, s) # 0 => /\ LastOf(segments, s) \in K
                                         /\ \A k \in K : k <= LastOf(segments, s)
<1>1. DOMAIN segments = 1 .. Len(segments) /\ Len(segments) \in Nat
  OBVIOUS
<1>2. LastOf(segments, s) = IF K # {} THEN Max(K) ELSE 0
  BY <1>1 DEF LastOf, SelectLastInSeq
<1>3. ASSUME K # {} PROVE Max(K) \in K /\ \A k \in K : k <= Max(K)
  <2>1. K \in SUBSET (1 .. Len(segments))
    BY <1>1
  <2>2. \E x \in K : \A y \in K : y <= x
    BY <1>1, <1>3, <2>1, GreatestElement
  <2>3. \E x \in K : \A y \in K : x >= y
    BY <1>1, <2>1, <2>2
  <2>4. Max(K) \in K /\ \A k \in K : Max(K) >= k
    BY <2>3 DEF Max
  <2>5. QED
    BY <1>1, <2>1, <2>4
<1>4. QED
  BY <1>1, <1>2, <1>3

\* select_bus() takes the first entry that has a setting.
LEMMA SelectBusIs ==
    ASSUME i2cSystemEntries \in Seq(Muxes \X Nat), NEW mux,
           NEW K, K = {k \in DOMAIN i2cSystemEntries : i2cSystemEntries[k][1] = mux}
    PROVE  /\ K = {} => select_bus(mux) = None
           /\ K # {} => /\ select_bus(mux) = i2cSystemEntries[CHOOSE k \in K : \A h \in K : k <= h][2]
                        /\ select_bus(mux) \in Nat
<1>1. /\ DOMAIN i2cSystemEntries = 1 .. Len(i2cSystemEntries) /\ Len(i2cSystemEntries) \in Nat
      /\ K \in SUBSET Nat /\ 0 \notin K
  OBVIOUS
<1> DEFINE first == CHOOSE k \in K : \A h \in K : k <= h
<1>2. select_bus(mux) = LET k == IF K # {} THEN Min(K) ELSE 0
                        IN  IF k = 0 THEN None ELSE i2cSystemEntries[k][2]
  BY <1>1 DEF select_bus, SelectInSeq
<1>3. Min(K) = first
  BY DEF Min
<1>4. ASSUME K # {} PROVE first \in K
  <2>1. \E k \in K : \A h \in K : k <= h
    BY <1>1, <1>4, LeastElement
  <2>2. QED
    BY <2>1
<1> HIDE DEF first
<1>5. K # {} => first # 0 /\ select_bus(mux) = i2cSystemEntries[first][2]
  BY <1>1, <1>2, <1>3, <1>4
<1>6. K # {} => i2cSystemEntries[first] \in Muxes \X Nat
  BY <1>1, <1>4
<1>7. K = {} => select_bus(mux) = None
  BY <1>2
<1>8. K # {} => select_bus(mux) \in Nat
  BY <1>5, <1>6
<1>9. QED
  BY <1>5, <1>7, <1>8 DEF first

(***************************************************************************)
(* Types of the tables.                                                    *)
(***************************************************************************)

\* The phases of the tables and of a transaction.
Phases == {"engines", "mapping", "ready", "select", "run", "answer", "thrown"}

\* The tables.
TablesTyped ==
    /\ platform \in Platforms /\ mapping \in Mappings
    /\ i \in Nat
    /\ segment_to_engine \in [Segment -> (0 .. I2C_ENGINE_COUNT - 1) \cup {Unknown}]
    /\ apml_segments \in [Segment -> Muxes]
    /\ i2cSystemEntries \in Seq(Muxes \X Nat)
    /\ Len(i2cSystemEntries) <= MAX_I2C_TABLE_REMAP

\* What is remembered of a run of the program.
RunRecord == [kind : {"run", "not_run", "error"}, bytes : Seq(Bytes)]

\* The request, and how often it has been run.
RequestTyped ==
    /\ phase \in Phases
    /\ i2c \in Request \cup {None}
    /\ bus \in Nat \cup {None}
    /\ retry \in 0 .. MAX_I2C_RETRIES + 1
    /\ ErrorCode \in Codes
    /\ data \in Seq(Bytes \cup {0})
    /\ i2c # None => Len(data) = i2c.read_len
    /\ runs \in Seq(RunRecord) /\ Len(runs) <= MAX_I2C_RETRIES + 1
    /\ phase \in {"select", "run", "answer"} => i2c # None
    /\ phase = "select" => retry = 0 /\ runs = << >>
    /\ phase = "run" => retry = Len(runs)

\* The engine at hand.
LEMMA EngineTyped ==
    ASSUME TablesTyped, EngineLeft
    PROVE  /\ i + 1 \in DOMAIN platform /\ platform[i + 1] \in EngineRecord
           /\ i \in 0 .. I2C_ENGINE_COUNT - 1 /\ i # Unknown
<1>1. platform \in Seq(EngineRecord) /\ i \in Nat /\ i < Len(platform) /\ i < I2C_ENGINE_COUNT
  BY I2cAssumption DEF TablesTyped, EngineLeft
<1>2. Len(platform) \in Nat /\ I2C_ENGINE_COUNT \in 0 .. 255
  BY <1>1, I2cAssumption
<1>3. i + 1 \in 1 .. Len(platform)
  BY <1>1, <1>2
<1>4. i + 1 \in DOMAIN platform /\ platform[i + 1] \in EngineRecord
  BY <1>1, <1>3
<1>5. i \in 0 .. I2C_ENGINE_COUNT - 1 /\ i # 255
  BY <1>1, <1>2
<1>6. QED
  BY <1>4, <1>5 DEF Unknown

\* A line makes an entry.
LEMMA EntryTyped ==
    ASSUME NEW m \in Mappings, NEW k \in DOMAIN m
    PROVE  Entry(m[k]) \in Muxes \X Nat
BY I2cAssumption DEF Entry

\* The tables are empty at first.
LEMMA TablesInit == ChifInit => TablesTyped
BY I2cAssumption DEF ChifInit, I2cInit, TablesTyped

\* Every step leaves the tables their types, and within their size: engines
\* beyond the limit and lines beyond the table are left out
\* (i2c_topology.cpp:42, i2c_mapping.cpp:39).
LEMMA TablesNext ==
    ASSUME TablesTyped, I2cMove PROVE TablesTyped'
<1>1. CASE UNCHANGED i2cVars \/ Handle \/ Forget \/ \E r \in I2cPackets : Receive(r)
  <2>1. UNCHANGED <<tables, i>>
    BY <1>1 DEF Handle, Forget, Receive, RefuseArgument, SelectBus, NoProgram, GiveUp, Answer,
                RunProgram, RunToWrite, RunSilent, RunGarbled, RunWithOutput, i2cVars
  <2>2. QED
    BY <2>1 DEF TablesTyped, tables
<1>2. CASE SkipEngine \/ MappingRead
  BY <1>2 DEF SkipEngine, MappingRead, TablesTyped, tables
<1>3. CASE AddEngine
  <2>1. /\ platform[i + 1] \in EngineRecord /\ i \in 0 .. I2C_ENGINE_COUNT - 1
    BY <1>3, EngineTyped DEF AddEngine
  <2> DEFINE segments == platform[i + 1].segments
             T == [id : Segment, ignore : BOOLEAN, mux : Muxes]
  <2>2. segments \in Seq(T)
    BY <2>1 DEF EngineRecord
  <2> HIDE DEF segments
  <2>3. ASSUME NEW s \in Segment, LastOf(segments, s) # 0
        PROVE  segments[LastOf(segments, s)].mux \in Muxes
    <3>1. LastOf(segments, s) \in DOMAIN segments
      BY <2>2, <2>3, LastOfIs
    <3>2. \A k \in DOMAIN segments : segments[k] \in T
      <4> HIDE DEF T
      <4>1. QED
        BY <2>2
    <3>3. segments[LastOf(segments, s)] \in T
      BY <3>1, <3>2
    <3>4. QED
      BY <3>3
  <2>4. /\ segment_to_engine' =
             [s \in Segment |-> IF s = i \/ LastOf(segments, s) # 0 THEN i
                                ELSE segment_to_engine[s]]
        /\ apml_segments' =
             [s \in Segment |-> IF LastOf(segments, s) = 0 THEN apml_segments[s]
                                ELSE segments[LastOf(segments, s)].mux]
        /\ i' = i + 1
        /\ UNCHANGED <<platform, mapping, i2cSystemEntries>>
    BY <1>3 DEF AddEngine, segments
  <2>5. segment_to_engine' \in [Segment -> (0 .. I2C_ENGINE_COUNT - 1) \cup {Unknown}]
    BY <2>1, <2>4 DEF TablesTyped
  <2>6. apml_segments' \in [Segment -> Muxes]
    BY <2>3, <2>4 DEF TablesTyped
  <2>7. i' \in Nat
    BY <2>1, <2>4 DEF TablesTyped
  <2>8. QED
    BY <2>4, <2>5, <2>6, <2>7 DEF TablesTyped
<1>4. CASE ClearEmpty
  <2>1. apml_segments' \in [Segment -> Muxes]
    BY <1>4, I2cAssumption DEF ClearEmpty, TablesTyped
  <2>2. QED
    BY <1>4, <2>1 DEF ClearEmpty, TablesTyped
<1>5. CASE MapLine
  <2>1. mapping \in Mappings /\ i + 1 \in DOMAIN mapping
    <3>1. mapping \in Seq((Muxes \X Nat) \cup {BadLine}) /\ i \in Nat /\ i < Len(mapping)
      BY <1>5, I2cAssumption DEF MapLine, TablesTyped
    <3>2. QED
      BY <3>1 DEF TablesTyped
  <2>2. Entry(mapping[i + 1]) \in Muxes \X Nat
    BY <2>1, EntryTyped
  <2>3. i2cSystemEntries' \in Seq(Muxes \X Nat) /\ Len(i2cSystemEntries') <= MAX_I2C_TABLE_REMAP
    <3>1. CASE Len(i2cSystemEntries) < MAX_I2C_TABLE_REMAP
      <4>1. i2cSystemEntries' = Append(i2cSystemEntries, Entry(mapping[i + 1]))
        BY <1>5, <3>1 DEF MapLine
      <4>2. /\ i2cSystemEntries' \in Seq(Muxes \X Nat)
            /\ Len(i2cSystemEntries') = Len(i2cSystemEntries) + 1
        BY <2>2, <4>1, AppendProperties DEF TablesTyped
      <4>3. Len(i2cSystemEntries) \in Nat
        BY LenProperties DEF TablesTyped
      <4>4. QED
        BY <3>1, <4>2, <4>3, I2cAssumption
    <3>2. CASE ~(Len(i2cSystemEntries) < MAX_I2C_TABLE_REMAP)
      BY <1>5, <3>2 DEF MapLine, TablesTyped
    <3>3. QED
      BY <3>1, <3>2
  <2>4. QED
    BY <1>5, <2>3 DEF MapLine, TablesTyped
<1>6. CASE I2cRestart
  BY <1>6, I2cAssumption DEF I2cRestart, TablesTyped
<1>7. QED
  BY <1>1, <1>2, <1>3, <1>4, <1>5, <1>6 DEF I2cMove, Load

(***************************************************************************)
(* The request and its runs.                                               *)
(***************************************************************************)

\* What a run prints is a sequence.
LEMMA OutputsTyped ==
    ASSUME NEW bytes \in Outputs
    PROVE  bytes \in Seq(Bytes) /\ Len(bytes) \in Nat
<1>1. PICK n \in 0 .. LINE_BYTES : bytes \in [1 .. n -> Bytes]
  BY DEF Outputs
<1>2. n \in Nat
  BY I2cAssumption
<1>3. QED
  BY <1>1, <1>2

\* It goes over what is there, and does not lengthen it.
LEMMA OverTyped ==
    ASSUME data \in Seq(Bytes \cup {0}), NEW bytes \in Seq(Bytes)
    PROVE  Over(bytes) \in Seq(Bytes \cup {0}) /\ Len(Over(bytes)) = Len(data)
<1>1. DOMAIN data = 1 .. Len(data) /\ Len(data) \in Nat /\ Len(bytes) \in Nat
  OBVIOUS
<1>2. \A k \in 1 .. Len(data) : data[k] \in Bytes \cup {0}
  BY <1>1
<1>3. \A k \in 1 .. Len(data) : k <= Len(bytes) => bytes[k] \in Bytes
  BY <1>1
<1>4. Over(bytes) \in [1 .. Len(data) -> Bytes \cup {0}]
  BY <1>1, <1>2, <1>3 DEF Over
<1>5. QED
  BY <1>1, <1>4

\* One more run is counted.
LEMMA RunCounted ==
    ASSUME RequestTyped, Again, NEW gave \in RunRecord, Run(gave)
    PROVE  /\ runs' \in Seq(RunRecord) /\ Len(runs') = retry + 1
           /\ Len(runs') <= MAX_I2C_RETRIES + 1
           /\ retry + 1 \in 0 .. MAX_I2C_RETRIES + 1
<1>1. retry = Len(runs) /\ retry \in Nat /\ retry <= MAX_I2C_RETRIES /\ MAX_I2C_RETRIES \in Nat
  BY I2cAssumption DEF Again, RequestTyped
<1>2. runs' \in Seq(RunRecord) /\ Len(runs') = Len(runs) + 1
  BY AppendProperties DEF Run, RequestTyped
<1>3. QED
  BY <1>1, <1>2

\* There is no request at first.
LEMMA RequestInit == ChifInit => RequestTyped
<1>1. SUFFICES ASSUME ChifInit PROVE RequestTyped
  OBVIOUS
<1>2. phase = "engines" /\ Unasked
  BY <1>1 DEF ChifInit, I2cInit
<1>3. 0 \in 0 .. MAX_I2C_RETRIES + 1 /\ 0 <= MAX_I2C_RETRIES + 1
  BY I2cAssumption
<1>4. << >> \in Seq(Bytes \cup {0}) /\ << >> \in Seq(RunRecord) /\ Len(<< >>) = 0
  OBVIOUS
<1>5. QED
  BY <1>2, <1>3, <1>4 DEF Unasked, RequestTyped, Codes, Phases

\* Every step leaves the request its types: the packet as long as the host
\* asked, the runs no more than the retries allow (smif.cpp:1020).
LEMMA RequestNext ==
    ASSUME RequestTyped, TablesTyped, I2cMove PROVE RequestTyped'
<1> USE DEF Phases, Codes
<1>0. 0 \in 0 .. MAX_I2C_RETRIES + 1 /\ 0 <= MAX_I2C_RETRIES + 1 /\ MAX_I2C_RETRIES \in Nat
  BY I2cAssumption
<1>1. CASE UNCHANGED i2cVars
  BY <1>1 DEF i2cVars, request, RequestTyped
<1>2. CASE Load
  <2>1. UNCHANGED request /\ phase' \in {"engines", "mapping", "ready"}
    BY <1>2 DEF Load, SkipEngine, AddEngine, ClearEmpty, MapLine, MappingRead
  <2>2. QED
    BY <2>1 DEF request, RequestTyped
<1>3. CASE Forget \/ I2cRestart
  <2>1. /\ phase' \in {"engines", "ready"} /\ i2c' = None /\ bus' = None /\ retry' = 0 /\ ErrorCode' = 0
        /\ data' = << >> /\ runs' = << >>
    BY <1>3 DEF Forget, I2cRestart
  <2>2. << >> \in Seq(Bytes \cup {0}) /\ << >> \in Seq(RunRecord) /\ Len(<< >>) = 0
    OBVIOUS
  <2>3. QED
    BY <1>0, <2>1, <2>2 DEF RequestTyped
<1>4. ASSUME NEW r \in I2cPackets, Receive(r) PROVE RequestTyped'
  <2>1. r \in Request /\ r.read_len \in Nat
    BY I2cAssumption, LoopAssumption DEF Request
  <2>2. data' \in Seq(Bytes \cup {0}) /\ Len(data') = r.read_len
    BY <1>4, <2>1 DEF Receive
  <2>3. << >> \in Seq(RunRecord) /\ Len(<< >>) = 0
    OBVIOUS
  <2>4. r # None
    BY <2>1, I2cAssumption
  <2>5. QED
    BY <1>0, <1>4, <2>1, <2>2, <2>3, <2>4 DEF Receive, RequestTyped
<1>5. CASE RefuseArgument \/ GiveUp \/ Answer
  BY <1>5 DEF RefuseArgument, GiveUp, Answer, RequestTyped, I2C_SUCCESS, I2C_GENERAL_ERROR,
              I2C_BAD_ARGUMENT, I2C_SEGMENT_DOES_NOT_EXIST
<1>6. CASE SelectBus
  <2>1. \A mux : select_bus(mux) \in Nat \cup {None}
    BY SelectBusIs DEF TablesTyped
  <2>2. bus' \in Nat \cup {None}
    BY <1>6, <2>1 DEF SelectBus
  <2>3. phase' \in {"answer", "run"} /\ ErrorCode' \in Codes
    BY <1>6 DEF SelectBus, RequestTyped
  <2>4. UNCHANGED <<i2c, retry, data, runs>> /\ phase = "select"
    BY <1>6 DEF SelectBus
  <2>5. retry = 0 /\ runs = << >> /\ Len(<< >>) = 0 /\ i2c # None
    BY <2>4 DEF RequestTyped
  <2>6. QED
    BY <2>2, <2>3, <2>4, <2>5 DEF RequestTyped
<1>7. CASE NoProgram \/ RunSilent
  <2>1. PICK gave \in RunRecord : Run(gave)
    <3>1. << >> \in Seq(Bytes)
      OBVIOUS
    <3>2. /\ [kind |-> "not_run", bytes |-> << >>] \in RunRecord
          /\ [kind |-> "run", bytes |-> << >>] \in RunRecord
      BY <3>1 DEF RunRecord
    <3>3. QED
      BY <1>7, <3>2 DEF NoProgram, RunSilent
  <2>2. Again /\ retry' = retry + 1 /\ UNCHANGED <<phase, i2c, bus, ErrorCode, data>>
    BY <1>7 DEF NoProgram, RunSilent
  <2>3. /\ runs' \in Seq(RunRecord) /\ Len(runs') = retry + 1
        /\ Len(runs') <= MAX_I2C_RETRIES + 1 /\ retry + 1 \in 0 .. MAX_I2C_RETRIES + 1
    BY <2>1, <2>2, RunCounted
  <2>4. QED
    BY <2>2, <2>3 DEF RequestTyped, Again
<1>8. CASE RunToWrite
  <2>1. << >> \in Seq(Bytes)
    OBVIOUS
  <2>2. [kind |-> "run", bytes |-> << >>] \in RunRecord
    BY <2>1 DEF RunRecord
  <2>3. runs' \in Seq(RunRecord) /\ Len(runs') <= MAX_I2C_RETRIES + 1
    BY <1>8, <2>2, RunCounted DEF RunToWrite
  <2>4. QED
    BY <1>0, <1>8, <2>3 DEF RunToWrite, RequestTyped, Again
<1>9. CASE RunGarbled
  BY <1>9 DEF RunGarbled, RequestTyped, request
<1>10. ASSUME NEW bytes \in Outputs, NEW error \in BOOLEAN, RunWithOutput(bytes, error)
       PROVE  RequestTyped'
  <2>1. bytes \in Seq(Bytes)
    BY OutputsTyped
  <2>2. PICK gave \in RunRecord : Run(gave)
    BY <1>10, <2>1 DEF RunWithOutput, RunRecord
  <2>3. Again
    BY <1>10 DEF RunWithOutput
  <2>4. /\ runs' \in Seq(RunRecord) /\ Len(runs') = retry + 1
        /\ Len(runs') <= MAX_I2C_RETRIES + 1 /\ retry + 1 \in 0 .. MAX_I2C_RETRIES + 1
    BY <2>2, <2>3, RunCounted
  <2>5. data' \in Seq(Bytes \cup {0}) /\ Len(data') = Len(data)
    <3>1. data \in Seq(Bytes \cup {0}) /\ data' = Over(bytes)
      BY <1>10 DEF RunWithOutput, RequestTyped
    <3>2. QED
      BY <2>1, <3>1, OverTyped
  <2>6. UNCHANGED <<i2c, bus>> /\ ErrorCode' \in Codes
    BY <1>10 DEF RunWithOutput
  <2>7. \/ retry' = 0 /\ phase' = "answer"
        \/ retry' = retry + 1 /\ phase' = "run"
    BY <1>10 DEF RunWithOutput, Again
  <2>8. i2c # None
    BY <2>3 DEF Again, RequestTyped
  <2>9. QED
    BY <1>0, <2>4, <2>5, <2>6, <2>7, <2>8 DEF RequestTyped
<1>11. QED
  BY <1>1, <1>2, <1>3, <1>4, <1>5, <1>6, <1>7, <1>8, <1>9, <1>10 DEF I2cMove, Handle, RunProgram

(***************************************************************************)
(* The answer is that of one run.                                          *)
(***************************************************************************)

\* Until there is an answer, no run has given anything, and the packet is zero;
\* at first no bus is known.
NothingYet ==
    /\ phase = "select" => bus = None
    /\ phase \in {"select", "run", "thrown"} =>
          /\ \A k \in DOMAIN data : data[k] = 0
          /\ \A k \in 1 .. Len(runs) :
                /\ runs[k].bytes = << >>
                /\ i2c.read_len = 0 => runs[k].kind = "not_run"

\* The run that is added is the last.
LEMMA LastRun ==
    ASSUME RequestTyped, NEW gave \in RunRecord, Run(gave)
    PROVE  /\ runs' # << >> /\ Last(runs') = gave /\ Len(runs') = Len(runs) + 1
           /\ Len(runs) \in Nat
           /\ \A k \in 1 .. Len(runs) : runs'[k] = runs[k]
<1>1. runs \in Seq(RunRecord) /\ runs' = Append(runs, gave)
  BY DEF RequestTyped, Run
<1>2. /\ Len(runs') = Len(runs) + 1 /\ runs'[Len(runs) + 1] = gave
      /\ \A k \in 1 .. Len(runs) : runs'[k] = runs[k]
      /\ Len(runs) \in Nat
  BY <1>1, AppendProperties, LenProperties
<1>3. runs' # << >>
  BY <1>1
<1>4. QED
  BY <1>2, <1>3 DEF Last

\* Data that are zero are the function that is.
LEMMA AllZero ==
    ASSUME data \in Seq(Bytes \cup {0}), \A k \in DOMAIN data : data[k] = 0
    PROVE  /\ data = [k \in DOMAIN data |-> 0]
           /\ data = [k \in DOMAIN data |-> IF k <= Len(<< >>) THEN << >>[k] ELSE 0]
<1>1. DOMAIN data = 1 .. Len(data) /\ Len(data) \in Nat /\ Len(<< >>) = 0
  OBVIOUS
<1>2. data = [k \in DOMAIN data |-> data[k]]
  OBVIOUS
<1>3. \A k \in DOMAIN data : ~(k <= Len(<< >>))
  BY <1>1
<1>4. QED
  BY <1>2, <1>3

\* Bytes at the front, and nothing behind.
Shown(bytes, d) == d = [k \in DOMAIN d |-> IF k <= Len(bytes) THEN bytes[k] ELSE 0]

\* There is no answer at first.
LEMMA AnswersInit == ChifInit => NothingYet /\ AnswerIsOneRuns /\ OutcomeTold
BY DEF ChifInit, I2cInit, NothingYet, AnswerIsOneRuns, OutcomeTold

\* After runs that gave nothing, and wrote nothing where nothing is to be read,
\* one more is the only one that may have.
LEMMA RunAdded ==
    ASSUME RequestTyped, NothingYet, phase = "run", NEW gave \in RunRecord, Run(gave)
    PROVE  /\ {k \in DOMAIN runs' : runs'[k].bytes # << >>}
                 = IF gave.bytes # << >> THEN {Len(runs')} ELSE {}
           /\ i2c.read_len = 0 =>
                 {k \in DOMAIN runs' : runs'[k].kind # "not_run"}
                    = IF gave.kind # "not_run" THEN {Len(runs')} ELSE {}
<1>1. PICK m \in Nat : m = Len(runs) /\ Len(runs') = m + 1 /\ \A k \in 1 .. m : runs'[k] = runs[k]
  BY LastRun
<1>2. runs' \in Seq(RunRecord)
  BY AppendProperties DEF RequestTyped, Run
<1>3. DOMAIN runs' = 1 .. m + 1
  BY <1>1, <1>2
<1>4. runs'[m + 1] = gave
  BY <1>1, LastRun DEF Last
<1>5. ASSUME NEW k \in 1 .. m
      PROVE  /\ runs'[k].bytes = << >>
             /\ i2c.read_len = 0 => runs'[k].kind = "not_run"
  BY <1>1 DEF NothingYet
<1>6. \A k \in DOMAIN runs' : k = m + 1 \/ k \in 1 .. m
  BY <1>1, <1>3
<1>7. m + 1 \in DOMAIN runs' /\ \A k \in 1 .. m : k # m + 1
  BY <1>1, <1>3
<1>8. QED
  BY <1>1, <1>4, <1>5, <1>6, <1>7

\* Every step leaves answers those of one run (smif.cpp:1036), and such that
\* they tell what was done (smif.cpp:1020).
LEMMA AnswersNext ==
    ASSUME RequestTyped, NothingYet, AnswerIsOneRuns, OutcomeTold, I2cMove
    PROVE  NothingYet' /\ AnswerIsOneRuns' /\ OutcomeTold'
<1>0. LINE_BYTES \in Nat /\ MAX_I2C_RETRIES \in Nat
  BY I2cAssumption
<1>1. CASE UNCHANGED i2cVars
  <2>1. UNCHANGED <<phase, i2c, bus, ErrorCode, data, runs>>
    BY <1>1 DEF i2cVars, request
  <2>2. QED
    BY <2>1 DEF NothingYet, AnswerIsOneRuns, OutcomeTold
<1>2. CASE Load \/ Forget \/ I2cRestart \/ Answer
  <2>1. phase' \in {"engines", "mapping", "ready"}
    BY <1>2 DEF Load, SkipEngine, AddEngine, ClearEmpty, MapLine, MappingRead, Forget, I2cRestart, Answer
  <2>2. QED
    BY <2>1 DEF NothingYet, AnswerIsOneRuns, OutcomeTold
<1>3. ASSUME NEW r \in I2cPackets, Receive(r)
      PROVE  NothingYet' /\ AnswerIsOneRuns' /\ OutcomeTold'
  <2>1. data' = [k \in 1 .. r.read_len |-> 0] /\ runs' = << >> /\ phase' = "select" /\ bus' = None
    BY <1>3 DEF Receive
  <2>2. \A k \in 1 .. Len(<< >>) : FALSE
    OBVIOUS
  <2>3. \A k \in DOMAIN data' : data'[k] = 0
    BY <2>1
  <2>4. QED
    BY <2>1, <2>2, <2>3 DEF NothingYet, AnswerIsOneRuns, OutcomeTold
<1>4. CASE RefuseArgument \/ SelectBus
  <2>1. UNCHANGED <<i2c, data, runs>> /\ phase = "select" /\ phase' # "select"
    BY <1>4 DEF RefuseArgument, SelectBus
  <2>2. runs = << >> /\ data \in Seq(Bytes \cup {0}) /\ \A k \in DOMAIN data : data[k] = 0
    BY <2>1 DEF RequestTyped, NothingYet
  <2>3. phase' = "answer" => ErrorCode' \in {I2C_BAD_ARGUMENT, I2C_SEGMENT_DOES_NOT_EXIST}
    BY <1>4 DEF RefuseArgument, SelectBus
  <2>4. /\ data' = [k \in DOMAIN data' |-> 0]
        /\ Shown(<< >>, data)'
    BY <2>1, <2>2, AllZero DEF Shown
  <2>5. AnswerIsOneRuns'
    BY <2>1, <2>2, <2>3, <2>4
       DEF AnswerIsOneRuns, Shown, I2C_SUCCESS, I2C_BAD_ARGUMENT, I2C_SEGMENT_DOES_NOT_EXIST
  <2>6. phase' = "answer" => bus' = None
    BY <1>4, <2>1 DEF RefuseArgument, SelectBus, NothingYet
  <2>7. NothingYet' /\ OutcomeTold'
    BY <2>1, <2>6 DEF NothingYet, OutcomeTold
  <2>8. QED
    BY <2>5, <2>7
<1>5. CASE NoProgram \/ RunSilent
  <2>1. PICK gave \in RunRecord :
          /\ Run(gave) /\ gave.bytes = << >>
          /\ i2c.read_len = 0 => gave.kind = "not_run"
    <3>1. << >> \in Seq(Bytes)
      OBVIOUS
    <3>2. /\ [kind |-> "not_run", bytes |-> << >>] \in RunRecord
          /\ [kind |-> "run", bytes |-> << >>] \in RunRecord
      BY <3>1 DEF RunRecord
    <3>3. RunSilent => i2c.read_len # 0
      BY DEF RunSilent
    <3>4. QED
      BY <1>5, <3>2, <3>3 DEF NoProgram, RunSilent
  <2>2. UNCHANGED <<phase, i2c, data>> /\ phase = "run"
    BY <1>5 DEF NoProgram, RunSilent, Again
  <2>3. /\ Last(runs') = gave /\ Len(runs') = Len(runs) + 1 /\ Len(runs) \in Nat
        /\ \A k \in 1 .. Len(runs) : runs'[k] = runs[k]
    BY <2>1, LastRun
  <2>4. ASSUME NEW k \in 1 .. Len(runs')
        PROVE  /\ runs'[k].bytes = << >>
               /\ i2c.read_len = 0 => runs'[k].kind = "not_run"
    <3>1. CASE k = Len(runs')
      BY <2>1, <2>3, <3>1 DEF Last
    <3>2. CASE k \in 1 .. Len(runs)
      BY <2>2, <2>3, <3>2 DEF NothingYet
    <3>3. QED
      BY <2>3, <3>1, <3>2
  <2>5. NothingYet'
    BY <2>2, <2>4 DEF NothingYet
  <2>6. QED
    BY <2>2, <2>5 DEF AnswerIsOneRuns, OutcomeTold
<1>6. CASE RunToWrite
  <2> DEFINE gave == [kind |-> "run", bytes |-> << >>]
  <2>1. << >> \in Seq(Bytes)
    OBVIOUS
  <2>2. gave \in RunRecord
    BY <2>1 DEF RunRecord
  <2>3. /\ Run(gave) /\ phase = "run" /\ phase' = "answer" /\ i2c' = i2c
        /\ i2c.read_len = 0 /\ ErrorCode' = I2C_SUCCESS
    BY <1>6 DEF RunToWrite, Again
  <2>4. ~(0 > 0)
    OBVIOUS
  <2>5. AnswerIsOneRuns'
    BY <2>3, <2>4
       DEF AnswerIsOneRuns, I2C_SUCCESS, I2C_BAD_ARGUMENT, I2C_SEGMENT_DOES_NOT_EXIST
  <2>6. {k \in DOMAIN runs' : runs'[k].kind # "not_run"} = {Len(runs')}
    BY <2>2, <2>3, RunAdded
  <2>7. OutcomeTold'
    BY <2>3, <2>4, <2>6 DEF OutcomeTold, I2C_SUCCESS, I2C_SEGMENT_DOES_NOT_EXIST
  <2>8. QED
    BY <2>3, <2>5, <2>7 DEF NothingYet
<1>7. CASE RunGarbled
  <2>1. UNCHANGED <<i2c, data, runs>> /\ phase = "run" /\ phase' = "thrown"
    BY <1>7 DEF RunGarbled, request, Again
  <2>2. QED
    BY <2>1 DEF NothingYet, AnswerIsOneRuns, OutcomeTold
<1>8. ASSUME NEW bytes \in Outputs, NEW error \in BOOLEAN, RunWithOutput(bytes, error)
      PROVE  NothingYet' /\ AnswerIsOneRuns' /\ OutcomeTold'
  <2>1. bytes \in Seq(Bytes) /\ Len(bytes) \in Nat
    BY OutputsTyped
  <2> DEFINE gave == [kind |-> IF error THEN "error" ELSE "run", bytes |-> bytes]
  <2>2. gave \in RunRecord /\ gave.bytes = bytes /\ (gave.kind # "run" => error)
    BY <2>1 DEF RunRecord
  <2>3. /\ Run(gave) /\ phase = "run" /\ i2c' = i2c /\ data' = Over(bytes)
        /\ i2c.read_len > 0
        /\ ErrorCode' = IF error THEN I2C_GENERAL_ERROR ELSE I2C_SUCCESS
        /\ \/ bytes # << >> /\ phase' = "answer"
           \/ bytes = << >> /\ phase' = "run"
    BY <1>8 DEF RunWithOutput, Again
  <2>4. /\ runs' # << >> /\ Last(runs') = gave /\ Len(runs') = Len(runs) + 1 /\ Len(runs) \in Nat
        /\ \A k \in 1 .. Len(runs) : runs'[k] = runs[k]
    BY <2>2, <2>3, LastRun
  <2>5. Last(runs').bytes = bytes /\ (Last(runs').kind # "run" => error)
    BY <2>2, <2>4
  <2>6. {k \in DOMAIN runs' : runs'[k].bytes # << >>} = IF bytes # << >> THEN {Len(runs')} ELSE {}
    BY <2>2, <2>3, RunAdded
  <2> HIDE DEF gave
  <2>7. data \in Seq(Bytes \cup {0}) /\ \A k \in DOMAIN data : data[k] = 0
    BY <2>3 DEF RequestTyped, NothingYet
  <2>8. data' = [k \in DOMAIN data |-> IF k <= Len(bytes) THEN bytes[k] ELSE 0]
    BY <2>3, <2>7 DEF Over
  <2>9. DOMAIN data' = DOMAIN data
    BY <2>8
  <2>10. CASE bytes # << >> /\ phase' = "answer"
    <3>1. /\ ErrorCode' \in {I2C_GENERAL_ERROR, I2C_SUCCESS}
          /\ ErrorCode' = I2C_SUCCESS => ~error
      BY <2>3 DEF I2C_SUCCESS, I2C_GENERAL_ERROR
    <3>2. AnswerIsOneRuns'
      BY <2>4, <2>5, <2>8, <2>9, <2>10, <3>1
         DEF AnswerIsOneRuns, I2C_SUCCESS, I2C_GENERAL_ERROR, I2C_BAD_ARGUMENT, I2C_SEGMENT_DOES_NOT_EXIST
    <3>3. ErrorCode' # I2C_SEGMENT_DOES_NOT_EXIST
      BY <3>1 DEF I2C_SUCCESS, I2C_GENERAL_ERROR, I2C_SEGMENT_DOES_NOT_EXIST
    <3>4. i2c.read_len # 0
      BY <2>3
    <3>5. OutcomeTold'
      BY <2>3, <2>6, <2>10, <3>3, <3>4 DEF OutcomeTold
    <3>6. QED
      BY <2>10, <3>2, <3>5 DEF NothingYet
  <2>11. CASE bytes = << >> /\ phase' = "run"
    <3>1. \A k \in DOMAIN data' : data'[k] = 0
      <4>1. Len(bytes) = 0 /\ DOMAIN data = 1 .. Len(data)
        BY <2>7, <2>11
      <4>2. \A k \in DOMAIN data : ~(k <= Len(bytes))
        BY <4>1
      <4>3. QED
        BY <2>8, <2>9, <4>2
    <3>2. ASSUME NEW k \in 1 .. Len(runs')
          PROVE  /\ runs'[k].bytes = << >>
                 /\ i2c.read_len = 0 => runs'[k].kind = "not_run"
      <4>1. CASE k = Len(runs')
        BY <2>3, <2>5, <2>11, <4>1 DEF Last
      <4>2. CASE k \in 1 .. Len(runs)
        BY <2>3, <2>4, <4>2 DEF NothingYet
      <4>3. QED
        BY <2>4, <4>1, <4>2
    <3>3. NothingYet'
      BY <2>3, <2>11, <3>1, <3>2 DEF NothingYet
    <3>4. QED
      BY <2>11, <3>3 DEF AnswerIsOneRuns, OutcomeTold
  <2>12. QED
    BY <2>3, <2>10, <2>11
<1>9. CASE GiveUp
  <2>1. UNCHANGED <<i2c, data, runs>> /\ phase = "run" /\ phase' = "answer"
        /\ ErrorCode' = I2C_SEGMENT_DOES_NOT_EXIST /\ retry > MAX_I2C_RETRIES
    BY <1>9 DEF GiveUp
  <2>2. /\ data \in Seq(Bytes \cup {0}) /\ \A k \in DOMAIN data : data[k] = 0
        /\ runs \in Seq(RunRecord)
        /\ \A k \in 1 .. Len(runs) : runs[k].bytes = << >>
        /\ \A k \in 1 .. Len(runs) : i2c.read_len = 0 => runs[k].kind = "not_run"
    BY <2>1 DEF RequestTyped, NothingYet
  <2>3. data = [k \in DOMAIN data |-> 0] /\ Shown(<< >>, data)
    BY <2>2, AllZero DEF Shown
  <2>4. runs # << >> => Last(runs).bytes = << >>
    <3>1. runs # << >> => Len(runs) \in 1 .. Len(runs)
      BY <2>2, EmptySeq, LenProperties
    <3>2. QED
      BY <2>2, <3>1 DEF Last
  <2>5. AnswerIsOneRuns'
    BY <2>1, <2>3, <2>4 DEF AnswerIsOneRuns, Shown, I2C_SUCCESS, I2C_SEGMENT_DOES_NOT_EXIST
  <2>6. Len(runs) = MAX_I2C_RETRIES + 1
    <3>1. PICK r \in Nat, M \in Nat : r = retry /\ M = MAX_I2C_RETRIES
      BY <1>0 DEF RequestTyped
    <3>2. r > M /\ r <= M + 1 /\ Len(runs) = r
      BY <2>1, <3>1 DEF RequestTyped
    <3>3. QED
      BY <3>1, <3>2
  <2>7. DOMAIN runs = 1 .. Len(runs)
    BY <2>2
  <2>8. /\ {k \in DOMAIN runs : runs[k].bytes # << >>} = {}
        /\ i2c.read_len = 0 => {k \in DOMAIN runs : runs[k].kind # "not_run"} = {}
    BY <2>2, <2>7
  <2>9. OutcomeTold'
    BY <2>1, <2>6, <2>8 DEF OutcomeTold, I2C_SUCCESS, I2C_SEGMENT_DOES_NOT_EXIST
  <2>10. QED
    BY <2>1, <2>5, <2>9 DEF NothingYet
<1>10. QED
  BY <1>1, <1>2, <1>3, <1>4, <1>5, <1>6, <1>7, <1>8, <1>9 DEF I2cMove, Handle, RunProgram

(***************************************************************************)
(* The tables are those the platform definition and the mapping file give. *)
(***************************************************************************)

\* The settings given for a segment by the engines up to the n-th, and the last
\* of them.
GivenUpTo(n, s) == {g \in Given(s) : g[1] <= n}

\* One setting comes with a later engine than another, or later in the same.
After(g, h) == g[1] > h[1] \/ (g[1] = h[1] /\ g[2] >= h[2])

\* The last of those up to the n-th engine.
LastGiven(g, n, s) == g \in GivenUpTo(n, s) /\ \A h \in GivenUpTo(n, s) : After(g, h)

\* The setting itself.
MuxOf(g) == platform[g[1]].segments[g[2]].mux

\* What the first n engines leave in the tables for a segment.
BuiltFor(n, s) ==
    \/ GivenUpTo(n, s) = {} /\ apml_segments[s] = ZeroMux
    \/ /\ \E g \in GivenUpTo(n, s) : LastGiven(g, n, s) /\ apml_segments[s] = MuxOf(g)
       /\ segment_to_engine[s] # Unknown

\* The first n lines of the mapping, as far as there is room.
Mapped(n) ==
    /\ Len(i2cSystemEntries) = IF n <= MAX_I2C_TABLE_REMAP THEN n ELSE MAX_I2C_TABLE_REMAP
    /\ \A k \in DOMAIN i2cSystemEntries : i2cSystemEntries[k] = Entry(mapping[k])

\* The tables in every phase.
TablesBuilt ==
    /\ phase = "engines" => i2cSystemEntries = << >> /\ \A s \in Segment : BuiltFor(i, s)
    /\ phase # "engines" => \A s \in Segment : apml_segments[s] = MuxGiven(s)
    /\ phase = "mapping" => Mapped(i) /\ i <= Len(mapping)
    /\ phase \notin {"engines", "mapping"} => Mapped(Len(mapping))

\* A setting is given by an engine in its place and one of its segments.
LEMMA GivenIs ==
    ASSUME NEW s, NEW g
    PROVE  g \in Given(s) <=>
             \E e \in DOMAIN platform : \E k \in DOMAIN platform[e].segments :
                /\ g = <<e, k>> /\ e <= I2C_ENGINE_COUNT /\ platform[e].id = e - 1
                /\ platform[e].segments[k].id = s /\ ~platform[e].segments[k].ignore
<1> DEFINE SegmentsOf(e) == {k \in DOMAIN platform[e].segments :
                             /\ platform[e].segments[k].id = s
                             /\ ~platform[e].segments[k].ignore}
           InPlace == {e \in DOMAIN platform : e <= I2C_ENGINE_COUNT /\ platform[e].id = e - 1}
<1>1. Given(s) = UNION {{e} \X SegmentsOf(e) : e \in InPlace}
  BY DEF Given
<1>2. g \in Given(s) <=> \E e \in InPlace : g \in {e} \X SegmentsOf(e)
  BY <1>1
<1>3. \A e : g \in {e} \X SegmentsOf(e) <=> \E k \in SegmentsOf(e) : g = <<e, k>>
  <2> HIDE DEF SegmentsOf
  <2> QED OBVIOUS
<1>4. QED
  BY <1>2, <1>3

\* The last of them is the only one.
LEMMA LastIsOne ==
    ASSUME NEW n \in Nat, NEW s, NEW g, LastGiven(g, n, s), GivenUpTo(n, s) = Given(s),
           platform \in Seq(EngineRecord)
    PROVE  MuxGiven(s) = MuxOf(g)
<1>1. \A h \in Given(s) : \E e \in Nat, k \in Nat : h = <<e, k>>
  <2>1. ASSUME NEW h \in Given(s) PROVE \E e \in Nat, k \in Nat : h = <<e, k>>
    <3>1. PICK e \in DOMAIN platform : \E k \in DOMAIN platform[e].segments : h = <<e, k>>
      BY GivenIs
    <3>2. platform[e] \in EngineRecord /\ e \in Nat
      OBVIOUS
    <3>3. DOMAIN platform[e].segments \subseteq Nat
      BY <3>2 DEF EngineRecord
    <3>4. QED
      BY <3>1, <3>2, <3>3
  <2>2. QED
    BY <2>1
<1>2. g \in Given(s) /\ \A h \in Given(s) : After(g, h)
  BY DEF LastGiven
<1>3. ASSUME NEW f \in Given(s), \A h \in Given(s) : After(f, h) PROVE f = g
  <2>1. PICK e \in Nat, k \in Nat : f = <<e, k>>
    BY <1>1
  <2>2. PICK e2 \in Nat, k2 \in Nat : g = <<e2, k2>>
    BY <1>1, <1>2
  <2>3. After(f, g) /\ After(g, f)
    BY <1>2, <1>3
  <2>4. e = e2 /\ k = k2
    BY <2>1, <2>2, <2>3 DEF After
  <2>5. QED
    BY <2>1, <2>2, <2>4
<1> DEFINE last == CHOOSE f \in Given(s) : \A h \in Given(s) : After(f, h)
<1>4. last \in Given(s) /\ \A h \in Given(s) : After(last, h)
  BY <1>2
<1> HIDE DEF last
<1>5. last = g
  BY <1>3, <1>4
<1>6. MuxGiven(s) = platform[last[1]].segments[last[2]].mux
  BY <1>2 DEF MuxGiven, last, After
<1>7. QED
  BY <1>5, <1>6 DEF MuxOf

\* The mapping is read as BusGiven() reads it.
LEMMA BusIsGiven ==
    ASSUME TablesTyped, Mapped(Len(mapping)), NEW mux
    PROVE  select_bus(mux) = BusGiven(mux)
<1> DEFINE K == {k \in DOMAIN i2cSystemEntries : i2cSystemEntries[k][1] = mux}
           room == {k \in DOMAIN mapping : /\ k <= MAX_I2C_TABLE_REMAP
                                           /\ Entry(mapping[k])[1] = mux}
<1>1. /\ i2cSystemEntries \in Seq(Muxes \X Nat) /\ mapping \in Seq((Muxes \X Nat) \cup {BadLine})
      /\ MAX_I2C_TABLE_REMAP \in Nat
  BY I2cAssumption DEF TablesTyped
<1>2. /\ DOMAIN i2cSystemEntries = 1 .. Len(i2cSystemEntries) /\ DOMAIN mapping = 1 .. Len(mapping)
      /\ Len(i2cSystemEntries) \in Nat /\ Len(mapping) \in Nat
  BY <1>1
<1>3. \A k : k \in DOMAIN i2cSystemEntries <=> k \in DOMAIN mapping /\ k <= MAX_I2C_TABLE_REMAP
  BY <1>1, <1>2 DEF Mapped
<1>4. \A k \in DOMAIN i2cSystemEntries : i2cSystemEntries[k] = Entry(mapping[k])
  BY DEF Mapped
<1>5. K = room
  BY <1>3, <1>4
<1> DEFINE first == CHOOSE k \in room : \A h \in room : k <= h
<1>6. BusGiven(mux) = IF room = {} THEN None ELSE Entry(mapping[first])[2]
  BY DEF BusGiven
<1>7. /\ K = {} => select_bus(mux) = None
      /\ K # {} => select_bus(mux) = i2cSystemEntries[CHOOSE k \in K : \A h \in K : k <= h][2]
  BY <1>1, SelectBusIs
<1>8. room # {} => first \in K
  <2>1. room \subseteq Nat
    BY <1>2
  <2>2. room # {} => \E k \in room : \A h \in room : k <= h
    BY <2>1, LeastElement
  <2>3. room # {} => first \in room
    BY <2>2
  <2>4. QED
    BY <1>5, <2>3
<1>9. CASE room = {}
  BY <1>5, <1>6, <1>7, <1>9
<1>10. CASE room # {}
  <2>1. select_bus(mux) = i2cSystemEntries[first][2]
    BY <1>5, <1>7, <1>10
  <2>2. i2cSystemEntries[first] = Entry(mapping[first])
    BY <1>4, <1>8, <1>10
  <2>3. QED
    BY <1>6, <1>10, <2>1, <2>2
<1>11. QED
  BY <1>9, <1>10

\* What is given does not change with the tables.
LEMMA SameGiven ==
    ASSUME platform' = platform
    PROVE  /\ \A s : Given(s)' = Given(s)
           /\ \A s : MuxGiven(s)' = MuxGiven(s)
BY DEF Given, MuxGiven

\* Nor the bus, with them.
LEMMA SameBus ==
    ASSUME mapping' = mapping
    PROVE  \A mux : BusGiven(mux)' = BusGiven(mux)
BY DEF BusGiven

\* An engine out of its place gives nothing;
LEMMA EngineOutOfPlace ==
    ASSUME TablesTyped, EngineLeft, platform[i + 1].id # i, NEW s
    PROVE  GivenUpTo(i + 1, s) = GivenUpTo(i, s)
<1>1. i \in Nat /\ platform \in Seq(EngineRecord)
  BY I2cAssumption DEF TablesTyped
<1>2. ASSUME NEW g \in Given(s) PROVE g[1] <= i + 1 <=> g[1] <= i
  <2>1. PICK e \in DOMAIN platform : \E k : g = <<e, k>> /\ platform[e].id = e - 1
    BY GivenIs
  <2>2. e \in Nat /\ g[1] = e
    BY <1>1, <2>1
  <2>3. e # i + 1
    <3>1. (i + 1) - 1 = i
      BY <1>1
    <3>2. QED
      BY <2>1, <3>1
  <2>4. QED
    BY <1>1, <2>2, <2>3
<1>3. QED
  BY <1>2 DEF GivenUpTo

\* one in its place the segments that count.
LEMMA EngineInPlace ==
    ASSUME TablesTyped, EngineLeft, platform[i + 1].id = i, NEW s,
           NEW K, K = {k \in DOMAIN platform[i + 1].segments :
                          /\ platform[i + 1].segments[k].id = s
                          /\ ~platform[i + 1].segments[k].ignore}
    PROVE  GivenUpTo(i + 1, s) = GivenUpTo(i, s) \cup {<<i + 1, k>> : k \in K}
<1>1. /\ i \in Nat /\ platform \in Seq(EngineRecord) /\ i + 1 \in DOMAIN platform
      /\ i + 1 <= I2C_ENGINE_COUNT
  <2>1. i \in 0 .. I2C_ENGINE_COUNT - 1 /\ i + 1 \in DOMAIN platform /\ I2C_ENGINE_COUNT \in Nat
    BY EngineTyped, I2cAssumption
  <2>2. QED
    BY <2>1, I2cAssumption DEF TablesTyped
<1>2. ASSUME NEW g \in GivenUpTo(i + 1, s)
      PROVE  g \in GivenUpTo(i, s) \/ \E k \in K : g = <<i + 1, k>>
  <2>1. g \in Given(s) /\ g[1] <= i + 1
    BY DEF GivenUpTo
  <2>2. PICK e \in DOMAIN platform : \E k \in DOMAIN platform[e].segments :
          g = <<e, k>> /\ platform[e].segments[k].id = s /\ ~platform[e].segments[k].ignore
    BY <2>1, GivenIs
  <2>3. e \in Nat /\ g[1] = e
    BY <1>1, <2>2
  <2>4. CASE e = i + 1
    BY <2>2, <2>4
  <2>5. CASE e # i + 1
    <3>1. g[1] <= i
      BY <1>1, <2>1, <2>3, <2>5
    <3>2. QED
      BY <2>1, <3>1 DEF GivenUpTo
  <2>6. QED
    BY <2>4, <2>5
<1>3. ASSUME NEW g \in GivenUpTo(i, s) PROVE g \in GivenUpTo(i + 1, s)
  <2>1. g \in Given(s) /\ g[1] <= i
    BY DEF GivenUpTo
  <2>2. PICK e \in DOMAIN platform : \E k : g = <<e, k>>
    BY <2>1, GivenIs
  <2>3. e \in Nat /\ g[1] = e
    BY <1>1, <2>2
  <2>4. g[1] <= i + 1
    BY <1>1, <2>1, <2>3
  <2>5. QED
    BY <2>1, <2>4 DEF GivenUpTo
<1>4. ASSUME NEW k \in K PROVE <<i + 1, k>> \in GivenUpTo(i + 1, s)
  <2>1. platform[i + 1].id = (i + 1) - 1
    BY <1>1
  <2>2. <<i + 1, k>> \in Given(s)
    BY <1>1, <2>1, GivenIs
  <2>3. QED
    BY <1>1, <2>2 DEF GivenUpTo
<1>5. QED
  BY <1>2, <1>3, <1>4

\* After all engines that there are, or there is room for, all is given.
LEMMA AllGiven ==
    ASSUME TablesTyped, ~EngineLeft, NEW s
    PROVE  GivenUpTo(i, s) = Given(s)
<1>1. /\ i \in Nat /\ platform \in Seq(EngineRecord) /\ I2C_ENGINE_COUNT \in Nat
      /\ i >= Len(platform) \/ i >= I2C_ENGINE_COUNT
  BY I2cAssumption DEF TablesTyped, EngineLeft
<1>2. ASSUME NEW g \in Given(s) PROVE g[1] <= i
  <2>1. PICK e \in DOMAIN platform : \E k : g = <<e, k>> /\ e <= I2C_ENGINE_COUNT
    BY GivenIs
  <2>2. e \in 1 .. Len(platform) /\ g[1] = e /\ Len(platform) \in Nat
    BY <1>1, <2>1
  <2>3. QED
    BY <1>1, <2>1, <2>2
<1>3. QED
  BY <1>2 DEF GivenUpTo

\* An engine adds what it gives, over what was there.
LEMMA BuiltEngine ==
    ASSUME TablesTyped, phase = "engines", \A s \in Segment : BuiltFor(i, s), AddEngine,
           NEW s \in Segment
    PROVE  BuiltFor(i, s)'
<1> DEFINE segments == platform[i + 1].segments
           K == {k \in DOMAIN segments : segments[k].id = s /\ ~segments[k].ignore}
           l == LastOf(segments, s)
<1>1. /\ EngineLeft /\ platform[i + 1].id = i /\ i' = i + 1 /\ UNCHANGED <<platform, mapping>>
      /\ segment_to_engine'[s] = IF s = i \/ l # 0 THEN i ELSE segment_to_engine[s]
      /\ apml_segments'[s] = IF l = 0 THEN apml_segments[s] ELSE segments[l].mux
  BY DEF AddEngine
<1>2. platform[i + 1] \in EngineRecord /\ i # Unknown /\ i \in Nat
  BY <1>1, EngineTyped DEF TablesTyped
<1>3. segments \in Seq([id : Segment, ignore : BOOLEAN, mux : Muxes])
  BY <1>2 DEF EngineRecord
<1>4. GivenUpTo(i + 1, s) = GivenUpTo(i, s) \cup {<<i + 1, k>> : k \in K}
  BY <1>1, EngineInPlace
<1> HIDE DEF segments
<1>5. /\ l \in Nat /\ (l = 0 <=> K = {})
      /\ l # 0 => l \in K /\ \A k \in K : k <= l
  BY <1>3, LastOfIs
<1>6. K \subseteq Nat
  <2>1. DOMAIN segments = 1 .. Len(segments)
    BY <1>3
  <2>2. QED
    BY <2>1
<1> HIDE DEF K, l
<1>7. GivenUpTo(i, s)' = GivenUpTo(i + 1, s)
  <2>1. Given(s)' = Given(s)
    BY <1>1, SameGiven
  <2>2. QED
    BY <1>1, <2>1 DEF GivenUpTo
<1>8. CASE l = 0
  <2>1. GivenUpTo(i, s)' = GivenUpTo(i, s)
    BY <1>4, <1>5, <1>7, <1>8
  <2>2. apml_segments'[s] = apml_segments[s]
    BY <1>1, <1>8
  <2>3. CASE GivenUpTo(i, s) = {} /\ apml_segments[s] = ZeroMux
    BY <2>1, <2>2, <2>3 DEF BuiltFor
  <2>4. CASE /\ \E g \in GivenUpTo(i, s) : LastGiven(g, i, s) /\ apml_segments[s] = MuxOf(g)
             /\ segment_to_engine[s] # Unknown
    <3>1. PICK g \in GivenUpTo(i, s) : LastGiven(g, i, s) /\ apml_segments[s] = MuxOf(g)
      BY <2>4
    <3>2. \A h \in GivenUpTo(i, s) : After(g, h)
      BY <3>1 DEF LastGiven
    <3>3. LastGiven(g, i, s)'
      BY <2>1, <3>1, <3>2 DEF LastGiven, After
    <3>4. MuxOf(g)' = MuxOf(g)
      BY <1>1 DEF MuxOf
    <3>5. segment_to_engine'[s] # Unknown
      BY <1>1, <1>2, <2>4
    <3>6. QED
      BY <2>1, <2>2, <3>1, <3>3, <3>4, <3>5 DEF BuiltFor
  <2>5. QED
    BY <2>3, <2>4 DEF BuiltFor
<1>9. CASE l # 0
  <2>0. PICK g : g = <<i + 1, l>>
    OBVIOUS
  <2>1. g \in GivenUpTo(i, s)'
    BY <1>4, <1>5, <1>7, <1>9, <2>0
  <2>2. ASSUME NEW h \in GivenUpTo(i + 1, s) PROVE After(g, h)
    <3>1. CASE h \in GivenUpTo(i, s)
      <4>1. h[1] <= i /\ h \in Given(s)
        BY <3>1 DEF GivenUpTo
      <4>2. PICK e \in DOMAIN platform : \E k : h = <<e, k>>
        BY <4>1, GivenIs
      <4>3. e \in Nat /\ h[1] = e
        <5>1. platform \in Seq(EngineRecord)
          BY I2cAssumption DEF TablesTyped
        <5>2. QED
          BY <4>2, <5>1
      <4>4. g[1] > h[1]
        BY <1>2, <2>0, <4>1, <4>3
      <4>5. QED
        BY <4>4 DEF After
    <3>2. CASE \E k \in K : h = <<i + 1, k>>
      <4>1. PICK k \in K : h = <<i + 1, k>>
        BY <3>2
      <4>2. k <= l /\ k \in Nat
        BY <1>5, <1>6, <1>9
      <4>3. QED
        BY <1>5, <2>0, <4>1, <4>2 DEF After
    <3>3. QED
      BY <1>4, <3>1, <3>2
  <2>3. LastGiven(g, i, s)'
    <3>1. \A h \in GivenUpTo(i, s)' : After(g, h)
      BY <1>7, <2>2
    <3>2. QED
      BY <2>1, <3>1 DEF LastGiven, After
  <2>4. apml_segments'[s] = MuxOf(g)'
    <3>1. MuxOf(g)' = platform[i + 1].segments[l].mux
      BY <1>1, <2>0 DEF MuxOf
    <3>2. QED
      BY <1>1, <1>9, <3>1 DEF segments
  <2>5. segment_to_engine'[s] # Unknown
    BY <1>1, <1>2, <1>9
  <2>6. QED
    BY <2>1, <2>3, <2>4, <2>5 DEF BuiltFor
<1>10. QED
  BY <1>8, <1>9

\* No engine, no setting.
LEMMA NothingGiven ==
    ASSUME platform \in Seq(EngineRecord), NEW s PROVE GivenUpTo(0, s) = {}
<1>1. ASSUME NEW g \in Given(s) PROVE ~(g[1] <= 0)
  <2>1. PICK e \in DOMAIN platform : \E k : g = <<e, k>>
    BY GivenIs
  <2>2. e \in 1 .. Len(platform) /\ g[1] = e
    BY <2>1
  <2>3. QED
    BY <2>2
<1>2. QED
  BY <1>1 DEF GivenUpTo

\* Empty tables are those of no engine.
LEMMA BuiltInit ==
    platform \in Seq(EngineRecord) /\ apml_segments = [s \in Segment |-> ZeroMux] /\ i = 0
        => \A s \in Segment : BuiltFor(i, s)
BY NothingGiven DEF BuiltFor

\* At first the tables are those.
LEMMA TablesBuiltInit == ChifInit => TablesBuilt
<1>1. SUFFICES ASSUME ChifInit PROVE TablesBuilt
  OBVIOUS
<1>2. /\ platform \in Seq(EngineRecord) /\ apml_segments = [s \in Segment |-> ZeroMux] /\ i = 0
      /\ phase = "engines" /\ i2cSystemEntries = << >>
  BY <1>1, I2cAssumption DEF ChifInit, I2cInit
<1>3. \A s \in Segment : BuiltFor(i, s)
  BY <1>2, BuiltInit
<1>4. QED
  BY <1>2, <1>3 DEF TablesBuilt

\* Every step builds the tables further, starts again, or leaves them.
LEMMA TablesBuiltNext ==
    ASSUME TablesTyped, TablesBuilt, I2cMove PROVE TablesBuilt'
<1>1. CASE UNCHANGED i2cVars
  <2>1. UNCHANGED <<phase, i, platform, mapping, segment_to_engine, apml_segments, i2cSystemEntries>>
    BY <1>1 DEF i2cVars, tables
  <2>2. (\A s : MuxGiven(s)' = MuxGiven(s)) /\ (\A s : Given(s)' = Given(s))
    BY <2>1, SameGiven
  <2>3. ASSUME NEW s \in Segment, BuiltFor(i, s) PROVE BuiltFor(i, s)'
    BY <2>1, <2>2, <2>3 DEF BuiltFor, GivenUpTo, LastGiven, After, MuxOf
  <2>4. QED
    BY <2>1, <2>2, <2>3 DEF TablesBuilt, Mapped, Entry
<1>2. CASE Handle \/ Forget \/ \E r \in I2cPackets : Receive(r)
  <2>1. /\ UNCHANGED <<platform, mapping, segment_to_engine, apml_segments, i2cSystemEntries>>
        /\ phase \notin {"engines", "mapping"} /\ phase' \notin {"engines", "mapping"}
    BY <1>2
       DEF Handle, Forget, Receive, RefuseArgument, SelectBus, NoProgram, GiveUp, Answer, Again,
                RunProgram, RunToWrite, RunSilent, RunGarbled, RunWithOutput, tables
  <2>2. \A s : MuxGiven(s)' = MuxGiven(s)
    BY <2>1, SameGiven
  <2>3. QED
    BY <2>1, <2>2 DEF TablesBuilt, Mapped, Entry
<1>3. CASE SkipEngine
  <2>1. /\ EngineLeft /\ platform[i + 1].id # i /\ i' = i + 1 /\ phase = "engines" /\ phase' = phase
        /\ UNCHANGED <<platform, mapping, segment_to_engine, apml_segments, i2cSystemEntries>>
    BY <1>3 DEF SkipEngine, tables
  <2>2. \A s : Given(s)' = Given(s)
    BY <2>1, SameGiven
  <2>3. ASSUME NEW s \in Segment PROVE BuiltFor(i, s)'
    <3>1. GivenUpTo(i, s)' = GivenUpTo(i, s)
      <4>1. GivenUpTo(i + 1, s) = GivenUpTo(i, s)
        BY <2>1, EngineOutOfPlace
      <4>2. QED
        BY <2>1, <2>2, <4>1 DEF GivenUpTo
    <3>2. BuiltFor(i, s)
      BY <2>1 DEF TablesBuilt
    <3>3. QED
      BY <2>1, <3>1, <3>2 DEF BuiltFor, LastGiven, After, MuxOf
  <2>4. QED
    BY <2>1, <2>3 DEF TablesBuilt
<1>4. CASE AddEngine
  <2>1. phase = "engines" /\ phase' = phase /\ i2cSystemEntries' = i2cSystemEntries
    BY <1>4 DEF AddEngine
  <2>2. \A s \in Segment : BuiltFor(i, s)'
    BY <1>4, <2>1, BuiltEngine DEF TablesBuilt
  <2>3. QED
    BY <2>1, <2>2 DEF TablesBuilt
<1>5. CASE ClearEmpty
  <2>1. /\ phase = "engines" /\ phase' = "mapping" /\ i' = 0 /\ ~EngineLeft
        /\ UNCHANGED <<platform, mapping, i2cSystemEntries>>
        /\ \A s \in Segment : apml_segments'[s] = IF segment_to_engine[s] = Unknown THEN ZeroMux
                                                  ELSE apml_segments[s]
    BY <1>5 DEF ClearEmpty
  <2>2. platform \in Seq(EngineRecord) /\ i \in Nat /\ mapping \in Seq((Muxes \X Nat) \cup {BadLine})
    BY I2cAssumption DEF TablesTyped
  <2>3. ASSUME NEW s \in Segment PROVE apml_segments'[s] = MuxGiven(s)'
    <3>1. GivenUpTo(i, s) = Given(s)
      BY <2>1, AllGiven
    <3>2. MuxGiven(s)' = MuxGiven(s)
      BY <2>1, SameGiven
    <3>3. BuiltFor(i, s)
      BY <2>1 DEF TablesBuilt
    <3>4. CASE GivenUpTo(i, s) = {} /\ apml_segments[s] = ZeroMux
      <4>1. MuxGiven(s) = ZeroMux
        BY <3>1, <3>4 DEF MuxGiven
      <4>2. QED
        BY <2>1, <3>2, <3>4, <4>1
    <3>5. CASE /\ \E g \in GivenUpTo(i, s) : LastGiven(g, i, s) /\ apml_segments[s] = MuxOf(g)
               /\ segment_to_engine[s] # Unknown
      <4>1. PICK g : LastGiven(g, i, s) /\ apml_segments[s] = MuxOf(g)
        BY <3>5
      <4>2. MuxGiven(s) = MuxOf(g)
        BY <2>2, <3>1, <4>1, LastIsOne
      <4>3. QED
        BY <2>1, <3>2, <3>5, <4>1, <4>2
    <3>6. QED
      BY <3>3, <3>4, <3>5 DEF BuiltFor
  <2>4. i2cSystemEntries' = << >> /\ Len(<< >>) = 0 /\ DOMAIN << >> = {}
    BY <2>1 DEF TablesBuilt
  <2>5. 0 <= MAX_I2C_TABLE_REMAP /\ 0 <= Len(mapping)
    BY <2>2, I2cAssumption
  <2>6. Mapped(i)' /\ i' <= Len(mapping)'
    BY <2>1, <2>4, <2>5 DEF Mapped
  <2>7. QED
    BY <2>1, <2>3, <2>6 DEF TablesBuilt
<1>6. CASE MapLine
  <2>1. /\ phase = "mapping" /\ phase' = phase /\ i' = i + 1 /\ i < Len(mapping)
        /\ UNCHANGED <<platform, mapping, apml_segments>>
        /\ i2cSystemEntries' = IF Len(i2cSystemEntries) < MAX_I2C_TABLE_REMAP
                               THEN Append(i2cSystemEntries, Entry(mapping[i + 1]))
                               ELSE i2cSystemEntries
    BY <1>6 DEF MapLine
  <2>2. /\ i \in Nat /\ mapping \in Seq((Muxes \X Nat) \cup {BadLine}) /\ MAX_I2C_TABLE_REMAP \in Nat
        /\ i2cSystemEntries \in Seq(Muxes \X Nat) /\ Len(mapping) \in Nat
    BY I2cAssumption DEF TablesTyped
  <2>3. Mapped(i)
    BY <2>1 DEF TablesBuilt
  <2>4. \A s : MuxGiven(s)' = MuxGiven(s)
    BY <2>1, SameGiven
  <2>5. CASE Len(i2cSystemEntries) < MAX_I2C_TABLE_REMAP
    <3>1. Len(i2cSystemEntries) = i /\ i < MAX_I2C_TABLE_REMAP
      BY <2>2, <2>3, <2>5 DEF Mapped
    <3>2. Entry(mapping[i + 1]) \in Muxes \X Nat
      <4>1. i + 1 \in DOMAIN mapping /\ mapping \in Mappings
        BY <2>1, <2>2 DEF TablesTyped
      <4>2. QED
        BY <4>1, EntryTyped
    <3>3. /\ Len(i2cSystemEntries') = i + 1
          /\ i2cSystemEntries' \in Seq(Muxes \X Nat)
          /\ \A k \in 1 .. i : i2cSystemEntries'[k] = i2cSystemEntries[k]
          /\ i2cSystemEntries'[i + 1] = Entry(mapping[i + 1])
      BY <2>1, <2>2, <2>5, <3>1, <3>2, AppendProperties
    <3>4. DOMAIN i2cSystemEntries' = 1 .. i + 1 /\ DOMAIN i2cSystemEntries = 1 .. i
      BY <2>2, <3>1, <3>3
    <3>5. ASSUME NEW k \in 1 .. i + 1 PROVE i2cSystemEntries'[k] = Entry(mapping[k])
      <4>1. CASE k = i + 1
        BY <3>3, <4>1
      <4>2. CASE k \in 1 .. i
        BY <2>3, <3>3, <3>4, <4>2 DEF Mapped
      <4>3. QED
        BY <2>2, <4>1, <4>2
    <3>6. i + 1 <= MAX_I2C_TABLE_REMAP
      BY <2>2, <3>1
    <3>7. Mapped(i)'
      BY <2>1, <3>3, <3>4, <3>5, <3>6 DEF Mapped, Entry
    <3>8. i' <= Len(mapping)'
      BY <2>1, <2>2
    <3>9. QED
      BY <2>1, <2>4, <3>7, <3>8 DEF TablesBuilt
  <2>6. CASE ~(Len(i2cSystemEntries) < MAX_I2C_TABLE_REMAP)
    <3>1. i2cSystemEntries' = i2cSystemEntries
      BY <2>1, <2>6
    <3>2. Len(i2cSystemEntries) = MAX_I2C_TABLE_REMAP /\ i >= MAX_I2C_TABLE_REMAP
      BY <2>2, <2>3, <2>6 DEF Mapped
    <3>3. ~(i + 1 <= MAX_I2C_TABLE_REMAP)
      BY <2>2, <3>2
    <3>4. Mapped(i)'
      BY <2>1, <2>3, <3>1, <3>2, <3>3 DEF Mapped, Entry
    <3>5. i' <= Len(mapping)'
      BY <2>1, <2>2
    <3>6. QED
      BY <2>1, <2>4, <3>4, <3>5 DEF TablesBuilt
  <2>7. QED
    BY <2>5, <2>6
<1>7. CASE MappingRead
  <2>1. /\ phase = "mapping" /\ phase' = "ready" /\ i = Len(mapping)
        /\ UNCHANGED <<platform, mapping, apml_segments, i2cSystemEntries>>
    BY <1>7 DEF MappingRead, tables
  <2>2. \A s : MuxGiven(s)' = MuxGiven(s)
    BY <2>1, SameGiven
  <2>3. Mapped(Len(mapping))'
    BY <2>1 DEF TablesBuilt, Mapped, Entry
  <2>4. QED
    BY <2>1, <2>2, <2>3 DEF TablesBuilt
<1>8. CASE I2cRestart
  <2>1. /\ platform' \in Seq(EngineRecord) /\ apml_segments' = [s \in Segment |-> ZeroMux] /\ i' = 0
        /\ phase' = "engines" /\ i2cSystemEntries' = << >>
    BY <1>8, I2cAssumption DEF I2cRestart
  <2>2. \A s \in Segment : BuiltFor(i, s)'
    <3>1. (platform \in Seq(EngineRecord) /\ apml_segments = [s \in Segment |-> ZeroMux] /\ i = 0
            => \A s \in Segment : BuiltFor(i, s))'
      BY BuiltInit, PTL
    <3>2. EngineRecord' = EngineRecord /\ Segment' = Segment
      BY DEF EngineRecord, Segment
    <3>3. QED
      BY <2>1, <3>1, <3>2
  <2>3. QED
    BY <2>1, <2>2 DEF TablesBuilt
<1>9. QED
  BY <1>1, <1>2, <1>3, <1>4, <1>5, <1>6, <1>7, <1>8 DEF I2cMove, Load

(***************************************************************************)
(* The bus of a request.                                                   *)
(***************************************************************************)

\* The bus is that of a segment.
RoutedFor(s) == s \in Segment => bus = BusGiven(MuxGiven(s))

\* The bus is that of the request's segment.
Routed == \A s : i2c.segment = s => RoutedFor(s)

\* That is the property.
LEMMA RoutedIs == Routed => RoutedAsDefined
BY DEF RoutedAsDefined, RoutedFor, Routed

\* A bus is chosen from whole tables, and kept (smif.cpp:988).
LEMMA RoutedNext ==
    ASSUME TablesTyped, TablesBuilt, RequestTyped, RoutedAsDefined, I2cMove
    PROVE  RoutedAsDefined'
<1>1. CASE phase' \notin {"run", "answer"}
  BY <1>1 DEF RoutedAsDefined
<1>2. CASE phase' \in {"run", "answer"}
  <2>1. \/ SelectBus \/ RefuseArgument
        \/ phase \in {"run", "answer"} /\ UNCHANGED <<platform, mapping, bus, i2c>>
    BY <1>2 DEF I2cMove, Load, Handle, Forget, Receive, RefuseArgument, NoProgram, GiveUp, Answer,
                RunProgram, RunToWrite, RunSilent, RunGarbled, RunWithOutput, Again, SkipEngine,
                AddEngine, ClearEmpty, MapLine, MappingRead, I2cRestart, i2cVars, request, tables
  <2>2. CASE phase \in {"run", "answer"} /\ UNCHANGED <<platform, mapping, bus, i2c>>
    <3>1. (\A s : MuxGiven(s)' = MuxGiven(s)) /\ (\A m : BusGiven(m)' = BusGiven(m))
      BY <2>2, SameGiven, SameBus
    <3>2. PICK s : s = i2c.segment
      OBVIOUS
    <3>3. s \in Segment => bus = BusGiven(MuxGiven(s))
      BY <2>2, <3>2 DEF RoutedAsDefined
    <3>4. PICK m : m = MuxGiven(s)
      OBVIOUS
    <3>5. s \in Segment => bus' = BusGiven(m)'
      BY <2>2, <3>1, <3>3, <3>4
    <3>6. m = MuxGiven(s)'
      BY <3>1, <3>4
    <3>7. s \in Segment => bus' = BusGiven(MuxGiven(s))'
      BY <3>5, <3>6 DEF BusGiven
    <3>8. i2c'.segment = s
      BY <2>2, <3>2
    <3>9. RoutedFor(s)'
      BY <3>7 DEF RoutedFor
    <3>10. Routed'
      BY <3>8, <3>9 DEF Routed
    <3>11. QED
      BY <3>10, RoutedIs, PTL
  <2>3. CASE RefuseArgument
    <3>1. i2c'.segment = I2C_SEGMENT_COUNT
      BY <2>3 DEF RefuseArgument
    <3>2. I2C_SEGMENT_COUNT \notin Segment
      BY I2cAssumption DEF Segment
    <3>3. QED
      BY <3>1, <3>2 DEF RoutedAsDefined
  <2>4. CASE SelectBus
    <3>1. /\ phase = "select" /\ UNCHANGED <<platform, mapping, i2c>>
          /\ \E mux \in MuxesOf(i2c.segment) : bus' = select_bus(mux)
      BY <2>4 DEF SelectBus, tables
    <3>2. PICK s : s = i2c.segment
      OBVIOUS
    <3>3. PICK m : m = MuxGiven(s)
      OBVIOUS
    <3>4. (\A t : MuxGiven(t)' = MuxGiven(t)) /\ (\A t : BusGiven(t)' = BusGiven(t))
      BY <3>1, SameGiven, SameBus
    <3>5. s \in Segment => bus' = BusGiven(m)
      <4>1. SUFFICES ASSUME s \in Segment PROVE bus' = BusGiven(m)
        OBVIOUS
      <4>2. MuxesOf(s) = {apml_segments[s]} /\ apml_segments[s] = m
        BY <3>1, <3>3, <4>1 DEF MuxesOf, TablesBuilt
      <4>3. bus' = select_bus(m)
        BY <3>1, <3>2, <4>2
      <4>4. Mapped(Len(mapping))
        BY <3>1 DEF TablesBuilt
      <4>5. QED
        BY <4>3, <4>4, BusIsGiven
    <3>6. m = MuxGiven(s)' /\ (s \in Segment => bus' = BusGiven(m)')
      BY <3>3, <3>4, <3>5
    <3>7. i2c'.segment = s
      BY <3>1, <3>2
    <3>8. s \in Segment => bus' = BusGiven(MuxGiven(s))'
      BY <3>6 DEF BusGiven
    <3>9. RoutedFor(s)'
      BY <3>8 DEF RoutedFor
    <3>10. Routed'
      BY <3>7, <3>9 DEF Routed
    <3>11. QED
      BY <3>10, RoutedIs, PTL
  <2>5. QED
    BY <2>1, <2>2, <2>3, <2>4
<1>3. QED
  BY <1>1, <1>2

-----------------------------------------------------------------------------
\* The loop's own variables.
LoopTyped ==
    /\ pc \in {"loading", "reading", "handling", "i2c", "looping", "writing", "down"}
    /\ recv \in Packet \cup {None}
    /\ pc = "writing" => resp # None
    /\ pc \in {"handling", "i2c", "looping", "writing"} => recv # None
    /\ evs \in {"file", "aside", "stale", "lost"}
    /\ skewed \in BOOLEAN /\ spoilt \in BOOLEAN

\* The descriptors: each that is gone was asked for, but for one of a set that
\* failed, which there is only when the others were.
DescriptorsAsked ==
    /\ free \in 0 .. FD_LIMIT
    /\ asked \in 0 .. FD_LIMIT /\ most \in 0 .. FD_LIMIT /\ asked <= most
    /\ free > 0 => FD_LIMIT - free <= asked
    /\ free = 0 => asked >= FD_LIMIT - 1
    /\ evs # "file" => most >= FD_LIMIT - 1 \/ spoilt

(***************************************************************************)
(* Answers.                                                                *)
(***************************************************************************)

\* The command of an answer is a number.
LEMMA ReplyTyped == \A command \in Nat : Reply(command) \in Nat
BY SMT DEF Reply

\* An answer is one.
LEMMA AnswerTyped ==
    recv \in Packet =>
        \A command \in Nat : \A code \in Int \cup {None} : Answered(command, code) # None
<1>1. SUFFICES ASSUME recv \in Packet, NEW command \in Nat, NEW code \in Int \cup {None}
               PROVE  Answered(command, code) # None
  OBVIOUS
<1>2. Answered(command, code) \in Response
  BY <1>1, SMT DEF Answered, Response, Packet
<1>3. QED
  BY <1>2, LoopAssumption

\* So is the code of a command that always answers the same.
LEMMA FixedTyped == \A command : Fixed(command) \in {0, 1, 5, None}
BY DEF Fixed

\* What a handler may do: answer, or let the loop go on, or end the process.
Answers == \E command \in Nat : \E code \in Int \cup {None} : Respond(Answered(command, code))

\* It is not looked at what open() or a look-up returned.
Ends == pc' = "down" /\ UNCHANGED <<i2cVars, recv, resp>>

\* The loop of 0x0202.
Loops == pc' = "looping" /\ UNCHANGED <<i2cVars, recv, resp>>

\* A handler has a packet.
LEMMA PlainHandling == ASSUME Plain PROVE pc = "handling"
<1>1. \A s : Handling(s) => pc = "handling"
  BY DEF Handling
<1>2. \A c : Smif(c) => pc = "handling"
  BY DEF Smif, Handling
<1>3. CASE FixedAnswer \/ BadCommand \/ NetworkInfo \/ NicConfig \/ Ipv6Config
  BY <1>1, <1>2, <1>3 DEF FixedAnswer, BadCommand, NetworkInfo, NicConfig, Ipv6Config
<1>4. CASE ReadRegister \/ OtherIoBits \/ ReadEvStatus \/ ReadEv
  BY <1>2, <1>4 DEF ReadRegister, OtherIoBits, ReadEvStatus, ReadEv
<1>5. CASE RewriteFails \/ Rewrite \/ RewriteCut \/ ExitInRewrite \/ DeleteMissing
           \/ EvRefused \/ ClearEVs
  BY <1>2, <1>5
     DEF RewriteFails, Rewrite, RewriteCut, ExitInRewrite, DeleteMissing, EvRefused, ClearEVs
<1>6. CASE QuickEvent \/ PlatformRecords \/ EndlessRecords \/ RomCommand \/ TritonCommand
  BY <1>1, <1>2, <1>6 DEF QuickEvent, PlatformRecords, EndlessRecords, RomCommand, TritonCommand
<1>7. CASE GenCommand \/ GenIgnored \/ UnknownService
  BY <1>1, <1>7 DEF GenCommand, GenIgnored, UnknownService
<1>8. QED
  BY <1>3, <1>4, <1>5, <1>6, <1>7 DEF Plain

\* The handlers of SMIF commands with an answer of their own code.
LEMMA SmifAnswers ==
    ASSUME recv.command \in Nat,
           \/ FixedAnswer \/ NetworkInfo \/ NicConfig \/ Ipv6Config \/ ReadRegister \/ OtherIoBits
           \/ ReadEvStatus \/ ReadEv \/ RewriteFails \/ Rewrite \/ RewriteCut
           \/ ExitInRewrite \/ DeleteMissing
           \/ EvRefused \/ ClearEVs \/ QuickEvent \/ PlatformRecords \/ EndlessRecords
    PROVE  Answers \/ Ends \/ Loops
<1>1. Reply(recv.command) \in Nat
  BY ReplyTyped
<1>2. \A code \in Int \cup {None} : Respond(Answered(Reply(recv.command), code)) => Answers
  BY <1>1 DEF Answers
<1>3. CASE FixedAnswer
  <2>1. Fixed(recv.command) \in Int \cup {None}
    BY FixedTyped
  <2>2. QED
    BY <1>2, <1>3, <2>1 DEF FixedAnswer
<1>4. CASE NetworkInfo \/ NicConfig \/ ReadEvStatus \/ RewriteFails
  <2>1. \E code \in {0, 1} : Respond(Answered(Reply(recv.command), code))
    BY <1>4 DEF NetworkInfo, NicConfig, ReadEvStatus, RewriteFails
  <2>2. QED
    BY <1>2, <2>1
<1>5. CASE Rewrite \/ RewriteCut \/ DeleteMissing \/ PlatformRecords
  <2>1. Respond(Answered(Reply(recv.command), 0))
    BY <1>5 DEF Rewrite, RewriteCut, DeleteMissing, PlatformRecords
  <2>2. QED
    BY <1>2, <2>1
<1>6. CASE Ipv6Config
  <2>1. PICK found \in BOOLEAN : Respond(Answered(Reply(recv.command), IF found THEN 0 ELSE 1))
    BY <1>6 DEF Ipv6Config
  <2>2. (IF found THEN 0 ELSE 1) \in Int
    OBVIOUS
  <2>3. QED
    BY <1>2, <2>1, <2>2
<1>7. CASE ReadRegister
  <2>1. \/ \E code \in {SMIF_BAD_INDEX, SMIF_BAD} : Respond(Answered(Reply(recv.command), code))
        \/ Respond(Answered(Reply(recv.command), 0))
        \/ Ends
    BY <1>7 DEF ReadRegister, Ends
  <2>2. {SMIF_BAD_INDEX, SMIF_BAD} \subseteq Int /\ 0 \in Int
    BY DEF SMIF_BAD_INDEX, SMIF_BAD
  <2>3. QED
    BY <1>2, <2>1, <2>2
<1>8. CASE OtherIoBits
  <2>1. PICK code \in {0, SMIF_BAD_OP} : Respond(Answered(Reply(recv.command), code))
    BY <1>8 DEF OtherIoBits
  <2>2. code \in Int
    BY DEF SMIF_BAD_OP
  <2>3. QED
    BY <1>2, <2>1, <2>2
<1>9. CASE ReadEv
  <2>1. PICK code \in {0, 1, 2} : Respond(Answered(Reply(recv.command), code))
    BY <1>9 DEF ReadEv
  <2>2. QED
    BY <1>2, <2>1
<1>10. CASE EvRefused
  <2>1. PICK code \in EvErrors(recv.first) : Respond(Answered(Reply(recv.command), code))
    BY <1>10 DEF EvRefused
  <2>2. code \in Int
    BY SMT DEF EvErrors
  <2>3. QED
    BY <1>2, <2>1, <2>2
<1>11. CASE ClearEVs \/ QuickEvent
  <2>1. Respond(Answered(Reply(recv.command), 0)) \/ Ends
    BY <1>11 DEF ClearEVs, QuickEvent, Ends
  <2>2. QED
    BY <1>2, <2>1
<1>12. CASE ExitInRewrite \/ EndlessRecords
  BY <1>12 DEF ExitInRewrite, EndlessRecords, Ends, Loops
<1>13. QED
  BY <1>3, <1>4, <1>5, <1>6, <1>7, <1>8, <1>9, <1>10, <1>11, <1>12

\* The others; GenResponse() takes the answer's command from the message.
LEMMA OtherAnswers ==
    ASSUME recv.command \in Nat, recv.first \in Nat,
           BadCommand \/ RomCommand \/ TritonCommand \/ GenCommand \/ GenIgnored
    PROVE  Answers \/ Ignore
<1>1. CASE BadCommand
  <2>1. PICK command \in Nat : Respond(Answered(command, 0))
    <3>1. 65535 \in Nat
      BY SMT
    <3>2. QED
      BY <1>1, <3>1, SMT DEF BadCommand
  <2>2. QED
    BY <2>1 DEF Answers
<1>2. CASE RomCommand
  BY <1>2 DEF RomCommand, Answers
<1>3. CASE TritonCommand
  <2>1. Respond(Answered(Reply(recv.command), None)) \/ Ignore
    BY <1>3 DEF TritonCommand
  <2>2. QED
    BY <2>1, ReplyTyped DEF Answers
<1>4. CASE GenCommand
  BY <1>4, SMT DEF GenCommand, Answers
<1>5. CASE GenIgnored
  BY <1>5, SMT DEF GenIgnored
<1>6. QED
  BY <1>1, <1>2, <1>3, <1>4, <1>5

\* UnknownHandler() answers for another service than it was asked for.
LEMMA UnknownAnswers ==
    ASSUME recv \in Packet, UnknownService
    PROVE  \E answer \in Response : Respond(answer)
<1>1. PICK code \in Int :
          Respond([Answered(Reply(recv.command), code) EXCEPT !.service = SMIF_SERVICE_ID])
  <2>1. -65536 \in Int
    BY SMT
  <2>2. QED
    BY <2>1, SMT DEF UnknownService
<1>2. recv.command \in Nat /\ recv.service \in Int
  BY SMT DEF Packet
<1>3. PICK command \in Nat : command = Reply(recv.command)
  BY <1>2, ReplyTyped
<1>4. [Answered(command, code) EXCEPT !.service = SMIF_SERVICE_ID] \in Response
  BY <1>2, SMT DEF Answered, Response, SMIF_SERVICE_ID
<1>5. QED
  BY <1>1, <1>3, <1>4

\* A handler answers, or the loop goes on, or the process ends, or the handler
\* does not.
LEMMA PlainAnswers ==
    ASSUME LoopTyped, Plain
    PROVE  \/ pc' = "writing" /\ resp' # None /\ recv' = recv /\ recv # None
           \/ pc' = "reading" /\ recv' = None
           \/ pc' \in {"down", "looping"} /\ recv' = recv /\ recv # None
<1>1. recv \in Packet /\ recv # None
  BY PlainHandling DEF LoopTyped
<1>2. recv.command \in Nat /\ recv.first \in Nat
  BY <1>1, SMT DEF Packet
<1>3. CASE Answers
  <2>1. PICK command \in Nat : \E code \in Int \cup {None} : Respond(Answered(command, code))
    BY <1>3 DEF Answers
  <2>2. PICK code \in Int \cup {None} : Respond(Answered(command, code))
    BY <2>1
  <2>3. Answered(command, code) # None
    BY <1>1, AnswerTyped
  <2>4. QED
    BY <1>1, <2>2, <2>3 DEF Respond
<1>4. CASE Ends \/ Loops
  BY <1>1, <1>4 DEF Ends, Loops
<1>5. CASE Ignore
  BY <1>5 DEF Ignore
<1>6. CASE UnknownService
  <2>1. PICK answer \in Response : Respond(answer)
    BY <1>1, <1>6, UnknownAnswers
  <2>2. QED
    BY <1>1, <2>1, LoopAssumption DEF Respond
<1>7. QED
  BY <1>2, <1>3, <1>4, <1>5, <1>6, SmifAnswers, OtherAnswers DEF Plain

(***************************************************************************)
(* Descriptors and EVs.                                                    *)
(***************************************************************************)

\* The handlers that touch neither descriptors nor EVs.
Quiet ==
    \/ FixedAnswer \/ BadCommand \/ NicConfig \/ Ipv6Config \/ ReadRegister \/ OtherIoBits
    \/ ReadEv \/ DeleteMissing \/ EvRefused \/ QuickEvent \/ PlatformRecords \/ EndlessRecords
    \/ RomCommand \/ TritonCommand \/ GenCommand \/ GenIgnored \/ UnknownService

\* Their calls close what they open, or open nothing.
LEMMA QuietKeeps ==
    ASSUME Quiet PROVE UNCHANGED <<free, store, history>>
<1>1. Ignore => Keep
  BY DEF Ignore, Keep
<1>2. Keep => UNCHANGED <<free, store, history>>
  BY DEF Keep
<1>3. CASE FixedAnswer \/ BadCommand \/ NicConfig \/ Ipv6Config
  BY <1>2, <1>3 DEF FixedAnswer, BadCommand, NicConfig, Ipv6Config
<1>4. CASE ReadRegister \/ OtherIoBits \/ ReadEv \/ DeleteMissing
  BY <1>2, <1>4 DEF ReadRegister, OtherIoBits, ReadEv, DeleteMissing
<1>5. CASE EvRefused \/ QuickEvent \/ PlatformRecords \/ EndlessRecords \/ UnknownService
  BY <1>2, <1>5 DEF EvRefused, QuickEvent, PlatformRecords, EndlessRecords, UnknownService
<1>6. CASE RomCommand \/ TritonCommand \/ GenCommand \/ GenIgnored
  BY <1>1, <1>2, <1>6 DEF RomCommand, TritonCommand, GenCommand, GenIgnored
<1>7. QED
  BY <1>3, <1>4, <1>5, <1>6 DEF Quiet

\* How a handler leaves the EVs.
LEMMA PlainEvs ==
    ASSUME LoopTyped, Plain
    PROVE  /\ evs' \in {"file", "aside", "stale", "lost"}
           /\ skewed' \in BOOLEAN /\ spoilt' \in BOOLEAN
<1>1. CASE Quiet
  BY <1>1, QuietKeeps DEF store, history, LoopTyped
<1>2. CASE NetworkInfo \/ ReadEvStatus
  BY <1>2 DEF NetworkInfo, ReadEvStatus, Ask, store, LoopTyped
<1>3. CASE Rewrite \/ RewriteFails \/ RewriteCut \/ ExitInRewrite
  BY <1>3 DEF Rewrite, RewriteFails, RewriteCut, ExitInRewrite, history, LoopTyped
<1>4. CASE ClearEVs
  BY <1>4 DEF ClearEVs, store, LoopTyped
<1>5. QED
  BY <1>1, <1>2, <1>3, <1>4 DEF Plain, Quiet

\* At first the loop has nothing, and all descriptors.
LEMMA LoopInit == ChifInit => LoopTyped /\ DescriptorsAsked
<1>1. ChifInit => LoopTyped
  BY DEF ChifInit, Fresh, LoopTyped
<1>2. ASSUME ChifInit PROVE DescriptorsAsked
  <2>1. FD_LIMIT \in Nat /\ free = FD_LIMIT /\ asked = 0 /\ most = 0 /\ evs = "file"
    BY <1>2, LoopAssumption DEF ChifInit, Fresh
  <2>2. QED
    BY <2>1 DEF DescriptorsAsked
<1>3. QED
  BY <1>1, <1>2

\* Every step leaves the loop a packet to handle and an answer to write.
LEMMA LoopNext ==
    ASSUME LoopTyped, RequestTyped, [ChifNext]_chifVars PROVE LoopTyped'
<1>1. CASE UNCHANGED chifVars
  BY <1>1 DEF chifVars, loopVars, store, history, LoopTyped
<1>2. CASE Loading \/ Loaded \/ WriteAnswer \/ Stop
  BY <1>2 DEF Loading, Loaded, WriteAnswer, Stop, loopVars, store, history, LoopTyped
<1>3. CASE Restarted
  BY <1>3 DEF Restarted, LoopTyped
<1>4. ASSUME NEW p \in Packets, ReadPacket(p) PROVE LoopTyped'
  <2>1. p \in Packet /\ p # None
    BY LoopAssumption
  <2>2. QED
    BY <1>4, <2>1 DEF ReadPacket, store, history, LoopTyped
<1>5. ASSUME NEW r \in I2cPackets, ReadI2c(r) PROVE LoopTyped'
  <2>1. [service |-> SMIF_SERVICE_ID, command |-> I2cCommand, first |-> 0] \in Packet
    BY DEF Packet, SMIF_SERVICE_ID, I2cCommand
  <2>2. QED
    BY <1>5, <2>1, LoopAssumption DEF ReadI2c, store, history, LoopTyped
<1>6. CASE I2cStep
  BY <1>6 DEF I2cStep, store, history, LoopTyped
<1>7. CASE I2cDone
  <2>1. recv \in Packet /\ recv # None
    BY <1>7 DEF I2cDone, LoopTyped
  <2>2. Reply(recv.command) \in Nat
    BY <2>1, ReplyTyped, SMT DEF Packet
  <2>3. ErrorCode \in Int
    BY <1>7
       DEF RequestTyped, Codes, I2C_SUCCESS, I2C_GENERAL_ERROR, I2C_BAD_ARGUMENT, I2C_SEGMENT_DOES_NOT_EXIST
  <2>4. Answered(Reply(recv.command), ErrorCode) # None
    BY <2>1, <2>2, <2>3, AnswerTyped
  <2>5. QED
    BY <1>7, <2>1, <2>4 DEF I2cDone, Keep, store, history, LoopTyped
<1>8. CASE Plain
  BY <1>8, PlainAnswers, PlainEvs DEF LoopTyped
<1>9. QED
  BY <1>1, <1>2, <1>3, <1>4, <1>5, <1>6, <1>7, <1>8 DEF ChifNext, Daemon, Handler, Host, Plain

\* No handler but those takes a descriptor for good.
LEMMA DescriptorsNext ==
    ASSUME LoopTyped, DescriptorsAsked, [ChifNext]_chifVars PROVE DescriptorsAsked'
<1>0. FD_LIMIT \in Nat
  BY LoopAssumption
<1>1. CASE UNCHANGED <<free, store, history>>
  BY <1>1 DEF store, history, DescriptorsAsked
<1>2. CASE Restarted
  BY <1>0, <1>2 DEF Restarted, DescriptorsAsked
<1>3. CASE NetworkInfo \/ ReadEvStatus
  <2>1. /\ \/ free' = free
           \/ free > 0 /\ free' = free - 1
        /\ Ask /\ evs' = evs /\ spoilt' = spoilt /\ (free' = free => free = 0 \/ evs = "aside")
    BY <1>0, <1>3 DEF NetworkInfo, ReadEvStatus, Ask, store, DescriptorsAsked
  <2>2. /\ asked' \in 0 .. FD_LIMIT /\ most' \in 0 .. FD_LIMIT /\ asked' <= most' /\ most <= most'
        /\ asked <= asked' /\ (asked < FD_LIMIT => asked' = asked + 1)
    BY <1>0, <2>1 DEF Ask, DescriptorsAsked
  <2>3. QED
    BY <1>0, <2>1, <2>2 DEF DescriptorsAsked
<1>4. CASE RewriteFails
  BY <1>0, <1>4 DEF RewriteFails, history, DescriptorsAsked
<1>5. CASE Rewrite \/ RewriteCut \/ ExitInRewrite
  BY <1>0, <1>5 DEF Rewrite, RewriteCut, ExitInRewrite, history, DescriptorsAsked
<1>6. CASE ClearEVs
  BY <1>0, <1>6 DEF ClearEVs, store, DescriptorsAsked
<1>7. CASE Quiet
  BY <1>1, <1>7, QuietKeeps
<1>8. CASE \/ I2cStep \/ I2cDone \/ Loading \/ Loaded \/ WriteAnswer \/ Stop \/ Host
           \/ UNCHANGED chifVars
  <2>1. UNCHANGED <<free, store, history>>
    BY <1>8 DEF I2cStep, I2cDone, Loading, Loaded, WriteAnswer, Stop, Host, ReadPacket, ReadI2c,
                Keep, chifVars, loopVars
  <2>2. QED
    BY <1>1, <2>1
<1>9. QED
  BY <1>2, <1>3, <1>4, <1>5, <1>6, <1>7, <1>8 DEF ChifNext, Daemon, Handler, Quiet

(***************************************************************************)
(* The theorems.                                                           *)
(***************************************************************************)

\* The inductive invariant.
ChifInv ==
    /\ TablesTyped /\ RequestTyped
    /\ NothingYet /\ AnswerIsOneRuns /\ OutcomeTold
    /\ TablesBuilt /\ RoutedAsDefined
    /\ LoopTyped /\ DescriptorsAsked

\* It holds after every step.
LEMMA ChifInvNext == ChifInv /\ [ChifNext]_chifVars => ChifInv'
<1>1. SUFFICES ASSUME ChifInv, [ChifNext]_chifVars PROVE ChifInv'
  OBVIOUS
<1>2. I2cMove
  BY <1>1, MovesOfDaemon
<1>3. TablesTyped' /\ RequestTyped'
  BY <1>1, <1>2, TablesNext, RequestNext DEF ChifInv
<1>4. NothingYet' /\ AnswerIsOneRuns' /\ OutcomeTold'
  BY <1>1, <1>2, AnswersNext DEF ChifInv
<1>5. TablesBuilt' /\ RoutedAsDefined'
  BY <1>1, <1>2, TablesBuiltNext, RoutedNext DEF ChifInv
<1>6. LoopTyped' /\ DescriptorsAsked'
  BY <1>1, LoopNext, DescriptorsNext DEF ChifInv
<1>7. QED
  BY <1>3, <1>4, <1>5, <1>6 DEF ChifInv

\* It holds always, whatever the tables, the host and the limits are.
THEOREM ChifInvariant == ChifSpec => []ChifInv
<1>1. ChifInit => ChifInv
  <2>1. ChifInit => RoutedAsDefined
    BY DEF ChifInit, I2cInit, RoutedAsDefined
  <2>2. QED
    BY <2>1, TablesInit, RequestInit, AnswersInit, TablesBuiltInit, LoopInit DEF ChifInv
<1>2. QED
  BY <1>1, ChifInvNext, PTL DEF ChifSpec

\* The types, and that every descriptor that is gone was asked for by one of
\* the two commands that leave one open (smif.cpp:674, ev.cpp:443).
THEOREM ChifTypes == ChifSpec => []ChifTypeOK
<1>1. ChifInv => ChifTypeOK
  BY
     DEF ChifInv, ChifTypeOK, I2cTypeOK, TablesTyped, RequestTyped, LoopTyped, DescriptorsAsked, Phases
<1>2. QED
  BY <1>1, ChifInvariant, PTL

\* A transaction goes to the bus that the platform definition and the mapping
\* file give for its segment, read as a whole (i2c_topology.cpp:42,
\* select_bus()).
THEOREM RoutesCorrect == ChifSpec => []RoutedAsDefined
<1>1. ChifInv => RoutedAsDefined
  BY DEF ChifInv
<1>2. QED
  BY <1>1, ChifInvariant, PTL

\* No byte of an earlier run or request is in an answer, and success means
\* that the last run gave a byte and no error after it (smif.cpp:1029-1044).
THEOREM AnswersCorrect == ChifSpec => []AnswerIsOneRuns
<1>1. ChifInv => AnswerIsOneRuns
  BY DEF ChifInv
<1>2. QED
  BY <1>1, ChifInvariant, PTL

\* A transaction that only writes was carried out once where the answer is
\* success, and never where it is 108; the runs of one that reads but the last
\* gave no byte (smif.cpp:1020-1068).  For every number of retries.
THEOREM OutcomesTold == ChifSpec => []OutcomeTold
<1>1. ChifInv => OutcomeTold
  BY DEF ChifInv
<1>2. QED
  BY <1>1, ChifInvariant, PTL

\* The EVs leave their file only after a process that was asked for the
\* network or the room for EVs until one descriptor or none was left
\* (smif.cpp:674, ev.cpp:443, ev.cpp:278), after the exit() of a set
\* (ev.cpp:298) or on a full file system; for every number of descriptors.
THEOREM EvsKept == ChifSpec => []EvsKeptWhileDescriptorsLast
<1>1. ChifInv => EvsKeptWhileDescriptorsLast
  BY DEF ChifInv, DescriptorsAsked, EvsKeptWhileDescriptorsLast
<1>2. QED
  BY <1>1, ChifInvariant, PTL

(***************************************************************************)
(* How long the daemon is away from its loop's read().  Each step brings   *)
(* it nearer, by a number of steps that depends on what it loads and on    *)
(* the retries, and not on what the program or the tables give:            *)
(* KeepsReading rests on this and on the fairness of ChifSpec.             *)
(***************************************************************************)

LoadingLeft ==
    CASE phase = "engines" -> (Len(platform) - i) + Len(mapping) + 3
      [] phase = "mapping" -> (Len(mapping) - i) + 2
      [] OTHER             -> 1

RequestLeft ==
    CASE phase = "select" -> MAX_I2C_RETRIES + 6
      [] phase = "run"    -> (MAX_I2C_RETRIES + 1 - retry) + 4
      [] phase = "answer" -> 3
      [] OTHER            -> 2

StepsLeft ==
    CASE pc = "loading"  -> LoadingLeft
      [] pc = "handling" -> 2
      [] pc = "i2c"      -> RequestLeft
      [] pc = "writing"  -> 1
      [] pc \in {"reading", "down", "looping"} -> 0

Nearer == StepsLeft' \in 0 .. StepsLeft - 1

\* The loops of the start are not past their ends.
PhaseInv ==
    /\ pc = "loading" => phase \in {"engines", "mapping", "ready"}
    /\ phase = "engines" => i <= Len(platform)
    /\ phase = "mapping" => i <= Len(mapping)
    /\ pc = "i2c" => phase \in {"select", "run", "answer", "ready"}

\* The lists that are loaded have lengths.
LEMMA ListLengths ==
    ASSUME TablesTyped PROVE Len(platform) \in Nat /\ Len(mapping) \in Nat
<1>1. platform \in Seq(EngineRecord) /\ mapping \in Seq((Muxes \X Nat) \cup {BadLine})
  BY I2cAssumption DEF TablesTyped
<1>2. QED
  BY <1>1, LenProperties

\* What a step of the transaction leads to.
LEMMA I2cStepPhases ==
    ASSUME I2cStep
    PROVE  /\ pc = "i2c" /\ phase \in {"select", "run", "answer"}
           /\ \/ phase' = "thrown" /\ pc' = "down"
              \/ /\ pc' = "i2c"
                 /\ \/ phase = "select" /\ phase' = "answer"
                    \/ phase = "select" /\ phase' = "run" /\ retry' = retry
                    \/ phase = "run" /\ phase' = "run" /\ retry' = retry + 1 /\ retry <= MAX_I2C_RETRIES
                    \/ phase = "run" /\ phase' = "answer"
                    \/ phase = "answer" /\ phase' = "ready"
<1>0. pc = "i2c" /\ pc' = IF phase' = "thrown" THEN "down" ELSE pc
  BY DEF I2cStep
<1>1. CASE RefuseArgument \/ SelectBus
  BY <1>0, <1>1 DEF RefuseArgument, SelectBus
<1>2. CASE NoProgram \/ GiveUp \/ Answer
  BY <1>0, <1>2 DEF NoProgram, GiveUp, Answer, Again
<1>3. CASE RunToWrite \/ RunSilent \/ RunGarbled
  BY <1>0, <1>3 DEF RunToWrite, RunSilent, RunGarbled, Again
<1>4. ASSUME NEW bytes, NEW error, RunWithOutput(bytes, error)
      PROVE  /\ phase = "run" /\ retry <= MAX_I2C_RETRIES
             /\ phase' = "answer" \/ (phase' = "run" /\ retry' = retry + 1)
  BY <1>4 DEF RunWithOutput, Again
<1>5. QED
  BY <1>0, <1>1, <1>2, <1>3, <1>4 DEF I2cStep, RunProgram

\* What a step of the start leads to.
LEMMA LoadingPhases ==
    ASSUME Loading, TablesTyped, PhaseInv
    PROVE  /\ pc = "loading" /\ pc' = "loading" /\ UNCHANGED <<platform, mapping>>
           /\ \/ phase = "engines" /\ phase' = "engines" /\ i < Len(platform) /\ i' = i + 1
              \/ phase = "engines" /\ phase' = "mapping" /\ i' = 0
              \/ phase = "mapping" /\ phase' = "mapping" /\ i < Len(mapping) /\ i' = i + 1
              \/ phase = "mapping" /\ phase' = "ready"
<1>1. CASE SkipEngine \/ AddEngine
  BY <1>1 DEF Loading, SkipEngine, AddEngine, EngineLeft, tables, loopVars
<1>2. CASE ClearEmpty \/ MapLine \/ MappingRead
  BY <1>2 DEF Loading, ClearEmpty, MapLine, MappingRead, tables, loopVars
<1>3. QED
  BY <1>1, <1>2 DEF Loading, Load

LEMMA PhaseNext ==
    ASSUME PhaseInv, TablesTyped, LoopTyped, [ChifNext]_chifVars PROVE PhaseInv'
<1>1. Len(platform) \in Nat /\ Len(mapping) \in Nat /\ i \in Nat
  BY ListLengths DEF TablesTyped
<1>2. CASE UNCHANGED chifVars
  BY <1>2 DEF chifVars, i2cVars, tables, loopVars, PhaseInv
<1>3. CASE Loading
  <2>1. PICK l \in Nat, m \in Nat, n \in Nat : l = Len(platform) /\ m = Len(mapping) /\ n = i
    BY <1>1
  <2>2. Len(platform') = l /\ Len(mapping') = m
    BY <1>3, <2>1, LoadingPhases
  <2>3. n < l => n + 1 <= l
    OBVIOUS
  <2>4. n < m => n + 1 <= m
    OBVIOUS
  <2>5. 0 <= m
    OBVIOUS
  <2>6. pc' = "loading" /\ \/ phase' = "engines" /\ i' <= l
                           \/ phase' = "mapping" /\ i' <= m
                           \/ phase' = "ready"
    BY <1>3, <2>1, <2>3, <2>4, <2>5, LoadingPhases
  <2>7. QED
    BY <2>2, <2>6 DEF PhaseInv
<1>4. CASE Loaded \/ WriteAnswer \/ Stop
  BY <1>4 DEF Loaded, WriteAnswer, Stop, i2cVars, tables, PhaseInv
<1>5. CASE Restarted
  <2>1. phase' = "engines" /\ i' = 0 /\ pc' = "loading" /\ platform' \in Platforms
    BY <1>5 DEF Restarted, I2cRestart
  <2>2. platform' \in Seq(EngineRecord)
    BY <2>1, I2cAssumption
  <2>3. Len(platform') \in Nat
    BY <2>2, LenProperties
  <2>4. 0 <= Len(platform')
    BY <2>3
  <2>5. QED
    BY <2>1, <2>4 DEF PhaseInv
<1>6. ASSUME NEW q \in Packets, ReadPacket(q) PROVE PhaseInv'
  BY <1>6 DEF ReadPacket, i2cVars, tables, PhaseInv
<1>7. ASSUME NEW r \in I2cPackets, ReadI2c(r) PROVE PhaseInv'
  BY <1>7 DEF ReadI2c, Receive, PhaseInv
<1>8. CASE I2cStep
  <2>1. \/ phase' = "thrown" /\ pc' = "down"
        \/ pc' = "i2c" /\ phase' \in {"run", "answer", "ready"}
    BY <1>8, I2cStepPhases
  <2>2. QED
    BY <2>1 DEF PhaseInv
<1>9. CASE I2cDone
  BY <1>9 DEF I2cDone, Forget, tables, PhaseInv
<1>10. CASE Plain
  <2>1. pc' \in {"writing", "reading", "down", "looping"}
    BY <1>10, PlainAnswers
  <2>2. UNCHANGED <<phase, i, platform, mapping>>
    BY <1>10, PlainLeaves DEF i2cVars, tables
  <2>3. QED
    BY <2>1, <2>2 DEF PhaseInv
<1>11. QED
  BY <1>2, <1>3, <1>4, <1>5, <1>6, <1>7, <1>8, <1>9, <1>10 DEF ChifNext, Daemon, Handler, Host, Plain

LEMMA DaemonNearer ==
    ASSUME PhaseInv, TablesTyped, RequestTyped, LoopTyped, Daemon PROVE Nearer
<1>0. PICK l \in Nat, m \in Nat, n \in Nat, M \in Nat :
          l = Len(platform) /\ m = Len(mapping) /\ n = i /\ M = MAX_I2C_RETRIES
  BY ListLengths, I2cAssumption DEF TablesTyped
<1>1. PICK r \in 0 .. M + 1 :
          /\ l = Len(platform) /\ m = Len(mapping) /\ n = i /\ M = MAX_I2C_RETRIES
          /\ r = retry
  BY <1>0 DEF RequestTyped
<1>2. CASE Loading
  <2>1. Len(platform') = l /\ Len(mapping') = m /\ pc = "loading" /\ pc' = "loading"
    BY <1>1, <1>2, LoadingPhases
  <2>2. StepsLeft = LoadingLeft /\ StepsLeft' = LoadingLeft'
    BY <2>1 DEF StepsLeft
  <2>3. \/ phase = "engines" /\ phase' = "engines" /\ n < l /\ i' = n + 1
        \/ phase = "engines" /\ phase' = "mapping" /\ n <= l /\ i' = 0
        \/ phase = "mapping" /\ phase' = "mapping" /\ n < m /\ i' = n + 1
        \/ phase = "mapping" /\ phase' = "ready" /\ n <= m
    BY <1>1, <1>2, LoadingPhases DEF PhaseInv
  <2>4. \/ LoadingLeft = (l - n) + m + 3 /\ LoadingLeft' = (l - (n + 1)) + m + 3 /\ n < l
        \/ LoadingLeft = (l - n) + m + 3 /\ LoadingLeft' = (m - 0) + 2 /\ n <= l
        \/ LoadingLeft = (m - n) + 2 /\ LoadingLeft' = (m - (n + 1)) + 2 /\ n < m
        \/ LoadingLeft = (m - n) + 2 /\ LoadingLeft' = 1 /\ n <= m
    BY <1>1, <2>1, <2>3 DEF LoadingLeft
  <2>5. LoadingLeft' \in 0 .. LoadingLeft - 1
    BY <2>4
  <2>6. QED
    BY <2>2, <2>5 DEF Nearer
<1>3. CASE Loaded
  <2>1. StepsLeft = 1 /\ StepsLeft' = 0
    BY <1>3 DEF Loaded, StepsLeft, LoadingLeft
  <2>2. QED
    BY <2>1 DEF Nearer
<1>4. CASE WriteAnswer
  <2>1. StepsLeft = 1 /\ StepsLeft' = 0
    BY <1>4 DEF WriteAnswer, StepsLeft
  <2>2. QED
    BY <2>1 DEF Nearer
<1>5. CASE Plain
  <2>1. StepsLeft = 2 /\ StepsLeft' \in {0, 1}
    BY <1>5, PlainAnswers, PlainHandling DEF StepsLeft
  <2>2. QED
    BY <2>1 DEF Nearer
<1>6. CASE I2cDone
  <2>1. StepsLeft = 2 /\ StepsLeft' = 1
    BY <1>6 DEF I2cDone, StepsLeft, RequestLeft
  <2>2. QED
    BY <2>1 DEF Nearer
<1>7. CASE I2cStep
  <2>1. StepsLeft = RequestLeft
    BY <1>7, I2cStepPhases DEF StepsLeft
  <2>2. CASE pc' = "down"
    <3>1. StepsLeft' = 0
      BY <2>2 DEF StepsLeft
    <3>2. RequestLeft \in {3, M + 6, (M + 1 - r) + 4}
      BY <1>1, <1>7, I2cStepPhases DEF RequestLeft
    <3>3. QED
      BY <2>1, <3>1, <3>2 DEF Nearer
  <2>3. CASE pc' = "i2c"
    <3>1. StepsLeft' = RequestLeft'
      BY <2>3 DEF StepsLeft
    <3>2. \/ phase = "select" /\ phase' = "answer"
          \/ phase = "select" /\ phase' = "run" /\ retry' = r
          \/ phase = "run" /\ phase' = "run" /\ retry' = r + 1 /\ r <= M
          \/ phase = "run" /\ phase' = "answer"
          \/ phase = "answer" /\ phase' = "ready"
      BY <1>1, <1>7, <2>3, I2cStepPhases
    <3>3. \/ RequestLeft = M + 6 /\ RequestLeft' = 3
          \/ RequestLeft = M + 6 /\ RequestLeft' = (M + 1 - r) + 4
          \/ RequestLeft = (M + 1 - r) + 4 /\ RequestLeft' = (M + 1 - (r + 1)) + 4 /\ r <= M
          \/ RequestLeft = (M + 1 - r) + 4 /\ RequestLeft' = 3
          \/ RequestLeft = 3 /\ RequestLeft' = 2
      BY <1>1, <3>2 DEF RequestLeft
    <3>4. RequestLeft' \in 0 .. RequestLeft - 1
      BY <3>3
    <3>5. QED
      BY <2>1, <3>1, <3>4 DEF Nearer
  <2>4. QED
    BY <1>7, <2>2, <2>3, I2cStepPhases
<1>8. QED
  BY <1>2, <1>3, <1>4, <1>5, <1>6, <1>7 DEF Daemon, Handler, Plain

\* No command keeps the daemon but the endless 0x0202, and no start: it reads
\* the next packet, the process has ended, or it is in that loop
\* (platdef_api.cpp:573), after so many steps, however often the program gives
\* nothing and whatever the definition and the mapping file hold.
THEOREM DaemonBounded == ChifSpec => [][Daemon => Nearer]_chifVars
<1>1. ChifInit => PhaseInv
  <2>1. SUFFICES ASSUME ChifInit PROVE PhaseInv
    OBVIOUS
  <2>2. Len(platform) \in Nat
    BY <2>1, ListLengths, TablesInit
  <2>3. 0 <= Len(platform)
    BY <2>2
  <2>4. QED
    BY <2>1, <2>3 DEF ChifInit, I2cInit, Fresh, PhaseInv
<1>2. ChifInv => TablesTyped /\ RequestTyped /\ LoopTyped
  BY DEF ChifInv
<1>3. ChifSpec => []PhaseInv
  BY <1>1, <1>2, PhaseNext, ChifInvariant, PTL DEF ChifSpec
<1>4. ASSUME PhaseInv, ChifInv, Daemon PROVE Nearer
  BY <1>2, <1>4, DaemonNearer
<1>5. PhaseInv /\ ChifInv /\ [ChifNext]_chifVars => [Daemon => Nearer]_chifVars
  BY <1>4
<1>6. QED
  BY <1>3, <1>5, ChifInvariant, PTL DEF ChifSpec

=============================================================================
