--------------------------- MODULE I2cTransaction ---------------------------
(***************************************************************************)
(* Command 0x0072: the host has the BMC do an I2C transaction for it.      *)
(* SmifPkt_0072() and select_bus() of src/src/smif.cpp, on the tables that *)
(* update_i2c_topology() (src/src/i2c_topology.cpp) and load_i2c_mapping() *)
(* (src/src/i2c_mapping.cpp) make when the daemon starts.                  *)
(*                                                                         *)
(* The host names a segment.  The platform definition says how the         *)
(* multiplexer is set for it, the mapping file which bus of the kernel     *)
(* that is.  The transaction itself is done by the program i2ctransfer,    *)
(* run with popen(), whose output is read one line at a time; a run that   *)
(* gave nothing is repeated.                                               *)
(***************************************************************************)
EXTENDS Integers, Sequences, SequencesExt, FiniteSets

CONSTANTS
    Platforms,      \* the lists of engine records of a platform definition
    Mappings,       \* the lists of lines of a mapping file
    BadLine,        \* a line that sscanf() can make nothing of
    I2C_ENGINE_COUNT,   \* 10: engines the daemon has room for
    I2C_SEGMENT_COUNT,  \* 255: segments it has room for
    MAX_I2C_TABLE_REMAP,\* 256: entries of the mapping it has room for
    MAX_I2C_RETRIES,    \* 1: runs after the first
    Muxes,          \* what a segment may say of its multiplexer
    ZeroMux,        \* the one that is all zero
    Addresses,      \* device addresses
    BadAddress,     \* 0xffff
    LINE_BYTES,     \* 51: the bytes of a line that one fgets() reads
    ReadLens,       \* how many bytes the host reads
    Bytes,          \* bytes a device gives, other than zero
    None

Segment == 0 .. I2C_SEGMENT_COUNT - 1

\* What the code reads of an engine record of the platform definition.
EngineRecord == [id : Nat, segments : Seq([id : Segment, ignore : BOOLEAN, mux : Muxes])]

Request == [address : Addresses \cup {BadAddress},
            segment : 0 .. I2C_SEGMENT_COUNT, read_len : ReadLens]

ASSUME I2cAssumption ==
    /\ I2C_ENGINE_COUNT \in 0 .. 255 /\ I2C_SEGMENT_COUNT \in Nat
    /\ MAX_I2C_TABLE_REMAP \in Nat /\ MAX_I2C_RETRIES \in Nat
    /\ ReadLens \subseteq Nat /\ LINE_BYTES \in Nat
    /\ ZeroMux \in Muxes /\ BadLine \notin Muxes \X Nat
    /\ 0 \notin Bytes /\ None \notin Nat \cup Request
    /\ \A p \in Platforms : p \in Seq(EngineRecord)
    /\ \A m \in Mappings : m \in Seq((Muxes \X Nat) \cup {BadLine})

VARIABLES
    platform,       \* the engine records
    mapping,        \* the lines of the file
    phase,          \* where the daemon is in the code of this module
    i,              \* the next engine, or the next line of the file
    segment_to_engine,
    apml_segments,
    i2cSystemEntries,
    i2c,            \* the request
    bus,            \* what select_bus() returned
    retry,          \* retry
    ErrorCode,      \* respMsg->ErrorCode
    data,           \* respMsg->data
    runs            \* history: what each run of the program gave

tables  == <<platform, mapping, segment_to_engine, apml_segments, i2cSystemEntries>>
request == <<i2c, bus, retry, ErrorCode, data, runs>>
i2cVars == <<tables, phase, i, request>>

-----------------------------------------------------------------------------
(* Start: the topology and the mapping.                                    *)

Unknown == 255      \* the value of segment_to_engine where there is none

\* The return codes (include/i2c_return_codes.hpp).
I2C_SUCCESS                == 100
I2C_GENERAL_ERROR          == 101
I2C_BAD_ARGUMENT           == 104
I2C_SEGMENT_DOES_NOT_EXIST == 108

Unasked ==
    /\ i2c = None /\ bus = None /\ retry = 0 /\ ErrorCode = 0
    /\ data = << >> /\ runs = << >>

\* The process begins: its memory is zero but for memset()'s 0xFF.
I2cInit ==
    /\ platform \in Platforms /\ mapping \in Mappings
    /\ phase = "engines" /\ i = 0
    /\ segment_to_engine = [s \in Segment |-> Unknown]
    /\ apml_segments = [s \in Segment |-> ZeroMux]
    /\ i2cSystemEntries = << >>
    /\ Unasked

\* The same for a process that takes the place of another.
I2cRestart ==
    /\ platform' \in Platforms /\ mapping' \in Mappings
    /\ phase' = "engines" /\ i' = 0
    /\ segment_to_engine' = [s \in Segment |-> Unknown]
    /\ apml_segments' = [s \in Segment |-> ZeroMux]
    /\ i2cSystemEntries' = << >>
    /\ i2c' = None /\ bus' = None /\ retry' = 0 /\ ErrorCode' = 0
    /\ data' = << >> /\ runs' = << >>

EngineLeft == i < Len(platform) /\ i < I2C_ENGINE_COUNT

\* One turn of the loop.  A record out of its place is passed over.
SkipEngine ==
    /\ phase = "engines" /\ EngineLeft
    /\ platform[i + 1].id # i
    /\ i' = i + 1
    /\ UNCHANGED <<tables, phase, request>>

\* Wrong: the flag is not looked at.
LastOfAll(segments, s) ==
    SelectLastInSeq(segments, LAMBDA seg : seg.id = s)

\* The last of the segments of an engine with a number, or none.
LastOf(segments, s) ==
    SelectLastInSeq(segments, LAMBDA seg : seg.id = s /\ ~seg.ignore)

AddEngine ==
    /\ phase = "engines" /\ EngineLeft
    /\ platform[i + 1].id = i
    /\ LET segments == platform[i + 1].segments
       IN  /\ segment_to_engine' =
                 [s \in Segment |-> IF s = i \/ LastOf(segments, s) # 0 THEN i
                                    ELSE segment_to_engine[s]]
           /\ apml_segments' =
                 [s \in Segment |-> IF LastOf(segments, s) = 0 THEN apml_segments[s]
                                    ELSE segments[LastOf(segments, s)].mux]
    /\ i' = i + 1
    /\ UNCHANGED <<platform, mapping, i2cSystemEntries, phase, request>>

\* No record is left, or no room: the empty entries are cleared.
ClearEmpty ==
    /\ phase = "engines" /\ ~EngineLeft
    /\ apml_segments' = [s \in Segment |-> IF segment_to_engine[s] = Unknown THEN ZeroMux
                                           ELSE apml_segments[s]]
    /\ phase' = "mapping" /\ i' = 0
    /\ UNCHANGED <<platform, mapping, segment_to_engine, i2cSystemEntries, request>>

\* What a line leaves in its entry: a bad one the zeros that were there.
Entry(line) == IF line = BadLine THEN <<ZeroMux, 0>> ELSE line

MapLine ==
    /\ phase = "mapping" /\ i < Len(mapping)
    /\ i2cSystemEntries' = IF Len(i2cSystemEntries) < MAX_I2C_TABLE_REMAP
                           THEN Append(i2cSystemEntries, Entry(mapping[i + 1]))
                           ELSE i2cSystemEntries
    /\ i' = i + 1
    /\ UNCHANGED <<platform, mapping, segment_to_engine, apml_segments, phase, request>>

MappingRead ==
    /\ phase = "mapping" /\ i = Len(mapping)
    /\ phase' = "ready" /\ i' = 0
    /\ UNCHANGED <<tables, request>>

-----------------------------------------------------------------------------
(* A request.                                                              *)

\* The packet is zero when the handler begins (ChifHandler()).
Receive(r) ==
    /\ phase = "ready"
    /\ i2c' = r /\ bus' = None /\ retry' = 0 /\ ErrorCode' = 0
    /\ data' = [k \in 1 .. r.read_len |-> 0]
    /\ runs' = << >>
    /\ phase' = "select"
    /\ UNCHANGED <<tables, i>>

\* Both 0xffff and 0xff.
RefuseArgument ==
    /\ phase = "select"
    /\ i2c.address = BadAddress /\ i2c.segment = I2C_SEGMENT_COUNT
    /\ ErrorCode' = I2C_BAD_ARGUMENT
    /\ phase' = "answer"
    /\ UNCHANGED <<tables, i, i2c, bus, retry, data, runs>>

\* The first entry for a setting of the multiplexer, or none.
select_bus(mux) ==
    LET k == SelectInSeq(i2cSystemEntries, LAMBDA e : e[1] = mux)
    IN  IF k = 0 THEN None ELSE i2cSystemEntries[k][2]

\* Segment 0xff is one more than the array has: what lies behind it decides.
MuxesOf(segment) == IF segment \in Segment THEN {apml_segments[segment]} ELSE Muxes

SelectBus ==
    /\ phase = "select"
    /\ ~(i2c.address = BadAddress /\ i2c.segment = I2C_SEGMENT_COUNT)
    /\ \E mux \in MuxesOf(i2c.segment) : bus' = select_bus(mux)
    /\ IF bus' = None
       THEN ErrorCode' = I2C_SEGMENT_DOES_NOT_EXIST /\ phase' = "answer"
       ELSE ErrorCode' = ErrorCode /\ phase' = "run"
    /\ UNCHANGED <<tables, i, i2c, retry, data, runs>>

\* Another turn of the loop: retry++ <= MAX_I2C_RETRIES.
Again == phase = "run" /\ retry <= MAX_I2C_RETRIES

Run(gave) == runs' = Append(runs, gave)

\* popen() fails.
NoProgram ==
    /\ Again
    /\ Run([kind |-> "not_run", bytes |-> << >>])
    /\ retry' = retry + 1
    /\ UNCHANGED <<tables, phase, i, i2c, bus, ErrorCode, data>>

\* Wrong: the retries go on, although nothing is waited for.
RunToWriteAgain ==
    /\ Again /\ i2c.read_len = 0
    /\ Run([kind |-> "run", bytes |-> << >>])
    /\ retry' = retry + 1 /\ ErrorCode' = I2C_SUCCESS
    /\ UNCHANGED <<tables, phase, i, i2c, bus, data>>

\* Nothing is to be read: whatever the program did is success.
RunToWrite ==
    /\ Again /\ i2c.read_len = 0
    /\ Run([kind |-> "run", bytes |-> << >>])
    /\ retry' = 0 /\ ErrorCode' = I2C_SUCCESS
    /\ phase' = "answer"
    /\ UNCHANGED <<tables, i, i2c, bus, data>>

\* The program prints nothing on its output, or a line without a word in it.
RunSilent ==
    /\ Again /\ i2c.read_len > 0
    /\ Run([kind |-> "run", bytes |-> << >>])
    /\ retry' = retry + 1
    /\ UNCHANGED <<tables, phase, i, i2c, bus, ErrorCode, data>>

\* How many of the bytes are in what fgets() reads.
InLine(n) == IF n > LINE_BYTES THEN LINE_BYTES ELSE n

\* The bytes of a run, over what is there.
Over(bytes) == [k \in DOMAIN data |-> IF k <= Len(bytes) THEN bytes[k] ELSE data[k]]

\* Wrong: after an error it is tried again, though bytes came before it.
RunAgainAfterError(bytes, error) ==
    /\ Again /\ i2c.read_len > 0
    /\ bytes # << >> \/ error
    /\ Len(bytes) <= InLine(i2c.read_len)
    /\ Run([kind |-> IF error THEN "error" ELSE "run", bytes |-> bytes])
    /\ data' = Over(bytes)
    /\ ErrorCode' = IF error THEN I2C_GENERAL_ERROR ELSE I2C_SUCCESS
    /\ IF ~error THEN retry' = 0 /\ phase' = "answer"
                 ELSE retry' = retry + 1 /\ phase' = phase
    /\ UNCHANGED <<tables, i, i2c, bus>>

\* It prints bytes, no more than it was asked for, and "Error:" behind them or
\* not.  How many they are is not looked at: a single one ends the retries.
RunWithOutput(bytes, error) ==
    /\ Again /\ i2c.read_len > 0
    /\ bytes # << >> \/ error
    /\ Len(bytes) <= InLine(i2c.read_len)
    /\ Run([kind |-> IF error THEN "error" ELSE "run", bytes |-> bytes])
    /\ data' = Over(bytes)
    /\ ErrorCode' = IF error THEN I2C_GENERAL_ERROR ELSE I2C_SUCCESS
    /\ IF bytes # << >> THEN retry' = 0 /\ phase' = "answer"
                        ELSE retry' = retry + 1 /\ phase' = phase
    /\ UNCHANGED <<tables, i, i2c, bus>>

\* It prints what std::stoi() cannot read: no handler catches what is thrown.
RunGarbled ==
    /\ Again /\ i2c.read_len > 0
    /\ phase' = "thrown"
    /\ UNCHANGED <<tables, i, request>>

\* All retries failed.
GiveUp ==
    /\ phase = "run" /\ retry > MAX_I2C_RETRIES
    /\ ErrorCode' = I2C_SEGMENT_DOES_NOT_EXIST
    /\ phase' = "answer"
    /\ UNCHANGED <<tables, i, i2c, bus, retry, data, runs>>

\* The handler returns.
Answer ==
    /\ phase = "answer"
    /\ ErrorCode' = IF ErrorCode = I2C_SUCCESS THEN 0 ELSE ErrorCode
    /\ phase' = "ready"
    /\ UNCHANGED <<tables, i, i2c, bus, retry, data, runs>>

\* Its variables are gone.
Forget ==
    /\ phase = "ready" /\ i2c' = None /\ bus' = None /\ retry' = 0 /\ ErrorCode' = 0
    /\ data' = << >> /\ runs' = << >>
    /\ UNCHANGED <<tables, phase, i>>

Load == SkipEngine \/ AddEngine \/ ClearEmpty \/ MapLine \/ MappingRead

Outputs == UNION {[1 .. n -> Bytes] : n \in 0 .. LINE_BYTES}

\* A run of the program, which takes free descriptors.
RunProgram ==
    \/ RunToWrite \/ RunSilent \/ RunGarbled
    \/ \E bytes \in Outputs, error \in BOOLEAN : RunWithOutput(bytes, error)

\* A handler that has begun goes on.
Handle ==
    \/ RefuseArgument \/ SelectBus \/ NoProgram \/ GiveUp \/ Answer
    \/ RunProgram

-----------------------------------------------------------------------------
(* Properties.                                                             *)

Codes == {0, I2C_SUCCESS, I2C_GENERAL_ERROR, I2C_BAD_ARGUMENT, I2C_SEGMENT_DOES_NOT_EXIST}

\* The tables and the request have their types; no more is run than the
\* retries allow, and the answer is as long as the host asked.
I2cTypeOK ==
    /\ platform \in Platforms /\ mapping \in Mappings
    /\ phase \in {"engines", "mapping", "ready", "select", "run", "answer", "thrown"}
    /\ i \in Nat
    /\ segment_to_engine \in [Segment -> (0 .. I2C_ENGINE_COUNT - 1) \cup {Unknown}]
    /\ apml_segments \in [Segment -> Muxes]
    /\ i2cSystemEntries \in Seq(Muxes \X Nat)
    /\ Len(i2cSystemEntries) <= MAX_I2C_TABLE_REMAP
    /\ i2c \in Request \cup {None}
    /\ bus \in Nat \cup {None}
    /\ retry \in 0 .. MAX_I2C_RETRIES + 1
    /\ ErrorCode \in Codes
    /\ data \in Seq(Bytes \cup {0})
    /\ i2c # None => Len(data) = i2c.read_len
    /\ Len(runs) <= MAX_I2C_RETRIES + 1

\* The settings of the multiplexer that the definition gives for a segment:
\* engine by engine, a record that is in its place and within the limit.
Given(s) ==
    LET InPlace == {e \in DOMAIN platform : e <= I2C_ENGINE_COUNT /\ platform[e].id = e - 1}
        SegmentsOf(e) == {k \in DOMAIN platform[e].segments :
                             /\ platform[e].segments[k].id = s
                             /\ ~platform[e].segments[k].ignore}
    IN  UNION {{e} \X SegmentsOf(e) : e \in InPlace}

MuxGiven(s) ==
    IF Given(s) = {} THEN ZeroMux
    ELSE LET last == CHOOSE g \in Given(s) : \A h \in Given(s) :
                        g[1] > h[1] \/ (g[1] = h[1] /\ g[2] >= h[2])
         IN  platform[last[1]].segments[last[2]].mux

\* The entry of the mapping file that counts for a setting: the first of
\* those there is room for.
BusGiven(mux) ==
    LET room == {k \in DOMAIN mapping : /\ k <= MAX_I2C_TABLE_REMAP
                                        /\ Entry(mapping[k])[1] = mux}
    IN  IF room = {} THEN None
        ELSE Entry(mapping[CHOOSE k \in room : \A h \in room : k <= h])[2]

\* A transaction goes to the bus that the platform definition and the mapping
\* file give for its segment, read as a whole (i2c_topology.cpp:42, select_bus()),
\* whatever records, flags and lines they hold.  A segment nobody defines has
\* the setting zero, which only an entry of zeros can match.
RoutedAsDefined ==
    phase \in {"run", "answer"} /\ i2c.segment \in Segment
        => bus = BusGiven(MuxGiven(i2c.segment))

\* An answer is that of one run.  Its bytes all come from the last, in their
\* order, and behind them there is nothing: no byte of an earlier run or
\* request stays in the packet (smif.cpp:1036).  Success says that the last
\* run gave a byte and no error after it, not that it gave all that were asked
\* for: they are not counted (smif.cpp:1029-1044).  Where no bus or no byte
\* was found there are no data; an error behind bytes (101) comes with them,
\* although smif.cpp:935 says that only success has data.
AnswerIsOneRuns ==
    phase = "answer" =>
        LET bytes == IF runs = << >> THEN << >> ELSE Last(runs).bytes
        IN  /\ i2c.read_len > 0 => data = [k \in DOMAIN data |-> IF k <= Len(bytes) THEN bytes[k] ELSE 0]
            /\ ErrorCode = I2C_SUCCESS /\ i2c.read_len > 0
                  => bytes # << >> /\ Last(runs).kind = "run"
            /\ ErrorCode \in {I2C_BAD_ARGUMENT, I2C_SEGMENT_DOES_NOT_EXIST}
                  => data = [k \in DOMAIN data |-> 0]
            /\ ErrorCode # 0

\* What an answer tells of what was done, where a bus was found
\* (smif.cpp:1020-1068).  A transaction that only writes was carried out once
\* if the answer is success, and never if it is 108, after as many attempts as
\* the retries allow.  One that reads may have been carried out as often: a
\* run that wrote and printed nothing is run again.  But a run that gave a
\* byte is the last.
OutcomeTold ==
    phase = "answer" /\ bus # None =>
        LET carried == {k \in DOMAIN runs : runs[k].kind # "not_run"}
            giving  == {k \in DOMAIN runs : runs[k].bytes # << >>}
        IN  /\ i2c.read_len = 0
                  => carried = IF ErrorCode = I2C_SUCCESS THEN {Len(runs)} ELSE {}
            /\ i2c.read_len > 0
                  => giving = IF ErrorCode = I2C_SEGMENT_DOES_NOT_EXIST THEN {} ELSE {Len(runs)}
            /\ ErrorCode = I2C_SEGMENT_DOES_NOT_EXIST => Len(runs) = MAX_I2C_RETRIES + 1
=============================================================================
