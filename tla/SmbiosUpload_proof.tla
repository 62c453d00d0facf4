------------------------- MODULE SmbiosUpload_proof ---------------------------
(***************************************************************************)
(* What the upload promises, for records of every length, any number of    *)
(* requests, restarts and failing calls.                                   *)
(***************************************************************************)
EXTENDS SmbiosUpload, SequenceFacts, SmbiosDb_proof

(***************************************************************************)
(* Type correctness.                                                       *)
(***************************************************************************)

\* A record's cells: one for each byte.
LEMMA CellsOf ==
    ASSUME NEW r \in Record
    PROVE  Cells(r) \in Seq(Cell) /\ Len(Cells(r)) = r.len /\ r.len \in Nat
<1>1. r.len \in Nat /\ r.bytes \in [0 .. r.len - 1 -> Byte]
  BY DbAssumption DEF IsRecord
<1>2. \A k \in 1 .. r.len : [kind |-> "rec", byte |-> r.bytes[k - 1]] \in Cell
  <2>1. \A k \in 1 .. r.len : r.bytes[k - 1] \in Byte
    BY <1>1
  <2>2. QED
    BY <2>1 DEF Cell
<1>3. Cells(r) \in [1 .. r.len -> Cell]
  BY <1>2 DEF Cells
<1>4. QED
  BY <1>1, <1>3

-----------------------------------------------------------------------------
(***************************************************************************)
(* The table, its counters and its file.                                   *)
(***************************************************************************)

\* The types of the table, its counters and its file.
TablesTyped ==
    /\ Table \in TableType /\ smbios_db \in TableType
    /\ n_received \in Nat /\ n_filtered \in Nat /\ n_dropped \in Nat
    /\ n_bytes \in Nat /\ rec_longest \in Nat
    /\ dbfile = Absent \/ dbfile \in DbFile

\* The tables of smbios_cfg_default() and of a new process.
LEMMA NewTables == DefaultTable \in TableType /\ ZeroTable \in TableType
<1>1. EmptyIndex \in [Slot -> Entry] /\ EmptyData \in [0 .. SzData - 1 -> Byte]
  BY DbAssumption DEF EmptyIndex, EmptyData, Unused, Entry
<1>2. 0 \in InsertPoint
  BY DbAssumption DEF InsertPoint
<1>3. QED
  BY <1>1, <1>2 DEF DefaultTable, ZeroTable, TableType

\* Setting the four variables of the table.
LEMMA SetTableTyped ==
    ASSUME NEW t \in TableType, SetTable(t)
    PROVE  Table' \in TableType
BY DEF SetTable, Table, TableType

\* A record leaves them typed, whether it is stored or not.
LEMMA RecordTyped ==
    ASSUME Table \in TableType, NEW r \in Record, smbios_data_record(r),
           n_received \in Nat, n_filtered \in Nat, n_dropped \in Nat,
           n_bytes \in Nat, rec_longest \in Nat
    PROVE  /\ Table' \in TableType
           /\ n_received' \in Nat /\ n_filtered' \in Nat /\ n_dropped' \in Nat
           /\ n_bytes' \in Nat /\ rec_longest' \in Nat
<1>1. /\ r.len \in Nat /\ r.type \in Nat /\ r.handle \in Nat
      /\ r.bytes \in [0 .. r.len - 1 -> Byte]
  BY DbAssumption DEF IsRecord
<1>2. /\ ver \in {0, SMBIOS_CFG_VERSION} /\ index \in [Slot -> Entry]
      /\ data \in [0 .. SzData - 1 -> Byte] /\ insert \in InsertPoint
      /\ insert \in Nat
  BY DbAssumption DEF Table, TableType, InsertPoint
<1>3. CASE BadParm(r)
  BY <1>3, <1>2 DEF BadParm, dbVars, table, counters, Table, TableType
<1>4. CASE Filter(r)
  BY <1>4, <1>2, <1>1 DEF Filter, Received, table, Table, TableType
<1>5. CASE Drop(r)
  BY <1>5, <1>2, <1>1 DEF Drop, Received, table, Table, TableType
<1>6. ASSUME NEW i \in Slot, Store(r, i)
      PROVE  /\ Table' \in TableType
             /\ n_received' \in Nat /\ n_filtered' \in Nat /\ n_dropped' \in Nat
             /\ n_bytes' \in Nat /\ rec_longest' \in Nat
  <2>1. insert' \in InsertPoint
    <3>1. Rounded(r.len) \in Nat
      BY <1>1 DEF Rounded
    <3>2. insert' = insert + Rounded(r.len) /\ insert + r.len <= SzData
      BY <1>6 DEF Store
    <3>3. insert % 4 = 0
      BY <1>2 DEF InsertPoint
    <3>4. insert + Rounded(r.len) <= SzData /\ (insert + Rounded(r.len)) % 4 = 0
      BY <1>1, <1>2, <3>2, <3>3, RoundedFits
    <3>5. insert + Rounded(r.len) \in 0 .. SzData
      BY <1>2, <3>1, <3>4, DbAssumption
    <3>6. QED
      BY <3>2, <3>4, <3>5 DEF InsertPoint
  <2>2. data' \in [0 .. SzData - 1 -> Byte]
    <3>1. ASSUME NEW k \in insert .. insert + r.len - 1
          PROVE  r.bytes[k - insert] \in Byte
      <4>1. k - insert \in 0 .. r.len - 1
        BY <1>1, <1>2
      <4>2. QED
        BY <1>1, <4>1
    <3>2. data' = CopyInto(r.bytes, r.len, insert)
      BY <1>6 DEF Store
    <3>3. QED
      BY <1>2, <3>1, <3>2 DEF CopyInto
  <2>3. index' \in [Slot -> Entry]
    BY <1>1, <1>2, <1>6 DEF Store, Entry
  <2>4. ver' \in {0, SMBIOS_CFG_VERSION}
    BY <1>2, <1>6 DEF Store
  <2>5. Table' \in TableType
    BY <2>1, <2>2, <2>3, <2>4 DEF Table, TableType
  <2>6. /\ n_received' \in Nat /\ n_filtered' \in Nat /\ n_dropped' \in Nat
        /\ n_bytes' \in Nat /\ rec_longest' \in Nat
    BY <1>1, <1>6 DEF Store, Received
  <2>7. QED
    BY <2>5, <2>6
<1>7. QED
  BY <1>3, <1>4, <1>5, <1>6 DEF smbios_data_record

\* They hold at the start
LEMMA TablesInit == UploadInit => TablesTyped
<1> SUFFICES ASSUME UploadInit PROVE TablesTyped
  OBVIOUS
<1>1. Table = ZeroTable
  BY DEF UploadInit, Init, Table, ZeroTable, DefaultTable
<1>2. QED
  BY <1>1, NewTables DEF UploadInit, Init, TablesTyped

\* and after each step.
LEMMA TablesNext ==
    ASSUME TablesTyped, todo \in Seq(Record), [UploadNext]_vars
    PROVE  TablesTyped'
<1> USE DEF TablesTyped
<1>1. CASE UNCHANGED <<dbVars, dbfile, smbios_db>>
  BY <1>1 DEF dbVars, table, counters, Table
<1>2. CASE BeginOpen
  <2>1. UNCHANGED <<dbfile, smbios_db>>
    BY <1>2 DEF BeginOpen
  <2>2. CASE UNCHANGED dbVars
    BY <2>1, <2>2, <1>1
  <2>3. CASE smbios_data_begin
    <3>1. Table' = DefaultTable
      BY <2>3 DEF smbios_data_begin, Table, DefaultTable
    <3>2. QED
      BY <2>1, <2>3, <3>1, NewTables DEF smbios_data_begin
  <2>4. QED
    BY <1>2, <2>2, <2>3 DEF BeginOpen
<1>3. CASE RecordsNext
  <2>1. Head(todo) \in Record /\ smbios_data_record(Head(todo)) /\ UNCHANGED <<dbfile, smbios_db>>
    BY <1>3, HeadTailProperties DEF RecordsNext, files, daemon
  <2>2. QED
    BY <2>1, RecordTyped
<1>4. CASE DbWrite
  <2>1. UNCHANGED dbVars /\ smbios_db' = Table
    BY <1>4 DEF DbWrite
  <2>2. Table' = Table /\ UNCHANGED counters
    BY <2>1 DEF dbVars, table, Table
  <2>3. dbfile' = dbfile \/ \E part \in {Truncated, Blocks, Whole} : dbfile' = [of |-> Table, part |-> part]
    BY <1>4 DEF DbWrite
  <2>4. dbfile' = Absent \/ dbfile' \in DbFile
    BY <2>3 DEF DbFile
  <2>5. QED
    BY <2>1, <2>2, <2>4 DEF counters
<1>5. CASE DbRead
  <2>1. UNCHANGED <<counters, dbfile, smbios_db>>
    BY <1>5 DEF DbRead, files, daemon
  <2>2. PICK t : SetTable(t) /\ (t = DefaultTable \/ t = smbios_cfg_read(Table, dbfile))
    BY <1>5 DEF DbRead
  <2>3. smbios_cfg_read(Table, dbfile) \in TableType
    <3>1. CASE dbfile = Absent
      BY <3>1, NewTables DEF smbios_cfg_read
    <3>2. CASE dbfile # Absent
      <4>1. dbfile \in DbFile
        BY <3>2
      <4>2. dbfile.of \in TableType /\ dbfile.part \in {Truncated, Blocks, Whole}
        BY <4>1 DEF DbFile
      <4>3. [dbfile.of EXCEPT !.insert = Table.insert] \in TableType
        BY <4>2 DEF TableType
      <4>4. CASE dbfile.part = Truncated
        BY <3>2, <4>4 DEF smbios_cfg_read, Truncated, Blocks, Whole
      <4>5. CASE dbfile.part = Blocks
        BY <3>2, <4>5, <4>3 DEF smbios_cfg_read, Truncated, Blocks, Whole
      <4>6. CASE dbfile.part = Whole
        BY <3>2, <4>6, <4>2, NewTables DEF smbios_cfg_read, Truncated, Blocks, Whole
      <4>7. QED
        BY <4>2, <4>4, <4>5, <4>6
    <3>3. QED
      BY <3>1, <3>2
  <2>4. Table' \in TableType
    BY <2>2, <2>3, NewTables, SetTableTyped
  <2>5. QED
    BY <2>1, <2>4 DEF counters
<1>6. CASE Crash
  <2>1. Table' \in TableType
    BY <1>6, NewTables, SetTableTyped DEF Crash
  <2>2. smbios_db' \in TableType
    BY <1>6, NewTables DEF Crash
  <2>3. dbfile' = dbfile \/ \E part \in {Truncated, Blocks} : dbfile' = [of |-> Table, part |-> part]
    BY <1>6 DEF Crash
  <2>4. dbfile' = Absent \/ dbfile' \in DbFile
    BY <2>3 DEF DbFile
  <2>5. QED
    BY <1>6, <2>1, <2>2, <2>4 DEF Crash
<1>7. CASE Host
  BY <1>7, <1>1 DEF Host, HostBegin, HostRecords, HostEnd, HostRetry, Send, files, daemon
<1>8. CASE BeginClose \/ RecordsOpen \/ RecordsClose \/ EndOpen \/ EndClose \/ RemoveOld \/ RenameTemp \/ Sync
  BY <1>8, <1>1 DEF BeginClose, RecordsOpen, RecordsClose, EndOpen, EndClose, RemoveOld,
                    RenameTemp, Sync, files, daemon
<1>9. CASE UNCHANGED vars
  BY <1>9, <1>1 DEF vars, files, daemon
<1>10. QED
  BY <1>2, <1>3, <1>4, <1>5, <1>6, <1>7, <1>8, <1>9 DEF UploadNext, Handler

-----------------------------------------------------------------------------
(***************************************************************************)
(* The files, the handler and the host.                                    *)
(***************************************************************************)

\* A file is cells, or is not there.
File == Seq(Cell) \cup {Absent}

\* What is remembered of the last image.
Publication ==
    [sent : Seq(Record), clean : BOOLEAN, begins : Nat,
     dirVer : 0 .. DIRVER_MOD - 1, crashes : Nat]

\* The steps at which the temporary file is open, or complete.
TempThere == {"begin_close", "records", "db_write", "db_read", "end_close", "remove", "rename"}

\* The types of the files, the bounds and the histories,
FilesTyped ==
    /\ temp \in File /\ smbios2 \in File /\ dirVer \in 0 .. DIRVER_MOD - 1
    /\ begins \in 0 .. MaxBegins /\ ends \in 0 .. MaxEnds
    /\ crashes \in 0 .. MaxCrashes /\ faults \in 0 .. MaxFaults
    /\ clean \in BOOLEAN
    /\ published \in Publication \cup {None}

\* and of the handler and the host.
StepsTyped ==
    /\ FilesTyped
    /\ out \in Seq(Cell)
    /\ todo \in Seq(Record) /\ sent \in Seq(Record) /\ Len(sent) <= MaxSent
    /\ pc \in Steps
    /\ pc \in TempThere => temp # Absent
    /\ pc = "idle" => todo = << >> /\ out = << >>
    /\ pc # "idle" => unanswered \in Requests
    /\ unanswered \in Requests \cup {None}
    /\ phase \in {"off", "uploading", "done"}

\* Cells that are written.
LEMMA BlankTyped == << >> \in Seq(Cell) /\ <<NulCell, NulCell>> \in Seq(Cell)
<1>1. NulCell \in Cell
  BY DEF Cell
<1>2. QED
  BY <1>1

\* The header and the entry point that an end writes.
LEMMA HeaderTyped ==
    ASSUME dirVer \in 0 .. DIRVER_MOD - 1, NEW f \in Seq(Cell)
    PROVE  <<HdrCell(dirVer, DataSize(Len(f))), EpCell>> \in Seq(Cell)
<1>1. Len(f) - MDR_SZ \in Int
  BY LenProperties DEF MDR_SZ
<1>2. (Len(f) - MDR_SZ) % DATASIZE_MOD \in 0 .. DATASIZE_MOD - 1
  BY <1>1, UploadAssumption
<1>3. HdrCell(dirVer, DataSize(Len(f))) \in Cell
  BY <1>2 DEF Cell, HdrCell, DataSize
<1>4. EpCell \in Cell
  BY DEF Cell
<1>5. QED
  BY <1>3, <1>4

\* A prefix of what was to be written.
LEMMA PrefixTyped ==
    ASSUME NEW s \in Seq(Cell), NEW p \in Prefixes(s)
    PROVE  p \in Seq(Cell) /\ Len(p) <= Len(s)
<1>1. PICK l \in 0 .. Len(s) : p = SubSeq(s, 1, l)
  BY DEF Prefixes
<1>2. l \in Int /\ Len(s) \in Nat /\ \A i \in 1 .. l : s[i] \in Cell
  BY LenProperties, ElementOfSeq
<1>3. p \in Seq(Cell) /\ Len(p) = IF 1 <= l THEN l - 1 + 1 ELSE 0
  BY <1>1, <1>2, SubSeqProperties
<1>4. QED
  BY <1>1, <1>2, <1>3

\* All of it is a prefix.
LEMMA WholeIsPrefix ==
    ASSUME NEW s \in Seq(Cell)
    PROVE  s \in Prefixes(s)
<1>1. Len(s) \in Nat
  BY LenProperties
<1>2. s = SubSeq(s, 1, Len(s))
  BY <1>1, SubSeqProperties
<1>3. Len(s) \in 0 .. Len(s)
  BY <1>1
<1>4. QED
  BY <1>2, <1>3 DEF Prefixes

\* Which of two files reaches further.
LEMMA LongerOf ==
    ASSUME NEW a \in Nat, NEW b \in Nat
    PROVE  Max({a, b}) = IF a <= b THEN b ELSE a
<1> DEFINE m == IF a <= b THEN b ELSE a
<1>1. m \in {a, b} /\ \A y \in {a, b} : m >= y
  OBVIOUS
<1>2. \A x \in {a, b} : (\A y \in {a, b} : x >= y) => x = m
  OBVIOUS
<1>3. QED
  BY <1>1, <1>2 DEF Max

\* What is written at the start of a file stands there, and what is behind
\* it stays.
LEMMA WrittenAtStart ==
    ASSUME NEW f \in Seq(Cell), NEW cells \in Seq(Cell)
    PROVE  /\ WriteAtStart(f, cells) \in Seq(Cell)
           /\ Len(WriteAtStart(f, cells)) = IF Len(f) <= Len(cells) THEN Len(cells) ELSE Len(f)
           /\ \A k \in 1 .. Len(WriteAtStart(f, cells)) :
                 WriteAtStart(f, cells)[k] = IF k <= Len(cells) THEN cells[k] ELSE f[k]
<1> DEFINE n == IF Len(f) <= Len(cells) THEN Len(cells) ELSE Len(f)
<1>1. Len(f) \in Nat /\ Len(cells) \in Nat
  BY LenProperties
<1>2. WriteAtStart(f, cells) = [k \in 1 .. n |-> IF k <= Len(cells) THEN cells[k] ELSE f[k]]
  BY <1>1, LongerOf DEF WriteAtStart
<1>3. n \in Nat
  BY <1>1
<1>4. ASSUME NEW k \in 1 .. n PROVE (IF k <= Len(cells) THEN cells[k] ELSE f[k]) \in Cell
  <2>1. CASE k <= Len(cells)
    BY <1>1, <2>1, ElementOfSeq
  <2>2. CASE ~ (k <= Len(cells))
    <3>1. k \in 1 .. Len(f)
      BY <1>1, <2>2
    <3>2. QED
      BY <2>2, <3>1, ElementOfSeq
  <2>3. QED
    BY <2>1, <2>2
<1> HIDE DEF n
<1>5. WriteAtStart(f, cells) \in [1 .. n -> Cell]
  BY <1>2, <1>4
<1>6. WriteAtStart(f, cells) \in Seq(Cell) /\ Len(WriteAtStart(f, cells)) = n
  BY <1>3, <1>5
<1>7. QED
  BY <1>2, <1>6 DEF n

\* The types of the steps hold at the start,
LEMMA StepsInit == UploadInit => StepsTyped
<1> SUFFICES ASSUME UploadInit PROVE StepsTyped
  OBVIOUS
<1>1. 0 \in 0 .. MaxBegins /\ 0 \in 0 .. MaxEnds /\ 0 \in 0 .. MaxCrashes /\ 0 \in 0 .. MaxFaults
  BY UploadAssumption
<1>2. 1 \in 0 .. DIRVER_MOD - 1
  BY UploadAssumption
<1>3. << >> \in Seq(Record) /\ Len(<< >>) <= MaxSent
  BY UploadAssumption
<1>4. "idle" \in Steps /\ "idle" \notin TempThere
  BY DEF Steps, TempThere
<1>5. QED
  BY <1>1, <1>2, <1>3, <1>4, BlankTyped DEF UploadInit, StepsTyped, FilesTyped, File

\* after what the host does,
LEMMA HostStep ==
    ASSUME StepsTyped, Host
    PROVE  StepsTyped'
<1> USE DEF StepsTyped, FilesTyped
<1>1. ASSUME NEW cmd \in {"begin", "records", "end"}, NEW blob \in Seq(Record), Send(cmd, blob)
      PROVE  /\ pc' \in Steps /\ pc' # "idle" /\ pc' \notin TempThere
             /\ todo' \in Seq(Record) /\ unanswered' \in Requests
             /\ UNCHANGED <<temp, smbios2, out, dirVer, crashes, faults, published>>
  <2>1. FirstStep(cmd) \in Steps \ {"idle"} /\ FirstStep(cmd) \notin TempThere
    BY DEF FirstStep, Steps, TempThere
  <2>2. Request(cmd, blob) \in Requests
    BY DEF Request, Requests
  <2>3. QED
    BY <1>1, <2>1, <2>2 DEF Send, files, daemon
<1>2. CASE HostBegin
  <2>1. Len(<< >>) <= MaxSent /\ << >> \in Seq(Record)
    BY UploadAssumption
  <2>2. begins' \in 0 .. MaxBegins
    BY <1>2, UploadAssumption DEF HostBegin
  <2>3. /\ pc' \in Steps /\ pc' # "idle" /\ pc' \notin TempThere
        /\ todo' \in Seq(Record) /\ unanswered' \in Requests
        /\ UNCHANGED <<temp, smbios2, out, dirVer, crashes, faults, published>>
    BY <1>1, <1>2, <2>1 DEF HostBegin
  <2>4. /\ UNCHANGED ends /\ sent' = << >>
        /\ phase' = "uploading" /\ clean' = TRUE
    BY <1>2 DEF HostBegin
  <2>5. QED
    BY <2>1, <2>2, <2>3, <2>4
<1>3. ASSUME NEW blob \in Blobs, HostRecords(blob)
      PROVE  StepsTyped'
  <2>1. blob \in Seq(Record)
    BY UploadAssumption
  <2>2. sent \o blob \in Seq(Record) /\ Len(sent \o blob) = Len(sent) + Len(blob)
    BY <2>1, ConcatProperties
  <2>3. sent' \in Seq(Record) /\ Len(sent') <= MaxSent
    BY <1>3, <2>2 DEF HostRecords
  <2>4. QED
    BY <1>1, <1>3, <2>1, <2>3 DEF HostRecords
<1>4. CASE HostEnd
  <2>1. << >> \in Seq(Record)
    OBVIOUS
  <2>2. ends' \in 0 .. MaxEnds
    BY <1>4, UploadAssumption DEF HostEnd
  <2>3. /\ pc' \in Steps /\ pc' # "idle" /\ pc' \notin TempThere
        /\ todo' \in Seq(Record) /\ unanswered' \in Requests
        /\ UNCHANGED <<temp, smbios2, out, dirVer, crashes, faults, published>>
    BY <1>1, <1>4, <2>1 DEF HostEnd
  <2>4. UNCHANGED <<begins, sent>> /\ phase' = "done" /\ clean' \in BOOLEAN
    BY <1>4 DEF HostEnd
  <2>5. QED
    BY <2>2, <2>3, <2>4
<1>5. CASE HostRetry
  <2>1. unanswered.cmd \in {"begin", "records", "end"} /\ unanswered.blob \in Seq(Record)
    BY <1>5 DEF HostRetry, Requests
  <2>2. QED
    BY <1>1, <1>5, <2>1 DEF HostRetry
<1>6. QED
  BY <1>2, <1>3, <1>4, <1>5 DEF Host

\* Ways for a step to end.
LEMMA Answering ==
    ASSUME StepsTyped, Answer
    PROVE  /\ pc' = "idle" /\ todo' = << >> /\ out' = << >> /\ unanswered' = None
           /\ UNCHANGED <<phase, sent>>
BY DEF Answer

\* A library call that fails.
LEMMA Failing ==
    ASSUME StepsTyped, NEW call, Fails(call)
    PROVE  /\ faults' \in 0 .. MaxFaults /\ clean' = FALSE
           /\ UNCHANGED <<begins, ends, crashes>>
<1>1. faults \in Nat /\ faults < MaxFaults /\ faults' = faults + 1 /\ MaxFaults \in Nat
  BY UploadAssumption DEF Fails, StepsTyped, FilesTyped
<1>2. faults' \in 0 .. MaxFaults
  BY <1>1
<1>3. QED
  BY <1>2 DEF Fails

\* What fclose() does with a file opened to append.
LEMMA Flushed ==
    ASSUME StepsTyped, FlushAppended, temp # Absent
    PROVE  /\ temp' \in Seq(Cell) /\ faults' \in 0 .. MaxFaults /\ clean' \in BOOLEAN
           /\ UNCHANGED <<begins, ends, crashes>>
<1>1. temp \in Seq(Cell) /\ out \in Seq(Cell)
  BY DEF StepsTyped, FilesTyped, File
<1>2. CASE Succeeds /\ temp' = temp \o out
  BY <1>1, <1>2, ConcatProperties DEF Succeeds, bounds, StepsTyped, FilesTyped
<1>3. CASE Fails("write") /\ \E p \in Prefixes(out) \ {out} : temp' = temp \o p
  <2>1. temp' \in Seq(Cell)
    BY <1>1, <1>3, PrefixTyped, ConcatProperties
  <2>2. QED
    BY <1>3, <2>1, Failing
<1>4. QED
  BY <1>2, <1>3 DEF FlushAppended

\* A request that is answered,
LEMMA AnsweredTyped ==
    ASSUME StepsTyped, Answer, FilesTyped'
    PROVE  StepsTyped'
<1>1. "idle" \in Steps /\ "idle" \notin TempThere
  BY DEF Steps, TempThere
<1>2. QED
  BY <1>1, BlankTyped DEF Answer, StepsTyped

\* and one that goes on.
LEMMA WentOnTyped ==
    ASSUME StepsTyped, pc # "idle", NEW step \in Steps, Goto(step), step # "idle",
           FilesTyped', out' \in Seq(Cell), step \in TempThere => temp' # Absent
    PROVE  StepsTyped'
BY DEF Goto, host, StepsTyped

\* The steps that leave all files but the temporary one alone.
LEMMA FailedTyped ==
    ASSUME StepsTyped, NEW call, Fails(call), Answer, temp' \in File,
           UNCHANGED <<smbios2, dirVer, published>>
    PROVE  StepsTyped'
<1>1. FilesTyped'
  BY Failing DEF StepsTyped, FilesTyped
<1>2. QED
  BY <1>1, AnsweredTyped

\* The types after a begin's steps,
LEMMA BeginStep ==
    ASSUME StepsTyped, BeginOpen \/ BeginClose
    PROVE  StepsTyped'
<1>1. FilesTyped
  BY DEF StepsTyped
<1>2. CASE BeginOpen /\ Succeeds
  <2>1. dirVer \in Nat
    BY <1>1 DEF FilesTyped
  <2>2. (dirVer + 1) % DIRVER_MOD \in 0 .. DIRVER_MOD - 1
    BY <2>1, UploadAssumption
  <2>3. CASE temp' = << >> /\ dirVer' = (dirVer + 1) % DIRVER_MOD
               /\ out' = <<NulCell, NulCell>> /\ Goto("begin_close")
    <3>1. FilesTyped'
      BY <1>1, <1>2, <2>2, <2>3, BlankTyped DEF FilesTyped, Succeeds, bounds, BeginOpen, File
    <3>2. temp' # Absent
      BY <2>3, BlankTyped, UploadAssumption
    <3>3. "begin_close" \in Steps /\ pc # "idle"
      BY <1>2 DEF Steps, BeginOpen
    <3>4. QED
      BY <2>3, <3>1, <3>2, <3>3, BlankTyped, WentOnTyped
  <2>4. CASE Fails("open") /\ Answer /\ UNCHANGED <<dbVars, temp, dirVer>>
    BY <1>1, <1>2, <2>4, FailedTyped DEF BeginOpen, FilesTyped
  <2>5. QED
    BY <1>2, <2>3, <2>4 DEF BeginOpen
<1>3. CASE BeginOpen /\ Fails("open") /\ Answer /\ UNCHANGED <<dbVars, temp, dirVer>>
  BY <1>1, <1>3, FailedTyped DEF BeginOpen, FilesTyped
<1>4. CASE BeginClose
  <2>1. temp # Absent
    BY <1>4 DEF BeginClose, StepsTyped, TempThere
  <2>2. FilesTyped'
    BY <1>1, <1>4, <2>1, Flushed DEF BeginClose, FilesTyped, File, daemon
  <2>3. QED
    BY <1>4, <2>2, AnsweredTyped DEF BeginClose
<1>5. QED
  BY <1>2, <1>3, <1>4 DEF BeginOpen

\* those of records,
LEMMA RecordsStep ==
    ASSUME StepsTyped, RecordsOpen \/ RecordsNext \/ RecordsClose
    PROVE  StepsTyped'
<1>1. FilesTyped
  BY DEF StepsTyped
<1>2. CASE RecordsOpen /\ Succeeds /\ temp' = Opened /\ Goto("records") /\ UNCHANGED out
  <2>1. temp' \in Seq(Cell)
    BY <1>1, <1>2, BlankTyped DEF Opened, FilesTyped, File
  <2>2. temp' # Absent
    BY <2>1, UploadAssumption
  <2>3. FilesTyped'
    BY <1>1, <1>2, <2>1 DEF FilesTyped, Succeeds, bounds, RecordsOpen, File, daemon
  <2>4. "records" \in Steps /\ pc # "idle" /\ out' \in Seq(Cell)
    BY <1>2 DEF Steps, RecordsOpen, StepsTyped
  <2>5. QED
    BY <1>2, <2>2, <2>3, <2>4, WentOnTyped
<1>3. CASE RecordsOpen /\ Fails("open") /\ Answer /\ UNCHANGED temp
  BY <1>1, <1>3, FailedTyped DEF RecordsOpen, FilesTyped, daemon
<1>4. CASE RecordsNext
  <2>1. Head(todo) \in Record /\ Tail(todo) \in Seq(Record)
    BY <1>4, HeadTailProperties DEF RecordsNext, StepsTyped
  <2>2. out \o Cells(Head(todo)) \in Seq(Cell)
    BY <2>1, CellsOf, ConcatProperties DEF StepsTyped
  <2>3. FilesTyped' /\ todo' \in Seq(Record) /\ out' \in Seq(Cell)
    BY <1>1, <1>4, <2>1, <2>2 DEF RecordsNext, FilesTyped, files, daemon, bounds
  <2>4. UNCHANGED <<pc, temp, phase, sent, unanswered>> /\ pc # "idle"
    BY <1>4 DEF RecordsNext, host, files
  <2>5. QED
    BY <2>3, <2>4 DEF StepsTyped
<1>5. CASE RecordsClose
  <2>1. temp # Absent
    BY <1>5 DEF RecordsClose, StepsTyped, TempThere
  <2>2. FilesTyped'
    BY <1>1, <1>5, <2>1, Flushed DEF RecordsClose, FilesTyped, File, daemon
  <2>3. QED
    BY <1>5, <2>2, AnsweredTyped DEF RecordsClose
<1>6. QED
  BY <1>2, <1>3, <1>4, <1>5 DEF RecordsOpen

\* those of an end up to the rename,
LEMMA EndStep ==
    ASSUME StepsTyped, EndOpen \/ DbWrite \/ DbRead \/ EndClose
    PROVE  StepsTyped'
<1>1. FilesTyped
  BY DEF StepsTyped
<1>2. CASE EndOpen /\ Succeeds /\ temp' = Opened
             /\ out' = <<HdrCell(dirVer, DataSize(Len(Opened))), EpCell>> /\ Goto("db_write")
  <2>1. Opened \in Seq(Cell)
    BY <1>1, BlankTyped DEF Opened, FilesTyped, File
  <2>2. temp' # Absent
    BY <1>2, <2>1, UploadAssumption
  <2>3. FilesTyped'
    BY <1>1, <1>2, <2>1 DEF FilesTyped, Succeeds, bounds, EndOpen, File, daemon
  <2>4. "db_write" \in Steps /\ pc # "idle"
    BY <1>2 DEF Steps, EndOpen
  <2>5. out' \in Seq(Cell)
    BY <1>1, <1>2, <2>1, HeaderTyped DEF FilesTyped
  <2>6. QED
    BY <1>2, <2>2, <2>3, <2>4, <2>5, WentOnTyped
<1>3. CASE EndOpen /\ Fails("open") /\ Answer /\ UNCHANGED temp
  BY <1>1, <1>3, FailedTyped DEF EndOpen, FilesTyped, daemon
<1>4. CASE DbWrite \/ DbRead
  <2>1. PICK step \in {"db_read", "end_close"} : Goto(step)
    BY <1>4 DEF DbWrite, DbRead
  <2>2. /\ UNCHANGED <<temp, smbios2, dirVer, out, published>> /\ pc \in {"db_write", "db_read"}
        /\ Succeeds \/ Fails("open") \/ Fails("write")
    BY <1>4 DEF DbWrite, DbRead, files, daemon
  <2>3. /\ begins' \in 0 .. MaxBegins /\ ends' \in 0 .. MaxEnds
        /\ crashes' \in 0 .. MaxCrashes /\ faults' \in 0 .. MaxFaults
        /\ clean' \in BOOLEAN
    <3>1. CASE Succeeds
      BY <1>1, <3>1 DEF Succeeds, bounds, FilesTyped
    <3>2. CASE Fails("open") \/ Fails("write")
      BY <1>1, <3>2, Failing DEF FilesTyped
    <3>3. QED
      BY <2>2, <3>1, <3>2
  <2>4. FilesTyped'
    BY <1>1, <2>2, <2>3 DEF FilesTyped
  <2>5. temp' # Absent /\ pc # "idle" /\ step \in Steps /\ step # "idle"
    BY <2>1, <2>2 DEF StepsTyped, TempThere, Steps
  <2>6. out' \in Seq(Cell)
    BY <2>2 DEF StepsTyped
  <2>7. QED
    BY <2>1, <2>4, <2>5, <2>6, WentOnTyped
<1>5. CASE EndClose
  <2>1. temp \in Seq(Cell) /\ out \in Seq(Cell)
    BY <1>1, <1>5 DEF EndClose, StepsTyped, TempThere, FilesTyped, File
  <2>2. temp' \in Seq(Cell) /\ faults' \in 0 .. MaxFaults /\ clean' \in BOOLEAN
        /\ UNCHANGED <<begins, ends, crashes>>
    <3>1. CASE Succeeds /\ temp' = WriteAtStart(temp, out)
      BY <1>1, <2>1, <3>1, WrittenAtStart DEF Succeeds, bounds, FilesTyped
    <3>2. CASE Fails("write") /\ \E p \in Prefixes(out) \ {out} : temp' = WriteAtStart(temp, p)
      <4>1. temp' \in Seq(Cell)
        BY <2>1, <3>2, PrefixTyped, WrittenAtStart
      <4>2. QED
        BY <3>2, <4>1, Failing
    <3>3. QED
      BY <1>5, <3>1, <3>2 DEF EndClose
  <2>3. temp' # Absent
    BY <2>2, UploadAssumption
  <2>4. FilesTyped'
    BY <1>1, <1>5, <2>2 DEF EndClose, FilesTyped, File, daemon
  <2>5. "remove" \in Steps /\ pc # "idle" /\ out' \in Seq(Cell) /\ Goto("remove")
    BY <1>5, BlankTyped DEF EndClose, Steps
  <2>6. QED
    BY <2>3, <2>4, <2>5, WentOnTyped
<1>6. QED
  BY <1>2, <1>3, <1>4, <1>5 DEF EndOpen

\* those that publish,
LEMMA PublishStep ==
    ASSUME StepsTyped, RemoveOld \/ RenameTemp \/ Sync
    PROVE  StepsTyped'
<1>1. FilesTyped
  BY DEF StepsTyped
<1>2. CASE RemoveOld /\ Succeeds /\ smbios2' = Absent /\ Goto("rename") /\ UNCHANGED out
  <2>1. FilesTyped'
    BY <1>1, <1>2 DEF RemoveOld, FilesTyped, File, daemon, Succeeds, bounds
  <2>2. temp' # Absent /\ pc # "idle" /\ "rename" \in Steps /\ out' \in Seq(Cell)
    BY <1>2 DEF RemoveOld, StepsTyped, TempThere, Steps
  <2>3. QED
    BY <1>2, <2>1, <2>2, WentOnTyped
<1>3. CASE RemoveOld /\ Fails("remove") /\ Answer /\ UNCHANGED smbios2
  BY <1>1, <1>3, FailedTyped DEF RemoveOld, FilesTyped, daemon
<1>4. CASE RenameTemp /\ Succeeds /\ smbios2' = temp /\ temp' = Absent
             /\ published' = [sent |-> sent, clean |-> clean, begins |-> begins,
                              dirVer |-> dirVer, crashes |-> crashes]
             /\ Goto("sync") /\ UNCHANGED out
  <2>1. published' \in Publication
    BY <1>1, <1>4 DEF StepsTyped, FilesTyped, Publication
  <2>2. FilesTyped'
    BY <1>1, <1>4, <2>1 DEF RenameTemp, FilesTyped, File, daemon, Succeeds, bounds
  <2>3. pc # "idle" /\ "sync" \in Steps /\ "sync" \notin TempThere /\ out' \in Seq(Cell)
    BY <1>4 DEF RenameTemp, StepsTyped, TempThere, Steps
  <2>4. QED
    BY <1>4, <2>2, <2>3, WentOnTyped
<1>5. CASE RenameTemp /\ Fails("rename") /\ Answer /\ UNCHANGED <<smbios2, temp, published>>
  BY <1>1, <1>5, FailedTyped DEF RenameTemp, FilesTyped, daemon
<1>6. CASE Sync
  <2>1. FilesTyped'
    BY <1>1, <1>6 DEF Sync, FilesTyped, files, daemon, bounds
  <2>2. QED
    BY <1>6, <2>1, AnsweredTyped DEF Sync
<1>7. QED
  BY <1>2, <1>3, <1>4, <1>5, <1>6 DEF RemoveOld, RenameTemp

\* and after a stop.
LEMMA CrashStep ==
    ASSUME StepsTyped, Crash
    PROVE  StepsTyped'
<1>1. FilesTyped
  BY DEF StepsTyped
<1>2. crashes' \in 0 .. MaxCrashes
  BY <1>1, UploadAssumption DEF FilesTyped, Crash
<1>3. 1 \in 0 .. DIRVER_MOD - 1
  BY UploadAssumption
<1>4. temp' \in File
  <2>1. CASE pc = "records" /\ \E p \in Prefixes(out) : temp' = temp \o p
    <3>1. temp \in Seq(Cell) /\ out \in Seq(Cell)
      BY <1>1, <2>1 DEF StepsTyped, TempThere, FilesTyped, File
    <3>2. QED
      BY <2>1, <3>1, PrefixTyped, ConcatProperties DEF File
  <2>2. CASE UNCHANGED temp
    BY <1>1, <2>2 DEF FilesTyped
  <2>3. QED
    BY <2>1, <2>2 DEF Crash
<1>5. FilesTyped'
  BY <1>1, <1>2, <1>3, <1>4 DEF Crash, FilesTyped
<1>6. "idle" \in Steps /\ "idle" \notin TempThere
  BY DEF Steps, TempThere
<1>7. /\ pc' = "idle" /\ todo' = << >> /\ out' = << >>
      /\ UNCHANGED <<phase, sent, unanswered>>
  BY DEF Crash, host
<1>8. QED
  BY <1>5, <1>6, <1>7, BlankTyped DEF StepsTyped

\* So every step keeps them.
LEMMA StepsNext ==
    ASSUME StepsTyped, [UploadNext]_vars
    PROVE  StepsTyped'
<1>1. CASE UNCHANGED vars
  BY <1>1 DEF vars, files, daemon, handler, bounds, host, StepsTyped, FilesTyped
<1>2. QED
  BY <1>1, HostStep, BeginStep, RecordsStep, EndStep, PublishStep, CrashStep
  DEF UploadNext, Handler

-----------------------------------------------------------------------------
(***************************************************************************)
(* The number of writes, and all of it together.                           *)
(***************************************************************************)

\* Ends that have been sent, and are still to write the database.
EndPending ==
    \/ pc \in {"end_open", "db_write"}
    \/ pc = "idle" /\ unanswered # None /\ unanswered.cmd = "end"

\* smbios_cfg_writecount counts no more than the ends and the restarts, less one
\* that is still to be counted.
WritesCounted ==
    /\ writecount \in Int /\ writecount >= -1
    /\ writecount + (IF EndPending THEN 2 ELSE 1) <= ends + crashes

\* It holds at the start,
LEMMA WritesInit == UploadInit => WritesCounted
BY DEF UploadInit, WritesCounted, EndPending

\* and after each step: an end is done again only after a restart, which resets
\* the counter.
LEMMA WritesNext ==
    ASSUME StepsTyped, WritesCounted, [UploadNext]_vars
    PROVE  WritesCounted'
<1>1. ends \in Nat /\ crashes \in Nat
  BY UploadAssumption DEF StepsTyped, FilesTyped
<1>2. CASE HostEnd
  <2>1. ends' = ends + 1 /\ crashes' = crashes /\ writecount' = writecount
    BY <1>2 DEF HostEnd, Send, daemon
  <2>2. QED
    BY <1>1, <2>1 DEF WritesCounted
<1>3. CASE HostRetry
  <2>1. UNCHANGED <<ends, crashes, writecount>>
    BY <1>3 DEF HostRetry, Send, daemon
  <2>2. pc = "idle" /\ unanswered # None /\ pc' = FirstStep(unanswered.cmd)
    BY <1>3 DEF HostRetry, Send
  <2>3. unanswered.cmd \in {"begin", "records", "end"}
    BY <2>2 DEF StepsTyped, Requests
  <2>4. EndPending' => EndPending
    BY <2>2, <2>3 DEF EndPending, FirstStep
  <2>5. QED
    BY <1>1, <2>1, <2>4 DEF WritesCounted
<1>4. CASE Crash
  <2>1. ends' = ends /\ crashes' = crashes + 1 /\ writecount' = -1
    BY <1>4 DEF Crash
  <2>2. QED
    BY <1>1, <2>1 DEF WritesCounted
<1>5. CASE DbWrite
  <2>1. /\ pc = "db_write" /\ pc' = "db_read" /\ writecount' = writecount + 1
        /\ UNCHANGED <<ends, crashes>>
    BY <1>5 DEF DbWrite, Goto, Succeeds, Fails, bounds
  <2>2. EndPending /\ ~ EndPending'
    BY <2>1 DEF EndPending
  <2>3. QED
    BY <1>1, <2>1, <2>2 DEF WritesCounted
<1>6. ASSUME UNCHANGED <<ends, crashes, writecount>>, EndPending' => EndPending
      PROVE  WritesCounted'
  BY <1>1, <1>6 DEF WritesCounted
<1>7. CASE HostBegin \/ \E blob \in Blobs : HostRecords(blob)
  <2>1. UNCHANGED <<ends, crashes, writecount>> /\ ~ EndPending'
    BY <1>7 DEF HostBegin, HostRecords, Send, FirstStep, EndPending, daemon
  <2>2. QED
    BY <1>6, <2>1
<1>8. ASSUME Answer PROVE ~ EndPending'
  BY <1>8 DEF Answer, EndPending
<1>9. CASE BeginOpen \/ BeginClose \/ RecordsOpen \/ RecordsClose \/ EndOpen
  <2>1. UNCHANGED <<ends, crashes, writecount>>
    BY <1>9 DEF BeginOpen, BeginClose, RecordsOpen, RecordsClose, EndOpen, FlushAppended,
                Succeeds, Fails, bounds, daemon
  <2>2. EndPending' => EndPending
    BY <1>9, <1>8 DEF BeginOpen, BeginClose, RecordsOpen, RecordsClose, EndOpen, Goto, EndPending
  <2>3. QED
    BY <1>6, <2>1, <2>2
<1>10. CASE RecordsNext \/ DbRead \/ EndClose \/ RemoveOld \/ RenameTemp \/ Sync
  <2>1. UNCHANGED <<ends, crashes, writecount>>
    BY <1>10 DEF RecordsNext, DbRead, EndClose, RemoveOld, RenameTemp, Sync,
                 Succeeds, Fails, bounds, daemon
  <2>2. ~ EndPending'
    BY <1>10, <1>8 DEF RecordsNext, DbRead, EndClose, RemoveOld, RenameTemp, Sync, Goto, EndPending
  <2>3. QED
    BY <1>6, <2>1, <2>2
<1>11. CASE UNCHANGED vars
  BY <1>6, <1>11 DEF vars, daemon, bounds, handler, host, EndPending
<1>12. QED
  BY <1>2, <1>3, <1>4, <1>5, <1>7, <1>9, <1>10, <1>11 DEF UploadNext, Host, Handler

\* What all the proofs about the upload start from.
TypeInv == TablesTyped /\ StepsTyped /\ WritesCounted

\* It is kept by each step
LEMMA TypeInvNext == TypeInv /\ [UploadNext]_vars => TypeInv'
BY TablesNext, StepsNext, WritesNext DEF TypeInv, StepsTyped

\* and so holds always.
LEMMA TypeInvariant == UploadSpec => []TypeInv
<1>1. UploadInit => TypeInv
  BY TablesInit, StepsInit, WritesInit DEF TypeInv
<1>2. QED
  BY <1>1, TypeInvNext, PTL DEF UploadSpec

\* The variables of the upload keep their types; the database file has been
\* written no more often than the host sent ends and the daemon was started
\* (cfg_smbios.cpp:142).
THEOREM UploadTypes == UploadSpec => []UploadTypeOK
<1>1. TypeInv => UploadTypeOK
  <2> SUFFICES ASSUME TypeInv PROVE UploadTypeOK
    OBVIOUS
  <2>1. TypeOK
    BY DEF TypeInv, TablesTyped, Table, TableType, InsertPoint, TypeOK
  <2>2. dirVer \in 0 .. DIRVER_MOD - 1 /\ pc \in Steps /\ phase \in {"off", "uploading", "done"}
    BY DEF TypeInv, StepsTyped, FilesTyped
  <2>3. pc = "idle" => todo = << >> /\ out = << >>
    BY DEF TypeInv, StepsTyped
  <2>4. pc # "idle" => unanswered # None
    BY UploadAssumption DEF TypeInv, StepsTyped
  <2>5. ends \in 0 .. MaxEnds /\ crashes \in 0 .. MaxCrashes
    BY DEF TypeInv, StepsTyped, FilesTyped
  <2>6. writecount \in -1 .. MaxEnds + MaxCrashes - 1
    BY <2>5, UploadAssumption DEF TypeInv, WritesCounted
  <2>7. QED
    BY <2>1, <2>2, <2>3, <2>4, <2>6 DEF UploadTypeOK
<1>2. QED
  BY <1>1, TypeInvariant, PTL

-----------------------------------------------------------------------------
(***************************************************************************)
(* There is an image from the first one on.                                *)
(***************************************************************************)

\* From the end on there is a header: to be written, and then written.
HeaderReady ==
    clean \/ faults = 0 =>
        /\ pc \in {"db_write", "db_read", "end_close"} => HasHeader(out)
        /\ pc = "remove" => HasHeader(temp)

\* It is not lost while no library call fails: one that fails is counted, and
\* leaves the upload not clean.
LEMMA HeaderNext ==
    ASSUME TypeInv, HeaderReady, [UploadNext]_vars
    PROVE  HeaderReady'
<1>1. faults \in Nat /\ out \in Seq(Cell) /\ temp \in File
  BY UploadAssumption DEF TypeInv, StepsTyped, FilesTyped
<1>2. ASSUME NEW call, Fails(call) PROVE ~ clean' /\ faults' # 0
  BY <1>1, <1>2 DEF Fails
<1>3. ASSUME pc' \notin {"db_write", "db_read", "end_close", "remove"} PROVE HeaderReady'
  BY <1>3 DEF HeaderReady
<1>4. ASSUME Answer PROVE HeaderReady'
  BY <1>3, <1>4 DEF Answer
<1>5. CASE EndOpen
  <2>1. CASE Goto("db_write") /\ out' = <<HdrCell(dirVer, DataSize(Len(Opened))), EpCell>>
    BY <2>1 DEF Goto, HeaderReady, HasHeader, HdrCell
  <2>2. QED
    BY <1>4, <1>5, <2>1 DEF EndOpen
<1>6. CASE DbWrite \/ DbRead
  <2>1. /\ pc \in {"db_write", "db_read"} /\ pc' \in {"db_read", "end_close"} /\ UNCHANGED out
        /\ Succeeds \/ Fails("open") \/ Fails("write")
    BY <1>6 DEF DbWrite, DbRead, Goto
  <2>2. QED
    BY <1>2, <2>1 DEF HeaderReady, Succeeds, bounds, HasHeader
<1>7. CASE EndClose
  <2>1. pc = "end_close" /\ pc' = "remove"
    BY <1>7 DEF EndClose, Goto
  <2>2. CASE Fails("write")
    BY <1>2, <2>1, <2>2 DEF HeaderReady
  <2>3. CASE Succeeds /\ temp' = WriteAtStart(temp, out)
    <3>1. temp \in Seq(Cell)
      BY <1>1, <2>1 DEF TypeInv, StepsTyped, TempThere, File
    <3>2. SUFFICES ASSUME clean \/ faults = 0 PROVE HasHeader(temp')
      BY <2>1, <2>3 DEF HeaderReady, Succeeds, bounds
    <3>3. HasHeader(out)
      BY <2>1, <3>2 DEF HeaderReady
    <3>4. Len(out) \in Nat /\ Len(temp) \in Nat
      BY <1>1, <3>1, LenProperties
    <3>5. /\ Len(temp') >= 2
          /\ \A k \in 1 .. Len(temp') : temp'[k] = IF k <= Len(out) THEN out[k] ELSE temp[k]
      BY <1>1, <2>3, <3>1, <3>3, <3>4, WrittenAtStart DEF HasHeader
    <3>6. Len(temp') \in Nat
      BY <1>1, <2>3, <3>1, WrittenAtStart, LenProperties
    <3>7. temp'[1] = out[1] /\ temp'[2] = out[2]
      BY <3>3, <3>4, <3>5, <3>6 DEF HasHeader
    <3>8. QED
      BY <3>3, <3>5, <3>7 DEF HasHeader
  <2>4. QED
    BY <1>7, <2>2, <2>3 DEF EndClose
<1>8. CASE Host
  <2>1. PICK cmd \in {"begin", "records", "end"} : pc' = FirstStep(cmd)
    BY <1>8 DEF TypeInv, StepsTyped, Requests, Host, HostBegin, HostRecords, HostEnd, HostRetry, Send
  <2>2. QED
    BY <1>3, <2>1 DEF FirstStep
<1>9. CASE BeginOpen \/ BeginClose \/ RecordsOpen \/ RecordsNext \/ RecordsClose
  BY <1>3, <1>4, <1>9 DEF BeginOpen, BeginClose, RecordsOpen, RecordsNext, RecordsClose, Goto
<1>10. CASE RemoveOld \/ RenameTemp \/ Sync
  BY <1>3, <1>4, <1>10 DEF RemoveOld, RenameTemp, Sync, Goto
<1>11. CASE Crash
  BY <1>3, <1>11 DEF Crash
<1>12. CASE UNCHANGED vars
  BY <1>12 DEF vars, files, handler, bounds, HeaderReady, HasHeader
<1>13. QED
  BY <1>5, <1>6, <1>7, <1>8, <1>9, <1>10, <1>11, <1>12 DEF UploadNext, Handler

\* What is written behind a header leaves it there.
LEMMA HeaderStays ==
    ASSUME NEW f \in Seq(Cell), NEW s \in Seq(Cell), HasHeader(f)
    PROVE  HasHeader(f \o s)
<1>1. Len(f) \in Nat /\ Len(s) \in Nat
  BY LenProperties
<1>2. Len(f \o s) = Len(f) + Len(s) /\ (f \o s)[1] = f[1] /\ (f \o s)[2] = f[2]
  BY <1>1 DEF HasHeader
<1>3. QED
  BY <1>1, <1>2 DEF HasHeader

\* So does a header, or part of one, that is written over it.
LEMMA HeaderRewritten ==
    ASSUME NEW f \in Seq(Cell), NEW s \in Seq(Cell), HasHeader(s), HasHeader(f),
           NEW q \in Prefixes(s)
    PROVE  HasHeader(WriteAtStart(f, q))
<1>1. q \in Seq(Cell)
  BY PrefixTyped
<1>2. Len(f) \in Nat /\ Len(s) \in Nat /\ Len(q) \in Nat
  BY <1>1, LenProperties
<1>3. \A k \in 1 .. Len(q) : q[k] = s[k]
  <2>1. PICK l \in 0 .. Len(s) : q = SubSeq(s, 1, l)
    BY DEF Prefixes
  <2>2. QED
    BY <1>2, <2>1, SubSeqProperties
<1>4. PICK w : w = WriteAtStart(f, q)
  OBVIOUS
<1>5. /\ Len(w) = IF Len(f) <= Len(q) THEN Len(q) ELSE Len(f)
      /\ \A k \in 1 .. Len(w) : w[k] = IF k <= Len(q) THEN q[k] ELSE f[k]
  BY <1>1, <1>4, WrittenAtStart
<1>6. Len(w) \in Nat /\ Len(w) >= 2
  BY <1>2, <1>5 DEF HasHeader
<1>7. w[1] \in {s[1], f[1]} /\ w[2] \in {s[2], f[2]}
  BY <1>2, <1>3, <1>5, <1>6
<1>8. QED
  BY <1>4, <1>6, <1>7 DEF HasHeader

\* As long as no call has failed, ever or since the last begin, an image that is
\* removed (sysrom.cpp:189) leaves one with its header under the temporary name,
\* which is there until it is renamed or the next upload begins.
THEOREM ImagesKept == UploadSpec => ImageKept
<1> DEFINE Guarded == (clean \/ faults = 0) /\ ImageLeft /\ ~ ImageLeft' => pc = "begin_open"
<1>1. TypeInv /\ HeaderReady /\ [UploadNext]_vars => [Guarded]_vars
  <2> SUFFICES ASSUME TypeInv, HeaderReady, UploadNext, clean \/ faults = 0, ImageLeft,
                      pc # "begin_open"
               PROVE  ImageLeft'
    OBVIOUS
  <2>1. temp \in File /\ out \in Seq(Cell) /\ Absent \notin Seq(Cell)
    BY UploadAssumption DEF TypeInv, StepsTyped, FilesTyped
  <2>2. pc \in TempThere => temp \in Seq(Cell)
    BY <2>1 DEF TypeInv, StepsTyped, File
  <2>3. ASSUME UNCHANGED smbios2,
               temp # Absent /\ HasHeader(temp) => temp' # Absent /\ HasHeader(temp')
        PROVE  ImageLeft'
    BY <2>3 DEF ImageLeft
  <2>4. CASE UNCHANGED <<temp, smbios2>>
    BY <2>4 DEF ImageLeft, HasHeader
  <2>5. ASSUME NEW s \in Seq(Cell), temp' = temp \o s, UNCHANGED smbios2, temp \in Seq(Cell)
        PROVE  ImageLeft'
    <3>1. temp \o s \in Seq(Cell)
      BY <2>5
    <3>2. temp' # Absent
      BY <2>1, <2>5, <3>1
    <3>3. HasHeader(temp) => HasHeader(temp \o s)
      BY <2>5, HeaderStays
    <3>4. QED
      BY <2>3, <2>5, <3>2, <3>3
  <2>6. ASSUME FlushAppended, UNCHANGED smbios2, temp \in Seq(Cell) PROVE ImageLeft'
    BY <2>1, <2>5, <2>6, PrefixTyped DEF FlushAppended
  <2>7. CASE Host
    BY <2>4, <2>7 DEF Host, HostBegin, HostRecords, HostEnd, HostRetry, Send, files
  <2>8. CASE BeginClose \/ RecordsClose
    BY <2>2, <2>6, <2>8 DEF BeginClose, RecordsClose, TempThere
  <2>9. CASE RecordsOpen \/ EndOpen
    BY <2>3, <2>4, <2>9 DEF RecordsOpen, EndOpen, Opened
  <2>10. CASE RecordsNext \/ DbWrite \/ DbRead \/ Sync
    BY <2>4, <2>10 DEF RecordsNext, DbWrite, DbRead, Sync, files
  <2>11. CASE EndClose
    <3>1. pc = "end_close" /\ UNCHANGED smbios2 /\ temp \in Seq(Cell) /\ HasHeader(out)
      BY <2>2, <2>11 DEF EndClose, TempThere, HeaderReady
    <3>2. PICK q \in Prefixes(out) : temp' = WriteAtStart(temp, q)
      BY <2>1, <2>11, WholeIsPrefix DEF EndClose
    <3>3. temp' # Absent
      BY <2>1, <3>1, <3>2, PrefixTyped, WrittenAtStart
    <3>4. HasHeader(temp) => HasHeader(WriteAtStart(temp, q))
      BY <2>1, <3>1, HeaderRewritten
    <3>5. QED
      BY <2>3, <3>1, <3>2, <3>3, <3>4
  <2>12. CASE RemoveOld
    <3>1. pc = "remove" /\ UNCHANGED temp /\ temp \in Seq(Cell) /\ HasHeader(temp)
      BY <2>2, <2>12 DEF RemoveOld, TempThere, HeaderReady
    <3>2. QED
      BY <2>1, <3>1 DEF ImageLeft, HasHeader
  <2>13. CASE RenameTemp
    <3>1. pc = "rename" /\ temp \in Seq(Cell)
      BY <2>2, <2>13 DEF RenameTemp, TempThere
    <3>2. smbios2' = temp \/ UNCHANGED <<temp, smbios2>>
      BY <2>13 DEF RenameTemp
    <3>3. QED
      BY <2>1, <2>4, <3>1, <3>2 DEF ImageLeft
  <2>14. CASE Crash
    BY <2>1, <2>2, <2>4, <2>5, <2>14, PrefixTyped DEF Crash, TempThere
  <2>15. CASE BeginOpen
    BY <2>15 DEF BeginOpen
  <2>16. QED
    BY <2>7, <2>8, <2>9, <2>10, <2>11, <2>12, <2>13, <2>14, <2>15 DEF UploadNext, Handler
<1>2. UploadInit => HeaderReady
  BY DEF UploadInit, HeaderReady
<1>3. TypeInv /\ HeaderReady /\ [UploadNext]_vars => HeaderReady'
  BY HeaderNext
<1>4. QED
  BY <1>1, <1>2, <1>3, TypeInvariant, PTL DEF UploadSpec, ImageKept

-----------------------------------------------------------------------------
(***************************************************************************)
(* An image has a version other than the one it replaces.                  *)
(***************************************************************************)

\* The remainder of a smaller number is the number.
LEMMA SmallRemainder ==
    ASSUME NEW x \in Nat, NEW m \in Nat, x < m
    PROVE  x % m = x
OBVIOUS

\* The steps of an end up to the rename.
EndSteps == {"end_open", "db_write", "db_read", "end_close", "remove", "rename"}

\* The image was published in the present life of the daemon, and dirVer cannot
\* have come round since.
SameLife ==
    /\ published # None /\ published.crashes = crashes
    /\ begins - published.begins < DIRVER_MOD

\* An upload without faults was begun, and has not been ended twice.
CleanOnce ==
    /\ pc = "idle" /\ unanswered # None => ~ clean
    /\ clean /\ pc \in EndSteps \cup {"sync"} => phase = "done"

\* d is the number of uploads opened since the image was published.
Opens(d) ==
    /\ dirVer = published.dirVer + d \/ dirVer = published.dirVer + d - DIRVER_MOD
    /\ pc = "begin_open" => d < begins - published.begins
    /\ clean /\ published.begins < begins /\ pc # "begin_open" => d >= 1

\* Since such an image was published, dirVer has moved on once for each
\* upload opened, which are no more than were begun.
VersionsCounted ==
    SameLife =>
        /\ pc = "idle" => unanswered = None
        /\ published.begins <= begins
        /\ clean /\ (phase = "uploading" \/ pc \in EndSteps) => published.begins < begins
        /\ \E d \in 0 .. begins - published.begins : Opens(d)

\* The image is of the present life of the daemon or of one before.
PublishedBefore == published # None => published.crashes <= crashes

\* No step changes that.
LEMMA PublishedBeforeNext ==
    ASSUME StepsTyped, PublishedBefore, [UploadNext]_vars
    PROVE  PublishedBefore'
<1>1. crashes \in Nat /\ (published # None => published.crashes \in Nat)
  BY DEF StepsTyped, FilesTyped, Publication
<1>2. crashes' \in {crashes, crashes + 1}
  BY DEF UploadNext, Host, HostBegin, HostRecords, HostEnd, HostRetry, Send, Handler, BeginOpen,
         BeginClose, RecordsOpen, RecordsNext, RecordsClose, EndOpen, DbWrite, DbRead, EndClose,
         RemoveOld, RenameTemp, Sync, FlushAppended, Succeeds, Fails, bounds, Crash, vars
<1>3. CASE RenameTemp
  <2>1. crashes' = crashes
    BY <1>3 DEF RenameTemp, Succeeds, Fails, bounds
  <2>2. published' = published \/ published'.crashes = crashes
    BY <1>3 DEF RenameTemp
  <2>3. QED
    BY <1>1, <2>1, <2>2 DEF PublishedBefore
<1>4. CASE UNCHANGED published
  BY <1>1, <1>2, <1>4 DEF PublishedBefore
<1>5. UNCHANGED published \/ RenameTemp
  BY DEF UploadNext, Host, HostBegin, HostRecords, HostEnd, HostRetry, Send, Handler, BeginOpen,
         BeginClose, RecordsOpen, RecordsNext, RecordsClose, EndOpen, DbWrite, DbRead, EndClose,
         RemoveOld, RenameTemp, Sync, Crash, vars
<1>6. QED
  BY <1>3, <1>4, <1>5

\* Both facts are kept: a stray end is not clean, and neither is a repeated one.
LEMMA CleanOnceNext ==
    ASSUME StepsTyped, CleanOnce, [UploadNext]_vars
    PROVE  CleanOnce'
<1> USE DEF CleanOnce, EndSteps
<1>1. CASE HostBegin
  BY <1>1 DEF HostBegin, Send, FirstStep
<1>2. CASE \E blob \in Blobs : HostRecords(blob)
  BY <1>2 DEF HostRecords, Send, FirstStep
<1>3. CASE HostEnd
  BY <1>3 DEF HostEnd, Send, FirstStep, Stray
<1>4. CASE HostRetry
  <2>1. pc = "idle" /\ unanswered # None /\ clean' = clean
    BY <1>4 DEF HostRetry, Send
  <2>2. ~ clean'
    BY <2>1
  <2>3. QED
    BY <2>2
<1>5. ASSUME NEW call, Fails(call) PROVE CleanOnce'
  BY <1>5 DEF Fails
<1>6. ASSUME Answer PROVE CleanOnce'
  BY <1>6, UploadAssumption DEF Answer
<1>7. CASE BeginOpen \/ BeginClose \/ RecordsOpen \/ RecordsNext \/ RecordsClose
  <2>1. CASE Answer
    BY <1>6, <2>1
  <2>2. CASE pc' \in {"begin_close", "records"}
    BY <2>2
  <2>3. QED
    BY <1>7, <2>1, <2>2 DEF BeginOpen, BeginClose, RecordsOpen, RecordsNext, RecordsClose, Goto
<1>8. CASE EndOpen \/ DbWrite \/ DbRead \/ EndClose \/ RemoveOld \/ RenameTemp \/ Sync
  <2>1. CASE Answer
    BY <1>6, <2>1
  <2>2. CASE Fails("open") \/ Fails("write") \/ Fails("remove") \/ Fails("rename")
    BY <1>5, <2>2
  <2>3. CASE Succeeds /\ \E step \in EndSteps \cup {"sync"} : Goto(step)
    BY <1>8, <2>3 DEF EndOpen, DbWrite, DbRead, EndClose, RemoveOld, RenameTemp, Sync, Goto, Succeeds, host
  <2>4. QED
    BY <1>8, <2>1, <2>2, <2>3 DEF EndOpen, DbWrite, DbRead, EndClose, RemoveOld, RenameTemp, Sync
<1>9. CASE Crash
  BY <1>9 DEF Crash
<1>10. CASE UNCHANGED vars
  BY <1>10 DEF vars, handler, host
<1>11. QED
  BY <1>1, <1>2, <1>3, <1>4, <1>7, <1>8, <1>9, <1>10 DEF UploadNext, Host, Handler

\* A step that opens, begins and publishes nothing.
LEMMA QuietStep ==
    ASSUME VersionsCounted, UNCHANGED <<published, crashes, begins, dirVer, phase>>,
           clean' => clean, pc' \in EndSteps => pc \in EndSteps,
           pc # "begin_open", pc' # "begin_open", pc' = "idle" => unanswered' = None
    PROVE  VersionsCounted'
<1> SUFFICES ASSUME SameLife PROVE VersionsCounted'
  BY DEF SameLife, VersionsCounted
<1>1. PICK d \in 0 .. begins - published.begins : Opens(d)
  BY DEF VersionsCounted
<1>2. Opens(d)'
  BY <1>1 DEF Opens
<1>3. QED
  BY <1>1, <1>2 DEF VersionsCounted

\* It is kept as long as dirVer cannot come back to where it was.
LEMMA VersionsNext ==
    ASSUME StepsTyped, VersionsCounted, CleanOnce, PublishedBefore,
           [UploadNext]_vars
    PROVE  VersionsCounted'
<1>1. /\ begins \in Nat /\ begins <= MaxBegins /\ dirVer \in 0 .. DIRVER_MOD - 1
      /\ DIRVER_MOD \in Nat /\ MaxBegins \in Nat /\ crashes \in Nat
      /\ published # None => published.begins \in Nat /\ published.crashes \in Nat
                               /\ published.dirVer \in 0 .. DIRVER_MOD - 1
  BY UploadAssumption DEF StepsTyped, FilesTyped, Publication
<1>2. CASE HostBegin
  <2>1. /\ UNCHANGED <<published, crashes, dirVer>> /\ begins' = begins + 1 /\ pc' = "begin_open"
    BY <1>2 DEF HostBegin, Send, FirstStep, daemon
  <2> SUFFICES ASSUME SameLife PROVE VersionsCounted'
    BY <1>1, <2>1 DEF SameLife, VersionsCounted
  <2>2. PICK d \in 0 .. begins - published.begins : Opens(d)
    BY DEF VersionsCounted
  <2>3. published.begins \in Nat /\ published.begins <= begins
    BY <1>1 DEF SameLife, VersionsCounted
  <2>4. d \in 0 .. begins' - published'.begins /\ d < begins' - published'.begins
    BY <1>1, <2>1, <2>2, <2>3
  <2>5. Opens(d)'
    BY <2>1, <2>2, <2>4 DEF Opens
  <2>6. published'.begins < begins' /\ published'.begins <= begins'
    BY <1>1, <2>1, <2>3
  <2>7. \E x \in 0 .. begins' - published'.begins : Opens(x)'
    BY <2>4, <2>5
  <2>8. pc' # "idle"
    BY <2>1
  <2>9. QED
    BY <2>6, <2>7, <2>8 DEF VersionsCounted
<1>3. CASE \E blob \in Blobs : HostRecords(blob)
  <2>1. /\ UNCHANGED <<published, crashes, begins, dirVer, phase>> /\ pc' = "records_open"
        /\ clean' => clean /\ pc = "idle"
    BY <1>3 DEF HostRecords, Send, FirstStep, daemon
  <2>2. pc = "idle"
    BY <1>3 DEF HostRecords, Send
  <2>3. QED
    BY <2>1, <2>2, QuietStep DEF EndSteps
<1>4. CASE HostEnd
  <2>1. /\ UNCHANGED <<published, crashes, begins, dirVer>> /\ pc = "idle" /\ pc' = "end_open"
        /\ phase' = "done" /\ clean' = (clean /\ ~ Stray)
    BY <1>4 DEF HostEnd, Send, FirstStep, daemon
  <2>7. (clean' => clean) /\ (clean' => phase = "uploading")
    BY <2>1 DEF Stray
  <2> SUFFICES ASSUME SameLife PROVE VersionsCounted'
    BY <2>1 DEF SameLife, VersionsCounted
  <2>2. PICK d \in 0 .. begins - published.begins : Opens(d)
    BY DEF VersionsCounted
  <2>3. Opens(d)'
    BY <2>1, <2>2, <2>7 DEF Opens
  <2>4. clean' => published'.begins < begins'
    BY <2>1, <2>7 DEF VersionsCounted
  <2>5. published'.begins <= begins'
    BY <2>1 DEF VersionsCounted
  <2>6. d \in 0 .. begins' - published'.begins
    BY <2>1, <2>2
  <2>8. QED
    BY <2>1, <2>3, <2>4, <2>5, <2>6 DEF VersionsCounted
<1>5. CASE HostRetry
  <2>1. UNCHANGED <<published, crashes, begins>> /\ pc = "idle" /\ unanswered # None
    BY <1>5 DEF HostRetry, Send
  <2>2. ~ SameLife
    BY <2>1 DEF VersionsCounted
  <2>3. QED
    BY <2>1, <2>2 DEF VersionsCounted, SameLife
<1>6. CASE BeginOpen
  <2>1. UNCHANGED <<published, begins, phase>> /\ pc = "begin_open" /\ crashes' = crashes
    BY <1>6 DEF BeginOpen, Succeeds, Fails, bounds, Goto, Answer, host
  <2> SUFFICES ASSUME SameLife PROVE VersionsCounted'
    BY <2>1 DEF SameLife, VersionsCounted
  <2>2. PICK d \in 0 .. begins - published.begins : Opens(d)
    BY DEF VersionsCounted
  <2>3. published.begins <= begins /\ d < begins - published.begins
        /\ published.begins \in Nat /\ d \in Nat /\ published.dirVer \in 0 .. DIRVER_MOD - 1
        /\ d < DIRVER_MOD
    BY <1>1, <2>1, <2>2 DEF VersionsCounted, Opens, SameLife
  <2>4. CASE Fails("open") /\ Answer /\ UNCHANGED dirVer
    <3>1. ~ clean' /\ pc' = "idle" /\ unanswered' = None /\ UNCHANGED dirVer
      BY <2>4 DEF Fails, Answer
    <3>2. Opens(d)'
      BY <2>1, <2>2, <3>1 DEF Opens
    <3>3. QED
      BY <2>1, <2>2, <2>3, <3>1, <3>2 DEF VersionsCounted
  <2>5. CASE Succeeds /\ dirVer' = (dirVer + 1) % DIRVER_MOD /\ Goto("begin_close")
    <3>1. pc' = "begin_close" /\ UNCHANGED clean
      BY <2>5 DEF Goto, Succeeds
    <3>2. d + 1 \in 0 .. begins' - published'.begins /\ d + 1 >= 1
      BY <1>1, <2>1, <2>3
    <3>3. dirVer' = dirVer + 1 \/ (dirVer' = 0 /\ dirVer = DIRVER_MOD - 1)
      <4>1. CASE dirVer + 1 < DIRVER_MOD
        <5>1. dirVer + 1 \in Nat /\ DIRVER_MOD \in Nat
          BY <1>1
        <5>2. (dirVer + 1) % DIRVER_MOD = dirVer + 1
          BY <4>1, <5>1, SmallRemainder, Zenon
        <5>3. QED
          BY <2>5, <5>2
      <4>2. CASE dirVer + 1 = DIRVER_MOD
        BY <4>2, <2>5, <1>1
      <4>3. QED
        BY <4>1, <4>2, <1>1
    <3>4. dirVer' = published.dirVer + (d + 1) \/ dirVer' = published.dirVer + (d + 1) - DIRVER_MOD
      <4>1. CASE dirVer' = dirVer + 1
        BY <4>1, <1>1, <2>2, <2>3 DEF Opens
      <4>2. CASE dirVer' = 0 /\ dirVer = DIRVER_MOD - 1
        <5>1. dirVer # published.dirVer + d - DIRVER_MOD
          BY <4>2, <1>1, <2>3
        <5>2. dirVer = published.dirVer + d
          BY <2>2, <5>1 DEF Opens
        <5>3. QED
          BY <4>2, <5>2, <1>1, <2>3
      <4>3. QED
        BY <3>3, <4>1, <4>2
    <3>5. Opens(d + 1)'
      BY <2>1, <3>1, <3>2, <3>4 DEF Opens
    <3>6. published'.begins < begins' /\ published'.begins <= begins'
      BY <1>1, <2>1, <2>3
    <3>7. QED
      BY <3>1, <3>2, <3>5, <3>6 DEF VersionsCounted, EndSteps
  <2>6. QED
    BY <1>6, <2>4, <2>5 DEF BeginOpen
<1>7. CASE RenameTemp
  <2>1. pc = "rename" /\ dirVer' = dirVer /\ UNCHANGED phase /\ begins' = begins /\ crashes' = crashes
    BY <1>7 DEF RenameTemp, daemon, Succeeds, Fails, bounds, Goto, Answer, host
  <2>2. CASE Succeeds /\ Goto("sync")
             /\ published' = [sent |-> sent, clean |-> clean, begins |-> begins,
                              dirVer |-> dirVer, crashes |-> crashes]
    <3>1. clean' = clean /\ pc' = "sync"
      BY <2>2 DEF Succeeds, Goto
    <3>2. published'.begins = begins' /\ published'.dirVer = dirVer'
      BY <2>1, <2>2
    <3>3. 0 \in 0 .. begins' - published'.begins /\ ~ (published'.begins < begins')
          /\ published'.begins <= begins' /\ dirVer' = published'.dirVer + 0
      BY <1>1, <2>1, <3>2
    <3>4. Opens(0)'
      BY <3>1, <3>3 DEF Opens
    <3>5. clean' => phase' # "uploading"
      BY <2>1, <3>1 DEF CleanOnce, EndSteps
    <3>6. QED
      BY <3>1, <3>3, <3>4, <3>5 DEF VersionsCounted, EndSteps
  <2>3. CASE Fails("rename") /\ Answer /\ UNCHANGED published
    <3>1. ~ clean' /\ pc' = "idle" /\ unanswered' = None
      BY <2>3 DEF Fails, Answer
    <3>2. QED
      BY <2>1, <2>3, <3>1, QuietStep DEF EndSteps
  <2>4. QED
    BY <1>7, <2>2, <2>3 DEF RenameTemp
<1>8. CASE BeginClose \/ RecordsOpen \/ RecordsNext \/ RecordsClose \/ EndOpen \/ DbWrite \/ DbRead
           \/ EndClose \/ RemoveOld \/ Sync
  <2>1. UNCHANGED <<published, dirVer>>
    BY <1>8 DEF BeginClose, RecordsOpen, RecordsNext, RecordsClose, EndOpen, DbWrite, DbRead,
                EndClose, RemoveOld, Sync, daemon
  <2>2. UNCHANGED phase /\ begins' = begins /\ crashes' = crashes /\ (clean' = clean \/ clean' = FALSE)
    BY <1>8 DEF BeginClose, RecordsOpen, RecordsNext, RecordsClose, EndOpen, DbWrite, DbRead,
                EndClose, RemoveOld, Sync, FlushAppended, Succeeds, Fails, bounds, Goto, Answer, host
  <2>3. pc # "begin_open" /\ pc' # "begin_open" /\ (pc' \in EndSteps => pc \in EndSteps)
    BY <1>8 DEF BeginClose, RecordsOpen, RecordsNext, RecordsClose, EndOpen, DbWrite, DbRead,
                EndClose, RemoveOld, Sync, Goto, Answer, EndSteps
  <2>4. pc' = "idle" => unanswered' = None
    BY <1>8 DEF BeginClose, RecordsOpen, RecordsNext, RecordsClose, EndOpen, DbWrite, DbRead,
                EndClose, RemoveOld, Sync, Goto, Answer
  <2>5. clean' => clean
    BY <2>2
  <2>6. UNCHANGED <<published, crashes, begins, dirVer, phase>>
    BY <2>1, <2>2
  <2>7. QED
    BY <2>3, <2>4, <2>5, <2>6, QuietStep
<1>9. CASE Crash
  <2>1. crashes' = crashes + 1 /\ published' = published
    BY <1>9 DEF Crash
  <2>2. ~ SameLife'
    BY <1>1, <2>1 DEF SameLife, PublishedBefore
  <2>3. QED
    BY <2>2 DEF VersionsCounted
<1>10. CASE UNCHANGED vars
  BY <1>10 DEF vars, daemon, handler, bounds, host, VersionsCounted, SameLife, Opens
<1>11. QED
  BY <1>2, <1>3, <1>4, <1>5, <1>6, <1>7, <1>8, <1>9, <1>10 DEF UploadNext, Host, Handler

\* dirVer (sysrom.cpp:142) tells the image of an undisturbed upload from the one it
\* replaces, if both are of one life of the daemon and fewer uploads were begun
\* between them than dirVer has values.
THEOREM VersionsAdvance == UploadSpec => VersionAdvances
<1> DEFINE Inv == CleanOnce /\ PublishedBefore /\ VersionsCounted
           Advances == published' # published /\ published # None /\ published'.clean
                         /\ published'.crashes = published.crashes
                         /\ published'.begins - published.begins < DIRVER_MOD
                       => published'.dirVer # published.dirVer
<1>1. UploadInit => Inv
  BY DEF UploadInit, CleanOnce, PublishedBefore, VersionsCounted, SameLife, EndSteps
<1>2. TypeInv /\ Inv /\ [UploadNext]_vars => Inv'
  BY CleanOnceNext, PublishedBeforeNext, VersionsNext DEF TypeInv
<1>3. TypeInv /\ Inv /\ [UploadNext]_vars => [Advances]_vars
  <2> SUFFICES ASSUME TypeInv, Inv, UploadNext, published' # published, published # None,
                      published'.clean, published'.crashes = published.crashes,
                      published'.begins - published.begins < DIRVER_MOD
               PROVE  published'.dirVer # published.dirVer
    OBVIOUS
  <2>1. RenameTemp /\ published' = [sent |-> sent, clean |-> clean, begins |-> begins,
                                    dirVer |-> dirVer, crashes |-> crashes]
    BY DEF UploadNext, Host, HostBegin, HostRecords, HostEnd, HostRetry, Send, Handler, BeginOpen,
           BeginClose, RecordsOpen, RecordsNext, RecordsClose, EndOpen, DbWrite, DbRead, EndClose,
           RemoveOld, RenameTemp, Sync, Crash
  <2>2. SameLife /\ clean /\ pc = "rename" /\ published'.dirVer = dirVer
    BY <2>1 DEF SameLife, RenameTemp
  <2>3. published.begins < begins
    BY <2>2 DEF VersionsCounted, EndSteps
  <2>4. PICK d \in 0 .. begins - published.begins : Opens(d)
    BY <2>2 DEF VersionsCounted
  <2>5. d >= 1
    BY <2>2, <2>3, <2>4 DEF Opens
  <2>6. /\ published.dirVer \in Nat /\ published.begins \in Nat
        /\ begins \in Nat /\ DIRVER_MOD \in Nat
    BY UploadAssumption DEF TypeInv, StepsTyped, FilesTyped, Publication
  <2>7. d < DIRVER_MOD /\ d \in Nat
    BY <2>2, <2>4, <2>6 DEF SameLife
  <2>8. dirVer # published.dirVer
    BY <2>4, <2>5, <2>6, <2>7 DEF Opens
  <2>9. QED
    BY <2>2, <2>8
<1> HIDE DEF Inv
<1>4. QED
  BY <1>1, <1>2, <1>3, TypeInvariant, PTL DEF UploadSpec, VersionAdvances

-----------------------------------------------------------------------------
(***************************************************************************)
(* The bytes of records.                                                   *)
(***************************************************************************)

\* What is written of one record more comes behind the rest.
LEMMA AllCellsAppend ==
    ASSUME NEW rs \in Seq(Record), NEW r \in Record
    PROVE  /\ AllCells(rs) \in Seq(Cell)
           /\ AllCells(Append(rs, r)) = AllCells(rs) \o Cells(r)
<1> DEFINE n   == Len(rs)
           cs  == [k \in DOMAIN rs |-> Cells(rs[k])]
           all == Append(rs, r)
           ca  == [k \in DOMAIN all |-> Cells(all[k])]
<1>1. /\ n \in Nat /\ DOMAIN rs = 1 .. n
      /\ all \in Seq(Record) /\ Len(all) = n + 1 /\ DOMAIN all = 1 .. n + 1
      /\ \A k \in 1 .. n : all[k] = rs[k] /\ rs[k] \in Record
      /\ all[n + 1] = r
  BY LenProperties, AppendProperties, ElementOfSeq
<1> HIDE DEF n, all
<1>2. cs \in Seq(Seq(Cell)) /\ Len(cs) = n
  <2>1. cs \in [1 .. n -> Seq(Cell)]
    BY <1>1, CellsOf
  <2>2. QED
    BY <1>1, <2>1
<1>3. ca = Append(cs, Cells(r))
  <2>1. ca \in [1 .. n + 1 -> Seq(Cell)]
    BY <1>1, CellsOf, ElementOfSeq
  <2>2. ca \in Seq(Seq(Cell)) /\ Len(ca) = n + 1
    BY <1>1, <2>1
  <2>3. Cells(r) \in Seq(Cell)
    BY CellsOf
  <2>4. /\ Append(cs, Cells(r)) \in Seq(Seq(Cell)) /\ Len(Append(cs, Cells(r))) = n + 1
        /\ \A k \in 1 .. n : Append(cs, Cells(r))[k] = cs[k]
        /\ Append(cs, Cells(r))[n + 1] = Cells(r)
    BY <1>2, <2>3, AppendProperties
  <2>5. \A k \in 1 .. n : ca[k] = cs[k]
    BY <1>1
  <2>6. ca[n + 1] = Cells(r)
    BY <1>1
  <2>7. \A k \in 1 .. Len(ca) : ca[k] = Append(cs, Cells(r))[k]
    <3>1. SUFFICES ASSUME NEW k \in 1 .. n + 1 PROVE ca[k] = Append(cs, Cells(r))[k]
      BY <2>2
    <3>2. k \in 1 .. n \/ k = n + 1
      BY <1>1
    <3> HIDE DEF ca, cs
    <3>3. QED
      BY <3>2, <2>4, <2>5, <2>6
  <2> HIDE DEF ca, cs
  <2>8. QED
    BY <2>2, <2>4, <2>7, SeqEqual
<1>4. AllCells(rs) = FlattenSeq(cs) /\ AllCells(all) = FlattenSeq(ca)
  BY DEF AllCells
<1>5. Cells(r) \in Seq(Cell)
  BY CellsOf
<1> HIDE DEF cs, ca
<1>6. QED
  BY <1>2, <1>3, <1>4, <1>5, FlattenAppend DEF all

\* Nothing is made of no records.
LEMMA AllCellsOfNone == AllCells(<< >>) = << >>
<1>1. [k \in DOMAIN << >> |-> Cells(<< >>[k])] = << >>
  OBVIOUS
<1>2. FlattenSeq(<< >>) = << >>
  BY DEF FlattenSeq
<1>3. QED
  BY <1>1, <1>2 DEF AllCells

\* The sum of n numbers that are at most m is at most n * m.
LEMMA Times ==
    ASSUME NEW n \in Nat, NEW m \in Nat
    PROVE  n * m \in Nat /\ (n + 1) * m = n * m + m
OBVIOUS

\* Multiplication keeps the order.
LEMMA TimesMonotonic ==
    ASSUME NEW n \in Nat, NEW k \in Nat, n <= k, NEW m \in Nat
    PROVE  n * m <= k * m
OBVIOUS

\* Records that are no longer than most take no more than that each.
LEMMA AllCellsLength ==
    ASSUME NEW most \in Nat, \A r \in Record : r.len <= most, NEW rs \in Seq(Record)
    PROVE  Len(AllCells(rs)) <= Len(rs) * most
<1> DEFINE S == {n \in Nat : \A q \in Seq(Record) : Len(q) = n => Len(AllCells(q)) <= n * most}
<1>1. 0 \in S
  <2>1. \A q \in Seq(Record) : Len(q) = 0 => q = << >>
    BY EmptySeq
  <2>2. Len(<< >>) <= 0 * most
    OBVIOUS
  <2>3. QED
    BY <2>1, <2>2, AllCellsOfNone
<1>2. ASSUME NEW n \in S PROVE n + 1 \in S
  <2>1. SUFFICES ASSUME NEW q \in Seq(Record), Len(q) = n + 1
                 PROVE  Len(AllCells(q)) <= (n + 1) * most
    OBVIOUS
  <2>2. n \in Nat
    OBVIOUS
  <2>3. q # << >>
    BY <2>1, <2>2, EmptySeq
  <2>4. PICK p \in Seq(Record), r \in Record : q = Append(p, r)
    BY <2>3, SequenceEmptyOrAppend
  <2>5. Len(p) = n
    BY <2>1, <2>2, <2>4, AppendProperties, LenProperties
  <2>6. Len(AllCells(p)) <= n * most
    BY <2>5
  <2>7. Len(AllCells(q)) = Len(AllCells(p)) + r.len
    <3>1. AllCells(p) \in Seq(Cell) /\ Cells(r) \in Seq(Cell) /\ Len(Cells(r)) = r.len
      BY AllCellsAppend, CellsOf
    <3>2. AllCells(q) = AllCells(p) \o Cells(r)
      BY <2>4, AllCellsAppend
    <3>3. Len(AllCells(p) \o Cells(r)) = Len(AllCells(p)) + Len(Cells(r))
      BY <3>1, ConcatProperties
    <3>4. QED
      BY <3>1, <3>2, <3>3
  <2>8. r.len <= most /\ r.len \in Nat
    BY CellsOf
  <2>9. Len(AllCells(p)) \in Nat
    BY AllCellsAppend, LenProperties
  <2>10. (n + 1) * most = n * most + most /\ n * most \in Nat
    BY <2>2, Times
  <2>11. QED
    BY <2>6, <2>7, <2>8, <2>9, <2>10
<1> HIDE DEF S
<1>3. S = Nat
  <2>1. S \in SUBSET Nat
    BY DEF S
  <2>2. QED
    BY <1>1, <1>2, <2>1, Induction
<1>4. Len(rs) \in S
  BY <1>3, LenProperties
<1>5. QED
  BY <1>4 DEF S

\* What is written of records is cells.
LEMMA AllCellsTyped ==
    ASSUME NEW rs \in Seq(Record)
    PROVE  AllCells(rs) \in Seq(Cell)
<1>1. CASE rs = << >>
  BY <1>1, AllCellsOfNone, BlankTyped
<1>2. CASE rs # << >>
  <2>1. PICK p \in Seq(Record), r \in Record : rs = Append(p, r)
    BY <1>2, SequenceEmptyOrAppend
  <2>2. QED
    BY AllCellsAppend
<1>3. QED
  BY <1>1, <1>2

-----------------------------------------------------------------------------
(***************************************************************************)
(* An image is whole.                                                      *)
(***************************************************************************)

\* What a begin writes in place of the header.
Blank == <<NulCell, NulCell>>

\* The header over a file.
Header(f) == <<HdrCell(dirVer, Len(f) - MDR_SZ), EpCell>>

\* The records of a message that are already written, or about to be.
Written(file, s) == sent = s \o todo /\ file = Blank \o AllCells(s)

\* What the temporary file has of an upload in which nothing went wrong, at each
\* step.
Building ==
    clean =>
        /\ pc = "begin_open" => sent = << >>
        /\ pc = "begin_close" => sent = << >> /\ temp = << >> /\ out = Blank
        /\ pc = "idle" /\ phase = "uploading" => temp = Blank \o AllCells(sent)
        /\ pc = "records_open" => out = << >> /\ \E s \in Seq(Record) : Written(temp, s)
        /\ pc = "records" => \E s \in Seq(Record) : Written(temp \o out, s)
        /\ pc \in {"end_open", "db_write", "db_read", "end_close"} => temp = Blank \o AllCells(sent)
        /\ pc \in {"db_write", "db_read", "end_close"} => out = Header(temp)
        /\ pc \in {"remove", "rename"} => temp = Header(temp) \o AllCells(sent)

\* The file never outgrows what dataSize can say.
LEMMA SizeFits ==
    ASSUME NEW rs \in Seq(Record), Len(rs) <= MaxSent
    PROVE  /\ Blank \o AllCells(rs) \in Seq(Cell)
           /\ Len(Blank \o AllCells(rs)) = Len(AllCells(rs)) + 2
           /\ DataSize(Len(Blank \o AllCells(rs))) = Len(Blank \o AllCells(rs)) - MDR_SZ
<1>1. PICK most \in 0 .. DATASIZE_MOD :
        (\A r \in Record : r.len <= most) /\ MaxSent * most + 1 < DATASIZE_MOD
  BY SizeAssumption
<1>2. most \in Nat /\ MaxSent \in Nat /\ DATASIZE_MOD \in Nat
  BY UploadAssumption
<1>3. Len(AllCells(rs)) <= Len(rs) * most
  BY <1>1, <1>2, AllCellsLength
<1>4. Len(rs) \in Nat
  BY LenProperties
<1>5. Len(rs) * most <= MaxSent * most
  BY <1>2, <1>4, TimesMonotonic
<1>6. Len(rs) * most \in Nat /\ MaxSent * most \in Nat
  BY <1>2, <1>4, Times
<1>7. AllCells(rs) \in Seq(Cell) /\ Len(AllCells(rs)) \in Nat
  BY AllCellsTyped, LenProperties
<1>8. /\ Blank \o AllCells(rs) \in Seq(Cell)
      /\ Len(Blank \o AllCells(rs)) = Len(AllCells(rs)) + 2
  BY <1>7, BlankTyped, ConcatProperties DEF Blank
<1>9. Len(AllCells(rs)) + 1 < DATASIZE_MOD /\ Len(AllCells(rs)) + 1 \in Nat
  <2> DEFINE l == Len(AllCells(rs))
             p == Len(rs) * most
             q == MaxSent * most
  <2>1. l <= p /\ p <= q /\ q + 1 < DATASIZE_MOD /\ {l, p, q, DATASIZE_MOD} \subseteq Nat
    BY <1>1, <1>2, <1>3, <1>5, <1>6, <1>7
  <2> HIDE DEF l, p, q
  <2>2. l + 1 < DATASIZE_MOD /\ l + 1 \in Nat
    BY <2>1
  <2>3. QED
    BY <2>2 DEF l
<1>10. (Len(AllCells(rs)) + 1) % DATASIZE_MOD = Len(AllCells(rs)) + 1
  BY <1>2, <1>9, SmallRemainder
<1>11. Len(Blank \o AllCells(rs)) - MDR_SZ = Len(AllCells(rs)) + 1
  BY <1>7, <1>8 DEF MDR_SZ
<1>12. QED
  BY <1>8, <1>10, <1>11 DEF DataSize

\* The header takes the place of the blank, and the rest stays.
LEMMA HeaderOverBlank ==
    ASSUME NEW a \in Cell, NEW b \in Cell, NEW rest \in Seq(Cell)
    PROVE  WriteAtStart(Blank \o rest, <<a, b>>) = <<a, b>> \o rest
<1> DEFINE f == Blank \o rest
           g == <<a, b>> \o rest
           w == WriteAtStart(f, <<a, b>>)
<1>1. Len(rest) \in Nat /\ <<a, b>> \in Seq(Cell) /\ Len(<<a, b>>) = 2 /\ Blank \in Seq(Cell) /\ Len(Blank) = 2
  BY LenProperties, BlankTyped DEF Blank
<1>2. /\ f \in Seq(Cell) /\ Len(f) = 2 + Len(rest)
      /\ \A k \in 1 .. Len(f) : f[k] = IF k <= 2 THEN Blank[k] ELSE rest[k - 2]
  <2>1. /\ f \in Seq(Cell) /\ Len(f) = Len(Blank) + Len(rest)
        /\ \A k \in 1 .. Len(Blank) + Len(rest) :
              f[k] = IF k <= Len(Blank) THEN Blank[k] ELSE rest[k - Len(Blank)]
    BY <1>1, ConcatProperties
  <2>2. QED
    BY <1>1, <2>1
<1>3. /\ g \in Seq(Cell) /\ Len(g) = 2 + Len(rest)
      /\ \A k \in 1 .. Len(g) : g[k] = IF k <= 2 THEN <<a, b>>[k] ELSE rest[k - 2]
  <2>1. /\ g \in Seq(Cell) /\ Len(g) = Len(<<a, b>>) + Len(rest)
        /\ \A k \in 1 .. Len(<<a, b>>) + Len(rest) :
              g[k] = IF k <= Len(<<a, b>>) THEN <<a, b>>[k] ELSE rest[k - Len(<<a, b>>)]
    BY <1>1, ConcatProperties
  <2>2. QED
    BY <1>1, <2>1
<1> HIDE DEF f, g
<1>4. /\ w \in Seq(Cell) /\ Len(w) = 2 + Len(rest)
      /\ \A k \in 1 .. Len(w) : w[k] = IF k <= 2 THEN <<a, b>>[k] ELSE f[k]
  <2> DEFINE ab == <<a, b>>
  <2>1. ab \in Seq(Cell) /\ Len(ab) = 2
    BY <1>1
  <2> HIDE DEF ab
  <2>2. /\ WriteAtStart(f, ab) \in Seq(Cell)
        /\ Len(WriteAtStart(f, ab)) = IF Len(f) <= Len(ab) THEN Len(ab) ELSE Len(f)
        /\ \A k \in 1 .. Len(WriteAtStart(f, ab)) :
              WriteAtStart(f, ab)[k] = IF k <= Len(ab) THEN ab[k] ELSE f[k]
    BY <1>2, <2>1, WrittenAtStart
  <2>3. Len(f) <= 2 => Len(f) = 2
    BY <1>1, <1>2
  <2>4. Len(WriteAtStart(f, ab)) = 2 + Len(rest)
    BY <1>1, <1>2, <2>1, <2>2, <2>3
  <2>5. QED
    BY <2>1, <2>2, <2>4 DEF ab
<1> HIDE DEF w
<1>5. \A k \in 1 .. Len(w) : w[k] = g[k]
  BY <1>1, <1>2, <1>3, <1>4
<1>6. w = g
  BY <1>3, <1>4, <1>5, SeqEqual
<1>7. QED
  BY <1>6 DEF w, f, g

\* Concatenation of cells,
LEMMA CellsAssociative ==
    \A a, b, c \in Seq(Cell) : (a \o b) \o c = a \o (b \o c)
BY ConcatAssociative

\* and of records.
LEMMA RecordsAssociative ==
    \A a, b, c \in Seq(Record) : (a \o b) \o c = a \o (b \o c)
BY ConcatAssociative

\* A message is taken from the records to be written.
LEMMA OneMoreWritten ==
    ASSUME NEW s \in Seq(Record), NEW q \in Seq(Record), q # << >>,
           NEW f \in Seq(Cell), NEW o \in Seq(Cell), f \o o = Blank \o AllCells(s)
    PROVE  /\ Append(s, Head(q)) \in Seq(Record)
           /\ s \o q = Append(s, Head(q)) \o Tail(q)
           /\ f \o (o \o Cells(Head(q))) = Blank \o AllCells(Append(s, Head(q)))
<1> DEFINE h == Head(q)
<1>1. h \in Record /\ Tail(q) \in Seq(Record) /\ q = <<h>> \o Tail(q)
  BY HeadTailProperties, HeadThenTail
<1> HIDE DEF h
<1>2. <<h>> \in Seq(Record) /\ Append(s, h) = s \o <<h>> /\ Append(s, h) \in Seq(Record)
  BY <1>1, AppendIsConcat, AppendProperties
<1>3. (s \o <<h>>) \o Tail(q) = s \o (<<h>> \o Tail(q))
  BY <1>1, <1>2, RecordsAssociative
<1>4. s \o q = Append(s, h) \o Tail(q)
  BY <1>1, <1>2, <1>3
<1>5. Cells(h) \in Seq(Cell)
  BY <1>1, CellsOf
<1>6. AllCells(s) \in Seq(Cell) /\ AllCells(Append(s, h)) = AllCells(s) \o Cells(h)
  BY <1>1, AllCellsAppend
<1>7. Blank \in Seq(Cell)
  BY BlankTyped DEF Blank
<1>8. f \o (o \o Cells(h)) = (f \o o) \o Cells(h)
  BY <1>5, CellsAssociative
<1>9. (Blank \o AllCells(s)) \o Cells(h) = Blank \o (AllCells(s) \o Cells(h))
  BY <1>5, <1>6, <1>7, CellsAssociative
<1>10. f \o (o \o Cells(h)) = Blank \o AllCells(Append(s, h))
  BY <1>6, <1>8, <1>9
<1>11. QED
  BY <1>2, <1>4, <1>10 DEF h

\* What the host does leaves the file as it should be,
LEMMA BuildingHost ==
    ASSUME StepsTyped, CleanOnce, Building, Host
    PROVE  Building'
<1>1. CASE HostBegin
  BY <1>1 DEF HostBegin, Send, FirstStep, Building
<1>2. ASSUME NEW blob \in Blobs, HostRecords(blob) PROVE Building'
  <2>1. /\ pc = "idle" /\ pc' = "records_open" /\ clean' = (clean /\ ~ Stray)
        /\ todo' = blob /\ sent' = sent \o blob /\ UNCHANGED <<temp, out>>
    BY <1>2 DEF HostRecords, Send, FirstStep, files
  <2>2. SUFFICES ASSUME clean' PROVE out' = << >> /\ \E s \in Seq(Record) : Written(temp, s)'
    BY <2>1 DEF Building
  <2>3. temp = Blank \o AllCells(sent)
    BY <2>1, <2>2 DEF Building, Stray
  <2>4. sent \in Seq(Record) /\ out = << >>
    BY <2>1 DEF StepsTyped
  <2>5. QED
    BY <2>1, <2>3, <2>4 DEF Written
<1>3. CASE HostEnd
  <2>1. pc = "idle" /\ pc' = "end_open" /\ clean' = (clean /\ ~ Stray) /\ UNCHANGED <<temp, sent>>
    BY <1>3 DEF HostEnd, Send, FirstStep, files
  <2>2. clean' => temp' = Blank \o AllCells(sent)'
    BY <2>1 DEF Building, Stray
  <2>3. QED
    BY <2>1, <2>2 DEF Building
<1>4. CASE HostRetry
  <2>1. ~ clean'
    BY <1>4 DEF HostRetry, Send, CleanOnce
  <2>2. QED
    BY <2>1 DEF Building
<1>5. QED
  BY <1>1, <1>2, <1>3, <1>4 DEF Host

\* A file of a begin alone.
LEMMA BlankAndNone == Blank \o AllCells(<< >>) = Blank /\ << >> \o Blank = Blank
<1>1. Blank \in Seq(Cell)
  BY BlankTyped DEF Blank
<1>2. Blank \o << >> = Blank /\ << >> \o Blank = Blank
  BY <1>1, ConcatEmptySeq
<1>3. QED
  BY <1>2, AllCellsOfNone

\* and so do the steps of a begin,
LEMMA BuildingBegin ==
    ASSUME Building, BeginOpen \/ BeginClose
    PROVE  Building'
<1>1. ASSUME NEW call, Fails(call) PROVE Building'
  BY <1>1 DEF Fails, Building
<1>2. CASE BeginOpen /\ Succeeds /\ temp' = << >> /\ out' = <<NulCell, NulCell>> /\ Goto("begin_close")
  <2>1. pc = "begin_open" /\ pc' = "begin_close" /\ UNCHANGED <<clean, sent>>
    BY <1>2 DEF BeginOpen, Succeeds, Goto, host
  <2>2. QED
    BY <1>2, <2>1 DEF Building, Blank
<1>3. CASE BeginClose /\ Succeeds /\ temp' = temp \o out
  <2>1. pc = "begin_close" /\ pc' = "idle" /\ UNCHANGED <<clean, sent>>
    BY <1>3 DEF BeginClose, Succeeds, Answer
  <2>2. clean => temp' = Blank \o AllCells(sent)
    BY <1>3, <2>1, BlankAndNone DEF Building
  <2>3. QED
    BY <2>1, <2>2 DEF Building
<1>4. QED
  BY <1>1, <1>2, <1>3 DEF BeginOpen, BeginClose, FlushAppended

\* those of records,
LEMMA BuildingRecords ==
    ASSUME StepsTyped, Building, RecordsOpen \/ RecordsNext \/ RecordsClose
    PROVE  Building'
<1>1. ASSUME NEW call, Fails(call) PROVE Building'
  BY <1>1 DEF Fails, Building
<1>2. CASE RecordsOpen /\ Succeeds /\ temp' = Opened /\ Goto("records") /\ UNCHANGED out
  <2>1. pc = "records_open" /\ pc' = "records" /\ UNCHANGED <<clean, sent, todo, out>>
    BY <1>2 DEF RecordsOpen, Succeeds, Goto, host
  <2>2. SUFFICES ASSUME clean PROVE \E s \in Seq(Record) : Written(temp \o out, s)'
    BY <2>1 DEF Building
  <2>3. PICK s \in Seq(Record) : Written(temp, s) /\ out = << >>
    BY <2>1, <2>2 DEF Building
  <2>4. temp \in Seq(Cell)
    <3>1. Blank \in Seq(Cell) /\ AllCells(s) \in Seq(Cell)
      BY BlankTyped, AllCellsTyped DEF Blank
    <3>2. Blank \o AllCells(s) \in Seq(Cell)
      BY <3>1, ConcatProperties
    <3>3. QED
      BY <2>3, <3>2 DEF Written
  <2>5. temp' = temp /\ temp \o << >> = temp
    BY <1>2, <2>4, UploadAssumption, ConcatEmptySeq DEF Opened
  <2>6. Written(temp \o out, s)'
    BY <2>1, <2>3, <2>5 DEF Written
  <2>7. QED
    BY <2>6
<1>3. CASE RecordsNext
  <2>1. /\ pc = "records" /\ pc' = "records" /\ todo # << >> /\ UNCHANGED <<clean, sent, temp>>
        /\ todo' = Tail(todo) /\ out' = out \o Cells(Head(todo))
    BY <1>3 DEF RecordsNext, host, files
  <2>2. SUFFICES ASSUME clean PROVE \E s \in Seq(Record) : Written(temp \o out, s)'
    BY <2>1 DEF Building
  <2>3. PICK s \in Seq(Record) : Written(temp \o out, s)
    BY <2>1, <2>2 DEF Building
  <2>4. temp \in Seq(Cell) /\ out \in Seq(Cell) /\ todo \in Seq(Record)
    BY <2>1 DEF StepsTyped, FilesTyped, TempThere, File
  <2>5. /\ Append(s, Head(todo)) \in Seq(Record)
        /\ s \o todo = Append(s, Head(todo)) \o Tail(todo)
        /\ temp \o (out \o Cells(Head(todo))) = Blank \o AllCells(Append(s, Head(todo)))
    BY <2>1, <2>3, <2>4, OneMoreWritten DEF Written
  <2>6. PICK p \in Seq(Record) : s \o todo = p \o Tail(todo)
                                /\ temp \o (out \o Cells(Head(todo))) = Blank \o AllCells(p)
    BY <2>5
  <2>7. Written(temp \o out, p)'
    BY <2>1, <2>3, <2>6 DEF Written
  <2>8. QED
    BY <2>7
<1>4. CASE RecordsClose /\ Succeeds /\ temp' = temp \o out
  <2>1. pc = "records" /\ pc' = "idle" /\ todo = << >> /\ UNCHANGED <<clean, sent>>
    BY <1>4 DEF RecordsClose, Succeeds, Answer
  <2>2. SUFFICES ASSUME clean PROVE temp' = Blank \o AllCells(sent)
    BY <2>1 DEF Building
  <2>3. PICK s \in Seq(Record) : Written(temp \o out, s)
    BY <2>1, <2>2 DEF Building
  <2>4. s \o << >> = s
    BY ConcatEmptySeq
  <2>5. QED
    BY <1>4, <2>1, <2>3, <2>4 DEF Written
<1>5. QED
  BY <1>1, <1>2, <1>3, <1>4 DEF RecordsOpen, RecordsClose, FlushAppended

\* Of two cells each is one.
LEMMA PairTyped ==
    ASSUME NEW a, NEW b, <<a, b>> \in Seq(Cell)
    PROVE  a \in Cell /\ b \in Cell
<1> DEFINE ab == <<a, b>>
<1>1. Len(ab) = 2 /\ ab[1] = a /\ ab[2] = b
  OBVIOUS
<1>2. \A k \in 1 .. Len(ab) : ab[k] \in Cell
  BY ElementOfSeq
<1> HIDE DEF ab
<1>3. QED
  BY <1>1, <1>2

\* those of an end,
LEMMA BuildingEnd ==
    ASSUME StepsTyped, Building, EndOpen \/ DbWrite \/ DbRead \/ EndClose
    PROVE  Building'
<1>1. ASSUME NEW call, Fails(call) PROVE Building'
  BY <1>1 DEF Fails, Building
<1>2. sent \in Seq(Record) /\ Len(sent) <= MaxSent
  BY DEF StepsTyped
<1>3. CASE EndOpen /\ Succeeds /\ temp' = Opened
             /\ out' = <<HdrCell(dirVer, DataSize(Len(Opened))), EpCell>> /\ Goto("db_write")
  <2>1. pc = "end_open" /\ pc' = "db_write" /\ UNCHANGED <<clean, sent, dirVer>>
    BY <1>3 DEF EndOpen, Succeeds, Goto, host, daemon
  <2>2. SUFFICES ASSUME clean PROVE temp' = Blank \o AllCells(sent) /\ out' = Header(temp)'
    BY <2>1 DEF Building
  <2>3. temp = Blank \o AllCells(sent)
    BY <2>1, <2>2 DEF Building
  <2>4. temp \in Seq(Cell) /\ DataSize(Len(temp)) = Len(temp) - MDR_SZ
    BY <1>2, <2>3, SizeFits
  <2>5. Opened = temp
    BY <2>4, UploadAssumption DEF Opened
  <2>6. QED
    BY <1>3, <2>1, <2>3, <2>4, <2>5 DEF Header
<1>4. CASE (DbWrite \/ DbRead) /\ Succeeds
  <2>1. /\ pc \in {"db_write", "db_read"} /\ pc' \in {"db_read", "end_close"}
        /\ UNCHANGED <<clean, sent, temp, out, dirVer>>
    BY <1>4 DEF DbWrite, DbRead, Succeeds, Goto, host, daemon, files
  <2>2. QED
    BY <2>1 DEF Building, Header
<1>5. CASE EndClose /\ Succeeds /\ temp' = WriteAtStart(temp, out)
  <2>1. pc = "end_close" /\ pc' = "remove" /\ UNCHANGED <<clean, sent, dirVer>>
    BY <1>5 DEF EndClose, Succeeds, Goto, host, daemon
  <2>2. SUFFICES ASSUME clean PROVE temp' = Header(temp)' \o AllCells(sent)
    BY <2>1 DEF Building
  <2>3. temp = Blank \o AllCells(sent) /\ out = Header(temp)
    BY <2>1, <2>2 DEF Building
  <2>4. /\ temp \in Seq(Cell) /\ DataSize(Len(temp)) = Len(temp) - MDR_SZ
        /\ Len(temp) = Len(AllCells(sent)) + 2 /\ AllCells(sent) \in Seq(Cell)
    BY <1>2, <2>3, SizeFits, AllCellsTyped
  <2>5. HdrCell(dirVer, Len(temp) - MDR_SZ) \in Cell /\ EpCell \in Cell
    <3>1. <<HdrCell(dirVer, Len(temp) - MDR_SZ), EpCell>> \in Seq(Cell)
      BY <2>3 DEF StepsTyped, Header
    <3>2. QED
      BY <3>1, PairTyped
  <2>6. temp' = Header(temp) \o AllCells(sent)
    BY <1>5, <2>3, <2>4, <2>5, HeaderOverBlank DEF Header
  <2>7. Len(temp') = Len(temp)
    <3>1. Header(temp) \in Seq(Cell) /\ Len(Header(temp)) = 2
      BY <2>5 DEF Header
    <3>2. Len(Header(temp) \o AllCells(sent)) = Len(Header(temp)) + Len(AllCells(sent))
      BY <2>4, <3>1, ConcatProperties
    <3>3. Len(AllCells(sent)) \in Nat
      BY <2>4, LenProperties
    <3>4. QED
      BY <2>4, <2>6, <3>1, <3>2, <3>3
  <2>8. QED
    BY <2>1, <2>6, <2>7 DEF Header
<1>6. QED
  BY <1>1, <1>3, <1>4, <1>5 DEF EndOpen, DbWrite, DbRead, EndClose

\* and all others.
LEMMA BuildingNext ==
    ASSUME StepsTyped, CleanOnce, Building, [UploadNext]_vars
    PROVE  Building'
<1>1. CASE RemoveOld \/ RenameTemp
  <2>1. CASE Fails("remove") \/ Fails("rename")
    BY <2>1 DEF Fails, Building
  <2>2. CASE RemoveOld /\ Succeeds /\ Goto("rename")
    <3>1. pc = "remove" /\ pc' = "rename" /\ UNCHANGED <<clean, sent, temp, dirVer>>
      BY <2>2 DEF RemoveOld, Succeeds, Goto, host, daemon
    <3>2. QED
      BY <3>1 DEF Building, Header
  <2>3. CASE Goto("sync")
    BY <2>3 DEF Goto, Building
  <2>4. QED
    BY <1>1, <2>1, <2>2, <2>3 DEF RemoveOld, RenameTemp
<1>2. CASE Sync
  <2>1. pc = "sync" /\ pc' = "idle" /\ UNCHANGED <<clean, phase>>
    BY <1>2 DEF Sync, Answer
  <2>2. clean' => phase' # "uploading"
    BY <2>1 DEF CleanOnce
  <2>3. QED
    BY <2>1, <2>2 DEF Building
<1>3. CASE Crash
  BY <1>3 DEF Crash, Building
<1>4. CASE UNCHANGED vars
  BY <1>4 DEF vars, files, daemon, handler, host, Building, Written, Header
<1>5. QED
  BY <1>1, <1>2, <1>3, <1>4, BuildingHost, BuildingBegin, BuildingRecords, BuildingEnd
  DEF UploadNext, Handler

\* The rename publishes a whole file, and nothing else changes the image.
LEMMA PublishedNext ==
    ASSUME Building, PublishedWhole, [UploadNext]_vars
    PROVE  PublishedWhole'
<1>1. CASE UNCHANGED <<smbios2, published>>
  BY <1>1 DEF PublishedWhole
<1>2. CASE smbios2' = Absent
  BY <1>2 DEF PublishedWhole
<1>3. CASE RenameTemp /\ smbios2' = temp
             /\ published' = [sent |-> sent, clean |-> clean, begins |-> begins,
                              dirVer |-> dirVer, crashes |-> crashes]
  <2>1. SUFFICES ASSUME clean
                 PROVE  temp = <<HdrCell(dirVer, Len(temp) - MDR_SZ), EpCell>> \o AllCells(sent)
    BY <1>3 DEF PublishedWhole
  <2>2. QED
    BY <1>3, <2>1 DEF RenameTemp, Building, Header
<1>4. QED
  BY <1>1, <1>2, <1>3
  DEF UploadNext, Host, HostBegin, HostRecords, HostEnd, HostRetry, Send, Handler, BeginOpen,
      BeginClose, RecordsOpen, RecordsNext, RecordsClose, EndOpen, DbWrite, DbRead, EndClose,
      RemoveOld, RenameTemp, Sync, Crash, vars, files

\* The image of an upload in which nothing went wrong is whole, and its header says
\* its size (sysrom.cpp:163), whatever came before it.
THEOREM ImagesWhole == UploadSpec => []PublishedWhole
<1> DEFINE Inv == CleanOnce /\ Building /\ PublishedWhole
<1>1. UploadInit => Inv
  BY DEF UploadInit, CleanOnce, Building, PublishedWhole, EndSteps
<1>2. TypeInv /\ Inv /\ [UploadNext]_vars => Inv'
  BY CleanOnceNext, BuildingNext, PublishedNext DEF TypeInv
<1>3. Inv => PublishedWhole
  OBVIOUS
<1> HIDE DEF Inv
<1>4. QED
  BY <1>1, <1>2, <1>3, TypeInvariant, PTL DEF UploadSpec

-----------------------------------------------------------------------------
(***************************************************************************)
(* KeptOf() is defined by recursion: the function exists, is the only one, and one*)
(* record more adds what Keeping() says.                                   *)
(***************************************************************************)

\* A database that is empty.
NothingKept == [log |-> << >>, used |-> 0]

\* f is the function whose last value KeptOf(rs) is.
Keeps(f, rs) ==
    f = [n \in 0 .. Len(rs) |-> IF n = 0 THEN NothingKept ELSE Keeping(f[n - 1], rs[n])]

\* One record more.
LEMMA KeepsOn ==
    ASSUME NEW rs \in Seq(Record), NEW r \in Record, NEW f, Keeps(f, rs)
    PROVE  LET g == [n \in 0 .. Len(rs) + 1 |-> IF n <= Len(rs) THEN f[n] ELSE Keeping(f[Len(rs)], r)]
           IN  Keeps(g, Append(rs, r))
<1> DEFINE l == Len(rs)
           g == [n \in 0 .. l + 1 |-> IF n <= l THEN f[n] ELSE Keeping(f[l], r)]
           all == Append(rs, r)
<1>1. l \in Nat /\ Len(all) = l + 1 /\ all[l + 1] = r /\ \A n \in 1 .. l : all[n] = rs[n]
  BY LenProperties, AppendProperties
<1>2. f = [n \in 0 .. l |-> IF n = 0 THEN NothingKept ELSE Keeping(f[n - 1], rs[n])]
  BY DEF Keeps
<1> HIDE DEF l, all
<1>3. ASSUME NEW n \in 0 .. l + 1
      PROVE  g[n] = IF n = 0 THEN NothingKept ELSE Keeping(g[n - 1], all[n])
  <2>1. CASE n <= l
    <3>1. n \in 0 .. l /\ (n # 0 => n - 1 \in 0 .. l /\ n - 1 \in 0 .. l + 1 /\ n \in 1 .. l)
      BY <1>1, <2>1
    <3>2. f[n] = IF n = 0 THEN NothingKept ELSE Keeping(f[n - 1], rs[n])
      BY <1>2, <3>1
    <3>3. g[n] = f[n] /\ (n # 0 => g[n - 1] = f[n - 1] /\ all[n] = rs[n])
      BY <1>1, <3>1
    <3> HIDE DEF g
    <3>4. QED
      BY <3>2, <3>3
  <2>2. CASE n = l + 1
    <3>1. g[n] = Keeping(f[l], r) /\ g[n - 1] = f[l] /\ n # 0 /\ all[n] = r
      BY <1>1, <2>2
    <3> HIDE DEF g
    <3>2. QED
      BY <3>1
  <2>3. QED
    BY <1>1, <2>1, <2>2
<1>4. Keeps(g, all)
  BY <1>1, <1>3 DEF Keeps
<1>5. QED
  BY <1>4 DEF l, all

\* There is such a function,
LEMMA KeepsExists ==
    ASSUME NEW rs \in Seq(Record)
    PROVE  \E f : Keeps(f, rs)
<1> DEFINE S == {n \in Nat : \A q \in Seq(Record) : Len(q) = n => \E f : Keeps(f, q)}
<1>1. 0 \in S
  <2>1. SUFFICES ASSUME NEW q \in Seq(Record), Len(q) = 0 PROVE \E f : Keeps(f, q)
    OBVIOUS
  <2> DEFINE f == [n \in 0 .. Len(q) |-> NothingKept]
  <2>2. Keeps(f, q)
    BY <2>1 DEF Keeps
  <2>3. QED
    BY <2>2
<1>2. ASSUME NEW n \in S PROVE n + 1 \in S
  <2>1. SUFFICES ASSUME NEW q \in Seq(Record), Len(q) = n + 1 PROVE \E f : Keeps(f, q)
    OBVIOUS
  <2>2. q # << >>
    BY <2>1, EmptySeq
  <2>3. PICK p \in Seq(Record), r \in Record : q = Append(p, r)
    BY <2>2, SequenceEmptyOrAppend
  <2>4. Len(p) = n
    BY <2>1, <2>3, AppendProperties, LenProperties
  <2>5. PICK f : Keeps(f, p)
    BY <2>4
  <2>6. QED
    BY <2>3, <2>5, KeepsOn
<1> HIDE DEF S
<1>3. S = Nat
  <2>1. S \in SUBSET Nat
    BY DEF S
  <2>2. QED
    BY <1>1, <1>2, <2>1, Induction
<1>4. Len(rs) \in S
  BY <1>3, LenProperties
<1>5. QED
  BY <1>4 DEF S

\* and no other.
LEMMA KeepsUnique ==
    ASSUME NEW rs \in Seq(Record), NEW f, NEW g, Keeps(f, rs), Keeps(g, rs)
    PROVE  f = g
<1> DEFINE l == Len(rs)
           D == {n \in 0 .. l : f[n] # g[n]}
<1>1. l \in Nat
  BY LenProperties
<1>2. /\ f = [n \in 0 .. l |-> IF n = 0 THEN NothingKept ELSE Keeping(f[n - 1], rs[n])]
      /\ g = [n \in 0 .. l |-> IF n = 0 THEN NothingKept ELSE Keeping(g[n - 1], rs[n])]
  BY DEF Keeps
<1> HIDE DEF l
<1>3. SUFFICES ASSUME D # {} PROVE FALSE
  <2>1. \A n \in 0 .. l : f[n] = g[n]
    BY <1>3
  <2>2. DOMAIN f = 0 .. l /\ DOMAIN g = 0 .. l
    BY <1>2
  <2>3. f = [n \in DOMAIN f |-> f[n]] /\ g = [n \in DOMAIN g |-> g[n]]
    BY <1>2
  <2>4. QED
    BY <2>1, <2>2, <2>3
<1>4. D \in SUBSET Nat
  BY <1>1
<1>5. PICK n \in D : \A m \in D : n <= m
  <2> HIDE DEF D
  <2>1. QED
    BY <1>3, <1>4, LeastElement
<1>6. n # 0 /\ n - 1 \in 0 .. l /\ n - 1 \notin D /\ n \in 0 .. l
  <2>1. n \in 0 .. l
    OBVIOUS
  <2>2. f[0] = NothingKept /\ g[0] = NothingKept
    BY <1>2, <2>1, <1>1
  <2>3. n # 0
    BY <2>2
  <2>4. n - 1 \in 0 .. l
    BY <2>1, <2>3, <1>1
  <2>5. n - 1 \notin D
    BY <1>5, <2>1, <1>1
  <2>6. QED
    BY <2>1, <2>3, <2>4, <2>5
<1>7. f[n - 1] = g[n - 1]
  BY <1>6
<1>8. f[n] = Keeping(f[n - 1], rs[n]) /\ g[n] = Keeping(g[n - 1], rs[n])
  <2> HIDE DEF D
  <2>1. QED
    BY <1>2, <1>6
<1>9. QED
  BY <1>7, <1>8

\* So KeptOf() is its last value.
LEMMA KeptOfIs ==
    ASSUME NEW rs \in Seq(Record), NEW f, Keeps(f, rs)
    PROVE  KeptOf(rs) = f[Len(rs)]
<1> DEFINE F == CHOOSE h : Keeps(h, rs)
<1>1. Keeps(F, rs)
  OBVIOUS
<1>2. F = f
  BY <1>1, KeepsUnique
<1>3. KeptOf(rs) = F[Len(rs)]
  BY DEF KeptOf, Keeps, NothingKept
<1>4. QED
  BY <1>2, <1>3

\* Nothing is kept of no records, and of one more what Keeping() says.
LEMMA KeptOfNone == KeptOf(<< >>) = NothingKept
<1>1. << >> \in Seq(Record) /\ Len(<< >>) = 0
  OBVIOUS
<1>2. PICK f : Keeps(f, << >>)
  BY <1>1, KeepsExists
<1>3. f[0] = NothingKept
  BY <1>1, <1>2 DEF Keeps
<1>4. QED
  BY <1>1, <1>2, <1>3, KeptOfIs

\* of one more, what Keeping() says.
LEMMA KeptOfAppend ==
    ASSUME NEW rs \in Seq(Record), NEW r \in Record
    PROVE  KeptOf(Append(rs, r)) = Keeping(KeptOf(rs), r)
<1> DEFINE l == Len(rs)
<1>1. PICK f : Keeps(f, rs)
  BY KeepsExists
<1> DEFINE g == [n \in 0 .. l + 1 |-> IF n <= l THEN f[n] ELSE Keeping(f[l], r)]
<1>2. Keeps(g, Append(rs, r))
  BY <1>1, KeepsOn
<1>3. l \in Nat /\ Append(rs, r) \in Seq(Record) /\ Len(Append(rs, r)) = l + 1
  BY LenProperties, AppendProperties
<1>4. KeptOf(Append(rs, r)) = g[l + 1]
  <2> HIDE DEF g, l
  <2>1. QED
    BY <1>2, <1>3, KeptOfIs
<1>5. g[l + 1] = Keeping(f[l], r)
  BY <1>3
<1>6. KeptOf(rs) = f[l]
  BY <1>1, KeptOfIs
<1>7. QED
  BY <1>4, <1>5, <1>6

-----------------------------------------------------------------------------
(***************************************************************************)
(* The database has the records of the image.                              *)
(***************************************************************************)

\* The database has what it should keep of the records s.
Holds(s) == Kept = KeptOf(s).log /\ insert = KeptOf(s).used

\* The steps of a begin and of records.
BeginSteps   == {"begin_open", "begin_close"}
RecordsSteps == {"records_open", "records"}

\* In an upload in which nothing went wrong the database holds the records
\* sent that are not still to be handled.
Loading ==
    clean =>
        /\ pc \in BeginSteps \cup RecordsSteps => phase = "uploading"
        /\ pc \in BeginSteps => sent = << >> /\ todo = << >>
        /\ pc \in EndSteps \cup {"sync"} => todo = << >>
        /\ pc # "begin_open" =>
              /\ IInv /\ ver = SMBIOS_CFG_VERSION
              /\ \E s \in Seq(Record) : sent = s \o todo /\ Holds(s)

\* What the end of such an upload has done so far.
Ending ==
    clean =>
        /\ pc = "db_read" => dbfile = [of |-> Table, part |-> Whole]
        /\ pc \in {"db_read", "end_close", "remove", "rename", "sync"} => smbios_db = Table
        /\ pc = "sync" => published.begins = begins
        /\ pc = "idle" /\ phase = "done" => smbios_db = Table /\ published.begins = begins

\* A record moves from those to be handled to those that are.
LEMMA OneMoved ==
    ASSUME NEW s \in Seq(Record), NEW q \in Seq(Record), q # << >>
    PROVE  /\ Append(s, Head(q)) \in Seq(Record)
           /\ s \o q = Append(s, Head(q)) \o Tail(q)
<1> DEFINE h == Head(q)
<1>1. h \in Record /\ Tail(q) \in Seq(Record) /\ q = <<h>> \o Tail(q)
  BY HeadTailProperties, HeadThenTail
<1> HIDE DEF h
<1>2. <<h>> \in Seq(Record) /\ Append(s, h) = s \o <<h>> /\ Append(s, h) \in Seq(Record)
  BY <1>1, AppendIsConcat, AppendProperties
<1>3. (s \o <<h>>) \o Tail(q) = s \o (<<h>> \o Tail(q))
  BY <1>1, <1>2, RecordsAssociative
<1>4. QED
  BY <1>1, <1>2, <1>3 DEF h

\* One record, received in a database that holds those before.
LEMMA HoldsOneMore ==
    ASSUME IInv, NEW s \in Seq(Record), NEW r \in Record, Holds(s), smbios_data_record(r)
    PROVE  Holds(Append(s, r))' /\ IInv' /\ ver' = ver
<1>1. KeptOf(Append(s, r)) = Keeping(KeptOf(s), r)
  BY KeptOfAppend
<1>2. CASE \E i \in Slot : Store(r, i)
  <2>1. PICK i \in Slot : Store(r, i)
    BY <1>2
  <2>2. Log!Keep(r)
    BY <2>1, StoreKeeps
  <2>3. /\ r.len > 0 /\ r.type # Invalidated /\ Len(Kept) < NumRec /\ insert + r.len <= SzData
        /\ Kept' = Append(Kept, r) /\ insert' = insert + Rounded(r.len)
    BY <2>2 DEF Log!Keep, Log!Wanted, Log!HasRoom
  <2>4. /\ KeptOf(Append(s, r)).log = Append(Kept, r)
        /\ KeptOf(Append(s, r)).used = insert + Rounded(r.len)
    BY <1>1, <2>3 DEF Keeping, Holds
  <2>5. IInv' /\ ver' = ver
    BY <2>1, StoreIInv DEF Store
  <2>6. QED
    BY <2>3, <2>4, <2>5 DEF Holds
<1>3. CASE BadParm(r) \/ Filter(r) \/ Drop(r)
  <2>1. Log!Refuse(r)
    BY <1>3, RefusalJustified
  <2>2. /\ ~ (r.len > 0 /\ r.type # Invalidated /\ Len(Kept) < NumRec /\ insert + r.len <= SzData)
        /\ Kept' = Kept /\ insert' = insert
    BY <2>1 DEF Log!Refuse, Log!Wanted, Log!HasRoom, Log!vars
  <2>3. KeptOf(Append(s, r)) = KeptOf(s)
    BY <1>1, <2>2 DEF Keeping, Holds
  <2>4. ver' = ver
    BY <1>3 DEF BadParm, Filter, Drop, dbVars, table
  <2>5. IInv'
    <3>1. CASE BadParm(r)
      BY <3>1, NextIInv DEF BadParm
    <3>2. CASE Filter(r) \/ Drop(r)
      BY <3>2, RefusedIInv
    <3>3. QED
      BY <1>3, <3>1, <3>2
  <2>6. QED
    BY <2>2, <2>3, <2>4, <2>5 DEF Holds
<1>4. QED
  BY <1>2, <1>3 DEF smbios_data_record

\* Steps that leave the table alone.
LEMMA TableKept ==
    ASSUME UNCHANGED dbVars
    PROVE  /\ IInv => IInv' /\ ver' = ver /\ Table' = Table
           /\ \A s : Holds(s) => Kept' = KeptOf(s).log /\ insert' = KeptOf(s).used
<1>1. UNCHANGED <<ver, index, data, insert>>
  BY DEF dbVars, table
<1>2. Kept' = Kept
  BY <1>1 DEF Kept, Count, ScanStopsAt, RecordIn
<1>3. IInv => IInv'
  BY NextIInv
<1>4. Table' = Table
  BY <1>1 DEF Table
<1>5. QED
  BY <1>1, <1>2, <1>3, <1>4 DEF Holds

\* What the host does leaves the database as it should be,
LEMMA LoadingHost ==
    ASSUME StepsTyped, CleanOnce, Loading, Host
    PROVE  Loading'
<1>0. UNCHANGED dbVars /\ pc = "idle" /\ todo = << >>
  BY DEF Host, HostBegin, HostRecords, HostEnd, HostRetry, Send, StepsTyped
<1>1. CASE HostBegin
  BY <1>1 DEF HostBegin, Send, FirstStep, Loading, BeginSteps, RecordsSteps, EndSteps
<1>2. ASSUME clean PROVE \E s \in Seq(Record) : sent = s /\ Holds(s)
  <2>1. PICK s \in Seq(Record) : sent = s \o todo /\ Holds(s)
    BY <1>0, <1>2 DEF Loading
  <2>2. s \o << >> = s
    BY ConcatEmptySeq
  <2>3. QED
    BY <1>0, <2>1, <2>2
<1>3. ASSUME NEW blob \in Blobs, HostRecords(blob) PROVE Loading'
  <2>1. /\ pc' = "records_open" /\ clean' = (clean /\ ~ Stray) /\ phase' = phase
        /\ todo' = blob /\ sent' = sent \o blob
    BY <1>3 DEF HostRecords, Send, FirstStep
  <2>2. SUFFICES ASSUME clean'
                 PROVE  /\ phase' = "uploading" /\ IInv' /\ ver' = SMBIOS_CFG_VERSION
                        /\ \E s \in Seq(Record) : sent' = s \o todo' /\ Holds(s)'
    BY <2>1 DEF Loading, BeginSteps, RecordsSteps, EndSteps
  <2>3. clean /\ phase = "uploading"
    BY <2>1, <2>2 DEF Stray
  <2>4. PICK s \in Seq(Record) : sent = s /\ Holds(s)
    BY <1>2, <2>3
  <2>5. Holds(s)' /\ sent' = s \o todo'
    BY <1>0, <2>1, <2>4, TableKept DEF Holds
  <2>6. IInv' /\ ver' = SMBIOS_CFG_VERSION
    BY <1>0, <2>3, TableKept DEF Loading
  <2>7. QED
    BY <2>1, <2>3, <2>5, <2>6
<1>4. CASE HostEnd
  <2>1. pc' = "end_open" /\ clean' = (clean /\ ~ Stray) /\ todo' = << >> /\ sent' = sent
    BY <1>4 DEF HostEnd, Send, FirstStep
  <2>2. SUFFICES ASSUME clean'
                 PROVE  /\ IInv' /\ ver' = SMBIOS_CFG_VERSION
                        /\ \E s \in Seq(Record) : sent' = s \o todo' /\ Holds(s)'
    BY <2>1 DEF Loading, BeginSteps, RecordsSteps, EndSteps
  <2>3. clean
    BY <2>1, <2>2
  <2>4. PICK s \in Seq(Record) : sent = s /\ Holds(s)
    BY <1>2, <2>3
  <2>5. Holds(s)' /\ sent' = s \o todo'
    BY <1>0, <2>1, <2>4, TableKept, ConcatEmptySeq DEF Holds
  <2>6. IInv' /\ ver' = SMBIOS_CFG_VERSION
    BY <1>0, <2>3, TableKept DEF Loading
  <2>7. QED
    BY <2>5, <2>6
<1>5. CASE HostRetry
  BY <1>5 DEF HostRetry, Send, CleanOnce, Loading
<1>6. QED
  BY <1>1, <1>3, <1>4, <1>5 DEF Host

\* Steps that go on, or end a request, with the table, the records and the
\* host's place as they are.
LEMMA LoadingStays ==
    ASSUME Loading, UNCHANGED <<dbVars, sent, phase>>, clean' => clean,
           pc # "begin_open", pc' # "begin_open",
           clean => todo' = todo,
           pc' \in BeginSteps => pc \in BeginSteps, pc' \in RecordsSteps => pc \in RecordsSteps,
           pc' \in EndSteps \cup {"sync"} => pc \in EndSteps \cup {"sync"}
    PROVE  Loading'
<1> SUFFICES ASSUME clean' PROVE Loading'
  BY DEF Loading
<1>1. clean
  OBVIOUS
<1>6. todo' = todo
  BY <1>1
<1>2. PICK s \in Seq(Record) : sent = s \o todo /\ Holds(s)
  BY <1>1 DEF Loading
<1>3. Holds(s)' /\ sent' = s \o todo'
  BY <1>6, <1>2, TableKept DEF Holds
<1>4. IInv' /\ ver' = SMBIOS_CFG_VERSION
  BY <1>1, TableKept DEF Loading
<1>5. QED
  BY <1>1, <1>6, <1>3, <1>4 DEF Loading

\* The database file gives back what was just written.
LEMMA ReadBack ==
    ASSUME Loading, Ending, clean, pc = "db_read", dbfile # Absent,
           SetTable(smbios_cfg_read(Table, dbfile))
    PROVE  UNCHANGED table
<1>1. dbfile = [of |-> Table, part |-> Whole] /\ ver = SMBIOS_CFG_VERSION
  BY DEF Loading, Ending, EndSteps
<1>2. dbfile.of = Table /\ dbfile.part = Whole /\ Table.ver = SMBIOS_CFG_VERSION
  BY <1>1 DEF Table
<1>3. smbios_cfg_read(Table, dbfile) = Table
  BY <1>2 DEF smbios_cfg_read, Truncated, Blocks, Whole
<1>4. QED
  BY <1>3 DEF SetTable, Table, table

\* so do the steps of a request,
LEMMA LoadingHandler ==
    ASSUME StepsTyped, CleanOnce, Building, Loading, Ending, TablesTyped, Handler
    PROVE  Loading'
<1> USE DEF BeginSteps, RecordsSteps, EndSteps
<1>1. ASSUME NEW call, Fails(call) PROVE Loading'
  BY <1>1 DEF Fails, Loading
<1>2. CASE BeginOpen /\ Succeeds /\ smbios_data_begin /\ Goto("begin_close")
  <2>1. pc = "begin_open" /\ pc' = "begin_close" /\ UNCHANGED <<clean, sent, todo, phase>>
    BY <1>2 DEF BeginOpen, Succeeds, Goto, host
  <2>2. SUFFICES ASSUME clean PROVE Loading'
    BY <2>1 DEF Loading
  <2>3. sent = << >> /\ todo = << >> /\ phase = "uploading"
    BY <2>1, <2>2 DEF Loading
  <2>4. IInv' /\ ver' = SMBIOS_CFG_VERSION /\ index' = EmptyIndex /\ insert' = 0
    BY <1>2, BeginIInv DEF smbios_data_begin
  <2>5. (index = EmptyIndex => Kept = << >>)'
    BY EmptyKept, PTL
  <2>6. EmptyIndex' = EmptyIndex
    BY DEF EmptyIndex
  <2>7. Holds(<< >>)'
    BY <2>4, <2>5, <2>6, KeptOfNone DEF Holds, NothingKept
  <2>8. << >> \in Seq(Record) /\ << >> \o << >> = << >>
    OBVIOUS
  <2>9. \E s \in Seq(Record) : sent' = s \o todo' /\ Holds(s)'
    BY <2>1, <2>3, <2>7, <2>8
  <2>10. QED
    BY <2>1, <2>3, <2>4, <2>9 DEF Loading
<1>3. CASE (BeginClose \/ RecordsClose \/ Sync) /\ Succeeds /\ Answer
  <2>1. /\ UNCHANGED <<dbVars, sent, phase>> /\ clean' = clean /\ pc' = "idle" /\ todo' = << >>
        /\ pc \in {"begin_close", "records", "sync"} /\ (pc = "records" => todo = << >>)
    BY <1>3 DEF BeginClose, RecordsClose, Sync, Succeeds, Answer
  <2>2. clean => todo = << >>
    BY <2>1 DEF Loading
  <2>3. QED
    BY <2>1, <2>2, LoadingStays
<1>4. CASE /\ RecordsOpen \/ EndOpen \/ DbWrite \/ EndClose \/ RemoveOld \/ RenameTemp
           /\ Succeeds /\ \E step \in {"records", "db_write", "db_read", "remove", "rename", "sync"} : Goto(step)
  <2>1. UNCHANGED <<dbVars, clean, phase, sent, todo>>
    BY <1>4 DEF RecordsOpen, EndOpen, DbWrite, EndClose, RemoveOld, RenameTemp, Succeeds, Goto, host
  <2>2. /\ pc # "begin_open" /\ pc' # "begin_open" /\ pc' \notin BeginSteps
        /\ (pc' \in RecordsSteps => pc \in RecordsSteps)
        /\ (pc' \in EndSteps \cup {"sync"} => pc \in EndSteps \cup {"sync"})
    BY <1>4 DEF RecordsOpen, EndOpen, DbWrite, EndClose, RemoveOld, RenameTemp, Goto, Answer
  <2>3. QED
    BY <2>1, <2>2, LoadingStays
<1>5. CASE DbRead /\ Succeeds /\ SetTable(smbios_cfg_read(Table, dbfile))
  <2>1. UNCHANGED <<counters, clean, phase, sent, todo>> /\ pc = "db_read" /\ pc' = "end_close"
    BY <1>5 DEF DbRead, Succeeds, Goto, host
  <2>2. SUFFICES ASSUME clean PROVE Loading'
    BY <2>1 DEF Loading
  <2>3. dbfile # Absent
    <3>1. dbfile = [of |-> Table, part |-> Whole] /\ Table \in TableType
      BY <2>1, <2>2 DEF Ending, TablesTyped
    <3>2. dbfile \in DbFile
      BY <3>1 DEF DbFile
    <3>3. QED
      BY <3>2, UploadAssumption
  <2>4. UNCHANGED dbVars
    BY <1>5, <2>1, <2>2, <2>3, ReadBack DEF dbVars
  <2>5. QED
    BY <2>1, <2>4, LoadingStays
<1>6. CASE RecordsNext
  <2>1. /\ pc = "records" /\ pc' = "records" /\ todo # << >> /\ UNCHANGED <<clean, sent, phase>>
        /\ todo' = Tail(todo) /\ smbios_data_record(Head(todo))
    BY <1>6 DEF RecordsNext, host
  <2>2. SUFFICES ASSUME clean PROVE Loading'
    BY <2>1 DEF Loading
  <2>3. todo \in Seq(Record) /\ Head(todo) \in Record
    BY <2>1, HeadTailProperties DEF StepsTyped
  <2>4. PICK s \in Seq(Record) : sent = s \o todo /\ Holds(s)
    BY <2>1, <2>2 DEF Loading
  <2>5. IInv /\ ver = SMBIOS_CFG_VERSION /\ phase = "uploading"
    BY <2>1, <2>2 DEF Loading
  <2>6. PICK r \in Record : r = Head(todo)
    BY <2>3
  <2>7. Holds(Append(s, r))' /\ IInv' /\ ver' = ver
    BY <2>1, <2>4, <2>5, <2>6, HoldsOneMore
  <2>8. Append(s, r) \in Seq(Record) /\ sent' = Append(s, r) \o todo'
    BY <2>1, <2>3, <2>4, <2>6, OneMoved
  <2>9. QED
    BY <2>1, <2>5, <2>7, <2>8 DEF Loading
<1>7. QED
  BY <1>1, <1>2, <1>3, <1>4, <1>5, <1>6
  DEF Handler, BeginOpen, BeginClose, RecordsOpen, RecordsClose, EndOpen, DbWrite, DbRead, EndClose,
      RemoveOld, RenameTemp, Sync, FlushAppended, Succeeds

\* Each step keeps what an end has done.
LEMMA EndingNext ==
    ASSUME StepsTyped, TablesTyped, CleanOnce, Loading, Ending, [UploadNext]_vars
    PROVE  Ending'
<1> USE DEF BeginSteps, RecordsSteps, EndSteps
<1>1. ASSUME NEW call, Fails(call) PROVE Ending'
  BY <1>1 DEF Fails, Ending
<1>2. ASSUME pc' \in BeginSteps \cup RecordsSteps \cup {"end_open", "db_write"} PROVE Ending'
  BY <1>2 DEF Ending
<1>3. ASSUME pc' = "idle", phase' # "done" PROVE Ending'
  BY <1>3 DEF Ending
<1>4. CASE HostRetry
  BY <1>4 DEF HostRetry, Send, CleanOnce, Ending
<1>5. CASE Host
  BY <1>2, <1>4, <1>5 DEF Host, HostBegin, HostRecords, HostEnd, Send, FirstStep
<1>6. CASE BeginOpen \/ RecordsOpen \/ RecordsNext \/ EndOpen
  BY <1>1, <1>2, <1>6 DEF BeginOpen, RecordsOpen, RecordsNext, EndOpen, Goto
<1>7. CASE (BeginClose \/ RecordsClose) /\ Succeeds /\ Answer
  <2>1. clean' = clean /\ phase' = phase /\ pc' = "idle" /\ pc \in BeginSteps \cup RecordsSteps
    BY <1>7 DEF BeginClose, RecordsClose, Succeeds, Answer
  <2>2. clean => phase = "uploading"
    BY <2>1 DEF Loading
  <2>3. QED
    BY <2>1, <2>2 DEF Ending
<1>8. CASE DbWrite /\ Succeeds /\ dbfile' = [of |-> Table, part |-> Whole]
  <2>1. pc' = "db_read" /\ smbios_db' = Table /\ UNCHANGED dbVars
    BY <1>8 DEF DbWrite, Goto
  <2>2. Table' = Table
    BY <2>1 DEF dbVars, table, Table
  <2>3. QED
    BY <1>8, <2>1, <2>2 DEF Ending
<1>9. CASE DbRead /\ Succeeds /\ SetTable(smbios_cfg_read(Table, dbfile))
  <2>1. pc = "db_read" /\ pc' = "end_close" /\ UNCHANGED <<clean, smbios_db>>
    BY <1>9 DEF DbRead, Goto, Succeeds, daemon
  <2>2. SUFFICES ASSUME clean PROVE smbios_db' = Table'
    BY <2>1 DEF Ending
  <2>3. dbfile = [of |-> Table, part |-> Whole] /\ smbios_db = Table
    BY <2>1, <2>2 DEF Ending
  <2>4. dbfile \in DbFile
    BY <2>3 DEF DbFile, TablesTyped
  <2>5. UNCHANGED table
    BY <1>9, <2>1, <2>2, <2>4, ReadBack, UploadAssumption
  <2>6. Table' = Table
    BY <2>5 DEF table, Table
  <2>7. QED
    BY <2>1, <2>3, <2>6
<1>10. CASE (EndClose \/ RemoveOld \/ RenameTemp) /\ Succeeds
            /\ \E step \in {"remove", "rename", "sync"} : Goto(step)
  <2>1. /\ UNCHANGED dbVars /\ UNCHANGED <<clean, smbios_db, begins>>
        /\ pc \in {"end_close", "remove", "rename"} /\ pc' \in {"remove", "rename", "sync"}
    BY <1>10 DEF EndClose, RemoveOld, RenameTemp, Goto, Succeeds, bounds, daemon
  <2>2. Table' = Table
    BY <2>1 DEF dbVars, table, Table
  <2>3. pc' = "sync" => published'.begins = begins
    BY <1>10 DEF EndClose, RemoveOld, RenameTemp, Goto, Answer
  <2>4. QED
    BY <2>1, <2>2, <2>3 DEF Ending
<1>11. CASE Sync
  <2>1. pc = "sync" /\ pc' = "idle" /\ UNCHANGED dbVars /\ UNCHANGED <<clean, smbios_db, published, begins>>
    BY <1>11 DEF Sync, Answer, daemon, bounds
  <2>2. Table' = Table
    BY <2>1 DEF dbVars, table, Table
  <2>3. QED
    BY <2>1, <2>2 DEF Ending
<1>12. CASE Crash
  BY <1>12 DEF Crash, Ending
<1>13. CASE UNCHANGED vars
  BY <1>13 DEF vars, dbVars, table, files, daemon, handler, bounds, host, Ending, Table
<1>14. QED
  BY <1>1, <1>5, <1>6, <1>7, <1>8, <1>9, <1>10, <1>11, <1>12, <1>13
  DEF UploadNext, Handler, BeginClose, RecordsClose, DbWrite, DbRead, EndClose, RemoveOld,
      RenameTemp, FlushAppended

\* and all others.
LEMMA LoadingNext ==
    ASSUME StepsTyped, TablesTyped, CleanOnce, Building, Loading, Ending, [UploadNext]_vars
    PROVE  Loading'
<1>1. CASE Crash
  BY <1>1 DEF Crash, Loading
<1>2. CASE UNCHANGED vars
  <2>1. UNCHANGED <<dbVars, clean, pc, phase, sent, todo>>
    BY <1>2 DEF vars, handler, host
  <2>2. CASE pc = "begin_open"
    BY <2>1, <2>2 DEF Loading, BeginSteps, RecordsSteps, EndSteps
  <2>3. CASE pc # "begin_open"
    BY <2>1, <2>3, LoadingStays
  <2>4. QED
    BY <2>2, <2>3
<1>3. QED
  BY <1>1, <1>2, LoadingHost, LoadingHandler DEF UploadNext

\* After an upload in which nothing went wrong the daemon's database has the records
\* of the image that it does not filter and has room for, and it has read back what
\* it wrote (smbios.cpp:136).
THEOREM DatabaseAgrees == UploadSpec => []DbAgrees
<1> DEFINE Inv == CleanOnce /\ Building /\ Loading /\ Ending
<1>1. UploadInit => Inv
  BY DEF UploadInit, CleanOnce, Building, Loading, Ending, EndSteps
<1>2. TypeInv /\ Inv /\ [UploadNext]_vars => Inv'
  BY CleanOnceNext, BuildingNext, LoadingNext, EndingNext DEF TypeInv
<1>3. TypeInv /\ Inv => DbAgrees
  <2> SUFFICES ASSUME TypeInv, Inv, pc = "idle", phase = "done", clean
               PROVE  HoldsLatest /\ smbios_db = Table /\ published.begins = begins
    BY DEF DbAgrees
  <2>1. smbios_db = Table /\ published.begins = begins
    BY DEF Ending
  <2>2. todo = << >>
    BY DEF TypeInv, StepsTyped
  <2>3. PICK s \in Seq(Record) : sent = s \o todo /\ Holds(s)
    BY DEF Loading
  <2>4. s \o << >> = s
    BY ConcatEmptySeq
  <2>5. Kept = KeptOf(sent).log
    BY <2>2, <2>3, <2>4 DEF Holds
  <2>6. smbios_db.index = index /\ smbios_db.data = data /\ smbios_db.insert = insert
    BY <2>1 DEF Table
  <2>7. Published!Kept = Kept
    BY <2>6 DEF Published!Kept, Published!Count, Published!ScanStopsAt, Published!RecordIn,
                Kept, Count, ScanStopsAt, RecordIn
  <2>8. QED
    BY <2>1, <2>5, <2>7 DEF HoldsLatest
<1> HIDE DEF Inv
<1>4. QED
  BY <1>1, <1>2, <1>3, TypeInvariant, PTL DEF UploadSpec

-----------------------------------------------------------------------------
(***************************************************************************)
(* What UploadReachesReaders rests on, besides the fairness of UploadSpec: *)
(* an upload that has ended without a failure is published or still being  *)
(* handled, and each step of the handler is one of so many.                *)
(***************************************************************************)

StepsLeft ==
    CASE pc = "begin_open"   -> 2
      [] pc = "begin_close"  -> 1
      [] pc = "records_open" -> Len(todo) + 2
      [] pc = "records"      -> Len(todo) + 1
      [] pc = "end_open"     -> 7
      [] pc = "db_write"     -> 6
      [] pc = "db_read"      -> 5
      [] pc = "end_close"    -> 4
      [] pc = "remove"       -> 3
      [] pc = "rename"       -> 2
      [] pc = "sync"         -> 1
      [] pc = "idle"         -> 0

Nearer == StepsLeft' \in 0 .. StepsLeft - 1

LEMMA HandlerNearer ==
    ASSUME StepsTyped, Handler
    PROVE  Nearer
<1>1. PICK n \in Nat : n = Len(todo)
  <2>1. todo \in Seq(Record)
    BY DEF StepsTyped
  <2>2. QED
    BY <2>1
<1>2. CASE BeginOpen \/ BeginClose
  <2>1. \/ pc = "begin_open" /\ pc' \in {"begin_close", "idle"}
        \/ pc = "begin_close" /\ pc' = "idle"
    BY <1>2 DEF BeginOpen, BeginClose, Answer, Goto
  <2>2. CASE pc = "begin_open"
    <3>1. StepsLeft = 2 /\ StepsLeft' \in {0, 1}
      BY <2>1, <2>2 DEF StepsLeft
    <3>2. QED
      BY <3>1 DEF Nearer
  <2>3. CASE pc = "begin_close"
    <3>1. StepsLeft = 1 /\ StepsLeft' = 0
      BY <2>1, <2>3 DEF StepsLeft
    <3>2. QED
      BY <3>1 DEF Nearer
  <2>4. QED
    BY <2>1, <2>2, <2>3
<1>3. CASE RecordsOpen
  <2>1. pc = "records_open" /\ (pc' = "idle" \/ (pc' = "records" /\ todo' = todo))
    BY <1>3 DEF RecordsOpen, Answer, Goto
  <2>2. StepsLeft = n + 2 /\ StepsLeft' \in {0, n + 1}
    BY <1>1, <2>1 DEF StepsLeft
  <2>3. QED
    BY <2>2 DEF Nearer
<1>4. CASE RecordsNext
  <2>1. pc = "records" /\ pc' = "records" /\ todo # << >> /\ todo' = Tail(todo)
    BY <1>4 DEF RecordsNext
  <2>2. n # 0 /\ Len(todo') = n - 1
    <3>1. todo \in Seq(Record)
      BY DEF StepsTyped
    <3>2. QED
      BY <1>1, <2>1, <3>1
  <2>3. StepsLeft = n + 1 /\ StepsLeft' = (n - 1) + 1
    BY <1>1, <2>1, <2>2 DEF StepsLeft
  <2>4. QED
    BY <2>2, <2>3 DEF Nearer
<1>5. CASE RecordsClose
  <2>1. pc = "records" /\ pc' = "idle"
    BY <1>5 DEF RecordsClose, Answer
  <2>2. StepsLeft = n + 1 /\ StepsLeft' = 0
    BY <1>1, <2>1 DEF StepsLeft
  <2>3. QED
    BY <2>2 DEF Nearer
<1>6. CASE EndOpen \/ DbWrite \/ DbRead \/ EndClose
  <2>1. \/ pc = "end_open"  /\ pc' \in {"db_write", "idle"}
        \/ pc = "db_write"  /\ pc' = "db_read"
        \/ pc = "db_read"   /\ pc' = "end_close"
        \/ pc = "end_close" /\ pc' = "remove"
    BY <1>6 DEF EndOpen, DbWrite, DbRead, EndClose, Answer, Goto
  <2>2. CASE pc = "end_open"
    <3>1. StepsLeft = 7 /\ StepsLeft' \in {0, 6}
      BY <2>1, <2>2 DEF StepsLeft
    <3>2. QED
      BY <3>1 DEF Nearer
  <2>3. CASE pc = "db_write"
    <3>1. StepsLeft = 6 /\ StepsLeft' \in {5}
      BY <2>1, <2>3 DEF StepsLeft
    <3>2. QED
      BY <3>1 DEF Nearer
  <2>4. CASE pc = "db_read"
    <3>1. StepsLeft = 5 /\ StepsLeft' \in {4}
      BY <2>1, <2>4 DEF StepsLeft
    <3>2. QED
      BY <3>1 DEF Nearer
  <2>5. CASE pc = "end_close"
    <3>1. StepsLeft = 4 /\ StepsLeft' \in {3}
      BY <2>1, <2>5 DEF StepsLeft
    <3>2. QED
      BY <3>1 DEF Nearer
  <2>6. QED
    BY <2>1, <2>2, <2>3, <2>4, <2>5
<1>7. CASE RemoveOld \/ RenameTemp \/ Sync
  <2>1. \/ pc = "remove" /\ pc' \in {"rename", "idle"}
        \/ pc = "rename" /\ pc' \in {"sync", "idle"}
        \/ pc = "sync"   /\ pc' = "idle"
    BY <1>7 DEF RemoveOld, RenameTemp, Sync, Answer, Goto
  <2>2. CASE pc = "remove"
    <3>1. StepsLeft = 3 /\ StepsLeft' \in {0, 2}
      BY <2>1, <2>2 DEF StepsLeft
    <3>2. QED
      BY <3>1 DEF Nearer
  <2>3. CASE pc = "rename"
    <3>1. StepsLeft = 2 /\ StepsLeft' \in {0, 1}
      BY <2>1, <2>3 DEF StepsLeft
    <3>2. QED
      BY <3>1 DEF Nearer
  <2>4. CASE pc = "sync"
    <3>1. StepsLeft = 1 /\ StepsLeft' \in {0}
      BY <2>1, <2>4 DEF StepsLeft
    <3>2. QED
      BY <3>1 DEF Nearer
  <2>5. QED
    BY <2>1, <2>2, <2>3, <2>4
<1>8. QED
  BY <1>2, <1>3, <1>4, <1>5, <1>6, <1>7 DEF Handler

\* Each message is handled in so many steps, two more than it has records or
\* seven, whichever of its calls fail.
THEOREM UploadBounded == UploadSpec => [][Handler => Nearer]_vars
<1>1. TypeInv /\ [UploadNext]_vars => [Handler => Nearer]_vars
  BY HandlerNearer DEF TypeInv
<1>2. QED
  BY <1>1, TypeInvariant, PTL DEF UploadSpec

\* An upload that the host has ended and in which nothing went wrong is the
\* image that is there, or its last message is still being handled.
Delivered ==
    /\ smbios2 # Absent
    /\ published.begins = begins /\ published.clean /\ published.sent = sent

EndedWell ==
    phase = "done" /\ clean =>
        \/ pc \in EndSteps
        \/ pc \in {"sync", "idle"} /\ Delivered

\* A message of the host is the end itself, or makes the upload another one
\* or one in which something went wrong.
LEMMA EndedHost ==
    ASSUME CleanOnce, EndedWell, Host
    PROVE  EndedWell'
<1>1. CASE HostBegin
  BY <1>1 DEF HostBegin, EndedWell
<1>2. CASE \E blob \in Blobs : HostRecords(blob)
  BY <1>2 DEF HostRecords, Stray, EndedWell
<1>3. CASE HostEnd
  <2>1. pc' = "end_open"
    BY <1>3 DEF HostEnd, Send, FirstStep
  <2>2. QED
    BY <2>1 DEF EndedWell, EndSteps
<1>4. CASE HostRetry
  <2>1. ~ clean /\ clean' = clean
    BY <1>4 DEF HostRetry, Send, CleanOnce
  <2>2. QED
    BY <2>1 DEF EndedWell
<1>5. QED
  BY <1>1, <1>2, <1>3, <1>4 DEF Host

\* A step of the handler goes on, or a call of it has failed; the rename
\* delivers.
LEMMA EndedHandler ==
    ASSUME StepsTyped, EndedWell, Handler, phase' = "done", clean'
    PROVE  \/ pc' \in EndSteps
           \/ pc' \in {"sync", "idle"} /\ Delivered'
<1>1. ASSUME NEW call, Fails(call) PROVE FALSE
  BY <1>1 DEF Fails
<1>2. Succeeds
  BY <1>1 DEF Handler, BeginOpen, BeginClose, RecordsOpen, RecordsNext, RecordsClose, EndOpen,
              DbWrite, DbRead, EndClose, RemoveOld, RenameTemp, Sync, FlushAppended, Succeeds
<1>3. phase = "done" /\ clean /\ UNCHANGED <<begins, sent>>
  BY <1>2 DEF Succeeds, bounds, Handler, BeginOpen, BeginClose, RecordsOpen, RecordsNext,
              RecordsClose, EndOpen, DbWrite, DbRead, EndClose, RemoveOld, RenameTemp, Sync,
              Goto, Answer, host
<1>4. pc \in EndSteps \/ (pc \in {"sync", "idle"} /\ Delivered)
  BY <1>3 DEF EndedWell
<1>5. CASE EndOpen \/ DbWrite \/ DbRead \/ EndClose \/ RemoveOld
  <2>1. pc' \in {"db_write", "db_read", "end_close", "remove", "rename"}
    BY <1>1, <1>5 DEF EndOpen, DbWrite, DbRead, EndClose, RemoveOld, Goto
  <2>2. QED
    BY <2>1 DEF EndSteps
<1>6. CASE RenameTemp
  <2>1. /\ pc = "rename" /\ pc' = "sync" /\ smbios2' = temp
        /\ published' = [sent |-> sent, clean |-> clean, begins |-> begins,
                         dirVer |-> dirVer, crashes |-> crashes]
    BY <1>1, <1>6 DEF RenameTemp, Goto
  <2>2. temp # Absent
    BY <2>1 DEF StepsTyped, TempThere
  <2>3. QED
    BY <1>3, <2>1, <2>2 DEF Delivered
<1>7. CASE Sync
  <2>1. pc = "sync" /\ pc' = "idle" /\ UNCHANGED <<smbios2, published>>
    BY <1>7 DEF Sync, Answer, files
  <2>2. Delivered
    BY <1>4, <2>1 DEF EndSteps
  <2>3. QED
    BY <1>3, <2>1, <2>2 DEF Delivered
<1>8. CASE BeginOpen \/ BeginClose \/ RecordsOpen \/ RecordsNext \/ RecordsClose
  BY <1>4, <1>8 DEF BeginOpen, BeginClose, RecordsOpen, RecordsNext, RecordsClose, EndSteps
<1>9. QED
  BY <1>5, <1>6, <1>7, <1>8 DEF Handler

LEMMA EndedNext ==
    ASSUME StepsTyped, CleanOnce, EndedWell, [UploadNext]_vars
    PROVE  EndedWell'
<1>1. CASE Handler
  BY <1>1, EndedHandler DEF EndedWell
<1>2. CASE Crash
  BY <1>2 DEF Crash, EndedWell
<1>3. CASE UNCHANGED vars
  BY <1>3 DEF vars, files, handler, bounds, host, EndedWell, Delivered
<1>4. QED
  BY <1>1, <1>2, <1>3, EndedHost DEF UploadNext

\* Once the last message of an upload is answered, the image is the header,
\* the entry point and all that was sent, unless something went wrong: no step
\* gives up by itself, and nothing takes the image away before the next upload.
THEOREM EndedDelivered ==
    UploadSpec =>
        [](pc = "idle" /\ phase = "done" /\ clean =>
              smbios2 = <<HdrCell(published.dirVer, Len(smbios2) - MDR_SZ), EpCell>>
                          \o AllCells(sent))
<1> DEFINE Goal == pc = "idle" /\ phase = "done" /\ clean =>
                      smbios2 = <<HdrCell(published.dirVer, Len(smbios2) - MDR_SZ), EpCell>>
                                  \o AllCells(sent)
<1>1. UploadInit => EndedWell /\ CleanOnce
  BY DEF UploadInit, EndedWell, CleanOnce, EndSteps
<1>2. TypeInv /\ EndedWell /\ CleanOnce /\ [UploadNext]_vars => (EndedWell /\ CleanOnce)'
  BY EndedNext, CleanOnceNext DEF TypeInv
<1>3. EndedWell /\ PublishedWhole => Goal
  BY DEF EndedWell, Delivered, EndSteps, PublishedWhole
<1> HIDE DEF Goal
<1>4. UploadSpec => []Goal
  BY <1>1, <1>2, <1>3, TypeInvariant, ImagesWhole, PTL DEF UploadSpec
<1>5. QED
  BY <1>4 DEF Goal
=============================================================================
