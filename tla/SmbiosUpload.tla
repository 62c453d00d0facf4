---------------------------- MODULE SmbiosUpload ----------------------------
(***************************************************************************)
(* An SMBIOS upload, from the host's requests to the image other services  *)
(* read: RomHandler() and WriteSmbiosRecords() of src/src/sysrom.cpp, with *)
(* the in-memory database of SmbiosDb and smbios_data_end(),               *)
(* smbios_cfg_write() and smbios_cfg_read() behind it.                     *)
(*                                                                         *)
(* The daemon answers one request at a time.  A request is a sequence of   *)
(* steps, because the daemon can stop between any two of them (systemd     *)
(* starts it again) while the files stay as they are.  What fwrite() has   *)
(* been given is in the file for certain only after fclose().              *)
(*                                                                         *)
(* A file is a sequence of cells: one for each byte of a record, one for   *)
(* the MDR header with its fields, one for the SMBIOS entry point (MDR_SZ  *)
(* and EP_SZ stand for their 10 and 24 bytes).                             *)
(***************************************************************************)
EXTENDS SmbiosDb, SequencesExt

CONSTANTS
    Absent,         \* no such file
    None,           \* no such value
    DIRVER_MOD,     \* 256: dirVer is a uint8_t
    DATASIZE_MOD,   \* 2^32: dataSize is a uint32_t
    Faults,         \* which of "open", "write", "remove", "rename" may fail
    Blobs,          \* the record messages the host may send: record sequences
    MaxBegins,      \* bound: uploads begun
    MaxEnds,        \* bound: ends of an upload sent, repetitions not counted
    MaxSent,        \* bound: records sent in one upload
    MaxCrashes,     \* bound: restarts of the daemon
    MaxFaults       \* bound: failing library calls

(* Cells, requests and the database file.                                  *)

MDR_SZ == 1
EP_SZ  == 1

NulCell  == [kind |-> "nul"]
EpCell   == [kind |-> "ep"]
HdrCell(v, size) == [kind |-> "mdr", dirVer |-> v, dataSize |-> size]

Cell ==
    {NulCell, EpCell} \cup [kind : {"rec"}, byte : Byte]
        \cup [kind : {"mdr"}, dirVer : 0 .. DIRVER_MOD - 1, dataSize : 0 .. DATASIZE_MOD - 1]

Request(cmd, blob) == [cmd |-> cmd, blob |-> blob]

Requests == [cmd : {"begin", "records", "end"}, blob : Seq(Record)]

\* How much of the file was written: stdio writes whole blocks first and
\* the rest, which ends with the insert point, at the latest in fclose().
Truncated == 0
Blocks    == 1
Whole     == 2

InsertPoint == {k \in 0 .. SzData : k % 4 = 0}

TableType ==
    [ver : {0, SMBIOS_CFG_VERSION}, index : [Slot -> Entry],
     data : [0 .. SzData - 1 -> Byte], insert : InsertPoint]

DbFile == [of : TableType, part : {Truncated, Blocks, Whole}]

ASSUME UploadAssumption ==
    /\ DIRVER_MOD \in Nat \ {0, 1}
    /\ DATASIZE_MOD \in Nat \ {0}
    /\ Faults \subseteq {"open", "write", "remove", "rename"}
    /\ MaxBegins \in Nat /\ MaxEnds \in Nat /\ MaxSent \in Nat
    /\ MaxCrashes \in Nat /\ MaxFaults \in Nat
    /\ \A blob \in Blobs : blob \in Seq(Record)
    /\ Absent \notin Seq(Cell) \cup DbFile /\ None \notin Requests

\* A record's size comes in one byte; dataSize can count all that is sent.
ASSUME SizeAssumption ==
    \E most \in 0 .. DATASIZE_MOD :
        /\ \A r \in Record : r.len <= most
        /\ MaxSent * most + 1 < DATASIZE_MOD

VARIABLES
    temp,           \* /var/lib/smbios/smbios_temp
    smbios2,        \* /var/lib/smbios/smbios2, what the MDR service reads
    dbfile,         \* SMBIOS_DATA_FILE, /tmp/tmp_smbiosdata
    dirVer,         \* dirVer
    smbios_db,      \* smbios_db
    writecount,     \* smbios_cfg_writecount
    pc,             \* the step of WriteSmbiosRecords() that comes next
    todo,           \* records of the message still to be handled
    out,            \* cells given to fwrite() since the last fopen()
    begins, ends, crashes, faults,  \* how often each has happened
    phase,          \* the host: "off", "uploading" or "done"
    sent,           \* history: the records sent since the last begin
    clean,          \* history: no crash, failure or stray request since then
    unanswered,     \* the request the host has no answer to
    published       \* history: the upload smbios2 was last replaced from

files   == <<temp, smbios2, dbfile>>
daemon  == <<dirVer, smbios_db, writecount>>
handler == <<pc, todo, out>>
bounds  == <<begins, ends, crashes, faults>>
host    == <<phase, sent, unanswered>>
vars    == <<dbVars, files, daemon, handler, bounds, host, clean, published>>

-----------------------------------------------------------------------------
(* Files.                                                                  *)

\* ftell() less the header's size, in a uint32_t: wraps for a shorter file.
DataSize(len) == (len - MDR_SZ) % DATASIZE_MOD

Cells(r) == [k \in 1 .. r.len |-> [kind |-> "rec", byte |-> r.bytes[k - 1]]]

AllCells(rs) == FlattenSeq([n \in DOMAIN rs |-> Cells(rs[n])])

\* Writing cells at the start of a file opened "rb+".
WriteAtStart(file, cells) ==
    [k \in 1 .. Max({Len(file), Len(cells)}) |->
        IF k <= Len(cells) THEN cells[k] ELSE file[k]]

-----------------------------------------------------------------------------
(* The in-memory database and its file.                                    *)

Table == [ver |-> ver, index |-> index, data |-> data, insert |-> insert]

\* smbios_cfg_default()
DefaultTable == [ver    |-> SMBIOS_CFG_VERSION, index  |-> EmptyIndex,
                 data   |-> EmptyData,          insert |-> 0]

ZeroTable == [DefaultTable EXCEPT !.ver = 0]

SetTable(t) ==
    ver' = t.ver /\ index' = t.index /\ data' = t.data /\ insert' = t.insert

\* smbios_cfg_read(): a short read leaves what it did not overwrite, and is
\* not checked any further; a whole file of another version is wiped.
smbios_cfg_read(into, f) ==
    IF f = Absent THEN DefaultTable
    ELSE CASE f.part = Truncated -> into
           [] f.part = Blocks -> [f.of EXCEPT !.insert = into.insert]
           [] f.part = Whole ->
                IF f.of.ver = SMBIOS_CFG_VERSION THEN f.of ELSE DefaultTable

-----------------------------------------------------------------------------
(* Initial state, failing calls and answers.                               *)

UploadInit ==
    /\ Init
    /\ temp = Absent /\ smbios2 = Absent /\ dbfile = Absent
    /\ dirVer = 1 /\ smbios_db = ZeroTable /\ writecount = -1
    /\ pc = "idle" /\ todo = << >> /\ out = << >>
    /\ begins = 0 /\ ends = 0 /\ crashes = 0 /\ faults = 0
    /\ phase = "off" /\ sent = << >> /\ unanswered = None
    /\ clean = FALSE /\ published = None

Fails(call) ==
    /\ call \in Faults
    /\ faults < MaxFaults
    /\ faults' = faults + 1
    /\ clean' = FALSE
    /\ UNCHANGED <<begins, ends, crashes>>

Succeeds == UNCHANGED <<bounds, clean>>

Goto(step) == pc' = step /\ UNCHANGED <<todo, host>>

\* RomHandler() answers whatever WriteSmbiosRecords() returned: it tests the
\* result against 0, and a failure is -1.
Answer ==
    /\ pc' = "idle" /\ todo' = << >> /\ out' = << >>
    /\ unanswered' = None
    /\ UNCHANGED <<phase, sent>>

\* fclose() of a file opened to append; what does not fit is lost unnoticed.
FlushAppended ==
    \/ Succeeds /\ temp' = temp \o out
    \/ Fails("write") /\ \E p \in Prefixes(out) \ {out} : temp' = temp \o p

-----------------------------------------------------------------------------
(* Requests.                                                               *)

FirstStep(cmd) == CASE cmd = "begin"   -> "begin_open"
                    [] cmd = "records" -> "records_open"
                    [] cmd = "end"     -> "end_open"

Send(cmd, blob) ==
    /\ pc = "idle"
    /\ pc' = FirstStep(cmd) /\ todo' = blob
    /\ unanswered' = Request(cmd, blob)
    /\ UNCHANGED <<dbVars, files, daemon, out, crashes, faults, published>>

\* Requests that only a host that lost its place would send.
Stray == phase # "uploading"

HostBegin ==
    /\ Send("begin", << >>)
    /\ begins < MaxBegins
    /\ begins' = begins + 1
    /\ phase' = "uploading" /\ sent' = << >> /\ clean' = TRUE
    /\ UNCHANGED ends

HostRecords(blob) ==
    /\ Send("records", blob)
    /\ Len(sent) + Len(blob) <= MaxSent
    /\ sent' = sent \o blob
    /\ clean' = (clean /\ ~ Stray)
    /\ UNCHANGED <<begins, ends, phase>>

HostEnd ==
    /\ Send("end", << >>)
    /\ ends < MaxEnds
    /\ ends' = ends + 1
    /\ phase' = "done"
    /\ clean' = (clean /\ ~ Stray)
    /\ UNCHANGED <<begins, sent>>

\* A host whose request went unanswered sends it again.
HostRetry ==
    /\ unanswered # None
    /\ Send(unanswered.cmd, unanswered.blob)
    /\ UNCHANGED <<begins, ends, phase, sent, clean>>

-----------------------------------------------------------------------------
(* WriteSmbiosRecords(path, 0, -1): an upload begins.                      *)

\* Wrong: dirVer is not a byte; dirVer stays as it is.
BeginOpenWide ==
    /\ pc = "begin_open"
    /\ UNCHANGED <<smbios2, dbfile, smbios_db, writecount, published>>
    /\ \/ /\ Succeeds
          /\ temp' = << >>
          /\ dirVer' = dirVer + 1
          /\ out' = <<NulCell, NulCell>>
          /\ smbios_data_begin
          /\ Goto("begin_close")
       \/ Fails("open") /\ Answer /\ UNCHANGED <<dbVars, temp, dirVer>>

BeginOpenSameVer ==
    /\ pc = "begin_open"
    /\ UNCHANGED <<smbios2, dbfile, smbios_db, writecount, dirVer, published>>
    /\ \/ /\ Succeeds
          /\ temp' = << >>
          /\ out' = <<NulCell, NulCell>>
          /\ smbios_data_begin
          /\ Goto("begin_close")
       \/ Fails("open") /\ Answer /\ UNCHANGED <<dbVars, temp>>

BeginOpen ==
    /\ pc = "begin_open"
    /\ UNCHANGED <<smbios2, dbfile, smbios_db, writecount, published>>
    /\ \/ /\ Succeeds
          /\ temp' = << >>
          /\ dirVer' = (dirVer + 1) % DIRVER_MOD
          /\ out' = <<NulCell, NulCell>>
          /\ smbios_data_begin
          /\ Goto("begin_close")
       \/ Fails("open") /\ Answer /\ UNCHANGED <<dbVars, temp, dirVer>>

BeginClose ==
    /\ pc = "begin_close"
    /\ FlushAppended
    /\ Answer
    /\ UNCHANGED <<dbVars, smbios2, dbfile, daemon, published>>

-----------------------------------------------------------------------------
(* WriteSmbiosRecords(path, buffer, size): records arrive.                 *)

\* Wrong: every message starts the file again ("wb+").
OpenedAnew == << >>

\* fopen(path, "ab+") makes the file if it is not there.
Opened == IF temp = Absent THEN << >> ELSE temp

RecordsOpen ==
    /\ pc = "records_open"
    /\ UNCHANGED <<dbVars, smbios2, dbfile, daemon, published>>
    /\ \/ Succeeds /\ temp' = Opened /\ Goto("records") /\ UNCHANGED out
       \/ Fails("open") /\ Answer /\ UNCHANGED temp

RecordsNext ==
    /\ pc = "records"
    /\ todo # << >>
    /\ out' = out \o Cells(Head(todo))
    /\ smbios_data_record(Head(todo))
    /\ todo' = Tail(todo)
    /\ UNCHANGED <<pc, files, daemon, bounds, host, clean, published>>

RecordsClose ==
    /\ pc = "records"
    /\ todo = << >>
    /\ FlushAppended
    /\ Answer
    /\ UNCHANGED <<dbVars, smbios2, dbfile, daemon, published>>

-----------------------------------------------------------------------------
(* WriteSmbiosRecords(path, 0, -2): the upload is complete.                *)

EndOpen ==
    /\ pc = "end_open"
    /\ UNCHANGED <<dbVars, smbios2, dbfile, daemon, published>>
    /\ \/ /\ Succeeds
          /\ temp' = Opened
          /\ out' = <<HdrCell(dirVer, DataSize(Len(Opened))), EpCell>>
          /\ Goto("db_write")
       \/ Fails("open") /\ Answer /\ UNCHANGED temp

\* smbios_cfg_write(): the counter and smbios_db come before the file.
DbWrite ==
    /\ pc = "db_write"
    /\ writecount' = writecount + 1
    /\ smbios_db' = Table
    /\ \/ Succeeds /\ dbfile' = [of |-> Table, part |-> Whole]
       \/ Fails("open") /\ UNCHANGED dbfile
       \/ /\ Fails("write")
          /\ \E part \in {Truncated, Blocks} : dbfile' = [of |-> Table, part |-> part]
    /\ Goto("db_read")
    /\ UNCHANGED <<dbVars, temp, smbios2, dirVer, out, published>>

DbRead ==
    /\ pc = "db_read"
    /\ \/ Succeeds /\ SetTable(smbios_cfg_read(Table, dbfile))
       \/ Fails("open") /\ SetTable(DefaultTable)
    /\ Goto("end_close")
    /\ UNCHANGED <<counters, files, daemon, out, published>>

\* Wrong: the file is not closed before the old one is removed.
EndWithoutClose ==
    /\ pc = "end_close"
    /\ Succeeds /\ UNCHANGED temp
    /\ out' = << >>
    /\ Goto("remove")
    /\ UNCHANGED <<dbVars, smbios2, dbfile, daemon, published>>

\* The header reaches the file over whatever it starts with.
EndClose ==
    /\ pc = "end_close"
    /\ \/ Succeeds /\ temp' = WriteAtStart(temp, out)
       \/ Fails("write") /\ \E p \in Prefixes(out) \ {out} : temp' = WriteAtStart(temp, p)
    /\ out' = << >>
    /\ Goto("remove")
    /\ UNCHANGED <<dbVars, smbios2, dbfile, daemon, published>>

RemoveOld ==
    /\ pc = "remove"
    /\ UNCHANGED <<dbVars, temp, dbfile, daemon, published>>
    /\ \/ Succeeds /\ smbios2' = Absent /\ Goto("rename") /\ UNCHANGED out
       \/ smbios2 # Absent /\ Fails("remove") /\ Answer /\ UNCHANGED smbios2

\* Wrong: the host is answered without the rename.
AnswerWithoutRename ==
    /\ pc = "rename"
    /\ UNCHANGED <<dbVars, dbfile, daemon, smbios2, temp, published>>
    /\ Succeeds /\ Answer

RenameTemp ==
    /\ pc = "rename"
    /\ UNCHANGED <<dbVars, dbfile, daemon>>
    /\ \/ /\ Succeeds
          /\ smbios2' = temp /\ temp' = Absent
          /\ published' = [sent |-> sent, clean |-> clean, begins |-> begins,
                           dirVer |-> dirVer, crashes |-> crashes]
          /\ Goto("sync") /\ UNCHANGED out
       \/ Fails("rename") /\ Answer /\ UNCHANGED <<smbios2, temp, published>>

\* AgentSynchronizeData and the restart of smbios-mdrv2 change nothing here;
\* their failures are logged.
Sync ==
    /\ pc = "sync"
    /\ Answer
    /\ UNCHANGED <<dbVars, files, daemon, bounds, clean, published>>

-----------------------------------------------------------------------------
(* The daemon stops and systemd starts it again.                           *)

Crash ==
    /\ crashes < MaxCrashes
    /\ crashes' = crashes + 1
    /\ SetTable(ZeroTable)
    /\ n_received' = 0 /\ n_filtered' = 0 /\ n_dropped' = 0
    /\ n_bytes' = 0 /\ rec_longest' = 0
    /\ dirVer' = 1 /\ smbios_db' = ZeroTable /\ writecount' = -1
    /\ \/ pc = "records" /\ \E p \in Prefixes(out) : temp' = temp \o p
       \/ pc # "records" /\ UNCHANGED temp
    /\ \/ /\ pc = "db_write"
          /\ \E part \in {Truncated, Blocks} : dbfile' = [of |-> Table, part |-> part]
       \/ UNCHANGED dbfile
    /\ pc' = "idle" /\ todo' = << >> /\ out' = << >>
    /\ clean' = FALSE
    /\ UNCHANGED <<smbios2, begins, ends, faults, host, published>>

-----------------------------------------------------------------------------

Host == HostBegin \/ (\E blob \in Blobs : HostRecords(blob)) \/ HostEnd \/ HostRetry

Handler ==
    \/ BeginOpen \/ BeginClose
    \/ RecordsOpen \/ RecordsNext \/ RecordsClose
    \/ EndOpen \/ DbWrite \/ DbRead \/ EndClose \/ RemoveOld \/ RenameTemp \/ Sync

UploadNext == Host \/ Handler \/ Crash

\* The one thread of the daemon goes on with a request it has read: none of
\* its steps waits for anything but the file system.  Nothing makes the host
\* send a request or the daemon stop.
UploadSpec == UploadInit /\ [][UploadNext]_vars /\ WF_vars(Handler)

-----------------------------------------------------------------------------
(* Properties.                                                             *)

Steps == {"idle", "begin_open", "begin_close", "records_open", "records",
          "end_open", "db_write", "db_read", "end_close", "remove", "rename", "sync"}

\* Type invariant of the upload: the variables of the daemon and the handler.
UploadTypeOK ==
    /\ TypeOK
    /\ dirVer \in 0 .. DIRVER_MOD - 1
    /\ writecount \in -1 .. MaxEnds + MaxCrashes - 1
    /\ pc \in Steps
    /\ pc = "idle" => todo = << >> /\ out = << >>
    /\ pc # "idle" => unanswered # None
    /\ phase \in {"off", "uploading", "done"}

\* Whatever went wrong in earlier uploads (a crash, a failed call, a stray
\* request), the image of an upload in which nothing did is the header, the
\* entry point and every record of it, whole and in order, and the header's
\* dataSize is the length of what follows the header.
PublishedWhole ==
    smbios2 # Absent /\ published.clean =>
        smbios2 = <<HdrCell(published.dirVer, Len(smbios2) - MDR_SZ), EpCell>>
                    \o AllCells(published.sent)

\* What a database that starts empty keeps of a sequence of records.
Keeping(kept, r) ==
    IF /\ r.len > 0 /\ r.type # Invalidated
       /\ Len(kept.log) < NumRec /\ kept.used + r.len <= SzData
    THEN [log |-> Append(kept.log, r), used |-> kept.used + Rounded(r.len)]
    ELSE kept

KeptOf(rs) ==
    LET kept[n \in 0 .. Len(rs)] ==
            IF n = 0 THEN [log |-> << >>, used |-> 0] ELSE Keeping(kept[n - 1], rs[n])
    IN  kept[Len(rs)]

Published == INSTANCE SmbiosDb WITH
    ver <- smbios_db.ver, index <- smbios_db.index,
    data <- smbios_db.data, insert <- smbios_db.insert

HoldsLatest == Published!Kept = KeptOf(sent).log

\* After an upload in which nothing went wrong the daemon's own database has
\* the same records as the image, less those it filters or has no room for;
\* the copy it loads records into is the same ("Data miscompare!" is never
\* printed).
DbAgrees ==
    pc = "idle" /\ phase = "done" /\ clean =>
        HoldsLatest /\ smbios_db = Table /\ published.begins = begins

\* A complete image is one that begins with its header and the entry point.  It
\* is the one readers see, or waits under the temporary name.
HasHeader(f) == Len(f) >= 2 /\ f[1].kind = "mdr" /\ f[2] = EpCell

ImageLeft == smbios2 # Absent \/ (temp # Absent /\ HasHeader(temp))

\* As long as no call has failed, ever or since the last begin, there is a
\* complete image under one of the two names from the first one on, wherever the
\* daemon is stopped and whatever is repeated or sent out of turn: the old one goes
\* only for one that has its header, and what a stop between the removal and the
\* rename has left is lost only when the next upload begins.  (A header that
\* could not be written is not noticed, and the old image removed all the same.)
ImageKept ==
    [][(clean \/ faults = 0) /\ ImageLeft /\ ~ ImageLeft' => pc = "begin_open"]_vars

\* Within one life of the daemon, an upload in which nothing went wrong
\* publishes a version other than the image it replaces, unless so many uploads
\* have been begun between the two that dirVer has come round.
VersionAdvances ==
    [][published' # published /\ published # None /\ published'.clean
          /\ published'.crashes = published.crashes
          /\ published'.begins - published.begins < DIRVER_MOD
        => published'.dirVer # published.dirVer]_vars

\* An upload that has ended without a failure is what the image shows in the
\* end, unless the host begins another one or the daemon stops.
UploadReachesReaders ==
    \A b \in 1 .. MaxBegins :
        (phase = "done" /\ clean /\ begins = b)
            ~> \/ smbios2 # Absent /\ published.begins = b
               \/ ~ clean \/ begins # b
=============================================================================
