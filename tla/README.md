# The CHIF daemon of OpenBMC: a verification development

`chif` is the daemon through which the firmware of an HPE server (the *host*)
talks to its BMC: it reads a request from `/dev/chif24`, carries it out and
writes the answer. Around it are the kernel driver, the SMBIOS MDR service that
reads the table it publishes, the journal and the event log behind D-Bus, and
systemd, which starts it again when it stops. The modules here model the parts of
it that keep state or make decisions, check them with TLC on small instances, and
prove with TLAPS what can be proved for every size.

Source paths are relative to the repository (`src/...` for code, `include/...`
for headers).

## 1. Inventory

One process, one thread: `main()` (src/main.cpp:205) reads a request, calls the
handler of its service and writes what the handler returned, or nothing when
that was -1. So requests never overlap; what interleaves is the daemon with
*stops* of the process (crash, kill) at any point of a request, with *failing library
calls*, with a *host that repeats* a request it got no answer to, and with
*readers of its files* in other processes (`chif smbios` is one). A loss of power is
more than a stop, and not modelled: what the kernel has of a file outlives the process
in every module, and `/tmp` would not outlive the BMC.

| component | state | operations | with whom | module |
|---|---|---|---|---|
| Main loop, dispatch (main.cpp) | descriptors of the process | read, dispatch by service, write | all handlers | `ChifLoop` |
| SMBIOS in-memory database (smbios.cpp) | `smbios_load_db`: version, index, data, insert point; five counters | `smbios_data_begin`, `_record`, `_end` | called by the upload | `SmbiosDb` |
| SMBIOS database file (cfg_smbios.cpp) | `smbios_db`, `smbios_cfg_writecount`, `/tmp/tmp_smbiosdata` | read, write, default | upload; the command-line process | `SmbiosUpload`, `SmbiosReader` |
| SMBIOS upload, ROM service (sysrom.cpp) | `dirVer`, `smbios_temp`, `smbios2` | commands 3 (begin), 4 and 12 (records), 5 (end) | host, MDR service | `SmbiosUpload` |
| SMBIOS queries (romchfservice.cpp) | none (reads `smbios_db`) | look-ups by type, handle, module | the command line | `SmbiosReader` |
| SMBIOS command line (db_smbios.cpp) | its own `smbios_db` | list | reads the database file | `SmbiosReader` |
| Environment variables (ev.cpp) | list from `head`, `evs.dat`, `evs.tmp` | init, get by name and by index, set, delete, clear, status | SMIF handlers | `EvStore` |
| SMIF handlers (smif.cpp) | few globals | some 50 commands | EV store, tables, I2C, GPIO, network | `ChifLoop` and the others |
| I2C transaction 0x0072 (smif.cpp, i2c_topology.cpp, i2c_mapping.cpp) | segment tables, mapping | start: fill them; run, repeat, answer | `i2ctransfer`, PlatDef | `I2cTransaction` |
| Platform definition (platdef_api.cpp, uefi_util.cpp) | `platdef`: a table of records, and `*meta`: a directory of it | load; look up by kind | SMIF 0x0202; I2C topology | `PlatDef` |
| Event log 0x0146 (smif.cpp, generic_decoder.cpp, dbus_send.cpp, DataExtract.c) | generated tables | decode, journal, send | D-Bus | `EventText` |
| Triton, health, black box, embedded media (triton.cpp, misc.cpp) | none | fixed answers | | `ChifLoop` |
| UUID, strings | none | formatting | | not modelled |
| systemd unit | | `Restart=always` | the daemon | `Crash`, `Restarted` |

What makes each correct, and what is hard about it:

* **SMBIOS database.** Readers stop at the first index element of length 0, so
  the index must have no gap; records are packed at DWORD boundaries and must not
  overlap; nothing of an earlier upload may show. Hard at the limits: a full
  index, a full data section, a record that just fits when rounded.
* **SMBIOS upload.** What the MDR service reads is the whole of one upload or
  nothing. Hard: the upload is spread over many requests and two copies (file and
  memory), each of which a restart or a failure treats differently; an end may
  be repeated; every failure is answered like a success.
* **Database file, read by another process.** A listing shows each record of the
  table once, and joins the records that refer to each other. Hard: the file is
  rewritten in place, without a lock, so any mixture can be read; and a listing
  must end whatever it read.
* **Environment variables.** A set or a delete changes the EV it names and no
  other; list and file agree. Hard: the whole file is rewritten each time while
  the list's offsets change underneath; a stop in between; a list that is
  unlinked by hand.
* **I2C transaction.** It reaches the bus that two tables say together, its answer is that
  of one run, and tells what was carried out. Hard: the tables are filled from
  records in any order, with later ones over earlier ones; output of a program is
  read as text and a run without output is repeated.
* **Event log.** The text of an event shows each value where the message has its
  placeholder. Hard: a parser with a position, a count of placeholders and a flag
  carried from one to the next; allocations with returns between them; two
  numberings of the logs.
* **Main loop.** Every command is answered or ignored and the loop goes on. Hard:
  two commands leave a descriptor open, and the others, some requests later, do
  not work as they did; some end the process; and 0x0202 may go on for ever.
* **Platform definition.** The directory must list every record of the table
  under its kind, in order. Hard: it is made in two passes, the second of which
  writes where the counts of the first say; the records give their own sizes,
  and may have none; a legacy file has two tables, one moved over the other;
  the limits are on 16-bit and 8-bit counts.

## 2. Plan

The most important state first: what the host stores in the BMC. All of the plan's
modules are there:

1. `SmbiosLog`, `SmbiosDb`: the in-memory database as a bounded log.
2. `SmbiosUpload`, which EXTENDS `SmbiosDb`: the upload over requests, files,
   failures and restarts.
3. `EvDict`, `EvStore`: the EV store as a dictionary.
4. `PlatDef`: the two passes and 0x0202, a step per record.
5. `SmbiosReader`: the database file read by another process during a write, and
   the queries.
6. `I2cTransaction`: command 0x0072 and the tables it goes by.
7. `EventText`: command 0x0146.
8. `ChifLoop`, which EXTENDS `I2cTransaction`: the loop, its dispatch, every other
   command, and the descriptors they share.
9. Proofs (section 5): types and safety invariants, then action properties and the refinements,
   then that every loop ends.

What is left to a later development: the record message byte by byte (its
one-byte size and count, sysrom.cpp:208).

## 3. Modules

| module | what it is |
|---|---|
| `SmbiosLog` | abstract: a log of records, bounded in number and bytes |
| `SmbiosDb` | smbios.cpp: table, counters, begin and record |
| `SmbiosUpload` | sysrom.cpp and cfg_smbios.cpp over `SmbiosDb` |
| `SmbiosReader` | cfg_smbios.cpp, romchfservice.cpp and db_smbios.cpp in a process of its own |
| `EvDict` | abstract: a mapping from names to data |
| `EvStore` | ev.cpp and the EV commands of smif.cpp |
| `PlatDef` | platdef_api.cpp and the command 0x0202 of smif.cpp |
| `I2cTransaction` | i2c_topology.cpp, i2c_mapping.cpp, 0x0072 of smif.cpp |
| `EventText` | 0x0146 of smif.cpp, generic_decoder.cpp, dbus_send.cpp |
| `ChifLoop` | main.cpp, triton.cpp, misc.cpp, all other commands of smif.cpp, over `I2cTransaction` |
| `MC...` | values TLC can enumerate for each of them |
| `..._proof` | theorems about `SmbiosDb`, `SmbiosUpload`, `SmbiosReader`, `EvStore`, `PlatDef`, `EventText`, `ChifLoop` |
| `SequenceFacts` | what their proofs need to know about numbers, sequences and recursive functions |

Definitions whose comment begins with "Wrong:" are mistakes the code could have
and has not. They are not part of any specification: each is there to be put in
the place of the definition it stands before, after which a named property must
fail (`mutants` in PROJECT.json).

### SmbiosDb

`index`, `data`, `insert`, `ver` are the members of `smbios_load_db`; the five
counters are the five globals. `smbios_data_record(r)` has one disjunct for each
way through the function: `BadParm`, `Filter` (type 218), `Drop` (no slot or no
room), `Store`. The `for` loop that looks for a slot is the predicate
`ScanStopsAt`, without recursion, so that the module can be proved about. A byte
is a member of a set; the type and handle of a record, its first four bytes, are
fields of it. The members `size`, `num`, `capacity` and `writes` never differ
between tables and are left out, as are the per-type statistics.

### SmbiosUpload

A request is a sequence of steps, `pc` says which is next: for the begin
`BeginOpen`, `BeginClose`; for records `RecordsOpen`, one `RecordsNext` per
record, `RecordsClose`; for the end `EndOpen`, `DbWrite`, `DbRead`, `EndClose`,
`RemoveOld`, `RenameTemp`, `Sync`. What `fwrite()` was given is in `out` and is
in the file after `fclose()`. `Crash` can come between any two steps: part of
`out` may have reached the file, memory starts anew, files stay.

A file is a sequence of cells: one per byte of a record, one for the MDR header
(with `dirVer` and `dataSize`) and one for the entry point. `char` is unsigned on
the daemon's platform (ARM). A second `fopen()` in the end (line 166) that fails
makes the daemon use a null pointer and stop, which is a `Crash` there.

The host is the environment: `HostBegin`, `HostRecords`, `HostEnd` in any order,
and `HostRetry` of a request without an answer.

History variables: `sent` (records since the begin), `clean` (nothing went wrong
since the begin: no failure, restart or stray request), `published` (which
upload the image is from). No action of the code reads them.

### SmbiosReader

Two processes and one file. The daemon empties the file and writes it page by
page (`WriteBegin`, `WritePage`, `WriteEnd`, which may come early: a full disk or
a stop). The process started as `chif smbios` opens it, reads it page by page
(`Open`, `ReadPage`), checks version and sizes (`Check`) and lists. A page is the
number of the table it is of: the version is in the first, then the index, then
one page for each record, and the insert point in the last. Where the page of a
record is of another table than that of its index element, what the record says
is one of `Garbage`.

The commands `ALL`, `INDEX`, `TYPE`, `MUX`, `HANDLE`, `DIMM` and `MB` are loops over
one of three queries: by handle, by type and position, by module. A loop of the code that
looks for the n-th slot of some kind is the set of slots of that kind of which n come
before (`NthOf`), one slot or none. What is printed of a record is its slot. History: `seen`, the one table the file held while it was
read.

Read from the code and so in the model: `ALL` ends before type 255; a record that
does not fit the buffer ends the listing of its type, and `HANDLE` says "Not
found"; `smbios_get_module()` decides on a type before it has set it, which only
changes the size of the SPD, and no command prints that. Left out: the text that
is printed of a record (`smbios_rec_decode()`), `TYPES` and `HELP`, and an
`fopen()` that fails in the daemon (`SmbiosUpload` has it).

### EvStore

`evs` and `tmp` are the two files, `list` the nodes from `head` on. A file is a
sequence of cells: a header (name and size; 34 bytes) is one, each datum one;
offsets count cells. `back` says whether a node's `backward` pointer leads to its
predecessor or is NULL: all that `remque()` depends on, and what makes it fail on
the first node (`RemQue`).

`setEV()` and `delEV()` are sequences of steps: `SetStart`/`DeleteStart`
(`rename`), `Create` (`fopen`), one step per node (`CopyMatching`, `CopyOther`,
`CopyNothing`, or `ExitInSet`, where the code calls `exit(0)`),
`FinishSet`/`FinishDelete`, `Close`, `RemoveTmp`. `e` and `buf` are the locals that
keep what an earlier turn of the loop read, which `delEV()` writes again when a
read fails. `initEV()` is `LoadNext`, one step per record; where it reads a header
from bytes that are none, the size is 0 or as large as a datum, and the name is
`JunkName`. `GetByName`, `GetByIndex`, `GetStatus` are the three reading commands.

Histories: `want` (the dictionaries the store may stand for: the last one that
was confirmed, and the one a set or delete in progress makes of it), `skewed`
(the list is known to be out of step with the file: the first EV was deleted or
a file was cut short), `guarded` (no rewrite has begun since one was
interrupted). They are never read by the code's actions.

Left out: names that are not NUL-terminated in their 32 bytes, a header cut in
its middle (it reads like the end of the file), failing `malloc()`, an `fopen()`
that fails in `clearEV()` (a null pointer, then a restart: in `ChifLoop`).

### PlatDef

`mem` is the table in memory, from `PLATDEF_BLOB_START` on; a position counts
units of 16 bytes from the start of the array `platdef`, and every unit of it is a
header (a size leads the walks anywhere, also into the middle of a record). Behind
the table the array is zero, and the model has no end there: a walk steps by at
most 255 units and stops at the first zero, and the buffer is far larger than what
the loader puts into it. `record_count`, `count`, `first_index` and `records` are the
members of `*meta`.

`platdef_meta_load()` is a sequence of loops, `pc` says which: `HandleLegacy`;
`CountRecord`, one turn of `populate_record_counts()`, ended by `CountEnd` or
`CountTooMany`; `AssignFirst` for each kind, then `AssignEnd`; `PointRecord` and
`PointEnd` for `populate_record_pointers()`; `Trim`. The commands begin when `pc`
is "ready", also after a load that failed: `AskApml` with `Supplies`, `Processors`,
`Devices`, `DevicesEnd` and `ApmlFull`. `got` is the list of positions found so far. `i`
counts devices modulo 2^8: the code's is an `int`, of which `system_device()` takes the
lowest byte. `Endless` is the state from which that loop does not end.

Abstractions: a file that is missing, or that cannot be uncompressed, is the table that is
all zeros: nothing is found in either case. `end_of_table`, `build_count` and the index of
the hood and the battery steer nothing and are left out. The last answer is forgotten at
the next request.

Not modelled: `platdef_Download_specific_data()` and `..._per_type()`, the searches by ID and
by type. They are what 0x0200 is for, which is answered as not implemented
(smif.cpp:2286-2288); `SmifPkt_0200()` is called by nothing.

History: `walk`, the positions of the records the first pass has counted. It is
what the directory is compared with, and what the proofs hang on.

### I2cTransaction

At the start `SkipEngine` or `AddEngine` takes one engine record of the platform
definition, `ClearEmpty` ends that, and `MapLine` takes one line of the mapping file;
then the tables `segment_to_engine`,
`apml_segments` and `i2cSystemEntries` stay. A request goes through
`RefuseArgument` or `SelectBus`, then `RunProgram` (once or twice, the line it
prints is one of `Outputs`; how many bytes it has is not looked at, so one of fewer
than were asked for is success), or `NoProgram` when `popen()` fails, then `GiveUp`
or `Answer`. A mux setting is a value; the line that `sscanf()` makes nothing of
leaves an entry of zeros, as a segment nobody defines has the setting zero: the
two then match each other.

From the code and in the model: when no run gave anything the answer is 108, "no
such segment", whatever the cause; what is more than 51 bytes of a line
(`LINE_BYTES`) is not read and still counts as success; data followed by "Error:"
is answered with 101 and the data so far; a run that printed nothing is followed by
another, although it may have written (it is not known to have failed); output that is no number ends the
process, since no handler catches what `std::stoi()` throws.
History: `runs`.

Outside it: a segment 255 is looked up behind the end of `apml_segments`
(undefined; the runs ask for segments there are, and one above them), and one that
an engine record names is written there (no record of the model does); the
length of the command line that is put together.

### EventText

`Receive` takes a request; `FindText`/`FindNothing` look the event up in the
tables of its log; the loop of `decode_text()` is `CopyChar`, and for a placeholder
`ShowValue`, `ShowName`, `ShowUnknown` or `ExtractFails`; then `Format`, `Journal`,
`DbusSend` and `Answer`. A message is a sequence of parts and the parser walks its
characters, so that a number of one digit skipped as two, or the reverse, loses
the character behind it. `ptr`, `argCount` and `enumDescFound` are the code's
locals; `live` counts what is allocated.

Where `log_map.find()` gives `end()` and its second is read, the build may give any
name, none, or end the process: all three are outcomes of `DbusSend`.

Left out: the lengths of the buffers (512 and 511), values above one byte (of an
8-byte number in hexadecimal only the low four bytes are printed), variables
behind `evtVarLen`, and `get_action_data()`, TEXT_ACTION and LOGS_DPUDATA, which
no command reaches.

### ChifLoop

`Loading` is the start; `ReadPacket(p)` and `ReadI2c(r)` are `read()`; each service's
handler is one action or a few, of which `Respond` writes an answer and `Ignore`
writes none; `Stop` and `Restarted` are the end of the process and systemd. What the
commands share is `free`, the descriptors the process may still open: 0x0006 and
the EV status (0x0132) take one and do not give it back; the others need one for
a moment. `evs` says where the EVs are: in their file, set aside under the
other name, or no longer found.

A set or a delete is one step here. It works (`Rewrite`), finds no descriptor for the new file
(`RewriteFails`), is cut short by a full file system (`RewriteCut`), or ends the process in the
middle, with the EVs set aside (`ExitInRewrite`: `exit(0)` in `setEV()`, ev.cpp:298). The last is
possible while the list may not match the file (`skewed`): after a delete, which may have been
of the first EV, and after a file was cut. Which delete that was, and where the list then
points, is `EvStore`'s, of which this allows more: the exit may follow any delete, and what
is set aside counts as whatever was in the file. 0x0202 is answered (`PlatformRecords`) or not
(`EndlessRecords`), whichever the table: `PlatDef` says of which tables which. From "looping"
only `Stop` leads on.

Histories: `asked` and `most`, how often a process was asked for what leaves a descriptor
open; `spoilt`, whether an exit or a file that was cut has cost the EVs since they were
last cleared.

Commands that keep nothing are one action with their error code; the other
fields of their answers are left out. `Stop` comes between requests only, and into the
loop that does not end: the modules of the single commands have it inside them.

## 4. Runs

| run | question | verdict |
|---|---|---|
| `smbios_table` | is the table a bounded log, dense, packed, accounted for? | holds |
| `smbios_service` | does an undisturbed upload publish exactly what was sent, with a version other than that of the image it replaces, whatever restarts, repetitions and failing calls came before? while no call fails, is there an image under one of the two names wherever the daemon stops? is an upload published in the end? | holds |
| `smbios_reader` | is what is read in one piece the last table written; does each command list what it should, and end? | holds |
| `smbios_torn` | is what a reader counts as the latest records one table (cfg_smbios.cpp:32)? | no: read during a write |
| `ev_dictionary` | is the store a dictionary, and do reads agree with the file, as long as the first EV is not deleted? | holds |
| `ev_recovery` | is one whole copy there wherever the daemon stops; do reads agree? | holds, until the next rewrite |
| `ev_deleted` | is a deleted EV gone from the list (ev.cpp:412)? | no: the first is not |
| `platdef` | is the directory the table's; of two tables, is the newer one loaded; is an answer to 0x0202 complete; does the load end; which tables keep 0x0202 from an answer? | holds; 256 devices or more, none of the first 256 a slot or a mega cell |
| `platdef_sensors` | are too many sensors cut to the limit (platdef_api.cpp:465)? | no: wraps if the hidden ones alone are too many |
| `chif` | do I2C transactions go where the tables say; is an answer that of the last run, and does it tell what was carried out (once, where nothing is read); what takes the EVs out of their file; what keeps the daemon from the next packet? | holds; only descriptors that run out, an exit in a set and a full file system; only the endless 0x0202 |
| `event_text` | has the entry of an event the text the tables say; is everything freed, and each request answered? | holds |
| `event_log` | is an event in the log its request names (smif.cpp:379)? | no: the third log has two numbers |

Four runs end in a violation, of a promise that a comment makes. The code has
other behaviours that a reader may not expect, each seen in a model or while it
was written, without a run of its own:

* Upload: a stop between the removal of the old image and the rename leaves readers none until
  an end is sent again (sysrom.cpp:189-199), or, if the host begins instead, until that
  upload ends; `dirVer` starts at 1 again after a restart (sysrom.cpp:45, 142), so a new
  image may have the version of the old one; an end that is repeated after it
  was carried out publishes an image without records, in whose header `dataSize`
  has wrapped (sysrom.cpp:163); the number of records and the size of a record are
  taken from one byte (sysrom.cpp:208-213).
* Database file: a write counter of 0 and above does not mean, after a restart in an
  upload, that `smbios_db` is the latest (cfg_smbios.cpp:32-33).
* EVs: the status counts the list and so also a first EV that was deleted
  (smif.cpp:349); the EV file outgrows its largest size (smif.cpp:350).
* Platform definition: with 256 or more system devices that are neither slots nor
  mega cells, the loop of 0x0202 never ends, since the look-up takes a UINT8
  (platdef_api.cpp:573, 978), and no further packet is read. `Answered` and `KeepsReading`
  name this as the one exception.
* Events: `enumDescFound` is not reset between placeholders (generic_decoder.cpp:551);
  an enumeration printed in hexadecimal is looked up by its printed form, so
  values above 9 get no name, although DataExtract.h (near line 10935) says of
  representation "When variable is an enum then representation should be
  0x01(Integer)", which the table entry at DataExtract.c:16611 does not follow;
  the text at DataExtract.c:26595 has placeholders and no arguments.
* I2C: data of a run that then printed "Error:" are returned with the code 101,
  while smif.cpp:932 says that other codes than success return none; fewer bytes than were
  asked for are success (smif.cpp:1029-1044); a transaction that reads and printed nothing is
  run again, though it may have been carried out; a `read_len` above 32 is not refused.
* Commands: `badcmd` writes its error code into the request, so the host sees 0
  (smif.cpp, near 2107); 0x006e answers with the size of another packet; in 0x0006
  three addresses are written to one member of a union, and a socket stays open
  (smif.cpp:671); `getSizeOfEVfile()` does not close its file (ev.cpp:443), and reports
  an empty store when it cannot open it; SmifPkt_0200() is reached by no command,
  0x0200 is answered as not implemented; `WriteSmbiosRecords()` returns -1 for a failure, which is true
  to its caller.
* Loop: the buffer of a request is not cleared between requests and its `pkt_size` not
  compared with what was read.

Bounds, and why they are enough:

* `smbios_table`: 3 slots, 12 bytes, lengths 0, 3, 4, 5 and 7, five records. Both
  limits are met, each before the other; lengths fall on, before and behind a
  DWORD boundary; the proofs cover every other size.
* `smbios_service`: two begins, so that a second upload meets what a first left
  in every state, two ends, one restart, one failing call of any kind at any
  place, two records. The host sends in any order. Begins stay below `DIRVER_MOD`
  (3), so that the condition of `VersionAdvances` on them always holds; with 256 begins that
  never end the code gives the same version again. The proofs cover any number of each. About 680,000 states.
* `smbios_reader`: tables of six slots, two pages of index; three of them written one
  after the other, the first of another version; a record too long for the
  buffer with one of its type behind it, a type that ALL leaves out, more segments
  than there is room for, a module map whose handles name records before and
  behind it, and one whose handles name none. Any of it can be read torn. 137,000
  states.
* `ev_dictionary`: three names, of which one is CQHMEM, data of one and two cells
  (and of three, which is refused), two failing opens. Three nodes are the least
  that have a first, a middle and a last one. The names other than CQHMEM are
  interchangeable and a symmetry set.
* `ev_recovery`: two names, one restart and one failing call at any step. A second
  restart has been tried without failing calls and shows nothing new.
* `platdef`: a table record and up to four units, each with any header of a set of
  five to ten: sensors shown and hidden, fans, supplies, processors, devices of three
  sorts, an unknown type, sizes 0, 1 and 2, an end that may be missing. That is
  enough for two records of each of two kinds in any order, for a size that leads
  into a record or past the end, and for every limit to be met and passed
  (`PLATDEF_MAX_RECORDS` is 4, each other limit 1 to 3). `UINT16_MOD` is 64,
  far above any count, so that only a count below 0 wraps; `UINT8_MOD` is 3, so that
  tables have fewer devices than the index counts, as many, and more, with a slot or a mega
  cell among them and without. In legacy files the old table has up to three units and
  the new one two, three or seven (too large): shorter, as long, and overlapping.
  The proofs cover tables of every length. 200,000 states.
* `chif`: two engines in place and one too many, three segments, lines of the mapping
  twice, bad and behind the limit of two; one retry, lines of two bytes, reads of 0,
  1 and 3; three descriptors, so that the two commands that keep one use them up
  and every other command meets 0, 1 and 2. 525,000 states.
* `event_text`: two or three messages in each log: with every kind of part, with more
  placeholders than have one digit (`ONE_DIGIT` is 1 for 9), with an argument
  too few, with a percent sign; enumerations in decimal and in hexadecimal with
  values named and not; one failing allocation or call of the bus.

The uploads may stop (the host need not send anything, and the bounds end), so
`smbios_service` does not check for deadlock; all others do.

**Fairness.** `UploadSpec` has weak fairness of `Handler`: the one thread goes on
with a request it has read, and no step of it waits for anything but the file
system. There is none for the host, for `Crash` or for a failing call.
`UploadReachesReaders` is checked under it. `FairSpec` of `PlatDef` and `Spec` of
`EventText` likewise have weak fairness of their `Handler`, which waits for nothing at
all (the journal and the bus return). In `SmbiosReader` it is of `Process`, not of the
daemon. `ChifSpec` has weak fairness of `Daemon` and of `Restarted`, which is
systemd's `Restart=always`; `KeepsReading` needs no request to come, since
waiting for one is what it says; it allows for the endless 0x0202, which fairness
cannot end.

## 5. Proofs

| module | about | rests on |
|---|---|---|
| `SmbiosDb_proof` | the database is a bounded log, dense, packed and accounted for | `DbAssumption` |
| `SmbiosUpload_proof` | types of the upload, and that its write counter keeps its range; an image under one of two names; versions; the image, and that one is published; the database | the same, `UploadAssumption`, `SizeAssumption` |
| `SmbiosReader_proof` | what a file read alone gives; what each command lists; the records a module is put together from | `ReaderAssumption`, `CommandsAssumption` |
| `EvStore_proof` | reads agree with the file; one whole copy; the store as a dictionary | `EvAssumption` |
| `PlatDef_proof` | the directory is the table's; every section ends inside the array; of two tables the newer; 0x0202 answers what the directory says | `PlatDefAssumption` |
| `ChifLoop_proof` | the I2C tables; the bus, the answer and the runs of a transaction; descriptors and EVs | `I2cAssumption`, `LoopAssumption` |
| `EventText_proof` | the walk over a message; what is allocated; the text that is sent | `TextAssumption`, `EnumAssumption`, `ValuesAssumption` |
| `SequenceFacts` | facts about sequences that these need | nothing |

The assumptions are about constants and stand in the modules that declare these:
the sizes of the arrays (`SzData` is a multiple of 4, as 35000 is; at least one
index element; an array of the directory that a UINT16 can count; the buffer of the table is
finite), the moduli of
the counters, bounds that are natural numbers, records and messages of the right
kind, and, in `SizeAssumption`, that the bytes of one upload are fewer than 2^32. Of the EVs it is assumed that no datum is empty
(`SmifPkt_012c()` deletes instead), that one is the longest (there is a largest size in
the code), that cells of data are no headers, and that `Absent` and `Missing` stand
for nothing a file can hold. Of a command it is assumed what `db_smbios_handler()` makes of
its arguments: one type, one handle, or kinds of module that differ. Of the tables of events it is
assumed what holds of DataExtract.c: no message has more arguments than `MAX_ARGS`, the
number of a placeholder has one digit or two, a message with a percent sign as text has no
arguments (there are two such), and no variable that is text is replaced by a name (one,
DataExtract.c:17142, has names, and is shown as it is).
There is no bound on how many records are in a message or a table, on how long they
are, on how often the host sends, or on how many calls fail and restarts happen.

**SMBIOS database.** `TableInvariant` is `Spec => []IInv`. `DenseIndex` and `Packed` are
not inductive as they stand: that a stored record ends at or before `insert` and that
offsets increase from slot to slot (`Ordered`) are needed to show that the next
record overwrites none, and the number of valid slots to connect the counters. From
it follow `TypeCorrect` (with the bound on the insert point), `IndexDense`, `RecordsPacked`, `RecordsApart` and
`RecordsAccounted`, one for each property of `smbios_table`, and
`TableImplementsLog`: a begin maps to `Begin`; a store appends to the log exactly the
record sent (its bytes are what is read back, and every earlier record's are
untouched, since they lie below `insert`); a record filtered, dropped or empty is
one the log refuses, and not otherwise.

**SMBIOS upload.** Every safety property of `smbios_service` is proved.

* `UploadTypes` needs `WritesCounted`: the write counter is bounded by the ends that
  were sent and the starts of the daemon only if an end on its way to `DbWrite` is not
  counted yet (`EndPending`), and not again when it is repeated.
* `ImagesKept` (`ImageKept`) needs `HeaderReady`: from `fopen()` on, what is to be written over
  the start of the file is a header, and afterwards it is there. That no call has failed is
  in the property, since a header that could not be written is not noticed; stops,
  repetitions and stray requests are not excluded. A header stays in the temporary file
  whatever is appended or written over it (`HeaderStays`, `HeaderRewritten`).
* `VersionsAdvance`: `VersionAdvances` compares an image with the one it replaces. Its
  condition that fewer uploads were begun in between than `DIRVER_MOD` is the code's
  limit: `dirVer` counts modulo 256 and the begins between two images are not
  limited. The invariant, `VersionsCounted`, says that `dirVer` has moved on once for
  each begin that was carried out since the image, and `CleanOnce` that an
  undisturbed upload has not been ended twice, so that at least one was.
* `ImagesWhole` needs to know the temporary file at each step (`Building`): the two
  blank cells and the cells of the records written so far, in the file or still in
  the stream's buffer, then the header in place of the blanks. The records of a
  message that are still to be handled are `todo`; `sent` is what was written,
  then those.
* `EndedDelivered` is what of `UploadReachesReaders` is no matter of fairness: an upload that
  was ended with nothing wrong is on its way through the steps of the end or is the
  image (`EndedWell`); with `PublishedWhole`, the image is then exactly what was sent.
* `DatabaseAgrees` needs the same of the database (`Loading`): it holds what a bounded
  log makes of the records handled so far (`KeptOf`), by the database's own lemmas;
  and of the file (`Ending`): between the write and the read it is whole, has the
  version that `smbios_cfg_read()` expects, and so is read back as written.

`SequenceFacts` states induction for sets of numbers, since the library's theorem takes
an operator, and what follows from it about `FlattenSeq`.
`KeptOf`, the reference of `HoldsLatest`, is a recursive function for this reason.

**The database file as `chif smbios` reads it**, for every number of slots and pages, all
tables, any interleaving with the daemon's writes, and files that are cut anywhere.

* `ReaderTypes`: `ReaderTypeOK`. That `i` stays at or below the number of slots needs what
  a query returns to have `i` slots before it (`RankGap`), and that `Pages` is more than
  every place that is written needs that the index ends before the records begin
  (`PageRange`).
* `LastWrittenRead`: `ReadsLastWritten`. While `seen` names a table, the file is whole and
  of that table (the first step of the daemon takes it back), so the pages read so far are
  its, and at the end all of them (`LoadInv`).
* `AllListed`: `ListsAll`. A table read in one piece is not torn, so that what a query sees is
  what the table has (`WholeQueries`). In between, what has been printed is all that the keys dealt
  with ask for, and of the key at hand the first `i` (`ListInv`). The end of a listing is
  where the argument is: a query that finds nothing at `i` has either run out of the
  records of the type or met one that does not fit, and in both cases no record behind it
  is to be listed. This is a fact about ranks, `UnderListed`: if some slot has a rank of `i`
  or more, one has `i` (`RankGap`), which is counting.
* `ModulesJoined`: `ModuleJoins`. In `JoinInv` each line is put together from what its map names.
  `smbios_get_module()` fetches each record it has found once more by its handle, which
  gives the same record only if no other has that handle (`NamedSelf`); hence the
  condition `UniqueHandles`. That kinds of module differ is what keeps a map from
  being printed for two of them.

**Environment variables**, for all names and data, any number of EVs, restarts and
failures. `DictOf`, `Walk` and `WellFormed` are recursive functions over a file; that
they exist is shown by `BackwardRecursion` of `SequenceFacts`, and what they compute by
`Backwards`, the induction that goes with it. Two facts about them carry the rest: a
record has the same meaning in any longer file (`RecordStays`), and a record written at
the end of a file of whole records changes one name and adds one node
(`ContinuedFacts`). The invariant, `EvInv`, is

* `TypeInv`, the types of the module with those of the locals of a rewrite;
* `Linkage`, what the list says of the files while it is not known to be out of step
  with them: at rest each node leads to a record of its name, the first node of a name to
  the datum the file gives it (`LinkedTo`); during `initEV()` the same of the records
  so far (`LinkedUpTo`); and in a rewrite (`Copies`) the nodes from `n` on still lead to the
  old file, those before it to the new one, which says of them what it is to say when
  the operation is done, and has a record for each of them. The count is needed because
  the code computes the place of a node, and of the EV that is set, from what it has
  written so far;
* `Guard`, where the EVs are while `guarded`: in `evs.tmp` from the `rename()` on, and in the
  new file as well from `fclose()` to `remove()`, with the operation applied.

From it follow `EvTypesCorrect`, `ReadsCorrect` (`ReadsAgree`) and `CopyCorrect`
(`OneWholeCopy`). `DictionaryImplemented` assumes what the run `ev_dictionary` does: no
restart, no delete of the first EV, no write cut short (`fopen()` may fail). It adds that no
name is in the list twice and that every node but the first has its `backward` pointer
(`Undisturbed`), so that `remque()` takes out the one node it should; then the copying maps
to stutters and `Close` to the set or delete.

**Platform definition**, for every set of tables, records of every size, and all limits
(with fewer than 2^16 - 1 records, as the code has):

* `Invariant`: `Spec => []DirInv`. `DirectoryRight` speaks of the end only. In the
  loops, the counts are those of a prefix of `walk` (`Counted`), the sections are laid
  out up to a kind (`Sections`: a section begins where the numbers of all lower
  kinds say), and the records of a prefix are in the array (`Noted`). The second pass
  sees what the first saw because `walk` is a chain in which each position follows
  from the one before (`Chain`) and `mem` does not change between them; it ends where
  the first ended because no record of the chain stops a pass and what follows it
  does. That a record overwrites no other is `PlacesDiffer`, a fact about counting
  in sequences.
* `DirectoryCorrect`: `DirectoryRight`, from it.
* `TypesCorrect`: `PlatDefTypeOK`. What it adds is that each section ends inside the
  array (`SectionsInside`), after a load that failed as well, so that no lookup by a
  command reads outside it. The visible sensors are the exception, since their
  count may have wrapped; no command looks them up.
* `NewTableLoaded`: `LegacySuperseded`. From the move on, memory at every place of the new
  table is the file at the place it came from (`TableMoved`), overlapping or not, and
  nothing writes to it again; a walk that is inside the new table's length has
  stopped before what is left of the old one.
* `WalkInOrder`: the first pass visits records in the
  table's order, and one that met a record of size 0 has visited it until there were
  too many, so that after a load that succeeded there is none among them.
* `ApmlAnswersComplete`: `ApmlComplete`. What has been listed are the records of the kinds
  dealt with and a beginning of the one at hand (`ApmlSearch`). That the n-th lookup
  of a kind finds the n-th of its records, and that every one is the n-th for
  some n, is counting (`NthOfKind`): as many places as records, no two the same.

**The daemon and its I2C command**, for every platform definition, mapping file, host
and number of descriptors. `ChifInvariant` is `ChifSpec => []ChifInv`. What each of the
twenty-odd handlers does to the transaction is said once: a step of the daemon is
one of the transaction's own or leaves it alone (`MovesOfDaemon`).

* `RoutesCorrect`: `RoutedAsDefined` compares the bus with definitions that are read as a
  whole, while the code takes them apart record by record. The invariant
  (`TablesBuilt`) says the same of a prefix: a segment has the last setting that the
  engines so far give it (`LastGiven`), by a lemma for an engine out of its place, which
  gives nothing, and one in its place; `ClearEmpty` then only clears what was
  never set, since a segment with a setting has an engine. The entries are the lines
  so far, as far as there is room (`Mapped`), so that the first of them that fits
  is the first line that does (`BusIsGiven`).
* `AnswersCorrect` and `OutcomesTold` need `NothingYet`: as long as a transaction goes on, its
  runs gave no byte, and the packet is still zero; and where nothing is read, none of
  them was carried out.
* `EvsKept` needs `DescriptorsAsked`: with descriptors left, those that are gone are at most
  as many as were asked for; with none left, all but one were, and the one may be
  the copy of a set that failed, which takes less than two to fail. The exit of a set and
  the file that was cut are exceptions of the property (`spoilt`), as in the code.
* `ChifTypes`: `ChifTypeOK`, and with it that every handler answers with an answer, goes on
  or ends the process (`PlainAnswers`).

Their assumptions are that there are fewer than 256 engines (0xFF stands for none in
`segment_to_engine`; there are 10), that engine records name segments there is room for,
and that `None` is none of the values it stands beside.

**Events**, for all tables of messages, variables and names, all values, and any number of
failing calls.

* `EventTypes`: `EventTypeOK`. A placeholder is skipped by two characters or three, whatever
  digits it has. That the walk is never more than one character behind the end follows
  from a message with arguments not ending in a percent sign (`PercentInside`).
* `ArgumentsFreed`: `AllFreed`. What is allocated is at least the arguments in place, and exactly
  these while nothing has failed (`WalkInv`); each placeholder takes a place that was empty
  (`OneMore`).
* `TextRight`: `RendersRight`. Where all fits, the walk stands between two parts (`Walked`): the
  format string has one piece for each part that is behind it, `ptr` is where the next part
  begins (`CharsAt`), `argCount` the number of placeholders behind it (`NthCount`), and each
  argument in place is the one intended. So a placeholder is always met at its percent
  sign, and the number of characters skipped is that of its digits (`NextPart`). That the
  value read back from its digits is the value (`ReadBack`), and that a name found before is
  the only reason for `enumDescFound`, is what the condition on misread values is for.
  `snprintf()` then pairs the n-th conversion with the n-th argument (`WalkedAll`).

**How long things take.** The liveness properties are out of the prover's reach, since they
rest on fairness, that is on ENABLED. What they need besides is that the code's loops end,
and this is proved, in each module from an expression of what is left to do (`StepsLeft`,
`TurnsLeft`) that every step of the code makes smaller (`Nearer`):

| theorem | what ends | what is left to do |
|---|---|---|
| `UploadBounded` | a message of the upload | the records still to be handled and the calls after them; seven for an end |
| `LoadBounded` | a load of the platform definition | at most twice `PLATDEF_MAX_RECORDS` and 30: the count, the kinds, and in the second pass the records of `walk` at or after `p` (`PassAhead`); a record of size 0 does not keep the first pass, which counts it, and there is none for the second |
| `RequestBounded` of `PlatDef_proof` | a request, 0x0202, if there are fewer than 2^8 devices | the lookups of each kind that are left |
| `CommandBounded` | a command of `chif smbios` | the pages to read, then for each key at most as many records as there are slots, whatever is in the file |
| `DaemonBounded` | a request, and the start of the daemon | the engines and lines still to be loaded; the runs of `i2ctransfer` that are left; a 0x0202 that does not end is one step, into "looping", with nothing left |
| `RequestBounded` of `EventText_proof` | an event | its stages, and in the walk the characters ahead, of which each turn takes one to three |

With 2^8 system devices or more 0x0202 need not end (its index is a UINT8); `RequestBounded` excludes
this with `FewDevices`, and only this. That a step is possible as long as something is left, and so
that fairness makes it happen, is what TLC checks.

Every safety property that a run checks is a theorem. Model-checked only: all liveness
(`UploadReachesReaders`, `Answered`, `LoadEnds`, `ReaderEnds`, `KeepsReading`, `EventAnswered`),
with the theorems above for what it rests on. No module uses a RECURSIVE operator.

## 6. Not modelled

`components` in PROJECT.json has every part with its reason. The definitions of
the modules translate about 4,200 lines of the repository's 55,331. The others are:

* the generated tables of events, `DataExtract.c` and `DataExtract.h`: 38,000 lines of
  data. `EventText` takes tables as a constant, with every kind of entry these have;
* `platdef.h` and `smbios.hpp`, and the headers of registers and network: 6,000 lines of
  types and constants; those that the models go by are in the map;
* the printing of `chif smbios` (1,700 lines of db_smbios.cpp), `chif` and its help (main.cpp)
  and of the platform definition: formatting without state;
* the answers of SMIF commands that keep nothing: their error codes and what they do to
  the descriptors are in `ChifLoop`, how they fill in their fields is not;
* `uuid_gen.cpp`, which nothing calls, `strutil.cpp`, `smbios_get_str()`,
  `smbios_decode_216()`: pure functions on strings;
* the record message of the upload byte by byte: a message is a sequence of records, and
  that its count and sizes are taken from one byte each is listed under `hazards`;
* statistics that are only printed, log output, and the lengths of text buffers.

Outside the repository and modelled from how it is used: the file system (calls
succeed or fail; `fclose()` writes what `fwrite()` was given; a stop in between leaves
some of it), the driver of `/dev/chif24` (a packet at a time), `i2ctransfer` (one
line of text per run, or none), D-Bus and the journal (accept or fail), systemd.
