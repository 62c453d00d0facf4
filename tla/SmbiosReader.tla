---------------------------- MODULE SmbiosReader ----------------------------
(***************************************************************************)
(* `chif smbios ...', a process of its own that reads the database file    *)
(* the daemon writes and answers one command from it: smbios_cfg_read()    *)
(* and its caller in src/src/cfg_smbios.cpp, the queries of src/src/       *)
(* romchfservice.cpp, and db_smbios_handler() of src/src/db_smbios.cpp.    *)
(*                                                                         *)
(* Nothing keeps the two from the file at the same time.  The daemon       *)
(* truncates it and writes it page after page, and it is read page after   *)
(* page.  A page is the number of the table it is from, 0 where memory is  *)
(* still zero: the first page has the version, then come those of the      *)
(* index, then one for each record, the last has the insert point.  What   *)
(* is printed of a record is its slot.                                     *)
(***************************************************************************)
EXTENDS Integers, Sequences, SequencesExt, FiniteSets, TLC

CONSTANTS
    NumRec,         \* SMBIOS_NUM_REC, 1000
    PerPage,        \* slots of the index in one page
    Tables,         \* the tables the file may hold, in the order they are written
    Garbage,        \* what the bytes of one table, read as a record of another, may say
    LAST_TYPE,      \* 254: the last type ALL asks for
    BUF_SIZE,       \* SMBIOS_MAX_RECSIZE, 256: room for a record
    MUX_SIZE,       \* sizeof(mux[0]): room for a record of the segment map
    N_MUX,          \* 64: how many of them there is room for
    TYPE_MUX,       \* 228
    TYPE_DIMM_I2C,  \* 227
    TYPE_MEM_LOC,   \* 202
    TYPE_CPQ_PROC,  \* 197
    Commands,       \* the commands that are given
    Absent          \* there is no file

Slot == 1 .. NumRec

\* A row is an element of the index and the record it points to: the header
\* length the record gives itself, and what stands where a module's map has
\* its kind and where the map, a location and a processor have the handles
\* of the module and of the processor.
RowFields == {"type", "handle", "length", "hlen", "kind", "h17", "h4"}

ASSUME ReaderAssumption ==
    /\ NumRec \in Nat \ {0} /\ PerPage \in Nat \ {0}
    /\ {LAST_TYPE, BUF_SIZE, MUX_SIZE} \subseteq Nat /\ N_MUX \in Nat \ {0}
    /\ Tables \in Seq([ours : BOOLEAN, rows : [Slot -> [RowFields -> Nat]]])
    /\ Garbage \subseteq [RowFields -> Nat]
    /\ Absent \notin Seq(DOMAIN Tables)

\* What the arguments of each command ask for: argv[2] is one type or one
\* handle, the segment map has one type, and the kinds of module that DIMM and
\* MB go through differ.
ASSUME CommandsAssumption ==
    \A c \in Commands :
        /\ c.do \in {"ALL", "TYPE", "MUX", "HANDLE", "DIMM"}
        /\ c.do # "ALL" => c.keys \in Seq(Nat)
        /\ c.do \in {"TYPE", "HANDLE"} => Len(c.keys) = 1
        /\ c.do = "MUX" => c.keys = <<TYPE_MUX>>
        /\ c.do = "DIMM" => IsInjective(c.keys)

ZeroRow == [f \in RowFields |-> 0]

\* The pages: the version, the index, the records, the insert point.
IndexPage(s) == 2 + (s - 1) \div PerPage
DataPage(s)  == IndexPage(NumRec) + s
Pages        == DataPage(NumRec) + 1

Whole(k) == [p \in 1 .. Pages |-> k]

\* A page smbios_cfg_default() has filled.
Empty == Len(Tables) + 1
DefaultTable == [p \in 1 .. Pages |-> IF p = 1 THEN Empty ELSE 0]

\* The tables whose version, size and dimensions are this program's.
AnyVersion(page) == page > 0
Ours(page) == page = Empty \/ (page \in DOMAIN Tables /\ Tables[page].ours)

VARIABLES
    file,           \* SMBIOS_DATA_FILE, its pages, or Absent
    begun,          \* the last of the tables the daemon has begun to write
    writing,        \* the daemon has the file open
    pc,             \* where the process is
    rpos,           \* the page fread() is at
    mem,            \* smbios_db
    writecount,     \* smbios_cfg_writecount
    cmd,            \* argv
    key,            \* which type, handle or kind is being listed
    i,              \* which of its records is next
    out,            \* what has been printed
    junk,           \* what a record torn from its index reads as
    seen            \* history: the one whole table the file held while it was
                    \* read; 0: there was no file; -1: it was cut or changed

daemon  == <<file, begun, writing>>
loading == <<rpos, mem, writecount, junk, seen>>
listing == <<cmd, key, i, out>>
vars    == <<daemon, pc, loading, listing>>

-----------------------------------------------------------------------------
(* The daemon: smbios_cfg_write().                                         *)

\* What happens to the file while it is being read.
Disturb == seen' = IF pc = "read" THEN -1 ELSE seen

OnlyFile == UNCHANGED <<pc, rpos, mem, writecount, junk, listing>>

\* fopen("wb+") empties the file that is there.
WriteBegin ==
    /\ ~writing /\ begun < Len(Tables)
    /\ begun' = begun + 1
    /\ file' = <<>>
    /\ writing' = TRUE
    /\ Disturb /\ OnlyFile

WritePage ==
    /\ writing /\ Len(file) < Pages
    /\ file' = Append(file, begun)
    /\ UNCHANGED <<begun, writing>>
    /\ Disturb /\ OnlyFile

\* fclose(), after all of it, or where the disk was full or the daemon killed.
WriteEnd ==
    /\ writing
    /\ writing' = FALSE
    /\ UNCHANGED <<file, begun, seen>>
    /\ OnlyFile

-----------------------------------------------------------------------------
(* Loading: smbios_cfg_read() and smbios_cfg_read_into_globalvar().        *)

Start(c) ==
    /\ pc \in {"idle", "done"}
    /\ pc' = "open" /\ cmd' = c
    /\ mem' = Whole(0) /\ writecount' = -1
    /\ key' = 1 /\ i' = 0 /\ out' = <<>> /\ seen' = 0 /\ rpos' = 1
    /\ junk' = ZeroRow
    /\ UNCHANGED daemon

\* A file that is not there leaves an empty table, and success.
Open ==
    /\ pc = "open"
    /\ IF file = Absent
          THEN pc' = "check" /\ mem' = DefaultTable /\ UNCHANGED seen
          ELSE /\ pc' = "read" /\ UNCHANGED mem
               /\ seen' = IF \E k \in DOMAIN Tables : file = Whole(k) THEN file[1] ELSE -1
    /\ UNCHANGED <<daemon, rpos, writecount, junk, listing>>

\* Wrong: the page goes one place too far.
ReadPageShifted ==
    /\ pc = "read" /\ rpos <= Len(file)
    /\ mem' = (rpos + 1 :> file[rpos]) @@ mem
    /\ rpos' = rpos + 1
    /\ UNCHANGED <<daemon, pc, writecount, junk, seen, listing>>

ReadPage ==
    /\ pc = "read" /\ rpos <= Len(file)
    /\ mem' = [mem EXCEPT ![rpos] = file[rpos]]
    /\ rpos' = rpos + 1
    /\ UNCHANGED <<daemon, pc, writecount, junk, seen, listing>>

\* The record does not come from the table its place was taken from.
Torn(s) == mem[DataPage(s)] \notin {0, mem[IndexPage(s)]}

\* fread() is at the end.  A table that is all there is looked at; one that
\* is not is left as it is.  Both return 0.
EndRead ==
    /\ pc = "read" /\ rpos > Len(file)
    /\ pc' = "check"
    /\ mem' = IF rpos > Pages /\ ~Ours(mem[1]) THEN DefaultTable ELSE mem
    /\ junk' \in IF \E s \in Slot : Torn(s) THEN Garbage ELSE {junk}
    /\ UNCHANGED <<daemon, rpos, writecount, seen, listing>>

Check ==
    /\ pc = "check"
    /\ pc' = "list"
    /\ mem' = IF Ours(mem[1]) THEN mem ELSE DefaultTable
    /\ writecount' = IF writecount < 0 THEN 0 ELSE writecount
    /\ UNCHANGED <<daemon, rpos, junk, seen, listing>>

-----------------------------------------------------------------------------
(* The queries, on the table that was loaded.                              *)

\* The element of the index, and the record where it points.
Index(s) == IF mem[IndexPage(s)] \in DOMAIN Tables THEN Tables[mem[IndexPage(s)]].rows[s]
            ELSE ZeroRow
Content(s) == IF Torn(s) THEN junk ELSE IF mem[DataPage(s)] = 0 THEN ZeroRow ELSE Index(s)

InUse(s) == Index(s).length # 0

\* How many of a set of slots come before one, and the one that n come before,
\* if there is one.
Rank(S, s)  == Cardinality({r \in S : r < s})
NthOf(S, n) == {s \in S : Rank(S, s) = n}

OfTypeHere(type) == {s \in Slot : InUse(s) /\ Index(s).type = type}

\* smbios_get_rec_by_handle(), smbios_get_rec_by_type_and_position(): the
\* slot of the record that is found.
ByHandle(handle) == NthOf({s \in Slot : InUse(s) /\ Index(s).handle = handle}, 0)

ByTypeAndPosition(type, n) == NthOf(OfTypeHere(type), n)

\* What is found and is not SMBIOS_RETV_CLIPPED.
Fits(s, szbuf) == Index(s).length <= szbuf

\* The one slot of a set that has one, and 0 if there is none.
Only(S) == IF S = {} THEN 0 ELSE CHOOSE s \in S : TRUE

\* The record another one names, whole or clipped.
Named(handle) == Only(ByHandle(handle))

\* The first location or processor record that has the handle in its field f:
\* each is found in the index and fetched by the handle it has there.
Fetched(S) == {Named(Index(s).handle) : s \in S}

FirstWith(type, f, handle) ==
    Only(Fetched(NthOf({s \in OfTypeHere(type) : Content(Named(Index(s).handle))[f] = handle}, 0)))

\* Wrong: the location is looked for by the processor's handle.
CompositeCrossed(t227) ==
    LET map == Content(t227)
    IN  [t227 |-> t227, t17 |-> Named(map.h17), t4 |-> Named(map.h4),
         t202 |-> FirstWith(TYPE_MEM_LOC, "h17", map.h4),
         t197 |-> FirstWith(TYPE_CPQ_PROC, "h4", map.h4)]

Composite(t227) ==
    LET map == Content(t227)
    IN  [t227 |-> t227, t17 |-> Named(map.h17), t4 |-> Named(map.h4),
         t202 |-> FirstWith(TYPE_MEM_LOC, "h17", map.h17),
         t197 |-> FirstWith(TYPE_CPQ_PROC, "h4", map.h4)]

\* smbios_get_module(): the records the num-th module of this kind is put
\* together from.
Modules(matchtype) == {s \in OfTypeHere(TYPE_DIMM_I2C) : Content(s).kind = matchtype}

smbios_get_module(matchtype, num) ==
    {Composite(t227) : t227 \in Fetched(NthOf(Modules(matchtype), num))}

-----------------------------------------------------------------------------
(* db_smbios_handler(): a command lists, for each of its keys, one record  *)
(* after the other until there is none.                                    *)

Keys(c) == IF c.do = "ALL" THEN [k \in 1 .. LAST_TYPE + 1 |-> k - 1] ELSE c.keys

Listable(s, szbuf) == Fits(s, szbuf) /\ Content(s).hlen # 0

Following(c, k, n) ==
    CASE c.do \in {"ALL", "TYPE"} -> {s \in ByTypeAndPosition(k, n) : Listable(s, BUF_SIZE)}
      [] c.do = "MUX" -> {s \in ByTypeAndPosition(TYPE_MUX, n) : n < N_MUX /\ Listable(s, MUX_SIZE)}
      [] c.do = "HANDLE" -> {s \in ByHandle(k) : n = 0 /\ Fits(s, BUF_SIZE)}
      [] c.do = "DIMM" -> smbios_get_module(k, n)

AtKey == pc = "list" /\ key <= Len(Keys(cmd))

\* Wrong: the same record is asked for again.
ListRecordAgain ==
    /\ AtKey
    /\ \E e \in Following(cmd, Keys(cmd)[key], i) :
          out' = IF out # <<>> /\ Last(out) = e THEN out ELSE Append(out, e)
    /\ UNCHANGED <<daemon, pc, loading, cmd, key, i>>

ListRecord ==
    /\ AtKey
    /\ \E e \in Following(cmd, Keys(cmd)[key], i) : out' = Append(out, e)
    /\ i' = i + 1
    /\ UNCHANGED <<daemon, pc, loading, cmd, key>>

\* Wrong: the instance number is not reset for a new type.
NextKeyKeepsInstance ==
    /\ AtKey
    /\ Following(cmd, Keys(cmd)[key], i) = {}
    /\ key' = key + 1
    /\ UNCHANGED <<daemon, pc, loading, cmd, i, out>>

NextKey ==
    /\ AtKey
    /\ Following(cmd, Keys(cmd)[key], i) = {}
    /\ key' = key + 1 /\ i' = 0
    /\ UNCHANGED <<daemon, pc, loading, cmd, out>>

Exit ==
    /\ pc = "list" /\ key > Len(Keys(cmd))
    /\ pc' = "done"
    /\ UNCHANGED <<daemon, loading, listing>>

-----------------------------------------------------------------------------

Process ==
    \/ Open \/ ReadPage \/ EndRead \/ Check
    \/ ListRecord \/ NextKey \/ Exit

Init ==
    /\ file \in {Absent} \cup {Whole(k) : k \in {1} \cap DOMAIN Tables}
    /\ begun = IF file = Absent THEN 0 ELSE 1
    /\ writing = FALSE
    /\ pc = "idle" /\ rpos = 1 /\ mem = Whole(0) /\ writecount = -1
    /\ cmd = [do |-> "TYPE", keys |-> <<>>] /\ key = 1 /\ i = 0 /\ out = <<>>
    /\ junk = ZeroRow /\ seen = 0

Next ==
    \/ WriteBegin \/ WritePage \/ WriteEnd
    \/ \E c \in Commands : Start(c)
    \/ Process

\* A process that was started goes on running.
Spec == Init /\ [][Next]_vars /\ WF_vars(Process)

-----------------------------------------------------------------------------
(* Properties.                                                             *)

Entries(c) == IF c.do = "DIMM" THEN [{"t227", "t17", "t4", "t202", "t197"} -> 0 .. NumRec] ELSE Slot

\* The state of the process and of the file: nothing is read past the end of
\* smbios_db, and nothing is listed beyond the last key.
ReaderTypeOK ==
    /\ file = Absent \/ (file \in Seq(DOMAIN Tables) /\ Len(file) <= Pages)
    /\ begun \in 0 .. Len(Tables) /\ writing \in BOOLEAN
    /\ pc \in {"idle", "open", "read", "check", "list", "done"}
    /\ rpos \in 1 .. Pages + 1
    /\ mem \in [1 .. Pages -> 0 .. Empty]
    /\ writecount \in {-1, 0}
    /\ key \in 1 .. Len(Keys(cmd)) + 1 /\ i \in 0 .. NumRec
    /\ out \in Seq(Entries(cmd))
    /\ junk \in Garbage \cup {ZeroRow}
    /\ seen \in -1 .. Len(Tables)

Loaded == pc \in {"list", "done"}

\* A process that has the file to itself answers from the table last written,
\* and from an empty one if there is no file or it is of another version.
ReadsLastWritten ==
    Loaded /\ seen # -1 => mem = IF seen > 0 /\ Tables[seen].ours THEN Whole(seen) ELSE DefaultTable

\* Every word of the comment on smbios_cfg_writecount (cfg_smbios.cpp:31-33):
\* once it is 0, smbios_db is a table, and not parts of two or of none.
CountedIsWhole ==
    pc = "list" /\ writecount >= 0 => mem = DefaultTable \/ \E k \in DOMAIN Tables : mem = Whole(k)

\* The records of a table and whether what follows them is listed, from what
\* the table is.
Kept(k)        == {s \in Slot : Tables[k].rows[s].length # 0}
OfType(k, t)   == {s \in Kept(k) : Tables[k].rows[s].type = t}
Shown(k, s, n) == Tables[k].rows[s].length <= n /\ Tables[k].rows[s].hlen # 0
First(S)       == IF S = {} THEN 0 ELSE CHOOSE s \in S : \A r \in S : s <= r

\* A record is listed if it and those of its type before it fit the buffer.
ListedOf(k, t, n) == {s \in OfType(k, t) : \A r \in OfType(k, t) : r <= s => Shown(k, r, n)}

\* On a table that was read in one piece, ALL lists every record of types 0 to
\* 254 once, type after type, each type in the order of the table, up to the
\* first of a type that does not fit the buffer; TYPE lists those of one type;
\* MUX lists the segments there is room for; HANDLE the first that has it.
ListsAll ==
    pc = "done" /\ seen > 0 /\ Tables[seen].ours =>
        LET rows    == Tables[seen].rows
            types   == IF cmd.do = "ALL" THEN 0 .. LAST_TYPE ELSE {cmd.keys[k] : k \in DOMAIN cmd.keys}
            printed == {out[k] : k \in DOMAIN out}
            inOrder == \A a, b \in DOMAIN out : a < b =>
                           \/ rows[out[a]].type < rows[out[b]].type
                           \/ rows[out[a]].type = rows[out[b]].type /\ out[a] < out[b]
        IN  CASE cmd.do \in {"ALL", "TYPE"} ->
                   inOrder /\ printed = UNION {ListedOf(seen, t, BUF_SIZE) : t \in types}
              [] cmd.do = "MUX" ->
                   /\ inOrder /\ Len(out) <= N_MUX
                   /\ printed = {s \in ListedOf(seen, TYPE_MUX, MUX_SIZE) :
                                    Len(out) < N_MUX \/ s <= out[N_MUX]}
              [] cmd.do = "HANDLE" ->
                   LET s == First({r \in Kept(seen) : rows[r].handle = cmd.keys[1]})
                   IN  out = IF s # 0 /\ rows[s].length <= BUF_SIZE THEN <<s>> ELSE <<>>
              [] OTHER -> TRUE

UniqueHandles(k) == \A s, r \in Kept(k) : Tables[k].rows[s].handle = Tables[k].rows[r].handle => s = r

\* On a table that was read in one piece, and in which a handle names one
\* record, DIMM and MB print one line for each map of the kind they ask for,
\* and each line is put together from the records that map names: the module
\* and the processor with those handles, and the location and the processor
\* record that refer to the same ones.
ModuleJoins ==
    pc = "done" /\ cmd.do = "DIMM" /\ seen > 0 /\ Tables[seen].ours /\ UniqueHandles(seen) =>
        LET rows     == Tables[seen].rows
            has(h)   == First({r \in Kept(seen) : rows[r].handle = h})
            maps(k)  == {s \in OfType(seen, TYPE_DIMM_I2C) : rows[s].kind = k}
        IN  /\ {out[a].t227 : a \in DOMAIN out} = UNION {maps(cmd.keys[k]) : k \in DOMAIN cmd.keys}
            /\ \A a, b \in DOMAIN out : out[a].t227 = out[b].t227 => a = b
            /\ \A a \in DOMAIN out :
                  LET m == rows[out[a].t227] IN
                  /\ out[a].t17 = has(m.h17) /\ out[a].t4 = has(m.h4)
                  /\ out[a].t202 = First({r \in OfType(seen, TYPE_MEM_LOC) : rows[r].h17 = m.h17})
                  /\ out[a].t197 = First({r \in OfType(seen, TYPE_CPQ_PROC) : rows[r].h4 = m.h4})

\* A command that was started is answered, whatever was read: no listing asks
\* for the same record for ever.
ReaderEnds == pc = "open" ~> pc = "done"
=============================================================================
