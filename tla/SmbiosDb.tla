------------------------------ MODULE SmbiosDb ------------------------------
(***************************************************************************)
(* The in-memory SMBIOS database an upload fills: smbios_load_db of        *)
(* src/src/smbios.cpp, its statistics counters, and the two routines that  *)
(* change them, smbios_data_begin() and smbios_data_record().              *)
(*                                                                         *)
(* The index and the byte array are kept as the code keeps them (slots and *)
(* bytes counted from 0).  A byte is a member of the set Byte; the type    *)
(* and handle a record carries in its first four bytes are fields of the   *)
(* record.  Not kept: the per-type statistics (only ever printed).         *)
(***************************************************************************)
EXTENDS Integers

CONSTANTS
    NumRec,         \* SMBIOS_NUM_REC, 1000: slots of the index
    SzData,         \* SMBIOS_SZ_DATA, 35 * SMBIOS_NUM_REC: bytes of data
    Record,         \* the records the host may send
    Byte,           \* the values of a byte
    NUL,            \* the byte memset() writes
    MaxReceived     \* bound: records received in one upload

\* Type 218, "Invalidated record (used to delete other unusued records)".
Invalidated == 218

\* The host sends a record as its bytes; type and handle are in its header.
\* A length that is not positive or data that is not there is a caller's
\* mistake the routine answers by doing nothing; the one caller can only
\* make the first of these (a size of 0).
IsRecord(r) ==
    /\ r = [type |-> r.type, handle |-> r.handle, len |-> r.len, bytes |-> r.bytes]
    /\ r.type \in Nat
    /\ r.handle \in Nat
    /\ r.len \in Nat
    /\ r.bytes \in [0 .. r.len - 1 -> Byte]

\* The data section is a whole number of DWORDs (35000 is), so rounding a
\* record that fits up to a DWORD boundary never leaves the section.
ASSUME DbAssumption ==
    /\ NumRec \in Nat \ {0}
    /\ SzData \in Nat
    /\ SzData % 4 = 0
    /\ NUL \in Byte
    /\ MaxReceived \in Nat
    /\ \A r \in Record : IsRecord(r)

VARIABLES
    ver,            \* smbios_load_db.ver: 0 in a new process, then 3
    index,          \* smbios_load_db.index
    data,           \* smbios_load_db.data
    insert,         \* smbios_load_db.insert
    n_received,     \* smbios_n_received
    n_filtered,     \* smbios_n_filtered
    n_dropped,      \* smbios_n_dropped
    n_bytes,        \* smbios_n_bytes
    rec_longest     \* smbios_rec_longest

table    == <<ver, index, data, insert>>
counters == <<n_received, n_filtered, n_dropped, n_bytes, rec_longest>>
dbVars   == <<table, counters>>

-----------------------------------------------------------------------------

SMBIOS_CFG_VERSION == 3

Slot == 0 .. NumRec - 1

\* An index element with length 0 "is not valid"; memset() makes them all so.
Unused == [type |-> 0, length |-> 0, handle |-> 0, offset |-> 0]

EmptyIndex == [i \in Slot |-> Unused]
EmptyData  == [k \in 0 .. SzData - 1 |-> NUL]

\* Wrong: rounded down, and "rounded" by the remainder.
RoundedDown(len) == len - (len % 4)
RemainderAdded(len) == len + (len % 4)

\* (len % 4) ? len + (4 - (len % 4)) : len
Rounded(len) == IF len % 4 # 0 THEN len + (4 - (len % 4)) ELSE len

\* Wrong: the scan begins at slot 1.
ScanFromOneStopsAt(i) ==
    /\ i \in 1 .. NumRec
    /\ \A j \in 1 .. i - 1 : index[j].length # 0
    /\ i < NumRec => index[i].length = 0

\* Where the scan for a slot of length 0 stops; NumRec if there is none.
ScanStopsAt(i) ==
    /\ i \in 0 .. NumRec
    /\ \A j \in 0 .. i - 1 : index[j].length # 0
    /\ i < NumRec => index[i].length = 0

\* memcpy(&data[at], bytes, len)
CopyInto(bytes, len, at) ==
    [k \in DOMAIN data |-> IF k \in at .. at + len - 1 THEN bytes[k - at] ELSE data[k]]

-----------------------------------------------------------------------------

\* A process starts with the table in zeroed storage; only an upload's begin
\* gives it a version.
Init ==
    /\ ver = 0
    /\ index = EmptyIndex
    /\ data = EmptyData
    /\ insert = 0
    /\ n_received = 0 /\ n_filtered = 0 /\ n_dropped = 0
    /\ n_bytes = 0 /\ rec_longest = 0

\* Wrong: the index, or the insert point, is left as the last upload left it.
BeginKeepsIndex ==
    /\ ver' = SMBIOS_CFG_VERSION
    /\ index' = index
    /\ data' = EmptyData
    /\ insert' = 0
    /\ n_received' = 0 /\ n_filtered' = 0 /\ n_dropped' = 0
    /\ n_bytes' = 0 /\ rec_longest' = 0

BeginKeepsInsert ==
    /\ ver' = SMBIOS_CFG_VERSION
    /\ index' = EmptyIndex
    /\ data' = EmptyData
    /\ insert' = insert
    /\ n_received' = 0 /\ n_filtered' = 0 /\ n_dropped' = 0
    /\ n_bytes' = 0 /\ rec_longest' = 0

smbios_data_begin ==
    /\ ver' = SMBIOS_CFG_VERSION
    /\ index' = EmptyIndex
    /\ data' = EmptyData
    /\ insert' = 0
    /\ n_received' = 0 /\ n_filtered' = 0 /\ n_dropped' = 0
    /\ n_bytes' = 0 /\ rec_longest' = 0

BadParm(r) == r.len = 0 /\ UNCHANGED dbVars

\* The statistics of a record that is looked at at all.
Received(r) ==
    /\ r.len > 0
    /\ n_received' = n_received + 1
    /\ n_bytes' = n_bytes + r.len
    /\ rec_longest' = IF r.len > rec_longest THEN r.len ELSE rec_longest

\* Wrong: a filtered record is taken off the number received.
FilterUncounts(r) ==
    /\ r.len > 0
    /\ r.type = Invalidated
    /\ n_received' = n_received - 1
    /\ n_filtered' = n_filtered + 1
    /\ UNCHANGED <<table, n_dropped, n_bytes, rec_longest>>

Filter(r) ==
    /\ Received(r)
    /\ r.type = Invalidated
    /\ n_filtered' = n_filtered + 1
    /\ UNCHANGED <<table, n_dropped>>

\* Wrong: a record without a slot is not counted.
DropUncounted(r) ==
    /\ Received(r)
    /\ r.type # Invalidated
    /\ ScanStopsAt(NumRec) \/ insert + r.len > SzData
    /\ n_dropped' = IF ScanStopsAt(NumRec) THEN n_dropped ELSE n_dropped + 1
    /\ UNCHANGED <<table, n_filtered>>

Drop(r) ==
    /\ Received(r)
    /\ r.type # Invalidated
    /\ ScanStopsAt(NumRec) \/ insert + r.len > SzData
    /\ n_dropped' = n_dropped + 1
    /\ UNCHANGED <<table, n_filtered>>

Store(r, i) ==
    /\ Received(r)
    /\ r.type # Invalidated
    /\ ScanStopsAt(i)
    /\ insert + r.len <= SzData
    /\ insert' = insert + Rounded(r.len)
    /\ data' = CopyInto(r.bytes, r.len, insert)
    /\ index' = [index EXCEPT ![i] = [type   |-> r.type,   length |-> r.len,
                                      handle |-> r.handle, offset |-> insert]]
    /\ UNCHANGED <<ver, n_filtered, n_dropped>>

smbios_data_record(r) ==
    \/ BadParm(r)
    \/ Filter(r)
    \/ Drop(r)
    \/ \E i \in Slot : Store(r, i)

Next ==
    \/ smbios_data_begin
    \/ \E r \in Record : n_received < MaxReceived /\ smbios_data_record(r)

Spec == Init /\ [][Next]_dbVars

-----------------------------------------------------------------------------
(* What the table must satisfy.                                            *)

Entry == [type : Nat, length : Nat, handle : Nat, offset : Nat]

\* Type invariant of smbios_load_db and its counters: the insert point is in
\* the data section, or at its end.
TypeOK ==
    /\ ver \in {0, SMBIOS_CFG_VERSION}
    /\ index \in [Slot -> Entry]
    /\ data \in [0 .. SzData - 1 -> Byte]
    /\ insert \in 0 .. SzData
    /\ n_received \in Nat /\ n_filtered \in Nat /\ n_dropped \in Nat
    /\ n_bytes \in Nat /\ rec_longest \in Nat

Valid(i) == index[i].length > 0

\* Where the room of slot i's record ends.
EndOf(i) == index[i].offset + Rounded(index[i].length)

\* "0 indicates end of data": the valid elements come first.  Every reader
\* of the table stops at the first length 0, so a record behind a gap could
\* not be found by handle or by type any more.
DenseIndex == \A i, j \in Slot : i < j /\ Valid(j) => Valid(i)

\* "Records are packed into the data section contiguously", each at a DWORD
\* boundary: the first at 0, each next one where the one before ends, the
\* insert point behind the last; none reaches out of the data section.
Packed ==
    /\ insert % 4 = 0 /\ insert <= SzData
    /\ ~ Valid(0) => insert = 0
    /\ Valid(0) => index[0].offset = 0
    /\ \A i \in Slot : Valid(i) =>
          /\ index[i].offset % 4 = 0
          /\ IF i + 1 \in Slot /\ Valid(i + 1)
             THEN index[i + 1].offset = EndOf(i)
             ELSE insert = EndOf(i)

\* No two records share a byte, whatever was filtered or dropped in between.
NoOverlap ==
    \A i, j \in Slot : i < j /\ Valid(j) =>
        index[i].offset + index[i].length <= index[j].offset

\* Every record received is in the table, filtered or dropped: the number
\* of valid slots is what the counters say it is.
Conserved == \A n \in 0 .. NumRec :
    ScanStopsAt(n) => n_received = n + n_filtered + n_dropped

-----------------------------------------------------------------------------
(* What the table means: the log of the records it kept.                   *)

Count == CHOOSE n \in 0 .. NumRec : ScanStopsAt(n)

RecordIn(i) ==
    [type   |-> index[i].type,
     handle |-> index[i].handle,
     len    |-> index[i].length,
     bytes  |-> [k \in 0 .. index[i].length - 1 |-> data[index[i].offset + k]]]

Kept == [n \in 1 .. Count |-> RecordIn(n - 1)]

Log == INSTANCE SmbiosLog WITH log <- Kept, used <- insert

\* The database implements the bounded log: storing a record never disturbs
\* one stored before, nothing is refused while there is room, and what the
\* index and the bytes say of a record is what the host sent.
ImplementsLog == Log!Spec
=============================================================================
