--------------------------- MODULE SmbiosDb_proof ---------------------------
(***************************************************************************)
(* Proofs about the in-memory SMBIOS database, for every size of index and *)
(* data section and every set of records.                                  *)
(***************************************************************************)
EXTENDS SmbiosDb, SequenceTheorems, TLAPS

(***************************************************************************)
(* Arithmetic of the DWORD rounding.                                       *)
(***************************************************************************)

\* Rounding up gives a multiple of 4 that is not smaller.
LEMMA RoundedUp ==
    ASSUME NEW len \in Nat
    PROVE  /\ Rounded(len) \in Nat
           /\ Rounded(len) >= len
           /\ Rounded(len) % 4 = 0
BY DEF Rounded

\* Rounding what starts at a DWORD boundary and fits stays inside a section
\* that is a whole number of DWORDs.
LEMMA RoundedFits ==
    ASSUME NEW at \in Nat, NEW len \in Nat, at % 4 = 0, at + len <= SzData
    PROVE  /\ at + Rounded(len) <= SzData
           /\ (at + Rounded(len)) % 4 = 0
BY DbAssumption DEF Rounded

-----------------------------------------------------------------------------
(***************************************************************************)
(* The inductive invariant.  Packed chains neighbouring slots; that a new  *)
(* record lies behind every stored one, and so overlaps none, needs the    *)
(* two facts the chain implies only by induction over the slots: what a    *)
(* slot takes ends at or before the insert point, and at or before every   *)
(* later slot's start.                                                     *)
(***************************************************************************)

BelowInsert == \A i \in Slot : Valid(i) => EndOf(i) <= insert

Ordered == \A i, j \in Slot : i < j /\ Valid(j) => EndOf(i) <= index[j].offset

IInv ==
    /\ TypeOK
    /\ DenseIndex
    /\ Packed
    /\ BelowInsert
    /\ Ordered
    /\ Conserved

\* A valid slot's fields, with their types, under the type invariant.
LEMMA SlotFacts ==
    ASSUME TypeOK, NEW i \in Slot
    PROVE  /\ index[i].length \in Nat
           /\ index[i].offset \in Nat
           /\ index[i].type \in Nat
           /\ index[i].handle \in Nat
           /\ EndOf(i) \in Nat
           /\ EndOf(i) >= index[i].offset + index[i].length
<1>1. index[i] \in Entry
  BY DEF TypeOK
<1>2. /\ index[i].length \in Nat /\ index[i].offset \in Nat
      /\ index[i].type \in Nat /\ index[i].handle \in Nat
  BY <1>1 DEF Entry
<1>3. QED
  BY <1>2, RoundedUp DEF EndOf

\* The invariant implies that stored records share no byte.
LEMMA OrderedNoOverlap == TypeOK /\ Ordered => NoOverlap
<1>1. SUFFICES ASSUME TypeOK, Ordered, NEW i \in Slot, NEW j \in Slot, i < j, Valid(j)
               PROVE  index[i].offset + index[i].length <= index[j].offset
  BY DEF NoOverlap
<1>2. QED
  BY <1>1, SlotFacts DEF Ordered

\* The slots before the one a scan stops at are valid, the ones from it on
\* are not.
LEMMA ScanSplits ==
    ASSUME TypeOK, DenseIndex, NEW n \in 0 .. NumRec, ScanStopsAt(n), NEW i \in Slot
    PROVE  Valid(i) <=> i < n
<1>1. CASE i < n
  BY <1>1, SlotFacts DEF ScanStopsAt, Valid, Slot
<1>2. CASE i = n
  BY <1>2, DbAssumption DEF ScanStopsAt, Valid, Slot
<1>3. CASE n < i
  BY <1>3, DbAssumption DEF ScanStopsAt, Valid, Slot, DenseIndex
<1>4. QED
  BY <1>1, <1>2, <1>3 DEF Slot

\* A scan stops at one place only.
LEMMA ScanUnique ==
    ASSUME NEW m \in 0 .. NumRec, NEW n \in 0 .. NumRec, ScanStopsAt(m), ScanStopsAt(n)
    PROVE  m = n
BY DbAssumption DEF ScanStopsAt

-----------------------------------------------------------------------------
(***************************************************************************)
(* The invariant holds in a new process.                                   *)
(***************************************************************************)

\* In a table that memset() has cleared no slot is valid (cfg_smbios.cpp:175).
LEMMA EmptyTable ==
    ASSUME NEW i \in Slot
    PROVE  /\ EmptyIndex[i] = Unused
           /\ EmptyIndex[i].length = 0
BY DEF EmptyIndex, Unused

\* The table of a new process satisfies the invariant (smbios.cpp:53).
LEMMA InitIInv == Init => IInv
<1> SUFFICES ASSUME Init PROVE IInv
  OBVIOUS
<1>1. \A i \in Slot : index[i].length = 0
  BY EmptyTable DEF Init
<1>2. TypeOK
  BY DbAssumption DEF Init, TypeOK, EmptyIndex, EmptyData, Unused, Entry
<1>3. \A i \in Slot : ~ Valid(i)
  BY <1>1 DEF Valid
<1>4. DenseIndex /\ BelowInsert /\ Ordered
  BY <1>3 DEF DenseIndex, BelowInsert, Ordered
<1>5. 0 \in Slot
  BY DbAssumption DEF Slot
<1>6. Packed
  BY <1>3, <1>5, DbAssumption DEF Packed, Init
<1>7. Conserved
  <2>1. SUFFICES ASSUME NEW n \in 0 .. NumRec, ScanStopsAt(n)
                 PROVE  n = 0
    BY DEF Conserved, Init
  <2>2. QED
    BY <2>1, <1>1, <1>5 DEF ScanStopsAt
<1>8. QED
  BY <1>2, <1>4, <1>6, <1>7 DEF IInv

-----------------------------------------------------------------------------
(***************************************************************************)
(* Each operation preserves the invariant.                                 *)
(***************************************************************************)

\* smbios_data_begin() establishes the invariant, whatever was there before.
LEMMA BeginIInv == smbios_data_begin => IInv'
<1> SUFFICES ASSUME smbios_data_begin PROVE IInv'
  OBVIOUS
<1>1. \A i \in Slot : index'[i].length = 0
  BY EmptyTable DEF smbios_data_begin
<1>2. TypeOK'
  BY DbAssumption DEF smbios_data_begin, TypeOK, EmptyIndex, EmptyData, Unused, Entry
<1>3. \A i \in Slot : ~ Valid(i)'
  BY <1>1 DEF Valid
<1>4. DenseIndex' /\ BelowInsert' /\ Ordered'
  BY <1>3 DEF DenseIndex, BelowInsert, Ordered
<1>5. 0 \in Slot
  BY DbAssumption DEF Slot
<1>6. Packed'
  BY <1>3, <1>5, DbAssumption DEF Packed, smbios_data_begin
<1>7. Conserved'
  <2>1. SUFFICES ASSUME NEW n \in 0 .. NumRec, ScanStopsAt(n)'
                 PROVE  n = 0
    BY DEF Conserved, smbios_data_begin
  <2>2. QED
    BY <2>1, <1>1, <1>5 DEF ScanStopsAt
<1>8. QED
  BY <1>2, <1>4, <1>6, <1>7 DEF IInv

\* A record that is received only to be filtered or dropped.
LEMMA RefusedIInv ==
    ASSUME IInv, NEW r \in Record, Filter(r) \/ Drop(r)
    PROVE  IInv'
<1>1. r.len \in Nat
  BY DbAssumption DEF IsRecord
<1>2. /\ UNCHANGED <<ver, index, data, insert>>
      /\ n_received' = n_received + 1
      /\ \/ n_filtered' = n_filtered + 1 /\ n_dropped' = n_dropped
         \/ n_filtered' = n_filtered /\ n_dropped' = n_dropped + 1
  BY DEF Filter, Drop, Received, table, IInv, TypeOK
<1>3. TypeOK'
  <2>1. n_received' \in Nat /\ n_bytes' \in Nat /\ rec_longest' \in Nat
    BY <1>1 DEF Filter, Drop, Received, IInv, TypeOK
  <2>2. QED
    BY <1>2, <2>1 DEF IInv, TypeOK
<1>4. DenseIndex' /\ Packed' /\ BelowInsert' /\ Ordered'
  BY <1>2 DEF IInv, DenseIndex, Packed, BelowInsert, Ordered, Valid, EndOf
<1>5. Conserved'
  <2>1. SUFFICES ASSUME NEW n \in 0 .. NumRec, ScanStopsAt(n)'
                 PROVE  n_received' = n + n_filtered' + n_dropped'
    BY DEF Conserved
  <2>2. ScanStopsAt(n)
    BY <2>1, <1>2 DEF ScanStopsAt
  <2>3. n_received = n + n_filtered + n_dropped
    BY <2>2 DEF IInv, Conserved
  <2>4. n \in Nat /\ n_received \in Nat /\ n_filtered \in Nat /\ n_dropped \in Nat
    BY DbAssumption DEF IInv, TypeOK
  <2>5. QED
    BY <2>3, <2>4, <1>2
<1>6. QED
  BY <1>3, <1>4, <1>5 DEF IInv

\* What storing a record in slot i does to the table.
StoredAt(r, i) ==
    /\ index'[i] = [type   |-> r.type,   length |-> r.len,
                    handle |-> r.handle, offset |-> insert]
    /\ \A j \in Slot \ {i} : index'[j] = index[j] /\ EndOf(j)' = EndOf(j)
    /\ EndOf(i)' = insert'
    /\ \A j \in Slot : Valid(j)' <=> j <= i
    /\ \A j \in Slot : Valid(j) <=> j < i
    /\ insert' = insert + Rounded(r.len)

\* What storing a record does to the table: the first free slot is filled, the
\* ones before it stay (smbios.cpp:226-236).
LEMMA StoreEffect ==
    ASSUME IInv, NEW r \in Record, NEW i \in Slot, Store(r, i)
    PROVE  StoredAt(r, i)
<1>1. IsRecord(r)
  BY DbAssumption
<1>2. r.len \in Nat /\ r.len > 0
  BY <1>1 DEF IsRecord, Store, Received
<1>3. index \in [Slot -> Entry]
  BY DEF IInv, TypeOK
<1>4. /\ index'[i] = [type   |-> r.type,   length |-> r.len,
                      handle |-> r.handle, offset |-> insert]
      /\ \A j \in Slot \ {i} : index'[j] = index[j]
  BY <1>3 DEF Store
<1>5. insert' = insert + Rounded(r.len)
  BY DEF Store
<1>6. EndOf(i)' = insert' /\ \A j \in Slot \ {i} : EndOf(j)' = EndOf(j)
  BY <1>4, <1>5 DEF EndOf
<1>7. \A j \in Slot : Valid(j) <=> j < i
  BY ScanSplits, DbAssumption DEF IInv, Store, Slot
<1>8. \A j \in Slot : Valid(j)' <=> j <= i
  <2>1. TAKE j \in Slot
  <2>2. CASE j = i
    BY <2>2, <1>2, <1>4 DEF Valid, Slot
  <2>3. CASE j # i
    <3>1. Valid(j)' <=> Valid(j)
      BY <2>3, <1>4 DEF Valid
    <3>2. QED
      BY <3>1, <1>7, <2>3 DEF Slot
  <2>4. QED
    BY <2>2, <2>3
<1>9. QED
  BY <1>4, <1>5, <1>6, <1>7, <1>8 DEF StoredAt

\* Storing a record preserves the invariant.
LEMMA StoreIInv ==
    ASSUME IInv, NEW r \in Record, NEW i \in Slot, Store(r, i)
    PROVE  IInv'
<1>0. StoredAt(r, i)
  BY StoreEffect
<1>1. /\ IsRecord(r)
      /\ i \in Nat /\ insert \in Nat
      /\ \A j \in Slot : j \in Int
  BY DbAssumption DEF IInv, TypeOK, Slot
<1>2. /\ r.len \in Nat /\ r.type \in Nat /\ r.handle \in Nat
      /\ r.bytes \in [0 .. r.len - 1 -> Byte]
  BY <1>1 DEF IsRecord
<1>3. /\ Rounded(r.len) \in Nat
      /\ Rounded(r.len) >= r.len
      /\ insert + Rounded(r.len) <= SzData
      /\ (insert + Rounded(r.len)) % 4 = 0
  BY <1>1, <1>2, RoundedUp, RoundedFits DEF IInv, Packed, Store
<1>4. TypeOK'
  <2>1. n_received' \in Nat /\ n_bytes' \in Nat /\ rec_longest' \in Nat
    BY <1>2 DEF Store, Received, IInv, TypeOK
  <2>2. index' \in [Slot -> Entry]
    BY <1>1, <1>2 DEF Store, IInv, TypeOK, Entry
  <2>3. data' \in [0 .. SzData - 1 -> Byte]
    <3>1. \A k \in insert .. insert + r.len - 1 : k - insert \in 0 .. r.len - 1
      BY <1>1, <1>2
    <3>2. QED
      BY <1>1, <1>2, <3>1 DEF Store, CopyInto, IInv, TypeOK
  <2>4. insert' \in 0 .. SzData
    BY <1>1, <1>3 DEF Store
  <2>5. QED
    BY <2>1, <2>2, <2>3, <2>4 DEF Store, IInv, TypeOK
<1>5. DenseIndex'
  BY <1>1, <1>0 DEF DenseIndex, StoredAt, Valid
<1>6. \A j \in Slot : EndOf(j) \in Nat /\ index[j].offset \in Nat
  BY SlotFacts DEF IInv
<1>7. insert' \in Nat /\ insert' >= insert
  BY <1>1, <1>3 DEF Store
<1>8. BelowInsert'
  <2>1. SUFFICES ASSUME NEW j \in Slot, Valid(j)'
                 PROVE  EndOf(j)' <= insert'
    BY DEF BelowInsert
  <2>2. CASE j = i
    BY <2>2, <1>7, <1>0 DEF StoredAt, Valid
  <2>3. CASE j # i
    <3>1. Valid(j) /\ EndOf(j)' = EndOf(j)
      BY <2>1, <2>3, <1>1, <1>0 DEF StoredAt, Valid
    <3>2. EndOf(j) <= insert
      BY <3>1 DEF IInv, BelowInsert
    <3>3. QED
      BY <3>1, <3>2, <1>1, <1>6, <1>7
  <2>4. QED
    BY <2>2, <2>3
<1>9. Ordered'
  <2>1. SUFFICES ASSUME NEW j \in Slot, NEW k \in Slot, j < k, Valid(k)'
                 PROVE  EndOf(j)' <= index'[k].offset
    BY DEF Ordered
  <2>2. k <= i /\ j < i /\ Valid(j) /\ EndOf(j)' = EndOf(j)
    BY <2>1, <1>1, <1>0 DEF StoredAt, Valid
  <2>3. CASE k = i
    <3>1. index'[k].offset = insert
      BY <2>3, <1>0 DEF StoredAt, Valid
    <3>2. QED
      BY <2>2, <3>1 DEF IInv, BelowInsert
  <2>4. CASE k # i
    <3>1. index'[k].offset = index[k].offset /\ Valid(k)
      BY <2>1, <2>2, <2>4, <1>1, <1>0 DEF StoredAt, Valid
    <3>2. QED
      BY <2>1, <2>2, <3>1 DEF IInv, Ordered
  <2>5. QED
    BY <2>3, <2>4
<1>10. Packed'
  <2>1. insert' % 4 = 0 /\ insert' <= SzData
    BY <1>3 DEF Store
  <2>2. 0 \in Slot
    BY DbAssumption DEF Slot
  <2>3. Valid(0)'
    BY <2>2, <1>1, <1>0 DEF StoredAt, Valid
  <2>4. index'[0].offset = 0
    <3>1. CASE i = 0
      <4>1. ~ Valid(0)
        BY <3>1, <1>0 DEF StoredAt, Valid
      <4>2. QED
        BY <3>1, <4>1, <1>0 DEF IInv, Packed, StoredAt, Valid
    <3>2. CASE i # 0
      <4>1. index'[0] = index[0] /\ Valid(0)
        BY <3>2, <2>2, <1>1, <1>0 DEF StoredAt, Valid
      <4>2. QED
        BY <4>1 DEF IInv, Packed
    <3>3. QED
      BY <3>1, <3>2
  <2>5. ASSUME NEW j \in Slot, Valid(j)'
        PROVE  /\ index'[j].offset % 4 = 0
               /\ IF j + 1 \in Slot /\ Valid(j + 1)'
                  THEN index'[j + 1].offset = EndOf(j)'
                  ELSE insert' = EndOf(j)'
    <3>1. CASE j = i
      <4>1. ~ (j + 1 \in Slot /\ Valid(j + 1)')
        BY <3>1, <1>1, <1>0 DEF StoredAt, Valid
      <4>2. index'[j].offset = insert /\ insert' = EndOf(j)'
        BY <3>1, <1>0 DEF StoredAt, Valid
      <4>3. QED
        BY <4>1, <4>2 DEF IInv, Packed
    <3>2. CASE j # i
      <4>1. /\ j < i /\ Valid(j)
            /\ index'[j] = index[j] /\ EndOf(j)' = EndOf(j)
        BY <2>5, <3>2, <1>1, <1>0 DEF StoredAt, Valid
      <4>2. j + 1 \in Slot /\ Valid(j + 1)'
        BY <4>1, <1>1, <1>0, DbAssumption DEF Slot, StoredAt, Valid
      <4>3. CASE j + 1 = i
        <5>1. ~ Valid(j + 1) /\ index'[j + 1].offset = insert
          BY <4>3, <1>0, <1>1 DEF StoredAt, Valid
        <5>2. QED
          BY <4>1, <4>2, <5>1 DEF IInv, Packed
      <4>4. CASE j + 1 # i
        <5>1. Valid(j + 1) /\ index'[j + 1] = index[j + 1]
          BY <4>1, <4>2, <4>4, <1>1, <1>0 DEF StoredAt, Valid
        <5>2. QED
          BY <4>1, <4>2, <5>1 DEF IInv, Packed
      <4>5. QED
        BY <4>3, <4>4
    <3>3. QED
      BY <3>1, <3>2
  <2>6. QED
    BY <2>1, <2>3, <2>4, <2>5 DEF Packed
<1>11. Conserved'
  <2>1. SUFFICES ASSUME NEW n \in 0 .. NumRec, ScanStopsAt(n)'
                 PROVE  n_received' = n + n_filtered' + n_dropped'
    BY DEF Conserved
  <2>2. n = i + 1
    <3>1. ScanStopsAt(i + 1)'
      <4>1. \A j \in Slot : index'[j].length \in Nat
        BY <1>4 DEF TypeOK, Entry
      <4>2. \A j \in 0 .. i : index'[j].length # 0
        BY <4>1, <1>0, <1>1, DbAssumption DEF StoredAt, Valid, Slot
      <4>3. i + 1 < NumRec => index'[i + 1].length = 0
        BY <4>1, <1>0, <1>1, DbAssumption DEF StoredAt, Valid, Slot
      <4>4. i + 1 \in 0 .. NumRec /\ (i + 1) - 1 = i
        BY <1>1, DbAssumption DEF Slot
      <4>5. QED
        BY <4>2, <4>3, <4>4 DEF ScanStopsAt
    <3>2. QED
      BY <2>1, <3>1, <1>1, DbAssumption DEF ScanStopsAt, Slot
  <2>3. n_received = i + n_filtered + n_dropped
    BY DEF Store, IInv, Conserved, ScanStopsAt
  <2>4. n_received \in Nat /\ n_filtered \in Nat /\ n_dropped \in Nat
    BY DEF IInv, TypeOK
  <2>5. QED
    BY <2>2, <2>3, <2>4, <1>1 DEF Store, Received
<1>12. QED
  BY <1>4, <1>5, <1>8, <1>9, <1>10, <1>11 DEF IInv

-----------------------------------------------------------------------------

\* Every step of the table preserves the invariant.
LEMMA NextIInv == IInv /\ [Next]_dbVars => IInv'
<1> SUFFICES ASSUME IInv, [Next]_dbVars PROVE IInv'
  OBVIOUS
<1>1. CASE smbios_data_begin
  BY <1>1, BeginIInv
<1>2. CASE UNCHANGED dbVars
  BY <1>2 DEF dbVars, table, counters, IInv, TypeOK, DenseIndex, Packed, BelowInsert,
              Ordered, Conserved, Valid, EndOf, ScanStopsAt
<1>3. ASSUME NEW r \in Record, smbios_data_record(r)
      PROVE  IInv'
  <2>1. CASE BadParm(r)
    BY <2>1, <1>2 DEF BadParm
  <2>2. CASE Filter(r) \/ Drop(r)
    BY <2>2, RefusedIInv
  <2>3. CASE \E i \in Slot : Store(r, i)
    BY <2>3, StoreIInv
  <2>4. QED
    BY <1>3, <2>1, <2>2, <2>3 DEF smbios_data_record
<1>4. QED
  BY <1>1, <1>2, <1>3 DEF Next

\* The inductive invariant holds in every reachable state of an upload.
THEOREM TableInvariant == Spec => []IInv
<1>1. Init => IInv
  BY InitIInv
<1>2. IInv /\ [Next]_dbVars => IInv'
  BY NextIInv
<1>3. QED
  BY <1>1, <1>2, PTL DEF Spec

-----------------------------------------------------------------------------
(***************************************************************************)
(* The table implements the bounded log of SmbiosLog.                      *)
(***************************************************************************)

\* Where a scan stops is how many records the log has.
LEMMA CountIs ==
    ASSUME NEW n \in 0 .. NumRec, ScanStopsAt(n)
    PROVE  Count = n
<1>1. \A m \in 0 .. NumRec : ScanStopsAt(m) => m = n
  BY ScanUnique
<1>2. QED
  BY <1>1 DEF Count

\* The log is as long as the scan says.
LEMMA KeptLength ==
    ASSUME NEW n \in 0 .. NumRec, ScanStopsAt(n)
    PROVE  /\ Kept = [m \in 1 .. n |-> RecordIn(m - 1)]
           /\ Kept \in Seq({RecordIn(m) : m \in Slot})
           /\ Len(Kept) = n
<1>1. Kept = [m \in 1 .. n |-> RecordIn(m - 1)]
  BY CountIs DEF Kept
<1>2. n \in Nat /\ \A m \in 1 .. n : m - 1 \in Slot
  BY DbAssumption DEF Slot
<1>3. Kept \in [1 .. n -> {RecordIn(m) : m \in Slot}]
  BY <1>1, <1>2
<1>4. Kept \in Seq({RecordIn(m) : m \in Slot})
  BY <1>2, <1>3, SeqDef
<1>5. Len(Kept) = n
  BY <1>2, <1>3, <1>4, LenProperties
<1>6. QED
  BY <1>1, <1>4, <1>5

\* An empty index is the empty log.
LEMMA EmptyKept == index = EmptyIndex => Kept = << >>
<1> SUFFICES ASSUME index = EmptyIndex PROVE Kept = << >>
  OBVIOUS
<1>1. 0 \in 0 .. NumRec /\ 0 \in Slot
  BY DbAssumption DEF Slot
<1>2. ScanStopsAt(0)
  BY <1>1, EmptyTable DEF ScanStopsAt
<1>3. QED
  BY <1>1, <1>2, KeptLength, EmptySeq

\* What a slot of the table says is untouched by storing another record: no
\* byte of it is at or behind the insert point.
LEMMA StoredUntouched ==
    ASSUME IInv, NEW r \in Record, NEW i \in Slot, Store(r, i),
           NEW j \in Slot, Valid(j)
    PROVE  RecordIn(j)' = RecordIn(j)
<1>0. StoredAt(r, i)
  BY StoreEffect
<1>1. j # i /\ index'[j] = index[j]
  BY <1>0 DEF StoredAt, Slot
<1>2. /\ index[j].length \in Nat /\ index[j].offset \in Nat
      /\ EndOf(j) \in Nat /\ insert \in Nat
      /\ index[j].offset + index[j].length <= insert
      /\ insert <= SzData
  <2>1. EndOf(j) <= insert /\ insert \in Nat /\ insert <= SzData
    BY DEF IInv, TypeOK, Packed, BelowInsert
  <2>2. QED
    BY <2>1, SlotFacts DEF IInv
<1>3. r.len \in Nat
  BY DbAssumption DEF IsRecord
<1>4. \A k \in 0 .. index[j].length - 1 :
          data'[index[j].offset + k] = data[index[j].offset + k]
  <2>1. TAKE k \in 0 .. index[j].length - 1
  <2>2. /\ index[j].offset + k \in 0 .. SzData - 1
        /\ index[j].offset + k \notin insert .. insert + r.len - 1
    BY <1>2, <1>3, DbAssumption
  <2>3. QED
    BY <2>2 DEF Store, CopyInto, IInv, TypeOK
<1>5. QED
  BY <1>1, <1>4 DEF RecordIn

\* The slot a record is stored in says what the host sent.
LEMMA StoredFaithfully ==
    ASSUME IInv, NEW r \in Record, NEW i \in Slot, Store(r, i)
    PROVE  RecordIn(i)' = r
<1>0. StoredAt(r, i)
  BY StoreEffect
<1>1. /\ r = [type |-> r.type, handle |-> r.handle, len |-> r.len, bytes |-> r.bytes]
      /\ r.len \in Nat
      /\ r.bytes \in [0 .. r.len - 1 -> Byte]
  BY DbAssumption DEF IsRecord
<1>2. /\ index'[i].type = r.type /\ index'[i].handle = r.handle
      /\ index'[i].length = r.len /\ index'[i].offset = insert
  BY <1>0 DEF StoredAt
<1>3. insert \in Nat /\ insert + r.len <= SzData /\ SzData \in Nat
  BY DbAssumption DEF IInv, TypeOK, Store
<1>4. \A k \in 0 .. r.len - 1 : data'[insert + k] = r.bytes[k]
  <2>1. TAKE k \in 0 .. r.len - 1
  <2>2. /\ insert + k \in 0 .. SzData - 1
        /\ insert + k \in insert .. insert + r.len - 1
        /\ (insert + k) - insert = k
    BY <1>1, <1>3
  <2>3. QED
    BY <2>2 DEF Store, CopyInto, IInv, TypeOK
<1>5. r.bytes = [k \in 0 .. r.len - 1 |-> data'[insert + k]]
  BY <1>1, <1>4
<1>6. QED
  BY <1>1, <1>2, <1>5 DEF RecordIn

\* Storing a record appends it to the log and changes nothing else of it.
LEMMA StoreKeeps ==
    ASSUME IInv, NEW r \in Record, NEW i \in Slot, Store(r, i)
    PROVE  Log!Keep(r)
<1>0. StoredAt(r, i)
  BY StoreEffect
<1>1. /\ i \in Nat /\ i \in 0 .. NumRec /\ i + 1 \in 0 .. NumRec
      /\ i < NumRec
  BY DbAssumption DEF Slot
<1>2. ScanStopsAt(i)
  BY DEF Store
<1>3. ScanStopsAt(i + 1)'
  <2>1. TypeOK'
    BY StoreIInv DEF IInv
  <2>2. \A j \in Slot : index'[j].length \in Nat
    BY <2>1 DEF TypeOK, Entry
  <2>3. \A j \in 0 .. i : index'[j].length # 0
    BY <2>2, <1>0, <1>1, DbAssumption DEF StoredAt, Valid, Slot
  <2>4. i + 1 < NumRec => index'[i + 1].length = 0
    BY <2>2, <1>0, <1>1, DbAssumption DEF StoredAt, Valid, Slot
  <2>5. (i + 1) - 1 = i
    BY <1>1
  <2>6. QED
    BY <2>3, <2>4, <2>5, <1>1 DEF ScanStopsAt
<1>4. /\ Kept = [m \in 1 .. i |-> RecordIn(m - 1)]
      /\ Len(Kept) = i
  BY <1>1, <1>2, KeptLength
<1>5. Kept' = [m \in 1 .. i + 1 |-> RecordIn(m - 1)']
  <2>1. Count' = i + 1
    <3>1. \A m \in 0 .. NumRec : ScanStopsAt(m)' => m = i + 1
      BY <1>1, <1>3, DbAssumption DEF ScanStopsAt
    <3>2. QED
      BY <3>1, <1>1, <1>3 DEF Count
  <2>2. QED
    BY <2>1 DEF Kept
<1>6. \A m \in 1 .. i : RecordIn(m - 1)' = RecordIn(m - 1)
  <2>1. TAKE m \in 1 .. i
  <2>2. m - 1 \in Slot /\ m - 1 < i
    BY <1>1, DbAssumption DEF Slot
  <2>3. Valid(m - 1)
    BY <2>2, <1>0 DEF StoredAt
  <2>4. QED
    BY <2>2, <2>3, StoredUntouched
<1>7. RecordIn((i + 1) - 1)' = r
  BY <1>1, StoredFaithfully
<1>8. Kept' = Append(Kept, r)
  <2>1. Append(Kept, r) = [m \in 1 .. i + 1 |-> IF m <= i THEN Kept[m] ELSE r]
    BY <1>1, <1>4
  <2>2. \A m \in 1 .. i + 1 :
          RecordIn(m - 1)' = IF m <= i THEN Kept[m] ELSE r
    <3>1. TAKE m \in 1 .. i + 1
    <3>2. CASE m <= i
      BY <3>2, <1>1, <1>4, <1>6
    <3>3. CASE ~ (m <= i)
      <4>1. m = i + 1
        BY <3>3, <1>1
      <4>2. QED
        BY <3>3, <4>1, <1>7
    <3>4. QED
      BY <3>2, <3>3
  <2>3. QED
    BY <2>1, <2>2, <1>5
<1>9. Log!Wanted(r) /\ Log!HasRoom(r)
  BY <1>1, <1>4 DEF Store, Received, Log!Wanted, Log!HasRoom
<1>10. QED
  BY <1>8, <1>9 DEF Store, Log!Keep

\* A record that is not stored is one the log refuses.
LEMMA RefusalJustified ==
    ASSUME NEW r \in Record, IInv, BadParm(r) \/ Filter(r) \/ Drop(r)
    PROVE  Log!Refuse(r)
<1>1. UNCHANGED <<index, data, insert>>
  BY DEF BadParm, Filter, Drop, dbVars, table
<1>2. Kept' = Kept /\ insert' = insert
  BY <1>1 DEF Kept, Count, ScanStopsAt, RecordIn
<1>3. CASE BadParm(r) \/ Filter(r)
  BY <1>2, <1>3 DEF BadParm, Filter, Log!Refuse, Log!Wanted, Log!vars
<1>4. CASE Drop(r)
  <2>1. ~ Log!HasRoom(r)
    <3>1. CASE ScanStopsAt(NumRec)
      <4>1. Len(Kept) = NumRec
        <5>1. NumRec \in 0 .. NumRec
          BY DbAssumption
        <5>2. QED
          BY <3>1, <5>1, KeptLength
      <4>2. QED
        BY <4>1, DbAssumption DEF Log!HasRoom
    <3>2. CASE insert + r.len > SzData
      <4>1. r.len \in Nat /\ insert \in Nat /\ SzData \in Nat
        BY DbAssumption DEF IsRecord, IInv, TypeOK
      <4>2. QED
        BY <3>2, <4>1 DEF Log!HasRoom
    <3>3. QED
      BY <1>4, <3>1, <3>2 DEF Drop
  <2>2. QED
    BY <1>2, <2>1 DEF Log!Refuse, Log!vars
<1>5. QED
  BY <1>3, <1>4

\* The index, the byte array and the insert point together behave as the
\* bounded log: what the host uploaded is kept whole, in order and
\* unchanged, and nothing is refused that has room.
THEOREM TableImplementsLog == Spec => ImplementsLog
<1>1. Init => Log!Init
  BY EmptyKept DEF Init, Log!Init
<1>2. IInv /\ [Next]_dbVars => [Log!Next]_Log!vars
  <2> SUFFICES ASSUME IInv, [Next]_dbVars PROVE [Log!Next]_Log!vars
    OBVIOUS
  <2>1. CASE smbios_data_begin
    <3>1. index' = EmptyIndex /\ insert' = 0
      BY <2>1 DEF smbios_data_begin
    <3>2. (index = EmptyIndex => Kept = << >>)'
      BY EmptyKept, PTL
    <3>3. QED
      BY <3>1, <3>2 DEF Log!Next, Log!Begin, EmptyIndex
  <2>2. CASE UNCHANGED dbVars
    BY <2>2 DEF dbVars, table, Log!vars, Kept, Count, ScanStopsAt, RecordIn
  <2>3. ASSUME NEW r \in Record, smbios_data_record(r)
        PROVE  Log!Keep(r) \/ Log!Refuse(r)
    BY <2>3, StoreKeeps, RefusalJustified DEF smbios_data_record
  <2>4. QED
    BY <2>1, <2>2, <2>3 DEF Next, Log!Next
<1>3. QED
  BY <1>1, <1>2, TableInvariant, PTL DEF Spec, ImplementsLog, Log!Spec

\* What the invariant says of the table, in the terms of the runs.
LEMMA InvariantSafe ==
    IInv => TypeOK /\ DenseIndex /\ Packed /\ NoOverlap /\ Conserved
BY OrderedNoOverlap DEF IInv

\* The table and its counters keep their types: no record, however long, takes
\* the insert point out of the data section (smbios.cpp:217).
THEOREM TypeCorrect == Spec => []TypeOK
<1>1. IInv => TypeOK
  BY InvariantSafe
<1>2. QED
  BY <1>1, TableInvariant, PTL

\* Readers, which stop at the first slot of length 0, see every record kept.
THEOREM IndexDense == Spec => []DenseIndex
<1>1. IInv => DenseIndex
  BY InvariantSafe
<1>2. QED
  BY <1>1, TableInvariant, PTL

\* Each record starts at the DWORD behind the one before it.
THEOREM RecordsPacked == Spec => []Packed
<1>1. IInv => Packed
  BY InvariantSafe
<1>2. QED
  BY <1>1, TableInvariant, PTL

\* No byte of the data section belongs to two records.
THEOREM RecordsApart == Spec => []NoOverlap
<1>1. IInv => NoOverlap
  BY InvariantSafe
<1>2. QED
  BY <1>1, TableInvariant, PTL

\* Every record received is in the table, filtered or dropped, as the counters
\* say.
THEOREM RecordsAccounted == Spec => []Conserved
<1>1. IInv => Conserved
  BY InvariantSafe
<1>2. QED
  BY <1>1, TableInvariant, PTL
=============================================================================
