--------------------------- MODULE PlatDef_proof ---------------------------
(***************************************************************************)
(* Proofs about the directory of the platform definition, for every table  *)
(* and every limit.                                                        *)
(***************************************************************************)
EXTENDS PlatDef, FiniteSetTheorems, TLAPS

(***************************************************************************)
(* Counting in a sequence of kinds: how many of the first c are of kind k, *)
(* and how many of a kind before k in the order of the directory.          *)
(***************************************************************************)

Before(f, k, c) == {n \in 1..c : f[n] = k}

Lower(f, k, c) == {n \in 1..c : f[n] \in 1..(k - 1)}

\* Both sets are finite, and no larger than the sequence.
LEMMA Finite ==
    ASSUME NEW f, NEW k, NEW c \in Nat
    PROVE  /\ IsFiniteSet(Before(f, k, c)) /\ IsFiniteSet(Lower(f, k, c))
           /\ Cardinality(Before(f, k, c)) \in 0..c
           /\ Cardinality(Lower(f, k, c)) \in 0..c
<1>1. IsFiniteSet(1..c) /\ Cardinality(1..c) = c
  BY FS_Interval
<1>2. Before(f, k, c) \in SUBSET (1..c) /\ Lower(f, k, c) \in SUBSET (1..c)
  BY DEF Before, Lower
<1>3. /\ IsFiniteSet(Before(f, k, c)) /\ Cardinality(Before(f, k, c)) <= c
      /\ IsFiniteSet(Lower(f, k, c)) /\ Cardinality(Lower(f, k, c)) <= c
  BY <1>1, <1>2, FS_Subset
<1>4. Cardinality(Before(f, k, c)) \in Nat /\ Cardinality(Lower(f, k, c)) \in Nat
  BY <1>3, FS_CardinalityType
<1>5. QED
  BY <1>3, <1>4

\* One element more is of one kind.
LEMMA OneMore ==
    ASSUME NEW f, NEW k, NEW c \in Nat
    PROVE  Cardinality(Before(f, k, c + 1)) =
               IF f[c + 1] = k THEN Cardinality(Before(f, k, c)) + 1
                               ELSE Cardinality(Before(f, k, c))
<1>1. IsFiniteSet(Before(f, k, c))
  BY Finite
<1>0. c + 1 \notin Before(f, k, c)
  BY c + 1 \notin 1..c DEF Before
<1>2. CASE f[c + 1] = k
  <2>1. Before(f, k, c + 1) = Before(f, k, c) \cup {c + 1}
    BY <1>2 DEF Before
  <2>2. QED
    BY <1>0, <1>1, <1>2, <2>1, FS_AddElement
<1>3. CASE f[c + 1] # k
  <2>1. Before(f, k, c + 1) = Before(f, k, c)
    BY <1>3 DEF Before
  <2>2. QED
    BY <1>3, <2>1
<1>4. QED
  BY <1>2, <1>3

\* The section of a kind in the directory ends where that of the next begins.
LEMMA NextSection ==
    ASSUME NEW f, NEW k \in Nat \ {0}, NEW c \in Nat
    PROVE  Cardinality(Lower(f, k + 1, c)) =
               Cardinality(Lower(f, k, c)) + Cardinality(Before(f, k, c))
<1>1. Lower(f, k + 1, c) = Lower(f, k, c) \cup Before(f, k, c)
  <2>1. 1..((k + 1) - 1) = (1..(k - 1)) \cup {k}
    OBVIOUS
  <2>2. QED
    BY <2>1 DEF Lower, Before
<1>2. Lower(f, k, c) \cap Before(f, k, c) = {}
  <2>1. k \notin 1..(k - 1)
    OBVIOUS
  <2>2. QED
    BY <2>1 DEF Lower, Before
<1>3. /\ IsFiniteSet(Lower(f, k, c)) /\ IsFiniteSet(Before(f, k, c))
      /\ Cardinality(Lower(f, k, c)) \in Nat /\ Cardinality(Before(f, k, c)) \in Nat
  BY Finite
<1>4. Cardinality({}) = 0
  BY FS_EmptySet
<1>5. Cardinality(Lower(f, k, c) \cup Before(f, k, c)) =
          Cardinality(Lower(f, k, c)) + Cardinality(Before(f, k, c))
              - Cardinality(Lower(f, k, c) \cap Before(f, k, c))
  BY <1>3, FS_Union
<1>6. QED
  BY <1>1, <1>2, <1>3, <1>4, <1>5

\* Fewer kinds, or fewer elements, count less.
LEMMA Monotone ==
    ASSUME NEW f, NEW k \in Nat, NEW l \in Nat, NEW c \in Nat, NEW d \in Nat, k <= l, c <= d
    PROVE  /\ Cardinality(Lower(f, k, d)) <= Cardinality(Lower(f, l, d))
           /\ Cardinality(Before(f, k, c)) <= Cardinality(Before(f, k, d))
<1>1. Lower(f, k, d) \in SUBSET Lower(f, l, d)
  BY DEF Lower
<1>2. Before(f, k, c) \in SUBSET Before(f, k, d)
  BY DEF Before
<1>3. QED
  BY <1>1, <1>2, Finite, FS_Subset

\* The place of a record in its section: within it, and no other's.
LEMMA PlaceInside ==
    ASSUME NEW f, NEW c \in Nat, NEW n \in 1..c, NEW k, f[n] = k
    PROVE  Cardinality(Before(f, k, n - 1)) < Cardinality(Before(f, k, c))
<1>1. Cardinality(Before(f, k, (n - 1) + 1)) = Cardinality(Before(f, k, n - 1)) + 1
  BY OneMore, (n - 1) + 1 = n, n - 1 \in Nat
<1>2. Before(f, k, n) \in SUBSET Before(f, k, c)
  BY DEF Before
<1>3. Cardinality(Before(f, k, n)) <= Cardinality(Before(f, k, c))
  BY <1>2, Finite, FS_Subset
<1>4. QED
  BY <1>1, <1>3, Finite, n \in Nat, n - 1 \in Nat, (n - 1) + 1 = n

\* The place of record n of c in the array.
Place(f, c, n) == Cardinality(Lower(f, f[n], c)) + Cardinality(Before(f, f[n], n - 1))

\* A place lies in its kind's section, which ends where the next one begins,
\* and so inside an array of c entries.
LEMMA PlaceInSection ==
    ASSUME NEW f, NEW c \in Nat, NEW n \in 1..c, f[n] \in Nat \ {0}
    PROVE  /\ Place(f, c, n) \in 0..c - 1
           /\ Cardinality(Lower(f, f[n], c)) <= Place(f, c, n)
           /\ Place(f, c, n) < Cardinality(Lower(f, f[n] + 1, c))
<1>1. Cardinality(Before(f, f[n], n - 1)) < Cardinality(Before(f, f[n], c))
  BY PlaceInside
<1>2. Cardinality(Lower(f, f[n] + 1, c)) =
          Cardinality(Lower(f, f[n], c)) + Cardinality(Before(f, f[n], c))
  BY NextSection
<1>3. /\ Cardinality(Before(f, f[n], n - 1)) \in Nat
      /\ Cardinality(Before(f, f[n], c)) \in Nat
      /\ Cardinality(Lower(f, f[n], c)) \in Nat
      /\ Cardinality(Lower(f, f[n] + 1, c)) \in 0..c
  BY Finite, n - 1 \in Nat
<1>4. QED
  BY <1>1, <1>2, <1>3 DEF Place

\* No two records have the same place.
LEMMA PlacesDiffer ==
    ASSUME NEW f, NEW c \in Nat, NEW m \in 1..c, NEW n \in 1..c, m < n,
           f[m] \in Nat \ {0}, f[n] \in Nat \ {0}
    PROVE  Place(f, c, m) # Place(f, c, n)
<1>1. CASE f[m] = f[n]
  <2>1. m \in 1..n - 1
    OBVIOUS
  <2>2. Cardinality(Before(f, f[n], m - 1)) < Cardinality(Before(f, f[n], n - 1))
    BY <1>1, <2>1, PlaceInside, n - 1 \in Nat
  <2>3. /\ Cardinality(Before(f, f[n], m - 1)) \in Nat
        /\ Cardinality(Before(f, f[n], n - 1)) \in Nat
        /\ Cardinality(Lower(f, f[n], c)) \in Nat
    BY Finite, n - 1 \in Nat, m - 1 \in Nat
  <2>4. QED
    BY <1>1, <2>2, <2>3 DEF Place
<1>2. ASSUME NEW a \in 1..c, NEW b \in 1..c, f[a] \in Nat \ {0}, f[b] \in Nat \ {0}, f[a] < f[b]
      PROVE  Place(f, c, a) < Place(f, c, b)
  <2>1. Cardinality(Lower(f, f[a] + 1, c)) <= Cardinality(Lower(f, f[b], c))
    BY <1>2, Monotone
  <2>2. /\ Place(f, c, a) < Cardinality(Lower(f, f[a] + 1, c))
        /\ Cardinality(Lower(f, f[b], c)) <= Place(f, c, b)
        /\ Place(f, c, a) \in Nat /\ Place(f, c, b) \in Nat
    BY <1>2, PlaceInSection
  <2>3. /\ Cardinality(Lower(f, f[a] + 1, c)) \in Nat
        /\ Cardinality(Lower(f, f[b], c)) \in Nat
    BY Finite
  <2>4. QED
    BY <2>1, <2>2, <2>3
<1>3. Place(f, c, m) \in Nat /\ Place(f, c, n) \in Nat
  BY PlaceInSection
<1>4. QED
  BY <1>1, <1>2, <1>3

-----------------------------------------------------------------------------
(***************************************************************************)
(* The inductive invariant.  The history of the first pass says which      *)
(* records there are; the second pass sees the same ones because every     *)
(* position follows from the one before, and memory has not changed.       *)
(***************************************************************************)

\* The kinds of the records the first pass has counted.
Kf == [n \in 1..Len(walk) |-> Kind(At(walk[n]))]

\* Where a pass is that has done c records.
Pos(c) == IF c = 0 THEN PLATDEF_BLOB_START ELSE NextRecord(walk[c])

Chain == \A c \in 1..Len(walk) : walk[c] = Pos(c - 1) /\ ~Stops(walk[c])

Types0 ==
    /\ \A u \in DOMAIN mem : IsHeader(mem[u])
    /\ walk \in Seq(Nat) /\ Len(walk) <= PLATDEF_MAX_RECORDS
    /\ records \in [0..PLATDEF_MAX_RECORDS - 1 -> Nat]
    /\ count \in [Kinds -> 0..UINT16_MOD - 1]
    /\ first_index \in [Kinds -> 0..PLATDEF_MAX_RECORDS]
    /\ p \in Nat /\ record_count \in Nat

\* The counts are those of the first c records.
Counted(c) == \A k \in Kinds : count[k] = Cardinality(Before(Kf, k, c))

\* The sections of the first b kinds are where they should be.
Sections(b) == \A k \in 1..b : first_index[k] = Cardinality(Lower(Kf, k, Len(walk)))

\* The first c records are at their places in the array.
Noted(c) ==
    \A n \in 1..c : Kf[n] \in Kinds =>
        records[first_index[Kf[n]] + Cardinality(Before(Kf, Kf[n], n - 1))] = walk[n]

Counting ==
    /\ record_count = Len(walk) /\ p = Pos(Len(walk)) /\ Counted(Len(walk))
    /\ \A k \in Kinds : first_index[k] = 0

Assigning ==
    /\ Stops(Pos(Len(walk))) /\ Counted(Len(walk))
    /\ j \in 1..25 /\ Sections(j - 1)
    /\ index = Cardinality(Lower(Kf, j, Len(walk)))

Pointing ==
    /\ Stops(Pos(Len(walk))) /\ Sections(24)
    /\ \E c \in 0..Len(walk) : p = Pos(c) /\ Counted(c) /\ Noted(c)

Trimming == Sections(24) /\ Counted(Len(walk)) /\ Noted(Len(walk))

Loaded ==
    /\ Sections(24) /\ Noted(Len(walk))
    /\ \A k \in Kinds \ TrimmedKinds : count[k] = Cardinality(Before(Kf, k, Len(walk)))
    /\ \A k \in TrimmedKinds \ {visible_temp_sensor} :
           count[k] <= Cardinality(Before(Kf, k, Len(walk)))

DirInv ==
    /\ Types0 /\ Chain
    /\ pc \in Loops \cup Serving \cup {"ready"}
    /\ pc \in Loops <=> result = "none"
    /\ pc = "legacy" => Counting /\ walk = << >>
    /\ pc = "count" => Counting
    /\ pc = "assign" => Assigning
    /\ pc = "point" => Pointing
    /\ pc = "trim" => Trimming
    /\ pc \in {"legacy", "count"} => j = 1 /\ index = 0
    /\ result = "ok" => Loaded

\* A header is read everywhere.
LEMMA Headers ==
    ASSUME Types0, NEW u
    PROVE  IsHeader(At(u))
<1>1. IsHeader(Zero)
  BY DEF IsHeader, Zero
<1>2. QED
  BY <1>1 DEF Types0, At

\* What the kind of a header can be.
LEMMA KindType ==
    ASSUME NEW h, IsHeader(h)
    PROVE  Kind(h) \in Kinds \cup {None}
BY DEF IsHeader, Kind, Kinds, None, TableData, TempSensor, table_data, hidden_temp_sensor,
       visible_temp_sensor, patch_and_replacement

\* The invariant implies what the directory is for.
LEMMA InvImpliesRight == DirInv => DirectoryRight
<1> SUFFICES ASSUME DirInv, result = "ok" PROVE DirectoryRight
  BY DEF DirectoryRight
<1>1. Loaded /\ Types0
  BY DEF DirInv
<1>2. DOMAIN walk = 1..Len(walk) /\ Len(walk) \in Nat
  BY <1>1 DEF Types0
<1>3. ASSUME NEW k \in Kinds PROVE OfKind(k) = Before(Kf, k, Len(walk))
  BY <1>2 DEF OfKind, Before, Kf
<1>4. ASSUME NEW k \in Kinds, NEW n \in OfKind(k)
      PROVE  Kf[n] = k /\ n \in 1..Len(walk) /\ Rank(n) = Cardinality(Before(Kf, k, n - 1))
  <2>1. Kf[n] = k /\ n \in 1..Len(walk) /\ Kind(At(walk[n])) = k
    BY <1>2 DEF OfKind, Kf
  <2>2. {m \in OfKind(k) : m < n} = Before(Kf, k, n - 1)
    BY <1>2, <2>1 DEF OfKind, Before, Kf
  <2>3. QED
    BY <2>1, <2>2 DEF Rank
<1>5. ASSUME NEW k \in Kinds PROVE Sorted(k)
  BY <1>1, <1>4 DEF Sorted, Loaded, Noted, get_record
<1>6. TrimmedKinds \subseteq Kinds
  BY DEF TrimmedKinds, visible_temp_sensor, fan_pwm, power_supply, redundancy_rule, Kinds
<1>7. \A k \in Kinds : OfKind(k) = Before(Kf, k, Len(walk))
  BY <1>3
<1>8. \A k \in Kinds \ TrimmedKinds : Complete(k)
  BY <1>1, <1>7 DEF Complete, Loaded
<1>9. \A k \in TrimmedKinds \ {visible_temp_sensor} : count[k] <= Cardinality(OfKind(k))
  BY <1>1, <1>6, <1>7 DEF Loaded
<1>10. QED
  BY <1>5, <1>8, <1>9 DEF DirectoryRight

-----------------------------------------------------------------------------
(***************************************************************************)
(* The invariant holds at the start.                                       *)
(***************************************************************************)

\* Nothing has been counted yet (platdef_clear_meta()).
LEMMA InitDirInv == Init => DirInv
<1> SUFFICES ASSUME Init PROVE DirInv
  OBVIOUS
<1>1. walk = << >> /\ Len(walk) = 0 /\ count = ZeroCounts /\ pc = "legacy" /\ result = "none"
  BY DEF Init
<1>2. Types0
  BY <1>1, PlatDefAssumption DEF Init, Types0, ZeroCounts
<1>3. Chain
  BY <1>1 DEF Chain
<1>4. Counted(0)
  <2>1. ASSUME NEW k \in Kinds PROVE Cardinality(Before(Kf, k, 0)) = 0
    BY Finite
  <2>2. QED
    BY <1>1, <2>1 DEF Counted, ZeroCounts
<1>5. Counting
  BY <1>1, <1>4 DEF Counting, Init, Pos, ZeroCounts
<1>6. QED
  BY <1>1, <1>2, <1>3, <1>5 DEF DirInv, Loops, Init

-----------------------------------------------------------------------------
(***************************************************************************)
(* The steps of the load, each in a lemma of its own.                      *)
(***************************************************************************)

\* handle_legacy_platdef() runs before anything has been counted; what it
\* moves are headers.
LEMMA LegacyStep == DirInv /\ HandleLegacy => DirInv'
<1> SUFFICES ASSUME DirInv, HandleLegacy PROVE DirInv'
  OBVIOUS
<1>1. /\ pc = "legacy" /\ pc' = "count" /\ walk = << >> /\ walk' = walk /\ Len(walk) = 0
      /\ UNCHANGED <<records, count, first_index, p, record_count, result, j, index>>
  BY DEF HandleLegacy, DirInv, meta, loading
<1>2. \A u \in DOMAIN mem' : IsHeader(mem'[u])
  <2>1. ASSUME NEW u PROVE IsHeader(At(u))
    BY Headers DEF DirInv
  <2>2. CASE mem' = mem
    BY <2>2 DEF DirInv, Types0
  <2>3. CASE mem' = Moved
    <3>1. \A u \in DOMAIN mem : IsHeader(mem[u])
      BY DEF DirInv, Types0
    <3>2. QED
      BY <2>1, <2>3, <3>1 DEF Moved
  <2>4. QED
    BY <2>2, <2>3 DEF HandleLegacy
<1>3. Types0'
  BY <1>1, <1>2 DEF DirInv, Types0
<1>4. Chain'
  BY <1>1 DEF Chain
<1>5. Counting'
  <2>1. \A k : Cardinality(Before(Kf, k, 0)) = 0 /\ Cardinality(Before(Kf', k, 0)) = 0
    BY Finite
  <2>2. Counting
    BY <1>1 DEF DirInv
  <2>3. Counted(0)'
    BY <1>1, <2>1, <2>2 DEF Counted, Counting
  <2>4. QED
    BY <1>1, <2>2, <2>3 DEF Counting, Pos
<1>6. QED
  BY <1>1, <1>3, <1>4, <1>5 DEF DirInv, Loops

\* A record is counted, and appended to the history.
LEMMA CountStep == DirInv /\ CountRecord => DirInv'
<1> SUFFICES ASSUME DirInv, CountRecord PROVE DirInv'
  OBVIOUS
<1>0. PICK L \in Nat : L = Len(walk)
  BY DEF DirInv, Types0
<1>1. /\ pc = "count" /\ Counting /\ Types0 /\ Chain /\ L = Len(walk) /\ ~Stops(p)
      /\ walk \in Seq(Nat) /\ p \in Nat
  BY <1>0 DEF CountRecord, DirInv, Types0
<1>2. /\ walk' = Append(walk, p) /\ Len(walk') = L + 1 /\ mem' = mem
      /\ walk' \in Seq(Nat) /\ walk'[L + 1] = p
      /\ \A n \in 1..L : walk'[n] = walk[n]
  BY <1>1 DEF CountRecord
<1>3. L + 1 <= PLATDEF_MAX_RECORDS
  BY <1>0, <1>1, PlatDefAssumption DEF CountRecord, Counting
<1>4. /\ \A n \in 1..L : Kf'[n] = Kf[n]
      /\ Kf'[L + 1] = Kind(At(p))
  BY <1>2 DEF Kf, At
<1>5. \A k : Before(Kf', k, L) = Before(Kf, k, L)
  BY <1>4 DEF Before
<1>6. ASSUME NEW k \in Kinds
      PROVE  /\ count'[k] = Cardinality(Before(Kf', k, L + 1))
             /\ count'[k] \in 0..UINT16_MOD - 1
  <2>1. count[k] = Cardinality(Before(Kf, k, L))
    BY <1>1 DEF Counting, Counted
  <2>2. Cardinality(Before(Kf', k, L + 1)) =
          IF Kind(At(p)) = k THEN count[k] + 1 ELSE count[k]
    BY <1>1, <1>4, <1>5, <2>1, OneMore
  <2>3. count'[k] = IF Kind(At(p)) = k THEN count[k] + 1 ELSE count[k]
    BY <1>1 DEF CountRecord, Increment, Types0
  <2>4. Cardinality(Before(Kf', k, L + 1)) \in 0..L + 1
    BY <1>1, Finite
  <2>5. QED
    BY <1>1, <1>3, <2>2, <2>3, <2>4, PlatDefAssumption
<1>7. At(p).size \in Nat
  <2>1. IsHeader(At(p))
    BY <1>1, Headers
  <2>2. QED
    BY <2>1 DEF IsHeader
<1>8. Types0'
  <2>1. count' \in [Kinds -> 0..UINT16_MOD - 1]
    <3>1. count \in [Kinds -> 0..UINT16_MOD - 1]
      BY <1>1 DEF Types0
    <3>2. DOMAIN count' = Kinds /\ count' = [k \in Kinds |-> count'[k]]
      BY <3>1 DEF CountRecord, Increment
    <3>3. QED
      BY <1>6, <3>2
  <2>2. p' \in Nat /\ record_count' \in Nat
    BY <1>1, <1>7 DEF CountRecord, NextRecord, Types0
  <2>3. records' = records /\ first_index' = first_index
    BY DEF CountRecord
  <2>4. QED
    BY <1>1, <1>2, <1>3, <2>1, <2>2, <2>3 DEF Types0
<1>9. ASSUME NEW c \in 1..L + 1 PROVE Pos(c - 1)' = IF c = 1 THEN PLATDEF_BLOB_START ELSE NextRecord(walk[c - 1])
  BY <1>1, <1>2 DEF Pos, NextRecord, At
<1>10. Chain'
  <2>1. ASSUME NEW c \in 1..L + 1 PROVE walk'[c] = Pos(c - 1)' /\ (~Stops(walk[c]))'
    <3>1. CASE c = L + 1
      BY <1>1, <1>2, <1>9, <3>1 DEF Counting, Pos, Stops, At
    <3>2. CASE c \in 1..L
      BY <1>1, <1>2, <1>9, <3>2 DEF Chain, Pos, Stops, At
    <3>3. QED
      BY <1>1, <3>1, <3>2
  <2>2. QED
    BY <1>2, <2>1 DEF Chain
<1>11. Counting'
  <2>1. p' = Pos(L + 1)'
    BY <1>1, <1>2 DEF Pos, CountRecord, NextRecord, At
  <2>2. Counted(L + 1)'
    BY <1>6 DEF Counted
  <2>3. record_count' = L + 1 /\ first_index' = first_index
    BY <1>1 DEF CountRecord, Counting
  <2>4. QED
    BY <1>1, <1>2, <2>1, <2>2, <2>3 DEF Counting
<1>12. pc' = "count" /\ result' = result /\ j' = j /\ index' = index
  BY <1>1 DEF CountRecord
<1>13. QED
  BY <1>1, <1>8, <1>10, <1>11, <1>12 DEF DirInv, Loops

\* While table and history stay, so does all that is said of them.
LEMMA Frame ==
    ASSUME UNCHANGED <<mem, walk>>
    PROVE  /\ Kf' = Kf
           /\ \A u : At(u)' = At(u) /\ Stops(u)' = Stops(u)
           /\ \A c : Pos(c)' = Pos(c)
           /\ Chain => Chain'
<1>1. \A u : At(u)' = At(u)
  BY DEF At
<1>2. \A u : Stops(u)' = Stops(u)
  BY <1>1 DEF Stops
<1>3. Kf' = Kf
  BY <1>1 DEF Kf
<1>4. \A c : Pos(c)' = Pos(c)
  BY <1>1 DEF Pos, NextRecord
<1>5. Chain => Chain'
  BY <1>2, <1>4 DEF Chain
<1>6. QED
  BY <1>1, <1>2, <1>3, <1>4, <1>5

\* No kind comes before the first.
LEMMA NothingLower ==
    ASSUME NEW f, NEW c \in Nat
    PROVE  Cardinality(Lower(f, 1, c)) = 0
<1>1. Lower(f, 1, c) = {}
  BY DEF Lower
<1>2. QED
  BY <1>1, FS_EmptySet

\* The count is complete, and the first section begins at 0; or the load
\* fails, which says nothing of the directory.
LEMMA CountEndStep == DirInv /\ (CountEnd \/ CountTooMany) => DirInv'
<1> SUFFICES ASSUME DirInv, CountEnd \/ CountTooMany PROVE DirInv'
  OBVIOUS
<1>1. /\ pc = "count" /\ Counting /\ Types0 /\ Chain /\ Len(walk) \in Nat
      /\ j = 1 /\ index = 0 /\ result = "none"
  BY DEF CountEnd, CountTooMany, DirInv, Types0, Loops
<1>2. /\ UNCHANGED <<mem, walk, records, count, first_index, p, j, index>>
      /\ record_count' \in Nat
  BY <1>1 DEF CountEnd, CountTooMany, Types0
<1>3. Types0' /\ Chain'
  BY <1>1, <1>2, Frame DEF Types0
<1>4. CASE pc' = "ready" /\ result' = "error"
  BY <1>3, <1>4 DEF DirInv, Loops
<1>5. CASE pc' = "assign" /\ result' = result /\ Stops(p)
  <2>1. Stops(Pos(Len(walk)))'
    BY <1>1, <1>2, <1>5, Frame DEF Counting
  <2>2. Counted(Len(walk))'
    BY <1>1, <1>2, Frame DEF Counting, Counted
  <2>3. Sections(j - 1)' /\ index' = Cardinality(Lower(Kf, j, Len(walk)))'
    <3>1. Cardinality(Lower(Kf', 1, Len(walk'))) = 0
      BY <1>1, <1>2, NothingLower
    <3>2. j' = 1 /\ index' = 0
      BY <1>1, <1>2
    <3>3. QED
      BY <3>1, <3>2 DEF Sections
  <2>4. Assigning'
    BY <1>1, <1>2, <2>1, <2>2, <2>3 DEF Assigning
  <2>5. QED
    BY <1>1, <1>3, <1>5, <2>4 DEF DirInv, Loops
<1>6. QED
  BY <1>4, <1>5 DEF CountEnd, CountTooMany

\* One more section is laid out behind the last.
LEMMA AssignFirstStep == DirInv /\ AssignFirst => DirInv'
<1> SUFFICES ASSUME DirInv, AssignFirst PROVE DirInv'
  OBVIOUS
<1>0. PICK L \in Nat : L = Len(walk)
  BY DEF DirInv, Types0
<1>1. /\ pc = "assign" /\ Assigning /\ Types0 /\ Chain /\ j \in 1..24 /\ result = "none"
      /\ L <= PLATDEF_MAX_RECORDS
  BY <1>0 DEF AssignFirst, DirInv, Loops, Kinds, Types0
<1>2. /\ UNCHANGED <<mem, walk, records, count, p, record_count, pc, result>>
      /\ first_index' = [first_index EXCEPT ![j] = index]
      /\ index' = index + count[j] /\ j' = j + 1
  BY DEF AssignFirst
<1>3. index = Cardinality(Lower(Kf, j, L)) /\ index \in 0..L
  BY <1>0, <1>1, Finite DEF Assigning
<1>4. Types0'
  <2>1. first_index' \in [Kinds -> 0..PLATDEF_MAX_RECORDS]
    <3>1. index \in 0..PLATDEF_MAX_RECORDS
      BY <1>1, <1>3, PlatDefAssumption
    <3>2. QED
      BY <1>1, <1>2, <3>1 DEF Types0
  <2>2. QED
    BY <1>1, <1>2, <2>1 DEF Types0
<1>5. index' = Cardinality(Lower(Kf, j + 1, L))
  <2>1. count[j] = Cardinality(Before(Kf, j, L))
    BY <1>0, <1>1 DEF Assigning, Counted, Kinds
  <2>2. QED
    BY <1>1, <1>2, <1>3, <2>1, NextSection
<1>6. Sections(j - 1)'
  <2>1. ASSUME NEW k \in 1..j PROVE first_index'[k] = Cardinality(Lower(Kf, k, L))
    <3>1. k \in Kinds /\ j \in Kinds
      BY <1>1 DEF Kinds
    <3>2. CASE k = j
      BY <1>1, <1>2, <1>3, <3>1, <3>2 DEF Types0
    <3>3. CASE k # j
      BY <1>0, <1>1, <1>2, <3>1, <3>3 DEF Types0, Assigning, Sections
    <3>4. QED
      BY <3>2, <3>3
  <2>2. j' - 1 = j
    BY <1>1, <1>2
  <2>3. QED
    BY <1>0, <1>2, <2>1, <2>2, Frame DEF Sections
<1>7. Assigning'
  <2>1. Stops(Pos(Len(walk)))' /\ Counted(Len(walk))'
    BY <1>1, <1>2, Frame DEF Assigning, Counted
  <2>2. j' \in 1..25
    BY <1>1, <1>2
  <2>3. QED
    BY <1>0, <1>2, <1>5, <1>6, <2>1, <2>2, Frame DEF Assigning
<1>8. QED
  BY <1>1, <1>2, <1>4, <1>7, Frame DEF DirInv, Loops

\* The second pass begins where the first began, with all counts 0.
LEMMA AssignEndStep == DirInv /\ AssignEnd => DirInv'
<1> SUFFICES ASSUME DirInv, AssignEnd PROVE DirInv'
  OBVIOUS
<1>0. pc = "assign" /\ Assigning /\ Types0 /\ Chain /\ result = "none"
  BY DEF AssignEnd, DirInv, Loops
<1>1. j = 25 /\ Len(walk) \in Nat
  BY <1>0 DEF AssignEnd, Kinds, Types0, Assigning
<1>2. /\ UNCHANGED <<mem, walk, records, first_index, record_count, index, j, result>>
      /\ count' = ZeroCounts /\ p' = PLATDEF_BLOB_START /\ pc' = "point"
  BY DEF AssignEnd, loading
<1>3. Types0'
  BY <1>0, <1>1, <1>2, PlatDefAssumption DEF Types0, ZeroCounts
<1>4. Pointing'
  <2>1. Stops(Pos(Len(walk)))'
    BY <1>0, <1>1, <1>2, Frame DEF Assigning
  <2>2. Sections(24)'
    <3>1. Sections(24)
      BY <1>0, <1>1, 25 - 1 = 24 DEF Assigning
    <3>2. QED
      BY <1>2, <3>1, Frame DEF Sections
  <2>3. p' = Pos(0)'
    BY <1>2 DEF Pos
  <2>4. Counted(0)'
    <3>1. \A k : Cardinality(Before(Kf', k, 0)) = 0
      BY Finite
    <3>2. QED
      BY <1>2, <3>1 DEF Counted, ZeroCounts
  <2>5. Noted(0)'
    BY DEF Noted
  <2>6. QED
    BY <1>1, <1>2, <2>1, <2>2, <2>3, <2>4, <2>5 DEF Pointing
<1>5. QED
  BY <1>0, <1>1, <1>2, <1>3, <1>4, Frame DEF DirInv, Loops

\* The second pass notes the record the first has counted as the same one: it
\* is of the same kind, and no other record has its place.
LEMMA PointStep == DirInv /\ PointRecord => DirInv'
<1> SUFFICES ASSUME DirInv, PointRecord PROVE DirInv'
  OBVIOUS
<1>0. PICK L \in Nat : L = Len(walk)
  BY DEF DirInv, Types0
<1>1. /\ pc = "point" /\ Pointing /\ Types0 /\ Chain /\ result = "none"
      /\ L <= PLATDEF_MAX_RECORDS /\ ~Stops(p)
  BY <1>0 DEF PointRecord, DirInv, Loops, Types0
<1>2. PICK c \in 0..L : p = Pos(c) /\ Counted(c) /\ Noted(c)
  BY <1>0, <1>1 DEF Pointing
<1>3. c \in 0..L - 1 /\ c + 1 \in 1..L /\ walk[c + 1] = p
  <2>1. c # L
    BY <1>0, <1>1, <1>2 DEF Pointing
  <2>2. c + 1 \in 1..L /\ (c + 1) - 1 = c
    BY <2>1
  <2>3. walk[c + 1] = Pos((c + 1) - 1)
    BY <1>0, <1>1, <2>2 DEF Chain
  <2>4. QED
    BY <1>2, <2>1, <2>2, <2>3
<1>4. PICK k : k = Kind(At(p))
  OBVIOUS
<1>5. Kf[c + 1] = k /\ k \in Kinds \cup {None}
  <2>1. IsHeader(At(p))
    BY <1>1, Headers
  <2>2. QED
    BY <1>0, <1>3, <1>4, <2>1, KindType DEF Kf
<1>6. /\ UNCHANGED <<mem, walk, first_index, record_count, pc, j, index, result>>
      /\ p' = NextRecord(p)
      /\ count' = Increment(count, k)
      /\ records' = IF k \in Kinds THEN [records EXCEPT ![first_index[k] + count[k]] = p]
                                   ELSE records
  BY <1>4 DEF PointRecord, loading
<1>7. ASSUME NEW l \in Kinds
      PROVE  /\ count'[l] = Cardinality(Before(Kf, l, c + 1))
             /\ count'[l] \in 0..UINT16_MOD - 1
  <2>1. count[l] = Cardinality(Before(Kf, l, c))
    BY <1>2 DEF Counted
  <2>2. Cardinality(Before(Kf, l, c + 1)) = IF k = l THEN count[l] + 1 ELSE count[l]
    BY <1>5, <2>1, OneMore
  <2>3. count'[l] = IF k = l THEN count[l] + 1 ELSE count[l]
    BY <1>1, <1>6 DEF Increment, Types0
  <2>4. Cardinality(Before(Kf, l, c + 1)) \in 0..c + 1
    BY Finite
  <2>5. QED
    BY <1>1, <1>3, <2>2, <2>3, <2>4, PlatDefAssumption
<1>8. Sections(24)
  BY <1>1 DEF Pointing
<1>9. ASSUME NEW n \in 1..L, Kf[n] \in Kinds
      PROVE  first_index[Kf[n]] + Cardinality(Before(Kf, Kf[n], n - 1)) = Place(Kf, L, n)
  BY <1>0, <1>8, <1>9 DEF Sections, Place, Kinds
<1>10. k \in Kinds => first_index[k] + count[k] = Place(Kf, L, c + 1)
  <2>1. SUFFICES ASSUME k \in Kinds PROVE first_index[k] + count[k] = Place(Kf, L, c + 1)
    OBVIOUS
  <2>2. count[k] = Cardinality(Before(Kf, k, (c + 1) - 1))
    BY <1>2, <2>1, (c + 1) - 1 = c DEF Counted
  <2>3. QED
    BY <1>3, <1>5, <1>9, <2>1, <2>2
<1>11. ASSUME NEW n \in 1..L, Kf[n] \in Kinds PROVE Place(Kf, L, n) \in 0..PLATDEF_MAX_RECORDS - 1
  <2>1. Kf[n] \in Nat \ {0}
    BY <1>11 DEF Kinds
  <2>2. Place(Kf, L, n) \in 0..L - 1
    BY <2>1, PlaceInSection
  <2>3. QED
    BY <1>1, <2>2, PlatDefAssumption
<1>12. records' \in [0..PLATDEF_MAX_RECORDS - 1 -> Nat]
  BY <1>1, <1>6 DEF Types0
<1>13. Types0'
  <2>1. count' \in [Kinds -> 0..UINT16_MOD - 1]
    <3>1. count' = [l \in Kinds |-> count'[l]]
      BY <1>1, <1>6 DEF Increment, Types0
    <3>2. QED
      BY <1>7, <3>1
  <2>2. p' \in Nat
    <3>1. IsHeader(At(p)) /\ p \in Nat
      BY <1>1, Headers DEF Types0
    <3>2. QED
      BY <1>6, <3>1 DEF NextRecord, IsHeader
  <2>3. QED
    BY <1>1, <1>6, <1>12, <2>1, <2>2 DEF Types0
<1>14. Noted(c + 1)'
  <2>1. ASSUME NEW n \in 1..c + 1, Kf[n] \in Kinds
        PROVE  records'[Place(Kf, L, n)] = walk[n]
    <3>1. CASE n = c + 1
      <4>1. k \in Kinds /\ records' = [records EXCEPT ![Place(Kf, L, n)] = p]
        BY <1>5, <1>6, <1>10, <2>1, <3>1
      <4>2. Place(Kf, L, n) \in DOMAIN records
        BY <1>1, <1>3, <1>11, <2>1, <3>1 DEF Types0
      <4>3. QED
        BY <1>3, <3>1, <4>1, <4>2
    <3>2. CASE n \in 1..c
      <4>1. n \in 1..L
        BY <3>2
      <4>2. records[Place(Kf, L, n)] = walk[n]
        BY <1>2, <1>9, <2>1, <3>2, <4>1 DEF Noted
      <4>3. CASE k \in Kinds
        <5>1. Place(Kf, L, n) # Place(Kf, L, c + 1)
          <6>1. /\ Kf[n] \in Nat \ {0} /\ Kf[c + 1] \in Nat \ {0} /\ c + 1 \in 1..L /\ n # c + 1
            BY <1>3, <1>5, <2>1, <3>2, <4>3 DEF Kinds
          <6>2. QED
            BY <4>1, <6>1, PlacesDiffer
        <5>2. Place(Kf, L, n) \in DOMAIN records
          BY <1>1, <1>11, <2>1, <4>1 DEF Types0
        <5>3. records' = [records EXCEPT ![Place(Kf, L, c + 1)] = p]
          BY <1>6, <1>10, <4>3
        <5>4. QED
          BY <4>2, <5>1, <5>2, <5>3
      <4>4. CASE k \notin Kinds
        BY <1>6, <4>2, <4>4
      <4>5. QED
        BY <4>3, <4>4
    <3>3. QED
      BY <2>1, <3>1, <3>2
  <2>2. ASSUME NEW n \in 1..c + 1, Kf[n] \in Kinds
        PROVE  records'[first_index[Kf[n]] + Cardinality(Before(Kf, Kf[n], n - 1))] = walk[n]
    BY <1>3, <1>9, <2>1, <2>2
  <2>3. QED
    BY <1>6, <2>2, Frame DEF Noted
<1>15. Pointing'
  <2>1. Stops(Pos(Len(walk)))' /\ Sections(24)'
    BY <1>1, <1>6, <1>8, Frame DEF Pointing, Sections
  <2>2. Counted(c + 1)'
    BY <1>6, <1>7, Frame DEF Counted
  <2>3. p' = Pos(c + 1)'
    <3>1. Pos(c + 1) = NextRecord(walk[c + 1])
      BY DEF Pos
    <3>2. QED
      BY <1>3, <1>6, <3>1, Frame
  <2>4. c + 1 \in 0..Len(walk')
    BY <1>0, <1>3, <1>6
  <2>5. QED
    BY <1>14, <2>1, <2>2, <2>3, <2>4 DEF Pointing
<1>16. QED
  BY <1>1, <1>6, <1>13, <1>15, Frame DEF DirInv, Loops

\* The second pass ends where the first did, so it has noted every record.
LEMMA PointEndStep == DirInv /\ PointEnd => DirInv'
<1> SUFFICES ASSUME DirInv, PointEnd PROVE DirInv'
  OBVIOUS
<1>0. PICK L \in Nat : L = Len(walk)
  BY DEF DirInv, Types0
<1>1. /\ pc = "point" /\ Pointing /\ Types0 /\ Chain /\ result = "none"
      /\ Stops(p) /\ pc' = "trim"
  BY DEF PointEnd, DirInv, Loops
<1>2. UNCHANGED <<mem, walk, records, count, first_index, p, record_count, j, index, result>>
  BY DEF PointEnd, meta, loading
<1>3. PICK c \in 0..L : p = Pos(c) /\ Counted(c) /\ Noted(c)
  BY <1>0, <1>1 DEF Pointing
<1>4. c = L
  <2>1. SUFFICES ASSUME c \in 0..L - 1 PROVE FALSE
    BY <1>3
  <2>2. c + 1 \in 1..L /\ (c + 1) - 1 = c
    BY <2>1
  <2>3. walk[c + 1] = Pos((c + 1) - 1) /\ ~Stops(walk[c + 1])
    BY <1>0, <1>1, <2>2 DEF Chain
  <2>4. QED
    BY <1>1, <1>3, <2>2, <2>3
<1>5. Trimming'
  <2>1. Sections(24) /\ Counted(L) /\ Noted(L)
    BY <1>1, <1>3, <1>4 DEF Pointing
  <2>2. QED
    BY <1>0, <1>2, <2>1, Frame DEF Trimming, Sections, Counted, Noted
<1>6. Types0'
  BY <1>1, <1>2 DEF Types0
<1>7. QED
  BY <1>1, <1>2, <1>5, <1>6, Frame DEF DirInv, Loops

\* What is trimmed stays a count, and but for the visible sensors is never
\* more than before.
LEMMA Trimmed ==
    ASSUME Types0
    PROVE  /\ VisibleTrimmed \in 0..UINT16_MOD - 1
           /\ FansTrimmed \in 0..UINT16_MOD - 1 /\ FansTrimmed <= count[fan_pwm]
           /\ \A k \in {power_supply, redundancy_rule} :
                 \A limit \in Nat : /\ AtMost(count[k], limit) \in 0..UINT16_MOD - 1
                                    /\ AtMost(count[k], limit) <= count[k]
<1>1. UINT16_MOD \in Nat \ {0}
  BY PlatDefAssumption
<1>2. \A k \in Kinds : count[k] \in 0..UINT16_MOD - 1
  BY DEF Types0
<1>3. /\ count[visible_temp_sensor] \in 0..UINT16_MOD - 1
      /\ count[hidden_temp_sensor] \in 0..UINT16_MOD - 1
      /\ count[fan_pwm] \in 0..UINT16_MOD - 1
      /\ count[power_supply] \in 0..UINT16_MOD - 1
      /\ count[redundancy_rule] \in 0..UINT16_MOD - 1
  BY <1>2 DEF Kinds, visible_temp_sensor, hidden_temp_sensor, fan_pwm, power_supply,
             redundancy_rule
<1>4. VisibleTrimmed \in 0..UINT16_MOD - 1
  <2>1. \A a \in Int : a % UINT16_MOD \in 0..UINT16_MOD - 1
    BY <1>1
  <2>2. count[visible_temp_sensor] - (num_temp_sensors - PLATDEF_MAX_TEMP_SENSOR) \in Int
    BY <1>1, <1>3, PlatDefAssumption DEF num_temp_sensors
  <2>3. QED
    BY <1>3, <2>1, <2>2 DEF VisibleTrimmed
<1>5. FansTrimmed \in 0..UINT16_MOD - 1 /\ FansTrimmed <= count[fan_pwm]
  BY <1>1, <1>3, PlatDefAssumption DEF FansTrimmed, AtMost
<1>6. ASSUME NEW k \in {power_supply, redundancy_rule}, NEW limit \in Nat
      PROVE  /\ AtMost(count[k], limit) \in 0..UINT16_MOD - 1
             /\ AtMost(count[k], limit) <= count[k]
  BY <1>1, <1>3 DEF AtMost
<1>7. QED
  BY <1>4, <1>5, <1>6

\* The counts that are trimmed, and no others, change.
LEMMA TrimStep == DirInv /\ Trim => DirInv'
<1> SUFFICES ASSUME DirInv, Trim PROVE DirInv'
  OBVIOUS
<1>0. PICK L \in Nat : L = Len(walk)
  BY DEF DirInv, Types0
<1>1. /\ pc = "trim" /\ Trimming /\ Types0 /\ Chain
      /\ pc' = "ready" /\ result' \in {"ok", "error"}
  BY DEF Trim, DirInv, Loops
<1>2. UNCHANGED <<mem, walk, records, first_index, p, record_count, j, index>>
  BY DEF Trim
<1>3. /\ count' = [count EXCEPT
                      ![fan_pwm] = FansTrimmed,
                      ![visible_temp_sensor] = VisibleTrimmed,
                      ![power_supply] = AtMost(@, PLATDEF_MAX_POWER_SUPPLY),
                      ![redundancy_rule] = AtMost(@, PLATDEF_MAX_REDUNDANCY_RULE)]
      /\ count \in [Kinds -> 0..UINT16_MOD - 1]
  BY <1>1 DEF Trim, Types0
<1>4. /\ \A k \in Kinds \ TrimmedKinds : count'[k] = count[k]
      /\ count'[fan_pwm] = FansTrimmed
      /\ count'[visible_temp_sensor] = VisibleTrimmed
      /\ count'[power_supply] = AtMost(count[power_supply], PLATDEF_MAX_POWER_SUPPLY)
      /\ count'[redundancy_rule] = AtMost(count[redundancy_rule], PLATDEF_MAX_REDUNDANCY_RULE)
  BY <1>3 DEF TrimmedKinds, Kinds, fan_pwm, visible_temp_sensor, power_supply, redundancy_rule
<1>5. PLATDEF_MAX_POWER_SUPPLY \in Nat /\ PLATDEF_MAX_REDUNDANCY_RULE \in Nat
  BY PlatDefAssumption
<1>6. /\ \A k \in TrimmedKinds : count'[k] \in 0..UINT16_MOD - 1
      /\ \A k \in TrimmedKinds \ {visible_temp_sensor} : count'[k] <= count[k]
  BY <1>1, <1>4, <1>5, Trimmed DEF TrimmedKinds
<1>7. count' \in [Kinds -> 0..UINT16_MOD - 1]
  <2>1. \A k \in Kinds : count'[k] \in 0..UINT16_MOD - 1
    BY <1>3, <1>4, <1>6
  <2>2. count' = [k \in Kinds |-> count'[k]]
    BY <1>3
  <2>3. QED
    BY <2>1, <2>2
<1>8. Types0'
  BY <1>1, <1>2, <1>7 DEF Types0
<1>9. Loaded'
  <2>1. Sections(24)' /\ Noted(Len(walk))'
    BY <1>0, <1>1, <1>2, Frame DEF Trimming, Sections, Noted
  <2>2. \A k \in Kinds : count[k] = Cardinality(Before(Kf, k, L))
    BY <1>0, <1>1 DEF Trimming, Counted
  <2>3. \A k \in Kinds \ TrimmedKinds : count'[k] = Cardinality(Before(Kf, k, L))
    BY <1>4, <2>2
  <2>4. \A k \in TrimmedKinds \ {visible_temp_sensor} :
            count'[k] <= Cardinality(Before(Kf, k, L))
    <3>1. TrimmedKinds \subseteq Kinds
      BY DEF TrimmedKinds, visible_temp_sensor, fan_pwm, power_supply, redundancy_rule, Kinds
    <3>2. QED
      BY <1>6, <2>2, <3>1
  <2>5. QED
    BY <1>0, <1>2, <2>1, <2>3, <2>4, Frame DEF Loaded
<1>10. QED
  BY <1>1, <1>2, <1>8, <1>9, Frame DEF DirInv, Loops

-----------------------------------------------------------------------------
(***************************************************************************)
(* The commands only read the directory.                                   *)
(***************************************************************************)

\* A step of a command leaves all that the invariant is about.
LEMMA Reading ==
    ASSUME DirInv, UNCHANGED <<mem, meta, loading>>, p' \in Nat,
           pc \in Serving \cup {"ready"}, pc' \in Serving \cup {"ready"}
    PROVE  DirInv'
<1>1. UNCHANGED <<mem, walk, records, count, first_index, record_count, j, index, result>>
  BY DEF meta, loading
<1>2. Types0' /\ Chain'
  BY <1>1, Frame DEF DirInv, Types0
<1>3. Loaded => Loaded'
  BY <1>1, Frame DEF Loaded, Sections, Noted
<1>4. pc \notin Loops /\ pc' \notin Loops
  BY DEF Loops, Serving
<1>5. QED
  BY <1>1, <1>2, <1>3, <1>4 DEF DirInv, Loops, Serving

\* Requests and answers, and the loops between them.
LEMMA ServeStep == DirInv /\ (Serve \/ AskApml) => DirInv'
<1> SUFFICES ASSUME DirInv, Serve \/ AskApml PROVE DirInv'
  OBVIOUS
<1>1. p \in Nat /\ {"supplies", "processors", "devices"} \subseteq Serving
  BY DEF DirInv, Types0, Serving
<1>2. CASE AskApml
  BY <1>1, <1>2, Reading DEF AskApml
<1>3. ASSUME NEW rc, NEW found, pc \in Serving, Answer(rc, found) PROVE DirInv'
  BY <1>1, <1>3, Reading DEF Answer
<1>4. ASSUME NEW k, pc \in Serving, Entity(k) PROVE DirInv'
  BY <1>1, <1>4, Reading DEF Entity
<1>5. ASSUME NEW k, NEW where \in Serving, pc \in Serving, Onward(k, where) PROVE DirInv'
  BY <1>1, <1>5, Reading DEF Onward
<1>6. CASE Supplies \/ Processors
  BY <1>1, <1>4, <1>5, <1>6 DEF Supplies, Processors
<1>7. CASE Devices
  BY <1>1, <1>7, Reading DEF Devices
<1>8. CASE DevicesEnd \/ ApmlFull
  BY <1>1, <1>3, <1>8 DEF DevicesEnd, ApmlFull
<1>9. QED
  BY <1>2, <1>6, <1>7, <1>8 DEF Serve

\* A step that leaves everything leaves the invariant.
LEMMA Stutter == DirInv /\ UNCHANGED vars => DirInv'
<1> SUFFICES ASSUME DirInv, UNCHANGED vars PROVE DirInv'
  OBVIOUS
<1>1. UNCHANGED <<mem, walk, records, count, first_index, record_count, j, index, result, p, pc>>
  BY DEF vars, meta, loading
<1>2. Types0' /\ Chain'
  BY <1>1, Frame DEF DirInv, Types0
<1>3. /\ Counting => Counting'
      /\ Assigning => Assigning'
      /\ Pointing => Pointing'
      /\ Trimming => Trimming'
      /\ Loaded => Loaded'
  <2>1. \A c : (Counted(c) => Counted(c)') /\ (Noted(c) => Noted(c)') /\ (Sections(c) => Sections(c)')
    BY <1>1, Frame DEF Counted, Noted, Sections
  <2>2. Counting => Counting'
    BY <1>1, <2>1, Frame DEF Counting
  <2>3. Assigning => Assigning'
    BY <1>1, <2>1, Frame DEF Assigning
  <2>4. Pointing => Pointing'
    BY <1>1, <2>1, Frame DEF Pointing
  <2>5. Trimming => Trimming'
    BY <1>1, <2>1, Frame DEF Trimming
  <2>6. Loaded => Loaded'
    BY <1>1, <2>1, Frame DEF Loaded
  <2>7. QED
    BY <2>2, <2>3, <2>4, <2>5, <2>6
<1>4. QED
  BY <1>1, <1>2, <1>3 DEF DirInv

-----------------------------------------------------------------------------

\* The invariant holds in every state.
THEOREM Invariant == Spec => []DirInv
<1>1. Init => DirInv
  BY InitDirInv
<1>2. DirInv /\ [Next]_vars => DirInv'
  BY LegacyStep, CountStep, CountEndStep, AssignFirstStep, AssignEndStep, PointStep,
     PointEndStep, TrimStep, ServeStep, Stutter
     DEF Next, Handler, Load
<1>3. QED
  BY <1>1, <1>2, PTL DEF Spec

\* In a definition of any length, with records of any size, the directory has
\* the records of each kind in the table's order, each at its place, once
\* platdef_meta_load() has succeeded.
THEOREM DirectoryCorrect == Spec => []DirectoryRight
BY Invariant, InvImpliesRight, PTL

-----------------------------------------------------------------------------
(***************************************************************************)
(* Types.  That the records found are positions needs that no lookup       *)
(* reads behind the array, which it does not for any kind but the visible  *)
(* sensors, whose count may have wrapped, and which no command looks up.   *)
(***************************************************************************)

\* The sections end inside the array, also after a load that has failed.
SectionsInside ==
    \A k \in Kinds \ {visible_temp_sensor} : first_index[k] + count[k] <= PLATDEF_MAX_RECORDS

TypeInv ==
    /\ DirInv
    /\ DOMAIN mem = DOMAIN file
    /\ record_count \in 0..PLATDEF_MAX_RECORDS + 1
    /\ j \in 1..25 /\ index \in 0..PLATDEF_MAX_RECORDS
    /\ result \in {"none", "ok", "error"}
    /\ i \in Nat /\ got \in Seq(Nat)
    /\ pc \in Serving \cup {"ready"} => SectionsInside

\* The invariant implies the types.
LEMMA InvImpliesTypes == TypeInv => PlatDefTypeOK
<1> SUFFICES ASSUME TypeInv PROVE PlatDefTypeOK
  OBVIOUS
<1>1. DirInv /\ Types0
  BY DEF TypeInv, DirInv
<1>2. DOMAIN records = 0..PLATDEF_MAX_RECORDS - 1 /\ \A n \in DOMAIN records : records[n] \in Nat
  BY <1>1 DEF Types0
<1>3. QED
  BY <1>1, <1>2 DEF TypeInv, PlatDefTypeOK, DirInv, Types0

\* It holds at the start.
LEMMA InitTypeInv == Init => TypeInv
BY InitDirInv, PlatDefAssumption DEF Init, TypeInv, Serving

\* A section of the directory ends in it, and so does what is left of one.
LEMMA SectionEnds ==
    ASSUME Types0, NEW k \in Kinds
    PROVE  /\ Cardinality(Before(Kf, k, Len(walk))) \in 0..PLATDEF_MAX_RECORDS
           /\ Cardinality(Lower(Kf, k, Len(walk))) + Cardinality(Before(Kf, k, Len(walk)))
                  \in 0..PLATDEF_MAX_RECORDS
<1>1. Len(walk) \in Nat /\ Len(walk) <= PLATDEF_MAX_RECORDS /\ PLATDEF_MAX_RECORDS \in Nat
  BY PlatDefAssumption DEF Types0
<1>2. k \in Nat \ {0}
  BY DEF Kinds
<1>3. /\ Cardinality(Before(Kf, k, Len(walk))) \in 0..Len(walk)
      /\ Cardinality(Lower(Kf, k + 1, Len(walk))) \in 0..Len(walk)
  BY <1>1, Finite
<1>4. Cardinality(Lower(Kf, k + 1, Len(walk))) =
          Cardinality(Lower(Kf, k, Len(walk))) + Cardinality(Before(Kf, k, Len(walk)))
  BY <1>1, <1>2, NextSection
<1>5. QED
  BY <1>1, <1>3, <1>4

\* What the load leaves, whether it succeeds or not.
LEMMA LoadTypes == TypeInv /\ DirInv' /\ Load => TypeInv'
<1> SUFFICES ASSUME TypeInv, DirInv', Load PROVE TypeInv'
  OBVIOUS
<1>1. /\ DirInv /\ Types0 /\ Types0' /\ PLATDEF_MAX_RECORDS \in Nat
      /\ Len(walk) \in 0..PLATDEF_MAX_RECORDS
  <2>1. DirInv /\ Types0 /\ Types0' /\ PLATDEF_MAX_RECORDS \in Nat
    BY PlatDefAssumption DEF TypeInv, DirInv
  <2>2. Len(walk) \in Nat /\ Len(walk) <= PLATDEF_MAX_RECORDS
    BY <2>1 DEF Types0
  <2>3. QED
    BY <2>1, <2>2
<1>2. /\ DOMAIN mem = DOMAIN file /\ record_count \in 0..PLATDEF_MAX_RECORDS + 1
      /\ j \in 1..25 /\ index \in 0..PLATDEF_MAX_RECORDS
      /\ result \in {"none", "ok", "error"} /\ i \in Nat /\ got \in Seq(Nat)
  BY DEF TypeInv
<1>3. {"ready", "id", "type", "supplies", "processors", "devices"} \cap Loops = {}
  BY DEF Loops
<1>4. CASE HandleLegacy
  <2>1. DOMAIN mem' = DOMAIN file'
    BY <1>2, <1>4 DEF HandleLegacy, Moved
  <2>2. QED
    BY <1>2, <1>4, <2>1 DEF HandleLegacy, TypeInv, meta, loading, asking, Serving
<1>5. CASE CountRecord
  <2>1. record_count' \in 0..PLATDEF_MAX_RECORDS + 1
    BY <1>1, <1>2, <1>5 DEF CountRecord
  <2>2. QED
    BY <1>2, <1>5, <2>1 DEF CountRecord, TypeInv, asking, Serving
<1>6. CASE CountEnd \/ CountTooMany
  <2>1. pc = "count" /\ Counting
    BY <1>1, <1>6 DEF CountEnd, CountTooMany, DirInv
  <2>2. record_count' \in 0..PLATDEF_MAX_RECORDS + 1
    BY <1>1, <1>6, <2>1 DEF CountEnd, CountTooMany, Counting
  <2>3. SectionsInside'
    <3>1. \A k \in Kinds : first_index[k] + count[k] <= PLATDEF_MAX_RECORDS
      BY <1>1, <2>1, SectionEnds DEF Counting, Counted
    <3>2. QED
      BY <1>6, <3>1 DEF CountEnd, CountTooMany, SectionsInside
  <2>4. QED
    BY <1>2, <1>6, <2>2, <2>3 DEF CountEnd, CountTooMany, TypeInv, asking
<1>7. CASE AssignFirst
  <2>1. pc' = "assign" /\ j' \in 1..25
    <3>1. j \in 1..24 /\ j' = j + 1
      BY <1>7 DEF AssignFirst, Kinds
    <3>2. QED
      BY <1>7, <3>1 DEF AssignFirst
  <2>2. index' = Cardinality(Lower(Kf', j', Len(walk')))
    BY <2>1 DEF DirInv, Assigning
  <2>3. Len(walk') \in 0..PLATDEF_MAX_RECORDS
    BY <1>1 DEF Types0
  <2>4. index' \in 0..PLATDEF_MAX_RECORDS
    <3>1. Cardinality(Lower(Kf', j', Len(walk'))) \in 0..Len(walk')
      BY <2>3, Finite
    <3>2. QED
      BY <1>1, <2>2, <2>3, <3>1
  <2>5. QED
    BY <1>2, <1>7, <2>1, <2>4 DEF AssignFirst, TypeInv, asking, Serving
<1>8. CASE AssignEnd
  BY <1>2, <1>8 DEF AssignEnd, TypeInv, loading, asking, Serving
<1>9. CASE PointRecord
  BY <1>2, <1>9 DEF PointRecord, TypeInv, loading, asking, Serving
<1>10. CASE PointEnd
  BY <1>2, <1>10 DEF PointEnd, TypeInv, meta, loading, asking, Serving
<1>11. CASE Trim
  <2>1. Trimming /\ result' \in {"ok", "error"}
    BY <1>1, <1>11 DEF Trim, DirInv
  <2>2. ASSUME NEW k \in Kinds \ {visible_temp_sensor}
        PROVE  first_index[k] + count'[k] <= PLATDEF_MAX_RECORDS
    <3>1. /\ first_index[k] = Cardinality(Lower(Kf, k, Len(walk)))
          /\ count[k] = Cardinality(Before(Kf, k, Len(walk)))
      BY <2>1, <2>2 DEF Trimming, Sections, Counted, Kinds
    <3>2. count'[k] <= count[k] /\ count'[k] \in Nat /\ count[k] \in Nat /\ first_index[k] \in Nat
      <4>1. /\ count' = [count EXCEPT
                           ![fan_pwm] = FansTrimmed,
                           ![visible_temp_sensor] = VisibleTrimmed,
                           ![power_supply] = AtMost(@, PLATDEF_MAX_POWER_SUPPLY),
                           ![redundancy_rule] = AtMost(@, PLATDEF_MAX_REDUNDANCY_RULE)]
            /\ count \in [Kinds -> 0..UINT16_MOD - 1] /\ count' \in [Kinds -> 0..UINT16_MOD - 1]
            /\ first_index \in [Kinds -> 0..PLATDEF_MAX_RECORDS]
        BY <1>1, <1>11 DEF Trim, Types0
      <4>2. count'[k] <= count[k]
        <5>1. PLATDEF_MAX_POWER_SUPPLY \in Nat /\ PLATDEF_MAX_REDUNDANCY_RULE \in Nat
          BY PlatDefAssumption
        <5>2. k \in Kinds /\ k # visible_temp_sensor /\ count[k] \in Int
          BY <2>2, <4>1
        <5>3. CASE k \in {fan_pwm, power_supply, redundancy_rule}
          BY <1>1, <4>1, <5>1, <5>2, <5>3, Trimmed
             DEF fan_pwm, visible_temp_sensor, power_supply, redundancy_rule
        <5>4. CASE k \notin {fan_pwm, power_supply, redundancy_rule}
          BY <4>1, <5>2, <5>4
        <5>5. QED
          BY <5>3, <5>4
      <4>3. QED
        BY <2>2, <4>1, <4>2
    <3>3. first_index[k] + count[k] \in 0..PLATDEF_MAX_RECORDS
      BY <1>1, <2>2, <3>1, SectionEnds
    <3>4. QED
      BY <1>1, <3>2, <3>3
  <2>3. SectionsInside'
    BY <1>11, <2>2 DEF Trim, SectionsInside
  <2>4. QED
    BY <1>2, <1>11, <2>1, <2>3 DEF Trim, TypeInv, asking
<1>12. QED
  BY <1>4, <1>5, <1>6, <1>7, <1>8, <1>9, <1>10, <1>11 DEF Load

\* What a lookup finds is a position.
LEMMA Lookup ==
    ASSUME TypeInv, pc \in Serving, NEW k \in Kinds \ {visible_temp_sensor}, i < count[k]
    PROVE  get_record(k, i) \in Nat
<1>1. /\ records \in [0..PLATDEF_MAX_RECORDS - 1 -> Nat]
      /\ first_index[k] \in Nat /\ count[k] \in Nat /\ i \in Nat /\ PLATDEF_MAX_RECORDS \in Nat
  BY PlatDefAssumption DEF TypeInv, DirInv, Types0
<1>2. first_index[k] + count[k] <= PLATDEF_MAX_RECORDS
  BY DEF TypeInv, SectionsInside
<1>3. first_index[k] + i \in 0..PLATDEF_MAX_RECORDS - 1
  BY <1>1, <1>2
<1>4. QED
  BY <1>1, <1>3 DEF get_record

\* Requests and answers change only what they are about.
LEMMA ServeTypes ==
    TypeInv /\ DirInv' /\ (Serve \/ AskApml) => TypeInv'
<1> SUFFICES ASSUME TypeInv, DirInv', Serve \/ AskApml PROVE TypeInv'
  OBVIOUS
<1>1. i \in Nat /\ got \in Seq(Nat) /\ UINT8_MOD \in Nat \ {0}
  BY PlatDefAssumption DEF TypeInv
<1>2. ASSUME UNCHANGED <<file, mem, meta, loading>>, i' \in Nat, got' \in Seq(Nat),
             pc \in Serving \cup {"ready"}
      PROVE  TypeInv'
  BY <1>2 DEF TypeInv, SectionsInside, meta, loading
<1>3. << >> \in Seq(Nat) /\ \A u \in Nat : Append(got, u) \in Seq(Nat)
  BY <1>1
<1>4. {"supplies", "processors", "devices"} \subseteq Serving
  BY DEF Serving
<1>5. ASSUME NEW rc, NEW found, pc \in Serving, Answer(rc, found) PROVE TypeInv'
  BY <1>2, <1>3, <1>5 DEF Answer
<1>6. ASSUME NEW k \in Kinds \ {visible_temp_sensor}, pc \in Serving, Entity(k) PROVE TypeInv'
  BY <1>1, <1>2, <1>3, <1>6, Lookup DEF Entity
<1>7. ASSUME NEW k, NEW where, pc \in Serving, Onward(k, where) PROVE TypeInv'
  BY <1>1, <1>2, <1>7 DEF Onward
<1>8. {power_supply, processor, system_device} \subseteq Kinds \ {visible_temp_sensor}
  BY DEF power_supply, processor, system_device, visible_temp_sensor, Kinds
<1>9. CASE AskApml
  BY <1>2, <1>3, <1>9 DEF AskApml
<1>10. CASE Supplies \/ Processors
  BY <1>4, <1>6, <1>7, <1>8, <1>10 DEF Supplies, Processors
<1>11. CASE Devices
  <2>1. pc \in Serving /\ i < count[system_device]
    BY <1>4, <1>11 DEF Devices, get_record
  <2>2. get_record(system_device, i) \in Nat
    BY <1>8, <2>1, Lookup
  <2>3. got' \in Seq(Nat) /\ i' \in Nat
    <3>1. (i + 1) % UINT8_MOD \in Nat
      BY <1>1
    <3>2. QED
      BY <1>1, <1>3, <1>11, <2>2, <3>1 DEF Devices
  <2>4. QED
    BY <1>2, <1>11, <2>1, <2>3 DEF Devices
<1>12. CASE DevicesEnd \/ ApmlFull
  BY <1>4, <1>5, <1>12 DEF DevicesEnd, ApmlFull
<1>13. QED
  BY <1>9, <1>10, <1>11, <1>12 DEF Serve

\* The types are kept by every step.
THEOREM TypesKept == Spec => []TypeInv
<1>1. Init => TypeInv
  BY InitTypeInv
<1>2. TypeInv /\ DirInv' /\ [Next]_vars => TypeInv'
  <2>1. TypeInv /\ DirInv' /\ UNCHANGED vars => TypeInv'
    BY DEF TypeInv, SectionsInside, vars, meta, loading, asking
  <2>2. QED
    BY <2>1, LoadTypes, ServeTypes DEF Next, Handler
<1>3. QED
  BY <1>1, <1>2, Invariant, PTL DEF Spec

\* Whatever the table, and whether the load succeeds or not, every variable
\* has its type: no lookup that a command makes reads behind the array, and no
\* command answers with anything but positions.
THEOREM TypesCorrect == Spec => []PlatDefTypeOK
BY TypesKept, InvImpliesTypes, PTL

-----------------------------------------------------------------------------
(***************************************************************************)
(* The new table of a legacy file.                                         *)
(***************************************************************************)

\* What the file holds at u.
InFile(u) == IF u \in DOMAIN file THEN file[u] ELSE Zero

\* Once the start is over, the room of the new table has its records.
TableMoved ==
    \A u \in DOMAIN mem :
        u < PLATDEF_BLOB_START + file[NewTable(file)].total =>
            mem[u] = InFile(u + (NewTable(file) - PLATDEF_BLOB_START))

LegacyInv ==
    /\ file \in Files
    /\ pc = "legacy" => mem = file
    /\ pc # "legacy" /\ HasNewTable(file) => TableMoved

\* handle_legacy_platdef() finds a new table where the file has one.
LEMMA LegacyFound ==
    ASSUME file \in Files, mem = file
    PROVE  /\ IsLegacy <=> HasNewTable(file)
           /\ At(PLATDEF_BLOB_START) = file[PLATDEF_BLOB_START]
           /\ SecondTable(At(PLATDEF_BLOB_START)) = NewTable(file)
<1>1. /\ PLATDEF_BLOB_START \in DOMAIN file
      /\ file[PLATDEF_BLOB_START].total \in Nat
      /\ At(PLATDEF_BLOB_START) = file[PLATDEF_BLOB_START]
  BY PlatDefAssumption DEF At, IsHeader
<1>2. SecondTable(At(PLATDEF_BLOB_START)) = NewTable(file)
  BY <1>1 DEF SecondTable, NewTable
<1>3. CASE NewTable(file) \in DOMAIN file
  <2>1. At(NewTable(file)) = file[NewTable(file)]
    BY <1>3 DEF At
  <2>2. QED
    BY <1>1, <1>2, <1>3, <2>1 DEF IsLegacy, HasNewTable
<1>4. CASE NewTable(file) \notin DOMAIN file
  <2>1. At(NewTable(file)).type # TableData
    BY <1>4 DEF At, Zero, TableData
  <2>2. QED
    BY <1>1, <1>2, <1>4, <2>1 DEF IsLegacy, HasNewTable
<1>5. QED
  BY <1>1, <1>2, <1>3, <1>4

\* Then it moves all of it.
LEMMA MovedTable == LegacyInv /\ HandleLegacy => LegacyInv'
<1> SUFFICES ASSUME LegacyInv, HandleLegacy PROVE LegacyInv'
  OBVIOUS
<1>1. /\ file \in Files /\ mem = file /\ file' = file /\ pc' = "count"
      /\ mem' = IF IsLegacy THEN Moved ELSE mem
  BY DEF LegacyInv, HandleLegacy
<1>2. ASSUME HasNewTable(file) PROVE TableMoved'
  <2> DEFINE from == NewTable(file)
             start == PLATDEF_BLOB_START
             end == start + file[from].total
  <2>1. /\ At(start) = file[start] /\ SecondTable(At(start)) = from /\ from \in DOMAIN file
        /\ At(from) = file[from] /\ mem' = Moved
    BY <1>1, <1>2, LegacyFound DEF HasNewTable, At
  <2>2. /\ start \in Nat /\ from \in Nat /\ \A u \in DOMAIN mem : u \in Nat
    BY <1>1, <2>1, PlatDefAssumption
  <2>3. mem' = [u \in DOMAIN mem |-> IF u < end THEN At(from + (u - start)) ELSE mem[u]]
    BY <2>1 DEF Moved
  <2>4. ASSUME NEW u \in DOMAIN mem, u < end PROVE mem'[u] = InFile(u + (from - start))
    <3>1. u \in Nat
      BY <2>2
    <3>2. from + (u - start) = u + (from - start)
      <4> HIDE DEF from, start
      <4>1. QED
        BY <2>2, <3>1
    <3>3. At(from + (u - start)) = InFile(from + (u - start))
      BY <1>1 DEF At, InFile
    <3>4. QED
      BY <2>3, <2>4, <3>2, <3>3
  <2>5. DOMAIN mem' = DOMAIN mem
    BY <2>3
  <2>6. QED
    BY <1>1, <2>4, <2>5 DEF TableMoved, InFile
<1>3. QED
  BY <1>1, <1>2 DEF LegacyInv

\* No other step moves anything.
LEMMA OnlyLegacyMoves ==
    ASSUME [Next]_vars, ~ HandleLegacy
    PROVE  /\ mem' = mem /\ file' = file
           /\ (pc = "legacy") <=> (pc' = "legacy")
<1>1. CASE UNCHANGED vars
  BY <1>1 DEF vars
<1>2. CASE Load
  BY <1>2 DEF Load, CountRecord, CountEnd, CountTooMany, AssignFirst, AssignEnd, PointRecord,
              PointEnd, Trim
<1>3. CASE AskApml
  BY <1>3 DEF AskApml
<1>4. CASE Serve
  BY <1>4 DEF Serve, Supplies, Processors, Entity, Onward, Devices, DevicesEnd, ApmlFull, Answer
<1>5. QED
  BY <1>1, <1>2, <1>3, <1>4 DEF Next, Handler

\* A record that a pass meets is in the table, and was in the file.
LEMMA LegacyRight == DirInv /\ LegacyInv => LegacySuperseded
<1> SUFFICES ASSUME DirInv, LegacyInv, HasNewTable(file), NEW n \in DOMAIN walk,
                    walk[n] < PLATDEF_BLOB_START + file[NewTable(file)].total
             PROVE  At(walk[n]) = file[walk[n] + (NewTable(file) - PLATDEF_BLOB_START)]
  BY DEF LegacySuperseded
<1>1. walk \in Seq(Nat) /\ n \in 1..Len(walk) /\ ~ Stops(walk[n])
  BY DEF DirInv, Types0, Chain
<1>2. walk[n] \in DOMAIN mem /\ At(walk[n]) = mem[walk[n]]
  BY <1>1 DEF Stops, At, Zero, Undefined
<1>3. pc # "legacy"
  BY <1>1 DEF DirInv
<1>4. mem[walk[n]] = InFile(walk[n] + (NewTable(file) - PLATDEF_BLOB_START))
  BY <1>2, <1>3 DEF LegacyInv, TableMoved
<1>5. walk[n] + (NewTable(file) - PLATDEF_BLOB_START) \in DOMAIN file
  BY <1>1, <1>2, <1>4 DEF Stops, InFile, Zero, Undefined
<1>6. QED
  BY <1>2, <1>4, <1>5 DEF InFile

\* If a file has a legacy table and, behind it, a new one, both passes and the
\* host's commands see the new table's records, whatever the lengths of the
\* two: handle_legacy_platdef() moves all of the new one, and nothing later
\* writes to the table.
THEOREM NewTableLoaded == Spec => []LegacySuperseded
<1>1. Init => LegacyInv
  BY DEF Init, LegacyInv
<1>2. LegacyInv /\ [Next]_vars => LegacyInv'
  <2>1. ASSUME LegacyInv, [Next]_vars, ~ HandleLegacy PROVE LegacyInv'
    BY <2>1, OnlyLegacyMoves DEF LegacyInv, TableMoved, InFile
  <2>2. QED
    BY <2>1, MovedTable
<1>3. Spec => []LegacyInv
  BY <1>1, <1>2, PTL DEF Spec
<1>4. QED
  BY <1>3, Invariant, LegacyRight, PTL

-----------------------------------------------------------------------------
(***************************************************************************)
(* The order of the walk. A record of no size is met again and again, and  *)
(* then the load fails: in a directory every record comes after the one    *)
(* before it.                                                              *)
(***************************************************************************)

WalkInv ==
    /\ \A a, b \in 1..Len(walk) : a < b =>
          IF At(walk[a]).size = 0 THEN walk[a] = walk[b] ELSE walk[a] < walk[b]
    /\ pc = "count" =>
          \A a \in 1..Len(walk) : IF At(walk[a]).size = 0 THEN walk[a] = p ELSE walk[a] < p
    /\ pc \in {"assign", "point", "trim"} \/ result = "ok" =>
          \A a \in 1..Len(walk) : At(walk[a]).size # 0

\* The host's commands change neither table nor directory.
LEMMA ServeReads ==
    ASSUME Serve \/ AskApml
    PROVE  /\ UNCHANGED <<file, mem, meta, loading>>
           /\ pc \in Serving \cup {"ready"} /\ pc' \in Serving \cup {"ready"}
<1>1. CASE AskApml
  BY <1>1 DEF AskApml, Serving
<1>2. CASE Supplies \/ Processors \/ Devices \/ DevicesEnd \/ ApmlFull
  BY <1>2 DEF Supplies, Processors, Entity, Onward, Devices, DevicesEnd, ApmlFull, Answer, Serving
<1>3. QED
  BY <1>1, <1>2 DEF Serve

\* A record more comes after the others.
LEMMA WalkOn == DirInv /\ WalkInv /\ CountRecord => WalkInv'
<1> SUFFICES ASSUME DirInv, WalkInv, CountRecord PROVE WalkInv'
  OBVIOUS
<1>0. PICK L \in Nat : L = Len(walk)
  BY DEF DirInv, Types0
<1>1. /\ walk \in Seq(Nat) /\ p \in Nat /\ pc = "count" /\ result = "none"
      /\ At(p).size \in Nat
  <2>1. Types0 /\ pc = "count" /\ result = "none"
    BY DEF CountRecord, DirInv, Loops
  <2>2. At(p).size \in Nat
    BY <2>1, Headers DEF IsHeader
  <2>3. QED
    BY <2>1, <2>2 DEF Types0
<1>2. /\ walk' = Append(walk, p) /\ mem' = mem /\ pc' = "count" /\ result' = "none"
      /\ p' = p + At(p).size
  BY <1>1 DEF CountRecord, NextRecord
<1>3. /\ Len(walk') = L + 1 /\ walk'[L + 1] = p
      /\ \A n \in 1..L : walk'[n] = walk[n] /\ walk[n] \in Nat
  BY <1>0, <1>1, <1>2
<1>4. \A u : At(u)' = At(u)
  BY <1>2 DEF At
<1>5. \A a \in 1..L : IF At(walk[a]).size = 0 THEN walk[a] = p ELSE walk[a] < p
  BY <1>0, <1>1 DEF WalkInv
<1>6. \A a, b \in 1..L + 1 : a < b =>
          IF At(walk'[a]).size = 0 THEN walk'[a] = walk'[b] ELSE walk'[a] < walk'[b]
  <2>1. ASSUME NEW a \in 1..L + 1, NEW b \in 1..L + 1, a < b
        PROVE  IF At(walk'[a]).size = 0 THEN walk'[a] = walk'[b] ELSE walk'[a] < walk'[b]
    <3>1. a \in 1..L /\ (b \in 1..L \/ b = L + 1)
      BY <2>1
    <3>2. CASE b \in 1..L
      BY <1>0, <1>3, <2>1, <3>1, <3>2 DEF WalkInv
    <3>3. CASE b = L + 1
      BY <1>3, <1>5, <3>1, <3>3
    <3>4. QED
      BY <3>1, <3>2, <3>3
  <2>2. QED
    BY <2>1
<1>7. ASSUME NEW a \in 1..L + 1
      PROVE  IF At(walk'[a]).size = 0 THEN walk'[a] = p' ELSE walk'[a] < p'
  <2>1. CASE a = L + 1
    BY <1>1, <1>2, <1>3, <2>1
  <2>2. CASE a \in 1..L
    <3>1. walk'[a] = walk[a] /\ walk[a] \in Nat
      BY <1>3, <2>2
    <3>2. CASE At(walk[a]).size # 0 /\ walk[a] < p
      BY <1>1, <1>2, <3>1, <3>2
    <3>3. CASE At(walk[a]).size = 0 /\ walk[a] = p
      BY <1>1, <1>2, <3>1, <3>3
    <3>4. QED
      BY <1>5, <2>2, <3>2, <3>3
  <2>3. QED
    BY <2>1, <2>2
<1>8. QED
  BY <1>2, <1>3, <1>4, <1>6, <1>7 DEF WalkInv

\* The history stays, and a record of no size is where the count ends.
LEMMA WalkStays == DirInv /\ WalkInv /\ [Next]_vars /\ ~ CountRecord => WalkInv'
<1> SUFFICES ASSUME DirInv, WalkInv, [Next]_vars, ~ CountRecord PROVE WalkInv'
  OBVIOUS
<1>1. CASE HandleLegacy
  BY <1>1 DEF HandleLegacy, DirInv, WalkInv, Loops, loading
<1>2. ASSUME UNCHANGED <<mem, walk>>,
             pc' = "count" => pc = "count" /\ p' = p,
             pc' \in {"assign", "point", "trim"} \/ result' = "ok" =>
                \A a \in 1..Len(walk) : At(walk[a]).size # 0
      PROVE  WalkInv'
  <2>1. \A u : At(u)' = At(u)
    BY <1>2 DEF At
  <2>2. QED
    BY <1>2, <2>1 DEF WalkInv
<1>3. CASE CountEnd
  <2>1. \A a \in 1..Len(walk) : At(walk[a]).size # 0
    <3>1. /\ Stops(p) /\ pc = "count"
          /\ \A a \in 1..Len(walk) : ~ Stops(walk[a])
      BY <1>3 DEF CountEnd, DirInv, Chain
    <3>2. ASSUME NEW a \in 1..Len(walk), At(walk[a]).size = 0 PROVE FALSE
      <4>1. walk[a] = p
        BY <3>1, <3>2 DEF WalkInv
      <4>2. QED
        BY <3>1, <4>1
    <3>3. QED
      BY <3>2
  <2>2. QED
    BY <1>2, <1>3, <2>1 DEF CountEnd
<1>4. CASE CountTooMany
  BY <1>2, <1>4 DEF CountTooMany
<1>5. CASE AssignFirst \/ AssignEnd \/ PointRecord \/ PointEnd \/ Trim
  BY <1>2, <1>5 DEF AssignFirst, AssignEnd, PointRecord, PointEnd, Trim, loading, WalkInv
<1>6. CASE Serve \/ AskApml
  <2>1. UNCHANGED <<mem, walk, result>> /\ pc' \notin {"count", "assign", "point", "trim"}
    BY <1>6, ServeReads DEF loading, Serving
  <2>2. QED
    BY <1>2, <2>1 DEF WalkInv
<1>7. CASE UNCHANGED vars
  BY <1>2, <1>7 DEF vars, loading, WalkInv
<1>8. QED
  BY <1>1, <1>3, <1>4, <1>5, <1>6, <1>7 DEF Next, Handler, Load

\* In a table that was loaded every record comes after those before it.
LEMMA Ordered ==
    ASSUME WalkInv, result = "ok", NEW a \in 1..Len(walk), NEW b \in 1..Len(walk), a < b
    PROVE  walk[a] < walk[b]
BY DEF WalkInv

\* The walk of the first pass is in the order of the table, and a load that
\* succeeds has met no record of size 0.
THEOREM WalkInOrder == Spec => []WalkInv
<1>1. Init => WalkInv
  <2>1. Init => Len(walk) = 0
    BY DEF Init
  <2>2. QED
    BY <2>1 DEF Init, WalkInv
<1>2. DirInv /\ WalkInv /\ [Next]_vars => WalkInv'
  BY WalkOn, WalkStays
<1>3. QED
  BY <1>1, <1>2, Invariant, PTL DEF Spec

-----------------------------------------------------------------------------
(***************************************************************************)
(* An answer stands until the next request.                                *)
(***************************************************************************)

AskInv == pc # "ready" => answer.rc = "none"

\* There is no answer while the daemon is at one.
LEMMA AskStep == AskInv /\ [Next]_vars => AskInv'
<1> SUFFICES ASSUME AskInv, [Next]_vars PROVE AskInv'
  OBVIOUS
<1>1. CASE UNCHANGED vars
  BY <1>1 DEF AskInv, vars, asking
<1>2. CASE Load
  BY <1>2 DEF Load, HandleLegacy, CountRecord, CountEnd, CountTooMany, AssignFirst, AssignEnd,
              PointRecord, PointEnd, Trim, AskInv, asking
<1>3. CASE AskApml
  BY <1>3 DEF AskApml, AskInv
<1>4. CASE Supplies \/ Processors \/ Devices
  BY <1>4 DEF Supplies, Processors, Devices, Entity, Onward, AskInv
<1>5. CASE DevicesEnd \/ ApmlFull
  BY <1>5 DEF DevicesEnd, ApmlFull, Answer, AskInv
<1>6. QED
  BY <1>1, <1>2, <1>3, <1>4, <1>5 DEF Next, Handler, Serve

\* What the rest builds on.
THEOREM Asked == Spec => [](DirInv /\ TypeInv /\ WalkInv /\ AskInv)
<1>1. Init => AskInv
  BY DEF Init, AskInv
<1>2. Spec => []AskInv
  BY <1>1, AskStep, PTL DEF Spec
<1>3. QED
  BY <1>2, Invariant, TypesKept, WalkInOrder, PTL

-----------------------------------------------------------------------------
(***************************************************************************)
(* The answer to 0x0202.                                                   *)
(***************************************************************************)

\* A sequence that has more than n elements of a kind has one with n before it.
LEMMA NthOfKind ==
    ASSUME NEW f, NEW k, NEW c \in Nat, NEW n \in Nat, n < Cardinality(Before(f, k, c))
    PROVE  \E w \in 1..c : f[w] = k /\ Cardinality(Before(f, k, w - 1)) = n
<1> DEFINE S == Before(f, k, c)
           N == Cardinality(S)
           T == 0..N - 1
           g == [w \in S |-> Cardinality(Before(f, k, w - 1))]
<1>1. N \in Nat /\ IsFiniteSet(S) /\ \A w \in S : w \in 1..c /\ f[w] = k
  <2>1. IsFiniteSet(S) /\ N \in 0..c
    BY Finite
  <2>2. \A w \in S : w \in 1..c /\ f[w] = k
    BY DEF Before
  <2>3. QED
    BY <2>1, <2>2
<1>2. ASSUME NEW w \in S
      PROVE  Cardinality(Before(f, k, w - 1)) \in T
  <2>1. w \in 1..c /\ w - 1 \in Nat /\ f[w] = k
    BY <1>1
  <2>2. Cardinality(Before(f, k, w - 1)) \in Nat /\ Cardinality(Before(f, k, w - 1)) < N
    BY <2>1, Finite, PlaceInside
  <2>3. QED
    BY <1>1, <2>2
<1>3. ASSUME NEW v \in S, NEW w \in S, v < w
      PROVE  Cardinality(Before(f, k, v - 1)) # Cardinality(Before(f, k, w - 1))
  <2>1. v \in 1..w - 1 /\ w - 1 \in Nat /\ v - 1 \in Nat /\ f[v] = k
    BY <1>1, <1>3
  <2>2. /\ Cardinality(Before(f, k, v - 1)) < Cardinality(Before(f, k, w - 1))
        /\ Cardinality(Before(f, k, v - 1)) \in Nat /\ Cardinality(Before(f, k, w - 1)) \in Nat
    BY <2>1, Finite, PlaceInside
  <2>3. QED
    BY <2>2
<1>4. g \in Injection(S, T)
  <2>1. g \in [S -> T]
    BY <1>2
  <2>2. ASSUME NEW v \in S, NEW w \in S, g[v] = g[w] PROVE v = w
    <3>1. v < w \/ w < v \/ v = w
      BY <1>1
    <3>2. QED
      BY <1>3, <2>2, <3>1
  <2>3. QED
    BY <2>1, <2>2 DEF Injection, IsInjective
<1>5. IsFiniteSet(T) /\ Cardinality(T) = N
  <2> HIDE DEF N
  <2>1. 0 \in Int /\ N - 1 \in Int
    BY <1>1
  <2>2. /\ IsFiniteSet(0..N - 1)
        /\ Cardinality(0..N - 1) = IF 0 > N - 1 THEN 0 ELSE (N - 1) - 0 + 1
    BY <2>1, FS_Interval
  <2>3. QED
    BY <1>1, <2>2
<1>6. g \in Surjection(S, T)
  BY <1>4, <1>5, FS_Injection
<1>7. n \in T
  BY <1>1
<1>8. PICK w \in S : g[w] = n
  BY <1>6, <1>7 DEF Surjection
<1>9. QED
  BY <1>1, <1>8

\* The records of a kind with fewer than c of the kind before them.
FirstOf(k, c) == {n \in OfKind(k) : Rank(n) < c}

\* Which these are.
LEMMA FirstOfKind ==
    ASSUME Types0, NEW k, NEW c
    PROVE  /\ FirstOf(k, c) = {n \in 1..Len(walk) :
                                  Kf[n] = k /\ Cardinality(Before(Kf, k, n - 1)) < c}
           /\ \A n \in OfKind(k) : Rank(n) = Cardinality(Before(Kf, k, n - 1))
           /\ OfKind(k) = {n \in 1..Len(walk) : Kf[n] = k}
<1>1. DOMAIN walk = 1..Len(walk) /\ Len(walk) \in Nat
  BY DEF Types0
<1>2. OfKind(k) = {n \in 1..Len(walk) : Kf[n] = k}
  BY <1>1 DEF OfKind, Kf
<1>3. ASSUME NEW n \in OfKind(k) PROVE Rank(n) = Cardinality(Before(Kf, k, n - 1))
  <2>1. Kf[n] = k /\ n \in 1..Len(walk) /\ Kind(At(walk[n])) = k
    BY <1>1 DEF OfKind, Kf
  <2>2. {m \in OfKind(k) : m < n} = Before(Kf, k, n - 1)
    BY <1>1, <1>2, <2>1 DEF Before
  <2>3. QED
    BY <2>1, <2>2 DEF Rank
<1>4. QED
  BY <1>2, <1>3 DEF FirstOf

\* The directory gives one record more of a kind, which comes after them.
LEMMA OneMoreOf ==
    ASSUME DirInv, WalkInv, result = "ok", NEW k \in Kinds \ {visible_temp_sensor},
           NEW n \in Nat, n < count[k]
    PROVE  \E w \in 1..Len(walk) :
              /\ Kf[w] = k /\ get_record(k, n) = walk[w]
              /\ w \notin FirstOf(k, n) /\ FirstOf(k, n + 1) = FirstOf(k, n) \cup {w}
              /\ \A v \in FirstOf(k, n) : walk[v] < walk[w]
<1>1. /\ Types0 /\ Loaded /\ Len(walk) \in Nat /\ count[k] \in Nat
  BY DEF DirInv, Types0
<1>2. count[k] <= Cardinality(Before(Kf, k, Len(walk))) /\ Cardinality(Before(Kf, k, Len(walk))) \in Nat
  BY <1>1, Finite DEF Loaded
<1>3. n < Cardinality(Before(Kf, k, Len(walk)))
  BY <1>1, <1>2
<1>4. PICK w \in 1..Len(walk) : Kf[w] = k /\ Cardinality(Before(Kf, k, w - 1)) = n
  BY <1>1, <1>3, NthOfKind
<1>5. get_record(k, n) = walk[w]
  BY <1>1, <1>4 DEF Loaded, Noted, get_record
<1>6. ASSUME NEW u \in 1..Len(walk), NEW v \in 1..Len(walk), Kf[u] = k, Kf[v] = k, u < v
      PROVE  Cardinality(Before(Kf, k, u - 1)) < Cardinality(Before(Kf, k, v - 1))
  <2>1. u \in 1..v - 1 /\ v - 1 \in Nat
    BY <1>1, <1>6
  <2>2. QED
    BY <1>6, <2>1, PlaceInside
<1>7. \A v \in 1..Len(walk) : Cardinality(Before(Kf, k, v - 1)) \in Nat
  <2>1. \A v \in 1..Len(walk) : v - 1 \in Nat
    BY <1>1
  <2>2. QED
    BY <2>1, Finite
<1>8. ASSUME NEW v \in 1..Len(walk), Kf[v] = k
      PROVE  /\ Cardinality(Before(Kf, k, v - 1)) < n + 1 <=>
                    Cardinality(Before(Kf, k, v - 1)) < n \/ v = w
             /\ Cardinality(Before(Kf, k, v - 1)) < n => v < w
  <2>1. v < w \/ v = w \/ w < v
    BY <1>1
  <2>2. QED
    BY <1>4, <1>6, <1>7, <1>8, <2>1
<1>9. w \notin FirstOf(k, n) /\ FirstOf(k, n + 1) = FirstOf(k, n) \cup {w}
  <2>1. \A c : FirstOf(k, c) = {v \in 1..Len(walk) :
                                   Kf[v] = k /\ Cardinality(Before(Kf, k, v - 1)) < c}
    BY <1>1, FirstOfKind
  <2>2. QED
    BY <1>4, <1>8, <2>1
<1>10. ASSUME NEW v \in FirstOf(k, n) PROVE walk[v] < walk[w]
  <2>1. v \in 1..Len(walk) /\ Kf[v] = k /\ Cardinality(Before(Kf, k, v - 1)) < n
    BY <1>1, FirstOfKind
  <2>2. v < w
    BY <1>8, <2>1
  <2>3. QED
    BY <2>1, <2>2, Ordered
<1>11. QED
  BY <1>4, <1>5, <1>9, <1>10

\* No record comes before the first.
LEMMA NoneFirst ==
    ASSUME Types0, NEW k
    PROVE  FirstOf(k, 0) = {}
<1>1. \A n \in 1..Len(walk) : n - 1 \in Nat
  BY DEF Types0
<1>2. \A n \in 1..Len(walk) : Cardinality(Before(Kf, k, n - 1)) \in Nat
  BY <1>1, Finite
<1>3. FirstOf(k, 0) = {n \in 1..Len(walk) : Kf[n] = k /\ Cardinality(Before(Kf, k, n - 1)) < 0}
  BY FirstOfKind
<1>4. QED
  BY <1>2, <1>3

DevicesOf(c) == {n \in FirstOf(system_device, c) : At(walk[n]).device # "other"}

\* The records of the first so many supplies, processors and devices.
Listed(a, b, c) == FirstOf(power_supply, a) \cup FirstOf(processor, b) \cup DevicesOf(c)

\* They are what has been found, once each and in order.
Reports(R, found) ==
    /\ ToSet(found) = {walk[n] : n \in R}
    /\ Len(found) = Cardinality(R)
    /\ \A m, n \in DOMAIN found :
          m < n /\ Kind(At(found[m])) = Kind(At(found[n])) => found[m] < found[n]

ApmlSearch == result = "ok" =>
    /\ pc = "supplies" => i <= count[power_supply] /\ Reports(Listed(i, 0, 0), got)
    /\ pc = "processors" =>
          i <= count[processor] /\ Reports(Listed(count[power_supply], i, 0), got)
    /\ pc = "devices" =>
          /\ i < UINT8_MOD
          /\ count[system_device] < UINT8_MOD =>
                /\ i <= count[system_device]
                /\ Reports(Listed(count[power_supply], count[processor], i), got)

\* A record more is found that comes after those of its kind.
LEMMA ReportMore ==
    ASSUME Types0, NEW R \in SUBSET (1..Len(walk)), NEW found \in Seq(Nat), Reports(R, found),
           NEW w \in 1..Len(walk), w \notin R,
           \A v \in R : Kf[v] = Kf[w] => walk[v] < walk[w]
    PROVE  Reports(R \cup {w}, Append(found, walk[w]))
<1> DEFINE more == Append(found, walk[w])
<1>1. /\ walk[w] \in Nat /\ DOMAIN found = 1..Len(found) /\ Len(found) \in Nat
      /\ DOMAIN more = 1..Len(found) + 1 /\ Len(more) = Len(found) + 1
      /\ more[Len(found) + 1] = walk[w]
      /\ \A n \in 1..Len(found) : more[n] = found[n]
  BY DEF Types0
<1> HIDE DEF more
<1>2. Len(more) = Cardinality(R \cup {w})
  <2>1. IsFiniteSet(1..Len(walk))
    BY FS_Interval DEF Types0
  <2>2. IsFiniteSet(R)
    BY <2>1, FS_Subset
  <2>3. Cardinality(R \cup {w}) = Cardinality(R) + 1
    BY <2>2, FS_AddElement
  <2>4. QED
    BY <1>1, <2>3 DEF Reports
<1>3. ToSet(more) = {walk[n] : n \in R \cup {w}}
  <2>1. ToSet(more) = ToSet(found) \cup {walk[w]}
    <3>1. DOMAIN more = DOMAIN found \cup {Len(found) + 1}
      BY <1>1
    <3>2. ToSet(more) = {more[n] : n \in DOMAIN found} \cup {more[Len(found) + 1]}
      BY <3>1 DEF ToSet
    <3>3. {more[n] : n \in DOMAIN found} = {found[n] : n \in DOMAIN found}
      BY <1>1
    <3>4. QED
      BY <1>1, <3>2, <3>3 DEF ToSet
  <2>2. {walk[n] : n \in R \cup {w}} = {walk[n] : n \in R} \cup {walk[w]}
    OBVIOUS
  <2>3. QED
    BY <2>1, <2>2 DEF Reports
<1>4. ASSUME NEW m \in DOMAIN more, NEW n \in DOMAIN more, m < n,
             Kind(At(more[m])) = Kind(At(more[n]))
      PROVE  more[m] < more[n]
  <2>1. m \in 1..Len(found) /\ more[m] = found[m]
    BY <1>1, <1>4
  <2>2. CASE n \in 1..Len(found)
    BY <1>1, <1>4, <2>1, <2>2 DEF Reports
  <2>3. CASE n = Len(found) + 1
    <3>1. found[m] \in ToSet(found)
      BY <1>1, <2>1 DEF ToSet
    <3>2. PICK v \in R : found[m] = walk[v]
      BY <3>1 DEF Reports
    <3>3. Kf[v] = Kf[w]
      BY <1>1, <1>4, <2>1, <2>3, <3>2 DEF Kf
    <3>4. QED
      BY <1>1, <2>1, <2>3, <3>2, <3>3
  <2>4. n \in 1..Len(found) \/ n = Len(found) + 1
    BY <1>1, <1>4
  <2>5. QED
    BY <2>2, <2>3, <2>4
<1>5. QED
  BY <1>2, <1>3, <1>4 DEF Reports, more

\* What is listed is of the walk, and of what kinds.
LEMMA ListedOf ==
    ASSUME Types0, NEW a, NEW b, NEW c
    PROVE  /\ Listed(a, b, c) \in SUBSET (1..Len(walk))
           /\ \A n \in Listed(a, b, c) : Kf[n] = power_supply => n \in FirstOf(power_supply, a)
           /\ \A n \in Listed(a, b, c) : Kf[n] = processor => n \in FirstOf(processor, b)
           /\ \A n \in Listed(a, b, c) : Kf[n] = system_device => n \in FirstOf(system_device, c)
<1>1. \A k, d : \A n \in FirstOf(k, d) : n \in 1..Len(walk) /\ Kf[n] = k
  BY FirstOfKind
<1>2. power_supply # processor /\ power_supply # system_device /\ processor # system_device
  BY DEF power_supply, processor, system_device
<1>3. QED
  BY <1>1, <1>2 DEF Listed, DevicesOf

\* While the table stays, so do they.
LEMMA ListedStay ==
    ASSUME UNCHANGED <<mem, walk>>
    PROVE  /\ \A a, b, c : Listed(a, b, c)' = Listed(a, b, c)
           /\ \A R, found : Reports(R, found) => Reports(R, found)'
<1>1. \A u : At(u)' = At(u)
  BY DEF At
<1>2. \A k : OfKind(k)' = OfKind(k)
  BY <1>1 DEF OfKind
<1>3. \A n : Rank(n)' = Rank(n)
  BY <1>1, <1>2 DEF Rank, OfKind
<1>4. \A k, c : FirstOf(k, c)' = FirstOf(k, c)
  BY <1>2, <1>3 DEF FirstOf
<1>5. \A c : DevicesOf(c)' = DevicesOf(c)
  BY <1>1, <1>4 DEF DevicesOf
<1>6. \A a, b, c : Listed(a, b, c)' = Listed(a, b, c)
  BY <1>4, <1>5 DEF Listed
<1>7. \A R, found : Reports(R, found) => Reports(R, found)'
  BY <1>1 DEF Reports
<1>8. QED
  BY <1>6, <1>7

\* The three kinds, and what is known of their counts.
LEMMA Reported ==
    ASSUME TypeInv
    PROVE  /\ {power_supply, processor, system_device} \subseteq Kinds \ {visible_temp_sensor}
           /\ power_supply # processor /\ power_supply # system_device /\ processor # system_device
           /\ count[power_supply] \in Nat /\ count[processor] \in Nat
           /\ count[system_device] \in Nat /\ i \in Nat /\ got \in Seq(Nat)
<1>1. {power_supply, processor, system_device} \subseteq Kinds \ {visible_temp_sensor}
  BY DEF power_supply, processor, system_device, visible_temp_sensor, Kinds
<1>2. count \in [Kinds -> 0..UINT16_MOD - 1] /\ i \in Nat /\ got \in Seq(Nat)
  BY DEF TypeInv, DirInv, Types0
<1>3. \A k \in Kinds : count[k] \in Nat
  BY <1>2
<1>4. QED
  BY <1>1, <1>2, <1>3 DEF power_supply, processor, system_device

\* A lookup of the first two loops.
LEMMA EntityFound ==
    ASSUME DirInv, TypeInv, WalkInv, result = "ok", NEW a, NEW b, NEW n \in Nat,
           NEW k \in {power_supply, processor}, n < count[k], Reports(Listed(a, b, 0), got),
           IF k = power_supply THEN n = a ELSE n = b
    PROVE  IF k = power_supply
           THEN Reports(Listed(n + 1, b, 0), Append(got, get_record(k, n)))
           ELSE Reports(Listed(a, n + 1, 0), Append(got, get_record(k, n)))
<1> DEFINE R == Listed(a, b, 0)
<1>1. Types0 /\ k \in Kinds \ {visible_temp_sensor} /\ got \in Seq(Nat) /\ power_supply # processor
  BY Reported DEF DirInv
<1>2. PICK w \in 1..Len(walk) :
          /\ Kf[w] = k /\ get_record(k, n) = walk[w]
          /\ w \notin FirstOf(k, n) /\ FirstOf(k, n + 1) = FirstOf(k, n) \cup {w}
          /\ \A v \in FirstOf(k, n) : walk[v] < walk[w]
  BY <1>1, OneMoreOf
<1>3. R \in SUBSET (1..Len(walk)) /\ \A v \in R : Kf[v] = k => v \in FirstOf(k, n)
  BY <1>1, ListedOf
<1>4. w \notin R /\ \A v \in R : Kf[v] = Kf[w] => walk[v] < walk[w]
  BY <1>2, <1>3
<1>5. Reports(R \cup {w}, Append(got, walk[w]))
  <2> HIDE DEF R
  <2>1. Reports(R, got)
    BY DEF R
  <2>2. QED
    BY <1>1, <1>3, <1>4, <2>1, ReportMore
<1>6. R \cup {w} = IF k = power_supply THEN Listed(n + 1, b, 0) ELSE Listed(a, n + 1, 0)
  BY <1>1, <1>2 DEF Listed
<1>7. QED
  BY <1>2, <1>5, <1>6

\* One of the loop over the devices, which passes over some.
LEMMA DeviceFound ==
    ASSUME DirInv, TypeInv, WalkInv, result = "ok", NEW a, NEW b, NEW n \in Nat,
           n < count[system_device], Reports(Listed(a, b, n), got)
    PROVE  Reports(Listed(a, b, n + 1),
                   IF At(get_record(system_device, n)).device \in {"slot", "megacell"}
                   THEN Append(got, get_record(system_device, n)) ELSE got)
<1> DEFINE R == Listed(a, b, n)
<1>1. /\ Types0 /\ system_device \in Kinds \ {visible_temp_sensor} /\ got \in Seq(Nat)
  BY Reported DEF DirInv
<1>2. PICK w \in 1..Len(walk) :
          /\ Kf[w] = system_device /\ get_record(system_device, n) = walk[w]
          /\ w \notin FirstOf(system_device, n)
          /\ FirstOf(system_device, n + 1) = FirstOf(system_device, n) \cup {w}
          /\ \A v \in FirstOf(system_device, n) : walk[v] < walk[w]
  BY <1>1, OneMoreOf
<1>3. /\ R \in SUBSET (1..Len(walk))
      /\ \A v \in R : Kf[v] = system_device => v \in FirstOf(system_device, n)
  BY <1>1, ListedOf
<1>4. w \notin R /\ \A v \in R : Kf[v] = Kf[w] => walk[v] < walk[w]
  BY <1>2, <1>3
<1>5. At(walk[w]).device \in {"slot", "megacell", "other"}
  BY <1>1, Headers DEF IsHeader
<1>6. CASE At(walk[w]).device = "other"
  <2>1. Listed(a, b, n + 1) = R
    BY <1>2, <1>6 DEF Listed, DevicesOf
  <2>2. QED
    BY <1>2, <1>6, <2>1
<1>7. CASE At(walk[w]).device # "other"
  <2>1. Listed(a, b, n + 1) = R \cup {w}
    BY <1>2, <1>7 DEF Listed, DevicesOf
  <2>2. Reports(R \cup {w}, Append(got, walk[w]))
    <3> HIDE DEF R
    <3>1. Reports(R, got)
      BY DEF R
    <3>2. QED
      BY <1>1, <1>3, <1>4, <3>1, ReportMore
  <2>3. QED
    BY <1>2, <1>5, <1>7, <2>1, <2>2
<1>8. QED
  BY <1>6, <1>7

\* The remainder of a smaller number is the number.
LEMMA SmallRemainder ==
    ASSUME NEW x \in Nat, NEW m \in Nat, x < m
    PROVE  x % m = x
OBVIOUS

\* What a turn of one of the loops keeps.
LEMMA ApmlOn ==
    ASSUME DirInv, TypeInv, WalkInv, ApmlSearch, Supplies \/ Processors \/ Devices
    PROVE  ApmlSearch'
<1> SUFFICES ASSUME result = "ok" PROVE ApmlSearch'
  BY DEF ApmlSearch, Supplies, Processors, Devices, Entity, Onward, loading
<1>1. /\ UNCHANGED <<mem, walk, count, first_index, records, result>> /\ Types0
      /\ result' = "ok"
  BY DEF Supplies, Processors, Devices, Entity, Onward, loading, meta, DirInv
<1>2. /\ \A a, b, c : Listed(a, b, c)' = Listed(a, b, c)
      /\ \A R, found : Reports(R, found) => Reports(R, found)'
  BY <1>1, ListedStay
<1>3. PICK s \in Nat, q \in Nat, d \in Nat, n \in Nat, g \in Seq(Nat) :
          /\ s = count[power_supply] /\ q = count[processor] /\ d = count[system_device]
          /\ n = i /\ g = got
  BY Reported
<1>4. ASSUME NEW a, NEW b, NEW c, NEW found, Reports(Listed(a, b, c), found)
      PROVE  Reports(Listed(a, b, c), found)'
  <2>1. PICK R : R = Listed(a, b, c)
    OBVIOUS
  <2>2. Listed(a, b, c)' = R /\ Reports(R, found)'
    BY <1>2, <1>4, <2>1
  <2>3. QED
    BY <2>2 DEF Reports
<1>5. ASSUME pc = "supplies", Entity(power_supply) PROVE ApmlSearch'
  <2>1. n < s /\ Reports(Listed(n, 0, 0), g)
    BY <1>3, <1>5 DEF Entity, ApmlSearch
  <2>2. /\ pc' = "supplies" /\ i' = n + 1 /\ got' = Append(g, get_record(power_supply, n))
        /\ count'[power_supply] = s
    BY <1>1, <1>3, <1>5 DEF Entity
  <2>3. PICK found : found = Append(g, get_record(power_supply, n))
    OBVIOUS
  <2>4. Reports(Listed(n + 1, 0, 0), found)
    BY <1>3, <2>1, <2>3, EntityFound
  <2>5. Reports(Listed(n + 1, 0, 0), found)' /\ n + 1 <= s
    BY <1>3, <1>4, <2>1, <2>4
  <2>6. Reports(Listed(i, 0, 0), got)'
    BY <2>2, <2>3, <2>5
  <2>7. QED
    BY <2>2, <2>5, <2>6 DEF ApmlSearch
<1>6. ASSUME pc = "supplies", Onward(power_supply, "processors") PROVE ApmlSearch'
  <2>1. n = s /\ Reports(Listed(n, 0, 0), g)
    BY <1>3, <1>6 DEF Onward, ApmlSearch
  <2>2. /\ pc' = "processors" /\ i' = 0 /\ got' = g
        /\ count'[power_supply] = s /\ count'[processor] = q
    BY <1>1, <1>3, <1>6 DEF Onward
  <2>3. Reports(Listed(s, 0, 0), g)'
    BY <1>4, <2>1
  <2>4. Reports(Listed(count[power_supply], i, 0), got)'
    BY <2>2, <2>3
  <2>5. QED
    BY <1>3, <2>2, <2>4 DEF ApmlSearch
<1>7. ASSUME pc = "processors", Entity(processor) PROVE ApmlSearch'
  <2>1. n < q /\ Reports(Listed(s, n, 0), g)
    BY <1>3, <1>7 DEF Entity, ApmlSearch
  <2>2. /\ pc' = "processors" /\ i' = n + 1 /\ got' = Append(g, get_record(processor, n))
        /\ count'[power_supply] = s /\ count'[processor] = q
    BY <1>1, <1>3, <1>7 DEF Entity
  <2>3. PICK found : found = Append(g, get_record(processor, n))
    OBVIOUS
  <2>4. Reports(Listed(s, n + 1, 0), found)
    BY <1>3, <2>1, <2>3, EntityFound, Reported
  <2>5. Reports(Listed(s, n + 1, 0), found)' /\ n + 1 <= q
    BY <1>3, <1>4, <2>1, <2>4
  <2>6. Reports(Listed(count[power_supply], i, 0), got)'
    BY <2>2, <2>3, <2>5
  <2>7. QED
    BY <2>2, <2>5, <2>6 DEF ApmlSearch
<1>8. ASSUME pc = "processors", Onward(processor, "devices") PROVE ApmlSearch'
  <2>1. n = q /\ Reports(Listed(s, n, 0), g)
    BY <1>3, <1>8 DEF Onward, ApmlSearch
  <2>2. /\ pc' = "devices" /\ i' = 0 /\ got' = g
        /\ count'[power_supply] = s /\ count'[processor] = q /\ count'[system_device] = d
    BY <1>1, <1>3, <1>8 DEF Onward
  <2>3. Reports(Listed(s, q, 0), g)'
    BY <1>4, <2>1
  <2>4. Reports(Listed(count[power_supply], count[processor], i), got)'
    BY <2>2, <2>3
  <2>5. 0 < UINT8_MOD /\ 0 <= d
    BY <1>3, PlatDefAssumption
  <2>6. QED
    BY <2>2, <2>4, <2>5 DEF ApmlSearch
<1>9. ASSUME Devices PROVE ApmlSearch'
  <2>1. /\ n < d /\ n < UINT8_MOD /\ UINT8_MOD \in Nat \ {0}
        /\ d < UINT8_MOD => Reports(Listed(s, q, n), g)
    BY <1>3, <1>9, PlatDefAssumption DEF Devices, ApmlSearch, get_record
  <2>2. PICK found : found = IF At(get_record(system_device, n)).device \in {"slot", "megacell"}
                             THEN Append(g, get_record(system_device, n)) ELSE g
    OBVIOUS
  <2>3. /\ pc' = "devices" /\ i' = (n + 1) % UINT8_MOD /\ got' = found
        /\ count'[power_supply] = s /\ count'[processor] = q /\ count'[system_device] = d
    BY <1>1, <1>3, <1>9, <2>2 DEF Devices
  <2>4. i' < UINT8_MOD
    BY <1>3, <2>1, <2>3
  <2>5. ASSUME d < UINT8_MOD
        PROVE  i' <= d /\ Reports(Listed(count[power_supply], count[processor], i), got)'
    <3>1. i' = n + 1
      <4>1. n + 1 < UINT8_MOD /\ n + 1 \in Nat /\ UINT8_MOD \in Nat
        BY <1>3, <2>1, <2>5
      <4>2. QED
        BY <2>3, <4>1, SmallRemainder
    <3>2. Reports(Listed(s, q, n + 1), found)
      BY <1>3, <2>1, <2>2, <2>5, DeviceFound
    <3>3. Reports(Listed(s, q, n + 1), found)'
      BY <1>4, <3>2
    <3>4. Reports(Listed(count[power_supply], count[processor], i), got)'
      BY <2>3, <3>1, <3>3
    <3>5. QED
      BY <1>3, <2>1, <3>1, <3>4
  <2>6. QED
    BY <2>3, <2>4, <2>5 DEF ApmlSearch
<1>10. QED
  BY <1>5, <1>6, <1>7, <1>8, <1>9 DEF Supplies, Processors

\* The answer comes when all devices have been looked at, which they are not
\* if there are more than the index can count.
LEMMA ApmlAnswered ==
    ASSUME DirInv, TypeInv, ApmlSearch, result = "ok", DevicesEnd
    PROVE  ApmlComplete'
<1>1. PICK s \in Nat, q \in Nat, d \in Nat, n \in Nat, g \in Seq(Nat) :
          /\ s = count[power_supply] /\ q = count[processor] /\ d = count[system_device]
          /\ n = i /\ g = got
  BY Reported
<1>2. pc = "devices" /\ get_record(system_device, i) = NULL
  BY DEF DevicesEnd
<1>3. ~ (i < count[system_device])
  <2>1. ASSUME i < count[system_device] PROVE FALSE
    <3>1. get_record(system_device, i) \in Nat
      BY <1>2, <2>1, Lookup, Reported DEF Serving
    <3>2. QED
      BY <1>2, <3>1 DEF NULL
  <2>2. QED
    BY <2>1
<1>4. n = d /\ Reports(Listed(s, q, d), g)
  <2>1. n < UINT8_MOD /\ (d < UINT8_MOD => n <= d /\ Reports(Listed(s, q, n), g))
    BY <1>1, <1>2 DEF ApmlSearch
  <2>2. n >= d /\ UINT8_MOD \in Nat
    BY <1>1, <1>3, PlatDefAssumption
  <2>3. n = d
    BY <1>1, <2>1, <2>2
  <2>4. QED
    BY <2>1, <2>3
<1>5. /\ UNCHANGED <<mem, walk, count>> /\ answer'.got = g
  BY <1>1 DEF DevicesEnd, Answer, loading, meta
<1>6. /\ \A a, b, c : Listed(a, b, c)' = Listed(a, b, c)
      /\ \A R, found : Reports(R, found) => Reports(R, found)'
  BY <1>5, ListedStay
<1>7. PICK R : R = Listed(s, q, d)
  OBVIOUS
<1>8. Listed(s, q, d)' = R /\ Reports(R, g)'
  BY <1>4, <1>6, <1>7
<1>9. (Listed(count[power_supply], count[processor], count[system_device]))' = R
  BY <1>1, <1>5, <1>8
<1>10. Reports(R, answer.got)'
  BY <1>5, <1>8
<1>11. QED
  BY <1>9, <1>10 DEF ApmlComplete, Reports, Listed, DevicesOf, FirstOf

\* No other step is about the answer.
LEMMA ApmlStep ==
    DirInv /\ TypeInv /\ WalkInv /\ AskInv /\ ApmlSearch /\ ApmlComplete /\ [Next]_vars
        => ApmlSearch' /\ ApmlComplete'
<1> SUFFICES ASSUME DirInv, TypeInv, WalkInv, AskInv, ApmlSearch, ApmlComplete, [Next]_vars
             PROVE  ApmlSearch' /\ ApmlComplete'
  OBVIOUS
<1>1. ASSUME pc' \notin {"supplies", "processors", "devices"} PROVE ApmlSearch'
  BY <1>1 DEF ApmlSearch
<1>2. ASSUME pc' # "ready" PROVE ApmlComplete'
  <2>1. AskInv'
    BY AskStep
  <2>2. QED
    BY <1>2, <2>1 DEF ApmlComplete, AskInv
<1>3. CASE Supplies \/ Processors \/ Devices
  <2>1. pc' # "ready"
    BY <1>3 DEF Supplies, Processors, Devices, Entity, Onward
  <2>2. QED
    BY <1>2, <1>3, <2>1, ApmlOn
<1>4. CASE DevicesEnd
  <2>1. pc' = "ready" /\ result' = result
    BY <1>4 DEF DevicesEnd, Answer, loading
  <2>2. CASE result # "ok"
    BY <2>1, <2>2 DEF ApmlSearch, ApmlComplete
  <2>3. QED
    BY <1>1, <1>4, <2>1, <2>2, ApmlAnswered
<1>5. CASE ApmlFull
  <2>1. pc' = "ready" /\ answer'.rc = "error"
    BY <1>5 DEF ApmlFull, Answer
  <2>2. QED
    BY <1>1, <2>1 DEF ApmlComplete
<1>6. CASE AskApml
  <2>1. /\ pc' = "supplies" /\ got' = << >> /\ i' = 0 /\ UNCHANGED <<mem, walk, result, count>>
        /\ Types0
    BY <1>6 DEF AskApml, loading, meta, DirInv
  <2>2. Listed(0, 0, 0) = {}
    <3>1. \A k : FirstOf(k, 0) = {}
      BY <2>1, NoneFirst
    <3>2. QED
      BY <3>1 DEF Listed, DevicesOf
  <2>3. Reports({}, << >>)
    BY FS_EmptySet DEF Reports, ToSet
  <2>4. Listed(0, 0, 0)' = {} /\ Reports({}, << >>)'
    BY <2>1, <2>2, <2>3, ListedStay
  <2>5. Reports(Listed(i, 0, 0), got)'
    BY <2>1, <2>4
  <2>6. 0 <= count'[power_supply]
    BY <2>1, Reported
  <2>7. QED
    BY <1>2, <2>1, <2>5, <2>6 DEF ApmlSearch
<1>7. CASE Load
  <2>1. /\ pc' \notin {"supplies", "processors", "devices"} /\ pc # "ready" /\ answer' = answer
    BY <1>7 DEF Load, HandleLegacy, CountRecord, CountEnd, CountTooMany, AssignFirst, AssignEnd,
                PointRecord, PointEnd, Trim, asking
  <2>2. QED
    BY <1>1, <2>1 DEF AskInv, ApmlComplete
<1>8. CASE UNCHANGED vars
  <2>1. UNCHANGED <<mem, walk, count, pc, i, got, answer, result>>
    BY <1>8 DEF vars, loading, asking, meta
  <2>2. /\ \A a, b, c : Listed(a, b, c)' = Listed(a, b, c)
        /\ \A R, found : Reports(R, found) => Reports(R, found)'
    BY <2>1, ListedStay
  <2>3. ASSUME NEW a, NEW b, NEW c, NEW found, Reports(Listed(a, b, c), found)
        PROVE  Reports(Listed(a, b, c), found)'
    <3>1. PICK R : R = Listed(a, b, c)
      OBVIOUS
    <3>2. Listed(a, b, c)' = R /\ Reports(R, found)'
      BY <2>2, <2>3, <3>1
    <3>3. QED
      BY <3>2 DEF Reports
  <2>4. PICK s, q, n, g : s = count[power_supply] /\ q = count[processor] /\ n = i /\ g = got
    OBVIOUS
  <2>5. /\ Reports(Listed(i, 0, 0), got) => Reports(Listed(i, 0, 0), got)'
        /\ Reports(Listed(count[power_supply], i, 0), got)
              => Reports(Listed(count[power_supply], i, 0), got)'
        /\ Reports(Listed(count[power_supply], count[processor], i), got)
              => Reports(Listed(count[power_supply], count[processor], i), got)'
    BY <2>1, <2>3, <2>4
  <2>6. ApmlSearch'
    BY <2>1, <2>5 DEF ApmlSearch
  <2>7. \A u : At(u)' = At(u)
    BY <2>1 DEF At
  <2>8. ApmlComplete'
    <3>1. (\A k : OfKind(k)' = OfKind(k)) /\ \A m : Rank(m)' = Rank(m)
      BY <2>1, <2>7 DEF OfKind, Rank
    <3>2. QED
      BY <2>1, <2>7, <3>1 DEF ApmlComplete
  <2>9. QED
    BY <2>6, <2>8
<1>9. QED
  BY <1>3, <1>4, <1>5, <1>6, <1>7, <1>8 DEF Next, Handler, Serve

\* For every table and every room in an answer, an answer to 0x0202 has every
\* power supply, processor, slot and mega cell that the directory has, each
\* once and each kind in the table's order; with more devices than a UINT8 can
\* count there is no answer at all, and so none that is wrong.
THEOREM ApmlAnswersComplete == Spec => []ApmlComplete
<1>1. Init => ApmlSearch /\ ApmlComplete
  BY DEF Init, ApmlSearch, ApmlComplete
<1>2. QED
  BY <1>1, ApmlStep, Asked, PTL DEF Spec

-----------------------------------------------------------------------------
(***************************************************************************)
(* How long a load and an answer take. Each turn of a loop brings the      *)
(* daemon nearer to where it is ready, by a number of turns that is left   *)
(* from the start: with the fairness of FairSpec this is what LoadEnds     *)
(* rests on, and Answered where a UINT8 counts the devices.                *)
(***************************************************************************)

\* What is ahead of the second pass.
PassAhead == Cardinality({n \in 1..Len(walk) : walk[n] >= p})

\* The turns that are left, at most.
TurnsLeft ==
    CASE pc = "legacy"     -> 2 * PLATDEF_MAX_RECORDS + 30
      [] pc = "count"      -> 2 * PLATDEF_MAX_RECORDS + 29 - record_count
      [] pc = "assign"     -> PLATDEF_MAX_RECORDS + 28 - j
      [] pc = "point"      -> PassAhead + 2
      [] pc = "trim"       -> 1
      [] pc = "ready"      -> 0
      [] pc = "supplies"   -> (count[power_supply] - i) + count[processor] + UINT8_MOD + 3
      [] pc = "processors" -> (count[processor] - i) + UINT8_MOD + 2
      [] pc = "devices"    -> (UINT8_MOD - i) + 1

Nearer == TurnsLeft' \in 0..TurnsLeft - 1

\* A set is no larger than one it is part of, and smaller if an element is
\* missing.
LEMMA FewerIn ==
    ASSUME NEW S, IsFiniteSet(S), NEW T \in SUBSET S
    PROVE  /\ Cardinality(S) \in Nat /\ Cardinality(T) \in 0..Cardinality(S)
           /\ (\E x \in S : x \notin T) => Cardinality(T) < Cardinality(S)
<1>1. IsFiniteSet(T) /\ Cardinality(T) <= Cardinality(S) /\ (Cardinality(S) = Cardinality(T) => S = T)
  BY FS_Subset
<1>2. Cardinality(S) \in Nat /\ Cardinality(T) \in Nat
  BY <1>1, FS_CardinalityType
<1>3. ASSUME \E x \in S : x \notin T PROVE Cardinality(T) # Cardinality(S)
  BY <1>1, <1>3
<1>4. QED
  BY <1>1, <1>2, <1>3

\* The second pass gets on: it is at a record of the first pass, which has a
\* size, or the load would have failed in the first.
LEMMA PassGetsOn ==
    ASSUME DirInv, WalkInv, PointRecord
    PROVE  PassAhead \in Nat /\ PassAhead' \in 0..PassAhead - 1
<1>1. PICK w \in Seq(Nat), L \in Nat, x \in Nat : w = walk /\ L = Len(walk) /\ x = p
  BY DEF DirInv, Types0
<1>2. /\ pc = "point" /\ Pointing /\ Types0 /\ Chain /\ ~Stops(x)
      /\ walk' = w /\ p' = x + At(x).size
  BY <1>1 DEF PointRecord, DirInv, NextRecord, loading
<1>3. PICK c \in 0..L : x = Pos(c)
  BY <1>1, <1>2 DEF Pointing
<1>4. c + 1 \in 1..L /\ w[c + 1] = x
  <2>1. c # L
    BY <1>1, <1>2, <1>3 DEF Pointing
  <2>2. c + 1 \in 1..L /\ (c + 1) - 1 = c
    BY <2>1
  <2>3. walk[c + 1] = Pos((c + 1) - 1)
    BY <1>1, <1>2, <2>2 DEF Chain
  <2>4. QED
    BY <1>1, <1>3, <2>2, <2>3
<1>5. PICK y \in Nat : y = p' /\ x < y
  <2>1. At(x).size # 0
    BY <1>1, <1>2, <1>4 DEF WalkInv
  <2>2. x \in DOMAIN mem
    BY <2>1 DEF At, Zero
  <2>3. At(x).size \in 0..255
    BY <1>2, <2>2 DEF Types0, At, IsHeader
  <2>4. PICK z \in Nat : z = At(x).size
    <3>1. \A s : s \in 0..255 => s \in Nat
      OBVIOUS
    <3>2. At(x).size \in Nat
      BY <2>3, <3>1
    <3>3. QED
      BY <3>2
  <2>5. x < x + z
    BY <2>1, <2>4
  <2>6. QED
    BY <1>2, <2>4, <2>5
<1> DEFINE S == {n \in 1..L : w[n] >= x}
           T == {n \in 1..L : w[n] >= y}
<1>6. IsFiniteSet(S)
  <2>1. IsFiniteSet(1..L)
    BY FS_Interval
  <2>2. S \in SUBSET (1..L)
    OBVIOUS
  <2>3. QED
    BY <2>1, <2>2, FS_Subset
<1>7. T \in SUBSET S
  <2>1. \A n \in 1..L : w[n] \in Nat
    BY <1>1
  <2>2. QED
    BY <1>5, <2>1
<1>8. c + 1 \in S /\ c + 1 \notin T
  BY <1>4, <1>5
<1>9. PassAhead = Cardinality(S) /\ PassAhead' = Cardinality(T)
  BY <1>1, <1>2, <1>5 DEF PassAhead
<1> HIDE DEF S, T
<1>10. Cardinality(S) \in Nat /\ Cardinality(T) \in 0..Cardinality(S) /\ Cardinality(T) < Cardinality(S)
  BY <1>6, <1>7, <1>8, FewerIn
<1>11. QED
  BY <1>9, <1>10

\* The second pass has no more before it than the first has counted.
LEMMA PassBounded ==
    ASSUME walk \in Seq(Nat), Len(walk) <= PLATDEF_MAX_RECORDS
    PROVE  PassAhead \in 0..PLATDEF_MAX_RECORDS
<1>1. PICK L \in Nat : L = Len(walk)
  OBVIOUS
<1>2. IsFiniteSet(1..L) /\ Cardinality(1..L) = L
  BY FS_Interval
<1>3. {n \in 1..L : walk[n] >= p} \in SUBSET (1..L)
  OBVIOUS
<1>4. Cardinality({n \in 1..L : walk[n] >= p}) \in 0..L
  BY <1>2, <1>3, FewerIn
<1>5. QED
  BY <1>1, <1>4, PlatDefAssumption DEF PassAhead

\* A load's turns.
LEMMA LoadNearer ==
    ASSUME DirInv, TypeInv, WalkInv, DirInv', Load
    PROVE  Nearer
<1>1. PICK N \in Nat, rc \in Nat, jj \in 1..25 :
          N = PLATDEF_MAX_RECORDS /\ rc = record_count /\ jj = j /\ rc <= N + 1
  <2>1. PLATDEF_MAX_RECORDS \in Nat
    BY PlatDefAssumption
  <2>2. record_count \in 0..PLATDEF_MAX_RECORDS + 1 /\ j \in 1..25
    BY DEF TypeInv
  <2>3. record_count \in Nat /\ record_count <= PLATDEF_MAX_RECORDS + 1
    BY <2>1, <2>2
  <2>4. QED
    BY <2>1, <2>2, <2>3
<1>2. CASE HandleLegacy
  <2>1. pc = "legacy" /\ pc' = "count" /\ record_count' = 0
    <3>1. record_count = Len(walk) /\ walk = << >>
      BY <1>2 DEF HandleLegacy, DirInv, Counting
    <3>2. QED
      BY <1>2, <3>1 DEF HandleLegacy, meta
  <2>2. TurnsLeft = 2 * N + 30 /\ TurnsLeft' = 2 * N + 29
    BY <1>1, <2>1 DEF TurnsLeft
  <2>3. QED
    BY <2>2 DEF Nearer
<1>3. CASE CountRecord
  <2>1. pc = "count" /\ pc' = "count" /\ record_count' = rc + 1 /\ rc < N
    BY <1>1, <1>3 DEF CountRecord
  <2>2. TurnsLeft = 2 * N + 29 - rc /\ TurnsLeft' = 2 * N + 29 - (rc + 1)
    BY <1>1, <2>1 DEF TurnsLeft
  <2>3. QED
    BY <2>1, <2>2 DEF Nearer
<1>4. CASE CountEnd \/ CountTooMany
  <2>1. pc = "count" /\ (pc' = "ready" \/ (pc' = "assign" /\ j' = 1))
    BY <1>4 DEF CountEnd, CountTooMany, DirInv
  <2>2. TurnsLeft = 2 * N + 29 - rc
    BY <1>1, <2>1 DEF TurnsLeft
  <2>3. TurnsLeft' = 0 \/ TurnsLeft' = N + 28 - 1
    BY <1>1, <2>1 DEF TurnsLeft
  <2>4. QED
    BY <1>1, <2>2, <2>3 DEF Nearer
<1>5. CASE AssignFirst
  <2>1. pc = "assign" /\ pc' = "assign" /\ j' = jj + 1 /\ jj \in 1..24
    BY <1>1, <1>5 DEF AssignFirst, Kinds
  <2>2. TurnsLeft = N + 28 - jj /\ TurnsLeft' = N + 28 - (jj + 1)
    BY <1>1, <2>1 DEF TurnsLeft
  <2>3. QED
    BY <2>1, <2>2 DEF Nearer
<1>6. CASE AssignEnd
  <2>1. pc = "assign" /\ pc' = "point" /\ walk' = walk
    BY <1>6 DEF AssignEnd, loading
  <2>2. PassAhead' \in 0..N
    <3>1. walk' \in Seq(Nat) /\ Len(walk') <= N
      BY <1>1, <2>1 DEF DirInv, Types0
    <3>2. PICK w \in Seq(Nat) : w = walk' /\ Len(w) <= N
      BY <3>1
    <3> DEFINE y == p'
    <3>3. PICK L \in Nat : L = Len(w)
      BY <3>2
    <3>4. IsFiniteSet(1..L) /\ Cardinality(1..L) = L /\ {n \in 1..L : w[n] >= y} \in SUBSET (1..L)
      BY FS_Interval
    <3>5. Cardinality({n \in 1..L : w[n] >= y}) \in 0..L
      BY <3>4, FewerIn
    <3>6. QED
      BY <3>2, <3>3, <3>5 DEF PassAhead
  <2>3. PICK b \in 0..N : b = PassAhead'
    BY <2>2
  <2>4. TurnsLeft = N + 28 - jj /\ TurnsLeft' = b + 2
    BY <1>1, <2>1, <2>3 DEF TurnsLeft
  <2>5. QED
    BY <2>4 DEF Nearer
<1>7. CASE PointRecord
  <2>1. pc = "point" /\ pc' = "point"
    BY <1>7 DEF PointRecord
  <2>2. PICK a, b : a = PassAhead /\ b = PassAhead'
    OBVIOUS
  <2>3. a \in Nat /\ b \in 0..a - 1
    BY <1>7, <2>2, PassGetsOn
  <2>4. TurnsLeft = a + 2 /\ TurnsLeft' = b + 2
    BY <2>1, <2>2 DEF TurnsLeft
  <2>5. QED
    BY <2>3, <2>4 DEF Nearer
<1>8. CASE PointEnd
  <2>1. pc = "point" /\ pc' = "trim"
    BY <1>8 DEF PointEnd
  <2>2. PassAhead \in 0..N
    BY <1>1, PassBounded DEF DirInv, Types0
  <2>3. PICK a \in 0..N : a = PassAhead
    BY <2>2
  <2>4. TurnsLeft = a + 2 /\ TurnsLeft' = 1
    BY <2>1, <2>3 DEF TurnsLeft
  <2>5. QED
    BY <2>4 DEF Nearer
<1>9. CASE Trim
  <2>1. TurnsLeft = 1 /\ TurnsLeft' = 0
    BY <1>9 DEF Trim, TurnsLeft
  <2>2. QED
    BY <2>1 DEF Nearer
<1>10. QED
  BY <1>2, <1>3, <1>4, <1>5, <1>6, <1>7, <1>8, <1>9 DEF Load

\* Every load ends after at most 2 * PLATDEF_MAX_RECORDS + 30 turns, whatever
\* the sizes in the table: a record of size 0 is counted until there are too
\* many, and the second pass, which counts nothing, takes as many turns as the
\* first.
THEOREM LoadBounded == Spec => [][Load => Nearer]_vars
<1>1. DirInv /\ TypeInv /\ WalkInv /\ DirInv' /\ [Next]_vars => [Load => Nearer]_vars
  BY LoadNearer
<1>2. QED
  BY <1>1, Asked, PTL DEF Spec

\* What the turns of a request rest on: an index goes no further than it
\* counts.
BoundInv ==
    /\ pc = "supplies" => i <= count[power_supply]
    /\ pc = "processors" => i <= count[processor]
    /\ pc = "devices" => i < UINT8_MOD

LEMMA BoundStep == BoundInv /\ TypeInv /\ [Next]_vars => BoundInv'
<1> SUFFICES ASSUME BoundInv, TypeInv, [Next]_vars PROVE BoundInv'
  OBVIOUS
<1>1. /\ i \in Nat /\ UINT8_MOD \in Nat \ {0}
      /\ count[power_supply] \in Nat /\ count[processor] \in Nat
  <2>1. power_supply \in Kinds /\ processor \in Kinds
    BY DEF power_supply, processor, Kinds
  <2>2. count \in [Kinds -> 0..UINT16_MOD - 1] /\ UINT16_MOD \in Nat
    BY PlatDefAssumption DEF TypeInv, DirInv, Types0
  <2>3. QED
    BY <2>1, <2>2, PlatDefAssumption DEF TypeInv
<1>2. CASE UNCHANGED vars
  BY <1>2 DEF BoundInv, vars, asking, meta
<1>3. CASE Load
  <2>1. pc' \in {"count", "assign", "point", "trim", "ready"}
    BY <1>3 DEF Load, HandleLegacy, CountRecord, CountEnd, CountTooMany, AssignFirst, AssignEnd,
                PointRecord, PointEnd, Trim
  <2>2. QED
    BY <2>1 DEF BoundInv
<1>4. CASE AskApml
  BY <1>1, <1>4 DEF AskApml, BoundInv, meta
<1>5. CASE Supplies
  <2>1. CASE Entity(power_supply)
    <3>1. UNCHANGED count /\ pc' = "supplies" /\ i' = i + 1 /\ i < count[power_supply]
      BY <1>5, <2>1 DEF Supplies, Entity, meta
    <3>2. i + 1 <= count[power_supply]
      BY <1>1, <3>1
    <3>3. QED
      BY <3>1, <3>2 DEF BoundInv
  <2>2. CASE Onward(power_supply, "processors")
    BY <1>1, <2>2 DEF Onward, BoundInv, meta
  <2>3. QED
    BY <1>5, <2>1, <2>2 DEF Supplies
<1>6. CASE Processors
  <2>1. CASE Entity(processor)
    <3>1. UNCHANGED count /\ pc' = "processors" /\ i' = i + 1 /\ i < count[processor]
      BY <1>6, <2>1 DEF Processors, Entity, meta
    <3>2. i + 1 <= count[processor]
      BY <1>1, <3>1
    <3>3. QED
      BY <3>1, <3>2 DEF BoundInv
  <2>2. CASE Onward(processor, "devices")
    BY <1>1, <2>2 DEF Onward, BoundInv, meta
  <2>3. QED
    BY <1>6, <2>1, <2>2 DEF Processors
<1>7. CASE Devices
  <2>1. (i + 1) % UINT8_MOD < UINT8_MOD
    BY <1>1
  <2>2. QED
    BY <1>7, <2>1 DEF Devices, BoundInv
<1>8. CASE DevicesEnd \/ ApmlFull
  BY <1>8 DEF DevicesEnd, ApmlFull, Answer, BoundInv
<1>9. QED
  BY <1>2, <1>3, <1>4, <1>5, <1>6, <1>7, <1>8 DEF Next, Handler, Serve

\* The search of the devices needs fewer of them than its index can count.
FewDevices == pc = "devices" => count[system_device] < UINT8_MOD

LEMMA ApmlNearer ==
    ASSUME TypeInv, BoundInv, FewDevices, Supplies \/ Processors \/ Devices \/ DevicesEnd \/ ApmlFull
    PROVE  Nearer
<1>1. UNCHANGED count
  BY DEF Supplies, Processors, Devices, DevicesEnd, ApmlFull, Entity, Onward, Answer, meta
<1>2. PICK s \in Nat, q \in Nat, d \in Nat, n \in Nat, M \in Nat \ {0} :
          /\ s = count[power_supply] /\ q = count[processor] /\ d = count[system_device]
          /\ n = i /\ M = UINT8_MOD
  <2>1. power_supply \in Kinds /\ processor \in Kinds /\ system_device \in Kinds
    BY DEF power_supply, processor, system_device, Kinds
  <2>2. count \in [Kinds -> 0..UINT16_MOD - 1] /\ UINT16_MOD \in Nat
    BY PlatDefAssumption DEF TypeInv, DirInv, Types0
  <2>3. count[power_supply] \in Nat /\ count[processor] \in Nat /\ count[system_device] \in Nat
    BY <2>1, <2>2
  <2>4. i \in Nat /\ UINT8_MOD \in Nat \ {0}
    BY PlatDefAssumption DEF TypeInv
  <2>5. QED
    BY <2>3, <2>4
<1>3. /\ pc = "supplies" => n <= s /\ TurnsLeft = (s - n) + q + M + 3
      /\ pc = "processors" => n <= q /\ TurnsLeft = (q - n) + M + 2
      /\ pc = "devices" => n < M /\ TurnsLeft = (M - n) + 1
  BY <1>2 DEF BoundInv, TurnsLeft
<1>4. CASE DevicesEnd \/ ApmlFull
  <2>1. TurnsLeft' = 0 /\ pc \in {"supplies", "processors", "devices"}
    BY <1>4 DEF DevicesEnd, ApmlFull, Answer, TurnsLeft
  <2>2. QED
    BY <1>2, <1>3, <2>1 DEF Nearer
<1>5. CASE Supplies
  <2>1. \/ pc' = "supplies" /\ i' = n + 1 /\ n < s
        \/ pc' = "processors" /\ i' = 0
    BY <1>2, <1>5 DEF Supplies, Entity, Onward
  <2>2. \/ TurnsLeft' = (s - (n + 1)) + q + M + 3 /\ n < s
        \/ TurnsLeft' = (q - 0) + M + 2
    BY <1>1, <1>2, <2>1 DEF TurnsLeft
  <2>3. pc = "supplies"
    BY <1>5 DEF Supplies
  <2>4. QED
    BY <1>2, <1>3, <2>2, <2>3 DEF Nearer
<1>6. CASE Processors
  <2>1. \/ pc' = "processors" /\ i' = n + 1 /\ n < q
        \/ pc' = "devices" /\ i' = 0
    BY <1>2, <1>6 DEF Processors, Entity, Onward
  <2>2. \/ TurnsLeft' = (q - (n + 1)) + M + 2 /\ n < q
        \/ TurnsLeft' = (M - 0) + 1
    BY <1>1, <1>2, <2>1 DEF TurnsLeft
  <2>3. pc = "processors"
    BY <1>6 DEF Processors
  <2>4. QED
    BY <1>2, <1>3, <2>2, <2>3 DEF Nearer
<1>7. CASE Devices
  <2>1. pc = "devices" /\ pc' = "devices" /\ i' = (n + 1) % M /\ n < d /\ d < M
    BY <1>2, <1>7 DEF Devices, get_record, FewDevices
  <2>2. n + 1 \in Nat /\ n + 1 < M
    BY <1>2, <2>1
  <2>3. i' = n + 1
    BY <2>1, <2>2, SmallRemainder
  <2>4. TurnsLeft' = (M - (n + 1)) + 1
    BY <1>2, <2>1, <2>3 DEF TurnsLeft
  <2>5. QED
    BY <1>2, <1>3, <2>1, <2>4 DEF Nearer
<1>8. QED
  BY <1>4, <1>5, <1>6, <1>7

\* Every request is answered after at most count[power_supply] +
\* count[processor] + UINT8_MOD + 3 turns, as long as there are fewer devices
\* than a UINT8 can count.
THEOREM RequestBounded == Spec => [][Serve /\ FewDevices => Nearer]_vars
<1>1. Init => BoundInv
  BY DEF Init, BoundInv
<1>2. Spec => []BoundInv
  BY <1>1, BoundStep, TypesKept, PTL DEF Spec
<1>3. TypeInv /\ BoundInv /\ [Next]_vars => [Serve /\ FewDevices => Nearer]_vars
  BY ApmlNearer DEF Serve
<1>4. QED
  BY <1>2, <1>3, TypesKept, PTL DEF Spec

=============================================================================
