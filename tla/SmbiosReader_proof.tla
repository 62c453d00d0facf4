------------------------- MODULE SmbiosReader_proof -------------------------
(* What a reader of the database file has in memory, and what it lists.    *)
EXTENDS SmbiosReader, FiniteSetTheorems, TLAPS

-----------------------------------------------------------------------------
(* Pages, and the order of a set of slots.                                 *)

LEMMA DivOrder ==
    ASSUME NEW a \in Nat, NEW b \in Nat, NEW d \in Nat \ {0}, a <= b
    PROVE  a \div d \in Nat /\ b \div d \in Nat /\ a \div d <= b \div d
<1> DEFINE q == a \div d
           r == b \div d
<1>1. q \in Int /\ r \in Int /\ d * q <= a /\ a < d * (q + 1) /\ d * r <= b /\ b < d * (r + 1)
  OBVIOUS
<1> HIDE DEF q, r
<1>2. q >= 0 /\ r >= 0
  BY <1>1
<1>3. d * q < d * (r + 1)
  BY <1>1
<1>4. q < r + 1
  BY <1>1, <1>3
<1>5. q \in Nat /\ r \in Nat /\ q <= r
  BY <1>1, <1>2, <1>4
<1>6. QED
  BY <1>5 DEF q, r

\* The pages of the index and of the records are in smbios_db.
LEMMA PageRange ==
    /\ Pages \in Nat /\ Pages >= 4
    /\ \A s \in Slot : IndexPage(s) \in 2 .. Pages /\ DataPage(s) \in 2 .. Pages
<1>1. NumRec \in Nat /\ NumRec >= 1 /\ PerPage \in Nat \ {0}
  BY ReaderAssumption
<1>2. NumRec - 1 \in Nat
  BY <1>1
<1> DEFINE top == (NumRec - 1) \div PerPage
<1>3. top \in Nat
  BY <1>1, <1>2, DivOrder
<1>4. ASSUME NEW s \in Slot
      PROVE  /\ (s - 1) \div PerPage \in Nat /\ (s - 1) \div PerPage <= top
             /\ s \in 1 .. NumRec
  <2>1. s - 1 \in Nat /\ s - 1 <= NumRec - 1 /\ s \in 1 .. NumRec
    BY <1>1 DEF Slot
  <2>2. QED
    BY <1>1, <1>2, <2>1, DivOrder
<1>5. Pages = 2 + top + NumRec + 1 /\ IndexPage(NumRec) = 2 + top
  BY DEF Pages, DataPage, IndexPage
<1>6. ASSUME NEW s \in Slot
      PROVE  /\ IndexPage(s) = 2 + (s - 1) \div PerPage
             /\ DataPage(s) = 2 + top + s
  BY DEF IndexPage, DataPage
<1> HIDE DEF top
<1>7. ASSUME NEW s \in Slot
      PROVE  IndexPage(s) \in 2 .. Pages /\ DataPage(s) \in 2 .. Pages
  <2> DEFINE x == (s - 1) \div PerPage
  <2>1. x \in Nat /\ x <= top /\ s \in 1 .. NumRec /\ IndexPage(s) = 2 + x
    BY <1>4, <1>6
  <2> HIDE DEF x
  <2>2. QED
    BY <2>1, <1>1, <1>3, <1>5, <1>6
<1>8. Pages \in Nat /\ Pages >= 4
  BY <1>1, <1>3, <1>5
<1>9. QED
  BY <1>7, <1>8

\* Sets of slots are finite.
LEMMA SlotsFinite ==
    ASSUME NEW S \in SUBSET Slot
    PROVE  IsFiniteSet(S) /\ Cardinality(S) \in Nat /\ Cardinality(S) <= NumRec
<1>1. NumRec \in Nat /\ 1 \in Int /\ NumRec \in Int
  BY ReaderAssumption
<1>2. IsFiniteSet(1 .. NumRec)
  BY <1>1, FS_Interval
<1>3. Cardinality(1 .. NumRec) = NumRec
  <2> DEFINE N == NumRec
  <2>1. Cardinality(1 .. N) = IF 1 > N THEN 0 ELSE N - 1 + 1
    BY <1>1, FS_Interval
  <2>2. N \in Nat
    BY <1>1
  <2> HIDE DEF N
  <2>3. Cardinality(1 .. N) = N
    BY <2>1, <2>2
  <2>4. QED
    BY <2>3 DEF N
<1>4. S \subseteq 1 .. NumRec
  BY DEF Slot
<1>5. IsFiniteSet(S) /\ Cardinality(S) <= Cardinality(1 .. NumRec)
  BY <1>2, <1>4, FS_Subset
<1>6. QED
  BY <1>3, <1>5, FS_CardinalityType

\* Ranks are in the order of the slots.
LEMMA RankOrder ==
    ASSUME NEW S \in SUBSET Slot, NEW r \in S, NEW s \in S
    PROVE  /\ Rank(S, s) \in Nat /\ Rank(S, r) \in Nat
           /\ Rank(S, s) < Cardinality(S)
           /\ r < s <=> Rank(S, r) < Rank(S, s)
           /\ r = s <=> Rank(S, r) = Rank(S, s)
<1>0. S \subseteq Nat
  BY ReaderAssumption DEF Slot
<1>1. ASSUME NEW x \in S, NEW y \in S, x < y
      PROVE  Rank(S, x) < Rank(S, y)
  <2> DEFINE X == {z \in S : z < x}
             Y == {z \in S : z < y}
  <2>1. IsFiniteSet(X) /\ IsFiniteSet(Y) /\ Cardinality(X) \in Nat /\ Cardinality(Y) \in Nat
    BY SlotsFinite
  <2>2. X \subseteq Y /\ x \in Y /\ x \notin X
    <3>1. x \in Nat /\ y \in Nat /\ x < y
      BY <1>0, <1>1
    <3>2. ASSUME NEW z \in S, z < x PROVE z < y
      <4>1. z \in Nat
        BY <1>0
      <4>2. QED
        BY <3>1, <3>2, <4>1
    <3>3. ~ (x < x)
      BY <3>1
    <3>4. QED
      BY <3>1, <3>2, <3>3
  <2>3. X # Y
    BY <2>2
  <2> HIDE DEF X, Y
  <2>4. Cardinality(X) < Cardinality(Y)
    BY <2>1, <2>2, <2>3, FS_Subset
  <2>5. QED
    BY <2>4 DEF Rank, X, Y
<1>2. ASSUME NEW x \in S
      PROVE  Rank(S, x) \in Nat /\ Rank(S, x) < Cardinality(S)
  <2> DEFINE X == {z \in S : z < x}
  <2>1. IsFiniteSet(X) /\ IsFiniteSet(S) /\ Cardinality(X) \in Nat /\ Cardinality(S) \in Nat
    BY SlotsFinite
  <2>2. X \subseteq S /\ x \notin X
    BY <1>0
  <2>3. X # S
    BY <2>2
  <2> HIDE DEF X
  <2>4. Cardinality(X) < Cardinality(S)
    BY <2>1, <2>2, <2>3, FS_Subset
  <2>5. QED
    BY <2>1, <2>4 DEF Rank, X
<1>3. r \in Nat /\ s \in Nat
  BY <1>0
<1>4. Rank(S, s) \in Nat /\ Rank(S, r) \in Nat /\ Rank(S, s) < Cardinality(S)
  BY <1>2
<1>5. CASE r < s
  <2>1. Rank(S, r) < Rank(S, s)
    BY <1>1, <1>5
  <2>2. QED
    BY <1>3, <1>4, <1>5, <2>1
<1>6. CASE s < r
  <2>1. Rank(S, s) < Rank(S, r)
    BY <1>1, <1>6
  <2>2. QED
    BY <1>3, <1>4, <1>6, <2>1
<1>7. CASE r = s
  BY <1>3, <1>4, <1>7
<1>8. QED
  BY <1>3, <1>5, <1>6, <1>7

\* Ranks leave no gap: if no slot of a set has rank n, all have a lower one.
LEMMA RankGap ==
    ASSUME NEW S \in SUBSET Slot, NEW n \in Nat, NthOf(S, n) = {}
    PROVE  \A s \in S : Rank(S, s) < n
<1> DEFINE f == [s \in S |-> Rank(S, s)]
           N == Cardinality(S)
<1>1. IsFiniteSet(S) /\ N \in Nat
  BY SlotsFinite
<1>2. f \in [S -> 0 .. N - 1]
  <2>1. \A s \in S : Rank(S, s) \in Nat /\ Rank(S, s) < N
    BY RankOrder
  <2>2. \A s \in S : Rank(S, s) \in 0 .. N - 1
    BY <1>1, <2>1
  <2>3. QED
    BY <2>2
<1>3. \A r, s \in S : f[r] = f[s] => r = s
  BY RankOrder
<1>4. IsFiniteSet(0 .. N - 1) /\ Cardinality(0 .. N - 1) = N
  <2>1. 0 \in Int /\ N - 1 \in Int
    BY <1>1
  <2> HIDE DEF N
  <2>2. IsFiniteSet(0 .. N - 1) /\ Cardinality(0 .. N - 1) = IF 0 > N - 1 THEN 0 ELSE (N - 1) - 0 + 1
    BY <2>1, FS_Interval
  <2>3. QED
    BY <1>1, <2>2
<1>5. ASSUME n < N PROVE FALSE
  <2>1. n \in 0 .. N - 1
    BY <1>1, <1>5
  <2>2. f \in Surjection(S, 0 .. N - 1)
    <3>1. f \in Injection(S, 0 .. N - 1)
      BY <1>2, <1>3 DEF Injection, IsInjective
    <3>2. QED
      BY <1>1, <1>4, <3>1, FS_Injection
  <2>3. PICK s \in S : f[s] = n
    BY <2>1, <2>2 DEF Surjection
  <2>4. QED
    BY <2>3 DEF NthOf
<1>6. \A s \in S : Rank(S, s) \in Nat /\ Rank(S, s) < N
  BY RankOrder
<1> HIDE DEF N
<1>7. QED
  BY <1>1, <1>5, <1>6

\* At most one slot of a set has a rank.
LEMMA NthUnique ==
    ASSUME NEW S \in SUBSET Slot, NEW n, NEW s \in NthOf(S, n)
    PROVE  NthOf(S, n) = {s} /\ s \in S /\ Rank(S, s) = n
<1>1. s \in S /\ Rank(S, s) = n
  BY DEF NthOf
<1>2. ASSUME NEW r \in NthOf(S, n) PROVE r = s
  <2>1. r \in S /\ Rank(S, r) = n
    BY DEF NthOf
  <2>2. QED
    BY <1>1, <2>1, RankOrder
<1>3. QED
  BY <1>1, <1>2

\* The slot of rank 0 is the first.
LEMMA NthFirst ==
    ASSUME NEW S \in SUBSET Slot
    PROVE  /\ Only(NthOf(S, 0)) = First(S)
           /\ NthOf(S, 0) = IF S = {} THEN {} ELSE {First(S)}
           /\ S # {} => First(S) \in S /\ \A r \in S : First(S) <= r
<1>1. CASE S = {}
  BY <1>1 DEF NthOf, Only, First
<1>2. CASE S # {}
  <2>1. NthOf(S, 0) # {}
    <3>1. ASSUME NthOf(S, 0) = {} PROVE FALSE
      <4>1. \A s \in S : Rank(S, s) < 0
        BY <3>1, RankGap
      <4>2. PICK s \in S : TRUE
        BY <1>2
      <4>3. Rank(S, s) \in Nat /\ Rank(S, s) < 0
        BY <4>1, RankOrder
      <4>4. QED
        BY <4>3
    <3>2. QED
      BY <3>1
  <2>2. PICK s \in NthOf(S, 0) : TRUE
    BY <2>1
  <2>3. NthOf(S, 0) = {s} /\ s \in S /\ Rank(S, s) = 0
    BY <2>2, NthUnique
  <2>4. ASSUME NEW r \in S PROVE s <= r
    <3>1. Rank(S, r) \in Nat /\ (r < s <=> Rank(S, r) < Rank(S, s))
      BY <2>3, RankOrder
    <3>2. r \in Nat /\ s \in Nat
      BY <2>3, ReaderAssumption DEF Slot
    <3>3. QED
      BY <2>3, <3>1, <3>2
  <2>5. \A x \in S : (\A r \in S : x <= r) => x = s
    <3>1. \A x \in S : x \in Nat
      BY ReaderAssumption DEF Slot
    <3>2. QED
      BY <2>3, <2>4, <3>1
  <2>6. First(S) = s
    <3>1. First(S) = CHOOSE x \in S : \A r \in S : x <= r
      BY <1>2 DEF First
    <3>2. QED
      BY <2>3, <2>4, <2>5, <3>1
  <2>7. Only(NthOf(S, 0)) = s
    BY <2>3 DEF Only
  <2>8. QED
    BY <1>2, <2>3, <2>4, <2>6, <2>7
<1>3. QED
  BY <1>1, <1>2

-----------------------------------------------------------------------------
(* Types.                                                                  *)

\* Only a started process has a command, and it begins with nothing listed.
CmdInv ==
    /\ pc = "idle" => cmd = [do |-> "TYPE", keys |-> <<>>]
    /\ pc # "idle" => cmd \in Commands
    /\ pc \in {"idle", "open", "read", "check"} => key = 1 /\ i = 0 /\ out = <<>>
    /\ pc = "done" => key = Len(Keys(cmd)) + 1
    /\ key = Len(Keys(cmd)) + 1 => i = 0

\* There is a file while it is written and while it is read.
FileInv ==
    /\ writing \/ pc = "read" => file # Absent
    /\ writing => begun # 0

TypeInv == ReaderTypeOK /\ CmdInv /\ FileInv

NoCommand == [do |-> "TYPE", keys |-> <<>>]

LEMMA KeysSeq ==
    ASSUME NEW c \in Commands \cup {NoCommand}
    PROVE  Keys(c) \in Seq(Nat) /\ Len(Keys(c)) \in Nat
<1>1. CASE c \in Commands /\ c.do = "ALL"
  <2>1. LAST_TYPE \in Nat
    BY ReaderAssumption
  <2>2. LAST_TYPE + 1 \in Nat /\ [k \in 1 .. LAST_TYPE + 1 |-> k - 1] \in [1 .. LAST_TYPE + 1 -> Nat]
    BY <2>1
  <2>3. Keys(c) \in Seq(Nat)
    BY <1>1, <2>2 DEF Keys
  <2>4. QED
    BY <2>3
<1>2. CASE c \in Commands /\ c.do # "ALL"
  <2>1. c.keys \in Seq(Nat) /\ Keys(c) = c.keys
    BY <1>2, CommandsAssumption DEF Keys
  <2>2. QED
    BY <2>1
<1>3. CASE c = NoCommand
  BY <1>3 DEF Keys, NoCommand
<1>4. QED
  BY <1>1, <1>2, <1>3

\* Whatever is in memory, a query that finds nothing gives 0, and one that
\* finds something a slot.
LEMMA NamedRange ==
    /\ \A handle : Named(handle) \in 0 .. NumRec
    /\ \A type, f, handle : FirstWith(type, f, handle) \in 0 .. NumRec
<1>1. NumRec \in Nat /\ 0 \in 0 .. NumRec /\ Slot \subseteq 0 .. NumRec
  BY ReaderAssumption DEF Slot
<1>2. \A T : T \subseteq 0 .. NumRec => Only(T) \in 0 .. NumRec
  BY <1>1 DEF Only
<1>3. \A S, n : NthOf(S, n) \subseteq S
  BY DEF NthOf
<1>4. ASSUME NEW handle PROVE Named(handle) \in 0 .. NumRec
  <2>1. ByHandle(handle) \subseteq Slot
    BY <1>3 DEF ByHandle
  <2>2. QED
    BY <1>1, <1>2, <2>1 DEF Named
<1>5. ASSUME NEW S PROVE Fetched(S) \subseteq 0 .. NumRec
  BY <1>4 DEF Fetched
<1>6. QED
  BY <1>2, <1>4, <1>5 DEF FirstWith

\* What is listed next is an entry, and no more records are listed for a key
\* than there are slots.
LEMMA FollowingTyped ==
    ASSUME cmd \in Commands, NEW k, NEW n \in 0 .. NumRec, NEW e \in Following(cmd, k, n)
    PROVE  e \in Entries(cmd) /\ n + 1 \in 0 .. NumRec
<1>1. cmd.do \in {"ALL", "TYPE", "MUX", "HANDLE", "DIMM"}
  BY CommandsAssumption
<1>2. NumRec \in Nat /\ NumRec >= 1 /\ n \in Nat
  BY ReaderAssumption
<1>3. ASSUME NEW S \in SUBSET Slot, NEW s \in NthOf(S, n)
      PROVE  s \in Slot /\ n + 1 \in 0 .. NumRec
  <2>1. s \in S /\ Rank(S, s) = n
    BY <1>3 DEF NthOf
  <2>2. n < Cardinality(S) /\ Cardinality(S) \in Nat /\ Cardinality(S) <= NumRec
    BY <2>1, RankOrder, SlotsFinite
  <2>3. QED
    BY <1>2, <2>1, <2>2
<1>4. \A t : OfTypeHere(t) \subseteq Slot
  BY DEF OfTypeHere
<1>5. CASE cmd.do \in {"ALL", "TYPE"}
  <2>1. e \in NthOf(OfTypeHere(k), n)
    BY <1>5 DEF Following, ByTypeAndPosition
  <2>2. QED
    BY <1>3, <1>4, <1>5, <2>1 DEF Entries
<1>6. CASE cmd.do = "MUX"
  <2>1. e \in NthOf(OfTypeHere(TYPE_MUX), n)
    BY <1>6 DEF Following, ByTypeAndPosition
  <2>2. QED
    BY <1>3, <1>4, <1>6, <2>1 DEF Entries
<1>7. CASE cmd.do = "HANDLE"
  <2>1. e \in ByHandle(k) /\ n = 0
    BY <1>7 DEF Following
  <2>2. e \in Slot
    BY <2>1 DEF ByHandle, NthOf
  <2>3. QED
    BY <1>2, <1>7, <2>1, <2>2 DEF Entries
<1>8. CASE cmd.do = "DIMM"
  <2>1. e \in smbios_get_module(k, n)
    BY <1>8 DEF Following
  <2>2. PICK s \in NthOf(Modules(k), n) : e = Composite(Named(Index(s).handle))
    BY <2>1 DEF smbios_get_module, Fetched
  <2>3. Modules(k) \in SUBSET Slot
    BY <1>4 DEF Modules
  <2>4. n + 1 \in 0 .. NumRec
    BY <1>3, <2>2, <2>3
  <2>5. e \in [{"t227", "t17", "t4", "t202", "t197"} -> 0 .. NumRec]
    BY <2>2, NamedRange DEF Composite
  <2>6. QED
    BY <1>8, <2>4, <2>5 DEF Entries
<1>9. QED
  BY <1>1, <1>5, <1>6, <1>7, <1>8

TablesHere == DOMAIN Tables = 1 .. Len(Tables) /\ Len(Tables) \in Nat /\ Empty = Len(Tables) + 1

LEMMA TablesDomain == TablesHere
BY ReaderAssumption DEF TablesHere, Empty

\* A step of the daemon.
LEMMA TypeDaemon ==
    ASSUME TypeInv, WriteBegin \/ WritePage \/ WriteEnd
    PROVE  TypeInv'
<1>1. UNCHANGED <<pc, rpos, mem, writecount, junk, cmd, key, i, out>>
  BY DEF WriteBegin, WritePage, WriteEnd, OnlyFile, listing
<1>2. seen' \in {-1, seen}
  BY DEF WriteBegin, WritePage, WriteEnd, Disturb
<1>3. TablesHere /\ Pages \in Nat
  BY TablesDomain, PageRange
<1>4. /\ file' = Absent \/ (file' \in Seq(DOMAIN Tables) /\ Len(file') <= Pages)
      /\ begun' \in 0 .. Len(Tables) /\ writing' \in BOOLEAN
      /\ FileInv'
  <2>1. CASE WriteBegin
    <3>1. <<>> \in Seq(DOMAIN Tables) /\ Len(<<>>) <= Pages
      BY <1>3
    <3>2. <<>> # Absent
      BY <3>1, ReaderAssumption
    <3>3. begun' \in 0 .. Len(Tables) /\ begun' # 0
      BY <1>3, <2>1 DEF WriteBegin, TypeInv, ReaderTypeOK, TablesHere
    <3>4. QED
      BY <1>1, <2>1, <3>1, <3>2, <3>3 DEF WriteBegin, FileInv
  <2>2. CASE WritePage
    <3>1. file # Absent /\ begun # 0 /\ begun \in 0 .. Len(Tables)
      BY <2>2 DEF WritePage, TypeInv, FileInv, ReaderTypeOK
    <3>2. file \in Seq(DOMAIN Tables) /\ Len(file) < Pages /\ begun \in DOMAIN Tables
      BY <1>3, <2>2, <3>1 DEF WritePage, TypeInv, ReaderTypeOK, TablesHere
    <3>3. Append(file, begun) \in Seq(DOMAIN Tables) /\ Len(Append(file, begun)) <= Pages
      BY <1>3, <3>2
    <3>4. Append(file, begun) # Absent
      BY <3>3, ReaderAssumption
    <3>5. QED
      BY <1>1, <2>2, <3>1, <3>3, <3>4 DEF WritePage, FileInv
  <2>3. CASE WriteEnd
    BY <1>1, <2>3 DEF WriteEnd, TypeInv, FileInv, ReaderTypeOK
  <2>4. QED
    BY <2>1, <2>2, <2>3
<1>5. CmdInv'
  BY <1>1 DEF TypeInv, CmdInv, Keys
<1>6. seen' \in -1 .. Len(Tables)
  BY <1>2, <1>3 DEF TypeInv, ReaderTypeOK, TablesHere
<1>7. ReaderTypeOK'
  BY <1>1, <1>4, <1>6 DEF TypeInv, ReaderTypeOK, Keys, Entries
<1>8. QED
  BY <1>4, <1>5, <1>7 DEF TypeInv

LEMMA WholeTyped ==
    /\ DefaultTable \in [1 .. Pages -> 0 .. Empty]
    /\ Whole(0) \in [1 .. Pages -> 0 .. Empty]
    /\ \A k \in 0 .. Empty : Whole(k) \in [1 .. Pages -> 0 .. Empty]
BY TablesDomain DEF TablesHere, DefaultTable, Whole

\* A step of loading.
LEMMA TypeLoad ==
    ASSUME TypeInv, (\E c \in Commands : Start(c)) \/ Open \/ ReadPage \/ EndRead \/ Check
    PROVE  TypeInv'
<1>1. UNCHANGED daemon
  BY DEF Start, Open, ReadPage, EndRead, Check
<1>2. TablesHere /\ Pages \in Nat /\ Pages >= 4
  BY TablesDomain, PageRange
<1>3. FileInv'
  BY <1>1 DEF Start, Open, ReadPage, EndRead, Check, TypeInv, FileInv, daemon
<1>4. CASE \E c \in Commands : Start(c)
  <2>1. PICK c \in Commands : Start(c)
    BY <1>4
  <2>2. Len(Keys(c)) \in Nat
    BY KeysSeq
  <2>3. CmdInv'
    BY <2>1, <2>2 DEF Start, CmdInv, Keys
  <2>4. mem' \in [1 .. Pages -> 0 .. Empty]
    BY <2>1, WholeTyped DEF Start
  <2>5. key' \in 1 .. Len(Keys(cmd')) + 1 /\ i' \in 0 .. NumRec
    BY <2>1, <2>2, ReaderAssumption DEF Start
  <2>6. rpos' \in 1 .. Pages + 1 /\ seen' \in -1 .. Len(Tables)
    BY <1>2, <2>1 DEF Start, TablesHere
  <2>7. ReaderTypeOK'
    <3>1. out' \in Seq(Entries(cmd'))
      BY <2>1 DEF Start
    <3>2. file = Absent \/ (file \in Seq(DOMAIN Tables) /\ Len(file) <= Pages)
      BY DEF TypeInv, ReaderTypeOK
    <3>3. /\ begun \in 0 .. Len(Tables) /\ writing \in BOOLEAN
          /\ pc' = "open" /\ writecount' = -1 /\ junk' = ZeroRow
      BY <2>1 DEF Start, TypeInv, ReaderTypeOK
    <3>4. (key \in 1 .. Len(Keys(cmd)) + 1)' /\ (i \in 0 .. NumRec)' /\ (out \in Seq(Entries(cmd)))'
      BY <2>1, <2>5, <3>1 DEF Start, Keys, Entries
    <3>5. QED
      BY <1>1, <2>4, <2>6, <3>2, <3>3, <3>4 DEF ReaderTypeOK, daemon
  <2>8. QED
    BY <1>3, <2>3, <2>7 DEF TypeInv
<1>5. CASE Open \/ ReadPage \/ EndRead \/ Check
  <2>1. UNCHANGED listing /\ pc \notin {"idle", "done"} /\ pc' \in {"read", "check", "list"}
    BY <1>5 DEF Open, ReadPage, EndRead, Check
  <2>2. CmdInv'
    BY <1>5, <2>1 DEF Open, ReadPage, EndRead, Check, TypeInv, CmdInv, listing, Keys
  <2>3. /\ rpos' \in 1 .. Pages + 1
        /\ mem' \in [1 .. Pages -> 0 .. Empty]
        /\ writecount' \in {-1, 0}
        /\ junk' \in Garbage \cup {ZeroRow}
        /\ seen' \in -1 .. Len(Tables)
    <3>1. CASE Open
      <4>1. seen' \in -1 .. Len(Tables)
        <5>1. CASE \E k \in DOMAIN Tables : file = Whole(k)
          <6>1. PICK k \in DOMAIN Tables : file = Whole(k)
            BY <5>1
          <6>2. file[1] = k
            BY <1>2, <6>1 DEF Whole
          <6>3. k \in -1 .. Len(Tables)
            BY <1>2 DEF TablesHere
          <6>4. QED
            BY <3>1, <6>1, <6>2, <6>3 DEF Open, TypeInv, ReaderTypeOK
        <5>2. CASE ~ \E k \in DOMAIN Tables : file = Whole(k)
          BY <1>2, <3>1, <5>2 DEF Open, TypeInv, ReaderTypeOK, TablesHere
        <5>3. QED
          BY <5>1, <5>2
      <4>2. mem' \in [1 .. Pages -> 0 .. Empty]
        BY <3>1, WholeTyped DEF Open, TypeInv, ReaderTypeOK
      <4>3. QED
        BY <3>1, <4>1, <4>2 DEF Open, TypeInv, ReaderTypeOK
    <3>2. CASE ReadPage
      <4>1. file # Absent
        BY <3>2 DEF ReadPage, TypeInv, FileInv
      <4>2. file \in Seq(DOMAIN Tables) /\ Len(file) <= Pages /\ rpos \in 1 .. Pages + 1 /\ rpos <= Len(file)
        BY <3>2, <4>1 DEF ReadPage, TypeInv, ReaderTypeOK
      <4>3. Len(file) \in Nat /\ rpos \in 1 .. Len(file)
        BY <1>2, <4>2
      <4>4. file[rpos] \in DOMAIN Tables /\ rpos + 1 \in 1 .. Pages + 1
        BY <1>2, <4>2, <4>3
      <4>5. file[rpos] \in 0 .. Empty
        BY <1>2, <4>4 DEF TablesHere
      <4>6. mem' \in [1 .. Pages -> 0 .. Empty]
        BY <3>2, <4>5 DEF ReadPage, TypeInv, ReaderTypeOK
      <4>7. QED
        BY <3>2, <4>4, <4>6 DEF ReadPage, TypeInv, ReaderTypeOK
    <3>3. CASE EndRead
      BY <3>3, WholeTyped DEF EndRead, TypeInv, ReaderTypeOK
    <3>4. CASE Check
      BY <3>4, WholeTyped DEF Check, TypeInv, ReaderTypeOK
    <3>5. QED
      BY <1>5, <3>1, <3>2, <3>3, <3>4
  <2>4. ReaderTypeOK'
    BY <1>1, <2>1, <2>3 DEF TypeInv, ReaderTypeOK, daemon, listing, Keys, Entries
  <2>5. QED
    BY <1>3, <2>2, <2>4 DEF TypeInv
<1>6. QED
  BY <1>4, <1>5

\* A step of listing.
LEMMA TypeList ==
    ASSUME TypeInv, ListRecord \/ NextKey \/ Exit
    PROVE  TypeInv'
<1>1. UNCHANGED <<daemon, loading, cmd>> /\ pc = "list" /\ cmd \in Commands
  BY DEF ListRecord, NextKey, Exit, AtKey, TypeInv, CmdInv, listing
<1>2. FileInv' /\ pc' \in {"list", "done"}
  BY <1>1 DEF ListRecord, NextKey, Exit, TypeInv, FileInv, daemon
<1>3. Len(Keys(cmd)) \in Nat /\ key \in 1 .. Len(Keys(cmd)) + 1 /\ i \in 0 .. NumRec /\ NumRec \in Nat
  BY <1>1, KeysSeq, ReaderAssumption DEF TypeInv, ReaderTypeOK
<1>4. /\ key' \in 1 .. Len(Keys(cmd)) + 1 /\ i' \in 0 .. NumRec /\ out' \in Seq(Entries(cmd))
      /\ key' = Len(Keys(cmd)) + 1 => i' = 0
      /\ pc' = "done" => key' = Len(Keys(cmd)) + 1
  <2>1. CASE ListRecord
    <3>1. PICK e \in Following(cmd, Keys(cmd)[key], i) : out' = Append(out, e)
      BY <2>1 DEF ListRecord
    <3>2. e \in Entries(cmd) /\ i + 1 \in 0 .. NumRec
      BY <1>1, <1>3, <3>1, FollowingTyped
    <3>3. out' \in Seq(Entries(cmd))
      BY <3>1, <3>2 DEF TypeInv, ReaderTypeOK
    <3>4. key < Len(Keys(cmd)) + 1
      BY <1>3, <2>1 DEF ListRecord, AtKey
    <3>5. QED
      BY <1>1, <1>3, <2>1, <3>2, <3>3, <3>4 DEF ListRecord
  <2>2. CASE NextKey
    <3>1. key + 1 \in 1 .. Len(Keys(cmd)) + 1
      BY <1>3, <2>2 DEF NextKey, AtKey
    <3>2. QED
      BY <1>1, <1>3, <2>2, <3>1 DEF NextKey, TypeInv, ReaderTypeOK
  <2>3. CASE Exit
    <3>1. key = Len(Keys(cmd)) + 1
      BY <1>3, <2>3 DEF Exit
    <3>2. QED
      BY <1>1, <1>3, <2>3, <3>1 DEF Exit, TypeInv, ReaderTypeOK, CmdInv, listing
  <2>4. QED
    BY <2>1, <2>2, <2>3
<1>5. CmdInv'
  BY <1>1, <1>2, <1>4 DEF CmdInv, Keys
<1>6. ReaderTypeOK'
  BY <1>1, <1>2, <1>4 DEF TypeInv, ReaderTypeOK, daemon, loading, Keys, Entries
<1>7. QED
  BY <1>2, <1>5, <1>6 DEF TypeInv

LEMMA TypeInit == Init => TypeInv
<1> SUFFICES ASSUME Init PROVE TypeInv
  OBVIOUS
<1>1. TablesHere /\ Pages \in Nat /\ Pages >= 4
  BY TablesDomain, PageRange
<1>2. cmd = NoCommand /\ Len(Keys(cmd)) \in Nat
  BY KeysSeq DEF Init, NoCommand
<1>3. CmdInv
  BY <1>2 DEF Init, CmdInv
<1>4. FileInv
  BY DEF Init, FileInv
<1>5. /\ file = Absent \/ (file \in Seq(DOMAIN Tables) /\ Len(file) <= Pages)
      /\ begun \in 0 .. Len(Tables)
  <2>1. CASE file = Absent
    BY <1>1, <2>1 DEF Init, TablesHere
  <2>2. CASE file # Absent
    <3>1. PICK k \in DOMAIN Tables : k = 1 /\ file = Whole(k)
      BY <2>2 DEF Init
    <3>2. file \in [1 .. Pages -> DOMAIN Tables]
      BY <3>1 DEF Whole
    <3>3. file \in Seq(DOMAIN Tables) /\ Len(file) = Pages
      BY <1>1, <3>2
    <3>4. begun = 1 /\ 1 \in 0 .. Len(Tables)
      BY <1>1, <2>2, <3>1 DEF Init, TablesHere
    <3>5. QED
      BY <1>1, <3>3, <3>4
  <2>3. QED
    BY <2>1, <2>2
<1>6. mem \in [1 .. Pages -> 0 .. Empty]
  BY WholeTyped DEF Init
<1>7. key \in 1 .. Len(Keys(cmd)) + 1 /\ i \in 0 .. NumRec
  BY <1>2, ReaderAssumption DEF Init
<1>8. ReaderTypeOK
  <2>1. out \in Seq(Entries(cmd))
    BY DEF Init
  <2>2. rpos \in 1 .. Pages + 1 /\ seen \in -1 .. Len(Tables)
    BY <1>1 DEF Init, TablesHere
  <2>3. /\ writing \in BOOLEAN /\ pc \in {"idle", "open", "read", "check", "list", "done"}
        /\ writecount \in {-1, 0} /\ junk \in Garbage \cup {ZeroRow}
    BY DEF Init
  <2>4. QED
    BY <1>5, <1>6, <1>7, <2>1, <2>2, <2>3 DEF ReaderTypeOK
<1>9. QED
  BY <1>3, <1>4, <1>8 DEF TypeInv

LEMMA TypeStep == TypeInv /\ [Next]_vars => TypeInv'
<1>1. CASE UNCHANGED vars
  BY <1>1 DEF TypeInv, ReaderTypeOK, CmdInv, FileInv, vars, daemon, loading, listing, Keys, Entries
<1>2. QED
  BY <1>1, TypeDaemon, TypeLoad, TypeList DEF Next, Process

\* The state of the process and of the file keep their types, for every size of
\* the table, number of tables and commands: smbios_cfg_read() stays inside
\* smbios_db, and a listing ends within the table, whatever was torn from what.
THEOREM ReaderTypes == Spec => []ReaderTypeOK
<1>1. Spec => []TypeInv
  BY TypeInit, TypeStep, PTL DEF Spec
<1>2. TypeInv => ReaderTypeOK
  BY DEF TypeInv
<1>3. QED
  BY <1>1, <1>2, PTL

-----------------------------------------------------------------------------
(* Loading.                                                                *)

\* What is to be in memory of the one table the file held.
Expected == IF seen > 0 /\ Tables[seen].ours THEN Whole(seen) ELSE DefaultTable

LoadInv ==
    /\ pc = "open" => mem = Whole(0) /\ rpos = 1 /\ seen = 0
    /\ pc = "read" /\ seen # -1 =>
          /\ seen \in DOMAIN Tables /\ file = Whole(seen)
          /\ mem = [p \in 1 .. Pages |-> IF p < rpos THEN seen ELSE 0]
    /\ pc = "check" /\ seen # -1 => mem = Expected
    /\ ReadsLastWritten

\* What the tables are made of.
RowTypes(k) ==
    \A s \in Slot :
        LET r == Tables[k].rows[s]
        IN  /\ r.type \in Nat /\ r.handle \in Nat /\ r.length \in Nat
            /\ r.hlen \in Nat /\ r.kind \in Nat /\ r.h17 \in Nat /\ r.h4 \in Nat

LEMMA RowsTyped ==
    ASSUME NEW k \in DOMAIN Tables
    PROVE  Tables[k].ours \in BOOLEAN /\ RowTypes(k)
<1> DEFINE R == [RowFields -> Nat]
           T == [ours : BOOLEAN, rows : [Slot -> R]]
<1>1. Tables \in Seq(T)
  BY ReaderAssumption
<1> HIDE DEF T
<1>2. Tables[k] \in T
  BY <1>1
<1> USE DEF T
<1> HIDE DEF R
<1>3. Tables[k].ours \in BOOLEAN /\ \A s \in Slot : Tables[k].rows[s] \in R
  BY <1>2
<1>4. \A r \in R : /\ r.type \in Nat /\ r.handle \in Nat /\ r.length \in Nat
                  /\ r.hlen \in Nat /\ r.kind \in Nat /\ r.h17 \in Nat /\ r.h4 \in Nat
  BY DEF R, RowFields
<1>5. QED
  BY <1>3, <1>4 DEF RowTypes

LEMMA WholePages ==
    /\ DefaultTable[1] = Empty /\ Ours(Empty)
    /\ \A k : /\ Whole(k)[1] = k
             /\ DOMAIN Whole(k) = 1 .. Pages /\ Len(Whole(k)) = Pages
    /\ \A k \in DOMAIN Tables : Ours(k) = Tables[k].ours /\ k > 0 /\ k # -1 /\ k \in Nat
<1>1. Pages \in Nat /\ Pages >= 4 /\ 1 \in 1 .. Pages
  BY PageRange
<1>2. TablesHere
  BY TablesDomain
<1>3. DefaultTable[1] = Empty /\ Ours(Empty)
  BY <1>1 DEF DefaultTable, Ours
<1>4. ASSUME NEW k
      PROVE  Whole(k)[1] = k /\ DOMAIN Whole(k) = 1 .. Pages /\ Len(Whole(k)) = Pages
  <2>1. Whole(k)[1] = k /\ DOMAIN Whole(k) = 1 .. Pages
    BY <1>1 DEF Whole
  <2>2. Whole(k) \in [1 .. Pages -> {k}]
    BY DEF Whole
  <2>3. Whole(k) \in Seq({k})
    BY <1>1, <2>2
  <2>4. QED
    BY <1>1, <2>1, <2>3
<1>5. ASSUME NEW k \in DOMAIN Tables
      PROVE  Ours(k) = Tables[k].ours /\ k > 0 /\ k # -1 /\ k \in Nat
  <2>1. k \in 1 .. Len(Tables) /\ k # Empty /\ Len(Tables) \in Nat
    BY <1>2 DEF TablesHere
  <2>2. Tables[k].ours \in BOOLEAN
    BY RowsTyped
  <2>3. Ours(k) = Tables[k].ours
    BY <2>1, <2>2 DEF Ours
  <2>4. QED
    BY <2>1, <2>3
<1>6. QED
  BY <1>3, <1>4, <1>5

\* What is read while the daemon lets go of the file is the table in it; what
\* is written meanwhile makes it none.
LEMMA LoadStep == TypeInv /\ LoadInv /\ [Next]_vars => LoadInv'
<1> SUFFICES ASSUME TypeInv, LoadInv, [Next]_vars PROVE LoadInv'
  OBVIOUS
<1>1. Pages \in Nat /\ Pages >= 4
  BY PageRange
<1>2. CASE UNCHANGED vars
  BY <1>2 DEF LoadInv, ReadsLastWritten, Loaded, Expected, vars, daemon, loading, listing
<1>3. CASE WriteBegin \/ WritePage
  <2>1. UNCHANGED <<pc, rpos, mem>> /\ seen' = IF pc = "read" THEN -1 ELSE seen
    BY <1>3 DEF WriteBegin, WritePage, OnlyFile, Disturb
  <2>2. QED
    BY <2>1 DEF LoadInv, ReadsLastWritten, Loaded, Expected
<1>4. CASE WriteEnd
  BY <1>4 DEF WriteEnd, OnlyFile, LoadInv, ReadsLastWritten, Loaded, Expected
<1>5. CASE \E c \in Commands : Start(c)
  BY <1>5 DEF Start, LoadInv, ReadsLastWritten, Loaded, Expected
<1>6. CASE Open
  <2>1. CASE file = Absent
    BY <1>6, <2>1 DEF Open, LoadInv, ReadsLastWritten, Loaded, Expected
  <2>2. CASE file # Absent
    <3>1. pc' = "read" /\ UNCHANGED <<mem, rpos, file>> /\ mem = Whole(0) /\ rpos = 1
      BY <1>6, <2>2 DEF Open, LoadInv, daemon
    <3>2. CASE \E k \in DOMAIN Tables : file = Whole(k)
      <4>1. PICK k \in DOMAIN Tables : file = Whole(k)
        BY <3>2
      <4>2. seen' = file[1]
        BY <1>6, <2>2, <3>2 DEF Open
      <4>3. seen' = k
        BY <4>1, <4>2, WholePages
      <4>4. [p \in 1 .. Pages |-> IF p < 1 THEN k ELSE 0] = Whole(0)
        BY <1>1 DEF Whole
      <4>5. QED
        BY <3>1, <4>1, <4>3, <4>4 DEF LoadInv, ReadsLastWritten, Loaded
    <3>3. CASE ~ \E k \in DOMAIN Tables : file = Whole(k)
      <4>1. seen' = -1
        BY <1>6, <2>2, <3>3 DEF Open
      <4>2. QED
        BY <3>1, <4>1 DEF LoadInv, ReadsLastWritten, Loaded
    <3>4. QED
      BY <3>2, <3>3
  <2>3. QED
    BY <2>1, <2>2
<1>7. CASE ReadPage
  <2>1. pc = "read" /\ pc' = "read" /\ UNCHANGED <<seen, file>> /\ rpos' = rpos + 1
        /\ mem' = [mem EXCEPT ![rpos] = file[rpos]] /\ rpos <= Len(file)
    BY <1>7 DEF ReadPage, daemon
  <2>2. CASE seen = -1
    BY <2>1, <2>2 DEF LoadInv, ReadsLastWritten, Loaded
  <2>3. CASE seen # -1
    <3>1. /\ seen \in DOMAIN Tables /\ file = Whole(seen)
          /\ mem = [p \in 1 .. Pages |-> IF p < rpos THEN seen ELSE 0]
      BY <2>1, <2>3 DEF LoadInv
    <3>2. rpos \in 1 .. Pages
      BY <1>1, <2>1, <3>1, WholePages DEF TypeInv, ReaderTypeOK
    <3>3. file[rpos] = seen
      BY <3>1, <3>2 DEF Whole
    <3>4. mem' = [p \in 1 .. Pages |-> IF p < rpos + 1 THEN seen ELSE 0]
      BY <1>1, <2>1, <3>1, <3>2, <3>3
    <3>5. QED
      BY <2>1, <3>1, <3>4 DEF LoadInv, ReadsLastWritten, Loaded
  <2>4. QED
    BY <2>2, <2>3
<1>8. CASE EndRead
  <2>1. pc = "read" /\ pc' = "check" /\ UNCHANGED seen /\ rpos > Len(file)
        /\ mem' = IF rpos > Pages /\ ~Ours(mem[1]) THEN DefaultTable ELSE mem
    BY <1>8 DEF EndRead
  <2>2. CASE seen = -1
    BY <2>1, <2>2 DEF LoadInv, ReadsLastWritten, Loaded
  <2>3. CASE seen # -1
    <3>1. /\ seen \in DOMAIN Tables /\ file = Whole(seen)
          /\ mem = [p \in 1 .. Pages |-> IF p < rpos THEN seen ELSE 0]
      BY <2>1, <2>3 DEF LoadInv
    <3>2. rpos > Pages /\ rpos \in Nat
      BY <1>1, <2>1, <3>1, WholePages DEF TypeInv, ReaderTypeOK
    <3>3. mem = Whole(seen)
      BY <1>1, <3>1, <3>2 DEF Whole
    <3>4. mem[1] = seen /\ Ours(seen) = Tables[seen].ours /\ seen > 0
      BY <3>1, <3>3, WholePages
    <3>5. mem' = Expected
      BY <2>1, <3>2, <3>3, <3>4 DEF Expected
    <3>6. QED
      BY <2>1, <3>5 DEF LoadInv, ReadsLastWritten, Loaded, Expected
  <2>4. QED
    BY <2>2, <2>3
<1>9. CASE Check
  <2>1. pc = "check" /\ pc' = "list" /\ UNCHANGED seen
        /\ mem' = IF Ours(mem[1]) THEN mem ELSE DefaultTable
    BY <1>9 DEF Check
  <2>2. CASE seen = -1
    BY <2>1, <2>2 DEF LoadInv, ReadsLastWritten, Loaded
  <2>3. CASE seen # -1
    <3>1. mem = Expected
      BY <2>1, <2>3 DEF LoadInv
    <3>2. seen \in 0 .. Len(Tables)
      BY <2>3, TablesDomain DEF TypeInv, ReaderTypeOK, TablesHere
    <3>3. Ours(mem[1])
      <4>1. CASE seen > 0 /\ Tables[seen].ours
        <5>1. seen \in DOMAIN Tables /\ mem = Whole(seen)
          BY <3>1, <3>2, <4>1, TablesDomain DEF TablesHere, Expected
        <5>2. QED
          BY <4>1, <5>1, WholePages
      <4>2. CASE ~ (seen > 0 /\ Tables[seen].ours)
        BY <3>1, <4>2, WholePages DEF Expected
      <4>3. QED
        BY <4>1, <4>2
    <3>4. QED
      BY <2>1, <3>1, <3>3 DEF LoadInv, ReadsLastWritten, Loaded, Expected
  <2>4. QED
    BY <2>2, <2>3
<1>10. CASE ListRecord \/ NextKey \/ Exit
  <2>1. UNCHANGED <<file, rpos, mem, seen>> /\ pc = "list" /\ pc' \in {"list", "done"}
    BY <1>10 DEF ListRecord, NextKey, Exit, AtKey, daemon, loading
  <2>2. QED
    BY <2>1 DEF LoadInv, ReadsLastWritten, Loaded, Expected
<1>11. QED
  BY <1>2, <1>3, <1>4, <1>5, <1>6, <1>7, <1>8, <1>9, <1>10 DEF Next, Process

\* A process that reads the file while nothing is written to it has the table
\* last written in memory, for tables and files of every size, and an empty one
\* where there was no file or one of another version.
THEOREM LastWrittenRead == Spec => []ReadsLastWritten
<1>1. Init => LoadInv
  BY DEF Init, LoadInv, ReadsLastWritten, Loaded
<1>2. Spec => []LoadInv
  BY <1>1, TypeInit, TypeStep, LoadStep, PTL DEF Spec
<1>3. LoadInv => ReadsLastWritten
  BY DEF LoadInv
<1>4. QED
  BY <1>2, <1>3, PTL

-----------------------------------------------------------------------------
(* Listing, from a table read in one piece.                                *)

Listing == pc \in {"list", "done"} /\ seen > 0 /\ Tables[seen].ours

\* The slots of a set before which there are fewer than n of it.
Under(S, n) == {s \in S : Rank(S, s) < n}

\* The keys dealt with, and the one that is being listed.
KeysDone(K, ky) == {K[j] : j \in 1 .. ky - 1}
KeyHere(K, ky)  == {K[j] : j \in {ky} \cap DOMAIN K}

Printed(o) == {o[a] : a \in DOMAIN o}

\* Types in their order, and each in the table's.
Precedes(k, r, s) ==
    \/ Tables[k].rows[r].type < Tables[k].rows[s].type
    \/ Tables[k].rows[r].type = Tables[k].rows[s].type /\ r < s

InOrder(k, o) == \A a, b \in DOMAIN o : a < b => Precedes(k, o[a], o[b])

TypesListed(k, K, o, ky, n) ==
    /\ InOrder(k, o)
    /\ Printed(o) = (UNION {ListedOf(k, t, BUF_SIZE) : t \in KeysDone(K, ky)})
                        \cup UNION {Under(OfType(k, t), n) : t \in KeyHere(K, ky)}
    /\ \A t \in KeyHere(K, ky) : \A s \in Under(OfType(k, t), n) : Shown(k, s, BUF_SIZE)

MuxListed(k, o, ky, n) ==
    /\ InOrder(k, o)
    /\ ky = 1 =>
          /\ Len(o) = n /\ n <= N_MUX
          /\ Printed(o) = Under(OfType(k, TYPE_MUX), n)
          /\ \A s \in Printed(o) : Shown(k, s, MUX_SIZE)
    /\ ky = 2 =>
          /\ Len(o) <= N_MUX
          /\ Printed(o) = {s \in ListedOf(k, TYPE_MUX, MUX_SIZE) : Len(o) < N_MUX \/ s <= o[N_MUX]}

WithHandle(k, h) == {r \in Kept(k) : Tables[k].rows[r].handle = h}

HandleListed(k, h, o, ky, n) ==
    LET s == First(WithHandle(k, h))
        found == s # 0 /\ Tables[k].rows[s].length <= BUF_SIZE
    IN  /\ n \in {0, 1}
        /\ ky = 1 => o = (IF n = 0 THEN <<>> ELSE <<s>>) /\ (n = 1 => found)
        /\ ky = 2 => o = IF found THEN <<s>> ELSE <<>>

ListInv == Listing =>
    /\ cmd.do \in {"ALL", "TYPE"} => TypesListed(seen, Keys(cmd), out, key, i)
    /\ cmd.do = "MUX" => MuxListed(seen, out, key, i)
    /\ cmd.do = "HANDLE" => HandleListed(seen, cmd.keys[1], out, key, i)

\* The maps of a kind.
MapsOf(k, kd) == {s \in OfType(k, TYPE_DIMM_I2C) : Tables[k].rows[s].kind = kd}

\* A line is put together from the records its map names.
Joined(k, e) ==
    LET rows == Tables[k].rows
        m    == rows[e.t227]
    IN  /\ e.t17 = First(WithHandle(k, m.h17)) /\ e.t4 = First(WithHandle(k, m.h4))
        /\ e.t202 = First({r \in OfType(k, TYPE_MEM_LOC) : rows[r].h17 = m.h17})
        /\ e.t197 = First({r \in OfType(k, TYPE_CPQ_PROC) : rows[r].h4 = m.h4})

ModulesListed(k, K, o, ky, n) ==
    /\ {o[a].t227 : a \in DOMAIN o} =
          (UNION {MapsOf(k, kd) : kd \in KeysDone(K, ky)})
              \cup UNION {Under(MapsOf(k, kd), n) : kd \in KeyHere(K, ky)}
    /\ \A a, b \in DOMAIN o : o[a].t227 = o[b].t227 => a = b
    /\ \A a \in DOMAIN o : Joined(k, o[a])

JoinInv == Listing /\ cmd.do = "DIMM" /\ UniqueHandles(seen) =>
               ModulesListed(seen, Keys(cmd), out, key, i)

-----------------------------------------------------------------------------
(* Listings grow by the next slot of a set.                                *)

LEMMA PrintedMore ==
    ASSUME NEW E, NEW o \in Seq(E), NEW e \in E
    PROVE  /\ Len(o) \in Nat /\ Len(Append(o, e)) = Len(o) + 1
           /\ DOMAIN o = 1 .. Len(o) /\ DOMAIN Append(o, e) = 1 .. Len(o) + 1
           /\ \A a \in 1 .. Len(o) : Append(o, e)[a] = o[a]
           /\ Append(o, e)[Len(o) + 1] = e
           /\ Printed(Append(o, e)) = Printed(o) \cup {e}
<1>1. Len(o) \in Nat /\ Len(Append(o, e)) = Len(o) + 1
  OBVIOUS
<1>2. DOMAIN o = 1 .. Len(o) /\ DOMAIN Append(o, e) = 1 .. Len(o) + 1
  OBVIOUS
<1>3. \A a \in 1 .. Len(o) : Append(o, e)[a] = o[a]
  OBVIOUS
<1>4. Append(o, e)[Len(o) + 1] = e
  OBVIOUS
<1> DEFINE p == Append(o, e)
<1>5. p[Len(o) + 1] = e /\ DOMAIN p = 1 .. Len(o) + 1 /\ \A a \in 1 .. Len(o) : p[a] = o[a]
  BY <1>2, <1>3, <1>4
<1> HIDE DEF p
<1>6. 1 .. Len(o) + 1 = (1 .. Len(o)) \cup {Len(o) + 1}
  BY <1>1
<1>7. Printed(p) = Printed(o) \cup {e}
  BY <1>2, <1>5, <1>6 DEF Printed
<1>8. QED
  BY <1>1, <1>2, <1>3, <1>4, <1>7 DEF p

\* The slot of rank n is the one that the slots under n + 1 have more than
\* those under n.
LEMMA UnderNext ==
    ASSUME NEW S \in SUBSET Slot, NEW n \in Nat, NEW s \in NthOf(S, n)
    PROVE  /\ Under(S, n + 1) = Under(S, n) \cup {s}
           /\ s \in S /\ s \notin Under(S, n)
           /\ \A r \in Under(S, n) : r < s
<1>1. NthOf(S, n) = {s} /\ s \in S /\ Rank(S, s) = n
  BY NthUnique
<1>2. \A r \in S : Rank(S, r) \in Nat /\ (r < s <=> Rank(S, r) < n)
  BY <1>1, RankOrder
<1>3. ASSUME NEW r \in S PROVE Rank(S, r) < n + 1 <=> Rank(S, r) < n \/ r = s
  <2>1. Rank(S, r) \in Nat /\ (r = s <=> Rank(S, r) = n)
    BY <1>1, RankOrder
  <2>2. QED
    BY <2>1
<1>4. Under(S, n + 1) = Under(S, n) \cup {s}
  BY <1>1, <1>3 DEF Under
<1>5. s \notin Under(S, n)
  BY <1>1 DEF Under
<1>6. \A r \in Under(S, n) : r < s
  BY <1>2 DEF Under
<1>7. QED
  BY <1>1, <1>4, <1>5, <1>6

LEMMA UnderNone == \A S \in SUBSET Slot : Under(S, 0) = {}
<1> SUFFICES ASSUME NEW S \in SUBSET Slot PROVE Under(S, 0) = {}
  OBVIOUS
<1>1. \A s \in S : Rank(S, s) \in Nat
  BY RankOrder
<1>2. QED
  BY <1>1 DEF Under

LEMMA TypeSlots ==
    ASSUME NEW k, NEW t
    PROVE  OfType(k, t) \in SUBSET Slot /\ WithHandle(k, t) \in SUBSET Slot
BY DEF OfType, WithHandle, Kept

\* Where the next record of a type does not fit, or there is none, what has been
\* listed is all there is to list of it.
LEMMA UnderListed ==
    ASSUME NEW k, NEW t, NEW sz, NEW n \in Nat,
           \A s \in Under(OfType(k, t), n) : Shown(k, s, sz),
           \A s \in NthOf(OfType(k, t), n) : ~ Shown(k, s, sz)
    PROVE  Under(OfType(k, t), n) = ListedOf(k, t, sz)
<1> DEFINE S == OfType(k, t)
<1>1. S \in SUBSET Slot
  BY TypeSlots
<1>2. /\ \A s \in Under(S, n) : Shown(k, s, sz)
      /\ \A s \in NthOf(S, n) : ~ Shown(k, s, sz)
  OBVIOUS
<1>3. ListedOf(k, t, sz) = {s \in S : \A r \in S : r <= s => Shown(k, r, sz)}
  BY DEF ListedOf
<1> HIDE DEF S
<1>4. \A s \in S : s \in Nat
  BY <1>1, ReaderAssumption DEF Slot
<1>5. ASSUME NEW s \in Under(S, n), NEW r \in S, r <= s
      PROVE  Shown(k, r, sz)
  <2>1. s \in S /\ Rank(S, s) < n
    BY <1>5 DEF Under
  <2>2. /\ Rank(S, r) \in Nat /\ Rank(S, s) \in Nat
        /\ s < r <=> Rank(S, s) < Rank(S, r)
    BY <1>1, <2>1, RankOrder
  <2>3. Rank(S, r) < n
    BY <1>4, <1>5, <2>1, <2>2
  <2>4. QED
    BY <1>2, <2>3 DEF Under
<1>6. ASSUME NEW s \in S, \A r \in S : r <= s => Shown(k, r, sz)
      PROVE  Rank(S, s) < n
  <2>1. CASE NthOf(S, n) = {}
    BY <1>1, <2>1, RankGap
  <2>2. CASE NthOf(S, n) # {}
    <3>1. PICK r \in NthOf(S, n) : TRUE
      BY <2>2
    <3>2. r \in S /\ Rank(S, r) = n /\ ~ Shown(k, r, sz)
      BY <1>1, <1>2, <3>1, NthUnique
    <3>3. ~ (r <= s)
      BY <1>6, <3>2
    <3>4. s < r
      BY <1>4, <3>2, <3>3
    <3>5. QED
      BY <1>1, <3>2, <3>4, RankOrder
  <2>3. QED
    BY <2>1, <2>2
<1>7. Under(S, n) = ListedOf(k, t, sz)
  BY <1>3, <1>5, <1>6 DEF Under
<1>8. QED
  BY <1>7 DEF S

Rising(K) == \A a, b \in 1 .. Len(K) : a < b => K[a] < K[b]

\* The keys before, at and after a place.
LEMMA KeysAt ==
    ASSUME NEW K \in Seq(Nat), NEW ky \in 1 .. Len(K)
    PROVE  /\ KeyHere(K, ky) = {K[ky]} /\ K[ky] \in Nat
           /\ KeysDone(K, ky + 1) = KeysDone(K, ky) \cup {K[ky]}
           /\ Rising(K) => \A t \in KeysDone(K, ky) : t \in Nat /\ t < K[ky]
<1>1. DOMAIN K = 1 .. Len(K) /\ Len(K) \in Nat
  OBVIOUS
<1>2. K[ky] \in Nat
  OBVIOUS
<1>3. KeyHere(K, ky) = {K[ky]}
  BY <1>1 DEF KeyHere
<1>4. 1 .. (ky + 1) - 1 = (1 .. ky - 1) \cup {ky}
  BY <1>1
<1>5. KeysDone(K, ky + 1) = KeysDone(K, ky) \cup {K[ky]}
  BY <1>4 DEF KeysDone
<1>6. ASSUME Rising(K), NEW t \in KeysDone(K, ky)
      PROVE  t \in Nat /\ t < K[ky]
  <2>1. PICK j \in 1 .. ky - 1 : t = K[j]
    BY DEF KeysDone
  <2>2. j \in 1 .. Len(K) /\ j < ky
    BY <1>1, <2>1
  <2>3. K[j] \in Nat
    BY <2>2
  <2>4. QED
    BY <1>6, <2>1, <2>2, <2>3 DEF Rising
<1>7. QED
  BY <1>2, <1>3, <1>5, <1>6

\* What has been listed is before what is listed next.
LEMMA OrderMore ==
    ASSUME NEW k \in DOMAIN Tables, NEW o \in Seq(Slot), NEW s \in Slot, InOrder(k, o),
           \A r \in Printed(o) : Precedes(k, r, s)
    PROVE  InOrder(k, Append(o, s))
<1> DEFINE p == Append(o, s)
<1>1. /\ Len(o) \in Nat /\ DOMAIN o = 1 .. Len(o) /\ DOMAIN p = 1 .. Len(o) + 1
      /\ \A a \in 1 .. Len(o) : p[a] = o[a]
      /\ p[Len(o) + 1] = s
  BY PrintedMore
<1>2. \A r \in Printed(o) : Precedes(k, r, s)
  OBVIOUS
<1>3. \A a, b \in DOMAIN o : a < b => Precedes(k, o[a], o[b])
  BY DEF InOrder
<1> HIDE DEF p
<1>4. ASSUME NEW a \in DOMAIN p, NEW b \in DOMAIN p, a < b
      PROVE  Precedes(k, p[a], p[b])
  <2>1. a \in 1 .. Len(o)
    BY <1>1, <1>4
  <2>2. CASE b \in 1 .. Len(o)
    BY <1>1, <1>3, <1>4, <2>1, <2>2
  <2>3. CASE b = Len(o) + 1
    <3>1. p[a] \in Printed(o) /\ p[b] = s
      BY <1>1, <2>1, <2>3 DEF Printed
    <3>2. QED
      BY <1>2, <3>1
  <2>4. QED
    BY <1>1, <2>2, <2>3
<1>5. InOrder(k, p)
  BY <1>4 DEF InOrder
<1>6. QED
  BY <1>5 DEF p

LEMMA TypesMore ==
    ASSUME NEW k \in DOMAIN Tables, NEW K \in Seq(Nat), Rising(K), NEW ky \in 1 .. Len(K),
           NEW o \in Seq(Slot), NEW n \in Nat, TypesListed(k, K, o, ky, n),
           NEW s \in NthOf(OfType(k, K[ky]), n), Shown(k, s, BUF_SIZE)
    PROVE  TypesListed(k, K, Append(o, s), ky, n + 1)
<1> DEFINE t == K[ky]
           S == OfType(k, t)
<1>1. /\ KeyHere(K, ky) = {t} /\ t \in Nat
      /\ \A u \in KeysDone(K, ky) : u \in Nat /\ u < t
  BY KeysAt
<1>2. S \in SUBSET Slot
  BY TypeSlots
<1>3. /\ Under(S, n + 1) = Under(S, n) \cup {s}
      /\ s \in S /\ \A r \in Under(S, n) : r < s
  BY <1>2, UnderNext
<1>4. s \in Slot /\ Tables[k].rows[s].type = t
  BY <1>3 DEF OfType, Kept
<1>5. /\ InOrder(k, o)
      /\ Printed(o) = (UNION {ListedOf(k, u, BUF_SIZE) : u \in KeysDone(K, ky)}) \cup Under(S, n)
      /\ \A r \in Under(S, n) : Shown(k, r, BUF_SIZE)
  BY <1>1 DEF TypesListed
<1>6. ASSUME NEW r \in Printed(o)
      PROVE  Precedes(k, r, s)
  <2>1. CASE r \in Under(S, n)
    BY <1>3, <1>4, <2>1 DEF Under, OfType, Precedes
  <2>2. CASE r \notin Under(S, n)
    <3>1. PICK u \in KeysDone(K, ky) : r \in ListedOf(k, u, BUF_SIZE)
      BY <1>5, <2>2
    <3>2. Tables[k].rows[r].type = u
      BY <3>1 DEF ListedOf, OfType
    <3>3. QED
      BY <1>1, <1>4, <3>1, <3>2 DEF Precedes
  <2>3. QED
    BY <2>1, <2>2
<1>7. InOrder(k, Append(o, s))
  BY <1>4, <1>5, <1>6, OrderMore
<1>8. Printed(Append(o, s)) = Printed(o) \cup {s}
  BY <1>4, PrintedMore
<1>9. \A r \in Under(S, n + 1) : Shown(k, r, BUF_SIZE)
  BY <1>3, <1>5
<1> HIDE DEF S
<1>10. UNION {Under(OfType(k, u), n + 1) : u \in KeyHere(K, ky)} = Under(S, n + 1)
  BY <1>1 DEF S
<1>11. \A u \in KeyHere(K, ky) : \A r \in Under(OfType(k, u), n + 1) : Shown(k, r, BUF_SIZE)
  BY <1>1, <1>9 DEF S
<1>12. QED
  BY <1>3, <1>5, <1>7, <1>8, <1>10, <1>11 DEF TypesListed

LEMMA TypesNext ==
    ASSUME NEW k \in DOMAIN Tables, NEW K \in Seq(Nat), NEW ky \in 1 .. Len(K),
           NEW o \in Seq(Slot), NEW n \in Nat, TypesListed(k, K, o, ky, n),
           \A s \in NthOf(OfType(k, K[ky]), n) : ~ Shown(k, s, BUF_SIZE)
    PROVE  TypesListed(k, K, o, ky + 1, 0)
<1> DEFINE t == K[ky]
           S == OfType(k, t)
           L(u) == ListedOf(k, u, BUF_SIZE)
<1>1. KeyHere(K, ky) = {t} /\ KeysDone(K, ky + 1) = KeysDone(K, ky) \cup {t}
  BY KeysAt
<1>2. /\ InOrder(k, o)
      /\ Printed(o) = (UNION {L(u) : u \in KeysDone(K, ky)}) \cup Under(S, n)
      /\ \A r \in Under(S, n) : Shown(k, r, BUF_SIZE)
  BY <1>1 DEF TypesListed
<1>3. Under(S, n) = L(t)
  BY <1>2, UnderListed
<1>4. \A u : Under(OfType(k, u), 0) = {}
  BY TypeSlots, UnderNone
<1> HIDE DEF L, t
<1>5. UNION {L(u) : u \in KeysDone(K, ky + 1)} = (UNION {L(u) : u \in KeysDone(K, ky)}) \cup L(t)
  BY <1>1
<1>6. Printed(o) = UNION {L(u) : u \in KeysDone(K, ky + 1)}
  BY <1>2, <1>3, <1>5
<1>7. UNION {Under(OfType(k, u), 0) : u \in KeyHere(K, ky + 1)} = {}
  BY <1>4
<1>8. QED
  BY <1>2, <1>4, <1>6, <1>7 DEF TypesListed, L

LEMMA TypesStart ==
    ASSUME NEW k, NEW K
    PROVE  TypesListed(k, K, <<>>, 1, 0)
<1>1. \A u : Under(OfType(k, u), 0) = {}
  BY TypeSlots, UnderNone
<1>2. KeysDone(K, 1) = {} /\ Printed(<<>>) = {} /\ InOrder(k, <<>>)
  BY DEF KeysDone, Printed, InOrder
<1>3. UNION {Under(OfType(k, u), 0) : u \in KeyHere(K, 1)} = {}
  BY <1>1
<1>4. QED
  BY <1>1, <1>2, <1>3 DEF TypesListed

LEMMA MuxMore ==
    ASSUME NEW k \in DOMAIN Tables, NEW o \in Seq(Slot), NEW n \in Nat, MuxListed(k, o, 1, n),
           NEW s \in NthOf(OfType(k, TYPE_MUX), n), n < N_MUX, Shown(k, s, MUX_SIZE)
    PROVE  MuxListed(k, Append(o, s), 1, n + 1)
<1> DEFINE S == OfType(k, TYPE_MUX)
<1>1. S \in SUBSET Slot
  BY TypeSlots
<1>2. /\ Under(S, n + 1) = Under(S, n) \cup {s}
      /\ s \in S /\ \A r \in Under(S, n) : r < s
  BY <1>1, UnderNext
<1>3. s \in Slot /\ Tables[k].rows[s].type = TYPE_MUX
  BY <1>2 DEF OfType, Kept
<1>4. /\ InOrder(k, o) /\ Len(o) = n
      /\ Printed(o) = Under(S, n) /\ \A r \in Printed(o) : Shown(k, r, MUX_SIZE)
  BY DEF MuxListed
<1>5. ASSUME NEW r \in Printed(o) PROVE Precedes(k, r, s)
  <2>1. r \in S /\ r < s
    BY <1>2, <1>4 DEF Under
  <2>2. Tables[k].rows[r].type = TYPE_MUX
    BY <2>1 DEF OfType
  <2>3. QED
    BY <1>3, <2>1, <2>2 DEF Precedes
<1>6. InOrder(k, Append(o, s))
  BY <1>3, <1>4, <1>5, OrderMore
<1>7. Printed(Append(o, s)) = Printed(o) \cup {s} /\ Len(Append(o, s)) = n + 1
  BY <1>3, <1>4, PrintedMore
<1>8. n + 1 <= N_MUX
  BY ReaderAssumption
<1> HIDE DEF S
<1>9. Printed(Append(o, s)) = Under(S, n + 1)
  BY <1>2, <1>4, <1>7
<1>10. \A r \in Printed(Append(o, s)) : Shown(k, r, MUX_SIZE)
  BY <1>4, <1>7
<1>11. QED
  BY <1>6, <1>7, <1>8, <1>9, <1>10 DEF MuxListed, S

LEMMA MuxNext ==
    ASSUME NEW k \in DOMAIN Tables, NEW o \in Seq(Slot), NEW n \in Nat, MuxListed(k, o, 1, n),
           \A s \in NthOf(OfType(k, TYPE_MUX), n) : ~ (n < N_MUX /\ Shown(k, s, MUX_SIZE))
    PROVE  MuxListed(k, o, 2, 0)
<1> DEFINE S == OfType(k, TYPE_MUX)
           L == ListedOf(k, TYPE_MUX, MUX_SIZE)
<1>1. S \in SUBSET Slot
  BY TypeSlots
<1>2. /\ InOrder(k, o) /\ Len(o) = n /\ n <= N_MUX
      /\ Printed(o) = Under(S, n) /\ \A r \in Printed(o) : Shown(k, r, MUX_SIZE)
  BY DEF MuxListed
<1>3. N_MUX \in Nat /\ N_MUX > 0
  BY ReaderAssumption
<1>4. Printed(o) = {s \in L : Len(o) < N_MUX \/ s <= o[N_MUX]}
  <2>1. CASE n < N_MUX
    <3>1. Under(S, n) = L
      BY <1>2, <2>1, UnderListed
    <3>2. QED
      BY <1>2, <2>1, <3>1
  <2>2. CASE n = N_MUX
    <3> DEFINE last == o[N_MUX]
    <3>1. N_MUX \in DOMAIN o /\ DOMAIN o = 1 .. N_MUX
      BY <1>2, <1>3, <2>2
    <3>2. last \in Under(S, n) /\ last \in S /\ Rank(S, last) < n
      BY <1>2, <3>1 DEF Printed, Under
    <3>3. \A s \in S : s \in Nat /\ Tables[k].rows[s].type = TYPE_MUX
      BY <1>1, ReaderAssumption DEF Slot, OfType
    <3>4. RowTypes(k)
      BY RowsTyped DEF RowTypes
    <3>5. ASSUME NEW r \in Printed(o) PROVE r \in S /\ r <= last
      <4>1. PICK a \in DOMAIN o : r = o[a]
        BY DEF Printed
      <4>2. r \in S /\ r \in Nat /\ last \in Nat
        BY <1>2, <3>2, <3>3 DEF Under
      <4>3. CASE a = N_MUX
        BY <4>1, <4>2, <4>3
      <4>4. CASE a # N_MUX
        <5>1. a < N_MUX
          BY <1>3, <3>1, <4>4
        <5>2. Precedes(k, r, last)
          BY <1>2, <3>1, <4>1, <5>1 DEF InOrder
        <5>3. Tables[k].rows[r].type = TYPE_MUX /\ Tables[k].rows[last].type = TYPE_MUX
          BY <3>2, <3>3, <4>2
        <5>4. TYPE_MUX \in Nat
          BY <1>1, <3>2, <3>4, <5>3 DEF RowTypes
        <5>5. r < last
          BY <5>2, <5>3, <5>4 DEF Precedes
        <5>6. QED
          BY <4>2, <5>5
      <4>5. QED
        BY <4>3, <4>4
    <3>6. ASSUME NEW s \in S, NEW r \in Under(S, n), s <= r PROVE s \in Under(S, n)
      <4>1. r \in S /\ Rank(S, r) < n /\ r \in Nat /\ s \in Nat
        BY <3>3 DEF Under
      <4>2. /\ Rank(S, s) \in Nat /\ Rank(S, r) \in Nat
            /\ r < s <=> Rank(S, r) < Rank(S, s)
        BY <1>1, <4>1, RankOrder
      <4>3. Rank(S, s) < n
        BY <3>6, <4>1, <4>2
      <4>4. QED
        BY <4>3 DEF Under
    <3> HIDE DEF last
    <3>7. ASSUME NEW r \in Printed(o) PROVE r \in L
      <4>1. \A x \in S : x <= r => Shown(k, x, MUX_SIZE)
        BY <1>2, <3>6
      <4>2. QED
        BY <3>5, <4>1 DEF ListedOf
    <3>8. ASSUME NEW s \in L, s <= last PROVE s \in Printed(o)
      BY <1>2, <3>2, <3>6, <3>8 DEF ListedOf
    <3>9. ~ (Len(o) < N_MUX)
      BY <1>2, <2>2
    <3> HIDE DEF L
    <3>10. QED
      BY <3>5, <3>7, <3>8, <3>9 DEF last
  <2>3. QED
    BY <1>2, <1>3, <2>1, <2>2
<1>5. QED
  BY <1>2, <1>4 DEF MuxListed

\* The first slot with a handle is what smbios_get_rec_by_handle() finds.
LEMMA HandleMore ==
    ASSUME NEW k \in DOMAIN Tables, NEW h, NEW o \in Seq(Slot), HandleListed(k, h, o, 1, 0),
           NEW s \in NthOf(WithHandle(k, h), 0), Tables[k].rows[s].length <= BUF_SIZE
    PROVE  HandleListed(k, h, Append(o, s), 1, 1)
<1>1. WithHandle(k, h) \in SUBSET Slot
  BY TypeSlots
<1>2. s = First(WithHandle(k, h)) /\ s \in Slot /\ s # 0
  <2>1. NthOf(WithHandle(k, h), 0) = {First(WithHandle(k, h))} /\ First(WithHandle(k, h)) \in WithHandle(k, h)
    BY <1>1, NthFirst
  <2>2. \A x \in Slot : x # 0
    BY ReaderAssumption DEF Slot
  <2>3. QED
    BY <1>1, <2>1, <2>2
<1>3. o = <<>>
  BY DEF HandleListed
<1>4. Append(o, s) = <<s>>
  BY <1>3
<1>5. QED
  BY <1>2, <1>4 DEF HandleListed

LEMMA HandleNext ==
    ASSUME NEW k \in DOMAIN Tables, NEW h, NEW o \in Seq(Slot), NEW n \in Nat, HandleListed(k, h, o, 1, n),
           \A s \in NthOf(WithHandle(k, h), 0) : ~ (n = 0 /\ Tables[k].rows[s].length <= BUF_SIZE)
    PROVE  HandleListed(k, h, o, 2, 0)
<1>1. WithHandle(k, h) \in SUBSET Slot
  BY TypeSlots
<1> DEFINE s == First(WithHandle(k, h))
           found == s # 0 /\ Tables[k].rows[s].length <= BUF_SIZE
<1>2. n \in {0, 1} /\ o = (IF n = 0 THEN <<>> ELSE <<s>>) /\ (n = 1 => found)
  BY DEF HandleListed
<1>3. n = 0 => ~ found
  <2>1. CASE WithHandle(k, h) = {}
    BY <2>1 DEF First
  <2>2. CASE WithHandle(k, h) # {}
    BY <1>1, <2>2, NthFirst
  <2>3. QED
    BY <2>1, <2>2
<1>4. QED
  BY <1>2, <1>3 DEF HandleListed

-----------------------------------------------------------------------------
(* The listings of a table that was read in one piece.                     *)

\* What the queries of smbios_db are then, by the table.
LEMMA WholeQueries ==
    ASSUME TypeInv, LoadInv, Listing
    PROVE  /\ seen \in DOMAIN Tables /\ cmd \in Commands
           /\ \A s \in Slot : Index(s) = Tables[seen].rows[s] /\ Content(s) = Tables[seen].rows[s]
           /\ \A t : OfTypeHere(t) = OfType(seen, t)
           /\ \A h : ByHandle(h) = NthOf(WithHandle(seen, h), 0)
           /\ \A n : \A s \in Slot : Listable(s, n) <=> Shown(seen, s, n)
<1>1. seen \in DOMAIN Tables /\ cmd \in Commands /\ seen > 0 /\ seen # -1
  BY TablesDomain DEF TypeInv, ReaderTypeOK, CmdInv, Listing, TablesHere
<1>2. mem = Whole(seen)
  BY <1>1 DEF LoadInv, ReadsLastWritten, Loaded, Listing
<1>3. ASSUME NEW s \in Slot
      PROVE  /\ Index(s) = Tables[seen].rows[s] /\ Content(s) = Tables[seen].rows[s]
  <2>1. IndexPage(s) \in 1 .. Pages /\ DataPage(s) \in 1 .. Pages
    BY PageRange
  <2>2. mem[IndexPage(s)] = seen /\ mem[DataPage(s)] = seen /\ seen # 0
    BY <1>1, <1>2, <2>1 DEF Whole
  <2>3. Index(s) = Tables[seen].rows[s] /\ ~ Torn(s)
    BY <1>1, <2>2 DEF Index, Torn
  <2>4. QED
    BY <2>2, <2>3 DEF Content
<1>4. \A t : OfTypeHere(t) = OfType(seen, t)
  BY <1>3 DEF OfTypeHere, InUse, OfType, Kept
<1>5. \A h : {s \in Slot : InUse(s) /\ Index(s).handle = h} = WithHandle(seen, h)
  BY <1>3 DEF InUse, WithHandle, Kept
<1>6. \A h : ByHandle(h) = NthOf(WithHandle(seen, h), 0)
  BY <1>5 DEF ByHandle
<1>7. \A n : \A s \in Slot : Listable(s, n) <=> Shown(seen, s, n)
  BY <1>3 DEF Listable, Fits, Shown
<1>8. QED
  BY <1>1, <1>3, <1>4, <1>6, <1>7

LEMMA KeysRise ==
    ASSUME NEW c \in Commands, c.do \in {"ALL", "TYPE"}
    PROVE  Rising(Keys(c))
<1>1. CASE c.do = "ALL"
  <2>1. LAST_TYPE \in Nat /\ LAST_TYPE + 1 \in Nat
    BY ReaderAssumption
  <2> DEFINE K == [k \in 1 .. LAST_TYPE + 1 |-> k - 1]
  <2>2. K \in Seq(Nat) /\ Len(K) = LAST_TYPE + 1
    BY <2>1
  <2>3. \A a, b \in 1 .. Len(K) : a < b => K[a] < K[b]
    BY <2>1, <2>2
  <2>4. QED
    BY <1>1, <2>3 DEF Keys, Rising
<1>2. CASE c.do = "TYPE"
  <2>1. Keys(c) = c.keys /\ Len(c.keys) = 1
    BY <1>2, CommandsAssumption DEF Keys
  <2>2. QED
    BY <2>1 DEF Rising
<1>3. QED
  BY <1>1, <1>2

\* What is listed next, by the table.
LEMMA NextListed ==
    ASSUME TypeInv, LoadInv, Listing, NEW t, NEW n \in Nat
    PROVE  /\ cmd.do \in {"ALL", "TYPE"} =>
                 Following(cmd, t, n) = {s \in NthOf(OfType(seen, t), n) : Shown(seen, s, BUF_SIZE)}
           /\ cmd.do = "MUX" =>
                 Following(cmd, t, n) = {s \in NthOf(OfType(seen, TYPE_MUX), n) :
                                            n < N_MUX /\ Shown(seen, s, MUX_SIZE)}
           /\ cmd.do = "HANDLE" =>
                 Following(cmd, t, n) = {s \in NthOf(WithHandle(seen, t), 0) :
                                            n = 0 /\ Tables[seen].rows[s].length <= BUF_SIZE}
<1>1. /\ \A s \in Slot : Index(s) = Tables[seen].rows[s]
      /\ \A u : OfTypeHere(u) = OfType(seen, u)
      /\ \A h : ByHandle(h) = NthOf(WithHandle(seen, h), 0)
      /\ \A m : \A s \in Slot : Listable(s, m) <=> Shown(seen, s, m)
  BY WholeQueries
<1>2. /\ \A u, m : NthOf(OfType(seen, u), m) \subseteq Slot
      /\ \A u, m : NthOf(WithHandle(seen, u), m) \subseteq Slot
  BY TypeSlots DEF NthOf
<1>3. CASE cmd.do \in {"ALL", "TYPE"}
  BY <1>1, <1>2, <1>3 DEF Following, ByTypeAndPosition
<1>4. CASE cmd.do = "MUX"
  BY <1>1, <1>2, <1>4 DEF Following, ByTypeAndPosition
<1>5. CASE cmd.do = "HANDLE"
  BY <1>1, <1>2, <1>5 DEF Following, Fits
<1>6. QED
  BY <1>3, <1>4, <1>5

LEMMA ListStart ==
    ASSUME NEW k, NEW h
    PROVE  MuxListed(k, <<>>, 1, 0) /\ HandleListed(k, h, <<>>, 1, 0)
<1>1. Under(OfType(k, TYPE_MUX), 0) = {}
  BY TypeSlots, UnderNone
<1>2. Printed(<<>>) = {} /\ InOrder(k, <<>>) /\ Len(<<>>) = 0
  BY DEF Printed, InOrder
<1>3. 0 <= N_MUX
  BY ReaderAssumption
<1>4. MuxListed(k, <<>>, 1, 0)
  <2>1. PICK o : o = <<>>
    OBVIOUS
  <2>2. Printed(o) = {} /\ InOrder(k, o) /\ Len(o) = 0
    BY <1>2, <2>1
  <2>3. MuxListed(k, o, 1, 0)
    BY <1>1, <1>3, <2>2 DEF MuxListed
  <2>4. QED
    BY <2>1, <2>3
<1>5. HandleListed(k, h, <<>>, 1, 0)
  BY DEF HandleListed
<1>6. QED
  BY <1>4, <1>5

\* One key: what the segment map and a handle ask for.
LEMMA OneKey ==
    ASSUME NEW c \in Commands, c.do \in {"MUX", "HANDLE"}
    PROVE  Len(Keys(c)) = 1 /\ Keys(c)[1] = c.keys[1]
<1>1. Keys(c) = c.keys
  BY DEF Keys
<1>2. CASE c.do = "MUX"
  <2>1. c.keys = <<TYPE_MUX>>
    BY <1>2, CommandsAssumption
  <2>2. QED
    BY <1>1, <2>1
<1>3. CASE c.do = "HANDLE"
  <2>1. Len(c.keys) = 1
    BY <1>3, CommandsAssumption
  <2>2. QED
    BY <1>1, <2>1
<1>4. QED
  BY <1>2, <1>3

LEMMA ListMore ==
    ASSUME TypeInv, LoadInv, ListInv, ListRecord
    PROVE  ListInv'
<1> SUFFICES ASSUME Listing PROVE ListInv'
  BY DEF ListInv, Listing, ListRecord, loading
<1>1. PICK e \in Following(cmd, Keys(cmd)[key], i) : out' = Append(out, e)
  BY DEF ListRecord
<1>2. i' = i + 1 /\ UNCHANGED <<cmd, key, seen, pc>> /\ pc = "list" /\ key <= Len(Keys(cmd))
  BY DEF ListRecord, AtKey, loading
<1>3. seen \in DOMAIN Tables /\ cmd \in Commands
  BY WholeQueries
<1>4. PICK k \in DOMAIN Tables, K \in Seq(Nat), ky \in Nat, n \in Nat :
         k = seen /\ K = Keys(cmd) /\ ky = key /\ n = i /\ ky \in 1 .. Len(K)
  <2>1. Keys(cmd) \in Seq(Nat) /\ Len(Keys(cmd)) \in Nat
    BY <1>3, KeysSeq
  <2>2. key \in 1 .. Len(Keys(cmd)) /\ i \in Nat
    BY <1>2, <2>1, ReaderAssumption DEF TypeInv, ReaderTypeOK
  <2>3. QED
    BY <1>3, <2>1, <2>2
<1>5. e \in Following(cmd, K[ky], n)
  BY <1>1, <1>4
<1>6. CASE cmd.do \in {"ALL", "TYPE", "MUX", "HANDLE"}
  <2>1. out \in Seq(Slot)
    BY <1>6 DEF TypeInv, ReaderTypeOK, Entries
  <2>2. PICK o \in Seq(Slot) : o = out
    BY <2>1
  <2>3. CASE cmd.do \in {"ALL", "TYPE"}
    <3>1. e \in NthOf(OfType(k, K[ky]), n) /\ Shown(k, e, BUF_SIZE)
      BY <1>4, <1>5, <2>3, NextListed
    <3>2. TypesListed(k, K, o, ky, n) /\ Rising(K)
      BY <1>3, <1>4, <2>2, <2>3, KeysRise DEF ListInv
    <3>3. TypesListed(k, K, Append(o, e), ky, n + 1)
      BY <1>4, <3>1, <3>2, TypesMore
    <3>4. Keys(cmd)' = K
      BY <1>2, <1>4 DEF Keys
    <3>5. QED
      BY <1>1, <1>2, <1>4, <2>2, <2>3, <3>3, <3>4 DEF ListInv
  <2>4. CASE cmd.do = "MUX"
    <3>1. e \in NthOf(OfType(k, TYPE_MUX), n) /\ n < N_MUX /\ Shown(k, e, MUX_SIZE)
      BY <1>4, <1>5, <2>4, NextListed
    <3>2. Len(K) = 1
      BY <1>3, <1>4, <2>4, OneKey
    <3>3. ky = 1
      BY <1>4, <3>2
    <3>4. MuxListed(k, o, 1, n)
      BY <1>4, <2>2, <2>4, <3>3 DEF ListInv
    <3>5. MuxListed(k, Append(o, e), 1, n + 1)
      BY <3>1, <3>4, MuxMore
    <3>6. QED
      BY <1>1, <1>2, <1>4, <2>2, <2>4, <3>3, <3>5 DEF ListInv
  <2>5. CASE cmd.do = "HANDLE"
    <3>1. e \in NthOf(WithHandle(k, K[ky]), 0) /\ n = 0 /\ Tables[k].rows[e].length <= BUF_SIZE
      BY <1>4, <1>5, <2>5, NextListed
    <3>2. Len(K) = 1 /\ K[1] = cmd.keys[1]
      BY <1>3, <1>4, <2>5, OneKey
    <3>3. ky = 1
      BY <1>4, <3>2
    <3>4. HandleListed(k, K[1], o, 1, 0)
      BY <1>4, <2>2, <2>5, <3>1, <3>2, <3>3 DEF ListInv
    <3>5. HandleListed(k, K[1], Append(o, e), 1, 1)
      BY <3>1, <3>3, <3>4, HandleMore
    <3>6. QED
      BY <1>1, <1>2, <1>4, <2>2, <2>5, <3>1, <3>2, <3>3, <3>5 DEF ListInv
  <2>6. QED
    BY <1>6, <2>3, <2>4, <2>5
<1>7. CASE cmd.do \notin {"ALL", "TYPE", "MUX", "HANDLE"}
  BY <1>2, <1>7 DEF ListInv
<1>8. QED
  BY <1>6, <1>7

LEMMA ListNext ==
    ASSUME TypeInv, LoadInv, ListInv, NextKey
    PROVE  ListInv'
<1> SUFFICES ASSUME Listing PROVE ListInv'
  BY DEF ListInv, Listing, NextKey, loading
<1>1. Following(cmd, Keys(cmd)[key], i) = {}
  BY DEF NextKey
<1>2. i' = 0 /\ key' = key + 1 /\ UNCHANGED <<cmd, seen, pc, out>> /\ pc = "list" /\ key <= Len(Keys(cmd))
  BY DEF NextKey, AtKey, loading
<1>3. seen \in DOMAIN Tables /\ cmd \in Commands
  BY WholeQueries
<1>4. PICK k \in DOMAIN Tables, K \in Seq(Nat), ky \in Nat, n \in Nat :
         k = seen /\ K = Keys(cmd) /\ ky = key /\ n = i /\ ky \in 1 .. Len(K)
  <2>1. Keys(cmd) \in Seq(Nat) /\ Len(Keys(cmd)) \in Nat
    BY <1>3, KeysSeq
  <2>2. key \in 1 .. Len(Keys(cmd)) /\ i \in Nat
    BY <1>2, <2>1, ReaderAssumption DEF TypeInv, ReaderTypeOK
  <2>3. QED
    BY <1>3, <2>1, <2>2
<1>5. Following(cmd, K[ky], n) = {}
  BY <1>1, <1>4
<1>6. CASE cmd.do \in {"ALL", "TYPE", "MUX", "HANDLE"}
  <2>1. out \in Seq(Slot)
    BY <1>6 DEF TypeInv, ReaderTypeOK, Entries
  <2>2. PICK o \in Seq(Slot) : o = out
    BY <2>1
  <2>3. CASE cmd.do \in {"ALL", "TYPE"}
    <3>1. \A s \in NthOf(OfType(k, K[ky]), n) : ~ Shown(k, s, BUF_SIZE)
      BY <1>4, <1>5, <2>3, NextListed
    <3>2. TypesListed(k, K, o, ky, n)
      BY <1>4, <2>2, <2>3 DEF ListInv
    <3>3. TypesListed(k, K, o, ky + 1, 0)
      BY <1>4, <3>1, <3>2, TypesNext
    <3>4. Keys(cmd)' = K
      BY <1>2, <1>4 DEF Keys
    <3>5. QED
      BY <1>2, <1>4, <2>2, <2>3, <3>3, <3>4 DEF ListInv
  <2>4. CASE cmd.do = "MUX"
    <3>1. \A s \in NthOf(OfType(k, TYPE_MUX), n) : ~ (n < N_MUX /\ Shown(k, s, MUX_SIZE))
      BY <1>4, <1>5, <2>4, NextListed
    <3>2. Len(K) = 1
      BY <1>3, <1>4, <2>4, OneKey
    <3>3. ky = 1
      BY <1>4, <3>2
    <3>4. MuxListed(k, o, 1, n)
      BY <1>4, <2>2, <2>4, <3>3 DEF ListInv
    <3>5. MuxListed(k, o, 2, 0)
      BY <3>1, <3>4, MuxNext
    <3>6. QED
      BY <1>2, <1>4, <2>2, <2>4, <3>3, <3>5 DEF ListInv
  <2>5. CASE cmd.do = "HANDLE"
    <3>1. \A s \in NthOf(WithHandle(k, K[ky]), 0) : ~ (n = 0 /\ Tables[k].rows[s].length <= BUF_SIZE)
      <4>1. Following(cmd, K[ky], n) = {s \in NthOf(WithHandle(seen, K[ky]), 0) :
                                          n = 0 /\ Tables[seen].rows[s].length <= BUF_SIZE}
        BY <1>4, <2>5, NextListed
      <4>2. QED
        BY <1>4, <1>5, <4>1
    <3>2. Len(K) = 1 /\ K[1] = cmd.keys[1]
      BY <1>3, <1>4, <2>5, OneKey
    <3>3. ky = 1
      BY <1>4, <3>2
    <3>4. HandleListed(k, K[1], o, 1, n)
      BY <1>4, <2>2, <2>5, <3>2, <3>3 DEF ListInv
    <3>5. HandleListed(k, K[1], o, 2, 0)
      BY <3>1, <3>3, <3>4, HandleNext
    <3>6. QED
      BY <1>2, <1>4, <2>2, <2>5, <3>2, <3>3, <3>5 DEF ListInv
  <2>6. QED
    BY <1>6, <2>3, <2>4, <2>5
<1>7. CASE cmd.do \notin {"ALL", "TYPE", "MUX", "HANDLE"}
  BY <1>2, <1>7 DEF ListInv
<1>8. QED
  BY <1>6, <1>7

LEMMA ListStep == TypeInv /\ LoadInv /\ ListInv /\ [Next]_vars => ListInv'
<1> SUFFICES ASSUME TypeInv, LoadInv, ListInv, [Next]_vars PROVE ListInv'
  OBVIOUS
<1>1. CASE UNCHANGED vars \/ WriteBegin \/ WritePage \/ WriteEnd \/ Exit
  <2>1. UNCHANGED <<cmd, key, i, out>> /\ (pc' # "read" => seen' = seen)
        /\ (pc' \in {"list", "done"} => pc \in {"list", "done"})
    BY <1>1 DEF vars, WriteBegin, WritePage, WriteEnd, OnlyFile, Disturb, Exit, daemon, loading, listing
  <2>2. QED
    BY <2>1 DEF ListInv, Listing, Keys
<1>2. CASE (\E c \in Commands : Start(c)) \/ Open \/ ReadPage \/ EndRead
  <2>1. pc' \notin {"list", "done"}
    BY <1>2 DEF Start, Open, ReadPage, EndRead
  <2>2. QED
    BY <2>1 DEF ListInv, Listing
<1>3. CASE Check
  <2>1. UNCHANGED <<cmd, key, i, out, seen>> /\ key = 1 /\ i = 0 /\ out = <<>>
    BY <1>3 DEF Check, listing, TypeInv, CmdInv
  <2>2. TypesListed(seen', Keys(cmd'), <<>>, 1, 0)
    BY TypesStart
  <2>3. MuxListed(seen', <<>>, 1, 0) /\ HandleListed(seen', cmd'.keys[1], <<>>, 1, 0)
    BY ListStart
  <2>4. QED
    BY <2>1, <2>2, <2>3 DEF ListInv, Keys
<1>4. QED
  BY <1>1, <1>2, <1>3, ListMore, ListNext DEF Next, Process

\* The types that ALL and TYPE ask for.
LEMMA TypesAsked ==
    ASSUME NEW c \in Commands, c.do \in {"ALL", "TYPE"}
    PROVE  KeysDone(Keys(c), Len(Keys(c)) + 1) =
               IF c.do = "ALL" THEN 0 .. LAST_TYPE ELSE {c.keys[k] : k \in DOMAIN c.keys}
<1>1. Len(Keys(c)) \in Nat /\ DOMAIN Keys(c) = 1 .. Len(Keys(c))
  BY KeysSeq
<1>2. KeysDone(Keys(c), Len(Keys(c)) + 1) = {Keys(c)[j] : j \in DOMAIN Keys(c)}
  BY <1>1 DEF KeysDone
<1>3. CASE c.do = "ALL"
  <2>1. LAST_TYPE \in Nat
    BY ReaderAssumption
  <2>2. Keys(c) = [k \in 1 .. LAST_TYPE + 1 |-> k - 1]
    BY <1>3 DEF Keys
  <2>3. {Keys(c)[j] : j \in DOMAIN Keys(c)} = {j - 1 : j \in 1 .. LAST_TYPE + 1}
    BY <2>2
  <2>4. {j - 1 : j \in 1 .. LAST_TYPE + 1} = 0 .. LAST_TYPE
    <3>1. ASSUME NEW t \in 0 .. LAST_TYPE PROVE t \in {j - 1 : j \in 1 .. LAST_TYPE + 1}
      <4>1. t + 1 \in 1 .. LAST_TYPE + 1 /\ t = (t + 1) - 1
        BY <2>1
      <4>2. QED
        BY <4>1
    <3>2. ASSUME NEW j \in 1 .. LAST_TYPE + 1 PROVE j - 1 \in 0 .. LAST_TYPE
      BY <2>1
    <3>3. QED
      BY <3>1, <3>2
  <2>5. QED
    BY <1>2, <1>3, <2>3, <2>4
<1>4. CASE c.do = "TYPE"
  BY <1>2, <1>4 DEF Keys
<1>5. QED
  BY <1>3, <1>4

LEMMA ListedAll == TypeInv /\ LoadInv /\ ListInv => ListsAll
<1> SUFFICES ASSUME TypeInv, LoadInv, ListInv, pc = "done", seen > 0, Tables[seen].ours
             PROVE  ListsAll
  BY DEF ListsAll
<1>1. Listing /\ key = Len(Keys(cmd)) + 1 /\ i = 0
  BY DEF Listing, TypeInv, CmdInv
<1>2. seen \in DOMAIN Tables /\ cmd \in Commands
  BY <1>1, WholeQueries
<1>3. cmd.do \in {"ALL", "TYPE", "MUX", "HANDLE", "DIMM"}
  BY <1>2, CommandsAssumption
<1>4. CASE cmd.do \in {"ALL", "TYPE"}
  <2> DEFINE types == IF cmd.do = "ALL" THEN 0 .. LAST_TYPE ELSE {cmd.keys[k] : k \in DOMAIN cmd.keys}
  <2>1. TypesListed(seen, Keys(cmd), out, Len(Keys(cmd)) + 1, 0)
    BY <1>1, <1>4 DEF ListInv
  <2>2. KeysDone(Keys(cmd), Len(Keys(cmd)) + 1) = types
    BY <1>2, <1>4, TypesAsked
  <2>3. \A u : Under(OfType(seen, u), 0) = {}
    BY TypeSlots, UnderNone
  <2> HIDE DEF types
  <2>4. InOrder(seen, out) /\ Printed(out) = UNION {ListedOf(seen, t, BUF_SIZE) : t \in types}
    BY <2>1, <2>2, <2>3 DEF TypesListed
  <2>5. QED
    BY <1>4, <2>4 DEF ListsAll, InOrder, Precedes, Printed, types
<1>5. CASE cmd.do = "MUX"
  <2>1. Len(Keys(cmd)) = 1
    BY <1>2, <1>5, OneKey
  <2>2. MuxListed(seen, out, 2, 0)
    BY <1>1, <1>5, <2>1 DEF ListInv
  <2>3. /\ InOrder(seen, out) /\ Len(out) <= N_MUX
        /\ Printed(out) = {s \in ListedOf(seen, TYPE_MUX, MUX_SIZE) : Len(out) < N_MUX \/ s <= out[N_MUX]}
    BY <2>2 DEF MuxListed
  <2>4. QED
    BY <1>5, <2>3 DEF ListsAll, InOrder, Precedes, Printed
<1>6. CASE cmd.do = "HANDLE"
  <2>1. Len(Keys(cmd)) = 1
    BY <1>2, <1>6, OneKey
  <2>2. HandleListed(seen, cmd.keys[1], out, 2, 0)
    BY <1>1, <1>6, <2>1 DEF ListInv
  <2>3. QED
    BY <1>6, <2>2 DEF ListsAll, HandleListed, WithHandle
<1>7. CASE cmd.do = "DIMM"
  BY <1>7 DEF ListsAll
<1>8. QED
  BY <1>3, <1>4, <1>5, <1>6, <1>7

LEMMA LoadInit == Init => LoadInv /\ ListInv
BY DEF Init, LoadInv, ReadsLastWritten, Loaded, ListInv, Listing

\* For tables of every size, on one that was read in one piece: each of the
\* listings of db_smbios_handler() has the records it is to have, in order and
\* each once, up to the first that does not fit.
THEOREM AllListed == Spec => []ListsAll
<1>1. Spec => [](TypeInv /\ LoadInv /\ ListInv)
  BY LoadInit, TypeInit, TypeStep, LoadStep, ListStep, PTL DEF Spec
<1>2. QED
  BY <1>1, ListedAll, PTL

-----------------------------------------------------------------------------
(* The modules of a table that was read in one piece.                      *)

Line == [{"t227", "t17", "t4", "t202", "t197"} -> 0 .. NumRec]

\* Where a handle names one record, a record is found again by its handle.
LEMMA NamedSelf ==
    ASSUME TypeInv, LoadInv, Listing, UniqueHandles(seen)
    PROVE  /\ \A h : Named(h) = First(WithHandle(seen, h))
           /\ \A s \in Kept(seen) : Named(Index(s).handle) = s /\ Content(s) = Tables[seen].rows[s]
           /\ Kept(seen) \subseteq Slot
<1>1. /\ \A s \in Slot : Index(s) = Tables[seen].rows[s] /\ Content(s) = Tables[seen].rows[s]
      /\ \A h : ByHandle(h) = NthOf(WithHandle(seen, h), 0)
  BY WholeQueries
<1>2. ASSUME NEW h PROVE Named(h) = First(WithHandle(seen, h))
  <2>1. Only(NthOf(WithHandle(seen, h), 0)) = First(WithHandle(seen, h))
    BY TypeSlots, NthFirst
  <2>2. QED
    BY <1>1, <2>1 DEF Named
<1>3. Kept(seen) \subseteq Slot
  BY DEF Kept
<1>4. ASSUME NEW s \in Kept(seen) PROVE Named(Index(s).handle) = s
  <2>1. PICK h : h = Tables[seen].rows[s].handle
    OBVIOUS
  <2>2. s \in WithHandle(seen, h)
    BY <2>1 DEF WithHandle
  <2>3. \A r \in WithHandle(seen, h) : r = s
    BY <2>1 DEF WithHandle, UniqueHandles
  <2>4. First(WithHandle(seen, h)) \in WithHandle(seen, h)
    BY <2>2, TypeSlots, NthFirst
  <2>5. Named(h) = s
    BY <1>2, <2>3, <2>4
  <2>6. QED
    BY <1>1, <1>3, <2>1, <2>5
<1>5. QED
  BY <1>1, <1>2, <1>3, <1>4

\* smbios_get_module() finds the maps of a kind in their order, and joins what
\* they name.
LEMMA ModuleFound ==
    ASSUME TypeInv, LoadInv, Listing, UniqueHandles(seen), NEW kd, NEW n,
           NEW e \in smbios_get_module(kd, n)
    PROVE  \E s \in NthOf(MapsOf(seen, kd), n) : e.t227 = s /\ Joined(seen, e)
<1>1. /\ \A h : Named(h) = First(WithHandle(seen, h))
      /\ \A s \in Kept(seen) : Named(Index(s).handle) = s /\ Content(s) = Tables[seen].rows[s]
  BY NamedSelf
<1>2. \A t : OfTypeHere(t) = OfType(seen, t) /\ OfType(seen, t) \subseteq Kept(seen)
  BY WholeQueries DEF OfType
<1>3. ASSUME NEW S, S \subseteq Kept(seen) PROVE Fetched(S) = S
  BY <1>1, <1>3 DEF Fetched
<1>4. ASSUME NEW t, NEW f, NEW h
      PROVE  FirstWith(t, f, h) = First({r \in OfType(seen, t) : Tables[seen].rows[r][f] = h})
  <2> DEFINE R == {r \in OfType(seen, t) : Tables[seen].rows[r][f] = h}
  <2>1. {r \in OfTypeHere(t) : Content(Named(Index(r).handle))[f] = h} = R
    BY <1>1, <1>2
  <2>2. R \in SUBSET Slot
    BY TypeSlots
  <2>3. NthOf(R, 0) \subseteq Kept(seen)
    BY <1>2 DEF NthOf
  <2> HIDE DEF R
  <2>4. Fetched(NthOf(R, 0)) = NthOf(R, 0)
    BY <1>3, <2>3
  <2>5. Only(NthOf(R, 0)) = First(R)
    BY <2>2, NthFirst
  <2>6. FirstWith(t, f, h) = First(R)
    BY <2>1, <2>4, <2>5 DEF FirstWith
  <2>7. QED
    BY <2>6 DEF R
<1>5. Modules(kd) = MapsOf(seen, kd)
  BY <1>1, <1>2 DEF Modules, MapsOf
<1>6. NthOf(MapsOf(seen, kd), n) \subseteq Kept(seen)
  BY <1>2 DEF NthOf, MapsOf
<1>7. PICK s \in NthOf(MapsOf(seen, kd), n) : e = Composite(s)
  BY <1>3, <1>5, <1>6 DEF smbios_get_module
<1>8. PICK m : m = Tables[seen].rows[s]
  OBVIOUS
<1>9. Content(s) = m
  BY <1>1, <1>6, <1>7, <1>8
<1>10. e = [t227 |-> s, t17 |-> Named(m.h17), t4 |-> Named(m.h4),
            t202 |-> FirstWith(TYPE_MEM_LOC, "h17", m.h17),
            t197 |-> FirstWith(TYPE_CPQ_PROC, "h4", m.h4)]
  BY <1>7, <1>9 DEF Composite
<1>11. /\ e.t227 = s /\ e.t17 = Named(m.h17) /\ e.t4 = Named(m.h4)
       /\ e.t202 = FirstWith(TYPE_MEM_LOC, "h17", m.h17)
       /\ e.t197 = FirstWith(TYPE_CPQ_PROC, "h4", m.h4)
  BY <1>10
<1>12. /\ e.t17 = First(WithHandle(seen, m.h17)) /\ e.t4 = First(WithHandle(seen, m.h4))
  BY <1>1, <1>11
<1>13. /\ e.t202 = First({r \in OfType(seen, TYPE_MEM_LOC) : Tables[seen].rows[r].h17 = m.h17})
       /\ e.t197 = First({r \in OfType(seen, TYPE_CPQ_PROC) : Tables[seen].rows[r].h4 = m.h4})
  BY <1>4, <1>11
<1>14. Joined(seen, e)
  BY <1>8, <1>11, <1>12, <1>13 DEF Joined
<1>15. QED
  BY <1>7, <1>11, <1>14

\* As long as there is a map of rank n, there is a line for it.
LEMMA NoModule ==
    ASSUME TypeInv, LoadInv, Listing, NEW kd, NEW n, smbios_get_module(kd, n) = {}
    PROVE  NthOf(MapsOf(seen, kd), n) = {}
<1>1. /\ \A s \in Slot : Content(s) = Tables[seen].rows[s]
      /\ \A t : OfTypeHere(t) = OfType(seen, t) /\ OfType(seen, t) \subseteq Slot
  BY WholeQueries, TypeSlots
<1>2. Modules(kd) = MapsOf(seen, kd)
  BY <1>1 DEF Modules, MapsOf
<1>3. QED
  BY <1>2 DEF smbios_get_module, Fetched

MapSlots(o) == {o[a].t227 : a \in DOMAIN o}

LEMMA ModulesMore ==
    ASSUME NEW k, NEW K \in Seq(Nat), IsInjective(K), NEW ky \in Nat, ky \in 1 .. Len(K),
           NEW o \in Seq(Line), NEW n \in Nat, ModulesListed(k, K, o, ky, n),
           NEW s \in NthOf(MapsOf(k, K[ky]), n), NEW e \in Line, e.t227 = s, Joined(k, e)
    PROVE  ModulesListed(k, K, Append(o, e), ky, n + 1)
<1> DEFINE t == K[ky]
           S == MapsOf(k, t)
           D == UNION {MapsOf(k, kd) : kd \in KeysDone(K, ky)}
           p == Append(o, e)
<1>1. KeyHere(K, ky) = {t}
  BY KeysAt
<1>2. S \in SUBSET Slot
  BY TypeSlots DEF MapsOf
<1>3. /\ Under(S, n + 1) = Under(S, n) \cup {s}
      /\ s \in S /\ s \notin Under(S, n)
  <2>1. PICK T \in SUBSET Slot : T = S
    BY <1>2
  <2>2. s \in NthOf(T, n)
    BY <2>1
  <2>3. /\ Under(T, n + 1) = Under(T, n) \cup {s}
        /\ s \in T /\ s \notin Under(T, n)
    BY <2>2, UnderNext
  <2>4. QED
    BY <2>1, <2>3
<1>4. s \notin D
  <2>1. SUFFICES ASSUME NEW kd \in KeysDone(K, ky), s \in MapsOf(k, kd) PROVE FALSE
    OBVIOUS
  <2>2. kd = t
    BY <1>3, <2>1 DEF MapsOf
  <2>3. PICK j \in 1 .. ky - 1 : kd = K[j]
    BY DEF KeysDone
  <2>4. j \in DOMAIN K /\ ky \in DOMAIN K /\ j # ky
    BY <2>3
  <2>5. QED
    BY <2>2, <2>3, <2>4 DEF IsInjective
<1>5. /\ MapSlots(o) = D \cup UNION {Under(MapsOf(k, kd), n) : kd \in KeyHere(K, ky)}
      /\ \A a, b \in DOMAIN o : o[a].t227 = o[b].t227 => a = b
      /\ \A a \in DOMAIN o : Joined(k, o[a])
  BY DEF ModulesListed, MapSlots
<1>6. MapSlots(o) = D \cup Under(S, n)
  BY <1>1, <1>5
<1>7. /\ Len(o) \in Nat /\ DOMAIN o = 1 .. Len(o) /\ DOMAIN p = 1 .. Len(o) + 1
      /\ \A a \in 1 .. Len(o) : p[a] = o[a]
      /\ p[Len(o) + 1] = e
  BY PrintedMore
<1> HIDE DEF p, D, S, t
<1>8. DOMAIN p = DOMAIN o \cup {Len(o) + 1}
  BY <1>7
<1>9. MapSlots(p) = MapSlots(o) \cup {s}
  <2>1. \A a \in DOMAIN o : p[a].t227 = o[a].t227
    BY <1>7
  <2>2. p[Len(o) + 1].t227 = s
    BY <1>7
  <2>3. {p[a].t227 : a \in DOMAIN o} = MapSlots(o)
    BY <2>1 DEF MapSlots
  <2>4. MapSlots(p) = {p[a].t227 : a \in DOMAIN o} \cup {p[Len(o) + 1].t227}
    BY <1>8 DEF MapSlots
  <2>5. QED
    BY <2>2, <2>3, <2>4
<1>10. \A a \in DOMAIN o : o[a].t227 # s
  BY <1>3, <1>4, <1>6 DEF MapSlots
<1>11. \A a, b \in DOMAIN p : p[a].t227 = p[b].t227 => a = b
  BY <1>5, <1>7, <1>8, <1>10
<1>12. \A a \in DOMAIN p : Joined(k, p[a])
  BY <1>5, <1>7, <1>8
<1>13. UNION {Under(MapsOf(k, kd), n + 1) : kd \in KeyHere(K, ky)} = Under(S, n + 1)
  BY <1>1 DEF S
<1>14. MapSlots(p) = D \cup UNION {Under(MapsOf(k, kd), n + 1) : kd \in KeyHere(K, ky)}
  BY <1>3, <1>6, <1>9, <1>13
<1>15. ModulesListed(k, K, p, ky, n + 1)
  BY <1>11, <1>12, <1>14 DEF ModulesListed, MapSlots, D
<1>16. QED
  BY <1>15 DEF p

LEMMA ModulesNext ==
    ASSUME NEW k, NEW K \in Seq(Nat), NEW ky \in Nat, ky \in 1 .. Len(K), NEW o, NEW n \in Nat,
           ModulesListed(k, K, o, ky, n), NthOf(MapsOf(k, K[ky]), n) = {}
    PROVE  ModulesListed(k, K, o, ky + 1, 0)
<1> DEFINE t == K[ky]
           S == MapsOf(k, t)
<1>1. KeyHere(K, ky) = {t} /\ KeysDone(K, ky + 1) = KeysDone(K, ky) \cup {t}
  BY KeysAt
<1>2. \A kd : MapsOf(k, kd) \in SUBSET Slot
  BY TypeSlots DEF MapsOf
<1>3. Under(S, n) = S
  BY <1>2, RankGap DEF Under
<1>4. \A kd : Under(MapsOf(k, kd), 0) = {}
  BY <1>2, UnderNone
<1>5. UNION {Under(MapsOf(k, kd), 0) : kd \in KeyHere(K, ky + 1)} = {}
  BY <1>4
<1>6. UNION {Under(MapsOf(k, kd), n) : kd \in KeyHere(K, ky)} = S
  BY <1>1, <1>3
<1> HIDE DEF t
<1>7. UNION {MapsOf(k, kd) : kd \in KeysDone(K, ky + 1)} =
          (UNION {MapsOf(k, kd) : kd \in KeysDone(K, ky)}) \cup S
  BY <1>1
<1>8. QED
  BY <1>5, <1>6, <1>7 DEF ModulesListed

LEMMA ModulesStart == \A k, K : ModulesListed(k, K, <<>>, 1, 0)
<1> SUFFICES ASSUME NEW k, NEW K PROVE ModulesListed(k, K, <<>>, 1, 0)
  OBVIOUS
<1>1. \A kd : Under(MapsOf(k, kd), 0) = {}
  BY TypeSlots, UnderNone DEF MapsOf
<1>2. KeysDone(K, 1) = {} /\ DOMAIN <<>> = {}
  BY DEF KeysDone
<1>3. PICK o : o = <<>>
  OBVIOUS
<1>4. DOMAIN o = {}
  BY <1>2, <1>3
<1>5. ModulesListed(k, K, o, 1, 0)
  BY <1>1, <1>2, <1>4 DEF ModulesListed
<1>6. QED
  BY <1>3, <1>5

LEMMA JoinStep == TypeInv /\ LoadInv /\ JoinInv /\ [Next]_vars => JoinInv'
<1> SUFFICES ASSUME TypeInv, LoadInv, JoinInv, [Next]_vars PROVE JoinInv'
  OBVIOUS
<1>1. CASE UNCHANGED vars \/ WriteBegin \/ WritePage \/ WriteEnd \/ Exit
  <2>1. UNCHANGED <<cmd, key, i, out>> /\ (pc' # "read" => seen' = seen)
        /\ (pc' \in {"list", "done"} => pc \in {"list", "done"})
    BY <1>1 DEF vars, WriteBegin, WritePage, WriteEnd, OnlyFile, Disturb, Exit, daemon, loading, listing
  <2>2. QED
    BY <2>1 DEF JoinInv, Listing, Keys, UniqueHandles, Kept
<1>2. CASE (\E c \in Commands : Start(c)) \/ Open \/ ReadPage \/ EndRead
  <2>1. pc' \notin {"list", "done"}
    BY <1>2 DEF Start, Open, ReadPage, EndRead
  <2>2. QED
    BY <2>1 DEF JoinInv, Listing
<1>3. CASE Check
  <2>1. UNCHANGED <<cmd, key, i, out, seen>> /\ key = 1 /\ i = 0 /\ out = <<>>
    BY <1>3 DEF Check, listing, TypeInv, CmdInv
  <2>2. ModulesListed(seen', Keys(cmd'), <<>>, 1, 0)
    BY ModulesStart
  <2>3. QED
    BY <2>1, <2>2 DEF JoinInv, Keys
<1>4. CASE ListRecord \/ NextKey
  <2>1. UNCHANGED <<cmd, seen, pc>> /\ pc = "list" /\ key <= Len(Keys(cmd))
    BY <1>4 DEF ListRecord, NextKey, AtKey, loading
  <2> SUFFICES ASSUME Listing, cmd.do = "DIMM", UniqueHandles(seen)
               PROVE  (ModulesListed(seen, Keys(cmd), out, key, i))'
    BY <2>1 DEF JoinInv, Listing, UniqueHandles, Kept
  <2>2. seen \in DOMAIN Tables /\ cmd \in Commands
    BY WholeQueries
  <2>3. PICK k \in DOMAIN Tables, K \in Seq(Nat), ky \in Nat, n \in Nat :
           k = seen /\ K = Keys(cmd) /\ ky = key /\ n = i /\ ky \in 1 .. Len(K)
    <3>1. Keys(cmd) \in Seq(Nat) /\ Len(Keys(cmd)) \in Nat
      BY <2>2, KeysSeq
    <3>2. key \in 1 .. Len(Keys(cmd)) /\ i \in Nat
      BY <2>1, <3>1, ReaderAssumption DEF TypeInv, ReaderTypeOK
    <3>3. QED
      BY <2>2, <3>1, <3>2
  <2>4. Keys(cmd)' = K /\ seen' = k
    BY <2>1, <2>3 DEF Keys
  <2>5. PICK o \in Seq(Line) : o = out
    BY DEF TypeInv, ReaderTypeOK, Entries, Line
  <2>6. ModulesListed(k, K, o, ky, n)
    BY <2>3, <2>5 DEF JoinInv
  <2>7. CASE ListRecord
    <3>1. PICK e \in Following(cmd, K[ky], n) : out' = Append(out, e)
      BY <2>3, <2>7 DEF ListRecord
    <3>2. e \in smbios_get_module(K[ky], n)
      BY DEF Following
    <3>3. PICK s \in NthOf(MapsOf(k, K[ky]), n) : e.t227 = s /\ Joined(k, e)
      BY <2>3, <3>2, ModuleFound
    <3>4. e \in Line
      <4>1. n \in 0 .. NumRec
        BY <2>3 DEF TypeInv, ReaderTypeOK
      <4>2. QED
        BY <2>2, <3>1, <4>1, FollowingTyped DEF Entries, Line
    <3>5. IsInjective(K)
      BY <2>2, <2>3, CommandsAssumption DEF Keys
    <3>6. ModulesListed(k, K, Append(o, e), ky, n + 1)
      BY <2>3, <2>6, <3>3, <3>4, <3>5, ModulesMore
    <3>7. QED
      BY <2>3, <2>4, <2>5, <2>7, <3>1, <3>6 DEF ListRecord
  <2>8. CASE NextKey
    <3>1. Following(cmd, K[ky], n) = {}
      BY <2>3, <2>8 DEF NextKey
    <3>2. smbios_get_module(K[ky], n) = {}
      BY <3>1 DEF Following
    <3>3. NthOf(MapsOf(k, K[ky]), n) = {}
      BY <2>3, <3>2, NoModule
    <3>4. ModulesListed(k, K, o, ky + 1, 0)
      BY <2>3, <2>6, <3>3, ModulesNext
    <3>5. QED
      BY <2>3, <2>4, <2>5, <2>8, <3>4 DEF NextKey
  <2>9. QED
    BY <1>4, <2>7, <2>8
<1>5. QED
  BY <1>1, <1>2, <1>3, <1>4 DEF Next, Process

LEMMA AllJoined == TypeInv /\ LoadInv /\ JoinInv => ModuleJoins
<1> SUFFICES ASSUME TypeInv, LoadInv, JoinInv,
                    pc = "done", cmd.do = "DIMM", seen > 0, Tables[seen].ours, UniqueHandles(seen)
             PROVE  ModuleJoins
  BY DEF ModuleJoins
<1>1. Listing /\ key = Len(Keys(cmd)) + 1 /\ i = 0
  BY DEF Listing, TypeInv, CmdInv
<1>2. cmd \in Commands /\ Keys(cmd) = cmd.keys
  BY <1>1, WholeQueries DEF Keys
<1>3. Len(Keys(cmd)) \in Nat /\ DOMAIN Keys(cmd) = 1 .. Len(Keys(cmd))
  BY <1>2, KeysSeq
<1>4. ModulesListed(seen, Keys(cmd), out, Len(Keys(cmd)) + 1, 0)
  BY <1>1 DEF JoinInv
<1>5. \A kd : Under(MapsOf(seen, kd), 0) = {}
  BY TypeSlots, UnderNone DEF MapsOf
<1>6. KeysDone(Keys(cmd), Len(Keys(cmd)) + 1) = {cmd.keys[k] : k \in DOMAIN cmd.keys}
  BY <1>2, <1>3 DEF KeysDone
<1>7. /\ {out[a].t227 : a \in DOMAIN out} = UNION {MapsOf(seen, kd) : kd \in {cmd.keys[k] : k \in DOMAIN cmd.keys}}
      /\ \A a, b \in DOMAIN out : out[a].t227 = out[b].t227 => a = b
      /\ \A a \in DOMAIN out : Joined(seen, out[a])
  <2> DEFINE D == KeysDone(Keys(cmd), Len(Keys(cmd)) + 1)
             H == KeyHere(Keys(cmd), Len(Keys(cmd)) + 1)
  <2>1. /\ {out[a].t227 : a \in DOMAIN out} =
              (UNION {MapsOf(seen, kd) : kd \in D}) \cup UNION {Under(MapsOf(seen, kd), 0) : kd \in H}
        /\ \A a, b \in DOMAIN out : out[a].t227 = out[b].t227 => a = b
        /\ \A a \in DOMAIN out : Joined(seen, out[a])
    BY <1>4 DEF ModulesListed
  <2> HIDE DEF H
  <2>2. UNION {Under(MapsOf(seen, kd), 0) : kd \in H} = {}
    BY <1>5
  <2>3. D = {cmd.keys[k] : k \in DOMAIN cmd.keys}
    BY <1>6
  <2> HIDE DEF D
  <2>4. {out[a].t227 : a \in DOMAIN out} = UNION {MapsOf(seen, kd) : kd \in D}
    BY <2>1, <2>2
  <2>5. QED
    BY <2>1, <2>3, <2>4
<1>8. UNION {MapsOf(seen, kd) : kd \in {cmd.keys[k] : k \in DOMAIN cmd.keys}} =
          UNION {MapsOf(seen, cmd.keys[k]) : k \in DOMAIN cmd.keys}
  OBVIOUS
<1>9. QED
  BY <1>7, <1>8 DEF ModuleJoins, MapsOf, Joined, WithHandle

\* For tables of every size in which a handle names one record, on one that was
\* read in one piece: smbios_get_module() gives a line for each map of the kinds
\* asked for, each once, and joins in it the records that belong together.
THEOREM ModulesJoined == Spec => []ModuleJoins
<1>1. Init => JoinInv
  BY DEF Init, JoinInv, Listing
<1>2. Spec => [](TypeInv /\ LoadInv /\ JoinInv)
  BY <1>1, LoadInit, TypeInit, TypeStep, LoadStep, JoinStep, PTL DEF Spec
<1>3. QED
  BY <1>2, AllJoined, PTL

-----------------------------------------------------------------------------
(***************************************************************************)
(* How long a command takes.  Each step of the process brings it nearer to *)
(* its end, by a number of steps that depends on the command and not on    *)
(* the file: ReaderEnds rests on this and on the fairness of Spec.         *)
(***************************************************************************)

\* The listing steps that are left: for each key a record for each slot at
\* most, and the step to the next key.
RecordsLeft == (Len(Keys(cmd)) + 1 - key) * (NumRec + 1) - i

StepsLeft ==
    CASE pc = "open"  -> RecordsLeft + Pages + 4
      [] pc = "read"  -> RecordsLeft + (Pages + 1 - rpos) + 3
      [] pc = "check" -> RecordsLeft + 2
      [] pc = "list"  -> RecordsLeft + 1
      [] pc \in {"idle", "done"} -> 0

Nearer == StepsLeft' \in 0 .. StepsLeft - 1

\* A key less outweighs a listing of all slots.
LEMMA OneKeyLess ==
    ASSUME NEW L \in Nat, NEW ky \in 1 .. L + 1, NEW M \in Nat, NEW n \in 0 .. M
    PROVE  /\ ky <= L => /\ (L + 1 - ky) * (M + 1) - n \in Nat
                         /\ (L + 1 - (ky + 1)) * (M + 1) - 0 \in
                                0 .. ((L + 1 - ky) * (M + 1) - n) - 1
           /\ (L + 1 - (L + 1)) * (M + 1) - 0 = 0
<1>1. ASSUME ky <= L
      PROVE  /\ (L + 1 - ky) * (M + 1) - n \in Nat
             /\ (L + 1 - (ky + 1)) * (M + 1) - 0 \in 0 .. ((L + 1 - ky) * (M + 1) - n) - 1
  <2>1. PICK d \in Nat : d = L - ky /\ L + 1 - ky = d + 1 /\ L + 1 - (ky + 1) = d
    <3>1. L - ky \in Nat /\ L + 1 - ky = (L - ky) + 1 /\ L + 1 - (ky + 1) = L - ky
      BY <1>1
    <3>2. QED
      BY <3>1
  <2>2. PICK q \in Nat : q = d * (M + 1)
    OBVIOUS
  <2>3. (d + 1) * (M + 1) = q + M + 1
    BY <2>2
  <2>4. q + M + 1 - n \in Nat /\ q - 0 \in 0 .. (q + M + 1 - n) - 1
    OBVIOUS
  <2>5. QED
    BY <2>1, <2>2, <2>3, <2>4
<1>2. (L + 1 - (L + 1)) * (M + 1) - 0 = 0
  <2>1. L + 1 - (L + 1) = 0 /\ 0 * (M + 1) = 0
    OBVIOUS
  <2>2. QED
    BY <2>1
<1>3. QED
  BY <1>1, <1>2

\* Nothing is listed before the table is loaded, nor after the last key.
LEMMA ProcessNearer ==
    ASSUME TypeInv, TypeInv', LoadInv, Process
    PROVE  Nearer
<1>1. PICK L \in Nat, M \in Nat, P \in Nat :
          L = Len(Keys(cmd)) /\ M = NumRec /\ P = Pages
  <2>1. cmd \in Commands \cup {NoCommand}
    BY DEF TypeInv, CmdInv, NoCommand
  <2>2. Len(Keys(cmd)) \in Nat
    BY <2>1, KeysSeq
  <2>3. NumRec \in Nat /\ Pages \in Nat
    BY ReaderAssumption, PageRange
  <2>4. QED
    BY <2>2, <2>3
<1>2. /\ cmd' = cmd /\ Len(Keys(cmd))' = L
  <2>1. cmd' = cmd
    BY DEF Process, Open, ReadPage, EndRead, Check, ListRecord, NextKey, Exit, listing
  <2>2. QED
    BY <1>1, <2>1
<1>3. PICK ky \in 1 .. L + 1, n \in 0 .. M, r \in 1 .. P + 1 : ky = key /\ n = i /\ r = rpos
  BY <1>1 DEF TypeInv, ReaderTypeOK
<1>4. PICK R \in Int : R = (L + 1 - ky) * (M + 1) - n
  OBVIOUS
<1>5. RecordsLeft = R
  BY <1>1, <1>3, <1>4 DEF RecordsLeft
<1>6. UNCHANGED <<key, i>> => RecordsLeft' = R
  BY <1>1, <1>2, <1>3, <1>4 DEF RecordsLeft
<1>7. (ky <= L \/ n = 0) => R \in Nat
  <2>1. CASE ky <= L
    BY <1>4, <2>1, OneKeyLess
  <2>2. CASE ~ (ky <= L) /\ n = 0
    <3>1. ky = L + 1
      BY <2>2
    <3>2. R = 0
      BY <1>4, <2>2, <3>1, OneKeyLess
    <3>3. QED
      BY <3>2
  <2>3. QED
    BY <2>1, <2>2
<1>8. CASE Open
  <2>1. pc = "open" /\ pc' \in {"read", "check"} /\ UNCHANGED <<key, i, rpos>> /\ r = 1 /\ n = 0
    BY <1>3, <1>8 DEF Open, TypeInv, CmdInv, LoadInv, listing
  <2>2. StepsLeft = R + P + 4
    BY <1>1, <1>5, <2>1 DEF StepsLeft
  <2>3. StepsLeft' = R + (P + 1 - r) + 3 \/ StepsLeft' = R + 2
    BY <1>1, <1>3, <1>6, <2>1 DEF StepsLeft
  <2>4. QED
    BY <1>7, <2>1, <2>2, <2>3 DEF Nearer
<1>9. CASE ReadPage
  <2>1. pc = "read" /\ pc' = "read" /\ UNCHANGED <<key, i>> /\ rpos' = r + 1 /\ n = 0
    BY <1>3, <1>9 DEF ReadPage, TypeInv, CmdInv, listing
  <2>2. r + 1 \in 1 .. P + 1
    BY <1>1, <2>1 DEF TypeInv, ReaderTypeOK
  <2>3. StepsLeft = R + (P + 1 - r) + 3
    BY <1>1, <1>3, <1>5, <2>1 DEF StepsLeft
  <2>4. StepsLeft' = R + (P + 1 - (r + 1)) + 3
    BY <1>1, <1>6, <2>1 DEF StepsLeft
  <2>5. QED
    BY <1>7, <2>1, <2>2, <2>3, <2>4 DEF Nearer
<1>10. CASE EndRead
  <2>1. pc = "read" /\ pc' = "check" /\ UNCHANGED <<key, i>> /\ n = 0
    BY <1>3, <1>10 DEF EndRead, TypeInv, CmdInv, listing
  <2>2. StepsLeft = R + (P + 1 - r) + 3 /\ StepsLeft' = R + 2
    BY <1>1, <1>3, <1>5, <1>6, <2>1 DEF StepsLeft
  <2>3. QED
    BY <1>7, <2>1, <2>2 DEF Nearer
<1>11. CASE Check
  <2>1. pc = "check" /\ pc' = "list" /\ UNCHANGED <<key, i>> /\ n = 0
    BY <1>3, <1>11 DEF Check, TypeInv, CmdInv, listing
  <2>2. StepsLeft = R + 2 /\ StepsLeft' = R + 1
    BY <1>5, <1>6, <2>1 DEF StepsLeft
  <2>3. QED
    BY <1>7, <2>1, <2>2 DEF Nearer
<1>12. CASE ListRecord
  <2>1. pc = "list" /\ pc' = "list" /\ key' = ky /\ i' = n + 1 /\ ky <= L
    BY <1>1, <1>3, <1>12 DEF ListRecord, AtKey
  <2>2. n + 1 \in 0 .. M
    BY <1>1, <2>1 DEF TypeInv, ReaderTypeOK
  <2>3. (L + 1 - ky) * (M + 1) - (n + 1) \in Nat
    BY <2>1, <2>2, OneKeyLess
  <2>4. (L + 1 - ky) * (M + 1) - (n + 1) = R - 1
    <3>1. PICK q \in Int : q = (L + 1 - ky) * (M + 1)
      OBVIOUS
    <3>2. R = q - n
      BY <1>4, <3>1
    <3>3. QED
      BY <3>1, <3>2
  <2>5. RecordsLeft' = R - 1
    BY <1>1, <1>2, <2>1, <2>4 DEF RecordsLeft
  <2>6. StepsLeft = R + 1 /\ StepsLeft' = (R - 1) + 1
    BY <1>5, <2>1, <2>5 DEF StepsLeft
  <2>7. QED
    BY <2>3, <2>4, <2>6 DEF Nearer
<1>13. CASE NextKey
  <2>1. pc = "list" /\ pc' = "list" /\ key' = ky + 1 /\ i' = 0 /\ ky <= L
    BY <1>1, <1>3, <1>13 DEF NextKey, AtKey
  <2>2. PICK b : b = (L + 1 - (ky + 1)) * (M + 1) - 0
    OBVIOUS
  <2>3. b \in 0 .. R - 1
    BY <1>4, <2>1, <2>2, OneKeyLess
  <2>4. RecordsLeft' = b
    BY <1>1, <1>2, <2>1, <2>2 DEF RecordsLeft
  <2>5. StepsLeft = R + 1 /\ StepsLeft' = b + 1
    BY <1>5, <2>1, <2>4 DEF StepsLeft
  <2>6. QED
    BY <2>3, <2>5 DEF Nearer
<1>14. CASE Exit
  <2>1. pc = "list" /\ pc' = "done" /\ n = 0
    <3>1. pc = "list" /\ pc' = "done" /\ ky > L
      BY <1>1, <1>3, <1>14 DEF Exit
    <3>2. ky = L + 1
      BY <3>1
    <3>3. QED
      BY <1>1, <1>3, <3>1, <3>2 DEF TypeInv, CmdInv
  <2>2. StepsLeft = R + 1 /\ StepsLeft' = 0
    BY <1>5, <2>1 DEF StepsLeft
  <2>3. QED
    BY <1>7, <2>1, <2>2 DEF Nearer
<1>15. QED
  BY <1>8, <1>9, <1>10, <1>11, <1>12, <1>13, <1>14 DEF Process

\* Every command ends after so many steps, however the daemon goes on writing
\* while the file is read, and whatever the table says: the file grows no
\* longer than a table, and no listing has more records than there are slots.
THEOREM CommandBounded == Spec => [][Process => Nearer]_vars
<1>1. Spec => [](TypeInv /\ LoadInv)
  BY LoadInit, TypeInit, TypeStep, LoadStep, PTL DEF Spec
<1>2. TypeInv /\ TypeInv' /\ LoadInv /\ [Next]_vars => [Process => Nearer]_vars
  BY ProcessNearer
<1>3. QED
  BY <1>1, <1>2, PTL DEF Spec

=============================================================================
