--------------------------- MODULE EvStore_proof ---------------------------
(***************************************************************************)
(* What the store of environment variables promises, for all names and     *)
(* data, with any failures and restarts.                                   *)
(***************************************************************************)
EXTENDS EvStore, SequenceFacts

(***************************************************************************)
(* Cells.                                                                  *)
(***************************************************************************)

\* The longest datum is one.
LEMMA LongestDatum == MaxLen \in Nat /\ \A d \in Data : Len(d) <= MaxLen
<1> DEFINE T == {Len(d) : d \in Data}
<1>1. PICK d \in Data : \A f \in Data : Len(f) <= Len(d)
  BY EvAssumption
<1>2. \A f \in Data : Len(f) \in Nat
  BY EvAssumption, LenProperties
<1>3. Len(d) \in T /\ \A m \in T : Len(d) >= m
  BY <1>1, <1>2
<1>4. Max(T) \in T /\ \A m \in T : Max(T) >= m
  <2> HIDE DEF T
  <2>1. QED
    BY <1>3 DEF Max
<1>5. QED
  BY <1>2, <1>4 DEF MaxLen

\* A cell is a header if it says so, and then it has a name and a size.
LEMMA HeaderCell ==
    \A c \in Cell : c.kind = "hdr" =>
        /\ c \in Header
        /\ c.size \in Nat /\ c.size <= MaxLen
        /\ c.name \in Name \cup {JunkName}
        /\ c = Hdr(c.name, c.size)
<1>1. SUFFICES ASSUME NEW c \in Cell, c.kind = "hdr"
               PROVE  /\ c \in Header
                      /\ c.size \in Nat /\ c.size <= MaxLen
                      /\ c.name \in Name \cup {JunkName}
                      /\ c = Hdr(c.name, c.size)
  OBVIOUS
<1>2. c \notin DataCell
  BY <1>1, EvAssumption
<1>3. c # JunkCell
  BY <1>1 DEF JunkCell
<1>4. c \in Header
  BY <1>2, <1>3 DEF Cell
<1>5. PICK nm \in Name \cup {JunkName}, size \in 0 .. MaxLen : c = Hdr(nm, size)
  BY <1>4 DEF Header
<1>6. c.name = nm /\ c.size = size
  BY <1>5 DEF Hdr
<1>7. size \in Nat /\ size <= MaxLen
  BY LongestDatum
<1>8. QED
  BY <1>4, <1>5, <1>6, <1>7

\* A header is a cell.
LEMMA HeaderIsCell ==
    \A nm \in Name \cup {JunkName}, size \in Nat : size <= MaxLen =>
        /\ Hdr(nm, size) \in Header /\ Hdr(nm, size) \in Cell
        /\ Hdr(nm, size).kind = "hdr" /\ Hdr(nm, size).name = nm /\ Hdr(nm, size).size = size
<1>1. SUFFICES ASSUME NEW nm \in Name \cup {JunkName}, NEW size \in Nat, size <= MaxLen
               PROVE  /\ Hdr(nm, size) \in Header /\ Hdr(nm, size) \in Cell
                      /\ Hdr(nm, size).kind = "hdr" /\ Hdr(nm, size).name = nm
                      /\ Hdr(nm, size).size = size
  OBVIOUS
<1>2. size \in 0 .. MaxLen
  BY <1>1, LongestDatum
<1>3. Hdr(nm, size) \in Header
  BY <1>2 DEF Header
<1>4. Hdr(nm, size).kind = "hdr" /\ Hdr(nm, size).name = nm /\ Hdr(nm, size).size = size
  BY DEF Hdr
<1>5. QED
  BY <1>3, <1>4 DEF Cell

\* Data are of cells.
LEMMA DataOfCells == \A d \in Data : d \in Seq(Cell) /\ Len(d) \in Nat /\ Len(d) <= MaxLen /\ Len(d) # 0
<1>1. SUFFICES ASSUME NEW d \in Data
               PROVE  d \in Seq(Cell) /\ Len(d) \in Nat /\ Len(d) <= MaxLen /\ Len(d) # 0
  OBVIOUS
<1>2. d \in Seq(DataCell) /\ d # << >>
  BY EvAssumption
<1>3. d \in Seq(Cell)
  <2>1. DataCell \subseteq Cell
    BY DEF Cell
  <2>2. QED
    BY <1>2, <2>1, SeqMonotonic
<1>4. Len(d) \in Nat /\ Len(d) # 0
  BY <1>3, <1>2, EmptySeq, LenProperties
<1>5. QED
  BY <1>3, <1>4, LongestDatum

(***************************************************************************)
(* Reading a file from a place on.                                         *)
(***************************************************************************)

\* A header with all its data is at that place, and where the next would be.
Record(file, at) ==
    /\ at \in Nat /\ at < Len(file)
    /\ file[at + 1].kind = "hdr"
    /\ at + 1 + file[at + 1].size <= Len(file)

\* Where the next record begins.
After(file, at) == at + 1 + file[at + 1].size

\* The datum of the record.
Datum(file, at) == DataAt(file, at, file[at + 1].size)

\* A record is a header and its datum, within the file.
LEMMA RecordFacts ==
    ASSUME NEW file \in Seq(Cell), NEW at, Record(file, at)
    PROVE  /\ Len(file) \in Nat /\ at \in 0 .. Len(file) /\ at # Len(file)
           /\ file[at + 1] \in Header
           /\ file[at + 1].size \in Nat /\ file[at + 1].size <= MaxLen
           /\ file[at + 1].name \in Name \cup {JunkName}
           /\ file[at + 1] = Hdr(file[at + 1].name, file[at + 1].size)
           /\ After(file, at) \in 0 .. Len(file) /\ at < After(file, at)
<1>1. Len(file) \in Nat /\ at \in Nat /\ at < Len(file)
  BY LenProperties DEF Record
<1>2. at + 1 \in 1 .. Len(file)
  BY <1>1
<1>3. file[at + 1] \in Cell
  BY <1>2, ElementOfSeq
<1>4. file[at + 1].kind = "hdr" /\ at + 1 + file[at + 1].size <= Len(file)
  BY DEF Record
<1>5. /\ file[at + 1] \in Header
      /\ file[at + 1].size \in Nat /\ file[at + 1].size <= MaxLen
      /\ file[at + 1].name \in Name \cup {JunkName}
      /\ file[at + 1] = Hdr(file[at + 1].name, file[at + 1].size)
  BY <1>3, <1>4, HeaderCell
<1>6. After(file, at) \in 0 .. Len(file) /\ at < After(file, at)
  BY <1>1, <1>4, <1>5 DEF After
<1>7. QED
  BY <1>1, <1>5, <1>6

\* The data behind a header are cells of the file.
LEMMA DatumFacts ==
    ASSUME NEW file \in Seq(Cell), NEW at, Record(file, at)
    PROVE  /\ Datum(file, at) = SubSeq(file, at + 2, After(file, at))
           /\ Datum(file, at) \in Seq(Cell)
           /\ Len(Datum(file, at)) = file[at + 1].size
           /\ \A k \in 1 .. file[at + 1].size : Datum(file, at)[k] = file[at + 1 + k]
<1> DEFINE size == file[at + 1].size
           end == at + 1 + size
<1>1. /\ Len(file) \in Nat /\ at \in Nat /\ size \in Nat /\ end <= Len(file) /\ end \in Nat
  BY RecordFacts DEF Record
<1>2. Min({end, Len(file)}) = end
  <2>1. end \in {end, Len(file)} /\ \A y \in {end, Len(file)} : end <= y
    BY <1>1
  <2>2. \A x \in {end, Len(file)} : (\A y \in {end, Len(file)} : x <= y) => x = end
    BY <1>1
  <2> HIDE DEF end
  <2>3. QED
    BY <2>1, <2>2 DEF Min
<1>3. Datum(file, at) = SubSeq(file, at + 2, end) /\ After(file, at) = end
  BY <1>2 DEF Datum, DataAt, After
<1>4. \A k \in at + 2 .. end : file[k] \in Cell
  <2>1. \A k \in at + 2 .. end : k \in 1 .. Len(file)
    BY <1>1
  <2>2. QED
    BY <2>1, ElementOfSeq
<1>5. at + 2 \in Int /\ end \in Int
  BY <1>1
<1> HIDE DEF end
<1>6. /\ SubSeq(file, at + 2, end) \in Seq(Cell)
      /\ Len(SubSeq(file, at + 2, end)) = IF at + 2 <= end THEN end - (at + 2) + 1 ELSE 0
      /\ \A i \in 1 .. end - (at + 2) + 1 : SubSeq(file, at + 2, end)[i] = file[at + 2 + i - 1]
  BY <1>4, <1>5, SubSeqProperties
<1>7. (IF at + 2 <= end THEN end - (at + 2) + 1 ELSE 0) = size
  <2> USE DEF end
  <2> HIDE DEF size
  <2>1. QED
    BY <1>1
<1>8. \A k \in 1 .. size : at + 2 + k - 1 = at + 1 + k /\ k \in 1 .. end - (at + 2) + 1
  <2> USE DEF end
  <2> HIDE DEF size
  <2>1. QED
    BY <1>1
<1>9. QED
  BY <1>3, <1>6, <1>7, <1>8 DEF end

\* Where the record after the one at a place is, or a place behind the file.
Jump(file) == [at \in 0 .. Len(file) |-> IF Record(file, at) THEN After(file, at) ELSE Len(file) + 1]

\* Each jump goes forward, as the recursions over a file need.
LEMMA JumpsOn ==
    ASSUME NEW file \in Seq(Cell)
    PROVE  /\ Jump(file) \in [0 .. Len(file) -> Nat]
           /\ \A at \in 0 .. Len(file) : at < Jump(file)[at]
           /\ \A at \in 0 .. Len(file) : Jump(file)[at] <= Len(file) <=> Record(file, at)
<1>1. Len(file) \in Nat
  BY LenProperties
<1>2. ASSUME NEW at \in 0 .. Len(file)
      PROVE  /\ Jump(file)[at] \in Nat /\ at < Jump(file)[at]
             /\ Jump(file)[at] <= Len(file) <=> Record(file, at)
  <2>1. CASE Record(file, at)
    <3>1. Jump(file)[at] = After(file, at)
      BY <2>1 DEF Jump
    <3>2. After(file, at) \in 0 .. Len(file) /\ at < After(file, at)
      BY <2>1, RecordFacts
    <3>3. QED
      BY <1>1, <2>1, <3>1, <3>2
  <2>2. CASE ~ Record(file, at)
    <3>1. Jump(file)[at] = Len(file) + 1
      BY <2>2 DEF Jump
    <3>2. QED
      BY <1>1, <2>2, <3>1
  <2>3. QED
    BY <2>1, <2>2
<1>3. Jump(file) \in [0 .. Len(file) -> Nat]
  <2>1. Jump(file) = [at \in 0 .. Len(file) |-> Jump(file)[at]]
    BY DEF Jump
  <2>2. QED
    BY <1>2, <2>1
<1>4. QED
  BY <1>2, <1>3

\* Whether the file is of whole records from a place on.
IsOk(file, ok) ==
    ok = [at \in 0 .. Len(file) |->
            \/ at = Len(file)
            \/ /\ file[at + 1].kind = "hdr"
               /\ at + 1 + file[at + 1].size <= Len(file)
               /\ ok[at + 1 + file[at + 1].size]]

\* The function of that equation.
OkOf(file) == CHOOSE ok : IsOk(file, ok)

\* There is such a function, so WellFormed() is what it says.
LEMMA OkExists ==
    ASSUME NEW file \in Seq(Cell)
    PROVE  IsOk(file, OkOf(file)) /\ WellFormed(file) = OkOf(file)[0]
<1> DEFINE l == Len(file)
           B == [at \in 0 .. l |-> at = l]
           G == [at \in 0 .. l |-> [v \in BOOLEAN |-> v]]
<1>1. l \in Nat
  BY LenProperties
<1>2. B \in [0 .. l -> BOOLEAN] /\ G \in [0 .. l -> [BOOLEAN -> BOOLEAN]]
  BY Zenon
<1>3. PICK f \in [0 .. l -> BOOLEAN] :
         \A i \in 0 .. l : f[i] = IF Jump(file)[i] <= l THEN G[i][f[Jump(file)[i]]] ELSE B[i]
  <2> DEFINE J == Jump(file)
             V == BOOLEAN
  <2>1. J \in [0 .. l -> Nat] /\ \A at \in 0 .. l : at < J[at]
    BY JumpsOn
  <2>2. B \in [0 .. l -> V] /\ G \in [0 .. l -> [V -> V]]
    BY <1>2
  <2>3. GoesOn(l, V, J, B, G)
    BY <1>1, <2>1, <2>2 DEF GoesOn
  <2> HIDE DEF B, G, l, J, V
  <2>4. PICK f : Computes(f, l, V, J, B, G)
    BY <2>3, BackwardRecursion
  <2>5. QED
    BY <2>4 DEF Computes, J, V
<1>4. ASSUME NEW at \in 0 .. l
      PROVE  f[at] = (\/ at = l
                      \/ /\ file[at + 1].kind = "hdr"
                         /\ at + 1 + file[at + 1].size <= l
                         /\ f[at + 1 + file[at + 1].size])
  <2>1. CASE Record(file, at)
    <3>1. Jump(file)[at] = After(file, at) /\ After(file, at) \in 0 .. l /\ at # l
      BY <2>1, RecordFacts DEF Jump
    <3>2. f[After(file, at)] \in BOOLEAN
      BY <3>1
    <3>3. G[at][f[After(file, at)]] = f[After(file, at)]
      BY <3>2
    <3>4. Jump(file)[at] <= l
      BY <2>1, JumpsOn
    <3>5. f[at] = f[After(file, at)]
      BY <1>3, <3>1, <3>3, <3>4
    <3>6. file[at + 1].kind = "hdr" /\ at + 1 + file[at + 1].size <= l
      BY <2>1 DEF Record
    <3> HIDE DEF G, B, l
    <3>7. QED
      BY <3>1, <3>2, <3>5, <3>6, Zenon DEF After
  <2>2. CASE ~ Record(file, at)
    <3>1. ~ (Jump(file)[at] <= l)
      BY <2>2, JumpsOn
    <3>2. f[at] = (at = l)
      BY <1>3, <3>1
    <3>3. at = l \/ ~ (file[at + 1].kind = "hdr" /\ at + 1 + file[at + 1].size <= l)
      BY <1>1, <2>2 DEF Record
    <3> HIDE DEF G, B, l
    <3>4. QED
      BY <3>2, <3>3, Zenon
  <2>3. QED
    BY <2>1, <2>2
<1>5. IsOk(file, f)
  <2>1. f = [at \in 0 .. l |-> f[at]]
    BY Zenon
  <2> HIDE DEF B, G
  <2>2. f = [at \in 0 .. l |->
                      (\/ at = l
                      \/ /\ file[at + 1].kind = "hdr"
                         /\ at + 1 + file[at + 1].size <= l
                         /\ f[at + 1 + file[at + 1].size])]
    BY <1>4, <2>1, Zenon
  <2>3. QED
    BY <2>2 DEF IsOk
<1>6. IsOk(file, OkOf(file))
  BY <1>5 DEF OkOf
<1>7. WellFormed(file) = OkOf(file)[0]
  BY Zenon DEF WellFormed, OkOf, IsOk
<1>8. QED
  BY <1>6, <1>7

\* Unfolded once.
LEMMA OkFacts ==
    ASSUME NEW file \in Seq(Cell)
    PROVE  /\ OkOf(file)[Len(file)]
           /\ \A at \in 0 .. Len(file) :
                 OkOf(file)[at] <=>
                    (at = Len(file) \/ (Record(file, at) /\ OkOf(file)[After(file, at)]))
<1> DEFINE ok == OkOf(file)
           l == Len(file)
<1>1. l \in Nat /\ l \in 0 .. l
  BY LenProperties
<1>2. IsOk(file, ok)
  BY OkExists
<1>3. ASSUME NEW at \in 0 .. l
      PROVE  ok[at] = (\/ at = l
                      \/ /\ file[at + 1].kind = "hdr"
                         /\ at + 1 + file[at + 1].size <= l
                         /\ ok[at + 1 + file[at + 1].size])
  <2> HIDE DEF ok
  <2>1. QED
    BY <1>2, Zenon DEF IsOk
<1>4. \A at \in 0 .. l : at = l \/ (at \in Nat /\ at < l)
  BY <1>1
<1>5. ASSUME NEW at \in 0 .. l
      PROVE  ok[at] <=> (at = l \/ (Record(file, at) /\ ok[After(file, at)]))
  <2> HIDE DEF ok, l
  <2>1. Record(file, at) <=> (at \in Nat /\ at < l /\ file[at + 1].kind = "hdr"
                                 /\ at + 1 + file[at + 1].size <= l)
    BY Zenon DEF Record, l
  <2>2. QED
    BY <1>3, <1>4, <2>1, Zenon DEF After
<1>6. QED
  BY <1>1, <1>5

\* A node of the list.
NodeAt == [name : Name \cup {JunkName}, offset : Nat, back : BOOLEAN]

\* The nodes that initEV() links from a place on.
IsWalk(file, from) ==
    from = [at \in 0 .. Len(file) |->
            IF at = Len(file) THEN << >>
            ELSE LET h == file[at + 1] IN
                 IF h.kind # "hdr" THEN << >>
                 ELSE <<Node(h.name, at, at > 0)>>
                      \o (IF at + 1 + h.size > Len(file) THEN << >>
                          ELSE from[at + 1 + h.size])]

\* The function of that equation.
WalkFrom(file) == CHOOSE from : IsWalk(file, from)

\* There is such a function, so Walk() is what it says.
LEMMA WalkExists ==
    ASSUME NEW file \in Seq(Cell)
    PROVE  /\ IsWalk(file, WalkFrom(file)) /\ Walk(file) = WalkFrom(file)[0]
           /\ WalkFrom(file) \in [0 .. Len(file) -> Seq(NodeAt)]
<1> DEFINE l == Len(file)
           V == Seq(NodeAt)
           H(at) == <<Node(file[at + 1].name, at, at > 0)>>
           B == [at \in 0 .. l |-> IF at = l THEN << >>
                                   ELSE IF file[at + 1].kind # "hdr" THEN << >> ELSE H(at)]
           G == [at \in 0 .. l |-> [v \in V |-> IF Record(file, at) THEN H(at) \o v ELSE v]]
           J == Jump(file)
           Eq(at, f) == IF at = l THEN << >>
                        ELSE IF file[at + 1].kind # "hdr" THEN << >>
                        ELSE H(at) \o (IF at + 1 + file[at + 1].size > l THEN << >>
                                       ELSE f[at + 1 + file[at + 1].size])
<1>1. l \in Nat
  BY LenProperties
<1>2. ASSUME NEW at \in 0 .. l, at # l, file[at + 1].kind = "hdr"
      PROVE  H(at) \in V
  <2>1. at \in Nat /\ at + 1 \in 1 .. l
    BY <1>1, <1>2
  <2>2. file[at + 1] \in Cell
    BY <2>1, ElementOfSeq
  <2>3. file[at + 1].name \in Name \cup {JunkName}
    BY <1>2, <2>2, HeaderCell
  <2>4. Node(file[at + 1].name, at, at > 0) \in NodeAt
    BY <2>1, <2>3 DEF Node, NodeAt
  <2>5. QED
    BY <2>4
<1>3. << >> \in V
  OBVIOUS
<1>4. ASSUME NEW at \in 0 .. l, Record(file, at)
      PROVE  H(at) \in V
  BY <1>2, <1>4, RecordFacts DEF Record
<1>5. \A a, b \in V : a \o b \in V
  BY ConcatProperties
<1>6. B \in [0 .. l -> V] /\ G \in [0 .. l -> [V -> V]]
  <2> HIDE DEF V, H, l
  <2>1. B \in [0 .. l -> V]
    BY <1>2, <1>3
  <2>2. G \in [0 .. l -> [V -> V]]
    BY <1>4, <1>5
  <2>3. QED
    BY <2>1, <2>2
<1>7. PICK f : Computes(f, l, V, J, B, G)
  <2>1. J \in [0 .. l -> Nat] /\ \A at \in 0 .. l : at < J[at]
    BY JumpsOn
  <2> HIDE DEF B, G, l, J, V
  <2>2. GoesOn(l, V, J, B, G)
    BY <1>1, <1>6, <2>1 DEF GoesOn
  <2>3. QED
    BY <2>2, BackwardRecursion
<1>8. f \in [0 .. l -> V]
  BY <1>7 DEF Computes
<1>9. ASSUME NEW at \in 0 .. l
      PROVE  f[at] = Eq(at, f)
  <2>0. f[at] = IF J[at] <= l THEN G[at][f[J[at]]] ELSE B[at]
    <3> HIDE DEF B, G, J, V
    <3>1. QED
      BY <1>7 DEF Computes
  <2>1. CASE Record(file, at)
    <3>1. J[at] = After(file, at) /\ After(file, at) \in 0 .. l /\ at # l
      BY <2>1, RecordFacts DEF Jump
    <3>2. f[After(file, at)] \in V
      BY <1>8, <3>1
    <3>3. G[at][f[After(file, at)]] = H(at) \o f[After(file, at)]
      <4> HIDE DEF V, H
      <4>1. QED
        BY <2>1, <3>2
    <3>4. J[at] <= l
      BY <2>1, JumpsOn
    <3>5. file[at + 1].kind = "hdr" /\ ~ (at + 1 + file[at + 1].size > l)
      BY <1>1, <2>1, RecordFacts DEF Record
    <3> HIDE DEF G, B, l, H, J, V
    <3>6. QED
      BY <2>0, <3>1, <3>3, <3>4, <3>5, Zenon DEF After
  <2>2. CASE ~ Record(file, at)
    <3>1. ~ (J[at] <= l)
      BY <2>2, JumpsOn
    <3>2. f[at] = B[at]
      BY <2>0, <3>1
    <3>3. at = l \/ file[at + 1].kind # "hdr" \/ at + 1 + file[at + 1].size > l
      <4>1. CASE at = l \/ file[at + 1].kind # "hdr"
        BY <4>1
      <4>2. CASE ~ (at = l \/ file[at + 1].kind # "hdr")
        <5>1. at \in Nat /\ at < l /\ at + 1 \in 1 .. l
          BY <1>1, <4>2
        <5>2. file[at + 1].size \in Nat
          BY <5>1, <4>2, ElementOfSeq, HeaderCell
        <5>3. ~ (at + 1 + file[at + 1].size <= l)
          BY <2>2, <4>2, <5>1 DEF Record
        <5>4. QED
          BY <1>1, <5>1, <5>2, <5>3
      <4>3. QED
        BY <4>1, <4>2
    <3>4. at # l /\ file[at + 1].kind = "hdr" => H(at) \o << >> = H(at)
      <4>1. SUFFICES ASSUME at # l /\ file[at + 1].kind = "hdr" PROVE H(at) \o << >> = H(at)
        OBVIOUS
      <4>2. H(at) \in V
        BY <1>2, <4>1
      <4> HIDE DEF H
      <4>3. QED
        BY <4>2, ConcatEmptySeq
    <3>5. B[at] = IF at = l THEN << >> ELSE IF file[at + 1].kind # "hdr" THEN << >> ELSE H(at)
      BY Zenon
    <3> HIDE DEF G, B, l, H, J, V
    <3>6. CASE at = l \/ file[at + 1].kind # "hdr"
      BY <3>2, <3>5, <3>6, Zenon
    <3>7. CASE ~ (at = l \/ file[at + 1].kind # "hdr")
      BY <3>2, <3>3, <3>4, <3>5, <3>7, Zenon
    <3>8. QED
      BY <3>6, <3>7
  <2>3. QED
    BY <2>1, <2>2
<1>10. IsWalk(file, f)
  <2> HIDE DEF Eq, V, J, B, G
  <2>1. f = [at \in 0 .. l |-> Eq(at, f)]
    BY <1>8, <1>9, Zenon
  <2>2. QED
    BY <2>1, Zenon DEF IsWalk, Eq
<1>11. IsWalk(file, WalkFrom(file))
  BY <1>10, Zenon DEF WalkFrom
<1>12. Walk(file) = WalkFrom(file)[0]
  BY Zenon DEF Walk, WalkFrom, IsWalk
<1>13. ASSUME NEW w, IsWalk(file, w)
       PROVE  w \in [0 .. l -> V]
  <2> DEFINE P == {at \in 0 .. l : w[at] \in V}
  <2>1. \A at \in 0 .. l : w[at] = Eq(at, w)
    <3> HIDE DEF V
    <3>1. QED
      BY <1>13, Zenon DEF IsWalk
  <2>2. ASSUME NEW i \in 0 .. l, \A j \in 0 .. l : i < j => j \in P
        PROVE  i \in P
    <3>1. CASE i = l \/ file[i + 1].kind # "hdr"
      <4> HIDE DEF V
      <4>1. QED
        BY <1>3, <2>1, <3>1
    <3>2. CASE ~ (i = l \/ file[i + 1].kind # "hdr")
      <4>1. H(i) \in V
        BY <1>2, <3>2
      <4>2. i \in Nat /\ i + 1 \in 1 .. l
        BY <1>1, <3>2
      <4>3. file[i + 1].size \in Nat
        BY <3>2, <4>2, ElementOfSeq, HeaderCell
      <4>4. i + 1 + file[i + 1].size > l \/ w[i + 1 + file[i + 1].size] \in V
        <5> HIDE DEF V
        <5>1. QED
          BY <1>1, <2>2, <4>2, <4>3
      <4>5. w[i] = H(i) \o (IF i + 1 + file[i + 1].size > l THEN << >>
                            ELSE w[i + 1 + file[i + 1].size])
        <5> HIDE DEF V, H
        <5>1. QED
          BY <2>1, <3>2
      <4> HIDE DEF V, H
      <4>6. QED
        BY <1>3, <1>5, <4>1, <4>4, <4>5
    <3>3. QED
      BY <3>1, <3>2
  <2>3. \A i \in 0 .. l : i \in P
    <3> HIDE DEF P, V, l
    <3>1. QED
      BY <1>1, <2>2, Backwards
  <2>4. w = [at \in 0 .. l |-> w[at]]
    <3> HIDE DEF V
    <3>1. QED
      BY <1>13, Zenon DEF IsWalk
  <2> HIDE DEF V
  <2>5. QED
    BY <2>3, <2>4
<1>14. QED
  BY <1>11, <1>12, <1>13

\* One node for each record.
LEMMA WalkFacts ==
    ASSUME NEW file \in Seq(Cell)
    PROVE  /\ Len(WalkFrom(file)[Len(file)]) = 0
           /\ \A at \in 0 .. Len(file) : Len(WalkFrom(file)[at]) \in Nat
           /\ \A at \in 0 .. Len(file) : Record(file, at) =>
                 Len(WalkFrom(file)[at]) = 1 + Len(WalkFrom(file)[After(file, at)])
<1> DEFINE w == WalkFrom(file)
           l == Len(file)
           H(at) == <<Node(file[at + 1].name, at, at > 0)>>
<1>1. l \in Nat /\ l \in 0 .. l
  BY LenProperties
<1>2. IsWalk(file, w) /\ w \in [0 .. l -> Seq(NodeAt)]
  BY WalkExists
<1>3. w[l] = << >>
  <2> HIDE DEF w
  <2>1. QED
    BY <1>1, <1>2, Zenon DEF IsWalk
<1>4. \A at \in 0 .. l : Len(w[at]) \in Nat
  <2> HIDE DEF w
  <2>1. QED
    BY <1>2, LenProperties
<1>5. ASSUME NEW at \in 0 .. l, Record(file, at)
      PROVE  Len(w[at]) = 1 + Len(w[After(file, at)])
  <2>1. /\ at # l /\ at \in Nat /\ After(file, at) \in 0 .. l
        /\ file[at + 1].name \in Name \cup {JunkName}
        /\ file[at + 1].size \in Nat
    BY <1>5, RecordFacts
  <2>2. file[at + 1].kind = "hdr" /\ ~ (at + 1 + file[at + 1].size > l)
    BY <1>1, <1>5, <2>1 DEF Record
  <2>3. w[at] = H(at) \o w[After(file, at)]
    <3> HIDE DEF w
    <3>1. w[at] = (IF at = l THEN << >>
                   ELSE IF file[at + 1].kind # "hdr" THEN << >>
                   ELSE H(at) \o (IF at + 1 + file[at + 1].size > l THEN << >>
                                  ELSE w[at + 1 + file[at + 1].size]))
      BY <1>2, Zenon DEF IsWalk
    <3> HIDE DEF H, l
    <3>2. QED
      BY <2>1, <2>2, <3>1, Zenon DEF After
  <2>4. H(at) \in Seq(NodeAt) /\ Len(H(at)) = 1
    BY <2>1 DEF Node, NodeAt
  <2>5. w[After(file, at)] \in Seq(NodeAt)
    <3> HIDE DEF w
    <3>1. QED
      BY <1>2, <2>1
  <2> DEFINE first == H(at)
             rest == w[After(file, at)]
  <2>6. first \in Seq(NodeAt) /\ Len(first) = 1 /\ rest \in Seq(NodeAt)
    BY <2>4, <2>5
  <2>7. w[at] = first \o rest
    BY <2>3
  <2> HIDE DEF w, H, first, rest
  <2>8. Len(first \o rest) = 1 + Len(rest)
    <3>1. Len(first \o rest) = Len(first) + Len(rest)
      BY <2>6, ConcatProperties, Zenon
    <3>2. QED
      BY <2>6, <3>1
  <2>9. QED
    BY <2>7, <2>8 DEF rest
<1>6. QED
  BY <1>3, <1>4, <1>5

\* What the records from a place on say.
Said == [Name -> Seq(Cell) \cup {Missing}]

\* The dictionary that a file has from a place on.
SaidAt(file, from, at) ==
    IF at = Len(file) THEN EmptyDict
    ELSE LET h == file[at + 1]
             next == at + 1 + (IF h.kind = "hdr" THEN h.size ELSE 0) IN
         IF h.kind # "hdr" \/ next > Len(file) THEN EmptyDict
         ELSE IF h.name \notin Name THEN from[next]
         ELSE [from[next] EXCEPT ![h.name] = DataAt(file, at, h.size)]

IsDict(file, from) == from = [at \in 0 .. Len(file) |-> SaidAt(file, from, at)]

\* The function of that equation.
DictFrom(file) == CHOOSE from : IsDict(file, from)

\* What a record adds to what those behind it say.
Adding(file, at, d) ==
    IF file[at + 1].name \notin Name THEN d
    ELSE [d EXCEPT ![file[at + 1].name] = Datum(file, at)]

\* A dictionary is DictOf() when it is what the records say.
LEMMA DictEq ==
    ASSUME NEW file \in Seq(Cell), NEW from, NEW at \in 0 .. Len(file)
    PROVE  SaidAt(file, from, at)
           = IF Record(file, at) THEN Adding(file, at, from[After(file, at)]) ELSE EmptyDict
<1> DEFINE l == Len(file)
           h == file[at + 1]
           next == at + 1 + (IF h.kind = "hdr" THEN h.size ELSE 0)
           Code == IF at = l THEN EmptyDict
                   ELSE IF h.kind # "hdr" \/ next > l THEN EmptyDict
                   ELSE IF h.name \notin Name THEN from[next]
                   ELSE [from[next] EXCEPT ![h.name] = DataAt(file, at, h.size)]
<1>0. SaidAt(file, from, at) = Code
  BY Zenon DEF SaidAt
<1>1. l \in Nat
  BY LenProperties
<1>2. CASE Record(file, at)
  <2>1. /\ at # l /\ at \in Nat /\ h.size \in Nat
    BY <1>2, RecordFacts
  <2>2. h.kind = "hdr" /\ at + 1 + h.size <= l
    BY <1>2 DEF Record
  <2>3. next = After(file, at)
    BY <2>2, Zenon DEF After
  <2>4. ~ (next > l)
    <3> HIDE DEF h
    <3>1. QED
      BY <1>1, <2>1, <2>2
  <2>5. Adding(file, at, from[After(file, at)]) =
           IF h.name \notin Name THEN from[After(file, at)]
           ELSE [from[After(file, at)] EXCEPT ![h.name] = DataAt(file, at, h.size)]
    BY Zenon DEF Adding, Datum
  <2> HIDE DEF h, next, l
  <2>6. Code = Adding(file, at, from[After(file, at)])
    BY <2>1, <2>2, <2>3, <2>4, <2>5
  <2>7. QED
    BY <1>0, <1>2, <2>6, Zenon
<1>3. CASE ~ Record(file, at)
  <2>1. at = l \/ h.kind # "hdr" \/ next > l
    <3>1. SUFFICES ASSUME at # l, h.kind = "hdr" PROVE next > l
      OBVIOUS
    <3>2. at \in Nat /\ at < l /\ at + 1 \in 1 .. l
      BY <1>1, <3>1
    <3>3. h.size \in Nat
      BY <3>1, <3>2, ElementOfSeq, HeaderCell
    <3>4. ~ (at + 1 + h.size <= l)
      BY <1>3, <3>1, <3>2 DEF Record
    <3>5. next = at + 1 + h.size
      BY <3>1
    <3> HIDE DEF h, next
    <3>6. QED
      BY <1>1, <3>2, <3>3, <3>4, <3>5
  <2> HIDE DEF h, next, l
  <2>2. Code = EmptyDict
    BY <2>1
  <2>3. QED
    BY <1>0, <1>3, <2>2, Zenon
<1>4. QED
  BY <1>2, <1>3

\* Adding a record gives a dictionary.
LEMMA AddingTyped ==
    ASSUME NEW file \in Seq(Cell), NEW at, Record(file, at), NEW d \in Said
    PROVE  /\ Adding(file, at, d) \in Said
           /\ \A nm \in Name : Adding(file, at, d)[nm] =
                 IF nm = file[at + 1].name THEN Datum(file, at) ELSE d[nm]
<1>1. Datum(file, at) \in Seq(Cell) \cup {Missing}
  BY DatumFacts
<1> DEFINE x == Datum(file, at)
           m == file[at + 1].name
<1>2. Adding(file, at, d) = IF m \notin Name THEN d ELSE [d EXCEPT ![m] = x]
  BY Zenon DEF Adding
<1> HIDE DEF x, m
<1>3. QED
  BY <1>1, <1>2 DEF Said, x, m

\* There is such a function, so DictOf() is what it says.
LEMMA DictExists ==
    ASSUME NEW file \in Seq(Cell)
    PROVE  /\ DictOf(file) = DictFrom(file)[0]
           /\ DictFrom(file) \in [0 .. Len(file) -> Said]
           /\ \A at \in 0 .. Len(file) :
                 DictFrom(file)[at] = IF Record(file, at)
                                      THEN Adding(file, at, DictFrom(file)[After(file, at)])
                                      ELSE EmptyDict
<1> DEFINE l == Len(file)
           B == [at \in 0 .. l |-> EmptyDict]
           G == [at \in 0 .. l |-> [v \in Said |-> IF Record(file, at) THEN Adding(file, at, v) ELSE v]]
           J == Jump(file)
           Eq(at, f) == IF Record(file, at) THEN Adding(file, at, f[After(file, at)]) ELSE EmptyDict
<1>1. l \in Nat
  BY LenProperties
<1>2. EmptyDict \in Said
  BY DEF EmptyDict, Said
<1>3. B \in [0 .. l -> Said] /\ G \in [0 .. l -> [Said -> Said]]
  <2>1. \A at \in 0 .. l : \A v \in Said : Record(file, at) => Adding(file, at, v) \in Said
    BY AddingTyped
  <2> HIDE DEF l
  <2>2. QED
    BY <1>2, <2>1
<1>4. PICK f : Computes(f, l, Said, J, B, G)
  <2>1. J \in [0 .. l -> Nat] /\ \A at \in 0 .. l : at < J[at]
    BY JumpsOn
  <2> HIDE DEF B, G, l, J
  <2>2. GoesOn(l, Said, J, B, G)
    BY <1>1, <1>3, <2>1 DEF GoesOn
  <2>3. QED
    BY <2>2, BackwardRecursion
<1>5. f \in [0 .. l -> Said]
  BY <1>4 DEF Computes
<1>6. ASSUME NEW at \in 0 .. l
      PROVE  f[at] = Eq(at, f)
  <2>0. f[at] = IF J[at] <= l THEN G[at][f[J[at]]] ELSE B[at]
    <3> HIDE DEF B, G, J
    <3>1. QED
      BY <1>4 DEF Computes
  <2>1. CASE Record(file, at)
    <3>1. J[at] = After(file, at) /\ After(file, at) \in 0 .. l
      BY <2>1, RecordFacts DEF Jump
    <3>2. f[After(file, at)] \in Said
      BY <1>5, <3>1
    <3>3. G[at][f[After(file, at)]] = Adding(file, at, f[After(file, at)])
      BY <2>1, <3>2
    <3>4. J[at] <= l
      BY <2>1, JumpsOn
    <3> HIDE DEF G, B, l, J
    <3>5. QED
      BY <2>0, <2>1, <3>1, <3>3, <3>4, Zenon
  <2>2. CASE ~ Record(file, at)
    <3>1. ~ (J[at] <= l)
      BY <2>2, JumpsOn
    <3>2. f[at] = B[at]
      BY <2>0, <3>1
    <3>3. QED
      BY <2>2, <3>2
  <2>3. QED
    BY <2>1, <2>2
<1>7. \A g : IsDict(file, g) <=> g = [at \in 0 .. l |-> Eq(at, g)]
  <2>1. SUFFICES ASSUME NEW g PROVE IsDict(file, g) <=> g = [at \in 0 .. l |-> Eq(at, g)]
    OBVIOUS
  <2> DEFINE F == [at \in 0 .. Len(file) |-> SaidAt(file, g, at)]
  <2>2. F = [at \in 0 .. l |-> Eq(at, g)]
    <3>1. ASSUME NEW at \in 0 .. l PROVE F[at] = Eq(at, g)
      <4>1. F[at] = SaidAt(file, g, at)
        BY Zenon
      <4>2. SaidAt(file, g, at) = Eq(at, g)
        BY DictEq
      <4> HIDE DEF F, Eq
      <4>3. QED
        BY <4>1, <4>2
    <3>2. F = [at \in 0 .. l |-> F[at]]
      BY Zenon
    <3> HIDE DEF F, Eq
    <3>3. QED
      BY <3>1, <3>2, Zenon
  <2>3. IsDict(file, g) <=> g = F
    BY Zenon DEF IsDict
  <2> HIDE DEF F
  <2>4. QED
    BY <2>2, <2>3
<1>8. IsDict(file, f)
  <2>1. f = [at \in 0 .. l |-> Eq(at, f)]
    <3> HIDE DEF Eq
    <3>1. QED
      BY <1>5, <1>6, Zenon
  <2> HIDE DEF Eq
  <2>2. QED
    BY <1>7, <2>1
<1>9. IsDict(file, DictFrom(file))
  BY <1>8, Zenon DEF DictFrom
<1>10. ASSUME NEW w, IsDict(file, w)
       PROVE  w \in [0 .. l -> Said] /\ \A at \in 0 .. l : w[at] = Eq(at, w)
  <2>1. w = [at \in 0 .. l |-> Eq(at, w)]
    BY <1>7, <1>10
  <2>2. \A at \in 0 .. l : w[at] = Eq(at, w)
    <3> HIDE DEF Eq
    <3>1. QED
      BY <2>1, Zenon
  <2> DEFINE P == {at \in 0 .. l : w[at] \in Said}
  <2>3. ASSUME NEW i \in 0 .. l, \A j \in 0 .. l : i < j => j \in P
        PROVE  i \in P
    <3>1. CASE Record(file, i)
      <4>1. After(file, i) \in 0 .. l /\ i < After(file, i)
        BY <3>1, RecordFacts
      <4>2. w[After(file, i)] \in Said
        BY <2>3, <4>1
      <4>3. w[i] = Adding(file, i, w[After(file, i)])
        BY <2>2, <3>1
      <4>4. QED
        BY <3>1, <4>2, <4>3, AddingTyped
    <3>2. CASE ~ Record(file, i)
      BY <1>2, <2>2, <3>2
    <3>3. QED
      BY <3>1, <3>2
  <2>4. \A i \in 0 .. l : i \in P
    <3> HIDE DEF P, l
    <3>1. QED
      BY <1>1, <2>3, Backwards
  <2>5. w = [at \in 0 .. l |-> w[at]]
    <3> HIDE DEF Eq
    <3>1. QED
      BY <2>1, Zenon
  <2>6. QED
    BY <2>2, <2>4, <2>5
<1>11. DictOf(file) = DictFrom(file)[0]
  BY Zenon DEF DictOf, DictFrom, IsDict, SaidAt
<1>12. QED
  <2> HIDE DEF Eq
  <2>1. DictFrom(file) \in [0 .. l -> Said] /\ \A at \in 0 .. l : DictFrom(file)[at] = Eq(at, DictFrom(file))
    BY <1>9, <1>10
  <2>2. QED
    BY <1>11, <2>1 DEF Eq

(***************************************************************************)
(* Writing a record behind a file.                                         *)
(***************************************************************************)

\* The file has the other at its start.
Extends(f, g) == g \in Seq(Cell) /\ Len(f) <= Len(g) /\ \A i \in 1 .. Len(f) : g[i] = f[i]

\* A file in which another is continued has its records.
LEMMA RecordStays ==
    ASSUME NEW f \in Seq(Cell), NEW g, Extends(f, g), NEW at, Record(f, at)
    PROVE  /\ Record(g, at) /\ After(g, at) = After(f, at)
           /\ g[at + 1] = f[at + 1]
           /\ Datum(g, at) = Datum(f, at)
<1>0. g \in Seq(Cell) /\ Len(f) <= Len(g) /\ \A i \in 1 .. Len(f) : g[i] = f[i]
  BY DEF Extends
<1>1. Len(f) \in Nat /\ Len(g) \in Nat
  BY <1>0, LenProperties
<1>2. /\ at \in Nat /\ at < Len(f) /\ f[at + 1].size \in Nat
      /\ at + 1 + f[at + 1].size <= Len(f)
  BY RecordFacts DEF Record
<1>3. at + 1 \in 1 .. Len(f)
  BY <1>1, <1>2
<1>4. g[at + 1] = f[at + 1]
  BY <1>0, <1>3
<1>5. at < Len(g) /\ at + 1 + f[at + 1].size <= Len(g)
  BY <1>0, <1>1, <1>2
<1>6. f[at + 1].kind = "hdr"
  BY DEF Record
<1>7. Record(g, at)
  BY <1>2, <1>4, <1>5, <1>6, Zenon DEF Record
<1>8. After(g, at) = After(f, at)
  BY <1>4 DEF After
<1> DEFINE size == f[at + 1].size
           df == Datum(f, at)
           dg == Datum(g, at)
<1>9. /\ df \in Seq(Cell) /\ Len(df) = size
      /\ \A k \in 1 .. size : df[k] = f[at + 1 + k]
  BY DatumFacts
<1>10. /\ dg \in Seq(Cell) /\ Len(dg) = size
       /\ \A k \in 1 .. size : dg[k] = g[at + 1 + k]
  <2>1. /\ dg \in Seq(Cell) /\ Len(dg) = g[at + 1].size
        /\ \A k \in 1 .. g[at + 1].size : dg[k] = g[at + 1 + k]
    BY <1>0, <1>7, DatumFacts, Zenon
  <2> HIDE DEF dg
  <2>2. QED
    BY <1>4, <2>1
<1>11. \A k \in 1 .. size : at + 1 + k \in 1 .. Len(f)
  <2> HIDE DEF df, dg
  <2>1. QED
    BY <1>1, <1>2
<1>12. \A k \in 1 .. size : dg[k] = df[k]
  <2> HIDE DEF df, dg, size
  <2>1. QED
    BY <1>0, <1>9, <1>10, <1>11
<1>13. dg = df
  <2> HIDE DEF df, dg, size
  <2>1. QED
    BY <1>9, <1>10, <1>12, SeqEqual
<1>14. QED
  BY <1>4, <1>7, <1>8, <1>13

\* One more record is behind the others.
Continues(f, g, nm, data) ==
    /\ f \in Seq(Cell) /\ g \in Seq(Cell)
    /\ nm \in Name \cup {JunkName} /\ data \in Seq(Cell)
    /\ Len(g) = Len(f) + 1 + Len(data)
    /\ \A i \in 1 .. Len(f) : g[i] = f[i]
    /\ Record(g, Len(f)) /\ After(g, Len(f)) = Len(g)
    /\ g[Len(f) + 1].name = nm
    /\ Datum(g, Len(f)) = data

\* A record at the end of the file is found when the file is walked.
LEMMA AppendedRecord ==
    ASSUME NEW f \in Seq(Cell), NEW nm \in Name \cup {JunkName}, NEW data \in Seq(Cell),
           Len(data) <= MaxLen
    PROVE  /\ EvRecord(nm, data) \in Seq(Cell)
           /\ Continues(f, f \o EvRecord(nm, data), nm, data)
<1> DEFINE h == Hdr(nm, Len(data))
           r == EvRecord(nm, data)
           g == f \o r
           l == Len(f)
           s == Len(data)
           hs == <<h>>
<1>1. l \in Nat /\ s \in Nat
  BY LenProperties
<1>2. h \in Cell /\ h.kind = "hdr" /\ h.name = nm /\ h.size = s
  BY <1>1, HeaderIsCell
<1>3. /\ r \in Seq(Cell) /\ Len(r) = 1 + s /\ r[1] = h
      /\ \A k \in 1 .. s : r[1 + k] = data[k]
  <2>1. hs \in Seq(Cell) /\ Len(hs) = 1 /\ hs[1] = h
    BY <1>2
  <2>2. r = hs \o data
    BY DEF EvRecord
  <2> HIDE DEF hs, h, r
  <2>3. /\ hs \o data \in Seq(Cell) /\ Len(hs \o data) = Len(hs) + s
        /\ \A i \in 1 .. Len(hs) + s : (hs \o data)[i] =
                     IF i <= Len(hs) THEN hs[i] ELSE data[i - Len(hs)]
    BY <2>1, ConcatProperties
  <2> HIDE DEF s
  <2>4. /\ r \in Seq(Cell) /\ Len(r) = 1 + s
        /\ \A i \in 1 .. 1 + s : r[i] = IF i <= 1 THEN h ELSE data[i - 1]
    BY <2>1, <2>2, <2>3
  <2>5. \A k \in 1 .. s : 1 + k \in 1 .. 1 + s /\ ~ (1 + k <= 1) /\ 1 + k - 1 = k
    BY <1>1
  <2>6. 1 \in 1 .. 1 + s
    BY <1>1
  <2>7. QED
    BY <2>4, <2>5, <2>6
<1>4. /\ g \in Seq(Cell) /\ Len(g) = l + (1 + s)
      /\ \A i \in 1 .. l : g[i] = f[i]
      /\ g[l + 1] = h
      /\ \A k \in 1 .. s : g[l + 1 + k] = data[k]
  <2> HIDE DEF h, r, s
  <2>0. /\ f \o r \in Seq(Cell) /\ Len(f \o r) = Len(f) + Len(r)
        /\ \A i \in 1 .. Len(f) + Len(r) : (f \o r)[i] = IF i <= Len(f) THEN f[i] ELSE r[i - Len(f)]
    BY <1>3, ConcatProperties
  <2>1. /\ g \in Seq(Cell) /\ Len(g) = l + (1 + s)
        /\ \A i \in 1 .. l + (1 + s) : g[i] = IF i <= l THEN f[i] ELSE r[i - l]
    <3>1. Len(r) = 1 + s
      BY <1>3
    <3>2. QED
      BY <2>0, <3>1
  <2> HIDE DEF g, l
  <2>2. \A i \in 1 .. l : i \in 1 .. l + (1 + s) /\ i <= l
    BY <1>1
  <2>3. l + 1 \in 1 .. l + (1 + s) /\ ~ (l + 1 <= l) /\ l + 1 - l = 1
    BY <1>1
  <2>4. \A k \in 1 .. s : l + 1 + k \in 1 .. l + (1 + s) /\ ~ (l + 1 + k <= l) /\ l + 1 + k - l = 1 + k
    BY <1>1
  <2>5. \A i \in 1 .. l : g[i] = f[i]
    BY <2>1, <2>2
  <2>6. g[l + 1] = r[1]
    BY <1>1, <2>1, <2>3
  <2>7. \A k \in 1 .. s : g[l + 1 + k] = r[1 + k]
    BY <1>1, <2>1, <2>4
  <2>8. QED
    BY <1>3, <2>1, <2>5, <2>6, <2>7
<1> HIDE DEF h, r, g, l, s
<1>5. Record(g, l)
  <2>1. l < Len(g) /\ l + 1 + s <= Len(g)
    BY <1>1, <1>4
  <2>2. QED
    BY <1>1, <1>2, <1>4, <2>1 DEF Record
<1>6. After(g, l) = Len(g) /\ Len(g) = l + 1 + s
  BY <1>1, <1>2, <1>4 DEF After
<1>7. Datum(g, l) = data
  <2> DEFINE d == Datum(g, l)
  <2>1. /\ d \in Seq(Cell) /\ Len(d) = g[l + 1].size
        /\ \A k \in 1 .. g[l + 1].size : d[k] = g[l + 1 + k]
    BY <1>4, <1>5, DatumFacts
  <2> HIDE DEF d
  <2>2. Len(d) = s /\ \A k \in 1 .. s : d[k] = data[k]
    BY <1>2, <1>4, <2>1
  <2>3. d = data
    BY <2>1, <2>2, SeqEqual DEF s
  <2>4. QED
    BY <2>3 DEF d
<1>8. QED
  BY <1>2, <1>3, <1>4, <1>5, <1>6, <1>7 DEF Continues, l, g, s, r

\* What is said when a record comes last.
Then(d, nm, data) ==
    [m \in Name |-> IF m = nm /\ d[m] = Missing THEN data ELSE d[m]]

\* What a file says when records are added at its end.
LEMMA ContinuedFacts ==
    ASSUME NEW f, NEW g, NEW nm, NEW data, Continues(f, g, nm, data), WellFormed(f)
    PROVE  /\ WellFormed(g)
           /\ Len(Walk(g)) = Len(Walk(f)) + 1
           /\ DictOf(g) = Then(DictOf(f), nm, data)
<1> DEFINE l == Len(f)
           Fact(at) == /\ OkOf(g)[at]
                       /\ Len(WalkFrom(g)[at]) = Len(WalkFrom(f)[at]) + 1
                       /\ DictFrom(g)[at] = Then(DictFrom(f)[at], nm, data)
           P == {at \in 0 .. l : OkOf(f)[at] => Fact(at)}
<1>1. /\ f \in Seq(Cell) /\ g \in Seq(Cell) /\ data \in Seq(Cell)
      /\ l \in Nat /\ Len(g) \in Nat /\ l <= Len(g)
      /\ \A i \in 1 .. l : g[i] = f[i]
      /\ Record(g, l) /\ After(g, l) = Len(g) /\ g[l + 1].name = nm /\ Datum(g, l) = data
  <2>1. Len(data) \in Nat /\ Len(f) \in Nat
    BY LenProperties DEF Continues
  <2>2. Len(g) = l + 1 + Len(data)
    BY DEF Continues
  <2>3. Len(g) \in Nat /\ l <= Len(g)
    BY <2>1, <2>2
  <2>4. QED
    BY <2>1, <2>3 DEF Continues
<1>2. Fact(l)
  <2>1. l \in 0 .. Len(g) /\ Len(g) \in 0 .. Len(g) /\ l \in 0 .. l
    BY <1>1
  <2>2. OkOf(g)[l]
    BY <1>1, <2>1, OkFacts
  <2>3. Len(WalkFrom(g)[l]) = Len(WalkFrom(f)[l]) + 1
    <3>1. Len(WalkFrom(g)[l]) = 1 + Len(WalkFrom(g)[Len(g)])
      BY <1>1, <2>1, WalkFacts
    <3>2. Len(WalkFrom(g)[Len(g)]) = 0 /\ Len(WalkFrom(f)[l]) = 0
      BY <1>1, WalkFacts
    <3>3. QED
      BY <3>1, <3>2
  <2>4. DictFrom(g)[l] = Then(DictFrom(f)[l], nm, data)
    <3>1. ~ Record(g, Len(g)) /\ ~ Record(f, l)
      BY <1>1 DEF Record
    <3>2. DictFrom(g)[Len(g)] = EmptyDict /\ DictFrom(f)[l] = EmptyDict
      BY <1>1, <2>1, <3>1, DictExists
    <3>3. DictFrom(g)[l] = Adding(g, l, EmptyDict)
      BY <1>1, <2>1, <3>2, DictExists
    <3>4. EmptyDict \in Said /\ \A m \in Name : EmptyDict[m] = Missing
      BY DEF EmptyDict, Said
    <3>5. /\ Adding(g, l, EmptyDict) \in Said
          /\ \A m \in Name : Adding(g, l, EmptyDict)[m] = IF m = nm THEN data ELSE EmptyDict[m]
      BY <1>1, <3>4, AddingTyped
    <3>6. Adding(g, l, EmptyDict) = Then(EmptyDict, nm, data)
      <4> DEFINE ad == Adding(g, l, EmptyDict)
      <4>1. ad = [m \in Name |-> ad[m]]
        BY <3>5 DEF Said
      <4> HIDE DEF ad
      <4>2. QED
        BY <3>4, <3>5, <4>1 DEF Then, ad
    <3>7. QED
      BY <3>2, <3>3, <3>6
  <2>5. QED
    BY <2>2, <2>3, <2>4
<1>3. ASSUME NEW at \in 0 .. l, \A j \in 0 .. l : at < j => j \in P
      PROVE  at \in P
  <2>1. SUFFICES ASSUME OkOf(f)[at], at # l PROVE Fact(at)
    <3> HIDE DEF Fact, l
    <3>1. QED
      BY <1>2, <2>1
  <2>2. Record(f, at) /\ OkOf(f)[After(f, at)]
    BY <1>1, <2>1, OkFacts
  <2> DEFINE next == After(f, at)
  <2>3. next \in 0 .. l /\ at < next
    BY <1>1, <2>2, RecordFacts
  <2>4. Fact(next)
    <3> HIDE DEF Fact, l, next
    <3>1. QED
      BY <1>3, <2>2, <2>3 DEF next
  <2>5. /\ Record(g, at) /\ After(g, at) = next
        /\ g[at + 1] = f[at + 1] /\ Datum(g, at) = Datum(f, at)
    <3>1. Extends(f, g)
      BY <1>1 DEF Extends
    <3>2. QED
      BY <1>1, <2>2, <3>1, RecordStays
  <2>6. at \in 0 .. Len(g) /\ next \in 0 .. Len(g)
    <3> HIDE DEF next
    <3>1. QED
      BY <1>1, <2>3
  <2>7. OkOf(g)[at]
    BY <1>1, <2>4, <2>5, <2>6, OkFacts
  <2>8. Len(WalkFrom(g)[at]) = Len(WalkFrom(f)[at]) + 1
    <3>1. Len(WalkFrom(g)[at]) = 1 + Len(WalkFrom(g)[next])
      BY <1>1, <2>5, <2>6, WalkFacts
    <3>2. Len(WalkFrom(f)[at]) = 1 + Len(WalkFrom(f)[next])
      BY <1>1, <2>2, WalkFacts
    <3>3. Len(WalkFrom(f)[next]) \in Nat
      BY <1>1, <2>3, WalkFacts
    <3> HIDE DEF next
    <3>4. QED
      BY <2>4, <3>1, <3>2, <3>3
  <2>9. DictFrom(g)[at] = Then(DictFrom(f)[at], nm, data)
    <3> DEFINE dg == DictFrom(g)[next]
               df == DictFrom(f)[next]
               m0 == f[at + 1].name
               x == Datum(f, at)
    <3>1. DictFrom(g)[at] = Adding(g, at, dg) /\ DictFrom(f)[at] = Adding(f, at, df)
      BY <1>1, <2>2, <2>5, <2>6, DictExists
    <3>2. dg \in Said /\ df \in Said
      BY <1>1, <2>3, <2>6, DictExists
    <3>3. /\ Adding(g, at, dg) \in Said
          /\ \A m \in Name : Adding(g, at, dg)[m] = IF m = m0 THEN x ELSE dg[m]
      BY <1>1, <2>5, <3>2, AddingTyped
    <3>4. \A m \in Name : Adding(f, at, df)[m] = IF m = m0 THEN x ELSE df[m]
      BY <1>1, <2>2, <3>2, AddingTyped
    <3>5. \A m \in Name : dg[m] = IF m = nm /\ df[m] = Missing THEN data ELSE df[m]
      BY <2>4 DEF Then
    <3>6. x # Missing
      BY <1>1, <2>2, DatumFacts, EvAssumption
    <3> DEFINE ag == Adding(g, at, dg)
               af == Adding(f, at, df)
    <3>7. ag = [m \in Name |-> ag[m]]
      BY <3>3 DEF Said
    <3> HIDE DEF x, m0, dg, df, ag, af
    <3>8. \A m \in Name : ag[m] = IF m = nm /\ af[m] = Missing THEN data ELSE af[m]
      BY <3>3, <3>4, <3>5, <3>6 DEF ag, af
    <3>9. ag = Then(af, nm, data)
      BY <3>7, <3>8 DEF Then
    <3>10. QED
      BY <3>1, <3>9 DEF ag, af
  <2>10. QED
    BY <2>7, <2>8, <2>9
<1>4. 0 \in P
  <2>1. \A i \in 0 .. l : i \in P
    <3> HIDE DEF P, l
    <3>1. QED
      BY <1>1, <1>3, Backwards
  <2>2. 0 \in 0 .. l
    BY <1>1
  <2> HIDE DEF P, l
  <2>3. QED
    BY <2>1, <2>2
<1>5. OkOf(f)[0]
  BY <1>1, OkExists
<1>6. Fact(0)
  <2> HIDE DEF Fact
  <2>1. QED
    BY <1>4, <1>5
<1>7. QED
  BY <1>1, <1>6, OkExists, WalkExists, DictExists

\* An empty file says nothing.
LEMMA EmptyFile ==
    /\ << >> \in Seq(Cell) /\ WellFormed(<< >>) /\ Len(Walk(<< >>)) = 0
    /\ DictOf(<< >>) = EmptyDict
<1>1. << >> \in Seq(Cell) /\ Len(<< >>) = 0
  BY EmptySeq
<1>2. WellFormed(<< >>)
  BY <1>1, OkExists, OkFacts
<1>3. Len(Walk(<< >>)) = 0
  <2>1. Walk(<< >>) = WalkFrom(<< >>)[0]
    BY <1>1, WalkExists
  <2>2. Len(WalkFrom(<< >>)[Len(<< >>)]) = 0
    BY <1>1, WalkFacts
  <2>3. QED
    BY <1>1, <2>1, <2>2
<1>4. ~ Record(<< >>, 0) /\ 0 \in 0 .. Len(<< >>)
  BY <1>1 DEF Record
<1>5. DictOf(<< >>) = EmptyDict
  BY <1>1, <1>4, DictExists
<1>6. QED
  BY <1>1, <1>2, <1>3, <1>5

(***************************************************************************)
(* Types.                                                                  *)
(***************************************************************************)

\* What the host asked for.
Operation == [cmd : {"none", "set", "del"}, name : Name \cup {JunkName}, data : Data \cup {<< >>}]

\* A set or a delete is being carried out.
Changing ==
    /\ op.cmd \in {"set", "del"} /\ op.name \in Name
    /\ op.data = << >> \/ op.data \in Data
    /\ op.cmd = "set" => op.data \in Data

\* The files.
FilesTyped ==
    /\ evs \in Seq(Cell) \cup {Absent} /\ tmp \in Seq(Cell) \cup {Absent}
    /\ evs = Absent => tmp # Absent /\ pc \in {"idle", "create"}
    /\ pc \in {"create", "copy", "close"} => tmp # Absent
    /\ pc = "create" => evs = Absent

\* Where the daemon is.
StepTyped ==
    /\ pc \in {"load", "idle", "create", "copy", "close", "remove"}
    /\ pc \in {"create", "copy", "close", "remove"} => Changing
    /\ n \in Nat /\ off \in Nat
    /\ pc = "copy" => n \in 1 .. Len(list) + 1
    /\ pc \in {"create", "copy"} /\ op.cmd = "del" => Named(op.name) # {}

\* What a rewrite has in hand.
RewriteTyped ==
    /\ out \in Seq(Cell) /\ buf \in [1 .. MaxLen -> Cell]
    /\ e = Absent \/ e \in Header
    /\ pc \in {"load", "idle", "create"} => out = << >>

\* The types, in the detail that the proofs need.
TypeInv == FilesTyped /\ list \in Seq(NodeAt) /\ StepTyped /\ RewriteTyped

\* They imply the type invariant of the module.
LEMMA TypeInvTypes == TypeInv => EvTypeOK
<1>1. SUFFICES ASSUME TypeInv PROVE EvTypeOK
  OBVIOUS
<1>2. \A k \in DOMAIN list : list[k] \in NodeAt
  BY <1>1 DEF TypeInv
<1>3. \A k \in DOMAIN list :
          /\ list[k].name \in Name \cup {JunkName}
          /\ list[k].offset \in Nat /\ list[k].back \in BOOLEAN
  BY <1>2 DEF NodeAt
<1>4. e = Absent \/ e \in Cell
  BY <1>1 DEF TypeInv, RewriteTyped, Cell
<1>5. QED
  BY <1>1, <1>3, <1>4 DEF TypeInv, FilesTyped, StepTyped, RewriteTyped, EvTypeOK, IsFile

\* No file and no header is Absent.
LEMMA AbsentIsNone == Absent \notin Seq(Cell) /\ Absent \notin Header
BY EvAssumption DEF Cell

\* A buffer of junk is a sequence of cells.
LEMMA JunkTyped ==
    /\ JunkBuf \in [1 .. MaxLen -> Cell]
    /\ Hdr(JunkName, 0) \in Header /\ Hdr(JunkName, MaxLen) \in Header
<1>1. JunkBuf \in [1 .. MaxLen -> Cell]
  BY DEF JunkBuf, Cell
<1>2. Hdr(JunkName, 0) \in Header /\ Hdr(JunkName, MaxLen) \in Header
  BY LongestDatum, HeaderIsCell
<1>3. QED
  BY <1>1, <1>2

\* What is read as a header has a name and a size.
LEMMA HeadersTyped ==
    ASSUME NEW file \in Seq(Cell), NEW at \in Nat
    PROVE  HeadersAt(file, at) \subseteq Header
<1>1. CASE at >= Len(file)
  BY <1>1 DEF HeadersAt
<1>2. CASE ~ (at >= Len(file))
  <2>1. at + 1 \in 1 .. Len(file)
    BY <1>2, LenProperties
  <2>2. file[at + 1] \in Cell
    BY <2>1, ElementOfSeq
  <2>3. CASE file[at + 1].kind = "hdr"
    BY <1>2, <2>2, <2>3, HeaderCell DEF HeadersAt
  <2>4. CASE file[at + 1].kind # "hdr"
    BY <1>2, <2>4, JunkTyped DEF HeadersAt
  <2>5. QED
    BY <2>3, <2>4
<1>3. QED
  BY <1>1, <1>2

\* What is read as data is a sequence of cells.
LEMMA DataTyped ==
    ASSUME NEW file \in Seq(Cell), NEW at \in Nat, NEW size \in Nat
    PROVE  DataAt(file, at, size) \in Seq(Cell)
<1> DEFINE m == Min({at + 1 + size, Len(file)})
<1>1. Len(file) \in Nat
  BY LenProperties
<1>2. m \in Nat /\ m <= Len(file)
  <2>1. CASE at + 1 + size <= Len(file)
    <3>1. \A x \in {at + 1 + size, Len(file)} :
             (\A y \in {at + 1 + size, Len(file)} : x <= y) => x = at + 1 + size
      BY <1>1, <2>1
    <3>2. m = at + 1 + size
      BY <1>1, <2>1, <3>1 DEF Min
    <3>3. QED
      BY <1>1, <2>1, <3>2
  <2>2. CASE ~ (at + 1 + size <= Len(file))
    <3>1. \A x \in {at + 1 + size, Len(file)} :
             (\A y \in {at + 1 + size, Len(file)} : x <= y) => x = Len(file)
      BY <1>1, <2>2
    <3>2. m = Len(file)
      BY <1>1, <2>2, <3>1 DEF Min
    <3>3. QED
      BY <1>1, <3>2
  <2>3. QED
    BY <2>1, <2>2
<1> HIDE DEF m
<1>3. \A i \in at + 2 .. m : file[i] \in Cell
  <2>1. \A i \in at + 2 .. m : i \in 1 .. Len(file)
    BY <1>1, <1>2
  <2>2. QED
    BY <2>1, ElementOfSeq
<1>4. SubSeq(file, at + 2, m) \in Seq(Cell)
  <2>1. at + 2 \in Int /\ m \in Int
    BY <1>2
  <2>2. QED
    BY <1>3, <2>1, SubSeqProperties
<1>5. QED
  BY <1>4 DEF DataAt, m

\* The first cells of the buffer.
LEMMA BufferTyped ==
    ASSUME NEW b \in [1 .. MaxLen -> Cell], NEW size \in Nat, size <= MaxLen
    PROVE  SubSeq(b, 1, size) \in Seq(Cell) /\ Len(SubSeq(b, 1, size)) = size
           /\ \A k \in 1 .. size : SubSeq(b, 1, size)[k] = b[k]
<1>1. MaxLen \in Nat
  BY LongestDatum
<1>2. \A i \in 1 .. size : b[i] \in Cell
  BY <1>1
<1>3. 1 \in Int /\ size \in Int
  OBVIOUS
<1>4. /\ SubSeq(b, 1, size) \in Seq(Cell)
      /\ Len(SubSeq(b, 1, size)) = IF 1 <= size THEN size - 1 + 1 ELSE 0
      /\ \A i \in 1 .. size - 1 + 1 : SubSeq(b, 1, size)[i] = b[1 + i - 1]
  BY <1>2, <1>3, SubSeqProperties
<1>5. (IF 1 <= size THEN size - 1 + 1 ELSE 0) = size /\ size - 1 + 1 = size
  OBVIOUS
<1>6. \A k \in 1 .. size : 1 + k - 1 = k
  OBVIOUS
<1>7. QED
  BY <1>4, <1>5, <1>6

\* What a short read leaves in the buffer is a sequence of cells.
LEMMA FilledTyped ==
    ASSUME buf \in [1 .. MaxLen -> Cell], NEW data \in Seq(Cell)
    PROVE  /\ Filled(data) \in [1 .. MaxLen -> Cell]
           /\ \A k \in 1 .. MaxLen : k <= Len(data) => Filled(data)[k] = data[k]
<1>1. Len(data) \in Nat /\ MaxLen \in Nat
  BY LenProperties, LongestDatum
<1>2. \A k \in 1 .. MaxLen : k <= Len(data) => k \in 1 .. Len(data)
  BY <1>1
<1>3. \A k \in 1 .. MaxLen : k <= Len(data) => data[k] \in Cell
  BY <1>2, ElementOfSeq
<1>4. QED
  BY <1>3 DEF Filled

\* What is read is written.
LEMMA FilledWhole ==
    ASSUME buf \in [1 .. MaxLen -> Cell], NEW data \in Seq(Cell), Len(data) <= MaxLen
    PROVE  SubSeq(Filled(data), 1, Len(data)) = data
<1> DEFINE s == SubSeq(Filled(data), 1, Len(data))
           l == Len(data)
<1>1. l \in Nat /\ MaxLen \in Nat /\ \A k \in 1 .. l : k \in 1 .. MaxLen /\ k <= l
  BY LenProperties, LongestDatum
<1>2. /\ Filled(data) \in [1 .. MaxLen -> Cell]
      /\ \A k \in 1 .. MaxLen : k <= l => Filled(data)[k] = data[k]
  BY FilledTyped
<1>3. s \in Seq(Cell) /\ Len(s) = l /\ \A k \in 1 .. l : s[k] = Filled(data)[k]
  BY <1>1, <1>2, BufferTyped
<1> HIDE DEF s
<1>4. \A k \in 1 .. l : s[k] = data[k]
  BY <1>1, <1>2, <1>3
<1>5. s = data
  BY <1>3, <1>4, SeqEqual
<1>6. QED
  BY <1>5 DEF s
\* Of the places of a name in the list there is a first and a last.
LEMMA FirstAndLast ==
    ASSUME NEW m \in Nat, NEW T \in SUBSET (1 .. m), T # {}
    PROVE  /\ Min(T) \in T /\ \A k \in T : Min(T) <= k
           /\ Max(T) \in T /\ \A k \in T : k <= Max(T)
<1>1. T \in SUBSET Nat
  OBVIOUS
<1>2. PICK lo \in T : \A k \in T : lo <= k
  BY <1>1, LeastElement
<1>3. Min(T) \in T /\ \A k \in T : Min(T) <= k
  BY <1>2 DEF Min
<1> DEFINE R == {m - k : k \in T}
<1>4. R \in SUBSET Nat /\ R # {}
  OBVIOUS
<1>5. PICK r \in R : \A q \in R : r <= q
  <2> HIDE DEF R
  <2>1. QED
    BY <1>4, LeastElement
<1>6. PICK hi \in T : r = m - hi
  BY <1>5
<1>7. \A k \in T : m - hi <= m - k
  BY <1>5, <1>6
<1>8. \A k \in T : hi >= k
  BY <1>1, <1>7
<1>9. Max(T) \in T /\ \A k \in T : Max(T) >= k
  BY <1>8 DEF Max
<1>10. \A k \in T : k <= Max(T)
  BY <1>1, <1>9
<1>11. QED
  BY <1>3, <1>9, <1>10

\* The places of a name are places of the list.
LEMMA NamedPlaces ==
    ASSUME list \in Seq(NodeAt)
    PROVE  \A nm : Named(nm) \in SUBSET (1 .. Len(list)) /\ Len(list) \in Nat
BY LenProperties DEF Named

\* remque() leaves a list of nodes.
LEMMA RemQueTyped ==
    ASSUME NEW nodes \in Seq(NodeAt), NEW k \in 1 .. Len(nodes)
    PROVE  RemQue(nodes, k) \in Seq(NodeAt)
<1> DEFINE l == Len(nodes)
           r == RemQue(nodes, k)
<1>1. l \in Nat /\ \A j \in 1 .. l : nodes[j] \in NodeAt
  BY LenProperties, ElementOfSeq
<1>2. \A x \in NodeAt : [x EXCEPT !.back = TRUE] \in NodeAt /\ [x EXCEPT !.back = FALSE] \in NodeAt
  BY DEF NodeAt
<1>3. CASE nodes[k].back
  <2>1. r = [j \in 1 .. l - 1 |->
             IF j = k THEN [nodes[j + 1] EXCEPT !.back = TRUE]
             ELSE IF j < k THEN nodes[j] ELSE nodes[j + 1]]
    BY <1>3 DEF RemQue
  <2>2. \A j \in 1 .. l - 1 : j \in 1 .. l /\ j + 1 \in 1 .. l
    BY <1>1
  <2>3. l - 1 \in Nat
    BY <1>1
  <2> HIDE DEF r, l
  <2>4. r \in [1 .. l - 1 -> NodeAt]
    BY <1>1, <1>2, <2>1, <2>2
  <2>5. QED
    BY <2>3, <2>4, SeqDef DEF r
<1>4. CASE ~ nodes[k].back
  <2>1. r = [j \in 1 .. l |-> IF j = k + 1 THEN [nodes[j] EXCEPT !.back = FALSE] ELSE nodes[j]]
    BY <1>4 DEF RemQue
  <2> HIDE DEF r, l
  <2>4. r \in [1 .. l -> NodeAt]
    BY <1>1, <1>2, <2>1
  <2>5. QED
    BY <1>1, <2>4, SeqDef DEF r
<1>5. QED
  BY <1>3, <1>4

\* The types hold initially.
LEMMA InitTypes == Init => TypeInv
<1>1. SUFFICES ASSUME Init PROVE TypeInv
  OBVIOUS
<1>2. << >> \in Seq(Cell) /\ << >> \in Seq(NodeAt)
  OBVIOUS
<1>3. FilesTyped
  BY <1>1, <1>2, AbsentIsNone DEF Init, FilesTyped
<1>4. StepTyped
  BY <1>1 DEF Init, StepTyped
<1>5. RewriteTyped
  BY <1>1, <1>2, JunkTyped DEF Init, RewriteTyped
<1>6. QED
  BY <1>1, <1>2, <1>3, <1>4, <1>5 DEF Init, TypeInv

\* A file is empty after it is opened for writing, and a part of what was
\* written when the daemon stops.
LEMMA PrefixTyped ==
    ASSUME NEW s \in Seq(Cell), NEW p \in Prefixes(s)
    PROVE  p \in Seq(Cell)
<1>1. PICK l \in 0 .. Len(s) : p = SubSeq(s, 1, l)
  BY DEF Prefixes
<1>2. Len(s) \in Nat /\ \A i \in 1 .. l : i \in 1 .. Len(s)
  BY LenProperties
<1>3. \A i \in 1 .. l : s[i] \in Cell
  BY <1>2, ElementOfSeq
<1>4. QED
  BY <1>1, <1>3, SubSeqProperties

\* Nothing but the answer changes.
Answering ==
    /\ UNCHANGED <<files, list, pc, rewrite, off, history, bounds>>

\* An answer changes nothing that the files or the list have.
LEMMA Answerings ==
    ASSUME \/ SetTooLarge \/ DeleteBadName \/ BadFlags
           \/ \E nm \in Name : DeleteMissing(nm) \/ GetByName(nm)
           \/ \E i \in 0 .. MaxNodes : GetByIndex(i)
           \/ GetStatus
    PROVE  Answering
<1>1. \A c, k : Refuse(c, k) => Answering
  BY DEF Refuse, Answering
<1>2. \A r : Read(r) => Answering
  BY DEF Read, Answering
<1>3. CASE SetTooLarge \/ DeleteBadName \/ BadFlags
  BY <1>1, <1>3 DEF SetTooLarge, DeleteBadName, BadFlags
<1>4. CASE \E nm \in Name : DeleteMissing(nm) \/ GetByName(nm)
  BY <1>1, <1>2, <1>4 DEF DeleteMissing, GetByName
<1>5. CASE (\E i \in 0 .. MaxNodes : GetByIndex(i)) \/ GetStatus
  BY <1>2, <1>5 DEF GetByIndex, GetStatus
<1>6. QED
  BY <1>3, <1>4, <1>5

\* Types: an answer.
LEMMA AnsweringTypes == TypeInv /\ (Answering \/ UNCHANGED vars) => TypeInv'
<1>1. SUFFICES ASSUME TypeInv, Answering \/ UNCHANGED vars PROVE TypeInv'
  OBVIOUS
<1>2. UNCHANGED <<evs, tmp, list, pc, op, n, out, e, buf, off>>
  BY <1>1 DEF Answering, vars, files, rewrite
<1>3. QED
  BY <1>1, <1>2 DEF TypeInv, FilesTyped, StepTyped, RewriteTyped, Changing, Named

\* Types: loading the next record.
LEMMA LoadTypes == TypeInv /\ LoadNext => TypeInv'
<1>1. SUFFICES ASSUME TypeInv, LoadNext PROVE TypeInv'
  OBVIOUS
<1>2. /\ pc = "load" /\ pc' \in {"load", "idle"} /\ UNCHANGED <<evs, tmp, op, n, out, e, buf>>
  BY <1>1 DEF LoadNext, files, rewrite
<1>3. evs \in Seq(Cell) /\ off \in Nat
  BY <1>1, <1>2 DEF TypeInv, FilesTyped, StepTyped
<1>4. list' \in Seq(NodeAt) /\ off' \in Nat
  <2>1. CASE UNCHANGED <<list, off>>
    BY <1>1, <2>1 DEF TypeInv, StepTyped
  <2>2. CASE ~ UNCHANGED <<list, off>>
    <3>1. PICK h \in HeadersAt(evs, off) :
             list' = Append(list, Node(h.name, off, off > 0)) /\ off' = off + 1 + h.size
      BY <1>1, <2>2 DEF LoadNext
    <3>2. h \in Header
      BY <1>3, HeadersTyped
    <3>3. h.name \in Name \cup {JunkName} /\ h.size \in Nat
      BY <3>2, LongestDatum DEF Header, Hdr
    <3>4. Node(h.name, off, off > 0) \in NodeAt
      BY <1>3, <3>3 DEF Node, NodeAt
    <3>5. QED
      BY <1>1, <1>3, <3>1, <3>3, <3>4, AppendProperties DEF TypeInv
  <2>3. QED
    BY <2>1, <2>2
<1>5. FilesTyped'
  BY <1>1, <1>2 DEF TypeInv, FilesTyped
<1>6. StepTyped'
  BY <1>1, <1>2, <1>4 DEF TypeInv, StepTyped
<1>7. RewriteTyped'
  BY <1>1, <1>2 DEF TypeInv, RewriteTyped
<1>8. QED
  BY <1>4, <1>5, <1>6, <1>7 DEF TypeInv

\* Types: the start of an operation.
LEMMA StartTypes ==
    ASSUME TypeInv, NEW nm \in Name, NEW data,
           (SetStart(nm, data) /\ data \in Data) \/ DeleteStart(nm)
    PROVE  TypeInv'
<1>1. /\ pc = "idle" /\ pc' = "create" /\ op'.name = nm
      /\ \/ op'.cmd = "set" /\ op'.data \in Data
         \/ op'.cmd = "del" /\ op'.data = << >> /\ Named(nm) # {}
      /\ RenameAway
      /\ UNCHANGED <<list, n, out, e, buf, off>>
  BY DEF SetStart, DeleteStart, Start
<1>2. FilesTyped'
  BY <1>1, AbsentIsNone DEF TypeInv, FilesTyped, RenameAway
<1>3. Changing'
  BY <1>1 DEF Changing
<1>4. StepTyped'
  <2>1. Named(op.name)' = Named(nm)
    BY <1>1 DEF Named
  <2>2. QED
    BY <1>1, <1>3, <2>1 DEF TypeInv, StepTyped
<1>5. RewriteTyped'
  BY <1>1 DEF TypeInv, RewriteTyped
<1>6. QED
  BY <1>1, <1>2, <1>4, <1>5 DEF TypeInv

\* Types: opening the new file.
LEMMA CreateTypes == TypeInv /\ Create => TypeInv'
<1>1. SUFFICES ASSUME TypeInv, Create PROVE TypeInv'
  OBVIOUS
<1>2. pc = "create" /\ UNCHANGED <<tmp, list, off>>
  BY <1>1 DEF Create
<1>3. Len(list) \in Nat /\ << >> \in Seq(Cell)
  BY <1>1, LenProperties DEF TypeInv
<1>4. CASE evs' = << >> /\ pc' = "copy" /\ n' = 1 /\ UNCHANGED <<op, out, e, buf, reply, faults>>
  <2>1. FilesTyped'
    BY <1>1, <1>2, <1>3, <1>4, AbsentIsNone DEF TypeInv, FilesTyped
  <2>2. Named(op.name)' = Named(op.name) /\ Changing' = Changing
    BY <1>2, <1>4 DEF Named, Changing
  <2>3. StepTyped'
    BY <1>1, <1>2, <1>3, <1>4, <2>2 DEF TypeInv, StepTyped
  <2>4. RewriteTyped'
    BY <1>1, <1>2, <1>4 DEF TypeInv, RewriteTyped
  <2>5. QED
    BY <1>1, <1>2, <2>1, <2>3, <2>4 DEF TypeInv
<1>5. CASE pc' = "idle" /\ Idle /\ UNCHANGED evs
  <2>1. FilesTyped'
    BY <1>1, <1>2, <1>5 DEF TypeInv, FilesTyped
  <2>2. StepTyped'
    BY <1>1, <1>2, <1>5 DEF TypeInv, StepTyped, Idle
  <2>3. RewriteTyped'
    BY <1>3, <1>5, JunkTyped DEF RewriteTyped, Idle
  <2>4. QED
    BY <1>1, <1>2, <2>1, <2>2, <2>3 DEF TypeInv
<1>6. QED
  BY <1>1, <1>4, <1>5 DEF Create
\* The list after a turn of the loop.
LEMMA MovedList ==
    ASSUME TypeInv, Rewriting, NEW written, NodeMoved(written)
    PROVE  /\ list' \in Seq(NodeAt) /\ Len(list') = Len(list) /\ Len(list) \in Nat
           /\ n \in 1 .. Len(list)
           /\ \A j \in 1 .. Len(list) : list'[j].name = list[j].name
           /\ \A j \in 1 .. Len(list) :
                 list'[j].offset = IF j = n THEN Len(out) ELSE list[j].offset
           /\ \A nm : Named(nm)' = Named(nm)
<1>1. list \in Seq(NodeAt) /\ Len(list) \in Nat /\ DOMAIN list = 1 .. Len(list)
  BY LenProperties DEF TypeInv
<1>2. n \in 1 .. Len(list)
  BY <1>1 DEF TypeInv, StepTyped, Rewriting
<1>3. list[n] \in NodeAt /\ Len(out) \in Nat
  BY <1>1, <1>2, ElementOfSeq, LenProperties DEF TypeInv, RewriteTyped
<1> DEFINE nd == [list[n] EXCEPT !.offset = Len(out)]
<1>4. nd \in NodeAt /\ nd.name = list[n].name /\ nd.offset = Len(out)
  BY <1>3 DEF NodeAt
<1>5. list' = [list EXCEPT ![n] = nd]
  BY DEF NodeMoved
<1> HIDE DEF nd
<1>6. /\ list' \in Seq(NodeAt) /\ Len(list') = Len(list)
      /\ \A j \in 1 .. Len(list) : list'[j] = IF j = n THEN nd ELSE list[j]
  BY <1>1, <1>2, <1>4, <1>5, ExceptSeq
<1>7. DOMAIN list' = 1 .. Len(list)
  BY <1>6, LenProperties
<1>8. \A j \in 1 .. Len(list) : /\ list'[j].name = list[j].name
                                /\ list'[j].offset = IF j = n THEN Len(out) ELSE list[j].offset
  BY <1>4, <1>6
<1>9. \A nm : Named(nm)' = Named(nm)
  BY <1>1, <1>7, <1>8 DEF Named
<1>10. QED
  BY <1>1, <1>2, <1>6, <1>8, <1>9

\* Types: moving a node.
LEMMA NodeMovedTypes ==
    ASSUME TypeInv, Rewriting, NEW written \in Seq(Cell), NodeMoved(written),
           buf' \in [1 .. MaxLen -> Cell], e' = Absent \/ e' \in Header
    PROVE  TypeInv'
<1>1. /\ list' \in Seq(NodeAt) /\ Len(list') = Len(list) /\ Len(list) \in Nat
      /\ n \in 1 .. Len(list) /\ Named(op.name)' = Named(op.name)'
  BY MovedList
<1>2. /\ pc = "copy" /\ n' = n + 1 /\ out' = out \o written
      /\ UNCHANGED <<evs, tmp, pc, op, off>>
  BY DEF Rewriting, NodeMoved, files
<1>3. out' \in Seq(Cell)
  BY <1>2, ConcatProperties DEF TypeInv, RewriteTyped
<1>4. Named(op.name)' = Named(op.name)
  <2>1. PICK nm : nm = op.name
    OBVIOUS
  <2>2. Named(nm)' = Named(nm)
    BY MovedList
  <2>3. op'.name = nm
    BY <1>2, <2>1
  <2>4. QED
    BY <2>1, <2>2, <2>3 DEF Named
<1>5. FilesTyped'
  BY <1>2 DEF TypeInv, FilesTyped
<1>6. StepTyped'
  BY <1>1, <1>2, <1>4 DEF TypeInv, StepTyped, Changing
<1>7. RewriteTyped'
  BY <1>2, <1>3 DEF RewriteTyped
<1>8. QED
  BY <1>1, <1>5, <1>6, <1>7 DEF TypeInv

\* The file that is copied and the place its next record is read from.
LEMMA CopyingFrom ==
    ASSUME TypeInv, Rewriting
    PROVE  /\ tmp \in Seq(Cell) /\ n \in 1 .. Len(list) /\ list[n] \in NodeAt
           /\ list[n].offset \in Nat /\ list[n].name \in Name \cup {JunkName}
           /\ out \in Seq(Cell) /\ buf \in [1 .. MaxLen -> Cell] /\ pc = "copy"
           /\ Changing
<1>1. list \in Seq(NodeAt) /\ Len(list) \in Nat
  BY LenProperties DEF TypeInv
<1>2. n \in 1 .. Len(list)
  BY <1>1 DEF TypeInv, StepTyped, Rewriting
<1>3. list[n] \in NodeAt
  BY <1>1, <1>2, ElementOfSeq
<1>4. list[n].offset \in Nat /\ list[n].name \in Name \cup {JunkName}
  BY <1>3 DEF NodeAt
<1>5. QED
  BY <1>2, <1>3, <1>4 DEF TypeInv, FilesTyped, StepTyped, RewriteTyped, Rewriting

\* A record in memory.
LEMMA RecordTyped ==
    ASSUME NEW h \in Header, NEW b \in [1 .. MaxLen -> Cell]
    PROVE  /\ <<h>> \o SubSeq(b, 1, h.size) \in Seq(Cell)
           /\ <<h>> \o << >> \in Seq(Cell)
           /\ h.size \in Nat /\ h.name \in Name \cup {JunkName} /\ h.size <= MaxLen
<1>1. h.size \in Nat /\ h.size <= MaxLen /\ h.name \in Name \cup {JunkName}
  BY LongestDatum DEF Header, Hdr
<1>2. <<h>> \in Seq(Cell)
  BY DEF Cell
<1>3. SubSeq(b, 1, h.size) \in Seq(Cell)
  BY <1>1, BufferTyped
<1> DEFINE s == SubSeq(b, 1, h.size)
           hs == <<h>>
<1>4. << >> \in Seq(Cell) /\ s \in Seq(Cell) /\ hs \in Seq(Cell)
  BY <1>2, <1>3
<1> HIDE DEF s, hs
<1>5. hs \o s \in Seq(Cell) /\ hs \o << >> \in Seq(Cell)
  BY <1>4, ConcatProperties
<1>6. QED
  BY <1>1, <1>5 DEF s, hs

\* What is written for the EV that is changed.
Written == IF op.cmd = "set" THEN EvRecord(op.name, op.data) ELSE << >>

\* What a rewrite writes for a set or delete is a sequence of cells.
LEMMA WrittenTyped ==
    ASSUME Changing
    PROVE  Written \in Seq(Cell) /\ op.data \in Seq(Cell)
<1>1. op.data \in Seq(Cell)
  <2>1. << >> \in Seq(Cell) /\ \A d \in Data : d \in Seq(Cell)
    BY DataOfCells, EmptySeq
  <2>2. op.data = << >> \/ op.data \in Data
    BY DEF Changing
  <2>3. QED
    BY <2>1, <2>2
<1>2. op.cmd = "set" => EvRecord(op.name, op.data) \in Seq(Cell)
  <2>1. SUFFICES ASSUME op.cmd = "set" PROVE EvRecord(op.name, op.data) \in Seq(Cell)
    OBVIOUS
  <2>2. op.data \in Data /\ op.name \in Name \cup {JunkName}
    BY <2>1 DEF Changing
  <2>3. QED
    BY <1>1, <2>2, DataOfCells, EmptySeq, AppendedRecord
<1>3. QED
  BY <1>1, <1>2 DEF Written

\* Types: a turn of the copying.
LEMMA CopyTypes == TypeInv /\ (CopyMatching \/ CopyOther \/ CopyNothing) => TypeInv'
<1>1. SUFFICES ASSUME TypeInv, CopyMatching \/ CopyOther \/ CopyNothing PROVE TypeInv'
  OBVIOUS
<1>2. Rewriting
  BY <1>1 DEF CopyMatching, CopyOther, CopyNothing
<1>3. /\ tmp \in Seq(Cell) /\ list[n].offset \in Nat
      /\ buf \in [1 .. MaxLen -> Cell] /\ Changing
  BY <1>1, <1>2, CopyingFrom
<1>4. e = Absent \/ e \in Header
  BY <1>1 DEF TypeInv, RewriteTyped
<1>5. CASE CopyMatching
  <2>1. NodeMoved(Written) /\ buf' = Filled(op.data) /\ e' = e
    BY <1>5 DEF CopyMatching, Written
  <2>2. Written \in Seq(Cell) /\ op.data \in Seq(Cell)
    BY <1>3, WrittenTyped
  <2>3. buf' \in [1 .. MaxLen -> Cell]
    BY <1>3, <2>1, <2>2, FilledTyped
  <2>4. QED
    BY <1>1, <1>2, <1>4, <2>1, <2>2, <2>3, NodeMovedTypes
<1>6. CASE CopyOther
  <2>1. PICK h \in HeadersAt(tmp, list[n].offset) :
            LET data == DataAt(tmp, list[n].offset, h.size) IN
            /\ NodeMoved(<<h>> \o (IF op.cmd = "set" /\ data = << >> THEN << >>
                                   ELSE SubSeq(Filled(data), 1, h.size)))
            /\ buf' = Filled(data)
            /\ e' = h
    BY <1>6 DEF CopyOther
  <2>2. h \in Header
    BY <1>3, HeadersTyped
  <2>3. h.size \in Nat
    BY <1>3, <2>2, RecordTyped
  <2> DEFINE data == DataAt(tmp, list[n].offset, h.size)
             b == Filled(data)
             w == <<h>> \o (IF op.cmd = "set" /\ data = << >> THEN << >> ELSE SubSeq(b, 1, h.size))
  <2>4. NodeMoved(w) /\ buf' = b /\ e' = h
    BY <2>1
  <2>5. data \in Seq(Cell)
    BY <1>3, <2>3, DataTyped
  <2> HIDE DEF data
  <2>6. b \in [1 .. MaxLen -> Cell]
    BY <1>3, <2>5, FilledTyped
  <2> HIDE DEF b
  <2>7. w \in Seq(Cell)
    BY <2>2, <2>6, RecordTyped
  <2> HIDE DEF w
  <2>8. QED
    BY <1>1, <1>2, <2>2, <2>4, <2>6, <2>7, NodeMovedTypes
<1>7. CASE CopyNothing
  <2>1. PICK h \in IF e # Absent THEN {e} ELSE {Hdr(JunkName, 0), Hdr(JunkName, MaxLen)} :
            NodeMoved(<<h>> \o SubSeq(buf, 1, h.size))
    BY <1>7 DEF CopyNothing
  <2>2. h \in Header
    BY <1>4, JunkTyped
  <2> DEFINE w == <<h>> \o SubSeq(buf, 1, h.size)
  <2>3. w \in Seq(Cell)
    BY <1>3, <2>2, RecordTyped
  <2>4. NodeMoved(w) /\ UNCHANGED <<e, buf>>
    BY <1>7, <2>1 DEF CopyNothing
  <2> HIDE DEF w
  <2>5. QED
    BY <1>1, <1>2, <1>3, <1>4, <2>3, <2>4, NodeMovedTypes
<1>8. QED
  BY <1>1, <1>5, <1>6, <1>7

\* The daemon begins anew with the file it finds.
LEMMA RestartTypes ==
    ASSUME Restart, evs' \in Seq(Cell), tmp' \in Seq(Cell) \cup {Absent}
    PROVE  TypeInv'
<1>1. list' = << >> /\ pc' = "load" /\ off' = 0 /\ Idle
  BY DEF Restart
<1>2. << >> \in Seq(NodeAt) /\ << >> \in Seq(Cell)
  OBVIOUS
<1>3. FilesTyped'
  BY <1>1, AbsentIsNone DEF FilesTyped
<1>4. StepTyped'
  BY <1>1 DEF StepTyped, Idle
<1>5. RewriteTyped'
  BY <1>1, <1>2, JunkTyped DEF RewriteTyped, Idle
<1>6. QED
  BY <1>1, <1>2, <1>3, <1>4, <1>5 DEF TypeInv

\* Types: a failure or a stop.
LEMMA ExitTypes == TypeInv /\ (ExitInSet \/ Crash) => TypeInv'
<1>1. SUFFICES ASSUME TypeInv, ExitInSet \/ Crash PROVE TypeInv'
  OBVIOUS
<1>2. Restart /\ tmp' = tmp
  BY <1>1 DEF ExitInSet, Crash
<1>3. out \in Seq(Cell) /\ << >> \in Seq(Cell)
  BY <1>1 DEF TypeInv, RewriteTyped
<1>4. evs' \in Seq(Cell)
  <2>1. CASE ExitInSet
    BY <1>3, <2>1 DEF ExitInSet
  <2>2. CASE Crash
    BY <1>1, <1>3, <2>2, PrefixTyped DEF Crash, TypeInv, FilesTyped
  <2>3. QED
    BY <1>1, <2>1, <2>2
<1>5. tmp' \in Seq(Cell) \cup {Absent}
  BY <1>1, <1>2 DEF TypeInv, FilesTyped
<1>6. QED
  BY <1>2, <1>4, <1>5, RestartTypes

\* Types: the end of the copying.
LEMMA FinishTypes == TypeInv /\ (FinishSet \/ FinishDelete) => TypeInv'
<1>1. SUFFICES ASSUME TypeInv, FinishSet \/ FinishDelete PROVE TypeInv'
  OBVIOUS
<1>2. pc = "copy" /\ pc' = "close" /\ UNCHANGED <<evs, tmp, op, n, e, buf, off>>
  BY <1>1 DEF FinishSet, FinishDelete, files, rewrite
<1>3. list' \in Seq(NodeAt) /\ out' \in Seq(Cell)
  <2>1. CASE UNCHANGED <<list, out>>
    BY <1>1, <2>1 DEF TypeInv, RewriteTyped
  <2>2. CASE FinishSet /\ ~ UNCHANGED <<list, out>>
    <3>1. /\ list' = Append(list, Node(op.name, Len(out), list # << >>))
          /\ out' = out \o Written /\ op.cmd = "set"
      BY <2>2 DEF FinishSet, Written
    <3>2. Changing /\ out \in Seq(Cell) /\ list \in Seq(NodeAt)
      BY <1>1, <1>2 DEF TypeInv, StepTyped, RewriteTyped
    <3>3. Node(op.name, Len(out), list # << >>) \in NodeAt
      <4>1. Len(out) \in Nat /\ op.name \in Name
        BY <3>2, LenProperties DEF Changing
      <4>2. QED
        BY <4>1 DEF Node, NodeAt
    <3>4. Written \in Seq(Cell)
      BY <3>2, WrittenTyped
    <3>5. QED
      BY <3>1, <3>2, <3>3, <3>4, AppendProperties, ConcatProperties
  <2>3. CASE FinishDelete
    <3>1. list' = RemQue(list, Max(Named(op.name))) /\ op.cmd = "del" /\ out' = out
      BY <2>3 DEF FinishDelete, rewrite
    <3>2. Named(op.name) # {} /\ list \in Seq(NodeAt) /\ out \in Seq(Cell)
      BY <1>1, <1>2, <3>1 DEF TypeInv, StepTyped, RewriteTyped
    <3>3. Named(op.name) \in SUBSET (1 .. Len(list)) /\ Len(list) \in Nat
      BY <3>2, NamedPlaces
    <3>4. Max(Named(op.name)) \in 1 .. Len(list)
      BY <3>2, <3>3, FirstAndLast
    <3>5. QED
      BY <3>1, <3>2, <3>4, RemQueTyped
  <2>4. QED
    BY <1>1, <2>1, <2>2, <2>3
<1>4. FilesTyped'
  BY <1>1, <1>2 DEF TypeInv, FilesTyped
<1>5. StepTyped'
  BY <1>1, <1>2 DEF TypeInv, StepTyped, Changing
<1>6. RewriteTyped'
  BY <1>1, <1>2, <1>3 DEF TypeInv, RewriteTyped
<1>7. QED
  BY <1>3, <1>4, <1>5, <1>6 DEF TypeInv

\* Types: closing, removing and clearing.
LEMMA CloseTypes == TypeInv /\ (Close \/ RemoveTmp \/ ClearEV) => TypeInv'
<1>1. SUFFICES ASSUME TypeInv, Close \/ RemoveTmp \/ ClearEV PROVE TypeInv'
  OBVIOUS
<1>2. << >> \in Seq(Cell) /\ << >> \in Seq(NodeAt)
  OBVIOUS
<1>3. CASE Close
  <2>1. /\ pc = "close" /\ pc' = "remove" /\ UNCHANGED <<tmp, list, op, n, out, e, buf, off>>
        /\ evs' = out \/ \E p \in Prefixes(out) : evs' = p
    BY <1>3 DEF Close, rewrite
  <2>2. evs' \in Seq(Cell)
    BY <1>1, <2>1, PrefixTyped DEF TypeInv, RewriteTyped
  <2>3. FilesTyped'
    BY <1>1, <2>1, <2>2, AbsentIsNone DEF TypeInv, FilesTyped
  <2>4. StepTyped' /\ RewriteTyped' /\ list' \in Seq(NodeAt)
    BY <1>1, <2>1 DEF TypeInv, StepTyped, RewriteTyped, Changing
  <2>5. QED
    BY <2>3, <2>4 DEF TypeInv
<1>4. CASE RemoveTmp
  <2>1. pc = "remove" /\ pc' = "idle" /\ tmp' = Absent /\ Idle /\ UNCHANGED <<evs, list, off>>
    BY <1>4 DEF RemoveTmp
  <2>2. FilesTyped'
    BY <1>1, <2>1 DEF TypeInv, FilesTyped
  <2>3. StepTyped'
    BY <1>1, <2>1 DEF TypeInv, StepTyped, Idle
  <2>4. RewriteTyped'
    BY <1>2, <2>1, JunkTyped DEF RewriteTyped, Idle
  <2>5. QED
    BY <1>1, <2>1, <2>2, <2>3, <2>4 DEF TypeInv
<1>5. CASE ClearEV
  <2>1. /\ pc = "idle" /\ evs' = << >> /\ list' = << >>
        /\ UNCHANGED <<tmp, pc, op, n, out, e, buf, off>>
    BY <1>5 DEF ClearEV, rewrite
  <2>2. FilesTyped'
    BY <1>1, <1>2, <2>1, AbsentIsNone DEF TypeInv, FilesTyped
  <2>3. StepTyped' /\ RewriteTyped'
    BY <1>1, <2>1 DEF TypeInv, StepTyped, RewriteTyped
  <2>4. QED
    BY <1>2, <2>1, <2>2, <2>3 DEF TypeInv
<1>6. QED
  BY <1>1, <1>3, <1>4, <1>5

\* Every step preserves the types.
LEMMA StepTypes == TypeInv /\ [Next]_vars => TypeInv'
<1>1. SUFFICES ASSUME TypeInv, [Next]_vars PROVE TypeInv'
  OBVIOUS
<1>2. CASE Answering \/ UNCHANGED vars
  BY <1>1, <1>2, AnsweringTypes
<1>3. CASE \E nm \in Name, data \in Data : SetStart(nm, data)
  BY <1>1, <1>3, StartTypes
<1>4. CASE \E nm \in Name : DeleteStart(nm)
  BY <1>1, <1>4, StartTypes
<1>5. QED
  BY <1>1, <1>2, <1>3, <1>4, Answerings, LoadTypes, CreateTypes, CopyTypes, ExitTypes,
     FinishTypes, CloseTypes DEF Next
(***************************************************************************)
(* The list and the file.                                                  *)
(***************************************************************************)

\* The node leads to a record of its name.
Has(file, node) == Record(file, node.offset) /\ file[node.offset + 1].name = node.name

\* It is the first of its name in the list.
IsFirst(ls, k) == \A j \in 1 .. Len(ls) : ls[j].name = ls[k].name => k <= j

\* No node has the name.
Unnamed(ls, nm) == \A k \in 1 .. Len(ls) : ls[k].name # nm

\* The list has a node for each record, and of each name the first leads to
\* the data the file has for it.
LinkedTo(ls, file) ==
    /\ WellFormed(file)
    /\ Len(Walk(file)) = Len(ls)
    /\ \A k \in 1 .. Len(ls) : Has(file, ls[k])
    /\ \A k \in 1 .. Len(ls) : ls[k].name \in Name /\ IsFirst(ls, k) =>
          DictOf(file)[ls[k].name] = Datum(file, ls[k].offset)
    /\ \A nm \in Name : Unnamed(ls, nm) => DictOf(file)[nm] = Missing

\* As far as the file is read.
LinkedUpTo(ls, file, at) ==
    /\ at \in 0 .. Len(file) /\ OkOf(file)[at]
    /\ Len(Walk(file)) = Len(ls) + Len(WalkFrom(file)[at])
    /\ \A k \in 1 .. Len(ls) : Has(file, ls[k])
    /\ \A k \in 1 .. Len(ls) : ls[k].name \in Name /\ IsFirst(ls, k) =>
          DictOf(file)[ls[k].name] = Datum(file, ls[k].offset)
    /\ \A nm \in Name : Unnamed(ls, nm) => DictOf(file)[nm] = DictFrom(file)[at][nm]

\* Before the first record the list is empty.
LEMMA LinkingBegins ==
    ASSUME NEW file \in Seq(Cell), WellFormed(file)
    PROVE  LinkedUpTo(<< >>, file, 0)
<1>1. Len(file) \in Nat /\ 0 \in 0 .. Len(file) /\ Len(<< >>) = 0
  BY LenProperties
<1>2. OkOf(file)[0] /\ DictOf(file) = DictFrom(file)[0] /\ Walk(file) = WalkFrom(file)[0]
  BY OkExists, DictExists, WalkExists
<1>3. Len(WalkFrom(file)[0]) \in Nat
  BY <1>1, WalkFacts
<1>4. QED
  BY <1>1, <1>2, <1>3 DEF LinkedUpTo

\* Nothing is left to be read.
LEMMA LinkingEnds ==
    ASSUME NEW file \in Seq(Cell), WellFormed(file), NEW ls \in Seq(NodeAt),
           LinkedUpTo(ls, file, Len(file))
    PROVE  LinkedTo(ls, file)
<1>1. Len(file) \in Nat /\ Len(file) \in 0 .. Len(file) /\ Len(ls) \in Nat
  BY LenProperties
<1>2. Len(WalkFrom(file)[Len(file)]) = 0
  BY WalkFacts
<1>3. ~ Record(file, Len(file))
  BY <1>1 DEF Record
<1>4. DictFrom(file)[Len(file)] = EmptyDict
  BY <1>1, <1>3, DictExists
<1>5. \A nm \in Name : EmptyDict[nm] = Missing
  BY DEF EmptyDict
<1>6. Len(Walk(file)) = Len(ls)
  BY <1>1, <1>2 DEF LinkedUpTo
<1>7. QED
  BY <1>4, <1>5, <1>6 DEF LinkedUpTo, LinkedTo

\* A list to which a node was added.
LEMMA AddedNode ==
    ASSUME NEW ls \in Seq(NodeAt), NEW nd \in NodeAt
    PROVE  LET l2 == Append(ls, nd) IN
           /\ l2 \in Seq(NodeAt) /\ Len(l2) = Len(ls) + 1 /\ Len(ls) \in Nat
           /\ l2[Len(ls) + 1] = nd
           /\ \A k \in 1 .. Len(ls) : l2[k] = ls[k] /\ ls[k] \in NodeAt
           /\ \A k \in 1 .. Len(ls) : IsFirst(l2, k) => IsFirst(ls, k)
           /\ IsFirst(l2, Len(ls) + 1) => Unnamed(ls, nd.name)
           /\ \A nm : Unnamed(l2, nm) => Unnamed(ls, nm) /\ nm # nd.name
<1> DEFINE l2 == Append(ls, nd)
           l == Len(ls)
<1>1. /\ l \in Nat /\ l2 \in Seq(NodeAt) /\ Len(l2) = l + 1
      /\ \A k \in 1 .. l : l2[k] = ls[k]
      /\ l2[l + 1] = nd
  BY LenProperties, AppendProperties
<1>2. \A k \in 1 .. l : ls[k] \in NodeAt
  BY ElementOfSeq
<1> HIDE DEF l2
<1>3. \A k \in 1 .. l : k \in 1 .. l + 1 /\ ~ (l + 1 <= k)
  BY <1>1
<1>4. l + 1 \in 1 .. l + 1
  BY <1>1
<1> HIDE DEF l
<1>5. \A k \in 1 .. l : IsFirst(l2, k) => IsFirst(ls, k)
  BY <1>1, <1>3 DEF IsFirst, l
<1>6. IsFirst(l2, l + 1) => Unnamed(ls, nd.name)
  BY <1>1, <1>3 DEF IsFirst, Unnamed, l
<1>7. \A nm : Unnamed(l2, nm) => Unnamed(ls, nm) /\ nm # nd.name
  BY <1>1, <1>3, <1>4 DEF Unnamed, l
<1>8. QED
  BY <1>1, <1>2, <1>5, <1>6, <1>7 DEF l2, l

\* Reading on.
LEMMA LinkingGoesOn ==
    ASSUME NEW file \in Seq(Cell), NEW ls \in Seq(NodeAt), NEW at, NEW back \in BOOLEAN,
           LinkedUpTo(ls, file, at), at # Len(file)
    PROVE  /\ Record(file, at)
           /\ LinkedUpTo(Append(ls, Node(file[at + 1].name, at, back)), file, After(file, at))
<1> DEFINE h == file[at + 1]
           nd == Node(h.name, at, back)
           l2 == Append(ls, nd)
           next == After(file, at)
           l == Len(ls)
<1>1. at \in 0 .. Len(file) /\ OkOf(file)[at]
  BY DEF LinkedUpTo
<1>2. Record(file, at) /\ OkOf(file)[next]
  BY <1>1, OkFacts
<1>3. next \in 0 .. Len(file) /\ h.name \in Name \cup {JunkName} /\ at \in Nat
  BY <1>2, RecordFacts DEF Record
<1>4. nd \in NodeAt /\ nd.name = h.name /\ nd.offset = at
  BY <1>3 DEF Node, NodeAt
<1> HIDE DEF nd, h
<1>5. /\ l2 \in Seq(NodeAt) /\ Len(l2) = l + 1 /\ l \in Nat
      /\ l2[l + 1] = nd
      /\ \A k \in 1 .. l : l2[k] = ls[k]
      /\ \A k \in 1 .. l : IsFirst(l2, k) => IsFirst(ls, k)
      /\ IsFirst(l2, l + 1) => Unnamed(ls, nd.name)
      /\ \A nm : Unnamed(l2, nm) => Unnamed(ls, nm) /\ nm # nd.name
  BY <1>4, AddedNode
<1>6. Len(Walk(file)) = Len(l2) + Len(WalkFrom(file)[next])
  <2>1. Len(WalkFrom(file)[at]) = 1 + Len(WalkFrom(file)[next])
    BY <1>1, <1>2, WalkFacts
  <2>2. Len(WalkFrom(file)[next]) \in Nat
    BY <1>3, WalkFacts
  <2>3. Len(Walk(file)) = l + Len(WalkFrom(file)[at])
    BY DEF LinkedUpTo
  <2> DEFINE a == Len(WalkFrom(file)[next])
             w == Len(Walk(file))
  <2>4. a \in Nat /\ w = l + (1 + a) /\ l \in Nat /\ Len(l2) = l + 1
    BY <1>5, <2>1, <2>2, <2>3
  <2> HIDE DEF next, l2, l, a, w
  <2>5. w = Len(l2) + a
    BY <2>4
  <2>6. QED
    BY <2>5 DEF a, w
<1>7. DictFrom(file)[next] \in Said /\ DictFrom(file)[at] = Adding(file, at, DictFrom(file)[next])
  BY <1>1, <1>2, <1>3, DictExists
<1>8. \A nm \in Name : DictFrom(file)[at][nm] =
         IF nm = h.name THEN Datum(file, at) ELSE DictFrom(file)[next][nm]
  BY <1>2, <1>7, AddingTyped DEF h
<1>9. \A k \in 1 .. l + 1 : k \in 1 .. l \/ k = l + 1
  BY <1>5
<1> HIDE DEF l2, next, l
<1>10. \A k \in 1 .. l + 1 : Has(file, l2[k])
  <2>1. Has(file, nd)
    BY <1>2, <1>4 DEF Has, h
  <2>2. \A k \in 1 .. l : Has(file, ls[k])
    BY DEF LinkedUpTo, l
  <2>3. QED
    BY <1>5, <1>9, <2>1, <2>2
<1>11. ASSUME NEW k \in 1 .. l + 1, l2[k].name \in Name, IsFirst(l2, k)
       PROVE  DictOf(file)[l2[k].name] = Datum(file, l2[k].offset)
  <2>1. CASE k \in 1 .. l
    <3>1. l2[k] = ls[k] /\ IsFirst(ls, k)
      BY <1>5, <1>11, <2>1
    <3>2. QED
      BY <1>11, <2>1, <3>1 DEF LinkedUpTo, l
  <2>2. CASE k = l + 1
    <3>1. l2[k] = nd /\ Unnamed(ls, nd.name) /\ nd.name \in Name
      BY <1>5, <1>11, <2>2
    <3>2. DictOf(file)[nd.name] = DictFrom(file)[at][nd.name]
      BY <3>1 DEF LinkedUpTo
    <3>3. QED
      BY <1>4, <1>8, <3>1, <3>2
  <2>3. QED
    BY <1>9, <2>1, <2>2
<1>12. ASSUME NEW nm \in Name, Unnamed(l2, nm)
       PROVE  DictOf(file)[nm] = DictFrom(file)[next][nm]
  <2>1. Unnamed(ls, nm) /\ nm # h.name
    BY <1>4, <1>5, <1>12
  <2>2. DictOf(file)[nm] = DictFrom(file)[at][nm]
    BY <2>1 DEF LinkedUpTo
  <2>3. QED
    BY <1>8, <2>1, <2>2
<1>13. LinkedUpTo(l2, file, next)
  BY <1>2, <1>3, <1>5, <1>6, <1>10, <1>11, <1>12 DEF LinkedUpTo
<1>14. QED
  BY <1>2, <1>13 DEF l2, nd, h, next
(***************************************************************************)
(* The rewrite.                                                            *)
(***************************************************************************)

\* A set or a delete.
Change(o) ==
    /\ o.cmd \in {"set", "del"} /\ o.name \in Name
    /\ o.data = << >> \/ o.data \in Data
    /\ o.cmd = "set" => o.data \in Data

\* What it makes of an EV of the old file, and of all of them.
Value(o, old, nm) ==
    IF nm = o.name THEN (IF o.cmd = "set" THEN o.data ELSE Missing) ELSE DictOf(old)[nm]

\* The dictionary after the operation.
Applied(d, o) == [d EXCEPT ![o.name] = IF o.cmd = "set" THEN o.data ELSE Missing]

\* The nodes whose EVs stay.
Stays(o, nm) == o.cmd = "set" \/ nm # o.name

\* The only one of its name.
Only(ls, k, nm) == \A j \in 1 .. Len(ls) : ls[j].name = nm <=> j = k

\* When the rewrite has come to node m the nodes from there on lead to the old
\* file and say what it does; those before lead to the new one, which says
\* of them what it is to say.
Counts(ls, m, file, o) ==
    /\ o.cmd = "set" => Len(Walk(file)) = m - 1
    /\ o.cmd = "del" =>
          \A k \in 1 .. Len(ls) :
             Only(ls, k, o.name) => Len(Walk(file)) = IF m <= k THEN m - 1 ELSE m - 2

\* What the nodes still to be copied find in the old file.
OldSays(ls, m, old) ==
    /\ \A k \in 1 .. Len(ls) : m <= k => Has(old, ls[k])
    /\ \A k \in 1 .. Len(ls) : m <= k /\ ls[k].name \in Name /\ IsFirst(ls, k) =>
          DictOf(old)[ls[k].name] = Datum(old, ls[k].offset)
    /\ \A nm \in Name : Unnamed(ls, nm) => DictOf(old)[nm] = Missing

\* What the nodes already copied find in the new file.
NewSays(ls, m, file, old, o) ==
    /\ \A k \in 1 .. Len(ls) : k < m /\ Stays(o, ls[k].name) => Has(file, ls[k])
    /\ \A k \in 1 .. Len(ls) :
          k < m /\ Stays(o, ls[k].name) /\ ls[k].name \in Name /\ IsFirst(ls, k) =>
             Datum(file, ls[k].offset) = Value(o, old, ls[k].name)
    /\ \A k \in 1 .. Len(ls) : k < m /\ ls[k].name \in Name =>
          DictOf(file)[ls[k].name] = Value(o, old, ls[k].name)
    /\ \A nm \in Name : (\A k \in 1 .. Len(ls) : k < m => ls[k].name # nm) =>
          DictOf(file)[nm] = Missing

\* The new file is as far as the rewrite has gone through the list.
Copies(ls, m, file, old, o) ==
    /\ WellFormed(file)
    /\ Counts(ls, m, file, o)
    /\ OldSays(ls, m, old)
    /\ NewSays(ls, m, file, old, o)

\* The list of the next turn.
Moved(ls, m, place, l2) ==
    /\ l2 \in Seq(NodeAt) /\ Len(l2) = Len(ls)
    /\ \A j \in 1 .. Len(ls) : l2[j].name = ls[j].name
    /\ \A j \in 1 .. Len(ls) : l2[j].offset = IF j = m THEN place ELSE ls[j].offset

\* A rewrite begins with an empty file and the whole list to copy.
LEMMA CopyingBegins ==
    ASSUME NEW ls \in Seq(NodeAt), NEW old \in Seq(Cell), NEW o, Change(o), LinkedTo(ls, old)
    PROVE  Copies(ls, 1, << >>, old, o)
<1>1. WellFormed(<< >>) /\ Len(Walk(<< >>)) = 0 /\ \A nm \in Name : DictOf(<< >>)[nm] = Missing
  BY EmptyFile DEF EmptyDict
<1>2. Len(ls) \in Nat /\ \A k \in 1 .. Len(ls) : ~ (k < 1) /\ 1 <= k
  BY LenProperties
<1>3. Counts(ls, 1, << >>, o)
  BY <1>1, <1>2 DEF Counts
<1>4. OldSays(ls, 1, old)
  BY DEF OldSays, LinkedTo
<1>5. NewSays(ls, 1, << >>, old, o)
  BY <1>1, <1>2 DEF NewSays
<1>6. QED
  BY <1>1, <1>3, <1>4, <1>5 DEF Copies

\* A turn changes one node, and keeps its name.
LEMMA MovedFacts ==
    ASSUME NEW ls \in Seq(NodeAt), NEW m \in 1 .. Len(ls), NEW place, NEW l2,
           Moved(ls, m, place, l2)
    PROVE  /\ Len(ls) \in Nat
           /\ \A k \in 1 .. Len(ls) : IsFirst(l2, k) <=> IsFirst(ls, k)
           /\ \A nm : Unnamed(l2, nm) <=> Unnamed(ls, nm)
           /\ \A k, nm : Only(l2, k, nm) <=> Only(ls, k, nm)
           /\ \A k \in 1 .. Len(ls) : m + 1 <= k => m <= k /\ k # m
           /\ \A k \in 1 .. Len(ls) : k < m + 1 <=> (k < m \/ k = m)
<1>1. Len(ls) \in Nat
  BY LenProperties
<1>2. m \in Nat /\ \A k \in 1 .. Len(ls) : k \in Nat
  BY <1>1
<1>3. \A k \in 1 .. Len(ls) : IsFirst(l2, k) <=> IsFirst(ls, k)
  BY DEF IsFirst, Moved
<1>4. \A nm : Unnamed(l2, nm) <=> Unnamed(ls, nm)
  BY DEF Unnamed, Moved
<1>5. \A k, nm : Only(l2, k, nm) <=> Only(ls, k, nm)
  BY DEF Only, Moved
<1>6. QED
  BY <1>1, <1>2, <1>3, <1>4, <1>5

\* A turn changes nothing of what the later nodes find in the old file.
LEMMA OldStillSays ==
    ASSUME NEW ls \in Seq(NodeAt), NEW m \in 1 .. Len(ls), NEW place, NEW l2,
           Moved(ls, m, place, l2), NEW old, OldSays(ls, m, old)
    PROVE  OldSays(l2, m + 1, old)
<1>1. \A k \in 1 .. Len(ls) : m + 1 <= k => m <= k /\ l2[k].offset = ls[k].offset /\ l2[k].name = ls[k].name
  BY MovedFacts DEF Moved
<1>2. \A k \in 1 .. Len(ls) : m + 1 <= k => (Has(old, l2[k]) <=> Has(old, ls[k]))
  BY <1>1 DEF Has
<1>3. Len(l2) = Len(ls)
  BY DEF Moved
<1>4. QED
  BY <1>1, <1>2, <1>3, MovedFacts DEF OldSays

\* There is a first of every name.
LEMMA FirstExists ==
    ASSUME NEW ls \in Seq(NodeAt), NEW k \in 1 .. Len(ls)
    PROVE  \E i \in 1 .. Len(ls) : i <= k /\ ls[i].name = ls[k].name /\ IsFirst(ls, i)
<1> DEFINE T == {j \in 1 .. Len(ls) : ls[j].name = ls[k].name}
<1>1. Len(ls) \in Nat /\ T \in SUBSET (1 .. Len(ls)) /\ k \in T
  BY LenProperties
<1>2. Min(T) \in T /\ \A j \in T : Min(T) <= j
  <2> HIDE DEF T
  <2>1. QED
    BY <1>1, FirstAndLast
<1>3. PICK i : i = Min(T)
  OBVIOUS
<1>4. QED
  BY <1>1, <1>2, <1>3 DEF IsFirst

\* A turn that writes a record.
LEMMA TurnWrites ==
    ASSUME NEW ls \in Seq(NodeAt), NEW m \in 1 .. Len(ls), NEW f, NEW g, NEW old, NEW o,
           NEW l2, NEW data, Change(o), Copies(ls, m, f, old, o),
           Moved(ls, m, Len(f), l2), Continues(f, g, ls[m].name, data),
           Stays(o, ls[m].name),
           ls[m].name \in Name /\ IsFirst(ls, m) => data = Value(o, old, ls[m].name)
    PROVE  Copies(l2, m + 1, g, old, o)
<1> DEFINE l == Len(ls)
           nm == ls[m].name
<1>1. WellFormed(g) /\ Len(Walk(g)) = Len(Walk(f)) + 1 /\ DictOf(g) = Then(DictOf(f), nm, data)
  BY ContinuedFacts DEF Copies
<1>2. l \in Nat /\ m \in 1 .. l /\ Len(l2) = l
  BY MovedFacts DEF Moved
<1>3. /\ \A k \in 1 .. l : IsFirst(l2, k) <=> IsFirst(ls, k)
      /\ \A x : Unnamed(l2, x) <=> Unnamed(ls, x)
      /\ \A k, x : Only(l2, k, x) <=> Only(ls, k, x)
      /\ \A k \in 1 .. l : k < m + 1 <=> (k < m \/ k = m)
  BY MovedFacts
<1>4. \A k \in 1 .. l : l2[k].name = ls[k].name
  BY DEF Moved
<1>5. \A k \in 1 .. l : l2[k].offset = IF k = m THEN Len(f) ELSE ls[k].offset
  BY DEF Moved
<1>6. /\ f \in Seq(Cell) /\ g \in Seq(Cell) /\ data \in Seq(Cell) /\ Len(f) <= Len(g)
      /\ \A i \in 1 .. Len(f) : g[i] = f[i]
      /\ Record(g, Len(f)) /\ g[Len(f) + 1].name = nm /\ Datum(g, Len(f)) = data
  <2>1. Len(data) \in Nat /\ Len(f) \in Nat /\ Len(g) = Len(f) + 1 + Len(data)
    BY LenProperties DEF Continues
  <2>2. Len(f) <= Len(g)
    BY <2>1
  <2>3. QED
    BY <2>2 DEF Continues
<1>7. \A at : Record(f, at) => /\ Record(g, at) /\ g[at + 1] = f[at + 1]
                               /\ Datum(g, at) = Datum(f, at)
  <2>1. Extends(f, g)
    BY <1>6 DEF Extends
  <2>2. f \in Seq(Cell)
    BY <1>6
  <2>3. QED
    BY <2>1, <2>2, RecordStays
<1>8. OldSays(l2, m + 1, old)
  BY OldStillSays DEF Copies
<1>9. Counts(l2, m + 1, g, o)
  <2> DEFINE a == Len(Walk(f))
             b == Len(Walk(g))
  <2>1. b = a + 1 /\ Counts(ls, m, f, o)
    BY <1>1 DEF Copies
  <2>2. o.cmd = "set" => a = m - 1
    BY <2>1 DEF Counts
  <2>3. o.cmd = "del" =>
          \A k \in 1 .. l : Only(ls, k, o.name) => a = (IF m <= k THEN m - 1 ELSE m - 2)
    BY <2>1 DEF Counts
  <2>4. o.cmd = "del" => \A k \in 1 .. l : Only(ls, k, o.name) => k # m
    BY <1>2 DEF Only, Stays
  <2>5. o.cmd = "set" => b = (m + 1) - 1
    <3> HIDE DEF a, b, l
    <3>1. QED
      BY <1>2, <2>1, <2>2
  <2>6. ASSUME o.cmd = "del", NEW k \in 1 .. l, Only(ls, k, o.name)
        PROVE  b = IF m + 1 <= k THEN (m + 1) - 1 ELSE (m + 1) - 2
    <3>1. a = (IF m <= k THEN m - 1 ELSE m - 2) /\ k # m /\ b = a + 1
      BY <2>1, <2>3, <2>4, <2>6
    <3> HIDE DEF a, b, l
    <3>2. QED
      BY <1>2, <3>1
  <2>7. QED
    BY <1>2, <1>3, <2>5, <2>6 DEF Counts
<1>10. NewSays(ls, m, f, old, o)
  BY DEF Copies
<1>11. ASSUME NEW k \in 1 .. l, k < m + 1, Stays(o, l2[k].name)
       PROVE  Has(g, l2[k])
  <2>1. CASE k = m
    BY <1>4, <1>5, <1>6, <2>1 DEF Has
  <2>2. CASE k # m
    <3>1. k < m /\ Stays(o, ls[k].name)
      BY <1>3, <1>4, <1>11, <2>2
    <3>2. Has(f, ls[k])
      BY <1>10, <3>1 DEF NewSays
    <3>3. QED
      BY <1>4, <1>5, <1>7, <2>2, <3>2 DEF Has
  <2>3. QED
    BY <2>1, <2>2
<1>12. ASSUME NEW k \in 1 .. l, k < m + 1, Stays(o, l2[k].name), l2[k].name \in Name, IsFirst(l2, k)
       PROVE  Datum(g, l2[k].offset) = Value(o, old, l2[k].name)
  <2>1. CASE k = m
    BY <1>3, <1>4, <1>5, <1>6, <1>12, <2>1
  <2>2. CASE k # m
    <3>1. k < m /\ Stays(o, ls[k].name) /\ ls[k].name \in Name /\ IsFirst(ls, k)
      BY <1>3, <1>4, <1>12, <2>2
    <3>2. Has(f, ls[k]) /\ Datum(f, ls[k].offset) = Value(o, old, ls[k].name)
      BY <1>10, <3>1 DEF NewSays
    <3>3. QED
      BY <1>4, <1>5, <1>7, <2>2, <3>2 DEF Has
  <2>3. QED
    BY <2>1, <2>2
<1>13. \A x \in Name : DictOf(g)[x] = IF x = nm /\ DictOf(f)[x] = Missing THEN data ELSE DictOf(f)[x]
  BY <1>1 DEF Then
<1>14. nm \in Name => DictOf(g)[nm] = Value(o, old, nm)
  <2>1. SUFFICES ASSUME nm \in Name PROVE DictOf(g)[nm] = Value(o, old, nm)
    OBVIOUS
  <2>2. PICK i \in 1 .. l : i <= m /\ ls[i].name = nm /\ IsFirst(ls, i)
    BY FirstExists
  <2>3. CASE i = m
    <3>1. data = Value(o, old, nm)
      BY <2>1, <2>2, <2>3
    <3>2. \A k \in 1 .. l : k < m => ls[k].name # nm
      BY <1>2, <2>2, <2>3 DEF IsFirst
    <3>3. DictOf(f)[nm] = Missing
      BY <1>10, <2>1, <3>2 DEF NewSays
    <3>4. QED
      BY <1>13, <2>1, <3>1, <3>3
  <2>4. CASE i # m
    <3>1. i < m /\ Stays(o, ls[i].name)
      BY <1>2, <2>2, <2>4
    <3>2. Has(f, ls[i]) /\ Datum(f, ls[i].offset) = Value(o, old, nm)
      BY <1>10, <2>1, <2>2, <3>1 DEF NewSays
    <3>3. Datum(f, ls[i].offset) # Missing
      BY <1>6, <3>2, DatumFacts, EvAssumption DEF Has
    <3>4. DictOf(f)[nm] = Value(o, old, nm)
      BY <1>10, <2>1, <2>2, <3>1 DEF NewSays
    <3>5. QED
      BY <1>13, <2>1, <3>2, <3>3, <3>4
  <2>5. QED
    BY <2>3, <2>4
<1>15. ASSUME NEW k \in 1 .. l, k < m + 1, l2[k].name \in Name
       PROVE  DictOf(g)[l2[k].name] = Value(o, old, l2[k].name)
  <2>1. CASE ls[k].name = nm
    BY <1>4, <1>14, <1>15, <2>1
  <2>2. CASE ls[k].name # nm
    <3>1. k < m /\ ls[k].name \in Name
      BY <1>3, <1>4, <1>15, <2>2
    <3>2. DictOf(f)[ls[k].name] = Value(o, old, ls[k].name)
      BY <1>10, <3>1 DEF NewSays
    <3>3. QED
      BY <1>4, <1>13, <2>2, <3>1, <3>2
  <2>3. QED
    BY <2>1, <2>2
<1>16. ASSUME NEW x \in Name, \A k \in 1 .. l : k < m + 1 => l2[k].name # x
       PROVE  DictOf(g)[x] = Missing
  <2>1. x # nm /\ \A k \in 1 .. l : k < m => ls[k].name # x
    BY <1>2, <1>3, <1>4, <1>16
  <2>2. DictOf(f)[x] = Missing
    BY <1>10, <2>1 DEF NewSays
  <2>3. QED
    BY <1>13, <2>1, <2>2
<1>17. NewSays(l2, m + 1, g, old, o)
  BY <1>2, <1>11, <1>12, <1>15, <1>16 DEF NewSays
<1>18. QED
  BY <1>1, <1>8, <1>9, <1>17 DEF Copies

\* A turn that leaves out the EV that is deleted.
LEMMA TurnDrops ==
    ASSUME NEW ls \in Seq(NodeAt), NEW m \in 1 .. Len(ls), NEW f, NEW old, NEW o,
           NEW l2, Change(o), Copies(ls, m, f, old, o),
           Moved(ls, m, Len(f), l2), o.cmd = "del", ls[m].name = o.name
    PROVE  Copies(l2, m + 1, f, old, o)
<1> DEFINE l == Len(ls)
<1>1. WellFormed(f) /\ Counts(ls, m, f, o) /\ NewSays(ls, m, f, old, o)
  BY DEF Copies
<1>2. l \in Nat /\ m \in 1 .. l /\ Len(l2) = l
  BY MovedFacts DEF Moved
<1>3. /\ \A k \in 1 .. l : IsFirst(l2, k) <=> IsFirst(ls, k)
      /\ \A x : Unnamed(l2, x) <=> Unnamed(ls, x)
      /\ \A k, x : Only(l2, k, x) <=> Only(ls, k, x)
      /\ \A k \in 1 .. l : k < m + 1 <=> (k < m \/ k = m)
  BY MovedFacts
<1>4. \A k \in 1 .. l : l2[k].name = ls[k].name
  BY DEF Moved
<1>5. \A k \in 1 .. l : k # m => l2[k].offset = ls[k].offset
  BY DEF Moved
<1>6. OldSays(l2, m + 1, old)
  BY OldStillSays DEF Copies
<1>7. Counts(l2, m + 1, f, o)
  <2> DEFINE a == Len(Walk(f))
  <2>1. ASSUME NEW k \in 1 .. l, Only(ls, k, o.name)
        PROVE  a = IF m + 1 <= k THEN (m + 1) - 1 ELSE (m + 1) - 2
    <3>1. k = m
      BY <1>2, <2>1 DEF Only
    <3>2. a = IF m <= k THEN m - 1 ELSE m - 2
      BY <1>1, <2>1 DEF Counts
    <3> HIDE DEF a, l
    <3>3. QED
      BY <1>2, <3>1, <3>2
  <2> HIDE DEF a, l
  <2>2. QED
    BY <1>2, <1>3, <2>1 DEF Counts, a, l
<1>8. ~ Stays(o, ls[m].name)
  BY DEF Stays
<1>9. \A k \in 1 .. l : k < m + 1 /\ Stays(o, ls[k].name) => k < m /\ k # m
  BY <1>3, <1>8
<1>10. \A k \in 1 .. l : k < m + 1 /\ Stays(o, ls[k].name) => (Has(f, l2[k]) <=> Has(f, ls[k]))
  BY <1>4, <1>5, <1>9 DEF Has
<1>11. \A k \in 1 .. l : k < m + 1 /\ Stays(o, l2[k].name) => Has(f, l2[k])
  BY <1>1, <1>4, <1>9, <1>10 DEF NewSays
<1>12. \A k \in 1 .. l :
          k < m + 1 /\ Stays(o, l2[k].name) /\ l2[k].name \in Name /\ IsFirst(l2, k) =>
             Datum(f, l2[k].offset) = Value(o, old, l2[k].name)
  BY <1>1, <1>3, <1>4, <1>5, <1>9 DEF NewSays
<1>13. DictOf(f)[o.name] = Missing /\ Value(o, old, o.name) = Missing
  <2>1. Value(o, old, o.name) = Missing /\ o.name \in Name
    BY DEF Value, Change
  <2>2. CASE \E k \in 1 .. l : k < m /\ ls[k].name = o.name
    BY <1>1, <2>1, <2>2 DEF NewSays
  <2>3. CASE ~ \E k \in 1 .. l : k < m /\ ls[k].name = o.name
    BY <1>1, <2>1, <2>3 DEF NewSays
  <2>4. QED
    BY <2>1, <2>2, <2>3
<1>14. ASSUME NEW k \in 1 .. l, k < m + 1, l2[k].name \in Name
       PROVE  DictOf(f)[l2[k].name] = Value(o, old, l2[k].name)
  <2>1. CASE k = m
    BY <1>4, <1>13, <2>1
  <2>2. CASE k # m
    BY <1>1, <1>3, <1>4, <1>14, <2>2 DEF NewSays
  <2>3. QED
    BY <2>1, <2>2
<1>15. ASSUME NEW x \in Name, \A k \in 1 .. l : k < m + 1 => l2[k].name # x
       PROVE  DictOf(f)[x] = Missing
  <2>1. \A k \in 1 .. l : k < m => ls[k].name # x
    BY <1>3, <1>4, <1>15
  <2>2. QED
    BY <1>1, <2>1 DEF NewSays
<1>16. NewSays(l2, m + 1, f, old, o)
  BY <1>2, <1>11, <1>12, <1>14, <1>15 DEF NewSays
<1>17. QED
  BY <1>1, <1>6, <1>7, <1>16 DEF Copies
\* When every node has been turned to: the new file says what it is to say.
LEMMA AllTurned ==
    ASSUME NEW ls \in Seq(NodeAt), NEW f, NEW old, NEW o,
           Change(o), Copies(ls, Len(ls) + 1, f, old, o)
    PROVE  /\ Len(ls) \in Nat /\ WellFormed(f)
           /\ \A k \in 1 .. Len(ls) : Stays(o, ls[k].name) => Has(f, ls[k])
           /\ \A k \in 1 .. Len(ls) : Stays(o, ls[k].name) /\ ls[k].name \in Name /\ IsFirst(ls, k) =>
                 DictOf(f)[ls[k].name] = Datum(f, ls[k].offset)
           /\ \A nm \in Name : Unnamed(ls, nm) => DictOf(f)[nm] = Missing
           /\ \A nm \in Name : nm # o.name \/ ~ Unnamed(ls, nm) =>
                 DictOf(f)[nm] = Value(o, old, nm)
<1> DEFINE m == Len(ls) + 1
           l == Len(ls)
<1>1. l \in Nat /\ \A k \in 1 .. l : k < m
  BY LenProperties
<1>2. WellFormed(f) /\ OldSays(ls, m, old) /\ NewSays(ls, m, f, old, o)
  BY DEF Copies
<1> HIDE DEF m
<1>3. \A k \in 1 .. l : Stays(o, ls[k].name) => Has(f, ls[k])
  BY <1>1, <1>2 DEF NewSays
<1>4. \A k \in 1 .. l : ls[k].name \in Name => DictOf(f)[ls[k].name] = Value(o, old, ls[k].name)
  BY <1>1, <1>2 DEF NewSays
<1>5. \A k \in 1 .. l : Stays(o, ls[k].name) /\ ls[k].name \in Name /\ IsFirst(ls, k) =>
                 DictOf(f)[ls[k].name] = Datum(f, ls[k].offset)
  BY <1>1, <1>2, <1>4 DEF NewSays
<1>6. \A nm \in Name : Unnamed(ls, nm) => DictOf(f)[nm] = Missing
  BY <1>2 DEF NewSays, Unnamed
<1>7. \A nm \in Name : Unnamed(ls, nm) => DictOf(old)[nm] = Missing
  BY <1>2 DEF OldSays
<1>8. ASSUME NEW nm \in Name, nm # o.name \/ ~ Unnamed(ls, nm)
      PROVE  DictOf(f)[nm] = Value(o, old, nm)
  <2>1. CASE Unnamed(ls, nm)
    <3>1. nm # o.name
      BY <1>8, <2>1
    <3>2. Value(o, old, nm) = DictOf(old)[nm]
      BY <3>1 DEF Value
    <3>3. QED
      BY <1>6, <1>7, <2>1, <3>2
  <2>2. CASE ~ Unnamed(ls, nm)
    BY <1>4, <2>2 DEF Unnamed
  <2>3. QED
    BY <2>1, <2>2
<1>9. QED
  BY <1>1, <1>2, <1>3, <1>5, <1>6, <1>8

\* A dictionary of those values is the old one with the change made.
LEMMA ValuesApplied ==
    ASSUME NEW old \in Seq(Cell), NEW d \in Said, NEW o, Change(o),
           \A nm \in Name : d[nm] = Value(o, old, nm)
    PROVE  d = Applied(DictOf(old), o)
<1>1. DictOf(old) \in Said
  <2>1. 0 \in 0 .. Len(old)
    BY LenProperties
  <2>2. QED
    BY <2>1, DictExists
<1> DEFINE v == IF o.cmd = "set" THEN o.data ELSE Missing
           dd == DictOf(old)
<1>2. d = [nm \in Name |-> d[nm]] /\ dd = [nm \in Name |-> dd[nm]]
  BY <1>1 DEF Said
<1>3. \A nm \in Name : d[nm] = IF nm = o.name THEN v ELSE dd[nm]
  BY DEF Value
<1>4. Applied(dd, o) = [dd EXCEPT ![o.name] = v]
  BY DEF Applied
<1> HIDE DEF v, dd
<1>5. d = [dd EXCEPT ![o.name] = v]
  BY <1>2, <1>3
<1>6. QED
  BY <1>4, <1>5 DEF dd

\* A file says a dictionary.
LEMMA DictTyped == \A file \in Seq(Cell) : DictOf(file) \in Said
<1>1. SUFFICES ASSUME NEW file \in Seq(Cell) PROVE DictOf(file) \in Said
  OBVIOUS
<1>2. 0 \in 0 .. Len(file)
  BY LenProperties
<1>3. QED
  BY <1>2, DictExists

\* An EV that was there is set, or deleted.
LEMMA ChangeDone ==
    ASSUME NEW ls \in Seq(NodeAt), NEW f \in Seq(Cell), NEW old \in Seq(Cell), NEW o,
           Change(o), Copies(ls, Len(ls) + 1, f, old, o), ~ Unnamed(ls, o.name)
    PROVE  /\ WellFormed(f) /\ DictOf(f) = Applied(DictOf(old), o)
           /\ o.cmd = "set" => LinkedTo(ls, f)
<1>1. \A nm \in Name : DictOf(f)[nm] = Value(o, old, nm)
  BY AllTurned
<1>2. DictOf(f) = Applied(DictOf(old), o)
  BY <1>1, DictTyped, ValuesApplied
<1>3. ASSUME o.cmd = "set" PROVE LinkedTo(ls, f)
  <2>1. \A k \in 1 .. Len(ls) : Stays(o, ls[k].name)
    BY <1>3 DEF Stays
  <2>2. Len(Walk(f)) = (Len(ls) + 1) - 1 /\ Len(ls) \in Nat
    BY <1>3, LenProperties DEF Copies, Counts
  <2>3. Len(Walk(f)) = Len(ls)
    BY <2>2
  <2>4. QED
    BY <2>1, <2>3, AllTurned DEF LinkedTo
<1>4. QED
  BY <1>2, <1>3, AllTurned

\* A new EV is set.
LEMMA ChangeAdds ==
    ASSUME NEW ls \in Seq(NodeAt), NEW f \in Seq(Cell), NEW old \in Seq(Cell), NEW o,
           NEW g, NEW back \in BOOLEAN, Change(o), o.cmd = "set",
           Copies(ls, Len(ls) + 1, f, old, o), Unnamed(ls, o.name),
           Continues(f, g, o.name, o.data)
    PROVE  /\ WellFormed(g) /\ DictOf(g) = Applied(DictOf(old), o)
           /\ LinkedTo(Append(ls, Node(o.name, Len(f), back)), g)
<1> DEFINE nd == Node(o.name, Len(f), back)
           l2 == Append(ls, nd)
           l == Len(ls)
<1>1. Len(f) \in Nat /\ o.name \in Name /\ o.data \in Data
  BY LenProperties DEF Change
<1>2. nd \in NodeAt /\ nd.name = o.name /\ nd.offset = Len(f)
  BY <1>1 DEF Node, NodeAt
<1> HIDE DEF nd
<1>3. /\ l2 \in Seq(NodeAt) /\ Len(l2) = l + 1 /\ l \in Nat
      /\ l2[l + 1] = nd
      /\ \A k \in 1 .. l : l2[k] = ls[k]
      /\ \A k \in 1 .. l : IsFirst(l2, k) => IsFirst(ls, k)
      /\ \A nm : Unnamed(l2, nm) => Unnamed(ls, nm) /\ nm # nd.name
  BY <1>2, AddedNode
<1>4. /\ WellFormed(f)
      /\ \A k \in 1 .. l : Stays(o, ls[k].name) => Has(f, ls[k])
      /\ \A k \in 1 .. l : Stays(o, ls[k].name) /\ ls[k].name \in Name /\ IsFirst(ls, k) =>
            DictOf(f)[ls[k].name] = Datum(f, ls[k].offset)
      /\ \A nm \in Name : Unnamed(ls, nm) => DictOf(f)[nm] = Missing
      /\ \A nm \in Name : nm # o.name => DictOf(f)[nm] = Value(o, old, nm)
  BY AllTurned
<1>5. \A k \in 1 .. l : Stays(o, ls[k].name) /\ ls[k].name # o.name
  BY DEF Stays, Unnamed
<1>6. /\ WellFormed(g) /\ Len(Walk(g)) = Len(Walk(f)) + 1
      /\ DictOf(g) = Then(DictOf(f), o.name, o.data)
  BY <1>4, ContinuedFacts
<1>7. /\ g \in Seq(Cell) /\ Len(f) <= Len(g) /\ \A i \in 1 .. Len(f) : g[i] = f[i]
      /\ Record(g, Len(f)) /\ g[Len(f) + 1].name = o.name /\ Datum(g, Len(f)) = o.data
  <2>1. Len(o.data) \in Nat /\ Len(f) \in Nat /\ Len(g) = Len(f) + 1 + Len(o.data)
    BY LenProperties DEF Continues
  <2> DEFINE a == Len(o.data)
             b == Len(f)
             c == Len(g)
  <2>2. b <= c
    <3>1. a \in Nat /\ b \in Nat /\ c = b + 1 + a
      BY <2>1
    <3> HIDE DEF a, b, c
    <3>2. QED
      BY <3>1
  <2>3. QED
    BY <2>2 DEF Continues
<1>8. \A at : Record(f, at) => /\ Record(g, at) /\ g[at + 1] = f[at + 1]
                               /\ Datum(g, at) = Datum(f, at)
  <2>1. Extends(f, g)
    BY <1>7 DEF Extends
  <2>2. QED
    BY <2>1, RecordStays
<1>9. \A nm \in Name : DictOf(g)[nm] = IF nm = o.name THEN o.data ELSE DictOf(f)[nm]
  BY <1>1, <1>4, <1>6 DEF Then
<1>10. DictOf(g) = Applied(DictOf(old), o)
  <2>1. \A nm \in Name : DictOf(g)[nm] = Value(o, old, nm)
    BY <1>4, <1>9 DEF Value
  <2>2. QED
    BY <1>7, <2>1, DictTyped, ValuesApplied
<1>11. Len(Walk(g)) = Len(l2)
  <2> DEFINE a == Len(Walk(f))
  <2>1. a = (l + 1) - 1
    BY DEF Copies, Counts
  <2>2. Len(Walk(g)) = a + 1 /\ Len(l2) = l + 1 /\ l \in Nat
    BY <1>3, <1>6
  <2> HIDE DEF a, l, l2
  <2>3. QED
    BY <2>1, <2>2
<1>12. \A k \in 1 .. l + 1 : k \in 1 .. l \/ k = l + 1
  BY <1>3
<1> HIDE DEF l2, l
<1>13. \A k \in 1 .. l + 1 : Has(g, l2[k])
  <2>1. Has(g, nd)
    BY <1>2, <1>7 DEF Has
  <2>2. \A k \in 1 .. l : Has(g, ls[k])
    BY <1>4, <1>5, <1>8 DEF Has
  <2>3. QED
    BY <1>3, <1>12, <2>1, <2>2
<1>14. ASSUME NEW k \in 1 .. l + 1, l2[k].name \in Name, IsFirst(l2, k)
       PROVE  DictOf(g)[l2[k].name] = Datum(g, l2[k].offset)
  <2>1. CASE k \in 1 .. l
    <3>1. l2[k] = ls[k] /\ IsFirst(ls, k)
      BY <1>3, <1>14, <2>1
    <3>2. DictOf(f)[ls[k].name] = Datum(f, ls[k].offset) /\ Has(f, ls[k])
      BY <1>4, <1>5, <1>14, <2>1, <3>1
    <3>3. Datum(g, ls[k].offset) = Datum(f, ls[k].offset)
      BY <1>8, <3>2 DEF Has
    <3>4. DictOf(g)[ls[k].name] = DictOf(f)[ls[k].name]
      BY <1>5, <1>9, <1>14, <2>1, <3>1
    <3>5. QED
      BY <3>1, <3>2, <3>3, <3>4
  <2>2. CASE k = l + 1
    BY <1>1, <1>2, <1>3, <1>7, <1>9, <2>2
  <2>3. QED
    BY <1>12, <2>1, <2>2
<1>15. \A nm \in Name : Unnamed(l2, nm) => DictOf(g)[nm] = Missing
  BY <1>2, <1>3, <1>4, <1>9
<1>16. LinkedTo(l2, g)
  BY <1>3, <1>6, <1>11, <1>13, <1>14, <1>15 DEF LinkedTo
<1>17. QED
  BY <1>6, <1>10, <1>16 DEF l2, nd

\* The list without the node at a place.
Without(ls, k, l2) ==
    /\ l2 \in Seq(NodeAt) /\ Len(l2) = Len(ls) - 1
    /\ \A j \in 1 .. Len(ls) - 1 :
          /\ l2[j].name = ls[IF j < k THEN j ELSE j + 1].name
          /\ l2[j].offset = ls[IF j < k THEN j ELSE j + 1].offset

\* An EV is deleted that was there once.
LEMMA ChangeUnlinks ==
    ASSUME NEW ls \in Seq(NodeAt), NEW f \in Seq(Cell), NEW old \in Seq(Cell), NEW o,
           NEW k \in 1 .. Len(ls), NEW l2, Change(o), o.cmd = "del",
           Copies(ls, Len(ls) + 1, f, old, o), Only(ls, k, o.name), Without(ls, k, l2)
    PROVE  LinkedTo(l2, f)
<1> DEFINE l == Len(ls)
           Old(j) == IF j < k THEN j ELSE j + 1
<1>1. l \in Nat /\ k \in 1 .. l /\ Len(l2) = l - 1
  BY LenProperties DEF Without
<1>2. \A j \in 1 .. l - 1 : Old(j) \in 1 .. l /\ Old(j) # k
  BY <1>1
<1>3. \A i, j \in 1 .. l - 1 : Old(i) <= Old(j) <=> i <= j
  BY <1>1
<1>4. \A i \in 1 .. l : i # k => \E j \in 1 .. l - 1 : Old(j) = i
  <2>1. SUFFICES ASSUME NEW i \in 1 .. l, i # k PROVE \E j \in 1 .. l - 1 : Old(j) = i
    OBVIOUS
  <2>2. CASE i < k
    <3>1. i \in 1 .. l - 1 /\ Old(i) = i
      BY <1>1, <2>2
    <3>2. QED
      BY <3>1
  <2>3. CASE ~ (i < k)
    <3>1. i - 1 \in 1 .. l - 1 /\ Old(i - 1) = i
      BY <1>1, <2>1, <2>3
    <3>2. QED
      BY <3>1
  <2>4. QED
    BY <2>2, <2>3
<1>5. \A j \in 1 .. l - 1 : l2[j].name = ls[Old(j)].name /\ l2[j].offset = ls[Old(j)].offset
  BY DEF Without
<1> HIDE DEF Old
<1>6. \A j \in 1 .. l - 1 : ls[Old(j)].name # o.name /\ Stays(o, ls[Old(j)].name)
  BY <1>2 DEF Only, Stays
<1>7. ls[k].name = o.name
  BY DEF Only
<1>8. /\ WellFormed(f)
      /\ \A i \in 1 .. l : Stays(o, ls[i].name) => Has(f, ls[i])
      /\ \A i \in 1 .. l : Stays(o, ls[i].name) /\ ls[i].name \in Name /\ IsFirst(ls, i) =>
            DictOf(f)[ls[i].name] = Datum(f, ls[i].offset)
      /\ \A nm \in Name : Unnamed(ls, nm) => DictOf(f)[nm] = Missing
      /\ \A nm \in Name : nm # o.name \/ ~ Unnamed(ls, nm) => DictOf(f)[nm] = Value(o, old, nm)
  BY AllTurned
<1>9. Len(Walk(f)) = Len(l2)
  <2> DEFINE a == Len(Walk(f))
  <2>1. a = IF l + 1 <= k THEN (l + 1) - 1 ELSE (l + 1) - 2
    BY DEF Copies, Counts
  <2> HIDE DEF a, l
  <2>2. a = l - 1
    BY <1>1, <2>1
  <2>3. QED
    BY <1>1, <2>2 DEF a
<1>10. \A j \in 1 .. l - 1 : Has(f, l2[j])
  <2>1. \A j \in 1 .. l - 1 : Has(f, ls[Old(j)])
    BY <1>2, <1>6, <1>8
  <2>2. QED
    BY <1>5, <2>1 DEF Has
<1>11. ASSUME NEW j \in 1 .. l - 1, l2[j].name \in Name, IsFirst(l2, j)
       PROVE  DictOf(f)[l2[j].name] = Datum(f, l2[j].offset)
  <2>1. IsFirst(ls, Old(j))
    <3>1. SUFFICES ASSUME NEW i \in 1 .. l, ls[i].name = ls[Old(j)].name PROVE Old(j) <= i
      BY DEF IsFirst
    <3>2. i # k
      BY <1>6, <1>7, <3>1
    <3>3. PICK q \in 1 .. l - 1 : Old(q) = i
      BY <1>4, <3>2
    <3>4. l2[q].name = l2[j].name
      BY <1>5, <3>1, <3>3
    <3>5. j <= q
      BY <1>1, <1>11, <3>4 DEF IsFirst
    <3>6. QED
      BY <1>3, <3>3, <3>5
  <2>2. QED
    BY <1>2, <1>5, <1>6, <1>8, <1>11, <2>1
<1>12. ASSUME NEW nm \in Name, Unnamed(l2, nm)
       PROVE  DictOf(f)[nm] = Missing
  <2>1. CASE nm = o.name
    <3>1. ~ Unnamed(ls, nm)
      BY <1>7, <2>1 DEF Unnamed
    <3>2. DictOf(f)[nm] = Value(o, old, nm)
      BY <1>8, <3>1
    <3>3. QED
      BY <2>1, <3>2 DEF Value
  <2>2. CASE nm # o.name
    <3>1. \A j \in 1 .. l - 1 : ls[Old(j)].name # nm
      BY <1>1, <1>5, <1>12 DEF Unnamed
    <3>2. \A i \in 1 .. l : ls[i].name # nm
      BY <1>4, <1>7, <2>2, <3>1
    <3>3. QED
      BY <1>8, <3>2 DEF Unnamed
  <2>3. QED
    BY <2>1, <2>2
<1>13. QED
  BY <1>1, <1>8, <1>9, <1>10, <1>11, <1>12 DEF LinkedTo
(***************************************************************************)
(* The invariant.                                                          *)
(***************************************************************************)

\* List and file agree, wherever the daemon is, but where they were left in
\* disagreement.
Linkage ==
    /\ pc = "load" /\ WellFormed(evs) => LinkedUpTo(list, evs, off)
    /\ ~ skewed =>
          /\ pc = "idle" => LinkedTo(list, IF evs = Absent THEN tmp ELSE evs)
          /\ pc = "create" => LinkedTo(list, tmp)
          /\ pc = "copy" => Copies(list, n, out, tmp, op)
          /\ pc = "close" => LinkedTo(list, out)
          /\ pc = "remove" => LinkedTo(list, evs)

\* A file that says what the store may hold.
Good(file, dicts) == file # Absent /\ WellFormed(file) /\ DictOf(file) \in dicts

\* Where the EVs are, while a copy is guarded.
Guard ==
    guarded =>
        /\ pc \in {"load", "idle"} => Good(evs, want) \/ Good(tmp, want)
        /\ pc \in {"create", "copy", "close", "remove"} => Good(tmp, want)
        /\ pc \in {"create", "copy"} => ~ skewed
        /\ pc = "close" => WellFormed(out) /\ \E d \in want : DictOf(out) = Applied(d, op)
        /\ pc = "remove" => WellFormed(evs) /\ \E d \in want : DictOf(evs) = Applied(d, op)

\* The inductive invariant.
EvInv == TypeInv /\ Linkage /\ Guard

\* It holds initially, with an empty file and an empty list.
LEMMA InitAgrees == Init => EvInv
<1>1. SUFFICES ASSUME Init PROVE EvInv
  OBVIOUS
<1>2. Linkage
  <2>1. LinkedUpTo(<< >>, << >>, 0)
    BY EmptyFile, LinkingBegins
  <2>2. QED
    BY <1>1, <2>1 DEF Init, Linkage
<1>3. Guard
  BY <1>1, EmptyFile, EvAssumption, EmptySeq DEF Init, Guard, Good
<1>4. QED
  BY <1>1, <1>2, <1>3, InitTypes DEF EvInv

\* The invariant: an answer.
LEMMA AnsweringAgrees == EvInv /\ (Answering \/ UNCHANGED vars) => Linkage' /\ Guard'
<1>1. SUFFICES ASSUME EvInv, Answering \/ UNCHANGED vars PROVE Linkage' /\ Guard'
  OBVIOUS
<1>2. UNCHANGED <<evs, tmp, list, pc, op, n, out, off, skewed, want, guarded>>
  BY <1>1 DEF Answering, vars, files, rewrite, history
<1>3. QED
  BY <1>1, <1>2 DEF EvInv, Linkage, Guard

\* The invariant: loading the next record.
LEMMA LoadAgrees == EvInv /\ LoadNext => Linkage' /\ Guard'
<1>1. SUFFICES ASSUME EvInv, LoadNext PROVE Linkage' /\ Guard'
  OBVIOUS
<1>2. /\ pc = "load" /\ UNCHANGED <<evs, tmp, want, guarded>>
      /\ evs \in Seq(Cell) /\ evs # Absent /\ list \in Seq(NodeAt) /\ Len(evs) \in Nat
      /\ off \in Nat
  <2>1. pc = "load" /\ UNCHANGED <<evs, tmp, want, guarded>>
    BY <1>1 DEF LoadNext, files
  <2>2. evs \in Seq(Cell) /\ evs # Absent
    BY <1>1, <2>1 DEF EvInv, TypeInv, FilesTyped
  <2>3. QED
    BY <1>1, <2>1, <2>2, LenProperties DEF EvInv, TypeInv, StepTyped
<1>3. pc' \in {"load", "idle"}
  BY <1>1 DEF LoadNext
<1>4. Guard'
  BY <1>1, <1>2, <1>3 DEF EvInv, Guard
<1>5. WellFormed(evs) => LinkedUpTo(list, evs, off)
  BY <1>1, <1>2 DEF EvInv, Linkage
<1>6. CASE /\ off < Len(evs) /\ pc' = pc
           /\ \E h \in HeadersAt(evs, off) :
                 list' = Append(list, Node(h.name, off, off > 0)) /\ off' = off + 1 + h.size
  <2>1. ASSUME WellFormed(evs) PROVE LinkedUpTo(list', evs, off')
    <3>1. off # Len(evs) /\ LinkedUpTo(list, evs, off)
      BY <1>2, <1>5, <1>6, <2>1
    <3>2. (off > 0) \in BOOLEAN
      OBVIOUS
    <3>3. /\ Record(evs, off)
          /\ LinkedUpTo(Append(list, Node(evs[off + 1].name, off, off > 0)), evs, After(evs, off))
      BY <1>2, <3>1, <3>2, LinkingGoesOn
    <3>4. HeadersAt(evs, off) = {evs[off + 1]}
      BY <1>2, <1>6, <3>3 DEF HeadersAt, Record
    <3>5. list' = Append(list, Node(evs[off + 1].name, off, off > 0)) /\ off' = After(evs, off)
      BY <1>6, <3>4 DEF After
    <3>6. QED
      BY <3>3, <3>5
  <2>2. Linkage'
    BY <1>2, <1>6, <2>1 DEF Linkage
  <2>3. QED
    BY <1>4, <2>2
<1>7. CASE off >= Len(evs) /\ pc' = "idle" /\ skewed' = ~ WellFormed(evs) /\ UNCHANGED <<list, off>>
  <2>1. ASSUME ~ skewed' PROVE LinkedTo(list, evs)
    <3>1. WellFormed(evs) /\ LinkedUpTo(list, evs, off)
      BY <1>5, <1>7, <2>1
    <3>2. off = Len(evs)
      BY <1>2, <1>7, <3>1 DEF LinkedUpTo
    <3>3. QED
      BY <1>2, <3>1, <3>2, LinkingEnds
  <2>2. Linkage'
    BY <1>2, <1>7, <2>1 DEF Linkage
  <2>3. QED
    BY <1>4, <2>2
<1>8. QED
  BY <1>1, <1>6, <1>7 DEF LoadNext

\* The invariant: the start of an operation.
LEMMA StartAgrees ==
    ASSUME EvInv, NEW nm \in Name, NEW data, SetStart(nm, data) \/ DeleteStart(nm)
    PROVE  Linkage' /\ Guard'
<1>1. /\ pc = "idle" /\ pc' = "create"
      /\ RenameAway
      /\ guarded' = (guarded /\ ~ skewed /\ Exposed)
      /\ want \subseteq want'
      /\ UNCHANGED <<list, skewed>>
  BY DEF SetStart, DeleteStart, Start
<1>2. tmp' = IF evs = Absent THEN tmp ELSE evs
  BY <1>1 DEF RenameAway
<1>3. Linkage'
  BY <1>1, <1>2 DEF EvInv, Linkage
<1>4. ASSUME guarded' PROVE Good(tmp', want') /\ ~ skewed
  <2>1. guarded /\ ~ skewed /\ Exposed
    BY <1>1, <1>4
  <2>2. Good(tmp', want)
    BY <1>1, <1>2, <2>1 DEF EvInv, Guard, Good, Exposed
  <2>3. QED
    BY <1>1, <2>1, <2>2 DEF Good
<1>5. Guard'
  BY <1>1, <1>4 DEF Guard
<1>6. QED
  BY <1>3, <1>5

\* The invariant: opening the new file.
LEMMA CreateAgrees == EvInv /\ Create => Linkage' /\ Guard'
<1>1. SUFFICES ASSUME EvInv, Create PROVE Linkage' /\ Guard'
  OBVIOUS
<1>2. pc = "create" /\ UNCHANGED <<tmp, list, skewed, want, guarded>>
  BY <1>1 DEF Create, history
<1>3. /\ tmp \in Seq(Cell) /\ list \in Seq(NodeAt) /\ Change(op) /\ out = << >> /\ evs = Absent
  BY <1>1, <1>2 DEF EvInv, TypeInv, FilesTyped, StepTyped, RewriteTyped, Changing, Change
<1>4. ~ skewed => LinkedTo(list, tmp)
  BY <1>1, <1>2 DEF EvInv, Linkage
<1>5. CASE pc' = "copy" /\ n' = 1 /\ UNCHANGED <<op, out, e, buf, reply, faults>>
  <2>1. ~ skewed => Copies(list, 1, << >>, tmp, op)
    BY <1>3, <1>4, CopyingBegins
  <2>2. Linkage'
    BY <1>2, <1>3, <1>5, <2>1 DEF Linkage
  <2>3. Guard'
    BY <1>1, <1>2, <1>5 DEF EvInv, Guard
  <2>4. QED
    BY <2>2, <2>3
<1>6. CASE pc' = "idle" /\ UNCHANGED evs
  <2>1. Linkage'
    BY <1>2, <1>3, <1>4, <1>6 DEF Linkage
  <2>2. Guard'
    BY <1>1, <1>2, <1>6 DEF EvInv, Guard
  <2>3. QED
    BY <2>1, <2>2
<1>7. QED
  BY <1>1, <1>5, <1>6 DEF Create

\* What a turn of the loop changes.
LEMMA TurnAgrees ==
    ASSUME EvInv, Rewriting, NEW written, NodeMoved(written),
           ~ skewed => Copies(list', n + 1, out', tmp, op)
    PROVE  Linkage' /\ Guard'
<1>1. /\ pc = "copy" /\ n' = n + 1
      /\ UNCHANGED <<evs, tmp, pc, op, off, skewed, want, guarded>>
  BY DEF Rewriting, NodeMoved, files, history
<1>2. Linkage'
  BY <1>1 DEF Linkage
<1>3. Guard'
  BY <1>1 DEF EvInv, Guard
<1>4. QED
  BY <1>2, <1>3

\* What is so at the start of a turn.
LEMMA Turning ==
    ASSUME EvInv, Rewriting
    PROVE  /\ tmp \in Seq(Cell) /\ n \in 1 .. Len(list) /\ list \in Seq(NodeAt)
           /\ list[n].offset \in Nat /\ list[n].name \in Name \cup {JunkName}
           /\ out \in Seq(Cell) /\ buf \in [1 .. MaxLen -> Cell] /\ pc = "copy"
           /\ Changing /\ Change(op)
           /\ ~ skewed => Copies(list, n, out, tmp, op)
           /\ ~ skewed => Has(tmp, list[n])
           /\ \A written : NodeMoved(written) =>
                 Moved(list, n, Len(out), list') /\ out' = out \o written
<1>1. TypeInv
  BY DEF EvInv
<1>2. /\ tmp \in Seq(Cell) /\ n \in 1 .. Len(list) /\ list \in Seq(NodeAt)
      /\ list[n].offset \in Nat /\ list[n].name \in Name \cup {JunkName}
      /\ out \in Seq(Cell) /\ buf \in [1 .. MaxLen -> Cell] /\ pc = "copy" /\ Changing
  BY <1>1, CopyingFrom DEF TypeInv
<1>3. ~ skewed => Copies(list, n, out, tmp, op)
  BY <1>2 DEF EvInv, Linkage
<1>4. ~ skewed => Has(tmp, list[n])
  BY <1>2, <1>3 DEF Copies, OldSays
<1>5. \A written : NodeMoved(written) => Moved(list, n, Len(out), list') /\ out' = out \o written
  <2>1. SUFFICES ASSUME NEW written, NodeMoved(written)
                 PROVE  Moved(list, n, Len(out), list') /\ out' = out \o written
    OBVIOUS
  <2>2. Moved(list, n, Len(out), list')
    BY <1>1, <2>1, MovedList DEF Moved
  <2>3. QED
    BY <2>1, <2>2 DEF NodeMoved
<1>6. Change(op)
  BY <1>2 DEF Changing, Change
<1>7. QED
  BY <1>2, <1>3, <1>4, <1>5, <1>6

\* The invariant: writing the new record.
LEMMA CopyMatchingAgrees == EvInv /\ CopyMatching => Linkage' /\ Guard'
<1>1. SUFFICES ASSUME EvInv, CopyMatching PROVE Linkage' /\ Guard'
  OBVIOUS
<1>2. Rewriting /\ list[n].name = op.name /\ NodeMoved(Written)
  BY <1>1 DEF CopyMatching, Matches, Written
<1>3. /\ n \in 1 .. Len(list) /\ list \in Seq(NodeAt) /\ out \in Seq(Cell)
      /\ Change(op) /\ Changing
      /\ ~ skewed => Copies(list, n, out, tmp, op)
      /\ Moved(list, n, Len(out), list') /\ out' = out \o Written
  BY <1>1, <1>2, Turning
<1>4. ASSUME ~ skewed PROVE Copies(list', n + 1, out', tmp, op)
  <2>1. CASE op.cmd = "set"
    <3>1. Written = EvRecord(op.name, op.data) /\ op.data \in Data /\ op.name \in Name
      BY <1>3, <2>1 DEF Written, Change
    <3>2. op.data \in Seq(Cell) /\ Len(op.data) <= MaxLen
      BY <3>1, DataOfCells
    <3>3. Continues(out, out', list[n].name, op.data)
      BY <1>2, <1>3, <3>1, <3>2, AppendedRecord
    <3>4. Stays(op, list[n].name) /\ op.data = Value(op, tmp, list[n].name)
      BY <1>2, <2>1 DEF Stays, Value
    <3>5. QED
      BY <1>3, <1>4, <3>3, <3>4, TurnWrites
  <2>2. CASE op.cmd = "del"
    <3>1. Written = << >>
      BY <2>2 DEF Written
    <3>2. out' = out
      BY <1>3, <3>1, ConcatEmptySeq
    <3>3. Copies(list', n + 1, out, tmp, op)
      BY <1>2, <1>3, <1>4, <2>2, TurnDrops
    <3>4. QED
      BY <3>2, <3>3
  <2>3. QED
    BY <1>3, <2>1, <2>2 DEF Change
<1>5. QED
  BY <1>1, <1>2, <1>4, TurnAgrees

\* What is read of a record where there is one.
LEMMA ReadsRecord ==
    ASSUME NEW file \in Seq(Cell), NEW node \in NodeAt, Has(file, node)
    PROVE  /\ HeadersAt(file, node.offset) = {file[node.offset + 1]}
           /\ file[node.offset + 1] = Hdr(node.name, Len(Datum(file, node.offset)))
           /\ DataAt(file, node.offset, file[node.offset + 1].size) = Datum(file, node.offset)
           /\ Datum(file, node.offset) \in Seq(Cell)
           /\ Len(Datum(file, node.offset)) <= MaxLen
           /\ file[node.offset + 1].size = Len(Datum(file, node.offset))
<1> DEFINE at == node.offset
<1>1. Record(file, at) /\ file[at + 1].name = node.name
  BY DEF Has
<1>2. /\ Len(file) \in Nat /\ file[at + 1].size <= MaxLen
      /\ file[at + 1] = Hdr(file[at + 1].name, file[at + 1].size)
  BY <1>1, RecordFacts
<1>3. Datum(file, at) \in Seq(Cell) /\ Len(Datum(file, at)) = file[at + 1].size
  BY <1>1, DatumFacts
<1>4. HeadersAt(file, at) = {file[at + 1]}
  BY <1>1, <1>2 DEF HeadersAt, Record
<1>5. QED
  BY <1>1, <1>2, <1>3, <1>4 DEF Datum

\* The invariant: copying another record.
LEMMA CopyOtherAgrees == EvInv /\ CopyOther => Linkage' /\ Guard'
<1>1. SUFFICES ASSUME EvInv, CopyOther PROVE Linkage' /\ Guard'
  OBVIOUS
<1>2. Rewriting /\ list[n].name # op.name
  BY <1>1 DEF CopyOther, Matches
<1>3. /\ n \in 1 .. Len(list) /\ list \in Seq(NodeAt) /\ out \in Seq(Cell) /\ tmp \in Seq(Cell)
      /\ Change(op) /\ list[n].name \in Name \cup {JunkName}
      /\ buf \in [1 .. MaxLen -> Cell]
      /\ ~ skewed => Copies(list, n, out, tmp, op) /\ Has(tmp, list[n])
      /\ \A written : NodeMoved(written) =>
            Moved(list, n, Len(out), list') /\ out' = out \o written
  BY <1>1, <1>2, Turning
<1>4. list[n] \in NodeAt
  BY <1>3, ElementOfSeq
<1>5. PICK h \in HeadersAt(tmp, list[n].offset) :
          LET data == DataAt(tmp, list[n].offset, h.size) IN
          NodeMoved(<<h>> \o (IF op.cmd = "set" /\ data = << >> THEN << >>
                              ELSE SubSeq(Filled(data), 1, h.size)))
  BY <1>1 DEF CopyOther
<1> DEFINE data == DataAt(tmp, list[n].offset, h.size)
           w == <<h>> \o (IF op.cmd = "set" /\ data = << >> THEN << >>
                          ELSE SubSeq(Filled(data), 1, h.size))
<1>6. NodeMoved(w)
  BY <1>5
<1>7. ASSUME ~ skewed PROVE Copies(list', n + 1, out', tmp, op)
  <2>1. Copies(list, n, out, tmp, op) /\ Has(tmp, list[n])
    BY <1>3, <1>7
  <2>2. /\ h = Hdr(list[n].name, Len(data)) /\ data = Datum(tmp, list[n].offset)
        /\ data \in Seq(Cell) /\ Len(data) <= MaxLen /\ h.size = Len(data)
    <3> DEFINE at == list[n].offset
               d == Datum(tmp, at)
               c == tmp[at + 1]
    <3>1. /\ HeadersAt(tmp, at) = {c} /\ c = Hdr(list[n].name, Len(d))
          /\ DataAt(tmp, at, c.size) = d
          /\ d \in Seq(Cell) /\ Len(d) <= MaxLen /\ c.size = Len(d)
      BY <1>3, <1>4, <2>1, ReadsRecord
    <3>2. h = c
      <4> HIDE DEF c
      <4>1. QED
        BY <3>1
    <3>3. data = d
      BY <3>1, <3>2
    <3> HIDE DEF data, d, c
    <3>4. QED
      BY <3>1, <3>2, <3>3 DEF d
  <2>3. w = EvRecord(list[n].name, data)
    <3> HIDE DEF data
    <3>1. SubSeq(Filled(data), 1, h.size) = data
      BY <1>3, <2>2, FilledWhole
    <3>2. QED
      BY <2>2, <3>1 DEF EvRecord
  <2>4. Moved(list, n, Len(out), list') /\ out' = out \o w
    <3> HIDE DEF w
    <3>1. QED
      BY <1>3, <1>6
  <2> HIDE DEF w, data
  <2>5. Continues(out, out', list[n].name, data)
    BY <1>3, <2>2, <2>3, <2>4, AppendedRecord
  <2>6. Stays(op, list[n].name)
    BY <1>2 DEF Stays
  <2>7. list[n].name \in Name /\ IsFirst(list, n) => data = Value(op, tmp, list[n].name)
    <3>1. SUFFICES ASSUME list[n].name \in Name, IsFirst(list, n)
                   PROVE  data = Value(op, tmp, list[n].name)
      OBVIOUS
    <3>2. n <= n
      BY <1>3
    <3>3. DictOf(tmp)[list[n].name] = data
      BY <1>3, <2>1, <2>2, <3>1, <3>2 DEF Copies, OldSays
    <3>4. QED
      BY <1>2, <3>3 DEF Value
  <2>8. QED
    BY <1>3, <2>1, <2>4, <2>5, <2>6, <2>7, TurnWrites
<1> HIDE DEF w
<1>8. QED
  BY <1>1, <1>2, <1>6, <1>7, TurnAgrees
\* Where there is nothing to copy, list and file were left in disagreement.
LEMMA NothingThere ==
    ASSUME EvInv, Rewriting, HeadersAt(tmp, list[n].offset) = {}
    PROVE  skewed
<1>1. SUFFICES ASSUME ~ skewed PROVE FALSE
  OBVIOUS
<1>2. tmp \in Seq(Cell) /\ n \in 1 .. Len(list) /\ list \in Seq(NodeAt) /\ Has(tmp, list[n])
  BY <1>1, Turning
<1>3. list[n] \in NodeAt
  BY <1>2, ElementOfSeq
<1>4. HeadersAt(tmp, list[n].offset) = {tmp[list[n].offset + 1]}
  BY <1>2, <1>3, ReadsRecord
<1>5. QED
  BY <1>4

\* The invariant: a turn that copies nothing.
LEMMA CopyNothingAgrees == EvInv /\ CopyNothing => Linkage' /\ Guard'
<1>1. SUFFICES ASSUME EvInv, CopyNothing PROVE Linkage' /\ Guard'
  OBVIOUS
<1>2. Rewriting /\ HeadersAt(tmp, list[n].offset) = {} /\ \E written : NodeMoved(written)
  BY <1>1 DEF CopyNothing
<1>3. skewed
  BY <1>1, <1>2, NothingThere
<1>4. QED
  BY <1>1, <1>2, <1>3, TurnAgrees

\* The list is empty when the daemon begins anew.
LEMMA RestartAgrees ==
    ASSUME Restart, evs' \in Seq(Cell), guarded' => Good(evs', want') \/ Good(tmp', want')
    PROVE  Linkage' /\ Guard'
<1>1. list' = << >> /\ pc' = "load" /\ off' = 0
  BY DEF Restart
<1>2. \A file \in Seq(Cell) : WellFormed(file) => LinkedUpTo(<< >>, file, 0)
  BY LinkingBegins
<1>3. WellFormed(evs') => LinkedUpTo(list', evs', off')
  BY <1>1, <1>2
<1>4. Linkage'
  BY <1>1, <1>3 DEF Linkage
<1>5. Guard'
  BY <1>1 DEF Guard
<1>6. QED
  BY <1>4, <1>5

\* The invariant: a failure or a stop.
LEMMA ExitAgrees == EvInv /\ (ExitInSet \/ Crash) => Linkage' /\ Guard'
<1>1. SUFFICES ASSUME EvInv, ExitInSet \/ Crash PROVE Linkage' /\ Guard'
  OBVIOUS
<1>2. Restart /\ tmp' = tmp /\ want' = want
  BY <1>1 DEF ExitInSet, Crash
<1>3. evs' \in Seq(Cell)
  <2>1. TypeInv'
    BY <1>1, ExitTypes DEF EvInv
  <2>2. pc' = "load"
    BY <1>2 DEF Restart
  <2>3. QED
    BY <2>1, <2>2 DEF TypeInv, FilesTyped
<1>4. ASSUME guarded' PROVE Good(evs', want') \/ Good(tmp', want')
  <2>1. Crash /\ guarded
    BY <1>1, <1>4 DEF ExitInSet, Crash
  <2>2. CASE pc \in {"load", "idle"}
    <3>1. Good(evs, want) \/ Good(tmp, want)
      BY <1>1, <2>1, <2>2 DEF EvInv, Guard
    <3>2. Good(evs, want) => evs' = evs
      BY <2>1, <2>2 DEF Crash, Good
    <3>3. Good(evs, want) => Good(evs', want')
      BY <1>2, <3>2
    <3>4. QED
      BY <1>2, <3>1, <3>3
  <2>3. CASE pc \in {"create", "copy", "close", "remove"}
    <3>1. Good(tmp, want)
      BY <1>1, <2>1, <2>3 DEF EvInv, Guard
    <3>2. QED
      BY <1>2, <3>1
  <2>4. pc \in {"load", "idle"} \/ pc \in {"create", "copy", "close", "remove"}
    BY <1>1 DEF EvInv, TypeInv, StepTyped
  <2>5. QED
    BY <2>2, <2>3, <2>4
<1>5. QED
  BY <1>2, <1>3, <1>4, RestartAgrees

\* At the end of the loop.
LEMMA Finishing ==
    ASSUME EvInv, pc = "copy", n > Len(list)
    PROVE  /\ tmp \in Seq(Cell) /\ out \in Seq(Cell) /\ list \in Seq(NodeAt) /\ Change(op)
           /\ Len(list) \in Nat /\ n = Len(list) + 1
           /\ ~ skewed => Copies(list, Len(list) + 1, out, tmp, op)
           /\ guarded => ~ skewed /\ Good(tmp, want)
           /\ Named(op.name) = {} <=> Unnamed(list, op.name)
           /\ op.cmd = "del" => Named(op.name) # {}
<1>1. /\ tmp \in Seq(Cell) /\ out \in Seq(Cell) /\ list \in Seq(NodeAt) /\ Change(op)
      /\ n \in 1 .. Len(list) + 1
      /\ op.cmd = "del" => Named(op.name) # {}
  BY DEF EvInv, TypeInv, FilesTyped, StepTyped, RewriteTyped, Changing, Change
<1>2. Len(list) \in Nat /\ DOMAIN list = 1 .. Len(list)
  BY <1>1, LenProperties
<1>3. n = Len(list) + 1
  BY <1>1, <1>2
<1>4. ~ skewed => Copies(list, Len(list) + 1, out, tmp, op)
  BY <1>3 DEF EvInv, Linkage
<1>5. guarded => ~ skewed /\ Good(tmp, want)
  BY DEF EvInv, Guard
<1>6. Named(op.name) = {} <=> Unnamed(list, op.name)
  BY <1>2 DEF Named, Unnamed
<1>7. QED
  BY <1>1, <1>2, <1>3, <1>4, <1>5, <1>6

\* The new file says what it is to say, and the list leads to it.
LEMMA FinishSetSays ==
    EvInv /\ FinishSet /\ ~ skewed =>
        /\ WellFormed(out') /\ DictOf(out') = Applied(DictOf(tmp), op)
        /\ LinkedTo(list', out')
<1>1. SUFFICES ASSUME EvInv, FinishSet, ~ skewed
               PROVE  /\ WellFormed(out') /\ DictOf(out') = Applied(DictOf(tmp), op)
                      /\ LinkedTo(list', out')
  OBVIOUS
<1>2. /\ pc = "copy" /\ n > Len(list) /\ op.cmd = "set" /\ pc' = "close"
      /\ UNCHANGED <<evs, tmp, op, skewed, want, guarded>>
  BY <1>1 DEF FinishSet, files, history
<1>3. /\ tmp \in Seq(Cell) /\ out \in Seq(Cell) /\ list \in Seq(NodeAt) /\ Change(op)
      /\ ~ skewed => Copies(list, Len(list) + 1, out, tmp, op)
      /\ guarded => ~ skewed /\ Good(tmp, want)
      /\ Named(op.name) = {} <=> Unnamed(list, op.name)
  BY <1>1, <1>2, Finishing
<1>4. ~ skewed => /\ WellFormed(out') /\ DictOf(out') = Applied(DictOf(tmp), op)
                  /\ LinkedTo(list', out')
  <2>1. SUFFICES ASSUME ~ skewed
                 PROVE  /\ WellFormed(out') /\ DictOf(out') = Applied(DictOf(tmp), op)
                        /\ LinkedTo(list', out')
    OBVIOUS
  <2>2. CASE Named(op.name) # {} /\ UNCHANGED <<list, out>>
    <3>1. /\ WellFormed(out) /\ DictOf(out) = Applied(DictOf(tmp), op)
          /\ LinkedTo(list, out)
      BY <1>2, <1>3, <2>1, <2>2, ChangeDone
    <3>2. out' = out /\ list' = list
      BY <2>2
    <3>3. QED
      BY <3>1, <3>2
  <2>3. CASE /\ Named(op.name) = {}
             /\ list' = Append(list, Node(op.name, Len(out), list # << >>))
             /\ out' = out \o EvRecord(op.name, op.data)
    <3>1. op.data \in Seq(Cell) /\ Len(op.data) <= MaxLen /\ op.name \in Name
      BY <1>2, <1>3, DataOfCells DEF Change
    <3>2. Continues(out, out', op.name, op.data)
      BY <1>3, <2>3, <3>1, AppendedRecord
    <3>3. PICK back \in BOOLEAN : back = (list # << >>)
      OBVIOUS
    <3>4. Unnamed(list, op.name) /\ Copies(list, Len(list) + 1, out, tmp, op)
      BY <1>3, <2>1, <2>3
    <3>5. /\ WellFormed(out') /\ DictOf(out') = Applied(DictOf(tmp), op)
          /\ LinkedTo(Append(list, Node(op.name, Len(out), back)), out')
      <4>1. PICK ls, f, g, old, o : ls = list /\ f = out /\ g = out' /\ old = tmp /\ o = op
        OBVIOUS
      <4>2. /\ ls \in Seq(NodeAt) /\ f \in Seq(Cell) /\ old \in Seq(Cell)
            /\ Change(o) /\ o.cmd = "set" /\ Copies(ls, Len(ls) + 1, f, old, o)
            /\ Unnamed(ls, o.name) /\ Continues(f, g, o.name, o.data)
        BY <1>2, <1>3, <3>2, <3>4, <4>1
      <4>3. /\ WellFormed(g) /\ DictOf(g) = Applied(DictOf(old), o)
            /\ LinkedTo(Append(ls, Node(o.name, Len(f), back)), g)
        BY <4>2, ChangeAdds
      <4>4. QED
        BY <4>1, <4>3
    <3>6. QED
      BY <2>3, <3>3, <3>5
  <2>4. QED
    BY <1>1, <2>2, <2>3 DEF FinishSet
<1>5. QED
  BY <1>1, <1>4

\* The invariant: the end of a set.
LEMMA FinishSetAgrees == EvInv /\ FinishSet => Linkage' /\ Guard'
<1>1. SUFFICES ASSUME EvInv, FinishSet PROVE Linkage' /\ Guard'
  OBVIOUS
<1>2. /\ pc = "copy" /\ n > Len(list) /\ op.cmd = "set" /\ pc' = "close"
      /\ UNCHANGED <<evs, tmp, op, skewed, want, guarded>>
  BY <1>1 DEF FinishSet, files, history
<1>3. /\ tmp \in Seq(Cell) /\ out \in Seq(Cell) /\ list \in Seq(NodeAt) /\ Change(op)
      /\ ~ skewed => Copies(list, Len(list) + 1, out, tmp, op)
      /\ guarded => ~ skewed /\ Good(tmp, want)
      /\ Named(op.name) = {} <=> Unnamed(list, op.name)
  BY <1>1, <1>2, Finishing
<1>4. ~ skewed => /\ WellFormed(out') /\ DictOf(out') = Applied(DictOf(tmp), op)
                  /\ LinkedTo(list', out')
  BY <1>1, FinishSetSays
<1>5. Linkage'
  BY <1>2, <1>4 DEF Linkage
<1>6. Guard'
  <2>1. guarded => DictOf(tmp) \in want
    BY <1>3 DEF Good
  <2>2. QED
    BY <1>2, <1>3, <1>4, <2>1 DEF Guard
<1>7. QED
  BY <1>5, <1>6

\* remque() takes out a node that has its backward pointer, and no other.
LEMMA Unlinked ==
    ASSUME NEW ls \in Seq(NodeAt), NEW k \in 1 .. Len(ls), NEW l2, l2 = RemQue(ls, k),
           \A j \in DOMAIN l2 : l2[j].name # ls[k].name
    PROVE  Without(ls, k, l2) /\ Only(ls, k, ls[k].name)
<1> DEFINE l == Len(ls)
<1>1. l \in Nat /\ k \in 1 .. l /\ \A j \in 1 .. l : ls[j] \in NodeAt
  BY LenProperties, ElementOfSeq
<1>2. ls[k].back
  <2>1. SUFFICES ASSUME ~ ls[k].back PROVE FALSE
    OBVIOUS
  <2>2. l2 = [j \in 1 .. l |-> IF j = k + 1 THEN [ls[j] EXCEPT !.back = FALSE] ELSE ls[j]]
    BY <2>1 DEF RemQue
  <2>3. k # k + 1
    BY <1>1
  <2> HIDE DEF l
  <2>4. k \in DOMAIN l2 /\ l2[k] = ls[k]
    BY <1>1, <2>2, <2>3
  <2>5. QED
    BY <2>4
<1>3. l2 = [j \in 1 .. l - 1 |->
             IF j = k THEN [ls[j + 1] EXCEPT !.back = TRUE]
             ELSE IF j < k THEN ls[j] ELSE ls[j + 1]]
  BY <1>2 DEF RemQue
<1>4. \A x \in NodeAt : [x EXCEPT !.back = TRUE].name = x.name /\ [x EXCEPT !.back = TRUE].offset = x.offset
  BY DEF NodeAt
<1>5. l2 \in Seq(NodeAt)
  BY RemQueTyped
<1>6. DOMAIN l2 = 1 .. l - 1 /\ Len(l2) = l - 1
  <2>1. DOMAIN l2 = 1 .. l - 1
    <3> HIDE DEF l
    <3>1. QED
      BY <1>3
  <2>2. DOMAIN l2 = 1 .. Len(l2) /\ Len(l2) \in Nat
    BY <1>5, LenProperties
  <2>3. l - 1 \in Nat
    BY <1>1
  <2> DEFINE a == Len(l2)
             b == l - 1
  <2>4. a \in Nat /\ b \in Nat /\ 1 .. a = 1 .. b
    BY <2>1, <2>2, <2>3
  <2> HIDE DEF a, b
  <2>5. a = b
    BY <2>4
  <2>6. QED
    BY <2>1, <2>5 DEF a, b
<1>7. \A j \in 1 .. l - 1 : j \in 1 .. l /\ j + 1 \in 1 .. l /\ (j = k => ~ (j < k))
  BY <1>1
<1> HIDE DEF l
<1>8. ASSUME NEW j \in 1 .. l - 1
      PROVE  /\ l2[j].name = ls[IF j < k THEN j ELSE j + 1].name
             /\ l2[j].offset = ls[IF j < k THEN j ELSE j + 1].offset
  <2>1. l2[j] = IF j = k THEN [ls[j + 1] EXCEPT !.back = TRUE]
                ELSE IF j < k THEN ls[j] ELSE ls[j + 1]
    BY <1>3
  <2>2. QED
    BY <1>1, <1>4, <1>7, <2>1
<1>9. Without(ls, k, l2)
  BY <1>5, <1>6, <1>8 DEF Without, l
<1>10. ASSUME NEW i \in 1 .. l, i # k PROVE ls[i].name # ls[k].name
  <2>1. CASE i < k
    <3>1. i \in 1 .. l - 1
      BY <1>1, <2>1
    <3>2. l2[i].name = ls[i].name
      BY <1>8, <2>1, <3>1
    <3>3. QED
      BY <1>6, <3>1, <3>2
  <2>2. CASE ~ (i < k)
    <3>1. PICK j \in 1 .. l - 1 : j + 1 = i /\ ~ (j < k)
      <4>1. i - 1 \in 1 .. l - 1 /\ i - 1 + 1 = i /\ ~ (i - 1 < k)
        BY <1>1, <1>10, <2>2
      <4>2. QED
        BY <4>1
    <3>2. l2[j].name = ls[i].name
      BY <1>8, <3>1
    <3>3. QED
      BY <1>6, <3>1, <3>2
  <2>3. QED
    BY <2>1, <2>2
<1>11. Only(ls, k, ls[k].name)
  BY <1>10 DEF Only, l
<1>12. QED
  BY <1>9, <1>11

\* The invariant: the end of a delete.
LEMMA FinishDeleteAgrees == EvInv /\ FinishDelete => Linkage' /\ Guard'
<1>1. SUFFICES ASSUME EvInv, FinishDelete PROVE Linkage' /\ Guard'
  OBVIOUS
<1>2. /\ pc = "copy" /\ n > Len(list) /\ op.cmd = "del" /\ pc' = "close"
      /\ list' = RemQue(list, Max(Named(op.name)))
      /\ skewed' = (skewed \/ \E k \in DOMAIN list' : list'[k].name = op.name)
      /\ UNCHANGED <<evs, tmp, op, out, want, guarded>>
  BY <1>1 DEF FinishDelete, files, rewrite
<1>3. /\ tmp \in Seq(Cell) /\ out \in Seq(Cell) /\ list \in Seq(NodeAt) /\ Change(op)
      /\ Len(list) \in Nat
      /\ ~ skewed => Copies(list, Len(list) + 1, out, tmp, op)
      /\ guarded => ~ skewed /\ Good(tmp, want)
      /\ Named(op.name) # {} /\ ~ Unnamed(list, op.name)
  BY <1>1, <1>2, Finishing
<1>4. ~ skewed => WellFormed(out) /\ DictOf(out) = Applied(DictOf(tmp), op)
  BY <1>3, ChangeDone
<1>5. PICK k : k = Max(Named(op.name))
  OBVIOUS
<1>6. k \in 1 .. Len(list) /\ list[k].name = op.name
  <2>1. Named(op.name) \in SUBSET (1 .. Len(list))
    BY <1>3, NamedPlaces
  <2>2. k \in Named(op.name)
    BY <1>3, <1>5, <2>1, FirstAndLast
  <2>3. QED
    BY <2>1, <2>2 DEF Named
<1>7. ASSUME ~ skewed' PROVE LinkedTo(list', out)
  <2>1. ~ skewed /\ \A j \in DOMAIN list' : list'[j].name # op.name
    BY <1>2, <1>7
  <2>2. list' = RemQue(list, k)
    BY <1>2, <1>5
  <2>3. PICK l2 : l2 = list'
    OBVIOUS
  <2>4. Without(list, k, l2) /\ Only(list, k, op.name)
    BY <1>3, <1>6, <2>1, <2>2, <2>3, Unlinked
  <2>5. Copies(list, Len(list) + 1, out, tmp, op)
    BY <1>3, <2>1
  <2>6. LinkedTo(l2, out)
    BY <1>2, <1>3, <1>6, <2>4, <2>5, ChangeUnlinks
  <2>7. QED
    BY <2>3, <2>6
<1>8. Linkage'
  BY <1>2, <1>7 DEF Linkage
<1>9. Guard'
  <2>1. guarded => DictOf(tmp) \in want
    BY <1>3 DEF Good
  <2>2. QED
    BY <1>2, <1>3, <1>4, <2>1 DEF Guard
<1>10. QED
  BY <1>8, <1>9

\* The invariant: closing, removing and clearing.
LEMMA CloseAgrees == EvInv /\ Close => Linkage' /\ Guard'
<1>1. SUFFICES ASSUME EvInv, Close PROVE Linkage' /\ Guard'
  OBVIOUS
<1>2. pc = "close" /\ pc' = "remove" /\ UNCHANGED <<tmp, list, op, want>>
  BY <1>1 DEF Close, rewrite
<1>3. CASE evs' = out /\ UNCHANGED <<faults, skewed, guarded>>
  <2>1. Linkage'
    BY <1>1, <1>2, <1>3 DEF EvInv, Linkage
  <2>2. Guard'
    BY <1>1, <1>2, <1>3 DEF EvInv, Guard
  <2>3. QED
    BY <2>1, <2>2
<1>4. CASE skewed' = TRUE /\ guarded' = FALSE
  BY <1>2, <1>4 DEF Linkage, Guard
<1>5. QED
  BY <1>1, <1>3, <1>4 DEF Close

\* The invariant: removing the temporary file.
LEMMA RemoveAgrees == EvInv /\ RemoveTmp => Linkage' /\ Guard'
<1>1. SUFFICES ASSUME EvInv, RemoveTmp PROVE Linkage' /\ Guard'
  OBVIOUS
<1>2. /\ pc = "remove" /\ pc' = "idle" /\ UNCHANGED <<evs, list, skewed, guarded>>
      /\ want' = {Applied(d, op) : d \in want}
  BY <1>1 DEF RemoveTmp, Applied
<1>3. evs # Absent
  BY <1>1, <1>2 DEF EvInv, TypeInv, FilesTyped
<1>4. Linkage'
  BY <1>1, <1>2, <1>3 DEF EvInv, Linkage
<1>5. ASSUME guarded PROVE Good(evs, want')
  <2>1. WellFormed(evs) /\ \E d \in want : DictOf(evs) = Applied(d, op)
    BY <1>1, <1>2, <1>5 DEF EvInv, Guard
  <2>2. QED
    BY <1>2, <1>3, <2>1 DEF Good
<1>6. Guard'
  BY <1>2, <1>5 DEF Guard
<1>7. QED
  BY <1>4, <1>6

\* The invariant: clearing the EVs.
LEMMA ClearAgrees == EvInv /\ ClearEV => Linkage' /\ Guard'
<1>1. SUFFICES ASSUME EvInv, ClearEV PROVE Linkage' /\ Guard'
  OBVIOUS
<1>2. /\ pc = "idle" /\ pc' = "idle" /\ evs' = << >> /\ list' = << >>
      /\ want' = {EmptyDict}
  BY <1>1 DEF ClearEV
<1>3. << >> # Absent
  BY EmptyFile, AbsentIsNone
<1>4. LinkedTo(<< >>, << >>)
  <2>1. Len(<< >>) = 0
    OBVIOUS
  <2>2. \A nm \in Name : EmptyDict[nm] = Missing
    BY DEF EmptyDict
  <2>3. QED
    BY <2>1, <2>2, EmptyFile DEF LinkedTo
<1>5. Linkage'
  BY <1>2, <1>3, <1>4 DEF Linkage
<1>6. Good(evs', want')
  BY <1>2, <1>3, EmptyFile DEF Good
<1>7. Guard'
  BY <1>2, <1>6 DEF Guard
<1>8. QED
  BY <1>5, <1>7

\* Every step preserves the invariant.
LEMMA StepAgrees == EvInv /\ [Next]_vars => EvInv'
<1>1. SUFFICES ASSUME EvInv, [Next]_vars PROVE EvInv'
  OBVIOUS
<1>2. TypeInv'
  BY <1>1, StepTypes DEF EvInv
<1>3. Linkage' /\ Guard'
  <2>1. CASE Answering \/ UNCHANGED vars
    BY <1>1, <2>1, AnsweringAgrees
  <2>2. CASE \E nm \in Name, data \in Data : SetStart(nm, data)
    BY <1>1, <2>2, StartAgrees
  <2>3. CASE \E nm \in Name : DeleteStart(nm)
    BY <1>1, <2>3, StartAgrees
  <2>4. QED
    BY <1>1, <2>1, <2>2, <2>3, Answerings, LoadAgrees, CreateAgrees, CopyMatchingAgrees,
       CopyOtherAgrees, CopyNothingAgrees, ExitAgrees, FinishSetAgrees, FinishDeleteAgrees,
       CloseAgrees, RemoveAgrees, ClearAgrees DEF Next
<1>4. QED
  BY <1>2, <1>3 DEF EvInv

\* So it holds always.
LEMMA EvInvHolds == Spec => []EvInv
<1>1. Init => EvInv
  BY InitAgrees
<1>2. EvInv /\ [Next]_vars => EvInv'
  BY StepAgrees
<1>3. QED
  BY <1>1, <1>2, PTL DEF Spec

(***************************************************************************)
(* What the store promises.                                                *)
(***************************************************************************)

\* The list, the files and the buffers are what the code declares them to be
\* (ev.cpp:27-37, ev.hpp:33-43).
THEOREM EvTypesCorrect == Spec => []EvTypeOK
<1>1. EvInv => EvTypeOK
  BY TypeInvTypes DEF EvInv
<1>2. QED
  BY <1>1, EvInvHolds, PTL

\* A read follows the first node of the name to the record it is linked to.
LEMMA LinkedReads ==
    ASSUME EvInv, pc = "idle", ~ skewed, evs # Absent
    PROVE  /\ Status.present_evs = Len(Walk(evs))
           /\ LET d == DictOf(evs) IN
              \A name \in Name :
                 ByName(name) = IF d[name] = Missing THEN {[code |-> 2]}
                                ELSE {[code |-> 0, name |-> name, data |-> d[name]]}
<1>1. LinkedTo(list, evs)
  BY DEF EvInv, Linkage
<1>2. evs \in Seq(Cell) /\ list \in Seq(NodeAt)
  BY DEF EvInv, TypeInv, FilesTyped
<1>3. Len(list) \in Nat /\ DOMAIN list = 1 .. Len(list)
  BY <1>2, LenProperties
<1>4. Status.present_evs = Len(Walk(evs))
  BY <1>1 DEF LinkedTo, Status
<1>5. ASSUME NEW nm \in Name
      PROVE  ByName(nm) = IF DictOf(evs)[nm] = Missing THEN {[code |-> 2]}
                          ELSE {[code |-> 0, name |-> nm, data |-> DictOf(evs)[nm]]}
  <2>1. CASE Named(nm) = {}
    <3>1. Unnamed(list, nm)
      BY <1>3, <2>1 DEF Named, Unnamed
    <3>2. DictOf(evs)[nm] = Missing
      BY <1>1, <3>1 DEF LinkedTo
    <3>3. QED
      BY <2>1, <3>2 DEF ByName
  <2>2. CASE Named(nm) # {}
    <3>1. PICK k : k = Min(Named(nm))
      OBVIOUS
    <3>2. Named(nm) \in SUBSET (1 .. Len(list))
      BY <1>2, NamedPlaces
    <3>3. k \in Named(nm) /\ \A j \in Named(nm) : k <= j
      BY <1>3, <2>2, <3>1, <3>2, FirstAndLast
    <3>4. k \in 1 .. Len(list) /\ list[k].name = nm /\ IsFirst(list, k)
      BY <1>3, <3>2, <3>3 DEF Named, IsFirst
    <3>5. list[k] \in NodeAt /\ Has(evs, list[k])
      BY <1>1, <1>2, <3>4, ElementOfSeq DEF LinkedTo
    <3> DEFINE at == list[k].offset
               d == Datum(evs, at)
               c == evs[at + 1]
    <3>6. /\ HeadersAt(evs, at) = {c} /\ c = Hdr(nm, Len(d))
          /\ DataAt(evs, at, c.size) = d
          /\ d \in Seq(Cell) /\ c.size = Len(d)
      BY <1>2, <3>4, <3>5, ReadsRecord
    <3>7. DictOf(evs)[nm] = d
      BY <1>1, <3>4 DEF LinkedTo
    <3>8. d # Missing
      BY <3>6, EvAssumption
    <3>9. Len(d) \in Nat /\ c.name = nm
      BY <3>6, LenProperties DEF Hdr
    <3> HIDE DEF c, d
    <3>10. ReadAt(evs, at) = {[code |-> 0, name |-> nm, data |-> d]}
      <4>1. ReadAt(evs, at) = {IF Len(DataAt(evs, at, h.size)) < h.size THEN [code |-> 1]
                               ELSE [code |-> 0, name |-> h.name, data |-> DataAt(evs, at, h.size)]
                                  : h \in {c}}
        BY <3>6 DEF ReadAt
      <4>2. ~ (Len(DataAt(evs, at, c.size)) < c.size)
        BY <3>6, <3>9
      <4>3. QED
        BY <3>6, <3>9, <4>1, <4>2
    <3>11. ByName(nm) = {IF r.code = 0 THEN [r EXCEPT !.name = nm] ELSE r : r \in ReadAt(evs, at)}
      BY <2>2, <3>1 DEF ByName
    <3> DEFINE r0 == [code |-> 0, name |-> nm, data |-> d]
    <3>12. r0.code = 0 /\ [r0 EXCEPT !.name = nm] = r0
      OBVIOUS
    <3>13. ByName(nm) = {r0}
      <4> HIDE DEF r0
      <4>1. ReadAt(evs, at) = {r0}
        BY <3>10 DEF r0
      <4>2. QED
        BY <3>11, <3>12, <4>1
    <3>14. QED
      BY <3>7, <3>8, <3>13
  <2>3. QED
    BY <2>1, <2>2
<1>6. QED
  BY <1>4, <1>5

\* What the host reads by name is what the file holds, and it counts what the
\* file holds, for all names and data, after any sets, deletes, clears, failures
\* and restarts that did not leave list and file apart (ev.cpp:151-262, 294,
\* 335, 389, 412).
THEOREM ReadsCorrect == Spec => []ReadsAgree
<1>1. EvInv => ReadsAgree
  BY LinkedReads DEF ReadsAgree
<1>2. QED
  BY <1>1, EvInvHolds, PTL

\* Wherever the daemon is stopped, one of the two files has all the EVs, as they
\* were or as they are to be, for all names and data and any number of restarts
\* and failures, until a second rewrite overwrites a copy left behind
\* (ev.cpp:275-352, 374-419).
THEOREM CopyCorrect == Spec => []OneWholeCopy
<1>1. EvInv => OneWholeCopy
  <2>1. SUFFICES ASSUME EvInv, guarded
                 PROVE  \E file \in {evs, tmp} \ {Absent} : WellFormed(file) /\ DictOf(file) \in want
    BY DEF OneWholeCopy
  <2>2. pc \in {"load", "idle"} \/ pc \in {"create", "copy", "close", "remove"}
    BY <2>1 DEF EvInv, TypeInv, StepTyped
  <2>3. Good(evs, want) \/ Good(tmp, want)
    BY <2>1, <2>2 DEF EvInv, Guard
  <2>4. QED
    BY <2>3 DEF Good
<1>2. QED
  BY <1>1, EvInvHolds, PTL
(***************************************************************************)
(* The dictionary.                                                         *)
(***************************************************************************)

\* Where the daemon is not stopped, the first EV is not deleted and what is
\* written is not cut short, list and file are never left apart: no name is
\* there twice and every node but the first has its backward pointer.
Whole(ls) ==
    /\ \A j, k \in 1 .. Len(ls) : ls[j].name = ls[k].name => j = k
    /\ \A k \in 1 .. Len(ls) : k # 1 => ls[k].back = TRUE

\* What is so where the daemon is not stopped.
Undisturbed ==
    /\ crashes = 0 /\ ~ skewed
    /\ Whole(list)
    /\ pc = "load" => evs = << >> /\ list = << >>
    /\ pc \in {"create", "copy"} /\ op.cmd = "del" => 1 \notin Named(op.name)
    /\ pc = "close" => DictOf(out) = Applied(DictOf(tmp), op)

\* The three restrictions.
Restricted == DeletesFirst = FALSE /\ MaxCrashes = 0 /\ "write" \notin Faults

\* An empty list is whole.
LEMMA EmptyWhole == Whole(<< >>)
BY DEF Whole

\* A list stays whole when a node is moved.
LEMMA MovedWhole ==
    ASSUME TypeInv, Rewriting, Whole(list), NEW written, NodeMoved(written)
    PROVE  Whole(list')
<1>1. /\ Len(list') = Len(list) /\ Len(list) \in Nat /\ n \in 1 .. Len(list)
      /\ \A j \in 1 .. Len(list) : list'[j].name = list[j].name
  BY MovedList
<1>2. list \in Seq(NodeAt) /\ \A j \in 1 .. Len(list) : list[j] \in NodeAt
  BY ElementOfSeq DEF TypeInv
<1>3. list \in [1 .. Len(list) -> NodeAt]
  BY <1>2, LenProperties
<1>4. list' = [list EXCEPT ![n] = [list[n] EXCEPT !.offset = Len(out)]]
  BY DEF NodeMoved
<1>5. \A x \in NodeAt : \A at : [x EXCEPT !.offset = at].back = x.back
  BY DEF NodeAt
<1>6. \A j \in 1 .. Len(list) : list'[j].back = list[j].back
  BY <1>1, <1>2, <1>3, <1>4, <1>5
<1>7. QED
  BY <1>1, <1>6 DEF Whole

\* A list stays whole when a node of a new name is added.
LEMMA AppendedWhole ==
    ASSUME NEW ls \in Seq(NodeAt), Whole(ls), NEW nd \in NodeAt, Unnamed(ls, nd.name),
           ls # << >> => nd.back = TRUE
    PROVE  Whole(Append(ls, nd))
<1> DEFINE l2 == Append(ls, nd)
           l == Len(ls)
<1>1. /\ Len(l2) = l + 1 /\ l \in Nat /\ l2[l + 1] = nd
      /\ \A k \in 1 .. l : l2[k] = ls[k]
  BY AddedNode
<1>2. \A k \in 1 .. l + 1 : k \in 1 .. l \/ k = l + 1
  BY <1>1
<1>3. l + 1 # 1 => ls # << >>
  BY <1>1, EmptySeq
<1> HIDE DEF l2, l
<1>4. ASSUME NEW j \in 1 .. l + 1, NEW k \in 1 .. l + 1, l2[j].name = l2[k].name
      PROVE  j = k
  <2>1. \A i \in 1 .. l : ls[i].name # nd.name
    BY DEF Unnamed, l
  <2>2. CASE j \in 1 .. l /\ k \in 1 .. l
    BY <1>1, <1>4, <2>2 DEF Whole, l
  <2>3. CASE ~ (j \in 1 .. l /\ k \in 1 .. l)
    BY <1>1, <1>2, <1>4, <2>1, <2>3
  <2>4. QED
    BY <2>2, <2>3
<1>5. ASSUME NEW k \in 1 .. l + 1, k # 1
      PROVE  l2[k].back = TRUE
  <2>1. CASE k \in 1 .. l
    BY <1>1, <1>5, <2>1 DEF Whole, l
  <2>2. CASE k = l + 1
    BY <1>1, <1>3, <1>5, <2>2
  <2>3. QED
    BY <1>2, <2>1, <2>2
<1>6. QED
  BY <1>1, <1>4, <1>5 DEF Whole, l2

\* Every node but the first is unlinked as it should be.
LEMMA UnlinkedWhole ==
    ASSUME NEW ls \in Seq(NodeAt), Whole(ls), NEW k \in 1 .. Len(ls), k # 1
    PROVE  /\ Whole(RemQue(ls, k))
           /\ \A j \in DOMAIN RemQue(ls, k) : RemQue(ls, k)[j].name # ls[k].name
<1> DEFINE l == Len(ls)
           l2 == RemQue(ls, k)
           Old(j) == IF j < k THEN j ELSE j + 1
<1>1. l \in Nat /\ k \in 1 .. l /\ l - 1 \in Nat /\ \A j \in 1 .. l : ls[j] \in NodeAt
  BY LenProperties, ElementOfSeq
<1>2. ls[k].back
  BY DEF Whole
<1>3. l2 = [j \in 1 .. l - 1 |->
             IF j = k THEN [ls[j + 1] EXCEPT !.back = TRUE]
             ELSE IF j < k THEN ls[j] ELSE ls[j + 1]]
  BY <1>2 DEF RemQue
<1>4. l2 \in Seq(NodeAt)
  BY RemQueTyped
<1>5. DOMAIN l2 = 1 .. l - 1
  <2> HIDE DEF l
  <2>1. QED
    BY <1>3
<1>6. Len(l2) = l - 1
  <2>1. DOMAIN l2 = 1 .. Len(l2) /\ Len(l2) \in Nat
    BY <1>4, LenProperties
  <2> DEFINE a == Len(l2)
             b == l - 1
  <2>2. a \in Nat /\ b \in Nat /\ 1 .. a = 1 .. b
    BY <1>1, <1>5, <2>1
  <2> HIDE DEF a, b
  <2>3. a = b
    BY <2>2
  <2>4. QED
    BY <2>3 DEF a, b
<1>7. \A j \in 1 .. l - 1 : Old(j) \in 1 .. l /\ Old(j) # k /\ (j # 1 => Old(j) # 1)
                            /\ (j = k => Old(j) = j + 1)
  BY <1>1
<1>8. \A i, j \in 1 .. l - 1 : Old(i) = Old(j) => i = j
  BY <1>1
<1>9. \A x \in NodeAt : /\ [x EXCEPT !.back = TRUE].name = x.name
                        /\ [x EXCEPT !.back = TRUE].back = TRUE
  BY DEF NodeAt
<1> HIDE DEF l
<1>10. ASSUME NEW j \in 1 .. l - 1
       PROVE  /\ l2[j].name = ls[Old(j)].name
              /\ j # 1 => l2[j].back = TRUE
  <2>1. l2[j] = IF j = k THEN [ls[j + 1] EXCEPT !.back = TRUE] ELSE ls[Old(j)]
    <3>1. l2[j] = IF j = k THEN [ls[j + 1] EXCEPT !.back = TRUE]
                  ELSE IF j < k THEN ls[j] ELSE ls[j + 1]
      BY <1>3
    <3>2. QED
      BY <3>1
  <2> HIDE DEF l2, Old
  <2>2. CASE j = k
    <3>1. Old(j) = j + 1 /\ ls[j + 1] \in NodeAt
      BY <1>1, <1>7, <2>2
    <3>2. QED
      BY <1>9, <2>1, <2>2, <3>1
  <2>3. CASE j # k
    <3>1. l2[j] = ls[Old(j)] /\ Old(j) \in 1 .. l
      BY <1>7, <2>1, <2>3
    <3>2. j # 1 => ls[Old(j)].back = TRUE
      BY <1>7, <3>1 DEF Whole, l
    <3>3. QED
      BY <3>1, <3>2
  <2>4. QED
    BY <2>2, <2>3
<1> HIDE DEF l2, Old
<1>11. \A i, j \in 1 .. l - 1 : l2[i].name = l2[j].name => i = j
  <2>1. SUFFICES ASSUME NEW i \in 1 .. l - 1, NEW j \in 1 .. l - 1, l2[i].name = l2[j].name
                 PROVE  i = j
    OBVIOUS
  <2>2. Old(i) \in 1 .. l /\ Old(j) \in 1 .. l /\ ls[Old(i)].name = ls[Old(j)].name
    BY <1>7, <1>10, <2>1
  <2>3. Old(i) = Old(j)
    BY <2>2 DEF Whole, l
  <2>4. QED
    BY <1>8, <2>3
<1>12. \A j \in 1 .. l - 1 : l2[j].name # ls[k].name
  <2>1. SUFFICES ASSUME NEW j \in 1 .. l - 1 PROVE l2[j].name # ls[k].name
    OBVIOUS
  <2>2. Old(j) \in 1 .. l /\ Old(j) # k /\ l2[j].name = ls[Old(j)].name
    BY <1>7, <1>10
  <2>3. QED
    BY <1>1, <2>2 DEF Whole, l
<1>13. Whole(l2)
  BY <1>6, <1>10, <1>11 DEF Whole
<1>14. QED
  BY <1>5, <1>12, <1>13 DEF l2

\* It is so initially.
LEMMA InitUndisturbed == Init => Undisturbed
BY EmptyWhole DEF Init, Undisturbed

\* Under the restrictions every step preserves it.
LEMMA StepUndisturbed ==
    ASSUME Restricted PROVE EvInv /\ Undisturbed /\ [Next]_vars => Undisturbed'
<1>1. SUFFICES ASSUME EvInv, Undisturbed, [Next]_vars PROVE Undisturbed'
  OBVIOUS
<1>2. DeletesFirst = FALSE /\ MaxCrashes = 0 /\ "write" \notin Faults
  BY DEF Restricted
<1>3. CASE Answering \/ UNCHANGED vars
  <2>1. UNCHANGED <<evs, tmp, list, pc, op, out, skewed, crashes>>
    BY <1>3 DEF Answering, vars, files, rewrite, history, bounds
  <2>2. QED
    BY <1>1, <2>1 DEF Undisturbed, Named
<1>4. CASE LoadNext
  <2>1. pc = "load" /\ UNCHANGED <<evs, crashes>>
    BY <1>4 DEF LoadNext, files, bounds
  <2>2. evs = << >> /\ list = << >> /\ off \in Nat /\ Len(evs) = 0
    BY <1>1, <2>1 DEF Undisturbed, EvInv, TypeInv, StepTyped
  <2>3. ~ (off < Len(evs))
    BY <2>2
  <2>4. pc' = "idle" /\ skewed' = ~ WellFormed(evs) /\ list' = list
    BY <1>4, <2>3 DEF LoadNext
  <2>5. ~ skewed'
    BY <2>2, <2>4, EmptyFile
  <2>6. QED
    BY <1>1, <2>1, <2>4, <2>5 DEF Undisturbed
<1>5. CASE \E nm \in Name : DeleteStart(nm) \/ \E data \in Data : SetStart(nm, data)
  <2>1. PICK nm \in Name : DeleteStart(nm) \/ \E data \in Data : SetStart(nm, data)
    BY <1>5
  <2>2. /\ pc' = "create" /\ UNCHANGED <<list, skewed, crashes>> /\ op'.name = nm
        /\ op'.cmd = "set" \/ (op'.cmd = "del" /\ 1 \notin Named(nm))
    BY <1>2, <2>1 DEF DeleteStart, SetStart, Start, bounds
  <2>3. Named(op.name)' = Named(nm)
    BY <2>2 DEF Named
  <2>4. QED
    BY <1>1, <2>2, <2>3 DEF Undisturbed
<1>6. CASE Create
  <2>1. pc = "create" /\ UNCHANGED <<list, skewed, crashes>>
    BY <1>6 DEF Create, history
  <2>2. (pc' = "copy" /\ UNCHANGED op) \/ pc' = "idle"
    BY <1>6 DEF Create
  <2>3. UNCHANGED op => Named(op.name)' = Named(op.name)
    BY <2>1 DEF Named
  <2>4. QED
    BY <1>1, <2>1, <2>2, <2>3 DEF Undisturbed
<1>7. CASE CopyMatching \/ CopyOther \/ CopyNothing
  <2>1. Rewriting
    BY <1>7 DEF CopyMatching, CopyOther, CopyNothing
  <2>2. PICK written : NodeMoved(written)
    BY <1>7 DEF CopyMatching, CopyOther, CopyNothing
  <2>3. pc = "copy" /\ UNCHANGED <<pc, op, skewed, crashes>>
    BY <2>1, <2>2 DEF Rewriting, NodeMoved, history, bounds
  <2>4. Whole(list')
    BY <1>1, <2>1, <2>2, MovedWhole DEF EvInv, Undisturbed
  <2>5. PICK nm : nm = op.name
    OBVIOUS
  <2>6. Named(nm)' = Named(nm)
    BY <1>1, <2>1, <2>2, MovedList DEF EvInv
  <2>7. Named(op.name)' = Named(op.name)
    BY <2>3, <2>5, <2>6 DEF Named
  <2>8. QED
    BY <1>1, <2>3, <2>4, <2>7 DEF Undisturbed
<1>8. CASE ExitInSet
  BY <1>1, <1>8, NothingThere DEF ExitInSet, Undisturbed
<1>9. CASE FinishSet
  <2>1. pc' = "close" /\ UNCHANGED <<tmp, op, skewed, crashes>> /\ pc = "copy" /\ n > Len(list)
    BY <1>9 DEF FinishSet, files, history, bounds
  <2>2. DictOf(out') = Applied(DictOf(tmp), op)
    BY <1>1, <1>9, FinishSetSays DEF Undisturbed
  <2>3. Whole(list')
    <3>1. CASE list' = list
      BY <1>1, <3>1 DEF Undisturbed
    <3>2. CASE Named(op.name) = {} /\ list' = Append(list, Node(op.name, Len(out), list # << >>))
      <4>1. /\ list \in Seq(NodeAt) /\ out \in Seq(Cell) /\ Change(op)
            /\ Unnamed(list, op.name)
        BY <1>1, <2>1, <3>2, Finishing
      <4>2. PICK nd : nd = Node(op.name, Len(out), list # << >>)
        OBVIOUS
      <4>3. /\ nd \in NodeAt /\ nd.name = op.name
            /\ list # << >> => nd.back = TRUE
        <5>1. Len(out) \in Nat /\ op.name \in Name
          BY <4>1, LenProperties DEF Change
        <5>2. QED
          BY <4>2, <5>1 DEF Node, NodeAt
      <4>4. QED
        BY <1>1, <3>2, <4>1, <4>2, <4>3, AppendedWhole DEF Undisturbed
    <3>3. QED
      BY <1>9, <3>1, <3>2 DEF FinishSet
  <2>4. QED
    BY <1>1, <2>1, <2>2, <2>3 DEF Undisturbed
<1>10. CASE FinishDelete
  <2>1. /\ pc' = "close" /\ UNCHANGED <<tmp, op, out, crashes>> /\ pc = "copy" /\ n > Len(list)
        /\ op.cmd = "del" /\ list' = RemQue(list, Max(Named(op.name)))
        /\ skewed' = (skewed \/ \E k \in DOMAIN list' : list'[k].name = op.name)
    BY <1>10 DEF FinishDelete, files, rewrite, bounds
  <2>2. /\ list \in Seq(NodeAt) /\ out \in Seq(Cell) /\ tmp \in Seq(Cell) /\ Change(op)
        /\ Len(list) \in Nat /\ Copies(list, Len(list) + 1, out, tmp, op)
        /\ Named(op.name) # {} /\ ~ Unnamed(list, op.name)
    BY <1>1, <2>1, Finishing DEF Undisturbed
  <2>3. DictOf(out) = Applied(DictOf(tmp), op)
    BY <2>2, ChangeDone
  <2>4. PICK k : k = Max(Named(op.name))
    OBVIOUS
  <2>5. k \in 1 .. Len(list) /\ list[k].name = op.name /\ k # 1
    <3>1. Named(op.name) \in SUBSET (1 .. Len(list))
      BY <2>2, NamedPlaces
    <3>2. k \in Named(op.name)
      BY <2>2, <2>4, <3>1, FirstAndLast
    <3>3. 1 \notin Named(op.name)
      BY <1>1, <2>1 DEF Undisturbed
    <3>4. QED
      BY <3>1, <3>2, <3>3 DEF Named
  <2>6. list' = RemQue(list, k)
    BY <2>1, <2>4
  <2>7. Whole(list') /\ \A j \in DOMAIN list' : list'[j].name # op.name
    BY <1>1, <2>2, <2>5, <2>6, UnlinkedWhole DEF Undisturbed
  <2>8. QED
    BY <1>1, <2>1, <2>3, <2>7 DEF Undisturbed
<1>11. CASE Close \/ RemoveTmp \/ ClearEV
  <2>1. pc' \in {"remove", "idle"} /\ crashes' = crashes /\ ~ skewed'
    BY <1>1, <1>2, <1>11 DEF Close, RemoveTmp, ClearEV, bounds, Undisturbed
  <2>2. Whole(list')
    BY <1>1, <1>11, EmptyWhole DEF Close, RemoveTmp, ClearEV, Undisturbed
  <2>3. QED
    BY <1>1, <2>1, <2>2 DEF Undisturbed
<1>12. CASE Crash
  BY <1>1, <1>2, <1>12 DEF Crash, Undisturbed
<1>13. QED
  BY <1>1, <1>3, <1>4, <1>5, <1>6, <1>7, <1>8, <1>9, <1>10, <1>11, <1>12, Answerings DEF Next

\* A step of the daemon changes the dictionary as a whole or not at all.
LEMMA StepImplements ==
    EvInv /\ Undisturbed /\ Undisturbed' /\ EvInv' /\ [Next]_vars => [Dict!Next]_(DictOf(Current))
<1>1. SUFFICES ASSUME EvInv, Undisturbed, Undisturbed', EvInv', [Next]_vars,
                      DictOf(Current)' # DictOf(Current)
               PROVE  Dict!Next
  OBVIOUS
<1>2. Current' # Current
  BY <1>1
<1>3. ~ (Answering \/ UNCHANGED vars)
  BY <1>2 DEF Answering, vars, files, Current
<1>4. ~ LoadNext
  BY <1>2 DEF LoadNext, files, Current
<1>5. ~ \E nm \in Name : DeleteStart(nm) \/ \E data \in Data : SetStart(nm, data)
  BY <1>2 DEF DeleteStart, SetStart, Start, RenameAway, Current
<1>6. ~ Create
  BY <1>1, <1>2 DEF Create, Current, EvInv, TypeInv, FilesTyped
<1>7. ~ (CopyMatching \/ CopyOther \/ CopyNothing)
  BY <1>2 DEF CopyMatching, CopyOther, CopyNothing, NodeMoved, files, Current
<1>8. ~ ExitInSet
  BY <1>1, NothingThere DEF ExitInSet, Undisturbed
<1>9. ~ (FinishSet \/ FinishDelete)
  BY <1>2 DEF FinishSet, FinishDelete, files, Current
<1>10. ~ RemoveTmp
  <2>1. SUFFICES ASSUME RemoveTmp PROVE FALSE
    OBVIOUS
  <2>2. pc = "remove" /\ pc' = "idle" /\ evs' = evs
    BY <2>1 DEF RemoveTmp
  <2>3. evs # Absent
    BY <1>1, <2>2 DEF EvInv, TypeInv, FilesTyped
  <2>4. QED
    BY <1>2, <2>2, <2>3 DEF Current
<1>11. ~ Crash
  BY <1>1 DEF Crash, Undisturbed
<1>12. CASE ClearEV
  <2>1. evs' = << >> /\ pc' = "idle"
    BY <1>12 DEF ClearEV
  <2>2. Current' = << >>
    BY <2>1, EmptyFile, AbsentIsNone DEF Current
  <2>3. DictOf(Current)' = EmptyDict
    BY <2>2, EmptyFile
  <2>4. Dict!Clear
    BY <2>3 DEF Dict!Clear, EmptyDict
  <2>5. QED
    BY <2>4 DEF Dict!Next
<1>13. CASE Close
  <2>1. pc = "close" /\ pc' = "remove" /\ UNCHANGED op
    BY <1>13 DEF Close, rewrite
  <2>2. evs' = out
    BY <1>1, <1>13 DEF Close, Undisturbed
  <2>3. out # Absent
    BY <1>1, AbsentIsNone DEF EvInv, TypeInv, RewriteTyped
  <2>4. Current = tmp /\ Current' = out
    BY <2>1, <2>2, <2>3 DEF Current
  <2>5. DictOf(Current)' = Applied(DictOf(Current), op)
    BY <1>1, <2>1, <2>4 DEF Undisturbed
  <2>6. Change(op)
    BY <1>1, <2>1 DEF EvInv, TypeInv, StepTyped, Changing, Change
  <2>7. CASE op.cmd = "set"
    <3>1. DictOf(Current)' = [DictOf(Current) EXCEPT ![op.name] = op.data]
      BY <2>5, <2>7 DEF Applied
    <3>2. op.name \in Name /\ op.data \in Data
      BY <2>6, <2>7 DEF Change
    <3>3. Dict!Set(op.name, op.data)
      BY <3>1 DEF Dict!Set
    <3>4. QED
      BY <3>2, <3>3 DEF Dict!Next
  <2>8. CASE op.cmd # "set"
    <3>1. DictOf(Current)' = [DictOf(Current) EXCEPT ![op.name] = Missing]
      BY <2>5, <2>8 DEF Applied
    <3>2. op.name \in Name
      BY <2>6 DEF Change
    <3>3. Dict!Delete(op.name)
      BY <3>1 DEF Dict!Delete
    <3>4. QED
      BY <3>2, <3>3 DEF Dict!Next
  <2>9. QED
    BY <2>7, <2>8
<1>14. QED
  BY <1>1, <1>3, <1>4, <1>5, <1>6, <1>7, <1>8, <1>9, <1>10, <1>11, <1>12, <1>13, Answerings
     DEF Next

\* For all names and data, the store is a dictionary that a set or a delete
\* changes as a whole when the new file is closed, or not at all when it cannot
\* be opened, and that nothing else changes (ev.cpp:264-422): where the daemon
\* is not stopped, the first EV of the list is not deleted and no write is cut
\* short.
THEOREM DictionaryImplemented ==
    ASSUME DeletesFirst = FALSE, MaxCrashes = 0, "write" \notin Faults
    PROVE  Spec => ImplementsDict
<1>1. Restricted
  BY DEF Restricted
<1>2. Init => Dict!Init
  <2>1. SUFFICES ASSUME Init PROVE Dict!Init
    OBVIOUS
  <2>2. Current = << >>
    BY <2>1, EmptyFile, AbsentIsNone DEF Init, Current
  <2>3. QED
    BY <2>2, EmptyFile DEF Dict!Init, EmptyDict
<1>3. EvInv /\ Undisturbed /\ [Next]_vars => Undisturbed'
  BY <1>1, StepUndisturbed
<1>4. EvInv /\ Undisturbed /\ Undisturbed' /\ EvInv' /\ [Next]_vars
         => [Dict!Next]_(DictOf(Current))
  BY StepImplements
<1>5. QED
  BY <1>2, <1>3, <1>4, EvInvHolds, InitUndisturbed, PTL DEF Spec, ImplementsDict, Dict!Spec
=============================================================================
