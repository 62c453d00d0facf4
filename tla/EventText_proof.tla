-------------------------- MODULE EventText_proof ---------------------------
(***************************************************************************)
(* Theorems about EventText: the walk over a message stays near it, no     *)
(* argument stays allocated, and where message and tables fit the text is  *)
(* what the tables say.                                                    *)
(***************************************************************************)
EXTENDS EventText, SequenceFacts, FiniteSetTheorems

-----------------------------------------------------------------------------
(* The characters of a message, part by part.                              *)

CharSet == {TextChar, Percent, Digit}

\* Those of the first j parts.
Upto(t, j) == FlattenSeq([k \in 1 .. j |-> CharsOf(t.parts[k])])

LEMMA PartTypes ==
    ASSUME NEW t, IsText(t), NEW k \in 1 .. Len(t.parts)
    PROVE  /\ t.parts[k].kind \in {"text", "percent", "arg"}
           /\ t.parts[k].kind = "arg" => t.parts[k].digits \in {1, 2}
           /\ t.parts[k].kind = "percent" => t.args = << >>
<1> DEFINE S == [kind : {"text", "percent", "arg"}, digits : 0 .. 2]
<1>1. t.parts \in Seq(S)
  BY DEF IsText
<1>2. k \in DOMAIN t.parts /\ t.parts[k] \in S
  <2> HIDE DEF S
  <2>1. QED
    BY <1>1
<1>3. QED
  BY <1>2 DEF IsText

\* What a part looks like.
LEMMA PartChars ==
    ASSUME NEW t, IsText(t), NEW k \in 1 .. Len(t.parts)
    PROVE  LET c == CharsOf(t.parts[k]) IN
           /\ c \in Seq(CharSet) /\ Len(c) \in Nat /\ Len(c) >= 1
           /\ t.parts[k].kind = "text" => c[1] = TextChar /\ Len(c) = 1
           /\ t.parts[k].kind # "text" => c[1] = Percent
           /\ t.parts[k].kind = "arg" => Len(c) = t.parts[k].digits + 1
           /\ t.parts[k].kind # "percent" => c[Len(c)] # Percent
<1> DEFINE part == t.parts[k]
<1>1. /\ part.kind \in {"text", "percent", "arg"}
      /\ part.kind = "arg" => part.digits \in {1, 2}
  BY PartTypes
<1> HIDE DEF part
<1>2. CASE part.kind = "text"
  <2>1. CharsOf(part) = <<TextChar>>
    BY <1>2 DEF CharsOf
  <2>2. QED
    BY <1>2, <2>1 DEF part, CharSet, TextChar, Percent
<1>3. CASE part.kind = "percent"
  <2>1. CharsOf(part) = <<Percent>>
    BY <1>3 DEF CharsOf
  <2>2. QED
    BY <1>3, <2>1 DEF part, CharSet, TextChar, Percent
<1>4. CASE part.kind = "arg"
  <2> DEFINE n == part.digits
             ds == [d \in 1 .. n |-> Digit]
             p1 == <<Percent>>
             c == p1 \o ds
  <2>1. CharsOf(part) = c
    BY <1>4 DEF CharsOf
  <2>2. n \in {1, 2}
    BY <1>1, <1>4
  <2> HIDE DEF n
  <2>3. p1 \in Seq(CharSet) /\ Len(p1) = 1 /\ p1[1] = Percent
    BY DEF CharSet
  <2>4. ds \in Seq(CharSet) /\ Len(ds) = n /\ \A i \in 1 .. n : ds[i] = Digit
    <3>1. Digit \in CharSet /\ n \in Nat
      BY <2>2 DEF CharSet
    <3>2. QED
      BY <3>1
  <2> HIDE DEF p1, ds
  <2>5. /\ c \in Seq(CharSet) /\ Len(c) = Len(p1) + Len(ds)
        /\ \A i \in 1 .. Len(p1) + Len(ds) : c[i] = IF i <= Len(p1) THEN p1[i] ELSE ds[i - Len(p1)]
    BY <2>3, <2>4, ConcatProperties, Zenon
  <2> HIDE DEF c
  <2>6. Len(c) = n + 1 /\ c[1] = Percent
    BY <2>2, <2>3, <2>4, <2>5
  <2>7. c[n + 1] = Digit
    <3>1. n + 1 \in 1 .. Len(p1) + Len(ds) /\ ~ (n + 1 <= Len(p1)) /\ (n + 1) - Len(p1) = n /\ n \in 1 .. n
      BY <2>2, <2>3, <2>4
    <3>2. QED
      BY <2>4, <2>5, <3>1
  <2>8. Digit # Percent
    BY DEF Digit, Percent
  <2>9. QED
    BY <1>4, <2>1, <2>2, <2>5, <2>6, <2>7, <2>8 DEF part, n
<1>5. QED
  BY <1>1, <1>2, <1>3, <1>4 DEF part

\* Each part comes behind those before it.
LEMMA UptoNext ==
    ASSUME NEW t, IsText(t), NEW j \in 0 .. Len(t.parts)
    PROVE  /\ Upto(t, j) \in Seq(CharSet)
           /\ j = 0 => Upto(t, j) = << >>
           /\ j < Len(t.parts) => Upto(t, j + 1) = Upto(t, j) \o CharsOf(t.parts[j + 1])
<1> DEFINE n == Len(t.parts)
           q == [k \in 1 .. j |-> CharsOf(t.parts[k])]
<1>1. n \in Nat /\ j \in Nat /\ j <= n
  <2>1. t.parts \in Seq([kind : {"text", "percent", "arg"}, digits : 0 .. 2])
    BY DEF IsText
  <2>2. n \in Nat
    BY <2>1, LenProperties
  <2>3. QED
    BY <2>2
<1>2. \A k \in 1 .. n : CharsOf(t.parts[k]) \in Seq(CharSet)
  BY PartChars
<1> HIDE DEF n
<1>3. q \in Seq(Seq(CharSet)) /\ Len(q) = j
  <2>1. \A k \in 1 .. j : k \in 1 .. n
    BY <1>1
  <2>2. q \in [1 .. j -> Seq(CharSet)]
    BY <1>2, <2>1
  <2>3. QED
    BY <1>1, <2>2
<1>4. << >> \in Seq(CharSet)
  BY EmptySeq
<1>5. FlattenSeq(q) \in Seq(CharSet)
  BY <1>3, <1>4, FlattenAppend
<1>6. ASSUME j = 0 PROVE Upto(t, j) = << >>
  <2>1. q = << >>
    BY <1>3, <1>6, EmptySeq
  <2>2. FlattenSeq(q) = << >>
    BY <1>3, <1>6, <2>1 DEF FlattenSeq
  <2>3. QED
    BY <2>2 DEF Upto
<1>7. ASSUME j < n PROVE Upto(t, j + 1) = Upto(t, j) \o CharsOf(t.parts[j + 1])
  <2> DEFINE s == CharsOf(t.parts[j + 1])
             r == [k \in 1 .. j + 1 |-> CharsOf(t.parts[k])]
             a == Append(q, s)
  <2>1. s \in Seq(CharSet)
    BY <1>1, <1>2, <1>7
  <2>2. FlattenSeq(a) = FlattenSeq(q) \o s
    BY <1>3, <2>1, FlattenAppend
  <2>3. /\ a \in Seq(Seq(CharSet)) /\ Len(a) = j + 1 /\ a[j + 1] = s
        /\ \A k \in 1 .. j : a[k] = q[k]
    BY <1>3, <2>1, AppendProperties
  <2>4. \A k \in 1 .. j : q[k] = CharsOf(t.parts[k])
    OBVIOUS
  <2>5. r \in Seq(Seq(CharSet)) /\ Len(r) = j + 1 /\ r[j + 1] = s
    <3>1. \A k \in 1 .. j + 1 : k \in 1 .. n
      BY <1>1, <1>7
    <3>2. r \in [1 .. j + 1 -> Seq(CharSet)]
      BY <1>2, <3>1
    <3>3. r[j + 1] = s
      BY <1>1
    <3> HIDE DEF r, s
    <3>4. j + 1 \in Nat
      BY <1>1
    <3>5. QED
      BY <3>2, <3>3, <3>4
  <2>6. \A k \in 1 .. j + 1 : r[k] = CharsOf(t.parts[k])
    OBVIOUS
  <2> HIDE DEF a, q, r, s
  <2>7. \A k \in 1 .. j + 1 : a[k] = r[k]
    <3>1. ASSUME NEW k \in 1 .. j + 1 PROVE a[k] = r[k]
      <4>1. k \in 1 .. j \/ k = j + 1
        BY <1>1
      <4>2. QED
        BY <2>3, <2>4, <2>5, <2>6, <4>1
    <3>2. QED
      BY <3>1
  <2>8. a = r
    BY <2>3, <2>5, <2>7, SeqEqual
  <2>9. QED
    BY <2>2, <2>8 DEF Upto, q, r, s
<1>8. QED
  BY <1>5, <1>6, <1>7 DEF Upto, n

\* What all of them make is the message, and the first of them its beginning.
LEMMA UptoPrefix ==
    ASSUME NEW t, IsText(t)
    PROVE  /\ Len(t.parts) \in Nat /\ Chars(t) = Upto(t, Len(t.parts))
           /\ \A j \in 0 .. Len(t.parts) :
                 /\ Len(Upto(t, j)) <= Len(Chars(t))
                 /\ \A i \in 1 .. Len(Upto(t, j)) : Chars(t)[i] = Upto(t, j)[i]
<1> DEFINE n == Len(t.parts)
           all == Chars(t)
           P == {j \in 0 .. n : /\ Len(Upto(t, j)) <= Len(all)
                                /\ \A i \in 1 .. Len(Upto(t, j)) : all[i] = Upto(t, j)[i]}
<1>1. t.parts \in Seq([kind : {"text", "percent", "arg"}, digits : 0 .. 2])
  BY DEF IsText
<1>2. n \in Nat /\ DOMAIN t.parts = 1 .. n
  BY <1>1, LenProperties
<1>3. all = Upto(t, n)
  BY <1>2 DEF Chars, Upto
<1> HIDE DEF n, all
<1>4. ASSUME NEW j \in 0 .. n, \A k \in 0 .. n : j < k => k \in P
      PROVE  j \in P
  <2>1. Upto(t, j) \in Seq(CharSet) /\ Len(Upto(t, j)) \in Nat
    <3>1. Upto(t, j) \in Seq(CharSet)
      BY UptoNext DEF n
    <3>2. QED
      BY <3>1, LenProperties
  <2>2. CASE j = n
    <3>1. Len(Upto(t, j)) <= Len(all)
      BY <1>3, <2>1, <2>2
    <3>2. QED
      BY <1>3, <2>2, <3>1
  <2>3. CASE j # n
    <3> DEFINE u == Upto(t, j)
               c == CharsOf(t.parts[j + 1])
               v == Upto(t, j + 1)
    <3>1. j + 1 \in 0 .. n /\ j + 1 \in 1 .. n /\ j < n /\ j < j + 1
      BY <1>2, <2>3
    <3>2. v = u \o c
      BY <3>1, UptoNext DEF n
    <3>3. c \in Seq(CharSet)
      BY <3>1, PartChars DEF n
    <3>4. /\ Len(v) <= Len(all)
          /\ \A i \in 1 .. Len(v) : all[i] = v[i]
      BY <1>4, <3>1
    <3>5. v \in Seq(CharSet) /\ Len(v) \in Nat /\ Len(c) \in Nat
      <4>1. v \in Seq(CharSet)
        BY <3>1, UptoNext DEF n
      <4>2. QED
        BY <3>3, <4>1, LenProperties
    <3>6. Len(all) \in Nat
      <4>1. all \in Seq(CharSet)
        <5>1. n \in 0 .. n
          BY <1>2
        <5>2. QED
          BY <1>3, <5>1, UptoNext DEF n
      <4>2. QED
        BY <4>1, LenProperties
    <3> HIDE DEF c, u
    <3>7. /\ Len(u \o c) = Len(u) + Len(c)
          /\ \A i \in 1 .. Len(u) + Len(c) : (u \o c)[i] = IF i <= Len(u) THEN u[i] ELSE c[i - Len(u)]
      <4>1. u \in Seq(CharSet)
        BY <2>1 DEF u
      <4>2. QED
        BY <3>3, <4>1, ConcatProperties, Zenon
    <3>8. Len(u) \in Nat
      BY <2>1 DEF u
    <3> HIDE DEF v
    <3>9. Len(u) <= Len(all)
      BY <3>2, <3>4, <3>5, <3>6, <3>7, <3>8
    <3>10. \A i \in 1 .. Len(u) : all[i] = u[i]
      BY <3>2, <3>4, <3>5, <3>7, <3>8
    <3>11. QED
      BY <3>9, <3>10 DEF u
  <2>4. QED
    BY <2>2, <2>3
<1> HIDE DEF P
<1>5. \A j \in 0 .. n : j \in P
  BY <1>2, <1>4, Backwards
<1>6. QED
  BY <1>2, <1>3, <1>5 DEF P, n, all

\* The next part begins where the parts before it end.
LEMMA CharsAt ==
    ASSUME NEW t, IsText(t), NEW j \in 0 .. Len(t.parts) - 1
    PROVE  LET p == Len(Upto(t, j))
               c == CharsOf(t.parts[j + 1])
           IN  /\ p \in Nat /\ p < Len(Chars(t)) /\ Len(Chars(t)) \in Nat
               /\ Chars(t)[p + 1] = c[1]
               /\ Len(Upto(t, j + 1)) = p + Len(c)
<1> DEFINE n == Len(t.parts)
           u == Upto(t, j)
           c == CharsOf(t.parts[j + 1])
           v == Upto(t, j + 1)
           all == Chars(t)
<1>1. n \in Nat /\ all = Upto(t, n)
  BY UptoPrefix
<1>2. j \in 0 .. n /\ j + 1 \in 1 .. n /\ j + 1 \in 0 .. n /\ j < n /\ n \in 0 .. n
  BY <1>1
<1>3. u \in Seq(CharSet) /\ v \in Seq(CharSet) /\ all \in Seq(CharSet) /\ v = u \o c
  BY <1>1, <1>2, UptoNext
<1>4. c \in Seq(CharSet) /\ Len(c) \in Nat /\ Len(c) >= 1
  BY <1>2, PartChars
<1>5. Len(v) <= Len(all) /\ \A i \in 1 .. Len(v) : all[i] = v[i]
  BY <1>2, UptoPrefix
<1> HIDE DEF u, c, v, all, n
<1>6. Len(u) \in Nat /\ Len(v) \in Nat /\ Len(all) \in Nat
  BY <1>3, LenProperties
<1>7. /\ Len(u \o c) = Len(u) + Len(c)
      /\ \A i \in 1 .. Len(u) + Len(c) : (u \o c)[i] = IF i <= Len(u) THEN u[i] ELSE c[i - Len(u)]
  BY <1>3, <1>4, ConcatProperties, Zenon
<1>8. v[Len(u) + 1] = c[1]
  <2>1. Len(u) + 1 \in 1 .. Len(u) + Len(c) /\ ~ (Len(u) + 1 <= Len(u)) /\ (Len(u) + 1) - Len(u) = 1
    BY <1>4, <1>6
  <2>2. QED
    BY <1>3, <1>7, <2>1
<1>9. all[Len(u) + 1] = c[1]
  <2>1. Len(u) + 1 \in 1 .. Len(v)
    BY <1>3, <1>4, <1>6, <1>7
  <2>2. QED
    BY <1>5, <1>8, <2>1
<1>10. Len(u) < Len(all) /\ Len(v) = Len(u) + Len(c)
  BY <1>3, <1>4, <1>5, <1>6, <1>7
<1>11. QED
  BY <1>6, <1>9, <1>10 DEF u, c, v, all

\* A percent sign is not the last character of a message that takes arguments.
LEMMA PercentInside ==
    ASSUME NEW t, IsText(t), t.args # << >>, NEW p \in 1 .. Len(Chars(t)), Chars(t)[p] = Percent
    PROVE  p < Len(Chars(t))
<1> DEFINE n == Len(t.parts)
           all == Chars(t)
<1>1. n \in Nat /\ all = Upto(t, n)
  BY UptoPrefix
<1>2. n # 0
  <2>1. SUFFICES ASSUME n = 0 PROVE FALSE
    OBVIOUS
  <2>2. all = << >>
    <3>1. 0 \in 0 .. n
      BY <2>1
    <3>2. QED
      BY <1>1, <2>1, <3>1, UptoNext
  <2>3. p \in 1 .. Len(all) /\ Len(all) = 0
    BY <2>2
  <2>4. QED
    BY <2>3
<1>3. n - 1 \in 0 .. n /\ n - 1 < n /\ (n - 1) + 1 = n /\ n \in 1 .. n /\ n \in 0 .. n
  BY <1>1, <1>2
<1> DEFINE u == Upto(t, n - 1)
           c == CharsOf(t.parts[n])
<1>4. u \in Seq(CharSet) /\ all = u \o c /\ all \in Seq(CharSet)
  BY <1>1, <1>3, UptoNext
<1>5. t.parts[n].kind # "percent"
  BY <1>3, PartTypes
<1>6. c \in Seq(CharSet) /\ Len(c) \in Nat /\ Len(c) >= 1 /\ c[Len(c)] # Percent
  BY <1>3, <1>5, PartChars
<1>7. p \in 1 .. Len(all) /\ all[p] = Percent
  OBVIOUS
<1> HIDE DEF u, c, all, n
<1>8. /\ Len(u \o c) = Len(u) + Len(c)
      /\ \A i \in 1 .. Len(u) + Len(c) : (u \o c)[i] = IF i <= Len(u) THEN u[i] ELSE c[i - Len(u)]
  BY <1>4, <1>6, ConcatProperties, Zenon
<1>9. Len(u) \in Nat /\ Len(all) \in Nat
  BY <1>4, LenProperties
<1>10. ASSUME p = Len(all) PROVE FALSE
  <2>1. p = Len(u) + Len(c)
    BY <1>4, <1>8, <1>10
  <2>2. p \in 1 .. Len(u) + Len(c) /\ ~ (p <= Len(u)) /\ p - Len(u) = Len(c)
    BY <1>6, <1>9, <2>1
  <2>3. all[p] = c[Len(c)]
    BY <1>4, <1>8, <2>2
  <2>4. QED
    BY <1>6, <1>7, <2>3
<1>11. QED
  BY <1>7, <1>9, <1>10 DEF all

-----------------------------------------------------------------------------
(* The types, and what is allocated.                                       *)

\* What a handler starts from.
Blank ==
    /\ textData = None /\ varData = None
    /\ ptr = 0 /\ argCount = 0 /\ enumDescFound = FALSE /\ buf = << >>
    /\ argVal = [n \in 1 .. MAX_ARGS |-> None]

\* A message and its variables are those of one event in one log.
TablesOf(l, t, v) ==
    /\ l \in Log
    /\ \E k \in DOMAIN DescData[l], j \in DOMAIN VarData[l] :
          /\ t = DescData[l][k] /\ v = VarData[l][j]
          /\ t.event = v.event

\* In the walk the arguments in place are allocated, and as long as nothing
\* has failed nothing else is.
WalkInv ==
    /\ pc \in {"idle", "find"} => Blank
    /\ pc = "walk" => TablesOf(req.evtType, textData, varData)
    /\ pc = "walk" => Cardinality(Freed) <= live
    /\ argCount \in Nat
    /\ faults = 0 => live = IF pc = "walk" THEN Cardinality(Freed) ELSE 0

TypeInv == EventTypeOK /\ WalkInv

\* What the tables and the request have for the m-th argument of a message.
LEMMA ArgFacts ==
    ASSUME NEW q \in Request, NEW t, NEW v, TablesOf(q.evtType, t, v)
    PROVE  /\ IsText(t) /\ IsVariables(v)
           /\ \A m \in 1 .. Len(t.args) : t.args[m].varNum <= Len(v.details) =>
                 LET a == t.args[m]
                     d == v.details[a.varNum]
                     x == q.values[a.varNum]
                 IN  /\ m \in 1 .. MAX_ARGS /\ t.args # << >>
                     /\ a.varNum \in 1 .. Len(v.details)
                     /\ d.rep \in Representations
                     /\ d.names \in Seq([value : Nat, desc : STRING])
                     /\ Shown(x) # None
                     /\ \A j \in DOMAIN d.names : Named(d.names[j].desc) # None
                     /\ d.rep # "string" => x \in Nat
                     /\ a.replaceWith = "desc" => d.rep # "string"
<1> DEFINE l == q.evtType
           NS == Seq([value : Nat, desc : STRING])
           AS == [varNum : Nat \ {0}, replaceWith : {"value", "desc"}]
           DS == [rep : Representations, names : NS]
<1>1. l \in Log /\ q.values \in Values
  BY DEF TablesOf, Request
<1>2. PICK k \in DOMAIN DescData[l], j \in DOMAIN VarData[l] :
          t = DescData[l][k] /\ v = VarData[l][j] /\ t.event = v.event
  BY DEF TablesOf
<1>3. IsText(t) /\ IsVariables(v)
  BY <1>1, <1>2, TextAssumption
<1>4. t.args \in Seq(AS) /\ Len(t.args) <= MAX_ARGS
  BY <1>3 DEF IsText
<1>5. v.details \in Seq(DS)
  BY <1>3 DEF IsVariables
<1> HIDE DEF NS, l
<1>6. ASSUME NEW m \in 1 .. Len(t.args), t.args[m].varNum <= Len(v.details)
      PROVE  LET a == t.args[m]
                 d == v.details[a.varNum]
                 x == q.values[a.varNum]
             IN  /\ m \in 1 .. MAX_ARGS /\ t.args # << >>
                 /\ a.varNum \in 1 .. Len(v.details)
                 /\ d.rep \in Representations
                 /\ d.names \in NS
                 /\ Shown(x) # None
                 /\ \A i \in DOMAIN d.names : Named(d.names[i].desc) # None
                 /\ d.rep # "string" => x \in Nat
                 /\ a.replaceWith = "desc" => d.rep # "string"
  <2> DEFINE a == t.args[m]
             n == a.varNum
             d == v.details[n]
             x == q.values[n]
  <2>1. a \in AS /\ m \in DOMAIN t.args
    <3> HIDE DEF AS
    <3>1. QED
      BY <1>4
  <2>2. n \in Nat \ {0}
    BY <2>1
  <2>3. Len(v.details) \in Nat /\ DOMAIN v.details = 1 .. Len(v.details)
    <3> HIDE DEF DS
    <3>1. QED
      BY <1>5, LenProperties
  <2>4. n <= Len(v.details)
    BY <1>6
  <2> HIDE DEF n
  <2>5. n \in 1 .. Len(v.details)
    BY <2>2, <2>3, <2>4
  <2>6. d \in DS
    <3> HIDE DEF DS
    <3>1. QED
      BY <1>5, <2>5
  <2>7. d.rep \in Representations /\ d.names \in NS
    BY <2>6
  <2>8. m \in 1 .. MAX_ARGS /\ t.args # << >>
    <3> HIDE DEF AS
    <3>1. Len(t.args) \in Nat /\ MAX_ARGS \in Nat
      BY <1>4, LenProperties, TextAssumption
    <3>2. m \in 1 .. MAX_ARGS
      BY <1>4, <3>1
    <3>3. Len(t.args) # 0
      BY <3>1
    <3>4. QED
      BY <3>2, <3>3
  <2>9. n \in DOMAIN VarData[l][j].details /\ d = VarData[l][j].details[n]
    BY <1>2, <2>3, <2>5
  <2>10. /\ d.rep # "string" => x \in Nat
         /\ Shown(x) # None
         /\ \A i \in DOMAIN d.names : Named(d.names[i].desc) # None
    <3> HIDE DEF d
    <3>1. QED
      BY <1>1, <1>2, <2>9, ValuesAssumption
  <2>11. a.replaceWith = "desc" => d.rep # "string"
    <3>1. /\ DescData[l][k].event = VarData[l][j].event
          /\ m \in DOMAIN DescData[l][k].args
          /\ DescData[l][k].args[m] = a /\ VarData[l][j].details = v.details
      BY <1>2, <2>1
    <3>2. a.replaceWith = "desc" /\ a.varNum <= Len(VarData[l][j].details) =>
              VarData[l][j].details[a.varNum].rep # "string"
      <4> HIDE DEF a
      <4>1. QED
        BY <1>1, <1>2, <3>1, EnumAssumption
    <3>3. QED
      BY <1>6, <3>1, <3>2 DEF n
  <2>12. QED
    BY <2>5, <2>7, <2>8, <2>10, <2>11 DEF n
<1>7. QED
  BY <1>3, <1>6 DEF NS

\* The arguments in place.
InPlace(f) == {n \in 1 .. MAX_ARGS : f[n] # None}

LEMMA OneMore ==
    ASSUME NEW f, DOMAIN f = 1 .. MAX_ARGS, NEW i \in 1 .. MAX_ARGS, f[i] = None, NEW val
    PROVE  LET g == [f EXCEPT ![i] = val] IN
           /\ Cardinality(InPlace(f)) \in Nat
           /\ Cardinality(InPlace(g)) =
                 Cardinality(InPlace(f)) + (IF val = None THEN 0 ELSE 1)
<1> DEFINE g == [f EXCEPT ![i] = val]
<1>1. MAX_ARGS \in Nat
  BY TextAssumption
<1>2. IsFiniteSet(1 .. MAX_ARGS)
  BY <1>1, FS_Interval
<1>3. IsFiniteSet(InPlace(f)) /\ Cardinality(InPlace(f)) \in Nat
  <2>1. InPlace(f) \subseteq 1 .. MAX_ARGS
    BY DEF InPlace
  <2>2. QED
    BY <1>2, <2>1, FS_Subset, FS_CardinalityType
<1>4. \A n \in 1 .. MAX_ARGS : g[n] = IF n = i THEN val ELSE f[n]
  OBVIOUS
<1> HIDE DEF g
<1>5. CASE val = None
  <2>1. InPlace(g) = InPlace(f)
    BY <1>4, <1>5 DEF InPlace
  <2>2. QED
    BY <1>3, <1>5, <2>1 DEF g
<1>6. CASE val # None
  <2>1. InPlace(g) = InPlace(f) \cup {i} /\ i \notin InPlace(f)
    BY <1>4, <1>6 DEF InPlace
  <2>2. Cardinality(InPlace(f) \cup {i}) = Cardinality(InPlace(f)) + 1
    BY <1>3, <2>1, FS_AddElement
  <2>3. QED
    BY <1>3, <1>6, <2>1, <2>2 DEF g
<1>7. QED
  BY <1>5, <1>6

\* None is in place at the beginning.
LEMMA NoneInPlace ==
    ASSUME NEW f, f = [n \in 1 .. MAX_ARGS |-> None]
    PROVE  Cardinality(InPlace(f)) = 0 /\ DOMAIN f = 1 .. MAX_ARGS
<1>1. InPlace(f) = {}
  BY DEF InPlace
<1>2. QED
  BY <1>1, FS_EmptySet

LEMMA CountInPlace ==
    ASSUME NEW f, DOMAIN f = 1 .. MAX_ARGS
    PROVE  Cardinality(InPlace(f)) \in Nat
<1>1. MAX_ARGS \in Nat
  BY TextAssumption
<1>2. IsFiniteSet(1 .. MAX_ARGS)
  BY <1>1, FS_Interval
<1>3. InPlace(f) \subseteq 1 .. MAX_ARGS
  BY DEF InPlace
<1>4. QED
  BY <1>2, <1>3, FS_Subset, FS_CardinalityType

LEMMA FreedInPlace == Freed = InPlace(argVal)
BY DEF Freed, InPlace

LEMMA TypeInit == Init => TypeInv
<1> SUFFICES ASSUME Init PROVE TypeInv
  OBVIOUS
<1> USE DEF Init, Idle
<1>1. Cardinality(InPlace(argVal)) = 0 /\ DOMAIN argVal = 1 .. MAX_ARGS
  BY NoneInPlace
<1>2. EventTypeOK
  <2>1. 0 \in Nat /\ 0 \in 0 .. MaxFaults
    BY TextAssumption
  <2>2. \A n \in 1 .. MAX_ARGS : argVal[n] = None
    OBVIOUS
  <2>3. QED
    BY <1>1, <2>1, <2>2 DEF EventTypeOK
<1>3. WalkInv
  BY DEF WalkInv, Blank
<1>4. QED
  BY <1>2, <1>3 DEF TypeInv

\* A placeholder is filled; a null pointer in place is a call that failed.
LEMMA PlaceTyped ==
    ASSUME TypeInv, Walking, Here = Percent, HasArg, NEW found, NEW val, Place(found, val),
           (val # None /\ faults' = faults) \/ (val = None /\ faults < MaxFaults /\ faults' = faults + 1)
    PROVE  TypeInv'
<1>1. /\ pc = "walk" /\ pc' = "walk" /\ req' = req /\ textData' = textData /\ varData' = varData
      /\ argVal' = [argVal EXCEPT ![argCount + 1] = val]
      /\ live' = IF val = None THEN live ELSE live + 1
      /\ ptr' = ptr + Skip /\ argCount' = argCount + 1
      /\ ptr < Len(Chars(textData)) /\ Chars(textData)[ptr + 1] = Percent
  BY DEF Walking, Place, Here
<1>2. /\ req \in Request /\ TablesOf(req.evtType, textData, varData)
      /\ argCount \in Nat /\ live \in Nat /\ faults \in 0 .. MaxFaults
      /\ DOMAIN argVal = 1 .. MAX_ARGS
      /\ \A n \in 1 .. MAX_ARGS : argVal[n] # None => n <= argCount
      /\ ptr \in 0 .. Len(Chars(textData)) + 1
      /\ Cardinality(InPlace(argVal)) <= live
      /\ faults = 0 => live = Cardinality(InPlace(argVal))
  BY <1>1, FreedInPlace DEF TypeInv, EventTypeOK, WalkInv
<1>3. IsText(textData) /\ argCount < Len(textData.args)
      /\ textData.args[argCount + 1].varNum <= Len(varData.details)
  BY <1>2, ArgFacts DEF HasArg, Arg
<1>4. Len(textData.args) \in Nat
  BY <1>3, LenProperties DEF IsText
<1>5. argCount + 1 \in 1 .. Len(textData.args)
  BY <1>2, <1>3, <1>4
<1>6. argCount + 1 \in 1 .. MAX_ARGS /\ textData.args # << >>
  BY <1>2, <1>3, <1>5, ArgFacts
<1>7. argVal[argCount + 1] = None
  BY <1>2, <1>6
<1>8. /\ Cardinality(InPlace(argVal)) \in Nat
      /\ Cardinality(InPlace(argVal')) = Cardinality(InPlace(argVal)) + (IF val = None THEN 0 ELSE 1)
      /\ DOMAIN argVal' = 1 .. MAX_ARGS
  BY <1>1, <1>2, <1>6, <1>7, OneMore
<1>9. \A n \in 1 .. MAX_ARGS : argVal'[n] # None => n <= argCount'
  BY <1>1, <1>2, <1>6
<1>10. ptr' \in 0 .. Len(Chars(textData')) + 1
  <2>1. Len(Chars(textData)) \in Nat
    <3>1. Len(textData.parts) \in Nat /\ Chars(textData) = Upto(textData, Len(textData.parts))
      BY <1>3, UptoPrefix
    <3>2. Chars(textData) \in Seq(CharSet)
      <4>1. Len(textData.parts) \in 0 .. Len(textData.parts)
        BY <3>1
      <4>2. QED
        BY <1>3, <3>1, <4>1, UptoNext
    <3>3. QED
      BY <3>2, LenProperties
  <2> DEFINE N == Len(Chars(textData))
  <2>2. ptr + 1 \in 1 .. N
    BY <1>1, <1>2, <2>1
  <2>3. ptr + 1 < N
    BY <1>1, <1>3, <1>6, <2>2, PercentInside
  <2>4. Skip \in {2, 3}
    BY DEF Skip
  <2> HIDE DEF N
  <2>5. ptr' \in 0 .. N + 1
    BY <1>1, <1>2, <2>1, <2>2, <2>3, <2>4 DEF N
  <2>6. QED
    BY <1>1, <2>5 DEF N
<1>11. live' \in Nat /\ faults' \in 0 .. MaxFaults
  BY <1>1, <1>2, TextAssumption
<1>12. EventTypeOK'
  <2>1. req' \in Request
    BY <1>1, <1>2
  <2>2. pc' = "walk"
    BY <1>1
  <2>3. QED
    BY <1>8, <1>9, <1>10, <1>11, <2>1, <2>2 DEF EventTypeOK
<1>13. WalkInv'
  <2>1. TablesOf(req'.evtType, textData', varData')
    BY <1>1, <1>2
  <2>2. Cardinality(InPlace(argVal')) <= live'
    BY <1>1, <1>2, <1>8
  <2>3. faults' = 0 => live' = Cardinality(InPlace(argVal'))
    BY <1>1, <1>2, <1>8
  <2>4. argCount' \in Nat
    BY <1>1, <1>2
  <2>5. Freed' = InPlace(argVal')
    BY DEF Freed, InPlace
  <2>6. QED
    BY <1>1, <2>1, <2>2, <2>3, <2>4, <2>5 DEF WalkInv
<1>14. QED
  BY <1>12, <1>13 DEF TypeInv

\* What the walk puts in place.
LEMMA ShowPlaces ==
    ASSUME TypeInv, ShowValue \/ ShowName \/ ShowUnknown
    PROVE  /\ Walking /\ Here = Percent /\ HasArg
           /\ \E found, val : /\ Place(found, val)
                              /\ \/ val # None /\ faults' = faults
                                 \/ val = None /\ faults < MaxFaults /\ faults' = faults + 1
<1>1. Walking /\ Here = Percent /\ HasArg
  BY DEF ShowValue, ShowName, ShowUnknown
<1>2. /\ req \in Request /\ TablesOf(req.evtType, textData, varData) /\ argCount \in Nat
  BY <1>1 DEF TypeInv, EventTypeOK, WalkInv, Walking
<1>3. IsText(textData) /\ argCount < Len(textData.args) /\ Arg.varNum <= Len(varData.details)
  BY <1>1, <1>2, ArgFacts DEF HasArg
<1>4. argCount + 1 \in 1 .. Len(textData.args)
  <2>1. Len(textData.args) \in Nat
    BY <1>3, LenProperties DEF IsText
  <2>2. QED
    BY <1>2, <1>3, <2>1
<1>5. /\ Shown(Value) # None /\ UNKNOWN # None
      /\ \A j \in DOMAIN Detail.names : Named(Detail.names[j].desc) # None
  BY <1>2, <1>3, <1>4, ArgFacts, TextAssumption DEF Arg, Value, Detail
<1>6. ASSUME ShowValue
      PROVE  Place(enumDescFound, Shown(Value)) /\ faults' = faults
  BY <1>6 DEF ShowValue
<1>7. ASSUME ShowName
      PROVE  \E val : /\ Place(TRUE, val)
                      /\ \/ val # None /\ faults' = faults
                         \/ val = None /\ faults < MaxFaults /\ faults' = faults + 1
  <2>0. PICK j \in NamesHere : \E val \in Allocated(Named(Detail.names[j].desc)) :
            Place(TRUE, val) /\ faults' = IF val = None THEN faults + 1 ELSE faults
    BY <1>7 DEF ShowName
  <2>1. PICK val \in Allocated(Named(Detail.names[j].desc)) :
            Place(TRUE, val) /\ faults' = IF val = None THEN faults + 1 ELSE faults
    BY <2>0
  <2>2. Named(Detail.names[j].desc) # None
    BY <1>5 DEF NamesHere
  <2>3. val # None \/ faults < MaxFaults
    BY <2>2 DEF Allocated
  <2>4. QED
    BY <2>1, <2>3
<1>8. ASSUME ShowUnknown
      PROVE  \E val : /\ Place(enumDescFound, val)
                      /\ \/ val # None /\ faults' = faults
                         \/ val = None /\ faults < MaxFaults /\ faults' = faults + 1
  <2>1. PICK val \in IF enumDescFound THEN {Shown(Value)} ELSE Allocated(UNKNOWN) :
            Place(enumDescFound, val) /\ faults' = IF val = None THEN faults + 1 ELSE faults
    BY <1>8 DEF ShowUnknown
  <2>2. val # None \/ faults < MaxFaults
    BY <1>5 DEF Allocated
  <2>3. QED
    BY <2>1, <2>2
<1>9. QED
  BY <1>1, <1>5, <1>6, <1>7, <1>8

LEMMA TypeStep == TypeInv /\ [Next]_vars => TypeInv'
<1> SUFFICES ASSUME TypeInv, [Next]_vars PROVE TypeInv'
  OBVIOUS
<1> USE DEF TypeInv
<1>0. /\ EventTypeOK /\ WalkInv
      /\ Cardinality(Freed) \in Nat
      /\ Freed' = InPlace(argVal')
      /\ Freed = InPlace(argVal)
  <2>1. DOMAIN argVal = 1 .. MAX_ARGS
    BY DEF EventTypeOK
  <2>2. QED
    BY <2>1, FreedInPlace, CountInPlace DEF Freed, InPlace
<1>1. ASSUME NEW r \in Request, Receive(r) PROVE TypeInv'
  BY <1>0, <1>1 DEF Receive, EventTypeOK, WalkInv, Blank, Idle, walk
<1>2. ASSUME FindNothing PROVE TypeInv'
  BY <1>0, <1>2 DEF FindNothing, EventTypeOK, WalkInv, Blank, Idle, walk
<1>3. ASSUME FindText PROVE TypeInv'
  <2>1. /\ pc = "find" /\ Blank /\ req \in Request /\ live \in Nat /\ faults \in 0 .. MaxFaults
        /\ faults = 0 => live = 0
        /\ UNCHANGED <<req, argVal, live, faults, ptr, argCount>>
        /\ req.evtType \in Log
    BY <1>0, <1>3 DEF FindText, EventTypeOK, WalkInv, walk
  <2>2. Cardinality(InPlace(argVal')) = 0 /\ DOMAIN argVal' = 1 .. MAX_ARGS
    BY <2>1, NoneInPlace DEF Blank
  <2>3. PICK k \in DOMAIN DescData[req.evtType] :
            /\ DescData[req.evtType][k].event = req.event
            /\ textData' = DescData[req.evtType][k]
    BY <1>3 DEF FindText, find_index
  <2>4. ASSUME pc' = "walk" PROVE TablesOf(req'.evtType, textData', varData')
    <3>1. PICK j \in DOMAIN VarData[req.evtType] :
              /\ VarData[req.evtType][j].event = req.event
              /\ varData' = VarData[req.evtType][j]
      BY <1>3, <2>4 DEF FindText, find_index
    <3>2. QED
      BY <2>1, <2>3, <3>1 DEF TablesOf
  <2>5. pc' \in {"journal", "walk"}
    BY <1>3 DEF FindText
  <2>6. /\ argCount' = 0 /\ ptr' = 0 /\ argVal' = [n \in 1 .. MAX_ARGS |-> None]
        /\ req' = req /\ live' = live /\ faults' = faults
    BY <2>1 DEF Blank
  <2>7. ASSUME pc' = "walk" PROVE Len(Chars(textData')) \in Nat
    <3>1. IsText(textData')
      BY <2>1, <2>3, TextAssumption
    <3> DEFINE t == textData'
    <3> HIDE DEF t
    <3>2. /\ Len(t.parts) \in Nat /\ Chars(t) = Upto(t, Len(t.parts))
      BY <3>1, UptoPrefix DEF t
    <3>3. Chars(t) \in Seq(CharSet)
      <4>1. Len(t.parts) \in 0 .. Len(t.parts)
        BY <3>2
      <4>2. QED
        BY <3>1, <3>2, <4>1, UptoNext DEF t
    <3>4. QED
      BY <3>3, LenProperties DEF t
  <2>8. EventTypeOK'
    <3>1. \A n \in 1 .. MAX_ARGS : argVal'[n] = None
      BY <2>6
    <3>2. pc' = "walk" => ptr' \in 0 .. Len(Chars(textData')) + 1
      BY <2>6, <2>7
    <3>3. QED
      BY <2>1, <2>2, <2>5, <2>6, <3>1, <3>2 DEF EventTypeOK
  <2>9. WalkInv'
    BY <1>0, <2>1, <2>2, <2>4, <2>5, <2>6 DEF WalkInv
  <2>10. QED
    BY <2>8, <2>9
<1>4. ASSUME CopyChar PROVE TypeInv'
  <2>1. /\ pc = "walk" /\ pc' = "walk" /\ ptr < Len(Chars(textData)) /\ ptr' = ptr + 1
        /\ argCount' \in {argCount, argCount + 1}
        /\ UNCHANGED <<req, textData, varData, argVal, live, faults>>
    BY <1>4 DEF CopyChar, Walking
  <2>2. /\ argCount \in Nat /\ ptr \in 0 .. Len(Chars(textData)) + 1
        /\ \A n \in 1 .. MAX_ARGS : argVal[n] # None => n <= argCount
    BY <1>0, <2>1 DEF EventTypeOK, WalkInv
  <2>3. ptr' \in 0 .. Len(Chars(textData')) + 1
    BY <2>1, <2>2
  <2>4. \A n \in 1 .. MAX_ARGS : argVal'[n] # None => n <= argCount'
    BY <2>1, <2>2
  <2>5. argCount' \in Nat
    BY <2>1, <2>2
  <2>6. EventTypeOK'
    BY <1>0, <2>1, <2>3, <2>4 DEF EventTypeOK
  <2>7. WalkInv'
    <3>1. Freed' = Freed
      BY <1>0, <2>1
    <3>2. QED
      BY <1>0, <2>1, <2>5, <3>1 DEF WalkInv
  <2>8. QED
    BY <2>6, <2>7
<1>5. ASSUME ShowValue \/ ShowName \/ ShowUnknown PROVE TypeInv'
  BY <1>5, ShowPlaces, PlaceTyped
<1>6. ASSUME ExtractFails PROVE TypeInv'
  <2>1. faults' \in 1 .. MaxFaults
    BY <1>0, <1>6, TextAssumption DEF ExtractFails, EventTypeOK
  <2>2. QED
    BY <1>0, <1>6, <2>1 DEF ExtractFails, EventTypeOK, WalkInv, Walking, walk
<1>7. ASSUME Format PROVE TypeInv'
  <2>1. /\ pc = "walk" /\ pc' = "journal" /\ live' = live - Cardinality(Freed)
        /\ Cardinality(Freed) <= live /\ live \in Nat
        /\ faults = 0 => live = Cardinality(Freed)
        /\ UNCHANGED <<req, textData, varData, walk, argVal, logged, faults>>
    BY <1>0, <1>7 DEF Format, EventTypeOK, WalkInv
  <2>2. live' \in Nat /\ (faults = 0 => live' = 0)
    BY <1>0, <2>1
  <2>3. QED
    BY <1>0, <2>1, <2>2 DEF EventTypeOK, WalkInv, walk
<1>8. ASSUME Journal PROVE TypeInv'
  BY <1>0, <1>8 DEF Journal, EventTypeOK, WalkInv, walk
<1>9. ASSUME DbusSend PROVE TypeInv'
  <2>1. faults' \in 0 .. MaxFaults /\ (faults' = 0 => faults = 0)
    BY <1>0, <1>9, TextAssumption DEF DbusSend, EventTypeOK
  <2>2. /\ pc = "send" /\ pc' \in {"answer", "stopped"}
        /\ UNCHANGED <<req, textData, varData, walk, argVal, live, message>>
    BY <1>9 DEF DbusSend
  <2>3. QED
    BY <1>0, <2>1, <2>2 DEF EventTypeOK, WalkInv, walk
<1>10. ASSUME Answer \/ Restart PROVE TypeInv'
  <2>1. /\ pc \in {"answer", "stopped"} /\ pc' = "idle" /\ faults' = faults
        /\ live' = live \/ live' = 0
        /\ req' = None /\ textData' = None /\ varData' = None
        /\ ptr' = 0 /\ argCount' = 0 /\ enumDescFound' = FALSE /\ buf' = << >>
        /\ argVal' = [n \in 1 .. MAX_ARGS |-> None]
        /\ message' = << >> /\ logged' = None
    BY <1>10 DEF Answer, Restart, Reset
  <2>2. Blank' /\ Idle'
    BY <2>1 DEF Blank, Idle
  <2>3. DOMAIN argVal' = 1 .. MAX_ARGS /\ \A n \in 1 .. MAX_ARGS : argVal'[n] = None
    BY <2>1
  <2>4. live' \in Nat /\ (faults' = 0 => live' = 0)
    BY <1>0, <2>1 DEF EventTypeOK, WalkInv
  <2>5. EventTypeOK'
    BY <1>0, <2>1, <2>2, <2>3, <2>4 DEF EventTypeOK
  <2>6. WalkInv'
    BY <2>1, <2>2, <2>4 DEF WalkInv
  <2>7. QED
    BY <2>5, <2>6
<1>11. ASSUME UNCHANGED vars PROVE TypeInv'
  BY <1>0, <1>11 DEF vars, walk, EventTypeOK, WalkInv, Blank, Idle
<1>12. QED
  BY <1>1, <1>2, <1>3, <1>4, <1>5, <1>6, <1>7, <1>8, <1>9, <1>10, <1>11 DEF Next, Handler

\* Type invariant, with the walk inside its message and its arguments inside
\* argVal: EventTypeOK holds in every reachable state.
THEOREM EventTypes == Spec => []EventTypeOK
<1>1. Init => TypeInv
  BY TypeInit
<1>2. TypeInv /\ [Next]_vars => TypeInv'
  BY TypeStep
<1>3. TypeInv => EventTypeOK
  BY DEF TypeInv
<1>4. QED
  BY <1>1, <1>2, <1>3, PTL DEF Spec

\* Every argument that decode_text() allocated is freed when it returns, unless
\* a call failed: AllFreed holds in every reachable state.
THEOREM ArgumentsFreed == Spec => []AllFreed
<1>1. Init => TypeInv
  BY TypeInit
<1>2. TypeInv /\ [Next]_vars => TypeInv'
  BY TypeStep
<1>3. TypeInv => AllFreed
  BY DEF TypeInv, WalkInv, AllFreed
<1>4. QED
  BY <1>1, <1>2, <1>3, PTL DEF Spec

-----------------------------------------------------------------------------
(* The text.  What the properties say of the request at hand, of any       *)
(* message t, variables v and values x.                                    *)

EnumOf(t, m) == t.args[m].replaceWith = "desc"

VariableOf(t, v, m) == v.details[t.args[m].varNum]
SentFor(t, x, m)    == x[t.args[m].varNum]

NamesFor(t, v, x, m) ==
    {j \in DOMAIN VariableOf(t, v, m).names :
        VariableOf(t, v, m).names[j].value = SentFor(t, x, m)}

MisreadFor(t, v, x, m) ==
    /\ EnumOf(t, m)
    /\ \/ VariableOf(t, v, m).rep = "hex" /\ SentFor(t, x, m) > 9
       \/ NamesFor(t, v, x, m) = {} /\ \E l \in 1 .. m - 1 : EnumOf(t, l) /\ NamesFor(t, v, x, l) # {}

IntendedFor(t, v, x, m) ==
    CASE ~ EnumOf(t, m) -> Shown(SentFor(t, x, m))
      [] EnumOf(t, m) /\ NamesFor(t, v, x, m) # {} ->
            Named(VariableOf(t, v, m).names[CHOOSE j \in NamesFor(t, v, x, m) :
                                               \A i \in NamesFor(t, v, x, m) : j <= i].desc)
      [] EnumOf(t, m) /\ NamesFor(t, v, x, m) = {} -> UNKNOWN

RenderingFor(t, v, x) ==
    [k \in DOMAIN t.parts |-> IF IsArg(t, k) THEN IntendedFor(t, v, x, Nth(t, k)) ELSE TextChar]

\* Message and tables fit, and no value is misread.
FitsAll(t, v, x) ==
    /\ t # None /\ v # None
    /\ \A k \in DOMAIN t.parts :
          /\ t.parts[k].kind # "percent"
          /\ IsArg(t, k) =>
                /\ Nth(t, k) <= Len(t.args)
                /\ t.parts[k].digits = IF Nth(t, k) > ONE_DIGIT THEN 2 ELSE 1
    /\ \A m \in DOMAIN t.args : t.args[m].varNum <= Len(v.details)
    /\ ~ (\E m \in DOMAIN t.args : MisreadFor(t, v, x, m))

LEMMA SameRendering ==
    /\ FitsAll(textData, varData, req.values) <=>
           Fitting /\ ~ (\E m \in DOMAIN textData.args : Misread(m))
    /\ Rendering = RenderingFor(textData, varData, req.values)
<1>1. \A m : /\ EnumOf(textData, m) <=> IsEnum(m)
             /\ VariableOf(textData, varData, m) = DetailOf(m)
             /\ SentFor(textData, req.values, m) = ValueOf(m)
  BY DEF EnumOf, IsEnum, VariableOf, DetailOf, SentFor, ValueOf
<1>2. \A m : NamesFor(textData, varData, req.values, m) = NamesOf(m)
  BY <1>1 DEF NamesFor, NamesOf
<1>3. \A m : MisreadFor(textData, varData, req.values, m) <=> Misread(m)
  BY <1>1, <1>2 DEF MisreadFor, Misread
<1>4. \A m : IntendedFor(textData, varData, req.values, m) = Intended(m)
  BY Zenon DEF IntendedFor, Intended, EnumOf, IsEnum, VariableOf, DetailOf, SentFor, ValueOf,
               NamesFor, NamesOf
<1>5. QED
  BY <1>3, <1>4 DEF FitsAll, Fitting, Rendering, RenderingFor

\* How far the walk has come: the format string has one piece for each part
\* that is behind it, and the arguments are those of the placeholders behind it.
Walked(t, v, x, p, c, e, b, f) ==
    /\ b \in Seq({Spec_s, TextChar}) /\ Len(b) <= Len(t.parts)
    /\ p = Len(Upto(t, Len(b))) /\ c = Nth(t, Len(b))
    /\ \A k \in 1 .. Len(b) : b[k] = IF IsArg(t, k) THEN Spec_s ELSE TextChar
    /\ \A m \in 1 .. c : f[m] = IntendedFor(t, v, x, m) /\ f[m] # None
    /\ e => \E m \in 1 .. c : EnumOf(t, m) /\ NamesFor(t, v, x, m) # {}

\* Placeholders are counted.
LEMMA NthCount ==
    ASSUME NEW t, NEW j \in Nat
    PROVE  /\ Nth(t, j) \in Nat
           /\ j = 0 => Nth(t, j) = 0
           /\ Nth(t, j + 1) = IF IsArg(t, j + 1) THEN Nth(t, j) + 1 ELSE Nth(t, j)
           /\ \A k \in 1 .. j : /\ Nth(t, k) \in Nat /\ Nth(t, k) <= Nth(t, j)
                                /\ IsArg(t, k) => Nth(t, k) >= 1
<1> DEFINE S(n) == {i \in 1 .. n : IsArg(t, i)}
<1>1. ASSUME NEW n \in Nat
      PROVE  IsFiniteSet(S(n)) /\ Cardinality(S(n)) \in Nat /\ Nth(t, n) = Cardinality(S(n))
  <2>1. IsFiniteSet(1 .. n)
    BY FS_Interval
  <2>2. S(n) \subseteq 1 .. n
    OBVIOUS
  <2>3. IsFiniteSet(S(n)) /\ Cardinality(S(n)) \in Nat
    <3> HIDE DEF S
    <3>1. QED
      BY <2>1, <2>2, FS_Subset, FS_CardinalityType
  <2>4. QED
    BY <2>3 DEF Nth
<1>2. j = 0 => Nth(t, j) = 0
  <2>1. SUFFICES ASSUME j = 0 PROVE Nth(t, j) = 0
    OBVIOUS
  <2>2. S(j) = {}
    BY <2>1
  <2>3. QED
    BY <1>1, <2>2, FS_EmptySet
<1>3. Nth(t, j + 1) = IF IsArg(t, j + 1) THEN Nth(t, j) + 1 ELSE Nth(t, j)
  <2>1. j + 1 \in Nat
    OBVIOUS
  <2>2. CASE IsArg(t, j + 1)
    <3>1. S(j + 1) = S(j) \cup {j + 1} /\ j + 1 \notin S(j)
      <4>1. \A i : i \in 1 .. j + 1 <=> i \in 1 .. j \/ i = j + 1
        OBVIOUS
      <4>2. j + 1 \notin 1 .. j
        OBVIOUS
      <4>3. QED
        BY <2>2, <4>1, <4>2, Zenon
    <3>2. Cardinality(S(j) \cup {j + 1}) = Cardinality(S(j)) + 1
      <4> HIDE DEF S
      <4>1. QED
        BY <1>1, <3>1, FS_AddElement
    <3> HIDE DEF S
    <3>3. QED
      BY <1>1, <2>1, <2>2, <3>1, <3>2
  <2>3. CASE ~ IsArg(t, j + 1)
    <3>1. S(j + 1) = S(j)
      <4>1. \A i : i \in 1 .. j + 1 <=> i \in 1 .. j \/ i = j + 1
        OBVIOUS
      <4>2. QED
        BY <2>3, <4>1, Zenon
    <3> HIDE DEF S
    <3>2. QED
      BY <1>1, <2>1, <2>3, <3>1
  <2>4. QED
    BY <2>2, <2>3
<1>4. ASSUME NEW k \in 1 .. j
      PROVE  /\ Nth(t, k) \in Nat /\ Nth(t, k) <= Nth(t, j)
             /\ IsArg(t, k) => Nth(t, k) >= 1
  <2>1. k \in Nat /\ k \in 1 .. k /\ \A i \in 1 .. k : i \in 1 .. j
    OBVIOUS
  <2>2. S(k) \subseteq S(j)
    BY <2>1
  <2>3. IsArg(t, k) => S(k) # {}
    BY <2>1
  <2> HIDE DEF S
  <2>4. Cardinality(S(k)) <= Cardinality(S(j))
    BY <1>1, <2>1, <2>2, FS_Subset
  <2>5. S(k) # {} => Cardinality(S(k)) # 0
    BY <1>1, <2>1, FS_EmptySet
  <2>6. QED
    BY <1>1, <2>1, <2>3, <2>4, <2>5
<1>5. QED
  BY <1>1, <1>2, <1>3, <1>4

\* In the middle of a message that fits, the next part is text or a
\* placeholder whose number has the digits its place asks for.
LEMMA NextPart ==
    ASSUME NEW t, NEW v, NEW x, IsText(t), FitsAll(t, v, x),
           NEW p, NEW c, NEW e, NEW b, NEW f, Walked(t, v, x, p, c, e, b, f),
           p < Len(Chars(t))
    PROVE  LET j == Len(b) IN
           /\ j \in Nat /\ j + 1 \in 1 .. Len(t.parts) /\ c \in Nat /\ p \in Nat
           /\ \/ /\ ~ IsArg(t, j + 1) /\ Chars(t)[p + 1] = TextChar
                 /\ Len(Upto(t, j + 1)) = p + 1 /\ Nth(t, j + 1) = c
              \/ /\ IsArg(t, j + 1) /\ Chars(t)[p + 1] = Percent
                 /\ Len(Upto(t, j + 1)) = p + (IF c < ONE_DIGIT THEN 2 ELSE 3)
                 /\ Nth(t, j + 1) = c + 1
                 /\ c + 1 \in 1 .. Len(t.args)
                 /\ t.args[c + 1].varNum <= Len(v.details)
<1> DEFINE j == Len(b)
           n == Len(t.parts)
           N == Len(Chars(t))
<1>1. j \in Nat /\ n \in Nat /\ j <= n /\ p = Len(Upto(t, j)) /\ c = Nth(t, j)
  <2>1. b \in Seq({Spec_s, TextChar})
    BY DEF Walked
  <2>2. j \in Nat
    BY <2>1, LenProperties
  <2>3. QED
    BY <2>2, UptoPrefix DEF Walked
<1>2. N = Len(Upto(t, n)) /\ N \in Nat
  <2>1. Chars(t) = Upto(t, n)
    BY UptoPrefix
  <2>2. Upto(t, n) \in Seq(CharSet)
    <3>1. n \in 0 .. n
      BY <1>1
    <3>2. QED
      BY <3>1, UptoNext
  <2>3. QED
    BY <2>1, <2>2, LenProperties
<1>3. j # n
  <2>1. SUFFICES ASSUME j = n PROVE FALSE
    OBVIOUS
  <2>2. p = N
    BY <1>1, <1>2, <2>1
  <2>3. QED
    BY <1>2, <2>2
<1>4. j \in 0 .. n - 1 /\ j + 1 \in 1 .. n
  BY <1>1, <1>3
<1> DEFINE part == t.parts[j + 1]
           cs == CharsOf(part)
<1>5. /\ p \in Nat /\ Chars(t)[p + 1] = cs[1] /\ Len(Upto(t, j + 1)) = p + Len(cs)
  BY <1>1, <1>4, CharsAt
<1>6. c \in Nat /\ Nth(t, j + 1) = IF IsArg(t, j + 1) THEN c + 1 ELSE c
  BY <1>1, NthCount
<1>7. j + 1 \in DOMAIN t.parts /\ DOMAIN t.args = 1 .. Len(t.args) /\ Len(t.args) \in Nat
  <2>1. t.parts \in Seq([kind : {"text", "percent", "arg"}, digits : 0 .. 2])
        /\ t.args \in Seq([varNum : Nat \ {0}, replaceWith : {"value", "desc"}])
    BY DEF IsText
  <2>2. DOMAIN t.parts = 1 .. n /\ DOMAIN t.args = 1 .. Len(t.args) /\ Len(t.args) \in Nat
    BY <2>1, LenProperties
  <2>3. QED
    BY <1>4, <2>2
<1>8. /\ part.kind \in {"text", "percent", "arg"} /\ part.kind # "percent"
  BY <1>4, <1>7, PartTypes DEF FitsAll
<1>9. /\ part.kind = "text" => cs[1] = TextChar /\ Len(cs) = 1
      /\ part.kind # "text" => cs[1] = Percent
      /\ part.kind = "arg" => Len(cs) = part.digits + 1
  BY <1>4, PartChars
<1>10. IsArg(t, j + 1) <=> part.kind = "arg"
  BY DEF IsArg
<1>11. CASE part.kind = "text"
  BY <1>1, <1>4, <1>5, <1>6, <1>9, <1>10, <1>11
<1>12. CASE part.kind = "arg"
  <2>1. /\ Nth(t, j + 1) <= Len(t.args)
        /\ part.digits = IF Nth(t, j + 1) > ONE_DIGIT THEN 2 ELSE 1
    BY <1>7, <1>10, <1>12 DEF FitsAll
  <2>2. Nth(t, j + 1) = c + 1
    BY <1>6, <1>10, <1>12
  <2>3. c + 1 \in 1 .. Len(t.args)
    BY <1>6, <1>7, <2>1, <2>2
  <2>4. t.args[c + 1].varNum <= Len(v.details)
    BY <1>7, <2>3 DEF FitsAll
  <2>5. Len(cs) = IF c < ONE_DIGIT THEN 2 ELSE 3
    <3>1. Len(cs) = part.digits + 1
      BY <1>9, <1>12
    <3>2. c + 1 > ONE_DIGIT <=> ~ (c < ONE_DIGIT)
      BY <1>6, TextAssumption
    <3> HIDE DEF cs, part
    <3>3. QED
      BY <2>1, <2>2, <3>1, <3>2
  <2>6. IsArg(t, j + 1) /\ Chars(t)[p + 1] = Percent
    BY <1>5, <1>9, <1>10, <1>12
  <2>7. Len(Upto(t, j + 1)) = p + (IF c < ONE_DIGIT THEN 2 ELSE 3)
    BY <1>5, <2>5
  <2> HIDE DEF j, n, cs, part
  <2>8. QED
    BY <1>1, <1>4, <1>5, <1>6, <2>2, <2>3, <2>4, <2>6, <2>7 DEF j, n
<1>13. QED
  BY <1>8, <1>11, <1>12

\* A character of the text is copied: one part is walked.
LEMMA CopiedPart ==
    ASSUME NEW t, NEW v, NEW x, IsText(t), FitsAll(t, v, x),
           NEW p, NEW c, NEW e, NEW b, NEW f, Walked(t, v, x, p, c, e, b, f),
           p < Len(Chars(t)),
           Chars(t)[p + 1] = Percent =>
               ~ (c < Len(t.args) /\ t.args[c + 1].varNum <= Len(v.details))
    PROVE  /\ Chars(t)[p + 1] # Percent
           /\ Walked(t, v, x, p + 1, c, e, Append(b, Chars(t)[p + 1]), f)
<1> DEFINE j == Len(b)
           P == {Spec_s, TextChar}
           b2 == Append(b, Chars(t)[p + 1])
<1>1. /\ j \in Nat /\ j + 1 \in 1 .. Len(t.parts) /\ c \in Nat /\ p \in Nat
      /\ ~ IsArg(t, j + 1) /\ Chars(t)[p + 1] = TextChar
      /\ Len(Upto(t, j + 1)) = p + 1 /\ Nth(t, j + 1) = c
  <2>1. Len(t.args) \in Nat
    BY LenProperties DEF IsText
  <2>2. c \in Nat /\ c + 1 \in 1 .. Len(t.args) => c < Len(t.args)
    BY <2>1
  <2>3. QED
    BY <2>2, NextPart
<1>2. /\ b \in Seq(P)
      /\ \A k \in 1 .. j : b[k] = IF IsArg(t, k) THEN Spec_s ELSE TextChar
  BY DEF Walked
<1>3. /\ b2 \in Seq(P) /\ Len(b2) = j + 1 /\ b2[j + 1] = TextChar
      /\ \A k \in 1 .. j : b2[k] = b[k]
  <2>1. Chars(t)[p + 1] \in P
    BY <1>1
  <2> HIDE DEF P
  <2>2. QED
    BY <1>1, <1>2, <2>1, AppendProperties
<1> HIDE DEF b2
<1>4. \A k \in 1 .. Len(b2) : b2[k] = IF IsArg(t, k) THEN Spec_s ELSE TextChar
  <2>1. \A k \in 1 .. Len(b2) : k \in 1 .. j \/ k = j + 1
    BY <1>1, <1>3
  <2>2. QED
    BY <1>1, <1>2, <1>3, <2>1
<1>5. p + 1 = Len(Upto(t, Len(b2))) /\ c = Nth(t, Len(b2)) /\ Len(b2) <= Len(t.parts)
  BY <1>1, <1>3, UptoPrefix
<1>6. Walked(t, v, x, p + 1, c, e, b2, f)
  BY <1>3, <1>4, <1>5 DEF Walked
<1>7. TextChar # Percent
  BY DEF TextChar, Percent
<1>8. QED
  BY <1>1, <1>6, <1>7 DEF b2

\* A placeholder gives way to what is intended for it: one part is walked.
LEMMA PlacedPart ==
    ASSUME NEW t, NEW v, NEW x, IsText(t), FitsAll(t, v, x),
           NEW p, NEW c, NEW e, NEW b, NEW f, Walked(t, v, x, p, c, e, b, f),
           DOMAIN f = 1 .. MAX_ARGS,
           p < Len(Chars(t)), Chars(t)[p + 1] = Percent,
           NEW val, NEW found, val # None, val = IntendedFor(t, v, x, c + 1),
           found => e \/ (EnumOf(t, c + 1) /\ NamesFor(t, v, x, c + 1) # {})
    PROVE  Walked(t, v, x, p + (IF c < ONE_DIGIT THEN 2 ELSE 3), c + 1, found,
                  Append(b, Spec_s), [f EXCEPT ![c + 1] = val])
<1> DEFINE j == Len(b)
           P == {Spec_s, TextChar}
           b2 == Append(b, Spec_s)
           f2 == [f EXCEPT ![c + 1] = val]
           p2 == p + (IF c < ONE_DIGIT THEN 2 ELSE 3)
<1>0. TextChar # Percent
  BY DEF TextChar, Percent
<1>1. /\ j \in Nat /\ j + 1 \in 1 .. Len(t.parts) /\ c \in Nat /\ p \in Nat
      /\ IsArg(t, j + 1) /\ Len(Upto(t, j + 1)) = p2
      /\ Nth(t, j + 1) = c + 1 /\ c + 1 \in 1 .. Len(t.args)
  BY <1>0, NextPart
<1>2. /\ b \in Seq(P)
      /\ \A k \in 1 .. j : b[k] = IF IsArg(t, k) THEN Spec_s ELSE TextChar
      /\ \A m \in 1 .. c : f[m] = IntendedFor(t, v, x, m) /\ f[m] # None
      /\ e => \E m \in 1 .. c : EnumOf(t, m) /\ NamesFor(t, v, x, m) # {}
  BY DEF Walked
<1>3. /\ b2 \in Seq(P) /\ Len(b2) = j + 1 /\ b2[j + 1] = Spec_s
      /\ \A k \in 1 .. j : b2[k] = b[k]
  <2>1. Spec_s \in P
    OBVIOUS
  <2> HIDE DEF P
  <2>2. QED
    BY <1>1, <1>2, <2>1, AppendProperties
<1> HIDE DEF b2
<1>4. \A k \in 1 .. Len(b2) : b2[k] = IF IsArg(t, k) THEN Spec_s ELSE TextChar
  <2>1. \A k \in 1 .. Len(b2) : k \in 1 .. j \/ k = j + 1
    BY <1>1, <1>3
  <2>2. QED
    BY <1>1, <1>2, <1>3, <2>1
<1> HIDE DEF p2
<1>5. p2 = Len(Upto(t, Len(b2))) /\ c + 1 = Nth(t, Len(b2)) /\ Len(b2) <= Len(t.parts)
  BY <1>1, <1>3, UptoPrefix
<1>6. c + 1 \in 1 .. MAX_ARGS
  <2>1. Len(t.args) \in Nat /\ Len(t.args) <= MAX_ARGS /\ MAX_ARGS \in Nat
    BY LenProperties, TextAssumption DEF IsText
  <2>2. QED
    BY <1>1, <2>1
<1>7. ASSUME NEW m \in 1 .. c + 1
      PROVE  f2[m] = IntendedFor(t, v, x, m) /\ f2[m] # None
  <2>1. CASE m = c + 1
    <3>1. f2[m] = val
      BY <1>6, <2>1
    <3>2. QED
      BY <2>1, <3>1
  <2>2. CASE m # c + 1
    <3>1. m \in 1 .. c /\ m \in 1 .. MAX_ARGS
      BY <1>1, <1>6, <2>2, TextAssumption
    <3>2. f2[m] = f[m]
      BY <2>2, <3>1
    <3>3. QED
      BY <1>2, <3>1, <3>2
  <2>3. QED
    BY <2>1, <2>2
<1>8. found => \E m \in 1 .. c + 1 : EnumOf(t, m) /\ NamesFor(t, v, x, m) # {}
  <2>1. \A m \in 1 .. c : m \in 1 .. c + 1
    BY <1>1
  <2>2. c + 1 \in 1 .. c + 1
    BY <1>1
  <2>3. QED
    BY <1>2, <2>1, <2>2
<1> HIDE DEF f2
<1>9. Walked(t, v, x, p2, c + 1, found, b2, f2)
  BY <1>3, <1>4, <1>5, <1>7, <1>8 DEF Walked
<1>10. QED
  BY <1>9 DEF b2, f2, p2

\* A number of one digit, and any that is printed in decimal, is read back
\* as it was.
LEMMA ReadBack ==
    ASSUME NEW n \in Nat, NEW rep \in Representations, rep # "string", ~ (rep = "hex" /\ n > 9)
    PROVE  atoi(n, rep) = n
<1>1. CASE rep = "integer"
  BY <1>1 DEF atoi
<1>2. CASE rep = "hex"
  <2>1. n \in 0 .. 9
    BY <1>2
  <2>2. n \div 16 = 0 /\ n % 16 = n
    BY <2>1
  <2>3. QED
    BY <1>2, <2>1, <2>2 DEF atoi
<1>3. QED
  BY <1>1, <1>2 DEF Representations

\* At the end of the message the format string is the message with its
\* placeholders replaced, and snprintf() puts the arguments there.
LEMMA WalkedAll ==
    ASSUME NEW t, NEW v, NEW x, IsText(t), FitsAll(t, v, x),
           NEW p, NEW c, NEW e, Walked(t, v, x, p, c, e, buf, argVal),
           p >= Len(Chars(t))
    PROVE  Percent \notin ToSet(buf) /\ Formatted = RenderingFor(t, v, x)
<1> DEFINE n == Len(t.parts)
           j == Len(buf)
<1>1. /\ buf \in Seq({Spec_s, TextChar}) /\ j \in Nat /\ j <= n /\ n \in Nat
      /\ p = Len(Upto(t, j)) /\ c = Nth(t, j)
      /\ \A k \in 1 .. j : buf[k] = IF IsArg(t, k) THEN Spec_s ELSE TextChar
      /\ \A m \in 1 .. c : argVal[m] = IntendedFor(t, v, x, m) /\ argVal[m] # None
  <2>1. buf \in Seq({Spec_s, TextChar})
    BY DEF Walked
  <2>2. j \in Nat
    BY <2>1, LenProperties
  <2>3. QED
    BY <2>1, <2>2, UptoPrefix DEF Walked
<1>2. j = n
  <2>1. SUFFICES ASSUME j # n PROVE FALSE
    OBVIOUS
  <2>2. j \in 0 .. n - 1
    BY <1>1, <2>1
  <2>3. p \in Nat /\ p < Len(Chars(t)) /\ Len(Chars(t)) \in Nat
    BY <1>1, <2>2, CharsAt
  <2>4. QED
    BY <2>3
<1>3. DOMAIN buf = 1 .. n /\ DOMAIN t.parts = 1 .. n
  <2>1. DOMAIN buf = 1 .. j
    BY <1>1, LenProperties
  <2>2. t.parts \in Seq([kind : {"text", "percent", "arg"}, digits : 0 .. 2])
    BY DEF IsText
  <2>3. DOMAIN t.parts = 1 .. n
    BY <2>2, LenProperties
  <2>4. QED
    BY <1>2, <2>1, <2>3
<1>4. Percent \notin ToSet(buf)
  <2>1. \A k \in 1 .. n : buf[k] \in {Spec_s, TextChar}
    BY <1>1, <1>2
  <2>2. Percent \notin {Spec_s, TextChar}
    BY DEF Percent, Spec_s, TextChar
  <2>3. QED
    BY <1>3, <2>1, <2>2 DEF ToSet
<1>5. Spec_s # TextChar
  BY DEF Spec_s, TextChar
<1>6. ASSUME NEW k \in 1 .. n
      PROVE  (IF buf[k] = Spec_s THEN ArgShown(Cardinality({i \in 1 .. k : buf[i] = Spec_s})) ELSE buf[k])
             = IF IsArg(t, k) THEN IntendedFor(t, v, x, Nth(t, k)) ELSE TextChar
  <2>1. \A i \in 1 .. k : i \in 1 .. n
    BY <1>1
  <2>2. {i \in 1 .. k : buf[i] = Spec_s} = {i \in 1 .. k : IsArg(t, i)}
    BY <1>1, <1>2, <1>5, <2>1
  <2>3. Cardinality({i \in 1 .. k : buf[i] = Spec_s}) = Nth(t, k)
    BY <2>2 DEF Nth
  <2>4. CASE IsArg(t, k)
    <3>1. buf[k] = Spec_s
      BY <1>1, <1>2, <2>4
    <3>2. Nth(t, k) \in 1 .. c
      <4>1. Nth(t, k) \in Nat /\ Nth(t, k) <= Nth(t, n) /\ Nth(t, k) >= 1 /\ Nth(t, n) \in Nat
        BY <1>1, <2>4, NthCount
      <4>2. QED
        BY <1>1, <1>2, <4>1
    <3>3. ArgShown(Nth(t, k)) = IntendedFor(t, v, x, Nth(t, k))
      BY <1>1, <3>2 DEF ArgShown
    <3>4. QED
      BY <2>3, <2>4, <3>1, <3>3
  <2>5. CASE ~ IsArg(t, k)
    <3>1. buf[k] = TextChar
      BY <1>1, <1>2, <2>5
    <3>2. QED
      BY <1>5, <2>5, <3>1
  <2>6. QED
    BY <2>4, <2>5
<1>7. Formatted = RenderingFor(t, v, x)
  <2> HIDE DEF n
  <2>1. QED
    BY <1>3, <1>6, Zenon DEF Formatted, RenderingFor
<1>8. QED
  BY <1>4, <1>7

\* The walk begins.
LEMMA WalkStart ==
    ASSUME NEW t, NEW v, NEW x, IsText(t), NEW f
    PROVE  Walked(t, v, x, 0, 0, FALSE, << >>, f)
<1>1. Len(t.parts) \in Nat
  BY UptoPrefix
<1>2. 0 \in 0 .. Len(t.parts)
  BY <1>1
<1>3. Upto(t, 0) = << >>
  BY <1>2, UptoNext
<1>4. Nth(t, 0) = 0
  BY NthCount
<1>5. PICK o : o = << >>
  OBVIOUS
<1>6. o \in Seq({Spec_s, TextChar}) /\ Len(o) = 0
  BY <1>5
<1>7. Walked(t, v, x, 0, 0, FALSE, o, f)
  BY <1>1, <1>3, <1>4, <1>5, <1>6 DEF Walked
<1>8. QED
  BY <1>5, <1>7

\* The entry that a fitting event is to make in its log.
InItsLog(q) == q.evtType \in {EVT_IML, EVT_IEL} /\ q.severity \in Severity

EntryOf(q, t, v) == [log |-> LogName[q.evtType], text |-> RenderingFor(t, v, q.values)]

\* Where all fits and nothing has failed, the walk is where its message says,
\* then the text is the message's, then the entry is the event's.
RenderInv ==
    FitsAll(textData, varData, req.values) /\ faults = 0 =>
        /\ pc = "walk" => Walked(textData, varData, req.values, ptr, argCount, enumDescFound, buf, argVal)
        /\ pc \in {"journal", "send"} => message = RenderingFor(textData, varData, req.values)
        /\ pc = "answer" /\ InItsLog(req) => logged = EntryOf(req, textData, varData)

\* What is put in place is what is intended.
LEMMA ShownRight ==
    ASSUME NEW t, NEW v, NEW x, t = textData, v = varData, x = req.values,
           TypeInv, FitsAll(t, v, x), faults' = 0,
           Walked(t, v, x, ptr, argCount, enumDescFound, buf, argVal),
           ShowValue \/ ShowName \/ ShowUnknown
    PROVE  /\ faults = 0
           /\ \E found, val :
                 /\ Place(found, val) /\ val # None /\ val = IntendedFor(t, v, x, argCount + 1)
                 /\ found => enumDescFound \/ ( /\ EnumOf(t, argCount + 1)
                                                /\ NamesFor(t, v, x, argCount + 1) # {} )
<1> DEFINE m == argCount + 1
           d == VariableOf(t, v, m)
           y == SentFor(t, x, m)
           N == NamesFor(t, v, x, m)
<1>0. faults = 0 /\ \A val, w : (val \in Allocated(w) /\ faults' = IF val = None THEN faults + 1 ELSE faults)
                                   => val = w
  <2>1. faults \in Nat
    BY TextAssumption DEF TypeInv, EventTypeOK
  <2>2. faults + 1 # 0
    BY <2>1
  <2>3. \/ faults' = faults
        \/ faults' = faults + 1
    BY DEF ShowValue, ShowName, ShowUnknown
  <2>4. faults = 0
    BY <2>2, <2>3
  <2>5. QED
    BY <2>2, <2>4 DEF Allocated
<1>1. Walking /\ Here = Percent /\ HasArg
  BY ShowPlaces
<1>2. /\ req \in Request /\ TablesOf(req.evtType, t, v) /\ argCount \in Nat
  BY <1>1 DEF TypeInv, EventTypeOK, WalkInv, Walking
<1>3. IsText(t) /\ argCount < Len(t.args) /\ t.args[m].varNum <= Len(v.details)
  BY <1>1, <1>2, ArgFacts DEF HasArg, Arg
<1>4. m \in 1 .. Len(t.args) /\ m \in DOMAIN t.args
  <2>1. t.args \in Seq([varNum : Nat \ {0}, replaceWith : {"value", "desc"}])
    BY <1>3 DEF IsText
  <2>2. Len(t.args) \in Nat /\ DOMAIN t.args = 1 .. Len(t.args)
    BY <2>1, LenProperties
  <2>3. QED
    BY <1>2, <1>3, <2>2
<1>5. Arg = t.args[m] /\ Detail = d /\ Value = y
  BY DEF Arg, Detail, Value, VariableOf, SentFor
<1>6. /\ Shown(y) # None /\ UNKNOWN # None
      /\ \A j \in DOMAIN d.names : Named(d.names[j].desc) # None
      /\ d.rep \in Representations
      /\ d.names \in Seq([value : Nat, desc : STRING])
      /\ EnumOf(t, m) => d.rep # "string" /\ y \in Nat
  <2>1. /\ Shown(y) # None
        /\ \A j \in DOMAIN d.names : Named(d.names[j].desc) # None
        /\ d.rep \in Representations
        /\ d.names \in Seq([value : Nat, desc : STRING])
        /\ d.rep # "string" => y \in Nat
        /\ EnumOf(t, m) => d.rep # "string"
    BY <1>2, <1>3, <1>4, ArgFacts DEF EnumOf, VariableOf, SentFor
  <2>2. UNKNOWN # None
    BY TextAssumption
  <2>3. QED
    BY <2>1, <2>2
<1>7. ~ MisreadFor(t, v, x, m)
  BY <1>4 DEF FitsAll
<1>8. ASSUME EnumOf(t, m) PROVE NamesHere = N
  <2>1. ~ (d.rep = "hex" /\ y > 9)
    BY <1>7, <1>8 DEF MisreadFor
  <2>2. y \in Nat /\ d.rep \in Representations /\ d.rep # "string"
    BY <1>6, <1>8
  <2> HIDE DEF d, y
  <2>3. atoi(y, d.rep) = y
    BY <2>1, <2>2, ReadBack
  <2>4. QED
    BY <1>5, <2>3 DEF NamesHere, NamesFor, d, y
<1>9. EnumOf(t, m) <=> Arg.replaceWith = "desc"
  BY <1>5 DEF EnumOf
<1>10. ASSUME ShowValue
       PROVE  Place(enumDescFound, Shown(y)) /\ Shown(y) = IntendedFor(t, v, x, m)
  <2>1. ~ EnumOf(t, m)
    BY <1>9, <1>10 DEF ShowValue
  <2>2. Place(enumDescFound, Shown(y))
    BY <1>5, <1>10 DEF ShowValue
  <2>3. IntendedFor(t, v, x, m) = Shown(SentFor(t, x, m))
    BY <2>1 DEF IntendedFor
  <2>4. QED
    BY <2>2, <2>3
<1>11. ASSUME ShowName
       PROVE  /\ EnumOf(t, m) /\ N # {}
              /\ \E val : Place(TRUE, val) /\ val # None /\ val = IntendedFor(t, v, x, m)
  <2>1. EnumOf(t, m)
    BY <1>9, <1>11 DEF ShowName
  <2>2. NamesHere = N
    BY <1>8, <2>1
  <2>3. PICK j \in N :
            /\ \A k \in N : j <= k
            /\ \E val \in Allocated(Named(Detail.names[j].desc)) :
                  Place(TRUE, val) /\ faults' = IF val = None THEN faults + 1 ELSE faults
    BY <1>11, <2>2 DEF ShowName
  <2>4. Place(TRUE, Named(d.names[j].desc))
    BY <1>0, <1>5, <2>3
  <2>5. j \in DOMAIN d.names /\ Named(d.names[j].desc) # None
    BY <1>6 DEF NamesFor
  <2>6. N \subseteq Nat
    <3>1. DOMAIN d.names = 1 .. Len(d.names) /\ Len(d.names) \in Nat
      <4> DEFINE S == [value : Nat, desc : STRING]
      <4>1. d.names \in Seq(S)
        BY <1>6
      <4> HIDE DEF S, d
      <4>2. QED
        BY <4>1, LenProperties
    <3>2. QED
      BY <3>1 DEF NamesFor
  <2> DEFINE first == CHOOSE i \in N : \A k \in N : i <= k
  <2>7. first \in N /\ \A k \in N : first <= k
    BY <2>3
  <2> HIDE DEF N
  <2>8. first = j
    <3> HIDE DEF first
    <3>1. first <= j /\ j <= first /\ first \in Nat /\ j \in Nat
      BY <2>3, <2>6, <2>7
    <3>2. QED
      BY <3>1
  <2>9. IntendedFor(t, v, x, m) = Named(d.names[first].desc)
    <3>1. EnumOf(t, m) /\ NamesFor(t, v, x, m) # {}
      BY <2>1, <2>3 DEF N
    <3>2. QED
      BY <3>1 DEF IntendedFor, N
  <2> HIDE DEF first
  <2>10. QED
    BY <2>1, <2>3, <2>4, <2>5, <2>8, <2>9
<1>12. ASSUME ShowUnknown
       PROVE  Place(enumDescFound, UNKNOWN) /\ UNKNOWN = IntendedFor(t, v, x, m)
  <2>1. EnumOf(t, m)
    BY <1>9, <1>12 DEF ShowUnknown
  <2>2. N = {}
    BY <1>8, <1>12, <2>1 DEF ShowUnknown
  <2>3. ~ enumDescFound
    <3>1. SUFFICES ASSUME enumDescFound PROVE FALSE
      OBVIOUS
    <3>2. PICK l \in 1 .. argCount : EnumOf(t, l) /\ NamesFor(t, v, x, l) # {}
      BY <3>1 DEF Walked
    <3>3. l \in 1 .. m - 1
      BY <1>2
    <3>4. MisreadFor(t, v, x, m)
      BY <2>1, <2>2, <3>2, <3>3 DEF MisreadFor
    <3>5. QED
      BY <1>7, <3>4
  <2>4. PICK val \in Allocated(UNKNOWN) :
            Place(enumDescFound, val) /\ faults' = IF val = None THEN faults + 1 ELSE faults
    BY <1>12, <2>3 DEF ShowUnknown
  <2>5. val = UNKNOWN
    BY <1>0, <2>4
  <2>6. IntendedFor(t, v, x, m) = UNKNOWN
    <3>1. EnumOf(t, m) /\ NamesFor(t, v, x, m) = {}
      BY <2>1, <2>2
    <3>2. QED
      BY <3>1 DEF IntendedFor
  <2>7. QED
    BY <2>4, <2>5, <2>6
<1> HIDE DEF m, y, N
<1> DEFINE Goal(found, val) ==
              /\ Place(found, val) /\ val # None /\ val = IntendedFor(t, v, x, m)
              /\ found => enumDescFound \/ (EnumOf(t, m) /\ N # {})
<1>13. \E found, val : Goal(found, val)
  <2>1. CASE ShowValue
    <3>1. Goal(enumDescFound, Shown(y))
      BY <1>6, <1>10, <2>1
    <3> HIDE DEF Goal
    <3>2. QED
      BY <3>1
  <2>2. CASE ShowName
    <3>1. PICK val : Place(TRUE, val) /\ val # None /\ val = IntendedFor(t, v, x, m)
      BY <1>11, <2>2
    <3>2. Goal(TRUE, val)
      BY <1>11, <2>2, <3>1
    <3> HIDE DEF Goal
    <3>3. QED
      BY <3>2
  <2>3. CASE ShowUnknown
    <3>1. Goal(enumDescFound, UNKNOWN)
      BY <1>6, <1>12, <2>3
    <3> HIDE DEF Goal
    <3>2. QED
      BY <3>1
  <2>4. QED
    BY <2>1, <2>2, <2>3
<1>14. QED
  BY <1>0, <1>13 DEF m, N

LEMMA RenderStep == TypeInv /\ RenderInv /\ [Next]_vars => RenderInv'
<1> SUFFICES ASSUME TypeInv, RenderInv, [Next]_vars, faults' = 0,
                    FitsAll(textData', varData', req'.values)
             PROVE  /\ pc' = "walk" => Walked(textData', varData', req'.values, ptr', argCount',
                                              enumDescFound', buf', argVal')
                    /\ pc' \in {"journal", "send"} => message' = RenderingFor(textData', varData', req'.values)
                    /\ pc' = "answer" /\ InItsLog(req') => logged' = EntryOf(req', textData', varData')
  BY DEF RenderInv
<1> DEFINE Goal == /\ pc' = "walk" => Walked(textData', varData', req'.values, ptr', argCount',
                                              enumDescFound', buf', argVal')
                   /\ pc' \in {"journal", "send"} => message' = RenderingFor(textData', varData', req'.values)
                   /\ pc' = "answer" /\ InItsLog(req') => logged' = EntryOf(req', textData', varData')
<1> SUFFICES Goal
  OBVIOUS
<1>0. PICK t, v, q, x : t = textData /\ v = varData /\ q = req /\ x = req.values
  OBVIOUS
<1>1. ASSUME UNCHANGED <<textData, varData, req>>
      PROVE  FitsAll(t, v, x) /\ textData' = t /\ varData' = v /\ req' = q /\ req'.values = x
  BY <1>0, <1>1
<1>2. faults = 0 => RenderInv /\ (FitsAll(t, v, x) =>
          /\ pc = "walk" => Walked(t, v, x, ptr, argCount, enumDescFound, buf, argVal)
          /\ pc \in {"journal", "send"} => message = RenderingFor(t, v, x)
          /\ pc = "answer" /\ InItsLog(q) => logged = EntryOf(q, t, v))
  BY <1>0 DEF RenderInv
<1>3. ASSUME pc = "walk"
      PROVE  IsText(t) /\ argCount \in Nat
  <2>1. req \in Request /\ TablesOf(req.evtType, t, v) /\ argCount \in Nat
    BY <1>0, <1>3 DEF TypeInv, EventTypeOK, WalkInv
  <2>2. QED
    BY <2>1, ArgFacts
<1>4. DOMAIN argVal = 1 .. MAX_ARGS
  BY DEF TypeInv, EventTypeOK
<1>5. ASSUME NEW r \in Request, Receive(r) PROVE Goal
  BY <1>5 DEF Receive
<1>6. ASSUME FindNothing PROVE Goal
  <2>1. varData' = None
    BY <1>6 DEF FindNothing, TypeInv, WalkInv, Blank
  <2>2. QED
    BY <2>1 DEF FitsAll
<1>7. ASSUME FindText PROVE Goal
  <2>1. /\ varData = None /\ ptr' = 0 /\ argCount' = 0 /\ enumDescFound' = FALSE /\ buf' = << >>
        /\ req.evtType \in Log /\ req' = req
    BY <1>7 DEF FindText, TypeInv, WalkInv, Blank, walk
  <2>2. varData' # None
    BY DEF FitsAll
  <2>3. pc' = "walk"
    BY <1>7, <2>1, <2>2 DEF FindText
  <2>4. IsText(textData')
    <3>1. PICK k \in DOMAIN DescData[req.evtType] : textData' = DescData[req.evtType][k]
      BY <1>7 DEF FindText, find_index
    <3>2. QED
      BY <2>1, <3>1, TextAssumption
  <2>5. Walked(textData', varData', req'.values, 0, 0, FALSE, << >>, argVal')
    BY <2>4, WalkStart
  <2>6. QED
    BY <2>1, <2>3, <2>5
<1>8. ASSUME CopyChar PROVE Goal
  <2>1. /\ pc = "walk" /\ pc' = "walk" /\ ptr < Len(Chars(t))
        /\ Chars(t)[ptr + 1] = Percent => ~ HasArg
        /\ buf' = Append(buf, Chars(t)[ptr + 1])
        /\ argCount' = IF Chars(t)[ptr + 1] = Percent THEN argCount + 1 ELSE argCount
        /\ ptr' = ptr + 1
        /\ UNCHANGED <<textData, varData, req, enumDescFound, argVal, faults>>
    BY <1>0, <1>8 DEF CopyChar, Walking, Here
  <2>2. HasArg <=> argCount < Len(t.args) /\ t.args[argCount + 1].varNum <= Len(v.details)
    BY <1>0 DEF HasArg, Arg
  <2>3. Walked(t, v, x, ptr, argCount, enumDescFound, buf, argVal) /\ FitsAll(t, v, x)
    BY <1>1, <1>2, <2>1
  <2>4. /\ Chars(t)[ptr + 1] # Percent
        /\ Walked(t, v, x, ptr + 1, argCount, enumDescFound, Append(buf, Chars(t)[ptr + 1]), argVal)
    <3>1. Chars(t)[ptr + 1] = Percent =>
              ~ (argCount < Len(t.args) /\ t.args[argCount + 1].varNum <= Len(v.details))
      BY <2>1, <2>2
    <3>2. QED
      BY <1>3, <2>1, <2>3, <3>1, CopiedPart
  <2>5. QED
    BY <1>1, <2>1, <2>4
<1>9. ASSUME ShowValue \/ ShowName \/ ShowUnknown PROVE Goal
  <2>1. Walking /\ Here = Percent
    BY <1>9, ShowPlaces
  <2>2. pc = "walk" /\ ptr < Len(Chars(t)) /\ Chars(t)[ptr + 1] = Percent
    BY <1>0, <2>1 DEF Walking, Here
  <2>3. UNCHANGED <<textData, varData, req>>
    BY <1>9 DEF ShowValue, ShowName, ShowUnknown, Place
  <2>4. FitsAll(t, v, x)
    BY <1>1, <2>3
  <2>5. faults = 0
    <3>1. \/ faults' = faults
          \/ faults' = faults + 1
      BY <1>9 DEF ShowValue, ShowName, ShowUnknown
    <3>2. faults \in Nat
      BY TextAssumption DEF TypeInv, EventTypeOK
    <3>3. QED
      BY <3>1, <3>2
  <2>6. Walked(t, v, x, ptr, argCount, enumDescFound, buf, argVal)
    BY <1>2, <2>2, <2>4, <2>5
  <2>7. PICK found, val :
            /\ Place(found, val) /\ val # None /\ val = IntendedFor(t, v, x, argCount + 1)
            /\ found => enumDescFound \/ (EnumOf(t, argCount + 1) /\ NamesFor(t, v, x, argCount + 1) # {})
    BY <1>0, <1>9, <2>4, <2>6, ShownRight
  <2>8. /\ pc' = "walk" /\ argVal' = [argVal EXCEPT ![argCount + 1] = val] /\ enumDescFound' = found
        /\ buf' = Append(buf, Spec_s) /\ argCount' = argCount + 1
        /\ ptr' = ptr + (IF argCount < ONE_DIGIT THEN 2 ELSE 3)
    BY <2>2, <2>7 DEF Place, Skip
  <2>9. Walked(t, v, x, ptr + (IF argCount < ONE_DIGIT THEN 2 ELSE 3), argCount + 1, found,
               Append(buf, Spec_s), [argVal EXCEPT ![argCount + 1] = val])
    BY <1>3, <1>4, <2>2, <2>4, <2>6, <2>7, PlacedPart
  <2>10. QED
    BY <1>1, <2>3, <2>8, <2>9
<1>10. ASSUME ExtractFails PROVE Goal
  <2>1. faults' = faults + 1 /\ faults \in Nat
    BY <1>10, TextAssumption DEF ExtractFails, TypeInv, EventTypeOK
  <2>2. QED
    BY <2>1
<1>11. ASSUME Format PROVE Goal
  <2>1. /\ pc = "walk" /\ pc' = "journal" /\ ptr >= Len(Chars(t))
        /\ UNCHANGED <<textData, varData, req, faults>>
        /\ Percent \notin ToSet(buf) => message' = Formatted
    BY <1>0, <1>11 DEF Format, walk
  <2>2. FitsAll(t, v, x) /\ Walked(t, v, x, ptr, argCount, enumDescFound, buf, argVal)
    BY <1>1, <1>2, <2>1
  <2>3. Percent \notin ToSet(buf) /\ Formatted = RenderingFor(t, v, x)
    BY <1>3, <2>1, <2>2, WalkedAll
  <2>4. QED
    BY <1>1, <2>1, <2>3
<1>12. ASSUME Journal PROVE Goal
  <2>1. /\ pc = "journal" /\ pc' \in {"send", "stopped"}
        /\ UNCHANGED <<textData, varData, req, faults, message>>
    BY <1>12 DEF Journal
  <2>2. QED
    BY <1>1, <1>2, <2>1
<1>13. ASSUME DbusSend PROVE Goal
  <2>1. /\ pc = "send" /\ pc' \in {"answer", "stopped"}
        /\ UNCHANGED <<textData, varData, req, message>>
        /\ faults' = faults \/ faults' = faults + 1
    BY <1>13 DEF DbusSend
  <2>2. faults = 0 /\ faults' # faults + 1
    <3>1. faults \in Nat
      BY TextAssumption DEF TypeInv, EventTypeOK
    <3>2. QED
      BY <2>1, <3>1
  <2>3. message = RenderingFor(t, v, x) /\ FitsAll(t, v, x)
    BY <1>1, <1>2, <2>1, <2>2
  <2>4. ASSUME InItsLog(q), pc' = "answer" PROVE logged' = EntryOf(q, t, v)
    <3>1. q.evtType \in {1, 2} /\ q.severity # OtherSeverity
      BY <2>4, TextAssumption DEF InItsLog, EVT_IML, EVT_IEL
    <3>2. q.evtType \in DOMAIN log_map /\ log_map[q.evtType] = LogName[q.evtType]
      BY <3>1 DEF log_map, LogName, Log, EVT_TYPE_IML, EVT_TYPE_IEL, EVT_TYPE_SL,
                  EVT_IML, EVT_IEL, EVT_SL
    <3>3. logged' = [log |-> log_map[q.evtType], text |-> message]
      BY <1>0, <1>13, <2>2, <3>1, <3>2 DEF DbusSend
    <3>4. QED
      BY <1>0, <2>3, <3>2, <3>3 DEF EntryOf
  <2>5. QED
    BY <1>1, <2>1, <2>4
<1>14. ASSUME Answer \/ Restart PROVE Goal
  <2>1. pc' = "idle"
    BY <1>14 DEF Answer, Restart
  <2>2. QED
    BY <2>1
<1>15. ASSUME UNCHANGED vars PROVE Goal
  <2>1. UNCHANGED <<pc, req, textData, varData, ptr, argCount, enumDescFound, buf, argVal, message, logged, faults>>
    BY <1>15 DEF vars, walk
  <2>2. FitsAll(t, v, x)
    BY <1>1, <2>1
  <2>3. QED
    BY <1>0, <1>2, <2>1, <2>2
<1>16. QED
  <2> HIDE DEF Goal
  <2>1. QED
    BY <1>5, <1>6, <1>7, <1>8, <1>9, <1>10, <1>11, <1>12, <1>13, <1>14, <1>15 DEF Next, Handler

\* Where message and tables fit, the entry is in its log and has in the place of
\* each placeholder what the tables say of its value: RendersRight holds in
\* every reachable state.
THEOREM TextRight == Spec => []RendersRight
<1>1. Init => TypeInv /\ RenderInv
  BY TypeInit DEF Init, RenderInv
<1>2. TypeInv /\ RenderInv /\ [Next]_vars => (TypeInv /\ RenderInv)'
  BY TypeStep, RenderStep
<1>3. RenderInv => RendersRight
  BY SameRendering DEF RenderInv, RendersRight, InItsLog, EntryOf
<1>4. QED
  BY <1>1, <1>2, <1>3, PTL DEF Spec

-----------------------------------------------------------------------------
(***************************************************************************)
(* How long a request takes, whatever its message and tables: its stages   *)
(* come one after the other, and each step of the walk takes at least one  *)
(* character.  EventAnswered rests on this and on the fairness of Spec.    *)
(***************************************************************************)

StagesLeft ==
    CASE pc = "find"    -> 5
      [] pc = "walk"    -> 4
      [] pc = "journal" -> 3
      [] pc = "send"    -> 2
      [] pc = "answer"  -> 1
      [] pc \in {"idle", "stopped"} -> 0

CharsLeft == Len(Chars(textData)) + 1 - ptr

Nearer ==
    \/ StagesLeft' \in 0 .. StagesLeft - 1
    \/ /\ pc = "walk" /\ pc' = "walk" /\ textData' = textData
       /\ CharsLeft' \in 0 .. CharsLeft - 1

LEMMA WalkNearer ==
    ASSUME TypeInv, TypeInv', CopyChar \/ ShowValue \/ ShowName \/ ShowUnknown
    PROVE  Nearer
<1>1. pc = "walk" /\ pc' = "walk" /\ textData' = textData /\ ptr' \in {ptr + 1, ptr + 2, ptr + 3}
  BY DEF CopyChar, ShowValue, ShowName, ShowUnknown, Place, Skip, Walking
<1>2. PICK L \in Nat, x \in Nat, y \in Nat :
          /\ L = Len(Chars(textData)) /\ x = ptr /\ y = ptr'
          /\ x <= L + 1 /\ y <= L + 1 /\ x < y
  <2>1. PICK L : L = Len(Chars(textData))
    OBVIOUS
  <2>2. ptr < L /\ ptr \in 0 .. L + 1 /\ ptr' \in 0 .. L + 1
    BY <1>1, <2>1 DEF TypeInv, EventTypeOK, CopyChar, ShowValue, ShowName, ShowUnknown, Walking
  <2>3. L \in Nat
    <3>1. IsText(textData)
      BY <1>1, TextAssumption DEF TypeInv, WalkInv, TablesOf
    <3>2. QED
      BY <2>1, <3>1, UptoNext, UptoPrefix
  <2>4. QED
    BY <1>1, <2>1, <2>2, <2>3
<1>3. CharsLeft = L + 1 - x /\ CharsLeft' = L + 1 - y
  BY <1>1, <1>2 DEF CharsLeft
<1>4. L + 1 - y \in 0 .. (L + 1 - x) - 1
  BY <1>2
<1>5. QED
  BY <1>1, <1>3, <1>4 DEF Nearer

LEMMA StageNearer ==
    ASSUME FindNothing \/ FindText \/ ExtractFails \/ Format \/ Journal \/ DbusSend \/ Answer
    PROVE  Nearer
<1>1. CASE FindNothing \/ FindText
  <2>1. pc = "find" /\ pc' \in {"walk", "journal"}
    BY <1>1 DEF FindNothing, FindText
  <2>2. StagesLeft = 5 /\ StagesLeft' \in {3, 4}
    BY <2>1 DEF StagesLeft
  <2>3. QED
    BY <2>2 DEF Nearer
<1>2. CASE ExtractFails \/ Format
  <2>1. pc = "walk" /\ pc' = "journal"
    BY <1>2 DEF ExtractFails, Format, Walking
  <2>2. StagesLeft = 4 /\ StagesLeft' = 3
    BY <2>1 DEF StagesLeft
  <2>3. QED
    BY <2>2 DEF Nearer
<1>3. CASE Journal
  <2>1. pc = "journal" /\ pc' \in {"send", "stopped"}
    BY <1>3 DEF Journal
  <2>2. StagesLeft = 3 /\ StagesLeft' \in {0, 2}
    BY <2>1 DEF StagesLeft
  <2>3. QED
    BY <2>2 DEF Nearer
<1>4. CASE DbusSend
  <2>1. pc = "send" /\ pc' \in {"answer", "stopped"}
    BY <1>4 DEF DbusSend
  <2>2. StagesLeft = 2 /\ StagesLeft' \in {0, 1}
    BY <2>1 DEF StagesLeft
  <2>3. QED
    BY <2>2 DEF Nearer
<1>5. CASE Answer
  <2>1. pc = "answer" /\ pc' = "idle"
    BY <1>5 DEF Answer
  <2>2. StagesLeft = 1 /\ StagesLeft' = 0
    BY <2>1 DEF StagesLeft
  <2>3. QED
    BY <2>2 DEF Nearer
<1>6. QED
  BY <1>1, <1>2, <1>3, <1>4, <1>5

\* Each step of a request brings it nearer to its answer: the walk, which skips
\* two characters or three whatever it is at, gets past the end of any message
\* and never more than one character.
THEOREM RequestBounded == Spec => [][Handler => Nearer]_vars
<1>1. TypeInv /\ TypeInv' /\ [Next]_vars => [Handler => Nearer]_vars
  BY WalkNearer, StageNearer DEF Handler
<1>2. QED
  BY <1>1, TypeInit, TypeStep, PTL DEF Spec
=============================================================================
