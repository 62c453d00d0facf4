---------------------------- MODULE SequenceFacts -----------------------------
(***************************************************************************)
(* Facts about numbers and sequences that the libraries do not state:      *)
(* induction for a set, functions that are defined by themselves at a      *)
(* later place, and what FlattenSeq() computes.                            *)
(***************************************************************************)
EXTENDS SequencesExt, SequenceTheorems, WellFoundedInduction, TLAPS

\* A set of numbers that is not empty has a least one.
LEMMA LeastElement ==
    ASSUME NEW T \in SUBSET Nat, T # {}
    PROVE  \E n \in T : \A m \in T : n <= m
<1>1. PICK R : IsWellFoundedOn(R, Nat) /\ R = {ss \in Nat \X Nat : ss[1] < ss[2]}
  BY NatLessThanWellFounded DEF OpToRel
<1>2. PICK x \in T : \A y \in T : ~ (<<y, x>> \in R)
  BY <1>1, WFMin
<1>3. ASSUME NEW y \in T PROVE x <= y
  <2>1. x \in Nat /\ y \in Nat
    OBVIOUS
  <2>2. y < x => <<y, x>> \in R
    BY <1>1, <2>1
  <2>3. QED
    BY <1>2, <2>1, <2>2
<1>4. QED
  BY <1>3

\* Induction, in the form of a set: the library's theorem takes an operator.
LEMMA Induction ==
    ASSUME NEW S \in SUBSET Nat, 0 \in S, \A n \in S : n + 1 \in S
    PROVE  S = Nat
<1>1. SUFFICES ASSUME S # Nat PROVE FALSE
  OBVIOUS
<1>2. Nat \ S # {} /\ Nat \ S \in SUBSET Nat
  BY <1>1
<1>3. PICK n \in Nat \ S : \A m \in Nat \ S : n <= m
  BY <1>2, LeastElement
<1>4. n # 0 /\ n - 1 \in Nat
  BY <1>3
<1>5. n - 1 \in S
  BY <1>3, <1>4
<1>6. n \in S
  BY <1>5, <1>4
<1>7. QED
  BY <1>3, <1>6

\* What a function of the places 0 .. l is that is defined by itself at a later
\* place: f[i] is what G[i] makes of f[N[i]], or B[i] if there is no such place.
GoesOn(l, V, N, B, G) ==
    /\ l \in Nat /\ N \in [0 .. l -> Nat]
    /\ B \in [0 .. l -> V] /\ G \in [0 .. l -> [V -> V]]
    /\ \A i \in 0 .. l : i < N[i]

Computes(f, l, V, N, B, G) ==
    /\ f \in [0 .. l -> V]
    /\ \A i \in 0 .. l : f[i] = IF N[i] <= l THEN G[i][f[N[i]]] ELSE B[i]

\* There is such a function.
LEMMA BackwardRecursion ==
    ASSUME NEW l, NEW V, NEW N, NEW B, NEW G, GoesOn(l, V, N, B, G)
    PROVE  \E f : Computes(f, l, V, N, B, G)
<1>0. /\ l \in Nat /\ N \in [0 .. l -> Nat]
      /\ B \in [0 .. l -> V] /\ G \in [0 .. l -> [V -> V]]
      /\ \A i \in 0 .. l : i < N[i]
  BY DEF GoesOn
<1> DEFINE Def(f, m) == /\ f \in [0 .. l -> V]
                        /\ \A i \in 0 .. l : l <= i + m =>
                               f[i] = IF N[i] <= l THEN G[i][f[N[i]]] ELSE B[i]
           S == {m \in Nat : \E f : Def(f, m)}
<1>1. 0 \in S
  <2>1. l < N[l] /\ N[l] \in Nat /\ l \in 0 .. l
    BY <1>0, SMT
  <2>2. Def(B, 0)
    BY <1>0, <2>1, SMT
  <2>3. QED
    BY <2>2
<1>2. \A m \in S : m + 1 \in S
  <2> SUFFICES ASSUME NEW m \in S PROVE m + 1 \in S
    OBVIOUS
  <2>0. m \in Nat /\ m + 1 \in Nat
    OBVIOUS
  <2>1. PICK f : Def(f, m)
    OBVIOUS
  <2> DEFINE g == [i \in 0 .. l |-> IF l <= i + m THEN f[i]
                                    ELSE IF N[i] <= l THEN G[i][f[N[i]]] ELSE B[i]]
  <2>2. \A i \in 0 .. l : N[i] <= l => f[N[i]] \in V /\ G[i][f[N[i]]] \in V
    BY <1>0, <2>0, <2>1, SMT
  <2>3. g \in [0 .. l -> V]
    BY <1>0, <2>0, <2>1, <2>2, SMT
  <2>4. \A i \in 0 .. l : l <= i + m => g[i] = f[i]
    BY SMT
  <2>5. \A i \in 0 .. l : l <= i + (m + 1) /\ N[i] <= l => g[N[i]] = f[N[i]]
    BY <1>0, <2>0, <2>4, SMT
  <2>6. ASSUME NEW i \in 0 .. l, l <= i + (m + 1)
        PROVE  g[i] = IF N[i] <= l THEN G[i][g[N[i]]] ELSE B[i]
    <3>1. CASE l <= i + m
      <4>1. g[i] = f[i] /\ f[i] = IF N[i] <= l THEN G[i][f[N[i]]] ELSE B[i]
        BY <2>1, <2>4, <3>1
      <4> HIDE DEF g
      <4>2. QED
        BY <2>5, <2>6, <4>1
    <3>2. CASE ~ (l <= i + m)
      <4>1. g[i] = IF N[i] <= l THEN G[i][f[N[i]]] ELSE B[i]
        BY <3>2
      <4> HIDE DEF g
      <4>2. QED
        BY <2>5, <2>6, <4>1
    <3>3. QED
      BY <3>1, <3>2
  <2>7. Def(g, m + 1)
    <3> HIDE DEF g
    <3>1. QED
      BY <2>3, <2>6
  <2>8. QED
    BY <2>0, <2>7
<1>3. S = Nat
  <2> HIDE DEF Def
  <2>1. S \in SUBSET Nat
    OBVIOUS
  <2> HIDE DEF S
  <2>2. QED
    BY <1>1, <1>2, <2>1, Induction
<1>4. PICK f : Def(f, l)
  BY <1>0, <1>3
<1>5. \A i \in 0 .. l : l <= i + l
  BY <1>0, SMT
<1>6. QED
  BY <1>4, <1>5 DEF Computes

\* What holds of a place when it holds of the later ones holds of all.
LEMMA Backwards ==
    ASSUME NEW l \in Nat, NEW P,
           \A i \in 0 .. l : (\A j \in 0 .. l : i < j => j \in P) => i \in P
    PROVE  \A i \in 0 .. l : i \in P
<1> DEFINE S == {m \in Nat : \A i \in 0 .. l : l < i + m => i \in P}
<1>1. 0 \in S
  OBVIOUS
<1>2. \A m \in S : m + 1 \in S
  <2>1. SUFFICES ASSUME NEW m \in S, NEW i \in 0 .. l, l < i + (m + 1) PROVE i \in P
    OBVIOUS
  <2>2. m \in Nat /\ \A j \in 0 .. l : l < j + m => j \in P
    OBVIOUS
  <2>3. \A j \in 0 .. l : i < j => l < j + m
    BY <2>1, <2>2
  <2>4. QED
    BY <2>2, <2>3
<1>3. S = Nat
  <2>1. S \in SUBSET Nat
    OBVIOUS
  <2> HIDE DEF S
  <2>2. QED
    BY <1>1, <1>2, <2>1, Induction
<1>4. l + 1 \in S
  <2> HIDE DEF S
  <2>1. l + 1 \in Nat
    OBVIOUS
  <2>2. QED
    BY <1>3, <2>1
<1>5. \A i \in 0 .. l : l < i + (l + 1) => i \in P
  BY <1>4
<1>6. QED
  BY <1>5

\* A sequence is its head and its tail.
LEMMA HeadThenTail ==
    ASSUME NEW S, NEW q \in Seq(S), q # << >>
    PROVE  q = <<Head(q)>> \o Tail(q)
<1> DEFINE hs == <<Head(q)>>
           ts == Tail(q)
<1>1. Head(q) \in S /\ Head(q) = q[1]
  BY HeadTailProperties
<1>2. hs \in Seq(S) /\ Len(hs) = 1 /\ hs[1] = q[1]
  BY <1>1
<1>3. /\ Len(q) \in Nat /\ Len(ts) = Len(q) - 1 /\ Len(q) >= 1 /\ ts \in Seq(S)
      /\ \A i \in 1 .. Len(ts) : ts[i] = q[i + 1]
  BY HeadTailProperties, LenProperties, EmptySeq
<1> HIDE DEF hs, ts
<1> DEFINE c == hs \o ts
<1>4. /\ c \in Seq(S) /\ Len(c) = Len(hs) + Len(ts)
      /\ \A i \in 1 .. Len(hs) + Len(ts) : c[i] = IF i <= Len(hs) THEN hs[i] ELSE ts[i - Len(hs)]
  <2>1. hs \in Seq(S) /\ ts \in Seq(S)
    BY <1>2, <1>3
  <2>2. QED
    BY <2>1, ConcatProperties, Zenon
<1> HIDE DEF c
<1>5. ASSUME NEW i \in 1 .. Len(q) PROVE q[i] = c[i]
  <2>1. CASE i = 1
    BY <1>2, <1>3, <1>4, <2>1
  <2>2. CASE i # 1
    <3>1. i - 1 \in 1 .. Len(ts) /\ i \in 1 .. Len(hs) + Len(ts) /\ ~ (i <= Len(hs))
      BY <1>2, <1>3, <2>2
    <3>2. c[i] = ts[i - 1]
      BY <1>2, <1>4, <3>1
    <3>3. ts[i - 1] = q[i - 1 + 1]
      BY <1>3, <3>1
    <3>4. QED
      BY <3>2, <3>3
  <2>3. QED
    BY <2>1, <2>2
<1>6. Len(q) = Len(c)
  BY <1>2, <1>3, <1>4
<1>7. q = c
  BY <1>4, <1>5, <1>6, SeqEqual
<1>8. QED
  BY <1>7 DEF c, hs, ts

-----------------------------------------------------------------------------
(***************************************************************************)
(* FlattenSeq() defines a function by recursion; the function exists, is the only*)
(* one, and its last value is what one would expect.                       *)
(***************************************************************************)

\* f is the running concatenation that FlattenSeq(seqs) is the last value of.
Running(f, seqs) ==
    f = [i \in 1 .. Len(seqs) |-> IF i = 1 THEN seqs[i] ELSE f[i - 1] \o seqs[i]]

\* seqs with one more.
LEMMA RunningOn ==
    ASSUME NEW C, NEW seqs \in Seq(Seq(C)), NEW s \in Seq(C),
           NEW f \in [1 .. Len(seqs) -> Seq(C)], Running(f, seqs)
    PROVE  LET g == [i \in 1 .. Len(seqs) + 1 |->
                        IF i <= Len(seqs) THEN f[i]
                        ELSE IF Len(seqs) = 0 THEN s ELSE f[Len(seqs)] \o s]
           IN  g \in [1 .. Len(seqs) + 1 -> Seq(C)] /\ Running(g, Append(seqs, s))
<1> DEFINE n == Len(seqs)
           g == [i \in 1 .. n + 1 |-> IF i <= n THEN f[i] ELSE IF n = 0 THEN s ELSE f[n] \o s]
           all == Append(seqs, s)
<1>1. n \in Nat /\ Len(all) = n + 1 /\ all[n + 1] = s /\ \A i \in 1 .. n : all[i] = seqs[i]
  BY LenProperties, AppendProperties
<1> HIDE DEF n, all
<1>2. g \in [1 .. n + 1 -> Seq(C)]
  <2>1. \A i \in 1 .. n : f[i] \in Seq(C)
    BY DEF n
  <2>2. n # 0 => f[n] \o s \in Seq(C)
    BY <1>1, <2>1, ConcatProperties
  <2>3. QED
    BY <1>1, <2>1, <2>2
<1>3. ASSUME NEW i \in 1 .. n + 1
      PROVE  g[i] = IF i = 1 THEN all[i] ELSE g[i - 1] \o all[i]
  <2>1. f = [k \in 1 .. n |-> IF k = 1 THEN seqs[k] ELSE f[k - 1] \o seqs[k]]
    BY DEF Running, n
  <2>2. CASE i <= n
    <3>1. i \in 1 .. n /\ (i # 1 => i - 1 \in 1 .. n /\ i - 1 \in 1 .. n + 1)
      BY <1>1, <2>2
    <3>2. f[i] = IF i = 1 THEN seqs[i] ELSE f[i - 1] \o seqs[i]
      BY <2>1, <3>1
    <3>3. g[i] = f[i] /\ (i # 1 => g[i - 1] = f[i - 1]) /\ all[i] = seqs[i]
      BY <1>1, <3>1
    <3>4. QED
      BY <3>2, <3>3
  <2>3. CASE i = n + 1
    <3>1. g[i] = IF n = 0 THEN s ELSE f[n] \o s
      BY <1>1, <2>3
    <3>2. n # 0 => g[i - 1] = f[n]
      BY <1>1, <2>3
    <3>3. (n = 0) <=> (i = 1)
      BY <1>1, <2>3
    <3>4. QED
      BY <3>1, <3>2, <3>3, <2>3, <1>1
  <2>4. QED
    BY <1>1, <2>2, <2>3
<1> HIDE DEF g
<1>4. Running(g, all)
  <2>1. g = [i \in 1 .. n + 1 |-> g[i]]
    BY <1>2
  <2>2. g = [i \in 1 .. n + 1 |-> IF i = 1 THEN all[i] ELSE g[i - 1] \o all[i]]
    BY <1>3, <2>1, Zenon
  <2>3. Len(all) = n + 1
    BY <1>1
  <2>4. QED
    BY <2>2, <2>3 DEF Running
<1>5. QED
  BY <1>2, <1>4 DEF n, all, g

\* There is such a function,
LEMMA RunningExists ==
    ASSUME NEW C, NEW seqs \in Seq(Seq(C))
    PROVE  \E f \in [1 .. Len(seqs) -> Seq(C)] : Running(f, seqs)
<1> DEFINE S == {n \in Nat : \A q \in Seq(Seq(C)) : Len(q) = n =>
                     \E f \in [1 .. Len(q) -> Seq(C)] : Running(f, q)}
<1>1. 0 \in S
  <2>1. SUFFICES ASSUME NEW q \in Seq(Seq(C)), Len(q) = 0
                 PROVE  \E f \in [1 .. Len(q) -> Seq(C)] : Running(f, q)
    OBVIOUS
  <2>2. 1 .. Len(q) = {}
    BY <2>1
  <2> DEFINE f == [i \in 1 .. Len(q) |-> << >>]
  <2>3. f \in [1 .. Len(q) -> Seq(C)] /\ Running(f, q)
    BY <2>2 DEF Running
  <2>4. QED
    BY <2>3
<1>2. ASSUME NEW n \in S PROVE n + 1 \in S
  <2>1. SUFFICES ASSUME NEW q \in Seq(Seq(C)), Len(q) = n + 1
                 PROVE  \E g \in [1 .. Len(q) -> Seq(C)] : Running(g, q)
    OBVIOUS
  <2>2. q # << >>
    BY <2>1, EmptySeq
  <2>3. PICK p \in Seq(Seq(C)), s \in Seq(C) : q = Append(p, s)
    BY <2>2, SequenceEmptyOrAppend
  <2>4. Len(p) = n
    BY <2>1, <2>3, AppendProperties, LenProperties
  <2>5. PICK f \in [1 .. Len(p) -> Seq(C)] : Running(f, p)
    BY <2>4
  <2>6. QED
    BY <2>1, <2>3, <2>4, <2>5, RunningOn
<1> HIDE DEF S
<1>3. S = Nat
  <2>1. S \in SUBSET Nat
    BY DEF S
  <2>2. QED
    BY <1>1, <1>2, <2>1, Induction
<1>4. Len(seqs) \in S
  BY <1>3, LenProperties
<1>5. QED
  BY <1>4 DEF S

\* and no other.
LEMMA RunningUnique ==
    ASSUME NEW C, NEW seqs \in Seq(Seq(C)), NEW f, NEW g,
           Running(f, seqs), Running(g, seqs)
    PROVE  f = g
<1> DEFINE n == Len(seqs)
           D == {i \in 1 .. n : f[i] # g[i]}
<1>1. n \in Nat
  BY LenProperties
<1> HIDE DEF n
<1>2. /\ f = [i \in 1 .. n |-> IF i = 1 THEN seqs[i] ELSE f[i - 1] \o seqs[i]]
      /\ g = [i \in 1 .. n |-> IF i = 1 THEN seqs[i] ELSE g[i - 1] \o seqs[i]]
  BY DEF Running, n
<1>3. SUFFICES ASSUME D # {} PROVE FALSE
  <2>1. \A i \in 1 .. n : f[i] = g[i]
    BY <1>3
  <2>2. DOMAIN f = 1 .. n /\ DOMAIN g = 1 .. n
    BY <1>2
  <2>3. f = [i \in DOMAIN f |-> f[i]] /\ g = [i \in DOMAIN g |-> g[i]]
    BY <1>2
  <2>4. QED
    BY <2>1, <2>2, <2>3
<1>4. D \in SUBSET Nat
  BY <1>1
<1>5. PICK i \in D : \A m \in D : i <= m
  <2> HIDE DEF D
  <2>1. QED
    BY <1>3, <1>4, LeastElement
<1>6. i # 1 /\ i - 1 \in 1 .. n /\ i - 1 \notin D
  <2>1. i \in 1 .. n
    OBVIOUS
  <2>2. f[1] = seqs[1] /\ g[1] = seqs[1]
    BY <1>2, <2>1, <1>1
  <2>3. i # 1
    BY <2>2
  <2>4. i - 1 \in 1 .. n
    BY <2>1, <2>3, <1>1
  <2>5. i - 1 \notin D
    BY <1>5, <2>1, <1>1
  <2>6. QED
    BY <2>3, <2>4, <2>5
<1>7. f[i - 1] = g[i - 1]
  BY <1>6
<1>8. f[i] = f[i - 1] \o seqs[i] /\ g[i] = g[i - 1] \o seqs[i]
  <2>1. i \in 1 .. n /\ i # 1
    BY <1>6
  <2> HIDE DEF D
  <2>2. QED
    BY <1>2, <2>1
<1>9. QED
  BY <1>7, <1>8

\* So FlattenSeq(), which chooses one, gives its last value.
LEMMA FlattenIs ==
    ASSUME NEW C, NEW seqs \in Seq(Seq(C)), Len(seqs) # 0,
           NEW f, Running(f, seqs)
    PROVE  FlattenSeq(seqs) = f[Len(seqs)]
<1> DEFINE F == CHOOSE h : Running(h, seqs)
<1>1. Running(F, seqs)
  OBVIOUS
<1>2. F = f
  BY <1>1, RunningUnique
<1>3. FlattenSeq(seqs) = F[Len(seqs)]
  BY DEF FlattenSeq, Running
<1>4. QED
  BY <1>2, <1>3

\* What FlattenSeq() makes of sequences is one, and one more comes behind it.
LEMMA FlattenAppend ==
    ASSUME NEW C, NEW seqs \in Seq(Seq(C)), NEW s \in Seq(C)
    PROVE  /\ FlattenSeq(seqs) \in Seq(C)
           /\ FlattenSeq(Append(seqs, s)) = FlattenSeq(seqs) \o s
<1> DEFINE n == Len(seqs)
<1>1. PICK f \in [1 .. n -> Seq(C)] : Running(f, seqs)
  BY RunningExists
<1> DEFINE g == [i \in 1 .. n + 1 |-> IF i <= n THEN f[i] ELSE IF n = 0 THEN s ELSE f[n] \o s]
<1>2. n \in Nat /\ Append(seqs, s) \in Seq(Seq(C)) /\ Len(Append(seqs, s)) = n + 1
  BY LenProperties, AppendProperties
<1>3. Running(g, Append(seqs, s))
  BY <1>1, RunningOn
<1>4. FlattenSeq(Append(seqs, s)) = g[n + 1]
  <2> HIDE DEF g, n
  <2>1. n + 1 # 0
    BY <1>2
  <2>2. QED
    BY <1>2, <1>3, <2>1, FlattenIs
<1>5. g[n + 1] = IF n = 0 THEN s ELSE f[n] \o s
  BY <1>2
<1>6. CASE n = 0
  <2>1. FlattenSeq(seqs) = << >>
    <3>1. seqs = << >>
      BY <1>6, EmptySeq
    <3>2. QED
      BY <1>6, <3>1 DEF FlattenSeq
  <2>2. << >> \in Seq(C) /\ << >> \o s = s
    BY ConcatEmptySeq, EmptySeq
  <2>3. QED
    BY <1>4, <1>5, <1>6, <2>1, <2>2
<1>7. CASE n # 0
  <2>1. FlattenSeq(seqs) = f[n]
    BY <1>1, <1>7, FlattenIs
  <2>2. f[n] \in Seq(C)
    <3>1. n \in 1 .. n
      BY <1>2, <1>7
    <3>2. QED
      BY <1>1, <3>1
  <2>3. QED
    BY <1>4, <1>5, <1>7, <2>1, <2>2
<1>8. QED
  BY <1>6, <1>7
=============================================================================
