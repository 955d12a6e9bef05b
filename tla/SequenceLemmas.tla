---------------------------- MODULE SequenceLemmas -----------------------------
(***************************************************************************)
(* Lemmas about sequences of anything that the proofs about the assembler, *)
(* the object file and the processor share: their parts, what a piece of a *)
(* concatenation is, and the concatenation of many.                        *)
(***************************************************************************)
EXTENDS Integers, Sequences, SequencesExt, SequenceTheorems, WellFoundedInduction, TLAPS

\* A set of numbers that is not empty has a least one.
LEMMA LeastNatural ==
  ASSUME NEW T, T \subseteq Nat, T # {}
  PROVE  \E i \in T : \A j \in T : i <= j
<1> DEFINE R == OpToRel(<, Nat)
<1>1. IsWellFoundedOn(R, Nat)
  BY NatLessThanWellFounded, Zenon
<1>2. \A j, k \in Nat : j < k => <<j, k>> \in R
  BY DEF OpToRel
<1> HIDE DEF R
<1>3. PICK i \in T : \A j \in T : <<j, i>> \notin R
  BY <1>1, WFMin
<1>4. \A j \in T : ~(j < i)
  BY <1>2, <1>3
<1>5. QED BY <1>4

\* Sequences of anything, and what becomes of them.
IsSequence(s) == \E S : s \in Seq(S)

\* A sequence is a function on the numbers up to its length.
LEMMA SequenceParts ==
  ASSUME NEW s, IsSequence(s)
  PROVE  Len(s) \in Nat /\ DOMAIN s = 1 .. Len(s) /\ s = [i \in DOMAIN s |-> s[i]]
BY DEF IsSequence

\* Replacing an element leaves the others and the length alone.
LEMMA SequenceReplaced ==
  ASSUME NEW s, IsSequence(s), NEW i \in DOMAIN s, NEW e
  PROVE  LET u == [s EXCEPT ![i] = e]
         IN  /\ IsSequence(u) /\ Len(u) = Len(s) /\ DOMAIN u = DOMAIN s
             /\ u[i] = e /\ \A j \in DOMAIN s : j # i => u[j] = s[j]
<1>1. PICK S : s \in Seq(S)
  BY DEF IsSequence
<1>2. s \in Seq(S \union {e}) /\ e \in S \union {e}
  BY <1>1
<1>3. [s EXCEPT ![i] = e] \in Seq(S \union {e})
  BY <1>2, ExceptSeq
<1>4. QED BY <1>1, <1>3 DEF IsSequence

\* Appending an element leaves the others alone.
LEMMA SequenceExtended ==
  ASSUME NEW s, IsSequence(s), NEW e
  PROVE  LET u == Append(s, e)
         IN  /\ IsSequence(u) /\ Len(u) = Len(s) + 1 /\ DOMAIN u = 1 .. Len(s) + 1
             /\ u[Len(s) + 1] = e /\ \A j \in DOMAIN s : u[j] = s[j]
<1>1. PICK S : s \in Seq(S)
  BY DEF IsSequence
<1>2. s \in Seq(S \union {e}) /\ e \in S \union {e}
  BY <1>1
<1>3. QED BY <1>2, AppendProperties DEF IsSequence

\* A function of the places of a sequence is a sequence as long.
LEMMA SequenceMapped ==
  ASSUME NEW s, IsSequence(s), NEW u, DOMAIN u = DOMAIN s, u = [i \in DOMAIN u |-> u[i]]
  PROVE  IsSequence(u) /\ Len(u) = Len(s)
<1> DEFINE T == {u[i] : i \in DOMAIN u}
<1>1. Len(s) \in Nat /\ DOMAIN u = 1 .. Len(s)
  BY SequenceParts
<1>2. u \in [1 .. Len(s) -> T]
  BY <1>1
<1> HIDE DEF T
<1>3. u \in Seq(T)
  BY <1>1, <1>2
<1>4. QED BY <1>1, <1>3 DEF IsSequence
\* A function on 1 .. n into S is a sequence over S.
LEMMA MadeSequence ==
  ASSUME NEW S, NEW n \in Nat, NEW u, DOMAIN u = 1 .. n, u = [i \in DOMAIN u |-> u[i]],
         \A i \in 1 .. n : u[i] \in S
  PROVE  u \in Seq(S)
<1>1. u \in [1 .. n -> S]
  OBVIOUS
<1>2. QED BY <1>1

\* A pair is a sequence of two.
LEMMA PairParts ==
  ASSUME NEW x, NEW y
  PROVE  IsSequence(<<x, y>>) /\ Len(<<x, y>>) = 2 /\ <<x, y>>[1] = x /\ <<x, y>>[2] = y
<1>1. PICK S : S = {x, y}
  OBVIOUS
<1>2. <<x, y>> \in Seq(S)
  BY <1>1
<1>3. QED BY <1>2 DEF IsSequence
-------------------------------------------------------------------------------
\* Concatenation of sequences of anything.
LEMMA Joined ==
  ASSUME NEW s, IsSequence(s), NEW t, IsSequence(t)
  PROVE  /\ IsSequence(s \o t) /\ Len(s \o t) = Len(s) + Len(t)
         /\ \A i \in 1 .. Len(s) : (s \o t)[i] = s[i]
         /\ \A i \in 1 .. Len(t) : (s \o t)[Len(s) + i] = t[i]
<1>1. PICK S : s \in Seq(S)
  BY DEF IsSequence
<1>2. PICK T : t \in Seq(T)
  BY DEF IsSequence
<1>3. PICK U : U = S \union T
  OBVIOUS
<1>4. s \in Seq(U) /\ t \in Seq(U)
  BY <1>1, <1>2, <1>3, SeqMonotonic
<1>5. Len(s) \in Nat /\ Len(t) \in Nat
  BY <1>4
<1>6. /\ s \o t \in Seq(U) /\ Len(s \o t) = Len(s) + Len(t)
      /\ \A i \in 1 .. Len(s) + Len(t) : (s \o t)[i] = IF i <= Len(s) THEN s[i] ELSE t[i - Len(s)]
  BY <1>4, ConcatProperties
<1>7. ASSUME NEW i \in 1 .. Len(s) PROVE (s \o t)[i] = s[i]
  BY <1>5, <1>6
<1>8. ASSUME NEW i \in 1 .. Len(t) PROVE (s \o t)[Len(s) + i] = t[i]
  <2>1. Len(s) + i \in 1 .. Len(s) + Len(t) /\ ~(Len(s) + i <= Len(s)) /\ (Len(s) + i) - Len(s) = i
    BY <1>5
  <2>2. QED BY <1>6, <2>1
<1>9. QED BY <1>6, <1>7, <1>8 DEF IsSequence

\* What is known of s with t behind it.
IsJoined(u, s, t) ==
  /\ IsSequence(u) /\ Len(u) = Len(s) + Len(t)
  /\ \A i \in 1 .. Len(s) : u[i] = s[i]
  /\ \A i \in 1 .. Len(t) : u[Len(s) + i] = t[i]

LEMMA JoinedParts ==
  ASSUME NEW s, IsSequence(s), NEW t, IsSequence(t)
  PROVE  IsJoined(s \o t, s, t)
<1>1. /\ IsSequence(s \o t) /\ Len(s \o t) = Len(s) + Len(t)
      /\ \A i \in 1 .. Len(s) : (s \o t)[i] = s[i]
      /\ \A i \in 1 .. Len(t) : (s \o t)[Len(s) + i] = t[i]
  BY Joined
<1>2. QED BY <1>1 DEF IsJoined

\* It is associative.
Associative(s, t, u) == (s \o t) \o u = s \o (t \o u)

LEMMA JoinedOn ==
  ASSUME NEW s, IsSequence(s), NEW t, IsSequence(t), NEW u, IsSequence(u)
  PROVE  Associative(s, t, u)
<1>1. PICK S : s \in Seq(S)
  BY DEF IsSequence
<1>2. PICK T : t \in Seq(T)
  BY DEF IsSequence
<1>3. PICK U : u \in Seq(U)
  BY DEF IsSequence
<1>4. PICK V : V = S \union T \union U
  OBVIOUS
<1>5. s \in Seq(V) /\ t \in Seq(V) /\ u \in Seq(V)
  BY <1>1, <1>2, <1>3, <1>4, SeqMonotonic
<1>6. QED BY <1>5, ConcatAssociative DEF Associative

\* Sequences that agree are the same.
LEMMA SameSequence ==
  ASSUME NEW s, IsSequence(s), NEW t, IsSequence(t), Len(s) = Len(t),
         \A i \in 1 .. Len(s) : s[i] = t[i]
  PROVE  s = t
<1>1. DOMAIN s = DOMAIN t /\ s = [i \in DOMAIN s |-> s[i]] /\ t = [i \in DOMAIN t |-> t[i]]
  BY SequenceParts
<1>2. \A i \in DOMAIN s : s[i] = t[i]
  BY SequenceParts
<1>3. QED BY <1>1, <1>2

\* A piece of a sequence is found again between what stands before and behind it.
LEMMA CutOut ==
  ASSUME NEW p, IsSequence(p), NEW m, IsSequence(m), NEW r, IsSequence(r)
  PROVE  SubSeq((p \o m) \o r, Len(p) + 1, Len(p) + Len(m)) = m
<1>1. PICK f : f = (p \o m) \o r
  OBVIOUS
<1>2. PICK a \in Nat, n \in Nat : a = Len(p) /\ n = Len(m)
  BY SequenceParts
<1>3. IsSequence(p \o m) /\ Len(p \o m) = a + n
  BY <1>2, Joined
<1>4. ASSUME NEW i \in 1 .. n PROVE f[a + i] = m[i]
  <2>1. (p \o m)[a + i] = m[i]
    BY <1>2, Joined
  <2>2. f[a + i] = (p \o m)[a + i]
    <3>1. a + i \in 1 .. Len(p \o m)
      BY <1>3
    <3>2. QED BY <1>1, <1>3, <3>1, Joined
  <2>3. QED BY <2>1, <2>2
<1>5. PICK u : u = SubSeq(f, a + 1, a + n)
  OBVIOUS
<1>6. IsSequence(u) /\ Len(u) = n /\ \A i \in 1 .. n : u[i] = f[(a + 1) + i - 1]
  <2>1. PICK S : S = {f[i] : i \in a + 1 .. a + n}
    OBVIOUS
  <2>2. \A i \in a + 1 .. a + n : f[i] \in S
    BY <2>1
  <2>3. a + 1 \in Int /\ a + n \in Int /\ (a + n) - (a + 1) + 1 = n /\ (a + 1 <= a + n <=> n # 0)
    BY <1>2
  <2>4. /\ u \in Seq(S)
        /\ Len(u) = IF a + 1 <= a + n THEN (a + n) - (a + 1) + 1 ELSE 0
        /\ \A i \in 1 .. (a + n) - (a + 1) + 1 : u[i] = f[(a + 1) + i - 1]
    BY <1>5, <2>2, <2>3, SubSeqProperties
  <2>5. QED BY <2>3, <2>4 DEF IsSequence
<1>7. \A i \in 1 .. n : u[i] = m[i]
  <2>1. \A i \in 1 .. n : (a + 1) + i - 1 = a + i
    BY <1>2
  <2>2. QED BY <1>4, <1>6, <2>1
<1>8. u = m
  BY <1>2, <1>6, <1>7, SameSequence
<1>9. QED BY <1>1, <1>2, <1>5, <1>8
-------------------------------------------------------------------------------
\* Pieces one behind the other, and how far each reaches.
IsFlat(flat, g, n) ==
  flat = [i \in 1 .. n |-> IF i = 1 THEN g[i] ELSE flat[i - 1] \o g[i]]

LEMMA FlatExists ==
  ASSUME NEW n \in Nat, NEW g
  PROVE  \E flat : IsFlat(flat, g, n)
<1> DEFINE T == {m \in Nat : ~ \E flat : IsFlat(flat, g, m)}
<1>1. T = {}
  <2> SUFFICES ASSUME T # {} PROVE FALSE
    OBVIOUS
  <2>1. T \subseteq Nat
    OBVIOUS
  <2>2. PICK m \in T : \A k \in T : m <= k
    <3> HIDE DEF T
    <3>1. QED BY <2>1, LeastNatural
  <2>3. m \in Nat /\ ~ \E flat : IsFlat(flat, g, m)
    OBVIOUS
  <2>4. m # 0
    <3>1. IsFlat([i \in 1 .. 0 |-> <<>>], g, 0)
      BY DEF IsFlat
    <3>2. QED BY <2>3, <3>1
  <2>5. PICK f : IsFlat(f, g, m - 1)
    <3>1. m - 1 \in Nat /\ m - 1 \notin T
      BY <2>2, <2>3, <2>4
    <3>2. QED BY <3>1
  <2> DEFINE h == [i \in 1 .. m |-> IF i = m THEN IF m = 1 THEN g[m] ELSE f[m - 1] \o g[m] ELSE f[i]]
  <2>6. IsFlat(h, g, m)
    <3>1. ASSUME NEW i \in 1 .. m
          PROVE  h[i] = IF i = 1 THEN g[i] ELSE h[i - 1] \o g[i]
      <4>1. CASE i = m
        BY <2>3, <2>4, <4>1
      <4>2. CASE i # m
        <5>1. i \in 1 .. m - 1 /\ (i # 1 => i - 1 \in 1 .. m /\ i - 1 # m)
          BY <2>3, <4>2
        <5>2. f[i] = IF i = 1 THEN g[i] ELSE f[i - 1] \o g[i]
          BY <2>5, <5>1 DEF IsFlat
        <5>3. QED BY <4>2, <5>1, <5>2
      <4>3. QED BY <4>1, <4>2
    <3> HIDE DEF h
    <3>2. DOMAIN h = 1 .. m /\ h = [i \in DOMAIN h |-> h[i]]
      BY DEF h
    <3>3. QED BY <3>1, <3>2 DEF IsFlat
  <2>7. QED BY <2>3, <2>6
<1>2. QED BY <1>1

\* FlattenSeq puts pieces one behind the other.
LEMMA Flattened ==
  ASSUME NEW g, Len(g) \in Nat, Len(g) # 0
  PROVE  \E flat : IsFlat(flat, g, Len(g)) /\ FlattenSeq(g) = flat[Len(g)]
<1> DEFINE flat == CHOOSE f : f = [i \in 1 .. Len(g) |-> IF i = 1 THEN g[i] ELSE f[i - 1] \o g[i]]
<1>1. IsFlat(flat, g, Len(g))
  <2>1. PICK f : f = [i \in 1 .. Len(g) |-> IF i = 1 THEN g[i] ELSE f[i - 1] \o g[i]]
    BY FlatExists DEF IsFlat
  <2>2. flat = [i \in 1 .. Len(g) |-> IF i = 1 THEN g[i] ELSE flat[i - 1] \o g[i]]
    BY <2>1
  <2> HIDE DEF flat
  <2>3. QED BY <2>2 DEF IsFlat
<1>2. FlattenSeq(g) = flat[Len(g)]
  BY DEF FlattenSeq
<1> HIDE DEF flat
<1>3. QED BY <1>1, <1>2

\* What stands before the piece behind the k-th.
Ahead(flat, k) == IF k = 0 THEN <<>> ELSE flat[k]

\* Every piece lies between those before it and those behind it.
InOrder(flat, g, n) ==
  /\ \A k \in 0 .. n : IsSequence(Ahead(flat, k))
  /\ \A k \in 1 .. n : Ahead(flat, k) = Ahead(flat, k - 1) \o g[k]
  /\ \A k \in 1 .. n : \E r : IsSequence(r) /\ flat[n] = Ahead(flat, k) \o r

LEMMA PiecesLie ==
  ASSUME NEW n \in Nat, n # 0, NEW g, \A i \in 1 .. n : IsSequence(g[i]),
         NEW flat, IsFlat(flat, g, n)
  PROVE  InOrder(flat, g, n)
<1>1. IsSequence(<<>>) /\ Len(<<>>) = 0
  BY DEF IsSequence
<1>2. \A i \in 1 .. n : flat[i] = IF i = 1 THEN g[i] ELSE flat[i - 1] \o g[i]
  BY DEF IsFlat
<1>3. ASSUME NEW k \in 1 .. n PROVE Ahead(flat, k) = Ahead(flat, k - 1) \o g[k]
  <2>1. CASE k = 1
    <3>1. Ahead(flat, k) = g[k] /\ Ahead(flat, k - 1) = <<>> /\ IsSequence(g[k])
      BY <1>2, <2>1 DEF Ahead
    <3>2. PICK S : g[k] \in Seq(S)
      BY <3>1 DEF IsSequence
    <3>3. <<>> \o g[k] = g[k]
      BY <3>2, ConcatEmptySeq
    <3>4. QED BY <3>1, <3>3
  <2>2. CASE k # 1
    <3>1. k # 0 /\ k - 1 # 0
      BY <2>2
    <3>2. QED BY <1>2, <2>2, <3>1 DEF Ahead
  <2>3. QED BY <2>1, <2>2
<1> DEFINE T == {k \in 0 .. n : ~ IsSequence(Ahead(flat, k))}
<1>4. T = {}
  <2> SUFFICES ASSUME T # {} PROVE FALSE
    OBVIOUS
  <2>1. T \subseteq Nat
    OBVIOUS
  <2>2. PICK m \in T : \A k \in T : m <= k
    <3> HIDE DEF T
    <3>1. QED BY <2>1, LeastNatural
  <2>3. m \in 0 .. n /\ ~ IsSequence(Ahead(flat, m))
    OBVIOUS
  <2>4. m # 0
    BY <1>1, <2>3 DEF Ahead
  <2>5. m \in 1 .. n /\ m - 1 \in 0 .. n /\ m - 1 \notin T
    BY <2>2, <2>3, <2>4
  <2>6. IsSequence(Ahead(flat, m - 1)) /\ IsSequence(g[m])
    BY <2>5
  <2>7. IsSequence(Ahead(flat, m))
    <3>1. PICK b : b = Ahead(flat, m - 1) /\ IsSequence(b)
      BY <2>6
    <3>2. IsJoined(b \o g[m], b, g[m])
      BY <2>6, <3>1, JoinedParts
    <3>3. Ahead(flat, m) = b \o g[m]
      BY <1>3, <2>5, <3>1
    <3>4. QED BY <3>2, <3>3 DEF IsJoined
  <2>8. QED BY <2>3, <2>7
<1> DEFINE Fits(k) == \E r : IsSequence(r) /\ flat[n] = Ahead(flat, k) \o r
           U == {d \in 0 .. n : ~ Fits(n - d)}
<1>5. U = {}
  <2> SUFFICES ASSUME U # {} PROVE FALSE
    OBVIOUS
  <2>1. U \subseteq Nat
    OBVIOUS
  <2>2. PICK m \in U : \A k \in U : m <= k
    <3> HIDE DEF U
    <3>1. QED BY <2>1, LeastNatural
  <2>3. m \in 0 .. n /\ ~ Fits(n - m)
    OBVIOUS
  <2>4. m # 0
    <3>1. IsSequence(flat[n]) /\ Ahead(flat, n) = flat[n]
      <4>1. Ahead(flat, n) = flat[n]
        BY DEF Ahead
      <4>2. n \in 0 .. n
        OBVIOUS
      <4>3. n \notin T
        <5> HIDE DEF T
        <5>1. QED BY <1>4
      <4>4. IsSequence(Ahead(flat, n))
        BY <4>2, <4>3
      <4>5. QED BY <4>1, <4>4
    <3>2. PICK S : flat[n] \in Seq(S)
      BY <3>1 DEF IsSequence
    <3>3. flat[n] \o <<>> = flat[n]
      BY <3>2, ConcatEmptySeq
    <3>4. Fits(n)
      BY <1>1, <3>1, <3>3
    <3>5. n - 0 = n
      OBVIOUS
    <3>6. QED BY <2>3, <3>4, <3>5
  <2>5. m - 1 \in 0 .. n /\ m - 1 \notin U
    <3>1. m \in Nat /\ m # 0 /\ m <= n
      BY <2>3, <2>4
    <3>2. m - 1 \in 0 .. n /\ ~ (m <= m - 1)
      BY <3>1
    <3> HIDE DEF U
    <3>3. QED BY <2>2, <3>2
  <2>6. PICK k \in 1 .. n : k = n - (m - 1) /\ k - 1 = n - m
    <3>1. m \in Nat /\ m >= 1 /\ m <= n
      BY <2>3, <2>4
    <3>2. n - (m - 1) \in 1 .. n /\ (n - (m - 1)) - 1 = n - m
      BY <3>1
    <3>3. QED BY <3>2
  <2>7. Fits(k)
    BY <2>5, <2>6
  <2>8. PICK r : IsSequence(r) /\ flat[n] = Ahead(flat, k) \o r
    BY <2>7
  <2>9. /\ IsSequence(Ahead(flat, k - 1)) /\ IsSequence(g[k])
        /\ Ahead(flat, k) = Ahead(flat, k - 1) \o g[k]
    <3>1. k - 1 \in 0 .. n
      OBVIOUS
    <3>2. k - 1 \notin T
      <4> HIDE DEF T
      <4>1. QED BY <1>4
    <3>3. IsSequence(Ahead(flat, k - 1))
      BY <3>1, <3>2
    <3>4. QED BY <1>3, <3>3
  <2>10. IsSequence(g[k] \o r) /\ flat[n] = Ahead(flat, k - 1) \o (g[k] \o r)
    <3>1. PICK b : b = Ahead(flat, k - 1) /\ IsSequence(b)
      BY <2>9
    <3>2. IsJoined(g[k] \o r, g[k], r)
      BY <2>8, <2>9, JoinedParts
    <3>3. Associative(b, g[k], r)
      BY <2>8, <2>9, <3>1, JoinedOn
    <3>4. flat[n] = (b \o g[k]) \o r
      BY <2>8, <2>9, <3>1
    <3>5. QED BY <3>1, <3>2, <3>3, <3>4 DEF IsJoined, Associative
  <2>11. Fits(k - 1)
    BY <2>10
  <2>12. QED BY <2>3, <2>6, <2>11
<1>6. ASSUME NEW k \in 1 .. n PROVE Fits(k)
  <2>1. n - k \in 0 .. n /\ n - (n - k) = k
    OBVIOUS
  <2>2. QED BY <1>5, <2>1
<1>7. \A k \in 0 .. n : IsSequence(Ahead(flat, k))
  BY <1>4
<1>8. QED BY <1>3, <1>6, <1>7 DEF InOrder
-------------------------------------------------------------------------------
\* Sums of the numbers up to each place.
IsSums(at, len, n) == at = [i \in 0 .. n |-> IF i = 0 THEN 0 ELSE at[i - 1] + len[i]]

LEMMA SumsExist ==
  ASSUME NEW n \in Nat, NEW len
  PROVE  \E at : IsSums(at, len, n)
<1> DEFINE T == {k \in Nat : ~ \E at : IsSums(at, len, k)}
<1>1. T = {}
  <2> SUFFICES ASSUME T # {} PROVE FALSE
    OBVIOUS
  <2>1. T \subseteq Nat
    OBVIOUS
  <2>2. PICK k \in T : \A j \in T : k <= j
    <3> HIDE DEF T
    <3>1. QED BY <2>1, LeastNatural
  <2>3. k \in Nat /\ ~ \E at : IsSums(at, len, k)
    OBVIOUS
  <2>4. k # 0
    <3>1. IsSums([i \in 0 .. 0 |-> 0], len, 0)
      BY DEF IsSums
    <3>2. QED BY <2>3, <3>1
  <2>5. PICK f : IsSums(f, len, k - 1)
    <3>1. k - 1 \in Nat /\ k - 1 \notin T
      BY <2>2, <2>3, <2>4
    <3>2. QED BY <3>1
  <2> DEFINE h == [i \in 0 .. k |-> IF i = k THEN f[k - 1] + len[k] ELSE f[i]]
  <2>6. IsSums(h, len, k)
    <3>1. ASSUME NEW i \in 0 .. k
          PROVE  h[i] = IF i = 0 THEN 0 ELSE h[i - 1] + len[i]
      <4>1. CASE i = k
        BY <2>3, <2>4, <4>1
      <4>2. CASE i # k
        <5>1. i \in 0 .. k - 1 /\ (i # 0 => i - 1 \in 0 .. k /\ i - 1 # k)
          BY <2>3, <4>2
        <5>2. f[i] = IF i = 0 THEN 0 ELSE f[i - 1] + len[i]
          BY <2>5, <5>1 DEF IsSums
        <5>3. QED BY <4>2, <5>1, <5>2
      <4>3. QED BY <4>1, <4>2
    <3> HIDE DEF h
    <3>2. DOMAIN h = 0 .. k /\ h = [i \in DOMAIN h |-> h[i]]
      BY DEF h
    <3>3. QED BY <3>1, <3>2 DEF IsSums
  <2>7. QED BY <2>3, <2>6
<1>2. QED BY <1>1

\* They are numbers, and the last is the largest.
LEMMA SumsRise ==
  ASSUME NEW n \in Nat, NEW len, \A i \in 1 .. n : len[i] \in Nat, NEW at, IsSums(at, len, n)
  PROVE  /\ at[0] = 0 /\ \A i \in 1 .. n : at[i] = at[i - 1] + len[i]
         /\ \A i \in 0 .. n : at[i] \in Nat /\ at[i] <= at[n]
<1>1. at[0] = 0 /\ \A i \in 1 .. n : at[i] = at[i - 1] + len[i]
  BY DEF IsSums
<1> DEFINE T == {i \in 0 .. n : at[i] \notin Nat}
           U == {d \in 0 .. n : ~ (at[n - d] <= at[n])}
<1>2. T = {}
  <2> SUFFICES ASSUME T # {} PROVE FALSE
    OBVIOUS
  <2>1. T \subseteq Nat
    OBVIOUS
  <2>2. PICK k \in T : \A j \in T : k <= j
    <3> HIDE DEF T
    <3>1. QED BY <2>1, LeastNatural
  <2>3. k \in 0 .. n /\ at[k] \notin Nat
    OBVIOUS
  <2>4. k \in 1 .. n
    BY <1>1, <2>3
  <2>5. k - 1 \in 0 .. n /\ k - 1 \notin T
    BY <2>2, <2>4
  <2>6. at[k - 1] \in Nat
    BY <2>5
  <2>7. QED BY <1>1, <2>3, <2>4, <2>6
<1>3. \A i \in 0 .. n : at[i] \in Nat
  BY <1>2
<1>4. U = {}
  <2> SUFFICES ASSUME U # {} PROVE FALSE
    OBVIOUS
  <2>1. U \subseteq Nat
    OBVIOUS
  <2>2. PICK k \in U : \A j \in U : k <= j
    <3> HIDE DEF U
    <3>1. QED BY <2>1, LeastNatural
  <2>3. k \in 0 .. n /\ ~ (at[n - k] <= at[n])
    OBVIOUS
  <2>4. k # 0
    BY <1>3, <2>3
  <2>5. k - 1 \in 0 .. n /\ k - 1 \notin U
    BY <2>2, <2>3, <2>4
  <2>6. at[n - (k - 1)] <= at[n]
    BY <2>5
  <2>7. PICK i \in 1 .. n : i = n - (k - 1) /\ i - 1 = n - k
    BY <2>3, <2>4
  <2>8. at[i] = at[i - 1] + len[i] /\ at[i - 1] \in Nat /\ at[n] \in Nat
    BY <1>1, <1>3, <2>7
  <2>9. QED BY <2>3, <2>6, <2>7, <2>8
<1>5. ASSUME NEW i \in 0 .. n PROVE at[i] <= at[n]
  <2>1. n - i \in 0 .. n /\ n - (n - i) = i
    OBVIOUS
  <2>2. QED BY <1>4, <2>1
<1>6. QED BY <1>1, <1>3, <1>5
===============================================================================
