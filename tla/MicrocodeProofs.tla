---------------------------- MODULE MicrocodeProofs ----------------------------
(***************************************************************************)
(* Theorems about the microcode compiler: whatever the source, the image   *)
(* it writes is the one the source means, and it writes none for any other *)
(* source.                                                                 *)
(***************************************************************************)
EXTENDS Microcode, SequenceLemmas, FiniteSetTheorems

-------------------------------------------------------------------------------
(***************************************************************************)
(* Iteration, and the numbers made by it.                                  *)
(***************************************************************************)
\* A function that is given step by step exists.
Iterates(f, base, step, n) == f = [k \in 0 .. n |-> IF k = 0 THEN base ELSE step[k][f[k - 1]]]

LEMMA IterationExists ==
  ASSUME NEW n \in Nat, NEW S, NEW base \in S, NEW step \in [1 .. n -> [S -> S]]
  PROVE  \E f \in [0 .. n -> S] : Iterates(f, base, step, n)
<1> DEFINE T == {m \in 0 .. n : ~ \E f \in [0 .. m -> S] : Iterates(f, base, step, m)}
<1>1. T = {}
  <2> SUFFICES ASSUME T # {} PROVE FALSE
    OBVIOUS
  <2>1. T \subseteq Nat
    OBVIOUS
  <2>2. PICK m \in T : \A k \in T : m <= k
    <3> HIDE DEF T
    <3>1. QED BY <2>1, LeastNatural
  <2>3. m \in 0 .. n /\ ~ \E f \in [0 .. m -> S] : Iterates(f, base, step, m)
    OBVIOUS
  <2>4. m # 0
    <3>1. Iterates([k \in 0 .. 0 |-> base], base, step, 0)
      BY DEF Iterates
    <3>2. [k \in 0 .. 0 |-> base] \in [0 .. 0 -> S]
      OBVIOUS
    <3>3. QED BY <2>3, <3>1, <3>2
  <2>5. PICK f \in [0 .. m - 1 -> S] : Iterates(f, base, step, m - 1)
    <3>1. m - 1 \in 0 .. n /\ m - 1 \notin T
      BY <2>2, <2>3, <2>4
    <3>2. QED BY <3>1
  <2> DEFINE h == [k \in 0 .. m |-> IF k = m THEN step[m][f[m - 1]] ELSE f[k]]
  <2>6. h \in [0 .. m -> S]
    <3>1. step[m] \in [S -> S] /\ f[m - 1] \in S
      BY <2>3, <2>4
    <3>2. \A k \in 0 .. m : k # m => k \in 0 .. m - 1
      BY <2>3
    <3>3. QED BY <3>1, <3>2
  <2>7. Iterates(h, base, step, m)
    <3>1. ASSUME NEW k \in 0 .. m
          PROVE  h[k] = IF k = 0 THEN base ELSE step[k][h[k - 1]]
      <4>1. CASE k = m
        <5>1. k # 0 /\ k - 1 \in 0 .. m /\ k - 1 # m
          BY <2>3, <2>4, <4>1
        <5>2. QED BY <4>1, <5>1
      <4>2. CASE k # m
        <5>1. k \in 0 .. m - 1 /\ (k # 0 => k - 1 \in 0 .. m /\ k - 1 # m)
          BY <2>3, <4>2
        <5>2. f[k] = IF k = 0 THEN base ELSE step[k][f[k - 1]]
          BY <2>5, <5>1 DEF Iterates
        <5>3. QED BY <4>2, <5>1, <5>2
      <4>3. QED BY <4>1, <4>2
    <3> HIDE DEF h
    <3>2. h = [k \in 0 .. m |-> h[k]]
      BY <2>6
    <3>3. QED BY <3>1, <3>2 DEF Iterates
  <2>8. QED BY <2>3, <2>6, <2>7
<1>2. n \in 0 .. n
  OBVIOUS
<1>3. QED BY <1>1, <1>2

\* A property that begins and is passed on holds up to the end.
LEMMA StepByStep ==
  ASSUME NEW n \in Nat, NEW T, T \subseteq 0 .. n, 0 \in T,
         \A k \in 1 .. n : k - 1 \in T => k \in T
  PROVE  T = 0 .. n
<1> DEFINE U == (0 .. n) \ T
<1> SUFFICES ASSUME U # {} PROVE FALSE
  OBVIOUS
<1>1. U \subseteq Nat
  OBVIOUS
<1>2. PICK m \in U : \A k \in U : m <= k
  <2> HIDE DEF U
  <2>1. QED BY <1>1, LeastNatural
<1>3. m \in 1 .. n /\ m \notin T
  OBVIOUS
<1>4. m - 1 \in 0 .. n /\ ~(m <= m - 1)
  BY <1>3
<1>5. m - 1 \in T
  BY <1>2, <1>4
<1>6. QED BY <1>3, <1>5

-------------------------------------------------------------------------------
\* 1 << places is a power of two.
Powers(f, n) == f = [k \in 0 .. n |-> IF k = 0 THEN 1 ELSE 2 * f[k - 1]]

LEMMA ShiftedPowers ==
  ASSUME NEW n \in Nat
  PROVE  \E f \in [0 .. n -> Nat] : Powers(f, n) /\ Shifted(n) = f[n]
<1> DEFINE step == [k \in 1 .. n |-> [x \in Nat |-> 2 * x]]
<1>1. \E f \in [0 .. n -> Nat] : Iterates(f, 1, step, n)
  <2>1. step \in [1 .. n -> [Nat -> Nat]]
    OBVIOUS
  <2> HIDE DEF step
  <2>2. QED BY <2>1, IterationExists
<1>2. PICK f \in [0 .. n -> Nat] : Iterates(f, 1, step, n)
  BY <1>1
<1>3. Powers(f, n)
  <2>1. ASSUME NEW k \in 0 .. n PROVE f[k] = IF k = 0 THEN 1 ELSE 2 * f[k - 1]
    <3>1. f[k] = IF k = 0 THEN 1 ELSE step[k][f[k - 1]]
      BY <1>2 DEF Iterates
    <3>2. k # 0 => k \in 1 .. n /\ f[k - 1] \in Nat
      OBVIOUS
    <3>3. QED BY <3>1, <3>2
  <2>2. f = [k \in 0 .. n |-> f[k]]
    OBVIOUS
  <2> HIDE DEF step
  <2>3. QED BY <2>1, <2>2 DEF Powers
<1> DEFINE c == CHOOSE g : g = [k \in 0 .. n |-> IF k = 0 THEN 1 ELSE 2 * g[k - 1]]
<1>4. Powers(c, n)
  <2>1. c = [k \in 0 .. n |-> IF k = 0 THEN 1 ELSE 2 * c[k - 1]]
    BY <1>3 DEF Powers
  <2> HIDE DEF c
  <2>2. QED BY <2>1 DEF Powers
<1>5. Shifted(n) = c[n]
  BY DEF Shifted
<1> HIDE DEF c, step
<1>6. c \in [0 .. n -> Nat]
  <2> DEFINE T == {k \in 0 .. n : c[k] \in Nat}
  <2>1. T \subseteq 0 .. n /\ 0 \in T
    BY <1>4 DEF Powers
  <2>2. \A k \in 1 .. n : k - 1 \in T => k \in T
    <3>1. \A k \in 1 .. n : c[k] = 2 * c[k - 1]
      BY <1>4 DEF Powers
    <3>2. QED BY <3>1
  <2>3. T = 0 .. n
    <3> HIDE DEF T
    <3>1. QED BY <2>1, <2>2, StepByStep
  <2>4. c = [k \in 0 .. n |-> c[k]]
    BY <1>4 DEF Powers
  <2>5. QED BY <2>3, <2>4
<1>7. QED BY <1>4, <1>5, <1>6

LEMMA ShiftedOn ==
  ASSUME NEW n \in Nat
  PROVE  Shifted(0) = 1 /\ Shifted(n) \in Nat /\ Shifted(n + 1) = 2 * Shifted(n)
<1>1. PICK f \in [0 .. n + 1 -> Nat] : Powers(f, n + 1) /\ Shifted(n + 1) = f[n + 1]
  <2>1. PICK p \in Nat : p = n + 1
    OBVIOUS
  <2>2. PICK f \in [0 .. p -> Nat] : Powers(f, p) /\ Shifted(p) = f[p]
    BY ShiftedPowers
  <2>3. QED BY <2>1, <2>2
<1>2. PICK g \in [0 .. n -> Nat] : Powers(g, n) /\ Shifted(n) = g[n]
  BY ShiftedPowers
<1>3. PICK h \in [0 .. 0 -> Nat] : Powers(h, 0) /\ Shifted(0) = h[0]
  BY ShiftedPowers
<1> DEFINE T == {k \in 0 .. n : f[k] = g[k]}
<1>4. /\ f[0] = 1 /\ \A k \in 1 .. n + 1 : f[k] = 2 * f[k - 1]
      /\ g[0] = 1 /\ \A k \in 1 .. n : g[k] = 2 * g[k - 1]
      /\ h[0] = 1
  BY <1>1, <1>2, <1>3 DEF Powers
<1>5. T \subseteq 0 .. n /\ 0 \in T
  BY <1>4
<1>6. \A k \in 1 .. n : k - 1 \in T => k \in T
  BY <1>4
<1>7. T = 0 .. n
  <2> HIDE DEF T
  <2>1. QED BY <1>5, <1>6, StepByStep
<1>8. n \in 0 .. n
  OBVIOUS
<1>9. f[n] = g[n]
  BY <1>7, <1>8
<1>10. n + 1 \in 1 .. n + 1 /\ (n + 1) - 1 = n
  OBVIOUS
<1>11. QED BY <1>1, <1>2, <1>3, <1>4, <1>9, <1>10

\* Half(adr, n) is adr halved n times.
Halves(f, adr, n) == f = [k \in 0 .. n |-> IF k = 0 THEN adr ELSE f[k - 1] \div 2]

LEMMA HalfHalves ==
  ASSUME NEW n \in Nat, NEW adr \in Nat
  PROVE  \E f \in [0 .. n -> Nat] : Halves(f, adr, n) /\ Half(adr, n) = f[n]
<1> DEFINE step == [k \in 1 .. n |-> [x \in Nat |-> x \div 2]]
<1>1. \E f \in [0 .. n -> Nat] : Iterates(f, adr, step, n)
  <2>1. step \in [1 .. n -> [Nat -> Nat]]
    OBVIOUS
  <2> HIDE DEF step
  <2>2. QED BY <2>1, IterationExists
<1>2. PICK f \in [0 .. n -> Nat] : Iterates(f, adr, step, n)
  BY <1>1
<1>3. Halves(f, adr, n)
  <2>1. ASSUME NEW k \in 0 .. n PROVE f[k] = IF k = 0 THEN adr ELSE f[k - 1] \div 2
    <3>1. f[k] = IF k = 0 THEN adr ELSE step[k][f[k - 1]]
      BY <1>2 DEF Iterates
    <3>2. k # 0 => k \in 1 .. n /\ f[k - 1] \in Nat
      OBVIOUS
    <3>3. QED BY <3>1, <3>2
  <2>2. f = [k \in 0 .. n |-> f[k]]
    OBVIOUS
  <2> HIDE DEF step
  <2>3. QED BY <2>1, <2>2 DEF Halves
<1> DEFINE c == CHOOSE g : g = [k \in 0 .. n |-> IF k = 0 THEN adr ELSE g[k - 1] \div 2]
<1>4. Halves(c, adr, n)
  <2>1. c = [k \in 0 .. n |-> IF k = 0 THEN adr ELSE c[k - 1] \div 2]
    BY <1>3 DEF Halves
  <2> HIDE DEF c
  <2>2. QED BY <2>1 DEF Halves
<1>5. Half(adr, n) = c[n]
  BY DEF Half
<1> HIDE DEF c, step
<1>6. c \in [0 .. n -> Nat]
  <2> DEFINE T == {k \in 0 .. n : c[k] \in Nat}
  <2>1. T \subseteq 0 .. n /\ 0 \in T
    BY <1>4 DEF Halves
  <2>2. \A k \in 1 .. n : k - 1 \in T => k \in T
    <3>1. \A k \in 1 .. n : c[k] = c[k - 1] \div 2
      BY <1>4 DEF Halves
    <3>2. QED BY <3>1
  <2>3. T = 0 .. n
    <3> HIDE DEF T
    <3>1. QED BY <2>1, <2>2, StepByStep
  <2>4. c = [k \in 0 .. n |-> c[k]]
    BY <1>4 DEF Halves
  <2>5. QED BY <2>3, <2>4
<1>7. QED BY <1>4, <1>5, <1>6

LEMMA HalfOn ==
  ASSUME NEW n \in Nat, NEW adr \in Nat
  PROVE  Half(adr, 0) = adr /\ Half(adr, n) \in Nat /\ Half(adr, n + 1) = Half(adr, n) \div 2
<1>1. PICK f \in [0 .. n + 1 -> Nat] : Halves(f, adr, n + 1) /\ Half(adr, n + 1) = f[n + 1]
  <2>1. PICK p \in Nat : p = n + 1
    OBVIOUS
  <2>2. PICK f \in [0 .. p -> Nat] : Halves(f, adr, p) /\ Half(adr, p) = f[p]
    BY HalfHalves
  <2>3. QED BY <2>1, <2>2
<1>2. PICK g \in [0 .. n -> Nat] : Halves(g, adr, n) /\ Half(adr, n) = g[n]
  BY HalfHalves
<1>3. PICK h \in [0 .. 0 -> Nat] : Halves(h, adr, 0) /\ Half(adr, 0) = h[0]
  BY HalfHalves
<1> DEFINE T == {k \in 0 .. n : f[k] = g[k]}
<1>4. /\ f[0] = adr /\ \A k \in 1 .. n + 1 : f[k] = f[k - 1] \div 2
      /\ g[0] = adr /\ \A k \in 1 .. n : g[k] = g[k - 1] \div 2
      /\ h[0] = adr
  BY <1>1, <1>2, <1>3 DEF Halves
<1>5. T \subseteq 0 .. n /\ 0 \in T
  BY <1>4
<1>6. \A k \in 1 .. n : k - 1 \in T => k \in T
  BY <1>4
<1>7. T = 0 .. n
  <2> HIDE DEF T
  <2>1. QED BY <1>5, <1>6, StepByStep
<1>8. n \in 0 .. n
  OBVIOUS
<1>9. f[n] = g[n]
  BY <1>7, <1>8
<1>10. n + 1 \in 1 .. n + 1 /\ (n + 1) - 1 = n
  OBVIOUS
<1>11. QED BY <1>1, <1>2, <1>3, <1>4, <1>9, <1>10

-------------------------------------------------------------------------------
LEMMA HalfAndRest ==
  ASSUME NEW a \in Nat
  PROVE  a = 2 * (a \div 2) + (a % 2)
BY SMT

LEMMA Halving ==
  ASSUME NEW a \in Nat, NEW d \in {0, 1}
  PROVE  (2 * a + d) \div 2 = a /\ (2 * a + d) % 2 = d
<1>1. PICK m \in Nat : m = 2 * a + d
  OBVIOUS
<1>2. PICK q \in Nat, r \in 0 .. 1 : q = m \div 2 /\ r = m % 2
  BY <1>1
<1>3. m = 2 * q + r
  BY <1>2, HalfAndRest
<1>4. q = a /\ r = d
  BY <1>1, <1>3
<1>5. QED BY <1>1, <1>2, <1>4

LEMMA HalfBelow ==
  ASSUME NEW a \in Nat, NEW b \in Nat, a < 2 * b
  PROVE  a \div 2 < b
BY SMT

\* The number that a string of 0s and 1s spells.
Spells(f, chars, n) == f = [k \in 0 .. n |-> IF k = 0 THEN 0 ELSE 2 * f[k - 1] + Digit(chars[k])]

LEMMA BinarySpells ==
  ASSUME NEW n \in Nat, NEW chars \in [1 .. n -> {"0", "1"}]
  PROVE  \E f \in [0 .. n -> Nat] : Spells(f, chars, n) /\ str_to_bin(chars) = f[n]
<1> DEFINE step == [k \in 1 .. n |-> [x \in Nat |-> 2 * x + Digit(chars[k])]]
<1>1. \E f \in [0 .. n -> Nat] : Iterates(f, 0, step, n)
  <2>1. step \in [1 .. n -> [Nat -> Nat]]
    BY DEF Digit
  <2> HIDE DEF step
  <2>2. QED BY <2>1, IterationExists
<1>2. PICK f \in [0 .. n -> Nat] : Iterates(f, 0, step, n)
  BY <1>1
<1> DEFINE Rule(g) == [k \in 0 .. Len(chars) |->
                         IF k = 0 THEN 0
                         ELSE IF \A pos \in 1 .. k : chars[pos] \in {"0", "1"}
                         THEN 2 * g[k - 1] + Digit(chars[k])
                         ELSE g[k - 1]]
<1>3. Len(chars) = n
  <2>1. chars \in Seq({"0", "1"})
    OBVIOUS
  <2>2. QED BY <2>1
<1>4. \A k \in 1 .. n : \A pos \in 1 .. k : chars[pos] \in {"0", "1"}
  OBVIOUS
<1>5. f = Rule(f)
  <2>1. ASSUME NEW k \in 0 .. n PROVE f[k] = IF k = 0 THEN 0 ELSE 2 * f[k - 1] + Digit(chars[k])
    <3>1. f[k] = IF k = 0 THEN 0 ELSE step[k][f[k - 1]]
      BY <1>2 DEF Iterates
    <3>2. k # 0 => k \in 1 .. n /\ f[k - 1] \in Nat
      OBVIOUS
    <3>3. QED BY <3>1, <3>2
  <2>2. f = [k \in 0 .. n |-> f[k]]
    OBVIOUS
  <2> HIDE DEF step
  <2>3. QED BY <1>3, <1>4, <2>1, <2>2
<1> DEFINE c == CHOOSE g : g = Rule(g)
<1>6. c = Rule(c)
  BY <1>5
<1>7. str_to_bin(chars) = c[n]
  BY <1>3 DEF str_to_bin
<1> HIDE DEF c, step
<1>8. Spells(c, chars, n)
  <2>1. c = [k \in 0 .. n |-> c[k]]
    BY <1>3, <1>6
  <2>2. ASSUME NEW k \in 0 .. n PROVE c[k] = IF k = 0 THEN 0 ELSE 2 * c[k - 1] + Digit(chars[k])
    BY <1>3, <1>4, <1>6
  <2>3. QED BY <2>1, <2>2 DEF Spells
<1>9. c \in [0 .. n -> Nat]
  <2> DEFINE T == {k \in 0 .. n : c[k] \in Nat}
  <2>1. T \subseteq 0 .. n /\ 0 \in T
    BY <1>8 DEF Spells
  <2>2. \A k \in 1 .. n : k - 1 \in T => k \in T
    <3>1. \A k \in 1 .. n : c[k] = 2 * c[k - 1] + Digit(chars[k])
      BY <1>8 DEF Spells
    <3>2. \A k \in 1 .. n : Digit(chars[k]) \in Nat
      BY DEF Digit
    <3>3. QED BY <3>1, <3>2
  <2>3. T = 0 .. n
    <3> HIDE DEF T
    <3>1. QED BY <2>1, <2>2, StepByStep
  <2>4. c = [k \in 0 .. n |-> c[k]]
    BY <1>8 DEF Spells
  <2>5. QED BY <2>3, <2>4
<1>10. QED BY <1>7, <1>8, <1>9

\* What a string spells has its characters for digits.
LEMMA DigitsOfSpelled ==
  ASSUME NEW n \in Nat, NEW chars \in [1 .. n -> {"0", "1"}]
  PROVE  /\ str_to_bin(chars) \in 0 .. Shifted(n) - 1
         /\ \A pos \in 1 .. n : Digit(chars[pos]) = Half(str_to_bin(chars), n - pos) % 2
<1>1. PICK f \in [0 .. n -> Nat] : Spells(f, chars, n) /\ str_to_bin(chars) = f[n]
  BY BinarySpells
<1>2. f[0] = 0 /\ \A k \in 1 .. n : f[k] = 2 * f[k - 1] + Digit(chars[k])
  BY <1>1 DEF Spells
<1>3. \A k \in 1 .. n : Digit(chars[k]) \in {0, 1}
  BY DEF Digit
<1>4. f[n] < Shifted(n)
  <2> DEFINE T == {k \in 0 .. n : f[k] < Shifted(k)}
  <2>1. T \subseteq 0 .. n /\ 0 \in T
    <3>1. Shifted(0) = 1
      BY ShiftedOn
    <3>2. QED BY <1>2, <3>1
  <2>2. \A k \in 1 .. n : k - 1 \in T => k \in T
    <3> SUFFICES ASSUME NEW k \in 1 .. n, f[k - 1] < Shifted(k - 1) PROVE f[k] < Shifted(k)
      OBVIOUS
    <3>1. k - 1 \in Nat /\ (k - 1) + 1 = k
      OBVIOUS
    <3>2. Shifted(k - 1) \in Nat /\ Shifted(k) = 2 * Shifted(k - 1)
      BY <3>1, ShiftedOn
    <3>3. f[k] = 2 * f[k - 1] + Digit(chars[k]) /\ Digit(chars[k]) \in {0, 1} /\ f[k - 1] \in Nat
      BY <1>2, <1>3
    <3>4. QED BY <3>2, <3>3
  <2>3. T = 0 .. n
    <3> HIDE DEF T
    <3>1. QED BY <2>1, <2>2, StepByStep
  <2>4. n \in 0 .. n
    OBVIOUS
  <2>5. QED BY <2>3, <2>4
<1>5. PICK v \in Nat : v = f[n]
  OBVIOUS
<1>6. ASSUME NEW k \in 0 .. n PROVE Half(v, k) = f[n - k]
  <2> DEFINE T == {j \in 0 .. n : Half(v, j) = f[n - j]}
  <2>1. T \subseteq 0 .. n /\ 0 \in T
    BY <1>5, HalfOn
  <2>2. \A j \in 1 .. n : j - 1 \in T => j \in T
    <3> SUFFICES ASSUME NEW j \in 1 .. n, Half(v, j - 1) = f[n - (j - 1)] PROVE Half(v, j) = f[n - j]
      OBVIOUS
    <3>1. j - 1 \in Nat /\ (j - 1) + 1 = j
      OBVIOUS
    <3>2. Half(v, j) = Half(v, j - 1) \div 2
      BY <3>1, HalfOn
    <3>3. PICK i \in 1 .. n : i = n - (j - 1) /\ i - 1 = n - j
      OBVIOUS
    <3>4. f[i] = 2 * f[i - 1] + Digit(chars[i]) /\ Digit(chars[i]) \in {0, 1} /\ f[i - 1] \in Nat
      BY <1>2, <1>3
    <3>5. f[i] \div 2 = f[i - 1]
      BY <3>4, Halving
    <3>6. QED BY <3>2, <3>3, <3>5
  <2>3. T = 0 .. n
    <3> HIDE DEF T
    <3>1. QED BY <2>1, <2>2, StepByStep
  <2>4. QED BY <2>3
<1>7. ASSUME NEW pos \in 1 .. n PROVE Digit(chars[pos]) = Half(v, n - pos) % 2
  <2>1. n - pos \in 0 .. n /\ n - (n - pos) = pos
    OBVIOUS
  <2>2. Half(v, n - pos) = f[pos]
    BY <1>6, <2>1
  <2>3. f[pos] = 2 * f[pos - 1] + Digit(chars[pos]) /\ Digit(chars[pos]) \in {0, 1} /\ f[pos - 1] \in Nat
    BY <1>2, <1>3
  <2>4. f[pos] % 2 = Digit(chars[pos])
    BY <2>3, Halving
  <2>5. QED BY <2>2, <2>4
<1>8. str_to_bin(chars) \in 0 .. Shifted(n) - 1
  BY <1>1, <1>4, ShiftedOn
<1>9. QED BY <1>1, <1>5, <1>7, <1>8

\* A string of the digits of a number spells it.
LEMMA SpelledFromDigits ==
  ASSUME NEW n \in Nat, NEW adr \in 0 .. Shifted(n) - 1, NEW chars \in [1 .. n -> {"0", "1"}],
         \A pos \in 1 .. n : Digit(chars[pos]) = Half(adr, n - pos) % 2
  PROVE  str_to_bin(chars) = adr
<1>1. PICK f \in [0 .. n -> Nat] : Spells(f, chars, n) /\ str_to_bin(chars) = f[n]
  BY BinarySpells
<1>2. f[0] = 0 /\ \A k \in 1 .. n : f[k] = 2 * f[k - 1] + Digit(chars[k])
  BY <1>1 DEF Spells
<1>3. adr \in Nat /\ adr < Shifted(n) /\ Shifted(n) \in Nat
  BY ShiftedOn
<1>4. Half(adr, n) = 0
  <2> DEFINE T == {k \in 0 .. n : Half(adr, k) < Shifted(n - k)}
  <2>1. T \subseteq 0 .. n /\ 0 \in T
    BY <1>3, HalfOn
  <2>2. \A k \in 1 .. n : k - 1 \in T => k \in T
    <3> SUFFICES ASSUME NEW k \in 1 .. n, Half(adr, k - 1) < Shifted(n - (k - 1))
                 PROVE  Half(adr, k) < Shifted(n - k)
      OBVIOUS
    <3>1. k - 1 \in Nat /\ (k - 1) + 1 = k /\ n - k \in Nat /\ n - (k - 1) = (n - k) + 1
      OBVIOUS
    <3>2. Half(adr, k - 1) \in Nat /\ Half(adr, k) = Half(adr, k - 1) \div 2
      BY <1>3, <3>1, HalfOn
    <3>3. Shifted(n - k) \in Nat /\ Shifted(n - (k - 1)) = 2 * Shifted(n - k)
      BY <3>1, ShiftedOn
    <3>4. Half(adr, k - 1) < 2 * Shifted(n - k)
      BY <3>3
    <3>5. QED BY <3>2, <3>3, <3>4, HalfBelow
  <2>3. T = 0 .. n
    <3> HIDE DEF T
    <3>1. QED BY <2>1, <2>2, StepByStep
  <2>4. n \in 0 .. n /\ n - n = 0
    OBVIOUS
  <2>5. Half(adr, n) < Shifted(0)
    BY <2>3, <2>4
  <2>6. Half(adr, n) \in Nat /\ Shifted(0) = 1
    BY <1>3, HalfOn, ShiftedOn
  <2>7. QED BY <2>5, <2>6
<1>5. f[n] = Half(adr, n - n)
  <2> DEFINE T == {k \in 0 .. n : f[k] = Half(adr, n - k)}
  <2>1. T \subseteq 0 .. n /\ 0 \in T
    BY <1>2, <1>4
  <2>2. \A k \in 1 .. n : k - 1 \in T => k \in T
    <3> SUFFICES ASSUME NEW k \in 1 .. n, f[k - 1] = Half(adr, n - (k - 1))
                 PROVE  f[k] = Half(adr, n - k)
      OBVIOUS
    <3>1. n - k \in Nat /\ n - (k - 1) = (n - k) + 1
      OBVIOUS
    <3>2. Half(adr, n - k) \in Nat /\ f[k - 1] = Half(adr, n - k) \div 2
      BY <1>3, <3>1, HalfOn
    <3>3. f[k] = 2 * f[k - 1] + Digit(chars[k]) /\ Digit(chars[k]) = Half(adr, n - k) % 2
      BY <1>2
    <3>4. PICK h \in Nat : h = Half(adr, n - k)
      BY <3>2
    <3>5. f[k] = 2 * (h \div 2) + (h % 2)
      <4>1. PICK d : d = Digit(chars[k])
        OBVIOUS
      <4>2. f[k] = 2 * f[k - 1] + d /\ d = h % 2 /\ f[k - 1] = h \div 2
        BY <3>2, <3>3, <3>4, <4>1
      <4>3. QED BY <4>2
    <3>6. QED BY <3>4, <3>5, HalfAndRest
  <2>3. T = 0 .. n
    <3> HIDE DEF T
    <3>1. QED BY <2>1, <2>2, StepByStep
  <2>4. n \in 0 .. n
    OBVIOUS
  <2>5. QED BY <2>3, <2>4
<1>6. n - n = 0
  OBVIOUS
<1>7. QED BY <1>1, <1>3, <1>5, <1>6, HalfOn
-------------------------------------------------------------------------------
(***************************************************************************)
(* The words of the image.                                                 *)
(***************************************************************************)
WordBits == 0 .. 63

\* The control lines, when no bit is active high under one name and low under another.
Controls ==
  /\ \A n \in DOMAIN control_lines :
       control_lines[n].position \in WordBits /\ control_lines[n].active_level \in BOOLEAN
  /\ \A n, o \in DOMAIN control_lines :
       control_lines[n].position = control_lines[o].position =>
         control_lines[n].active_level = control_lines[o].active_level

Drives(bit, S) == \E s \in S : control_lines[s].position = bit
LitBy(bit, S) ==
  \E n \in DOMAIN control_lines :
    control_lines[n].position = bit /\ (control_lines[n].active_level <=> Drives(bit, S))

LEMMA DriveLights ==
  ASSUME Controls, NEW S \in SUBSET DOMAIN control_lines, NEW name \in DOMAIN control_lines,
         NEW word, word = {bit \in WordBits : LitBy(bit, S)}
  PROVE  Drive(word, name) = {bit \in WordBits : LitBy(bit, S \union {name})}
<1> DEFINE at == control_lines[name].position
<1>1. at \in WordBits /\ control_lines[name].active_level \in BOOLEAN
  BY DEF Controls
<1>2. ASSUME NEW bit \in WordBits, bit # at PROVE LitBy(bit, S) <=> LitBy(bit, S \union {name})
  <2>1. Drives(bit, S) <=> Drives(bit, S \union {name})
    BY <1>2 DEF Drives
  <2>2. QED BY <2>1 DEF LitBy
<1>3. LitBy(at, S \union {name}) <=> control_lines[name].active_level
  <2>1. Drives(at, S \union {name})
    BY DEF Drives
  <2>2. ASSUME NEW n \in DOMAIN control_lines, control_lines[n].position = at
        PROVE  control_lines[n].active_level = control_lines[name].active_level
    BY <2>2 DEF Controls
  <2>3. QED BY <2>1, <2>2 DEF LitBy
<1>4. CASE control_lines[name].active_level
  <2>1. Drive(word, name) = word \union {at}
    BY <1>4 DEF Drive
  <2>2. ASSUME NEW bit \in WordBits
        PROVE  bit \in word \union {at} <=> LitBy(bit, S \union {name})
    BY <1>2, <1>3, <1>4
  <2> HIDE DEF at
  <2>3. QED BY <1>1, <2>1, <2>2
<1>5. CASE ~ control_lines[name].active_level
  <2>1. Drive(word, name) = word \ {at}
    BY <1>5 DEF Drive
  <2>2. ASSUME NEW bit \in WordBits
        PROVE  bit \in word \ {at} <=> LitBy(bit, S \union {name})
    BY <1>2, <1>3, <1>5
  <2> HIDE DEF at
  <2>3. QED BY <1>1, <2>1, <2>2
<1>6. QED BY <1>1, <1>4, <1>5

LEMMA DefaultLights ==
  ASSUME Controls
  PROVE  get_default_word = {bit \in WordBits : LitBy(bit, {})}
<1>1. ASSUME NEW bit PROVE ~ Drives(bit, {})
  BY DEF Drives
<1>2. ASSUME NEW bit \in WordBits PROVE bit \in get_default_word <=> LitBy(bit, {})
  <2>1. bit \in get_default_word <=>
          \E n \in DOMAIN control_lines :
            ~ control_lines[n].active_level /\ control_lines[n].position = bit
    BY DEF get_default_word
  <2>2. QED BY <1>1, <2>1 DEF LitBy, Controls
<1>3. get_default_word \subseteq WordBits
  BY DEF get_default_word, Controls
<1>4. QED BY <1>2, <1>3

\* A word has the bits that the signals of its line, and their absence, put into it.
LEMMA WordLights ==
  ASSUME Controls, NEW names, IsSequence(names), Range(names) \subseteq DOMAIN control_lines
  PROVE  CompiledWord(names) = {bit \in WordBits : LitBy(bit, Range(names))}
<1> DEFINE n == Len(names)
           First(k) == {names[l] : l \in 1 .. k}
           step == [k \in 1 .. n |-> [w \in SUBSET WordBits |-> Drive(w, names[k])]]
<1>1. n \in Nat /\ DOMAIN names = 1 .. n
  BY SequenceParts
<1>2. \A k \in 1 .. n : names[k] \in DOMAIN control_lines
  BY <1>1 DEF Range
<1>3. get_default_word \in SUBSET WordBits
  BY DefaultLights
<1> HIDE DEF n
<1>4. \E f \in [0 .. n -> SUBSET WordBits] : Iterates(f, get_default_word, step, n)
  <2>1. ASSUME NEW k \in 1 .. n, NEW w \in SUBSET WordBits PROVE Drive(w, names[k]) \in SUBSET WordBits
    BY <1>2 DEF Drive, Controls
  <2>2. step \in [1 .. n -> [SUBSET WordBits -> SUBSET WordBits]]
    BY <2>1
  <2> HIDE DEF step
  <2>3. QED BY <1>1, <1>3, <2>2, IterationExists
<1>5. PICK f \in [0 .. n -> SUBSET WordBits] : Iterates(f, get_default_word, step, n)
  BY <1>4
<1> DEFINE Rule(g) == [k \in 0 .. n |-> IF k = 0 THEN get_default_word ELSE Drive(g[k - 1], names[k])]
<1>6. f = Rule(f)
  <2>1. ASSUME NEW k \in 0 .. n
        PROVE  f[k] = IF k = 0 THEN get_default_word ELSE Drive(f[k - 1], names[k])
    <3>1. f[k] = IF k = 0 THEN get_default_word ELSE step[k][f[k - 1]]
      BY <1>5 DEF Iterates
    <3>2. k # 0 => k \in 1 .. n /\ f[k - 1] \in SUBSET WordBits
      BY <1>1
    <3>3. QED BY <3>1, <3>2
  <2>2. f = [k \in 0 .. n |-> f[k]]
    OBVIOUS
  <2> HIDE DEF step
  <2>3. QED BY <2>1, <2>2
<1> DEFINE c == CHOOSE g : g = Rule(g)
<1>7. c = Rule(c)
  BY <1>6
<1>8. CompiledWord(names) = c[n]
  BY DEF CompiledWord, n
<1> HIDE DEF c, step
<1>9. c[0] = get_default_word /\ \A k \in 1 .. n : c[k] = Drive(c[k - 1], names[k])
  BY <1>1, <1>7
<1> DEFINE T == {k \in 0 .. n : c[k] = {bit \in WordBits : LitBy(bit, First(k))}}
<1>10. T \subseteq 0 .. n /\ 0 \in T
  <2>1. First(0) = {}
    OBVIOUS
  <2>2. c[0] = {bit \in WordBits : LitBy(bit, First(0))}
    BY <1>9, <2>1, DefaultLights
  <2>3. 0 \in 0 .. n
    BY <1>1
  <2> HIDE DEF First
  <2>4. QED BY <2>2, <2>3
<1>11. \A k \in 1 .. n : k - 1 \in T => k \in T
  <2> SUFFICES ASSUME NEW k \in 1 .. n, c[k - 1] = {bit \in WordBits : LitBy(bit, First(k - 1))}
               PROVE  c[k] = {bit \in WordBits : LitBy(bit, First(k))}
    <3>1. \A k \in 1 .. n : k \in 0 .. n
      BY <1>1
    <3> HIDE DEF First
    <3>2. QED BY <3>1
  <2>1. First(k) = First(k - 1) \union {names[k]}
    <3>1. \A l : l \in 1 .. k <=> l \in 1 .. k - 1 \/ l = k
      BY <1>1
    <3>2. QED BY <3>1
  <2>2. First(k - 1) \subseteq DOMAIN control_lines
    BY <1>1, <1>2
  <2>3. PICK S \in SUBSET DOMAIN control_lines : S = First(k - 1)
    BY <2>2
  <2>4. Drive(c[k - 1], names[k]) = {bit \in WordBits : LitBy(bit, S \union {names[k]})}
    <3>1. c[k - 1] = {bit \in WordBits : LitBy(bit, S)}
      BY <2>3
    <3>2. QED BY <1>2, <3>1, DriveLights
  <2>5. QED BY <1>9, <2>1, <2>3, <2>4
<1>12. T = 0 .. n
  <2> HIDE DEF T
  <2>1. QED BY <1>1, <1>10, <1>11, StepByStep
<1>13. n \in 0 .. n
  BY <1>1
<1>14. c[n] = {bit \in WordBits : LitBy(bit, First(n))}
  BY <1>12, <1>13
<1>15. First(n) = Range(names)
  BY <1>1 DEF Range
<1>16. QED BY <1>8, <1>14, <1>15
-------------------------------------------------------------------------------
(***************************************************************************)
(* The characters of a line.                                               *)
(***************************************************************************)
\* Two that flatten the same pieces agree as far as both go.
LEMMA FlatAgrees ==
  ASSUME NEW n \in Nat, NEW m \in 0 .. n, NEW g, NEW h, \A k \in 1 .. m : g[k] = h[k],
         NEW e, IsFlat(e, g, n), NEW f, IsFlat(f, h, m)
  PROVE  \A k \in 1 .. m : e[k] = f[k]
<1> DEFINE T == {k \in 0 .. m : k = 0 \/ e[k] = f[k]}
<1>0. m \in Nat /\ \A k \in 1 .. m : k \in 1 .. n
  OBVIOUS
<1>1. /\ \A k \in 1 .. m : e[k] = IF k = 1 THEN g[k] ELSE e[k - 1] \o g[k]
      /\ \A k \in 1 .. m : f[k] = IF k = 1 THEN h[k] ELSE f[k - 1] \o h[k]
  <2>1. \A k \in 1 .. n : e[k] = IF k = 1 THEN g[k] ELSE e[k - 1] \o g[k]
    BY DEF IsFlat
  <2>2. \A k \in 1 .. m : f[k] = IF k = 1 THEN h[k] ELSE f[k - 1] \o h[k]
    BY DEF IsFlat
  <2>3. QED BY <1>0, <2>1, <2>2
<1>2. T \subseteq 0 .. m /\ 0 \in T
  OBVIOUS
<1>3. \A k \in 1 .. m : k - 1 \in T => k \in T
  BY <1>1
<1>4. T = 0 .. m
  <2> HIDE DEF T
  <2>1. QED BY <1>0, <1>2, <1>3, StepByStep
<1>5. QED BY <1>4

LEMMA JoinedRange ==
  ASSUME NEW s, IsSequence(s), NEW t, IsSequence(t)
  PROVE  Range(s \o t) = Range(s) \union Range(t)
<1> DEFINE u == s \o t
<1>1. IsSequence(u) /\ IsJoined(u, s, t)
  BY JoinedParts DEF IsJoined
<1>2. /\ Len(s) \in Nat /\ Len(t) \in Nat /\ DOMAIN s = 1 .. Len(s) /\ DOMAIN t = 1 .. Len(t)
      /\ DOMAIN u = 1 .. Len(u) /\ Len(u) = Len(s) + Len(t)
  BY <1>1, SequenceParts DEF IsJoined
<1>3. (\A i \in 1 .. Len(s) : u[i] = s[i]) /\ (\A i \in 1 .. Len(t) : u[Len(s) + i] = t[i])
  BY <1>1 DEF IsJoined
<1> HIDE DEF u
<1>4. Range(s) \subseteq Range(u) /\ Range(t) \subseteq Range(u)
  <2>1. \A i \in 1 .. Len(s) : i \in 1 .. Len(u)
    BY <1>2
  <2>2. \A i \in 1 .. Len(t) : Len(s) + i \in 1 .. Len(u)
    BY <1>2
  <2>3. QED BY <1>2, <1>3, <2>1, <2>2 DEF Range
<1>5. Range(u) \subseteq Range(s) \union Range(t)
  <2> SUFFICES ASSUME NEW i \in 1 .. Len(u) PROVE u[i] \in Range(s) \union Range(t)
    BY <1>2 DEF Range
  <2>1. CASE i \in 1 .. Len(s)
    BY <1>2, <1>3, <2>1 DEF Range
  <2>2. CASE i \notin 1 .. Len(s)
    <3>1. PICK j \in 1 .. Len(t) : i = Len(s) + j
      <4>1. i - Len(s) \in 1 .. Len(t) /\ i = Len(s) + (i - Len(s))
        BY <1>2, <2>2
      <4>2. QED BY <4>1
    <3>2. QED BY <1>2, <1>3, <3>1 DEF Range
  <2>3. QED BY <2>1, <2>2
<1>6. QED BY <1>4, <1>5 DEF u

\* What pieces put together hold is what the pieces hold.
LEMMA FlatPieces ==
  ASSUME NEW g, IsSequence(g), \A k \in DOMAIN g : IsSequence(g[k])
  PROVE  /\ IsSequence(FlattenSeq(g))
         /\ Range(FlattenSeq(g)) = UNION {Range(g[k]) : k \in DOMAIN g}
<1>1. PICK n \in Nat : n = Len(g) /\ DOMAIN g = 1 .. n
  BY SequenceParts
<1>2. CASE n = 0
  <2>1. FlattenSeq(g) = g
    BY <1>1, <1>2 DEF FlattenSeq
  <2>2. DOMAIN g = {}
    BY <1>1, <1>2
  <2>3. QED BY <2>1, <2>2 DEF Range
<1>3. CASE n # 0
  <2>1. PICK flat : IsFlat(flat, g, n) /\ FlattenSeq(g) = flat[n]
    BY <1>1, <1>3, Flattened
  <2>2. InOrder(flat, g, n)
    BY <1>1, <1>3, <2>1, PiecesLie
  <2> DEFINE T == {k \in 0 .. n : Range(Ahead(flat, k)) = UNION {Range(g[l]) : l \in 1 .. k}}
  <2>3. T \subseteq 0 .. n /\ 0 \in T
    BY DEF Ahead, Range
  <2>4. \A k \in 1 .. n : k - 1 \in T => k \in T
    <3> SUFFICES ASSUME NEW k \in 1 .. n,
                        Range(Ahead(flat, k - 1)) = UNION {Range(g[l]) : l \in 1 .. k - 1}
                 PROVE  Range(Ahead(flat, k)) = UNION {Range(g[l]) : l \in 1 .. k}
      OBVIOUS
    <3>1. k - 1 \in 0 .. n
      OBVIOUS
    <3>2. PICK b : b = Ahead(flat, k - 1) /\ IsSequence(b)
      BY <2>2, <3>1 DEF InOrder
    <3>3. IsSequence(g[k]) /\ Ahead(flat, k) = b \o g[k]
      BY <1>1, <2>2, <3>2 DEF InOrder
    <3>4. Range(Ahead(flat, k)) = Range(b) \union Range(g[k])
      BY <3>2, <3>3, JoinedRange
    <3>5. \A l : l \in 1 .. k <=> l \in 1 .. k - 1 \/ l = k
      OBVIOUS
    <3>6. QED BY <3>2, <3>4, <3>5
  <2>5. T = 0 .. n
    <3> HIDE DEF T
    <3>1. QED BY <2>3, <2>4, StepByStep
  <2>6. Ahead(flat, n) = flat[n] /\ n \in 0 .. n
    BY <1>3 DEF Ahead
  <2>7. IsSequence(flat[n]) /\ Range(flat[n]) = UNION {Range(g[l]) : l \in 1 .. n}
    BY <2>2, <2>5, <2>6 DEF InOrder
  <2>8. QED BY <1>1, <2>1, <2>7
<1>4. QED BY <1>2, <1>3

\* Each word of a line makes what is strung together longer.
LEMMA CharsGrow ==
  ASSUME NEW w, IsSequence(w), Range(w) \subseteq DOMAIN CharsOf
  PROVE  LET C(cnt) == FlattenSeq([k \in 1 .. cnt |-> CharsOf[w[k]]])
         IN  /\ \A a \in 1 .. Len(w) : IsSequence(C(a))
             /\ \A a, b \in 1 .. Len(w) : a < b => Len(C(a)) < Len(C(b))
<1> DEFINE C(cnt) == FlattenSeq([k \in 1 .. cnt |-> CharsOf[w[k]]])
           g == [k \in 1 .. Len(w) |-> CharsOf[w[k]]]
<1>1. PICK n \in Nat : n = Len(w) /\ DOMAIN w = 1 .. n
  BY SequenceParts
<1>2. ASSUME NEW k \in 1 .. n PROVE IsSequence(g[k]) /\ Len(g[k]) \in Nat /\ Len(g[k]) > 0
  <2>1. w[k] \in DOMAIN CharsOf
    BY <1>1 DEF Range
  <2>2. PICK c : c = CharsOf[w[k]] /\ c \in Seq(Range(c)) /\ c # <<>>
    BY <2>1, WordAssumption
  <2>3. PICK S : c \in Seq(S)
    BY <2>2
  <2>4. Len(c) \in Nat /\ (Len(c) = 0 => c = <<>>)
    BY <2>3, EmptySeq
  <2>5. Len(c) \in Nat /\ Len(c) > 0
    BY <2>2, <2>4
  <2>6. QED BY <1>1, <2>2, <2>3, <2>5 DEF IsSequence
<1>3. CASE n = 0
  BY <1>1, <1>3
<1>4. CASE n # 0
  <2>1. PICK flat : IsFlat(flat, g, n)
    BY FlatExists
  <2>2. InOrder(flat, g, n)
    <3> HIDE DEF g
    <3>1. QED BY <1>2, <1>4, <2>1, PiecesLie
  <2>3. ASSUME NEW a \in 1 .. n PROVE C(a) = flat[a] /\ Ahead(flat, a) = flat[a]
    <3> DEFINE h == [k \in 1 .. a |-> CharsOf[w[k]]]
    <3>1. h \in Seq(Range(h))
      BY DEF Range
    <3>2. Len(h) = a /\ a \in Nat /\ a # 0
      OBVIOUS
    <3>3. \A k \in 1 .. a : g[k] = h[k]
      BY <1>1
    <3>4. C(a) = FlattenSeq(h)
      OBVIOUS
    <3> HIDE DEF h, g, C
    <3>5. PICK f : IsFlat(f, h, a) /\ FlattenSeq(h) = f[a]
      BY <3>2, Flattened
    <3>6. a \in 0 .. n /\ a \in 1 .. a
      OBVIOUS
    <3>7. flat[a] = f[a]
      BY <2>1, <3>3, <3>5, <3>6, FlatAgrees
    <3>8. QED BY <3>2, <3>4, <3>5, <3>7 DEF Ahead
  <2>4. ASSUME NEW k \in 1 .. n
        PROVE  /\ IsSequence(Ahead(flat, k)) /\ Len(Ahead(flat, k)) \in Nat
               /\ k > 1 => Len(Ahead(flat, k)) > Len(Ahead(flat, k - 1)) /\ Len(Ahead(flat, k - 1)) \in Nat
    <3>1. k - 1 \in 0 .. n /\ k \in 0 .. n
      OBVIOUS
    <3>2. PICK b : b = Ahead(flat, k - 1) /\ IsSequence(b)
      BY <2>2, <3>1 DEF InOrder
    <3>3. PICK u : u = Ahead(flat, k) /\ IsSequence(u) /\ u = b \o g[k]
      BY <2>2, <3>1, <3>2 DEF InOrder
    <3> HIDE DEF g
    <3>4. Len(u) = Len(b) + Len(g[k]) /\ Len(b) \in Nat
      BY <1>2, <3>2, <3>3, JoinedParts, SequenceParts DEF IsJoined
    <3>5. IsSequence(g[k]) /\ Len(g[k]) \in Nat /\ Len(g[k]) > 0
      BY <1>2
    <3>6. Len(u) \in Nat /\ Len(u) > Len(b)
      BY <3>4, <3>5
    <3>7. QED BY <3>2, <3>3, <3>4, <3>6
  <2>5. ASSUME NEW a \in 1 .. n, NEW b \in 1 .. n, a < b
        PROVE  Len(Ahead(flat, a)) < Len(Ahead(flat, b))
    <3> DEFINE T == {k \in 0 .. b : k > a => Len(Ahead(flat, a)) < Len(Ahead(flat, k))}
    <3>1. T \subseteq 0 .. b /\ 0 \in T
      BY <2>5
    <3>2. \A k \in 1 .. b : k - 1 \in T => k \in T
      <4> SUFFICES ASSUME NEW k \in 1 .. b, k - 1 \in T, k > a
                   PROVE  Len(Ahead(flat, a)) < Len(Ahead(flat, k))
        OBVIOUS
      <4>1. k \in 1 .. n /\ k > 1 /\ k - 1 >= a
        OBVIOUS
      <4>2. /\ Len(Ahead(flat, k)) \in Nat /\ Len(Ahead(flat, k - 1)) \in Nat /\ Len(Ahead(flat, a)) \in Nat
            /\ Len(Ahead(flat, k)) > Len(Ahead(flat, k - 1))
        BY <2>4, <4>1
      <4>3. CASE k - 1 = a
        BY <4>2, <4>3
      <4>4. CASE k - 1 # a
        <5>1. k - 1 > a
          BY <4>1, <4>4
        <5>2. Len(Ahead(flat, a)) < Len(Ahead(flat, k - 1))
          BY <5>1
        <5>3. QED BY <4>2, <5>2
      <4>5. QED BY <4>3, <4>4
    <3>3. T = 0 .. b
      <4>1. b \in Nat
        OBVIOUS
      <4> HIDE DEF T
      <4>2. QED BY <3>1, <3>2, <4>1, StepByStep
    <3>4. b \in 0 .. b
      OBVIOUS
    <3>5. QED BY <2>5, <3>3, <3>4
  <2> HIDE DEF C
  <2>6. \A a \in 1 .. n : IsSequence(C(a))
    BY <2>3, <2>4
  <2>7. \A a, b \in 1 .. n : a < b => Len(C(a)) < Len(C(b))
    BY <2>3, <2>5
  <2>8. QED BY <1>1, <2>6, <2>7 DEF C
<1>5. QED BY <1>3, <1>4
-------------------------------------------------------------------------------
(***************************************************************************)
(* The meaning of a source does not change while it is compiled, and grows *)
(* line by line.                                                           *)
(***************************************************************************)
LEMMA SameLines ==
  ASSUME source' = source
  PROVE  /\ End' = End
         /\ \A i : Bracket(i)' <=> Bracket(i)
         /\ \A i : SectionOf(i)' = SectionOf(i)
         /\ \A i : WellShapedLine(i)' <=> WellShapedLine(i)
         /\ \A name, i : LinesIn(name, i)' = LinesIn(name, i)
         /\ \A key, i : Setting(key, i)' = Setting(key, i)
         /\ \A i : Names(i)' = Names(i)
         /\ \A i : Aliases(i)' = Aliases(i)
BY DEF End, Bracket, SectionOf, WellShapedLine, LinesIn, Definitions, Setting, Names, Aliases

LEMMA SameCode ==
  ASSUME source' = source
  PROVE  /\ Code' = Code /\ Width' = Width /\ Addresses' = Addresses
         /\ \A i : AddressEnds(i)' = AddressEnds(i)
         /\ \A i : Signals(i)' = Signals(i)
         /\ \A i : Named(i)' = Named(i)
         /\ \A i : Pattern(i)' = Pattern(i)
<1>1. \A i : AddressEnds(i)' = AddressEnds(i)
  BY SameLines DEF AddressEnds, Chars
<1>2. \A i : Signals(i)' = Signals(i)
  BY <1>1 DEF Signals
<1>3. \A i : Named(i)' = Named(i)
  <2>1. \A word, i : Stands(word, i)' = Stands(word, i)
    BY SameLines DEF Stands, Definitions
  <2>2. QED BY <1>2, <2>1 DEF Named
<1>4. \A i : Pattern(i)' = Pattern(i)
  BY <1>1 DEF Pattern, Chars
<1>5. Code' = Code /\ Width' = Width
  BY SameLines DEF Code, Width
<1>6. QED BY <1>1, <1>2, <1>3, <1>4, <1>5 DEF Addresses

LEMMA SameMeaning ==
  ASSUME source' = source
  PROVE  /\ \A i, pos : Giver(i, pos)' = Giver(i, pos)
         /\ \A i, pos : CharAt(i, pos)' = CharAt(i, pos)
         /\ \A i, adr : Covers(i, adr)' <=> Covers(i, adr)
         /\ \A n : Position(n)' = Position(n)
         /\ \A n : ActiveHigh(n)' <=> ActiveHigh(n)
         /\ Plain' <=> Plain
         /\ WellShaped' <=> WellShaped
         /\ WellFormed' <=> WellFormed
<1>1. \A i, pos : Giver(i, pos)' = Giver(i, pos)
  BY SameCode DEF Giver
<1>2. \A i, pos : CharAt(i, pos)' = CharAt(i, pos)
  BY <1>1, SameCode DEF CharAt
<1>3. \A i, adr : Covers(i, adr)' <=> Covers(i, adr)
  BY <1>2, SameCode DEF Covers, BitAt
<1>4. (\A n : Position(n)' = Position(n)) /\ (\A n : ActiveHigh(n)' <=> ActiveHigh(n))
  BY SameLines DEF Position, ActiveHigh, Definition, Definitions
<1>5. Plain' <=> Plain
  BY <1>4, SameLines, SameCode DEF Plain
<1>6. WellShaped' <=> WellShaped
  BY SameLines DEF WellShaped
<1>7. WellFormed' <=> WellFormed
  <2>1. \A i : WellFormedCode(i)' <=> WellFormedCode(i)
    BY <1>1, <1>2, SameLines, SameCode DEF WellFormedCode
  <2>2. QED BY <1>3, <2>1, SameCode DEF WellFormed
<1>8. QED BY <1>1, <1>2, <1>3, <1>4, <1>5, <1>6, <1>7

\* The last of some numbers.
LEMMA LastOne ==
  ASSUME NEW n \in Nat, NEW T, T \subseteq 0 .. n, T # {}
  PROVE  Max(T) \in T /\ \A x \in T : x <= Max(T)
<1> DEFINE U == {d \in 0 .. n : n - d \in T}
<1>1. U \subseteq Nat
  OBVIOUS
<1>2. U # {}
  <2>1. PICK x \in T : x \in 0 .. n
    OBVIOUS
  <2>2. n - x \in 0 .. n /\ n - (n - x) = x
    BY <2>1
  <2>3. QED BY <2>1, <2>2
<1>3. PICK d \in U : \A e \in U : d <= e
  <2> HIDE DEF U
  <2>1. QED BY <1>1, <1>2, LeastNatural
<1>4. \A x \in T : n - d >= x
  <2> SUFFICES ASSUME NEW x \in T PROVE n - d >= x
    OBVIOUS
  <2>1. x \in 0 .. n /\ n - x \in 0 .. n /\ n - (n - x) = x
    OBVIOUS
  <2>2. d <= n - x
    BY <1>3, <2>1
  <2>3. QED BY <1>3, <2>1, <2>2
<1>5. n - d \in T
  BY <1>3
<1>6. Max(T) \in T /\ \A x \in T : Max(T) >= x
  BY <1>4, <1>5 DEF Max
<1>7. T \subseteq Int
  OBVIOUS
<1>8. QED BY <1>6, <1>7

LEMMA LastIs ==
  ASSUME NEW n \in Nat, NEW T, T \subseteq 0 .. n, NEW m \in T, \A x \in T : x <= m
  PROVE  Max(T) = m
<1>1. Max(T) \in T /\ \A x \in T : x <= Max(T)
  BY LastOne
<1>2. PICK x : x = Max(T)
  OBVIOUS
<1>3. x \in T /\ m <= x /\ x <= m
  BY <1>1, <1>2
<1>4. x \in 0 .. n /\ m \in 0 .. n
  BY <1>3
<1>5. QED BY <1>2, <1>3, <1>4

\* The first.
LEMMA FirstOne ==
  ASSUME NEW T, T \subseteq Nat, T # {}
  PROVE  Min(T) \in T /\ \A x \in T : Min(T) <= x
BY LeastNatural DEF Min

LEMMA FirstIs ==
  ASSUME NEW T, T \subseteq Nat, NEW m \in T, \A x \in T : m <= x
  PROVE  Min(T) = m
<1>1. Min(T) \in T /\ \A x \in T : Min(T) <= x
  BY FirstOne
<1>2. PICK x : x = Min(T)
  OBVIOUS
<1>3. x \in T /\ m <= x /\ x <= m
  BY <1>1, <1>2
<1>4. x \in Nat /\ m \in Nat
  BY <1>3
<1>5. QED BY <1>2, <1>3, <1>4

-------------------------------------------------------------------------------
\* A line is a sequence of words, and has a first one.
LEMMA LinesHaveWords ==
  ASSUME source \in Sources
  PROVE  /\ Len(source) \in Nat /\ DOMAIN source = 1 .. Len(source) /\ End = Len(source) + 1
         /\ \A i \in 1 .. Len(source) :
              /\ source[i] \in Seq(DOMAIN CharsOf) /\ IsSequence(source[i])
              /\ Len(source[i]) \in Nat \ {0} /\ DOMAIN source[i] = 1 .. Len(source[i])
<1>1. source \in Seq(Seq(DOMAIN CharsOf) \ {<<>>})
  BY WordAssumption
<1>2. Len(source) \in Nat /\ DOMAIN source = 1 .. Len(source)
  BY <1>1
<1>3. ASSUME NEW i \in 1 .. Len(source)
      PROVE  /\ source[i] \in Seq(DOMAIN CharsOf) /\ IsSequence(source[i])
             /\ Len(source[i]) \in Nat \ {0} /\ DOMAIN source[i] = 1 .. Len(source[i])
  <2>1. PICK w : w = source[i] /\ w \in Seq(DOMAIN CharsOf) /\ w # <<>>
    BY <1>1
  <2>2. Len(w) \in Nat /\ DOMAIN w = 1 .. Len(w) /\ (Len(w) = 0 => w = <<>>)
    BY <2>1, EmptySeq
  <2>3. QED BY <2>1, <2>2 DEF IsSequence
<1>4. QED BY <1>2, <1>3 DEF End

\* A bracket opens or closes the section of the next line; any other line is of its section.
LEMMA SectionOn ==
  ASSUME NEW i \in Nat, i # 0
  PROVE  SectionOf(i + 1) = IF ~ Bracket(i) THEN SectionOf(i)
                            ELSE IF source[i][1] = "end" THEN NoSection ELSE source[i][2]
<1> DEFINE B == {j \in 1 .. i - 1 : Bracket(j)}
           C == {j \in 1 .. i : Bracket(j)}
<1>0. i + 1 - 1 = i
  OBVIOUS
<1>1. /\ SectionOf(i) = IF B = {} \/ source[Max(B)][1] = "end" THEN NoSection ELSE source[Max(B)][2]
      /\ SectionOf(i + 1) = IF C = {} \/ source[Max(C)][1] = "end" THEN NoSection ELSE source[Max(C)][2]
  BY <1>0 DEF SectionOf
<1>2. CASE ~ Bracket(i)
  <2>1. B = C
    BY <1>2
  <2> HIDE DEF B, C
  <2>2. QED BY <1>1, <1>2, <2>1
<1>3. CASE Bracket(i)
  <2>1. C \subseteq 0 .. i /\ i \in C /\ \A x \in C : x <= i
    BY <1>3
  <2> HIDE DEF B, C
  <2>2. Max(C) = i
    BY <2>1, LastIs
  <2>3. QED BY <1>1, <1>3, <2>1, <2>2
<1>4. QED BY <1>2, <1>3

LEMMA FirstSection ==
  SectionOf(1) = NoSection /\ \A name : LinesIn(name, 1) = {}
<1>1. \A j : j \notin 1 .. 1 - 1
  OBVIOUS
<1>2. QED BY <1>1 DEF SectionOf, LinesIn

LEMMA LinesOn ==
  ASSUME NEW i \in Nat, i # 0, NEW name
  PROVE  /\ LinesIn(name, i) \subseteq 1 .. i - 1
         /\ Bracket(i) \/ SectionOf(i) # name => LinesIn(name, i + 1) = LinesIn(name, i)
         /\ ~ Bracket(i) /\ SectionOf(i) = name => LinesIn(name, i + 1) = LinesIn(name, i) \union {i}
<1>1. \A j : j \in 1 .. i + 1 - 1 <=> j \in 1 .. i - 1 \/ j = i
  OBVIOUS
<1>2. QED BY <1>1 DEF LinesIn
-------------------------------------------------------------------------------
(***************************************************************************)
(* The tables: for a key that several lines define, the last one counts.   *)
(***************************************************************************)
IsTable(map, lines, key, value) ==
  /\ DOMAIN map = {key[j] : j \in lines}
  /\ \A j \in lines : (\A l \in lines : key[l] = key[j] => l <= j) => map[key[j]] = value[j]

LEMMA NoTable ==
  ASSUME NEW key, NEW value
  PROVE  IsTable(Empty, {}, key, value)
BY DEF IsTable, Empty

LEMMA TableGrows ==
  ASSUME NEW i \in Nat, i # 0, NEW map, NEW lines, lines \subseteq 1 .. i - 1, NEW key, NEW value,
         IsTable(map, lines, key, value)
  PROVE  IsTable(Insert(map, key[i], value[i]), lines \union {i}, key, value)
<1> DEFINE new == Insert(map, key[i], value[i])
<1>1. /\ DOMAIN new = DOMAIN map \union {key[i]}
      /\ \A x \in DOMAIN new : new[x] = IF x = key[i] THEN value[i] ELSE map[x]
  BY DEF Insert
<1> HIDE DEF new
<1>2. DOMAIN new = {key[j] : j \in lines \union {i}}
  BY <1>1 DEF IsTable
<1>3. ASSUME NEW j \in lines \union {i}, \A l \in lines \union {i} : key[l] = key[j] => l <= j
      PROVE  new[key[j]] = value[j]
  <2>1. key[j] \in DOMAIN new
    BY <1>2
  <2>2. CASE j = i
    BY <1>1, <2>1, <2>2
  <2>3. CASE j # i
    <3>1. j \in lines /\ ~(i <= j)
      BY <2>3
    <3>2. key[j] # key[i]
      BY <1>3, <3>1
    <3>3. map[key[j]] = value[j]
      BY <1>3, <3>1 DEF IsTable
    <3>4. QED BY <1>1, <2>1, <3>2, <3>3
  <2>4. QED BY <2>2, <2>3
<1>4. QED BY <1>2, <1>3 DEF IsTable, new

SameKey(lines, key, x) == {j \in lines : key[j] = x}

Bounded(lines) == \E n \in Nat : lines \subseteq 0 .. n

\* The last line with the key counts.
LastCounts(map, same, value, x) ==
  /\ x \in DOMAIN map <=> same # {}
  /\ same # {} => Max(same) \in same /\ map[x] = value[Max(same)]

LEMMA TableLast ==
  ASSUME NEW map, NEW lines, NEW key, NEW value, NEW x,
         Bounded(lines), IsTable(map, lines, key, value)
  PROVE  LastCounts(map, SameKey(lines, key, x), value, x)
<1>0. PICK n \in Nat : lines \subseteq 0 .. n
  BY DEF Bounded
<1> DEFINE same == SameKey(lines, key, x)
<1>1. x \in DOMAIN map <=> same # {}
  BY <1>0 DEF IsTable, SameKey
<1>2. ASSUME same # {} PROVE Max(same) \in same /\ map[x] = value[Max(same)]
  <2>1. same \subseteq 0 .. n
    BY <1>0 DEF SameKey
  <2>2. Max(same) \in same /\ \A y \in same : y <= Max(same)
    <3> HIDE DEF same
    <3>1. QED BY <1>2, <2>1, LastOne
  <2>3. PICK m : m = Max(same)
    OBVIOUS
  <2>4. m \in lines /\ key[m] = x /\ \A l \in lines : key[l] = x => l <= m
    BY <1>0, <2>2, <2>3 DEF SameKey
  <2>5. map[x] = value[m]
    BY <2>4 DEF IsTable
  <2>6. QED BY <2>2, <2>3, <2>5
<1>3. QED BY <1>0, <1>1, <1>2 DEF LastCounts

\* The words of the lines, and what the lines of each section give their keys.
Word(k) == [j \in DOMAIN source |-> source[j][k]]
Settings == [j \in DOMAIN source |-> NumberOf[source[j][2]]]
Lines == [j \in DOMAIN source |->
            [position |-> NumberOf[source[j][1]], active_level |-> source[j][2] = "H"]]
Stretches == [j \in DOMAIN source |-> Tail(source[j])]

\* The tables are those of the lines before line i, and all these have the shape of their section.
TablesRead(i) ==
  /\ \A j \in 1 .. i - 1 : WellShapedLine(j)
  /\ current_section = SectionOf(i)
  /\ IsTable(config, LinesIn("config", i), Word(1), Settings)
  /\ IsTable(control_lines, LinesIn("control_word", i), Word(3), Lines)
  /\ IsTable(alias, LinesIn("alias", i), Word(1), Stretches)

LEMMA TablesKept ==
  ASSUME UNCHANGED <<source, current_section, tables>>
  PROVE  \A i : TablesRead(i) => TablesRead(i)'
<1>1. /\ \A j : WellShapedLine(j)' <=> WellShapedLine(j)
      /\ \A i : SectionOf(i)' = SectionOf(i)
      /\ \A name, i : LinesIn(name, i)' = LinesIn(name, i)
  BY SameLines
<1>2. \A k : Word(k)' = Word(k)
  BY DEF Word
<1>3. Settings' = Settings /\ Lines' = Lines /\ Stretches' = Stretches
  BY DEF Settings, Lines, Stretches
<1>4. QED BY <1>1, <1>2, <1>3 DEF TablesRead, tables

-------------------------------------------------------------------------------
\* A line read before the i-th has the words its section asks for.
LEMMA LineOfSection ==
  ASSUME source \in Sources, NEW i \in 1 .. End, TablesRead(i), NEW name, NEW j \in LinesIn(name, i)
  PROVE  /\ j \in 1 .. Len(source) /\ j < i /\ j \in DOMAIN source
         /\ name = "config" => Len(source[j]) >= 2 /\ source[j][2] \in DOMAIN NumberOf
         /\ name = "control_word" => Len(source[j]) >= 3 /\ source[j][1] \in DOMAIN NumberOf
         /\ name = "alias" => Len(source[j]) >= 2
<1>1. Len(source) \in Nat /\ DOMAIN source = 1 .. Len(source) /\ End = Len(source) + 1
  BY LinesHaveWords
<1>2. j \in 1 .. i - 1 /\ ~ Bracket(j) /\ SectionOf(j) = name
  BY DEF LinesIn
<1>3. j \in 1 .. Len(source) /\ j < i /\ j \in DOMAIN source
  BY <1>1, <1>2
<1>4. WellShapedLine(j)
  BY <1>2 DEF TablesRead
<1>5. QED BY <1>2, <1>3, <1>4 DEF WellShapedLine

\* What config holds for a key is its setting.
LEMMA ConfigMeans ==
  ASSUME source \in Sources, NEW i \in 1 .. End, TablesRead(i), NEW key
  PROVE  Config(key) = Setting(key, i) /\ Setting(key, i) \in 0 .. 63
<1> DEFINE L == LinesIn("config", i)
           D == Definitions("config", 1, key, i)
<1>1. Bounded(L)
  BY LinesHaveWords DEF LinesIn, Bounded
<1>2. \A j \in L : j \in DOMAIN source /\ source[j][2] \in DOMAIN NumberOf
  BY LineOfSection
<1>3. D = SameKey(L, Word(1), key)
  BY <1>2 DEF Definitions, Word, SameKey
<1>4. IsTable(config, L, Word(1), Settings)
  BY DEF TablesRead
<1>5. Setting(key, i) = IF D = {} THEN 0 ELSE NumberOf[source[Max(D)][2]]
  BY DEF Setting
<1> HIDE DEF L, D
<1>6. /\ key \in DOMAIN config <=> D # {}
      /\ D # {} => Max(D) \in D /\ config[key] = Settings[Max(D)]
  <2>1. LastCounts(config, SameKey(L, Word(1), key), Settings, key)
    BY <1>1, <1>4, TableLast
  <2>2. QED BY <1>3, <2>1 DEF LastCounts
<1> USE DEF D
<1>7. CASE D = {}
  BY <1>5, <1>6, <1>7 DEF Config
<1>8. CASE D # {}
  <2>1. PICK m \in L : m = Max(D)
    BY <1>3, <1>6, <1>8 DEF SameKey
  <2>2. config[key] = NumberOf[source[m][2]] /\ NumberOf[source[m][2]] \in 0 .. 63
    BY <1>2, <1>6, <1>8, <2>1, WordAssumption DEF Settings
  <2> HIDE DEF D
  <2>3. QED BY <1>5, <1>6, <1>8, <2>1, <2>2 DEF Config
<1>9. QED BY <1>7, <1>8

\* control_lines holds the names defined, and alias the names of several.
LEMMA NamesMean ==
  ASSUME source \in Sources, NEW i \in 1 .. End, TablesRead(i)
  PROVE  DOMAIN control_lines = Names(i) /\ DOMAIN alias = Aliases(i)
<1>1. \A name : \A j \in LinesIn(name, i) : j \in DOMAIN source
  BY LineOfSection
<1>2. \A j \in LinesIn("control_word", i) : Word(3)[j] = source[j][3]
  BY <1>1 DEF Word
<1>3. \A j \in LinesIn("alias", i) : Word(1)[j] = source[j][1]
  BY <1>1 DEF Word
<1>4. /\ DOMAIN control_lines = {Word(3)[j] : j \in LinesIn("control_word", i)}
      /\ DOMAIN alias = {Word(1)[j] : j \in LinesIn("alias", i)}
  BY DEF TablesRead, IsTable
<1>5. QED BY <1>2, <1>3, <1>4 DEF Names, Aliases

\* At the end of the source a control line has the position and the level of its definition.
LEMMA ControlMeans ==
  ASSUME source \in Sources, TablesRead(End), NEW n \in Names(End)
  PROVE  /\ control_lines[n].position = Position(n) /\ Position(n) \in WordBits
         /\ control_lines[n].active_level = ActiveHigh(n)
<1> DEFINE L == LinesIn("control_word", End)
           D == Definitions("control_word", 3, n, End)
<1>0. End \in 1 .. End
  BY LinesHaveWords
<1>1. Bounded(L)
  BY LinesHaveWords DEF LinesIn, Bounded
<1>2. \A j \in L : j \in DOMAIN source /\ source[j][1] \in DOMAIN NumberOf
  BY <1>0, LineOfSection
<1>3. D = SameKey(L, Word(3), n)
  BY <1>2 DEF Definitions, Word, SameKey
<1>4. IsTable(control_lines, L, Word(3), Lines)
  BY DEF TablesRead
<1>5. n \in DOMAIN control_lines
  BY <1>0, NamesMean
<1> HIDE DEF L, D
<1>6. Max(D) \in D /\ control_lines[n] = Lines[Max(D)]
  <2>1. LastCounts(control_lines, SameKey(L, Word(3), n), Lines, n)
    BY <1>1, <1>4, TableLast
  <2>2. QED BY <1>3, <1>5, <2>1 DEF LastCounts
<1> USE DEF D
<1>7. PICK m \in L : m = Max(D)
  BY <1>3, <1>6 DEF SameKey
<1>8. control_lines[n] = [position |-> NumberOf[source[m][1]], active_level |-> source[m][2] = "H"]
  BY <1>2, <1>6, <1>7 DEF Lines
<1>9. Position(n) = NumberOf[source[m][1]] /\ ActiveHigh(n) = (source[m][2] = "H")
  BY <1>7 DEF Position, ActiveHigh, Definition
<1>10. NumberOf[source[m][1]] \in 0 .. 63
  BY <1>2, <1>7, WordAssumption
<1>11. QED BY <1>8, <1>9, <1>10 DEF WordBits

\* A word of a line of microcode stands for what alias puts in its place.
LEMMA AliasMeans ==
  ASSUME source \in Sources, NEW i \in 1 .. End, TablesRead(i), NEW id
  PROVE  IsSequence(Meaning(id)) /\ Range(Meaning(id)) = Stands(id, i)
<1> DEFINE L == LinesIn("alias", i)
           D == Definitions("alias", 1, id, i)
<1>1. Bounded(L)
  BY LinesHaveWords DEF LinesIn, Bounded
<1>2. \A j \in L : j \in DOMAIN source /\ j \in 1 .. Len(source) /\ Len(source[j]) >= 2
  BY LineOfSection
<1>3. D = SameKey(L, Word(1), id)
  BY <1>2 DEF Definitions, Word, SameKey
<1>4. IsTable(alias, L, Word(1), Stretches)
  BY DEF TablesRead
<1>5. DOMAIN alias = Aliases(i)
  BY NamesMean
<1> HIDE DEF L, D
<1>6. id \in DOMAIN alias => Max(D) \in D /\ alias[id] = Stretches[Max(D)]
  <2>1. LastCounts(alias, SameKey(L, Word(1), id), Stretches, id)
    BY <1>1, <1>4, TableLast
  <2>2. QED BY <1>3, <2>1 DEF LastCounts
<1> USE DEF D
<1>7. CASE id \in Aliases(i)
  <2>1. PICK m \in L : m = Max(D)
    BY <1>3, <1>5, <1>6, <1>7 DEF SameKey
  <2>2. alias[id] = Tail(source[m])
    BY <1>2, <1>5, <1>6, <1>7, <2>1 DEF Stretches
  <2>3. IsSequence(Tail(source[m]))
    <3>1. m \in 1 .. Len(source)
      BY <1>2, <2>1
    <3>2. PICK w : w = source[m] /\ w \in Seq(DOMAIN CharsOf) /\ Len(w) \in Nat \ {0}
      BY <3>1, LinesHaveWords
    <3>3. PICK S : w \in Seq(S) /\ w # <<>>
      BY <3>2
    <3>4. Tail(w) \in Seq(S)
      BY <3>3
    <3>5. QED BY <3>2, <3>4 DEF IsSequence
  <2>4. Meaning(id) = Tail(source[m])
    BY <1>5, <1>7, <2>2 DEF Meaning
  <2>5. Stands(id, i) = Range(Tail(source[m]))
    BY <1>7, <2>1 DEF Stands
  <2>6. QED BY <2>3, <2>4, <2>5
<1>8. CASE id \notin Aliases(i)
  <2>1. Meaning(id) = <<id>> /\ Stands(id, i) = {id}
    BY <1>5, <1>8 DEF Meaning, Stands
  <2>2. <<id>> \in Seq({id}) /\ Range(<<id>>) = {id}
    <3>1. DOMAIN <<id>> = {1} /\ <<id>>[1] = id
      OBVIOUS
    <3>2. QED BY <3>1 DEF Range
  <2>3. QED BY <2>1, <2>2 DEF IsSequence
<1>9. QED BY <1>7, <1>8
-------------------------------------------------------------------------------
(***************************************************************************)
(* A line of microcode: its pattern ends where its words are as long as an *)
(* address, and there is at most one such place.                           *)
(***************************************************************************)
LEMMA LineGrows ==
  ASSUME source \in Sources, NEW i \in 1 .. Len(source)
  PROVE  /\ \A a \in 1 .. Len(source[i]) : IsSequence(Chars(i, a)) /\ Len(Chars(i, a)) \in Nat
         /\ \A a, b \in 1 .. Len(source[i]) : a < b => Len(Chars(i, a)) < Len(Chars(i, b))
<1>1. PICK w : w = source[i] /\ w \in Seq(DOMAIN CharsOf) /\ IsSequence(w)
  BY LinesHaveWords
<1>2. Range(w) \subseteq DOMAIN CharsOf
  BY <1>1 DEF Range
<1> DEFINE C(cnt) == FlattenSeq([k \in 1 .. cnt |-> CharsOf[w[k]]])
<1>3. /\ \A a \in 1 .. Len(w) : IsSequence(C(a))
      /\ \A a, b \in 1 .. Len(w) : a < b => Len(C(a)) < Len(C(b))
  BY <1>1, <1>2, CharsGrow
<1>4. \A cnt : Chars(i, cnt) = C(cnt)
  BY <1>1 DEF Chars
<1> HIDE DEF C
<1>5. \A a \in 1 .. Len(w) : Len(C(a)) \in Nat
  BY <1>3, SequenceParts
<1>6. QED BY <1>1, <1>3, <1>4, <1>5

LEMMA OneEnd ==
  ASSUME source \in Sources, NEW i \in 1 .. Len(source), NEW a \in AddressEnds(i)
  PROVE  AddressEnds(i) = {a} /\ Min(AddressEnds(i)) = a /\ a \in 1 .. Len(source[i])
<1>1. AddressEnds(i) \subseteq 1 .. Len(source[i]) /\ 1 .. Len(source[i]) \subseteq Nat
  BY LinesHaveWords DEF AddressEnds
<1>2. ASSUME NEW b \in AddressEnds(i) PROVE b = a
  <2>1. a \in 1 .. Len(source[i]) /\ b \in 1 .. Len(source[i]) /\ a \in Int /\ b \in Int
    BY <1>1
  <2>2. Len(Chars(i, a)) = Len(Chars(i, b)) /\ Len(Chars(i, a)) \in Nat
    BY <2>1, LineGrows DEF AddressEnds
  <2>3. ~(a < b) /\ ~(b < a)
    <3>1. PICK l \in Nat : Len(Chars(i, a)) = l /\ Len(Chars(i, b)) = l
      BY <2>2
    <3>2. a < b => l < l
      BY <2>1, <3>1, LineGrows
    <3>3. b < a => l < l
      BY <2>1, <3>1, LineGrows
    <3>4. QED BY <3>2, <3>3
  <2>4. QED BY <2>1, <2>3
<1>3. AddressEnds(i) = {a}
  BY <1>2
<1>4. AddressEnds(i) \subseteq Nat /\ \A x \in AddressEnds(i) : a <= x
  BY <1>1, <1>3
<1>5. Min(AddressEnds(i)) = a
  BY <1>4, FirstIs
<1>6. QED BY <1>1, <1>3, <1>5

LEMMA PatternParts ==
  ASSUME source \in Sources, NEW i \in 1 .. Len(source), AddressEnds(i) # {}
  PROVE  IsSequence(Pattern(i)) /\ Len(Pattern(i)) = Setting("address_width", i)
<1>1. PICK a : a \in AddressEnds(i)
  OBVIOUS
<1>2. Pattern(i) = Chars(i, a) /\ a \in 1 .. Len(source[i])
  BY <1>1, OneEnd DEF Pattern
<1>3. QED BY <1>1, <1>2, LineGrows DEF AddressEnds

\* Where parse_microinstruction stops stringing words together is where the pattern ends.
LEMMA StopsAtEnd ==
  ASSUME source \in Sources, NEW i \in 1 .. Len(source), row = i,
         Config("address_width") = Setting("address_width", i), Setting("address_width", i) \in Nat
  PROVE  /\ \A cnt : Strung(cnt) = Chars(i, cnt)
         /\ LongEnough = {} => AddressEnds(i) = {}
         /\ LongEnough # {} /\ Len(Strung(AddressWords)) # Config("address_width") => AddressEnds(i) = {}
         /\ LongEnough # {} /\ Len(Strung(AddressWords)) = Config("address_width") =>
              AddressWords \in AddressEnds(i)
<1> DEFINE n == Len(source[i])
           width == Setting("address_width", i)
<1>1. \A cnt : Strung(cnt) = Chars(i, cnt)
  BY DEF Strung, Chars, words
<1>2. n \in Nat /\ DOMAIN source[i] = 1 .. n /\ words = source[i]
  BY LinesHaveWords DEF words
<1>3. LongEnough = {cnt \in 1 .. n : Len(Chars(i, cnt)) >= width}
  BY <1>1, <1>2 DEF LongEnough
<1>4. AddressEnds(i) = {cnt \in 1 .. n : Len(Chars(i, cnt)) = width}
  BY <1>2 DEF AddressEnds
<1>5. \A a \in 1 .. n : Len(Chars(i, a)) \in Nat
  BY LineGrows
<1>6. \A a, b \in 1 .. n : a < b => Len(Chars(i, a)) < Len(Chars(i, b))
  BY LineGrows
<1>7. AddressEnds(i) \subseteq LongEnough
  BY <1>3, <1>4, <1>5
<1>8. ASSUME LongEnough # {}
      PROVE  AddressWords \in LongEnough /\ \A x \in LongEnough : AddressWords <= x
  <2>1. LongEnough \subseteq Nat
    BY <1>2, <1>3
  <2>2. QED BY <1>8, <2>1, FirstOne DEF AddressWords
<1>9. ASSUME LongEnough # {}, Len(Strung(AddressWords)) # Config("address_width")
      PROVE  AddressEnds(i) = {}
  <2>1. PICK a \in 1 .. n : a = AddressWords /\ \A x \in LongEnough : a <= x
    BY <1>3, <1>8, <1>9
  <2>2. Len(Chars(i, a)) > width
    BY <1>1, <1>3, <1>5, <1>8, <1>9, <2>1
  <2>3. SUFFICES ASSUME NEW b \in 1 .. n, Len(Chars(i, b)) = width PROVE FALSE
    BY <1>4
  <2>4. a <= b
    BY <1>3, <1>5, <2>1, <2>3
  <2>5. a = b \/ Len(Chars(i, a)) < Len(Chars(i, b))
    BY <1>6, <2>4
  <2>6. QED BY <1>5, <2>2, <2>3, <2>5
<1>10. ASSUME LongEnough # {}, Len(Strung(AddressWords)) = Config("address_width")
       PROVE  AddressWords \in AddressEnds(i)
  <2>1. AddressWords \in 1 .. n
    BY <1>3, <1>8, <1>10
  <2>2. QED BY <1>1, <1>4, <1>10, <2>1
<1>11. QED BY <1>1, <1>7, <1>9, <1>10

\* The words behind the pattern are its signals, and what they stand for is what it names.
LEMMA RestNames ==
  ASSUME source \in Sources, NEW i \in 1 .. Len(source), row = i, TablesRead(i),
         AddressWords \in AddressEnds(i)
  PROVE  /\ Range(Rest) = Signals(i)
         /\ IsSequence(FlattenSeq([k \in DOMAIN Rest |-> Meaning(Rest[k])]))
         /\ Range(FlattenSeq([k \in DOMAIN Rest |-> Meaning(Rest[k])])) = Named(i)
<1>1. PICK w, a, n : /\ w = source[i] /\ w \in Seq(DOMAIN CharsOf)
                     /\ n = Len(w) /\ n \in Nat /\ DOMAIN w = 1 .. n
                     /\ a = AddressWords /\ AddressEnds(i) = {a} /\ a \in 1 .. n
  BY LinesHaveWords, OneEnd
<1>2. PICK r : r = Rest /\ r = SubSeq(w, a + 1, n)
  BY <1>1 DEF Rest, words
<1>3. /\ r \in Seq(DOMAIN CharsOf) /\ DOMAIN r = 1 .. n - a
      /\ \A k \in 1 .. n - a : r[k] = w[a + k]
  <2>1. \A k \in a + 1 .. n : k \in 1 .. n
    BY <1>1
  <2>2. r = [k \in 1 .. n - a |-> w[a + k]]
    BY <1>1, <1>2
  <2>3. \A k \in 1 .. n - a : w[a + k] \in DOMAIN CharsOf
    <3>1. \A k \in 1 .. n - a : a + k \in 1 .. n
      BY <1>1
    <3>2. QED BY <1>1, <3>1
  <2>4. n - a \in Nat
    BY <1>1
  <2>5. QED BY <2>2, <2>3, <2>4
<1>4. Range(r) = Signals(i)
  <2>1. Signals(i) = {w[k] : k \in {l \in 1 .. n : l > a}}
    BY <1>1 DEF Signals
  <2>2. Range(r) = {w[a + k] : k \in 1 .. n - a}
    BY <1>3 DEF Range
  <2>3. ASSUME NEW k \in 1 .. n - a PROVE a + k \in 1 .. n /\ a + k > a
    BY <1>1
  <2>4. ASSUME NEW l \in 1 .. n, l > a PROVE l - a \in 1 .. n - a /\ a + (l - a) = l
    BY <1>1, <2>4
  <2>5. Range(r) \subseteq Signals(i)
    BY <2>1, <2>2, <2>3
  <2>6. Signals(i) \subseteq Range(r)
    <3> SUFFICES ASSUME NEW l \in 1 .. n, l > a PROVE w[l] \in Range(r)
      BY <2>1
    <3>1. PICK k \in 1 .. n - a : a + k = l
      BY <2>4
    <3>2. QED BY <2>2, <3>1
  <2>7. QED BY <2>5, <2>6
<1> DEFINE g == [k \in DOMAIN r |-> Meaning(r[k])]
<1>5. i \in 1 .. End
  BY LinesHaveWords
<1>6. \A id : IsSequence(Meaning(id)) /\ Range(Meaning(id)) = Stands(id, i)
  BY <1>5, AliasMeans
<1>7. IsSequence(g)
  <2>1. IsSequence(r)
    BY <1>3 DEF IsSequence
  <2>2. DOMAIN g = DOMAIN r /\ g = [k \in DOMAIN g |-> g[k]]
    OBVIOUS
  <2> HIDE DEF g
  <2>3. QED BY <2>1, <2>2, SequenceMapped
<1>8. \A k \in DOMAIN g : IsSequence(g[k]) /\ Range(g[k]) = Stands(r[k], i)
  BY <1>6
<1>9. IsSequence(FlattenSeq(g)) /\ Range(FlattenSeq(g)) = UNION {Range(g[k]) : k \in DOMAIN g}
  <2> HIDE DEF g
  <2>1. QED BY <1>7, <1>8, FlatPieces
<1>10. UNION {Range(g[k]) : k \in DOMAIN g} = Named(i)
  <2>1. DOMAIN g = DOMAIN r
    OBVIOUS
  <2>2. Named(i) = UNION {Stands(r[k], i) : k \in DOMAIN r}
    BY <1>4 DEF Named, Range
  <2> HIDE DEF g
  <2>3. QED BY <1>8, <2>1, <2>2
<1>11. QED BY <1>2, <1>4, <1>9, <1>10
-------------------------------------------------------------------------------
(***************************************************************************)
(* The invariant.  While the source is read, the tables are those of the   *)
(* lines read, and the lines of microcode those of the code read, in its   *)
(* order; then the dashes of one line after the other are resolved; then   *)
(* the image holds what the lines compiled so far mean.                    *)
(***************************************************************************)
\* order: the places of the lines of microcode in the source.
IsOrder(order, i) ==
  /\ \A k \in DOMAIN m_instr_lines : order[k] \in LinesIn("code", i)
  /\ \A k, l \in DOMAIN m_instr_lines : k < l => order[k] < order[l]
  /\ \A j \in LinesIn("code", i) : \E k \in DOMAIN m_instr_lines : order[k] = j

NamesRead(line, j) ==
  /\ line = [first |-> line.first, second |-> line.second]
  /\ Setting("address_width", j) > 0 /\ AddressEnds(j) # {}
  /\ Signals(j) \subseteq Aliases(j) \union Names(j)
  /\ IsSequence(line.second) /\ Range(line.second) = Named(j)

LinesRead(order, i) ==
  /\ IsSequence(m_instr_lines) /\ IsOrder(order, i)
  /\ \A k \in DOMAIN m_instr_lines : NamesRead(m_instr_lines[k], order[k])

Unresolved(line, j) == line.first = Pattern(j)
Resolved(line, j) ==
  /\ line.first = [pos \in 1 .. Width |-> CharAt(j, pos)]
  /\ \A pos \in 1 .. Width :
       Giver(j, pos) # {} /\ (CharAt(j, pos) = "*" => Max(Giver(j, pos)) = j)

\* What the first n lines compiled have put into the image.
NamedAt(order, n, adr) == UNION {Named(order[k]) : k \in {l \in 1 .. n : Covers(order[l], adr)}}
Taken(order, n) == {adr \in Addresses : \E k \in 1 .. n : Covers(order[k], adr)}
Lit(order, n) == [adr \in Addresses |-> {bit \in WordBits : LitBy(bit, NamedAt(order, n, adr))}]
Apart(order, n) ==
  \A adr \in Addresses : \A k, l \in 1 .. n : Covers(order[k], adr) /\ Covers(order[l], adr) => k = l
Known(order, n) == \A k \in 1 .. n : Named(order[k]) \subseteq Names(End)

Compiled(order, n) ==
  /\ Width <= IntWidth /\ Apart(order, n) /\ Known(order, n)
  /\ visited_mask = Taken(order, n) /\ image = Lit(order, n)

ReadInv ==
  phase = "parse" =>
    /\ row \in 1 .. End /\ TablesRead(row)
    /\ \E order : /\ LinesRead(order, row)
                  /\ \A k \in DOMAIN m_instr_lines : Unresolved(m_instr_lines[k], order[k])

WalkedInv ==
  phase \in {"dashes", "compile", "written"} =>
    TablesRead(End) /\ IsSequence(m_instr_lines) /\ row \in 1 .. Len(m_instr_lines) + 1

DashesInv ==
  phase = "dashes" /\ Plain =>
    \E order : /\ LinesRead(order, End)
               /\ \A k \in DOMAIN m_instr_lines :
                    IF k < row
                    THEN Resolved(m_instr_lines[k], order[k])
                    ELSE Unresolved(m_instr_lines[k], order[k])

CompileInv ==
  phase = "compile" /\ Plain =>
    \E order : /\ LinesRead(order, End)
               /\ \A k \in DOMAIN m_instr_lines : Resolved(m_instr_lines[k], order[k])
               /\ Compiled(order, row - 1)

MicrocodeInv ==
  source \in Sources /\ ReadInv /\ WalkedInv /\ DashesInv /\ CompileInv /\ ImageIsMicrocode

-------------------------------------------------------------------------------
\* A step that gives up does so for a source that means nothing.
GivesUp ==
  /\ source' = source /\ phase' \in {"refused", "undefined"}
  /\ WellShaped => ~(Plain /\ WellFormed)

LEMMA GivingUp ==
  ASSUME source \in Sources, GivesUp
  PROVE  MicrocodeInv'
<1>1. source' \in Sources
  BY DEF GivesUp
<1>2. ReadInv' /\ WalkedInv' /\ DashesInv' /\ CompileInv'
  BY DEF GivesUp, ReadInv, WalkedInv, DashesInv, CompileInv
<1>3. ImageIsMicrocode'
  <2>1. phase' # "written" /\ (WellShaped' => ~(Plain' /\ WellFormed'))
    BY SameMeaning DEF GivesUp
  <2>2. QED BY <2>1 DEF ImageIsMicrocode
<1>4. QED BY <1>1, <1>2, <1>3 DEF MicrocodeInv

LEMMA SameResolved ==
  ASSUME source' = source
  PROVE  \A line, j : Resolved(line, j)' <=> Resolved(line, j)
<1> TAKE line, j
<1>1. /\ Width' = Width /\ \A pos : Giver(j, pos)' = Giver(j, pos)
      /\ \A pos : CharAt(j, pos)' = CharAt(j, pos)
  BY SameCode, SameMeaning
<1>2. [pos \in 1 .. Width |-> CharAt(j, pos)]' = [pos \in 1 .. Width |-> CharAt(j, pos)]
  BY <1>1
<1>3. QED BY <1>1, <1>2 DEF Resolved

\* The lines read stay read.
LEMMA LinesKept ==
  ASSUME UNCHANGED <<source, m_instr_lines>>
  PROVE  /\ \A order, i : LinesRead(order, i) => LinesRead(order, i)'
         /\ \A k, j : Unresolved(m_instr_lines[k], j)' <=> Unresolved(m_instr_lines[k], j)
         /\ \A k, j : Resolved(m_instr_lines[k], j)' <=> Resolved(m_instr_lines[k], j)
<1>1. \A order, i : IsOrder(order, i)' <=> IsOrder(order, i)
  BY SameLines DEF IsOrder
<1>2. \A k, j : NamesRead(m_instr_lines[k], j)' <=> NamesRead(m_instr_lines[k], j)
  BY SameLines, SameCode DEF NamesRead
<1>3. \A order, i : LinesRead(order, i) => LinesRead(order, i)'
  BY <1>1, <1>2 DEF LinesRead
<1>4. \A k, j : Unresolved(m_instr_lines[k], j)' <=> Unresolved(m_instr_lines[k], j)
  BY SameCode DEF Unresolved
<1>5. \A k, j : Resolved(m_instr_lines[k], j)' <=> Resolved(m_instr_lines[k], j)
  <2> TAKE k, j
  <2>1. PICK line : line = m_instr_lines[k] /\ m_instr_lines[k]' = line
    OBVIOUS
  <2>2. Resolved(line, j)' <=> Resolved(line, j)
    BY SameResolved
  <2>3. QED BY <2>1, <2>2 DEF Resolved
<1>6. QED BY <1>3, <1>4, <1>5

\* The tables of one line more.
LEMMA TablesOn ==
  ASSUME source \in Sources, source' = source, NEW i \in 1 .. Len(source),
         TablesRead(i), WellShapedLine(i), current_section' = SectionOf(i + 1),
         IsTable(config', LinesIn("config", i + 1), Word(1), Settings),
         IsTable(control_lines', LinesIn("control_word", i + 1), Word(3), Lines),
         IsTable(alias', LinesIn("alias", i + 1), Word(1), Stretches)
  PROVE  TablesRead(i + 1)'
<1>1. /\ \A j : WellShapedLine(j)' <=> WellShapedLine(j)
      /\ \A j : SectionOf(j)' = SectionOf(j)
      /\ \A name, j : LinesIn(name, j)' = LinesIn(name, j)
  BY SameLines
<1>2. \A k : Word(k)' = Word(k)
  BY DEF Word
<1>3. Settings' = Settings /\ Lines' = Lines /\ Stretches' = Stretches
  BY DEF Settings, Lines, Stretches
<1>4. ASSUME NEW j \in 1 .. i + 1 - 1 PROVE WellShapedLine(j)
  <2>1. j \in 1 .. i - 1 \/ j = i
    OBVIOUS
  <2>2. QED BY <2>1 DEF TablesRead
<1>5. QED BY <1>1, <1>2, <1>3, <1>4 DEF TablesRead

\* A line that leaves the tables alone.
LEMMA TablesPassed ==
  ASSUME source \in Sources, source' = source, NEW i \in 1 .. Len(source),
         TablesRead(i), WellShapedLine(i), current_section' = SectionOf(i + 1), UNCHANGED tables,
         \/ Bracket(i)
         \/ SectionOf(i) \notin {"config", "control_word", "alias"}
  PROVE  TablesRead(i + 1)'
<1>1. i \in Nat /\ i # 0
  BY LinesHaveWords
<1>2. \A name \in {"config", "control_word", "alias"} : LinesIn(name, i + 1) = LinesIn(name, i)
  BY <1>1, LinesOn
<1>3. /\ IsTable(config', LinesIn("config", i + 1), Word(1), Settings)
      /\ IsTable(control_lines', LinesIn("control_word", i + 1), Word(3), Lines)
      /\ IsTable(alias', LinesIn("alias", i + 1), Word(1), Stretches)
  BY <1>2 DEF TablesRead, tables
<1>4. QED BY <1>3, TablesOn

\* A line read that is none of microcode.
LEMMA ReadOn ==
  ASSUME source \in Sources, ReadInv, NEW i \in 1 .. Len(source), row = i, phase = "parse",
         UNCHANGED <<source, m_instr_lines>>, phase' = "parse", row' = i + 1, TablesRead(i + 1)',
         Bracket(i) \/ SectionOf(i) # "code"
  PROVE  ReadInv'
<1>1. i \in Nat /\ i # 0 /\ i + 1 \in 1 .. End
  BY LinesHaveWords
<1>2. LinesIn("code", i + 1) = LinesIn("code", i)
  BY <1>1, LinesOn
<1>3. PICK order : /\ LinesRead(order, i)
                   /\ \A k \in DOMAIN m_instr_lines : Unresolved(m_instr_lines[k], order[k])
  BY DEF ReadInv
<1>4. LinesRead(order, i + 1)
  BY <1>2, <1>3 DEF LinesRead, IsOrder
<1>5. LinesRead(order, i + 1)'
  BY <1>4, LinesKept
<1>6. \A k \in DOMAIN m_instr_lines' : Unresolved(m_instr_lines[k], order[k])'
  BY <1>3, LinesKept
<1>7. row' \in 1 .. End'
  BY <1>1, SameLines
<1>8. LinesRead(order, row)' /\ TablesRead(row)'
  BY <1>5
<1>9. QED BY <1>6, <1>7, <1>8 DEF ReadInv

LEMMA RowRead ==
  ASSUME source \in Sources, ReadInv, Reading
  PROVE  /\ phase = "parse" /\ row \in 1 .. Len(source) /\ TablesRead(row)
         /\ words = source[row] /\ Len(words) \in Nat
<1>1. phase = "parse" /\ row <= Len(source) /\ row \in 1 .. End /\ TablesRead(row)
  BY DEF Reading, ReadInv
<1>2. row \in 1 .. Len(source)
  BY <1>1, LinesHaveWords
<1>3. QED BY <1>1, <1>2, LinesHaveWords DEF words

\* A line that has not the shape of its section stops the compiler with reason.
LEMMA IllShaped ==
  ASSUME source \in Sources, NEW i \in 1 .. Len(source), ~ WellShapedLine(i), Refuse
  PROVE  GivesUp
BY LinesHaveWords DEF GivesUp, Refuse, WellShaped
-------------------------------------------------------------------------------
(***************************************************************************)
(* The steps of the parser.                                                *)
(***************************************************************************)
LEMMA SectionLineReads ==
  ASSUME source \in Sources, ReadInv, SectionLine
  PROVE  GivesUp \/ (ReadInv' /\ phase' = "parse" /\ source' = source)
<1>1. PICK i : i = row
  OBVIOUS
<1>2. /\ phase = "parse" /\ i \in 1 .. Len(source) /\ TablesRead(i) /\ words = source[i]
      /\ source[i][1] = "section" /\ Len(words) \in Nat
  BY <1>1, RowRead DEF SectionLine
<1>3. Bracket(i) /\ current_section = SectionOf(i)
  BY <1>2 DEF Bracket, TablesRead
<1>4. CASE current_section # NoSection \/ Len(words) < 2
  <2>1. Refuse
    BY <1>4 DEF SectionLine
  <2>2. ~ WellShapedLine(i)
    BY <1>2, <1>3, <1>4 DEF WellShapedLine
  <2>3. QED BY <1>2, <2>1, <2>2, IllShaped
<1>5. CASE ~(current_section # NoSection \/ Len(words) < 2)
  <2>1. /\ current_section' = source[i][2] /\ row' = i + 1 /\ phase' = "parse"
        /\ UNCHANGED <<source, m_instr_lines>> /\ UNCHANGED tables
    BY <1>1, <1>2, <1>5 DEF SectionLine, NextLine
  <2>2. WellShapedLine(i)
    BY <1>2, <1>3, <1>5 DEF WellShapedLine
  <2>3. current_section' = SectionOf(i + 1)
    <3>1. i \in Nat /\ i # 0
      BY <1>2
    <3>2. QED BY <1>2, <1>3, <2>1, <3>1, SectionOn
  <2>4. TablesRead(i + 1)'
    BY <1>2, <1>3, <2>1, <2>2, <2>3, TablesPassed
  <2>5. ReadInv'
    BY <1>1, <1>2, <1>3, <2>1, <2>4, ReadOn
  <2>6. QED BY <2>1, <2>5
<1>6. QED BY <1>4, <1>5

LEMMA EndLineReads ==
  ASSUME source \in Sources, ReadInv, EndLine
  PROVE  GivesUp \/ (ReadInv' /\ phase' = "parse" /\ source' = source)
<1>1. PICK i : i = row
  OBVIOUS
<1>2. /\ phase = "parse" /\ i \in 1 .. Len(source) /\ TablesRead(i) /\ words = source[i]
      /\ source[i][1] = "end"
  BY <1>1, RowRead DEF EndLine
<1>3. Bracket(i) /\ current_section = SectionOf(i)
  BY <1>2 DEF Bracket, TablesRead
<1>4. CASE current_section = NoSection
  <2>1. Refuse
    BY <1>4 DEF EndLine
  <2>2. ~ WellShapedLine(i)
    BY <1>2, <1>3, <1>4 DEF WellShapedLine
  <2>3. QED BY <1>2, <2>1, <2>2, IllShaped
<1>5. CASE current_section # NoSection
  <2>1. /\ current_section' = NoSection /\ row' = i + 1 /\ phase' = "parse"
        /\ UNCHANGED <<source, m_instr_lines>> /\ UNCHANGED tables
    BY <1>1, <1>2, <1>5 DEF EndLine, NextLine
  <2>2. WellShapedLine(i)
    BY <1>2, <1>3, <1>5 DEF WellShapedLine
  <2>3. current_section' = SectionOf(i + 1)
    <3>1. i \in Nat /\ i # 0
      BY <1>2
    <3>2. QED BY <1>2, <1>3, <2>1, <3>1, SectionOn
  <2>4. TablesRead(i + 1)'
    BY <1>2, <1>3, <2>1, <2>2, <2>3, TablesPassed
  <2>5. ReadInv'
    BY <1>1, <1>2, <1>3, <2>1, <2>4, ReadOn
  <2>6. QED BY <2>1, <2>5
<1>6. QED BY <1>4, <1>5

\* A line between brackets belongs to the section opened last.
LEMMA LineInSection ==
  ASSUME source \in Sources, ReadInv, Reading, words[1] \notin {"section", "end"},
         NEW i, i = row
  PROVE  /\ phase = "parse" /\ i \in 1 .. Len(source) /\ i \in Nat /\ i # 0 /\ i \in DOMAIN source
         /\ TablesRead(i) /\ words = source[i] /\ Len(words) \in Nat
         /\ ~ Bracket(i) /\ SectionOf(i) = current_section /\ SectionOf(i + 1) = current_section
         /\ source[i][1] # "section" /\ source[i][1] # "end"
         /\ \A name : IF name = current_section
                      THEN LinesIn(name, i + 1) = LinesIn(name, i) \union {i}
                      ELSE LinesIn(name, i + 1) = LinesIn(name, i)
         /\ \A name : LinesIn(name, i) \subseteq 1 .. i - 1
<1>1. /\ phase = "parse" /\ i \in 1 .. Len(source) /\ TablesRead(i) /\ words = source[i]
      /\ Len(words) \in Nat
  BY RowRead
<1>2. i \in Nat /\ i # 0 /\ i \in DOMAIN source
  BY <1>1, LinesHaveWords
<1>3. ~ Bracket(i) /\ SectionOf(i) = current_section
  BY <1>1 DEF Bracket, TablesRead
<1>4. SectionOf(i + 1) = current_section
  BY <1>2, <1>3, SectionOn
<1>5. source[i][1] # "section" /\ source[i][1] # "end"
  BY <1>1
<1>6. \A name : IF name = current_section
                THEN LinesIn(name, i + 1) = LinesIn(name, i) \union {i}
                ELSE LinesIn(name, i + 1) = LinesIn(name, i)
  BY <1>2, <1>3, LinesOn
<1>7. \A name : LinesIn(name, i) \subseteq 1 .. i - 1
  BY <1>2, LinesOn
<1>8. QED BY <1>1, <1>2, <1>3, <1>4, <1>5, <1>6, <1>7

LEMMA ConfigLineReads ==
  ASSUME source \in Sources, ReadInv, ConfigLine
  PROVE  GivesUp \/ (ReadInv' /\ phase' = "parse" /\ source' = source)
<1>1. PICK i : i = row
  OBVIOUS
<1>2. Reading /\ words[1] \notin {"section", "end"} /\ current_section = "config"
  BY DEF ConfigLine, InSection
<1>3. /\ phase = "parse" /\ i \in 1 .. Len(source) /\ i \in Nat /\ i # 0 /\ i \in DOMAIN source
      /\ TablesRead(i) /\ words = source[i] /\ Len(words) \in Nat
      /\ ~ Bracket(i) /\ SectionOf(i) = "config" /\ SectionOf(i + 1) = "config"
      /\ source[i][1] # "section" /\ source[i][1] # "end"
  BY <1>1, <1>2, LineInSection
<1>4. /\ LinesIn("config", i + 1) = LinesIn("config", i) \union {i}
      /\ LinesIn("control_word", i + 1) = LinesIn("control_word", i)
      /\ LinesIn("alias", i + 1) = LinesIn("alias", i)
      /\ LinesIn("config", i) \subseteq 1 .. i - 1
  BY <1>1, <1>2, LineInSection
<1>5. CASE Len(words) < 2 \/ words[2] \notin DOMAIN NumberOf
  <2>1. Refuse
    BY <1>5 DEF ConfigLine
  <2>2. ~ WellShapedLine(i)
    BY <1>3, <1>5 DEF WellShapedLine
  <2>3. QED BY <1>3, <2>1, <2>2, IllShaped
<1>6. CASE ~(Len(words) < 2 \/ words[2] \notin DOMAIN NumberOf)
  <2>1. /\ config' = Insert(config, source[i][1], NumberOf[source[i][2]])
        /\ row' = i + 1 /\ phase' = "parse" /\ current_section' = current_section
        /\ UNCHANGED <<source, m_instr_lines>> /\ UNCHANGED <<control_lines, alias>>
    BY <1>1, <1>3, <1>6 DEF ConfigLine, NextLine
  <2>2. WellShapedLine(i)
    BY <1>3, <1>6 DEF WellShapedLine
  <2>3. IsTable(config', LinesIn("config", i + 1), Word(1), Settings)
    <3>1. Word(1)[i] = source[i][1] /\ Settings[i] = NumberOf[source[i][2]]
      BY <1>3 DEF Word, Settings
    <3>2. IsTable(Insert(config, Word(1)[i], Settings[i]), LinesIn("config", i) \union {i}, Word(1), Settings)
      BY <1>3, <1>4, TableGrows DEF TablesRead
    <3>3. QED BY <1>4, <2>1, <3>1, <3>2
  <2>4. /\ IsTable(control_lines', LinesIn("control_word", i + 1), Word(3), Lines)
        /\ IsTable(alias', LinesIn("alias", i + 1), Word(1), Stretches)
    BY <1>3, <1>4, <2>1 DEF TablesRead
  <2>5. current_section' = SectionOf(i + 1)
    BY <1>2, <1>3, <2>1
  <2>6. TablesRead(i + 1)'
    BY <1>3, <2>1, <2>2, <2>3, <2>4, <2>5, TablesOn
  <2>7. ReadInv'
    BY <1>1, <1>3, <2>1, <2>6, ReadOn
  <2>8. QED BY <2>1, <2>7
<1>7. QED BY <1>5, <1>6

LEMMA ControlLineReads ==
  ASSUME source \in Sources, ReadInv, ControlLine
  PROVE  GivesUp \/ (ReadInv' /\ phase' = "parse" /\ source' = source)
<1>1. PICK i : i = row
  OBVIOUS
<1>2. Reading /\ words[1] \notin {"section", "end"} /\ current_section = "control_word"
  BY DEF ControlLine, InSection
<1>3. /\ phase = "parse" /\ i \in 1 .. Len(source) /\ i \in Nat /\ i # 0 /\ i \in DOMAIN source
      /\ TablesRead(i) /\ words = source[i] /\ Len(words) \in Nat
      /\ ~ Bracket(i) /\ SectionOf(i) = "control_word" /\ SectionOf(i + 1) = "control_word"
      /\ source[i][1] # "section" /\ source[i][1] # "end"
  BY <1>1, <1>2, LineInSection
<1>4. /\ LinesIn("control_word", i + 1) = LinesIn("control_word", i) \union {i}
      /\ LinesIn("config", i + 1) = LinesIn("config", i)
      /\ LinesIn("alias", i + 1) = LinesIn("alias", i)
      /\ LinesIn("control_word", i) \subseteq 1 .. i - 1
  BY <1>1, <1>2, LineInSection
<1>5. CASE Len(words) < 3 \/ words[1] \notin DOMAIN NumberOf
  <2>1. Refuse
    BY <1>5 DEF ControlLine
  <2>2. ~ WellShapedLine(i)
    BY <1>3, <1>5 DEF WellShapedLine
  <2>3. QED BY <1>3, <2>1, <2>2, IllShaped
<1>6. CASE ~(Len(words) < 3 \/ words[1] \notin DOMAIN NumberOf)
  <2>1. /\ control_lines' = Insert(control_lines, source[i][3],
                              [position |-> NumberOf[source[i][1]], active_level |-> source[i][2] = "H"])
        /\ row' = i + 1 /\ phase' = "parse" /\ current_section' = current_section
        /\ UNCHANGED <<source, m_instr_lines>> /\ UNCHANGED <<config, alias>>
    BY <1>1, <1>3, <1>6 DEF ControlLine, NextLine
  <2>2. WellShapedLine(i)
    BY <1>3, <1>6 DEF WellShapedLine
  <2>3. IsTable(control_lines', LinesIn("control_word", i + 1), Word(3), Lines)
    <3>1. /\ Word(3)[i] = source[i][3]
          /\ Lines[i] = [position |-> NumberOf[source[i][1]], active_level |-> source[i][2] = "H"]
      BY <1>3 DEF Word, Lines
    <3>2. IsTable(Insert(control_lines, Word(3)[i], Lines[i]),
                  LinesIn("control_word", i) \union {i}, Word(3), Lines)
      BY <1>3, <1>4, TableGrows DEF TablesRead
    <3>3. QED BY <1>4, <2>1, <3>1, <3>2
  <2>4. /\ IsTable(config', LinesIn("config", i + 1), Word(1), Settings)
        /\ IsTable(alias', LinesIn("alias", i + 1), Word(1), Stretches)
    BY <1>3, <1>4, <2>1 DEF TablesRead
  <2>5. current_section' = SectionOf(i + 1)
    BY <1>2, <1>3, <2>1
  <2>6. TablesRead(i + 1)'
    BY <1>3, <2>1, <2>2, <2>3, <2>4, <2>5, TablesOn
  <2>7. ReadInv'
    BY <1>1, <1>3, <2>1, <2>6, ReadOn
  <2>8. QED BY <2>1, <2>7
<1>7. QED BY <1>5, <1>6

LEMMA AliasLineReads ==
  ASSUME source \in Sources, ReadInv, AliasLine
  PROVE  GivesUp \/ (ReadInv' /\ phase' = "parse" /\ source' = source)
<1>1. PICK i : i = row
  OBVIOUS
<1>2. Reading /\ words[1] \notin {"section", "end"} /\ current_section = "alias"
  BY DEF AliasLine, InSection
<1>3. /\ phase = "parse" /\ i \in 1 .. Len(source) /\ i \in Nat /\ i # 0 /\ i \in DOMAIN source
      /\ TablesRead(i) /\ words = source[i] /\ Len(words) \in Nat
      /\ ~ Bracket(i) /\ SectionOf(i) = "alias" /\ SectionOf(i + 1) = "alias"
      /\ source[i][1] # "section" /\ source[i][1] # "end"
  BY <1>1, <1>2, LineInSection
<1>4. /\ LinesIn("alias", i + 1) = LinesIn("alias", i) \union {i}
      /\ LinesIn("config", i + 1) = LinesIn("config", i)
      /\ LinesIn("control_word", i + 1) = LinesIn("control_word", i)
      /\ LinesIn("alias", i) \subseteq 1 .. i - 1
  BY <1>1, <1>2, LineInSection
<1>5. CASE Len(words) < 2
  <2>1. Refuse
    BY <1>5 DEF AliasLine
  <2>2. ~ WellShapedLine(i)
    BY <1>3, <1>5 DEF WellShapedLine
  <2>3. QED BY <1>3, <2>1, <2>2, IllShaped
<1>6. CASE ~(Len(words) < 2)
  <2>1. /\ alias' = Insert(alias, source[i][1], Tail(source[i]))
        /\ row' = i + 1 /\ phase' = "parse" /\ current_section' = current_section
        /\ UNCHANGED <<source, m_instr_lines>> /\ UNCHANGED <<config, control_lines>>
    BY <1>1, <1>3, <1>6 DEF AliasLine, NextLine
  <2>2. WellShapedLine(i)
    BY <1>3, <1>6 DEF WellShapedLine
  <2>3. IsTable(alias', LinesIn("alias", i + 1), Word(1), Stretches)
    <3>1. Word(1)[i] = source[i][1] /\ Stretches[i] = Tail(source[i])
      BY <1>3 DEF Word, Stretches
    <3>2. IsTable(Insert(alias, Word(1)[i], Stretches[i]), LinesIn("alias", i) \union {i}, Word(1), Stretches)
      BY <1>3, <1>4, TableGrows DEF TablesRead
    <3>3. QED BY <1>4, <2>1, <3>1, <3>2
  <2>4. /\ IsTable(config', LinesIn("config", i + 1), Word(1), Settings)
        /\ IsTable(control_lines', LinesIn("control_word", i + 1), Word(3), Lines)
    BY <1>3, <1>4, <2>1 DEF TablesRead
  <2>5. current_section' = SectionOf(i + 1)
    BY <1>2, <1>3, <2>1
  <2>6. TablesRead(i + 1)'
    BY <1>3, <2>1, <2>2, <2>3, <2>4, <2>5, TablesOn
  <2>7. ReadInv'
    BY <1>1, <1>3, <2>1, <2>6, ReadOn
  <2>8. QED BY <2>1, <2>7
<1>7. QED BY <1>5, <1>6

LEMMA IgnoredLineReads ==
  ASSUME source \in Sources, ReadInv, IgnoredLine
  PROVE  ReadInv' /\ phase' = "parse" /\ source' = source
<1>1. PICK i : i = row
  OBVIOUS
<1>2. /\ Reading /\ words[1] \notin {"section", "end"}
      /\ current_section \notin {"config", "control_word", "alias", "code"}
  BY DEF IgnoredLine
<1>3. /\ phase = "parse" /\ i \in 1 .. Len(source) /\ TablesRead(i)
      /\ ~ Bracket(i) /\ SectionOf(i) = current_section /\ SectionOf(i + 1) = current_section
      /\ source[i][1] # "section" /\ source[i][1] # "end"
  BY <1>1, <1>2, LineInSection
<1>4. /\ row' = i + 1 /\ phase' = "parse" /\ current_section' = current_section
      /\ UNCHANGED <<source, m_instr_lines>> /\ UNCHANGED tables
  BY <1>1, <1>3 DEF IgnoredLine, NextLine
<1>5. WellShapedLine(i)
  BY <1>2, <1>3 DEF WellShapedLine
<1>6. TablesRead(i + 1)'
  BY <1>2, <1>3, <1>4, <1>5, TablesPassed
<1>7. ReadInv'
  BY <1>1, <1>2, <1>3, <1>4, <1>6, ReadOn
<1>8. QED BY <1>4, <1>7
\* A line of microcode that means nothing stops the compiler with reason.
LEMMA NotMeant ==
  ASSUME NEW i \in Code, ~ WellFormedCode(i), Refuse \/ Undefined
  PROVE  GivesUp
BY DEF GivesUp, Refuse, Undefined, WellFormed

\* One more line of microcode.
LEMMA LineAdded ==
  ASSUME source' = source, NEW i \in Nat, NEW order, LinesRead(order, i),
         LinesIn("code", i) \subseteq 1 .. i - 1,
         LinesIn("code", i + 1) = LinesIn("code", i) \union {i},
         \A k \in DOMAIN m_instr_lines : Unresolved(m_instr_lines[k], order[k]),
         NEW line, NamesRead(line, i), Unresolved(line, i),
         m_instr_lines' = Append(m_instr_lines, line)
  PROVE  \E o : /\ LinesRead(o, i + 1)'
                /\ \A k \in DOMAIN m_instr_lines' : Unresolved(m_instr_lines[k], o[k])'
<1>1. PICK n, m : m = m_instr_lines /\ IsSequence(m) /\ n = Len(m) /\ n \in Nat /\ DOMAIN m = 1 .. n
  BY SequenceParts DEF LinesRead
<1>2. PICK new : new = Append(m, line) /\ m_instr_lines' = new
  BY <1>1
<1>3. IsSequence(new) /\ DOMAIN new = 1 .. n + 1 /\ new[n + 1] = line /\ \A k \in 1 .. n : new[k] = m[k]
  BY <1>1, <1>2, SequenceExtended
<1> DEFINE o == [k \in 1 .. n + 1 |-> IF k = n + 1 THEN i ELSE order[k]]
<1>4. o[n + 1] = i /\ \A k \in 1 .. n : o[k] = order[k]
  <2>1. n + 1 \in 1 .. n + 1 /\ \A k \in 1 .. n : k \in 1 .. n + 1 /\ k # n + 1
    BY <1>1
  <2>2. QED BY <2>1
<1> HIDE DEF o
<1>5. \A k \in 1 .. n + 1 : k \in 1 .. n \/ k = n + 1
  BY <1>1
<1>6. \A k \in 1 .. n : k \in 1 .. n + 1
  BY <1>1
<1>7. /\ \A k \in 1 .. n : order[k] \in LinesIn("code", i)
      /\ \A k, l \in 1 .. n : k < l => order[k] < order[l]
      /\ \A j \in LinesIn("code", i) : \E k \in 1 .. n : order[k] = j
      /\ \A k \in 1 .. n : NamesRead(m[k], order[k]) /\ Unresolved(m[k], order[k])
  BY <1>1 DEF LinesRead, IsOrder
<1>8. \A k \in 1 .. n + 1 : o[k] \in LinesIn("code", i + 1)
  BY <1>4, <1>5, <1>7
<1>9. ASSUME NEW k \in 1 .. n + 1, NEW l \in 1 .. n + 1, k < l PROVE o[k] < o[l]
  <2>1. k \in 1 .. n
    BY <1>1, <1>9
  <2>2. CASE l \in 1 .. n
    BY <1>4, <1>7, <1>9, <2>1, <2>2
  <2>3. CASE l = n + 1
    <3>1. order[k] \in 1 .. i - 1
      BY <1>7, <2>1
    <3>2. order[k] < i
      BY <3>1
    <3>3. QED BY <1>4, <2>1, <2>3, <3>2
  <2>4. QED BY <1>5, <2>2, <2>3
<1>10. \A j \in LinesIn("code", i + 1) : \E k \in 1 .. n + 1 : o[k] = j
  <2> SUFFICES ASSUME NEW j \in LinesIn("code", i) \union {i} PROVE \E k \in 1 .. n + 1 : o[k] = j
    OBVIOUS
  <2>1. CASE j = i
    <3>1. n + 1 \in 1 .. n + 1
      BY <1>1
    <3>2. QED BY <1>4, <2>1, <3>1
  <2>2. CASE j # i
    <3>1. PICK k \in 1 .. n : order[k] = j
      BY <1>7, <2>2
    <3>2. QED BY <1>4, <1>6, <3>1
  <2>3. QED BY <2>1, <2>2
<1>11. \A k \in 1 .. n + 1 : NamesRead(new[k], o[k]) /\ Unresolved(new[k], o[k])
  BY <1>3, <1>4, <1>5, <1>7
<1>12. \A l, j : (NamesRead(l, j)' <=> NamesRead(l, j)) /\ (Unresolved(l, j)' <=> Unresolved(l, j))
  BY SameLines, SameCode DEF NamesRead, Unresolved
<1>13. LinesIn("code", i + 1)' = LinesIn("code", i + 1)
  BY SameLines
<1>14. IsOrder(o, i + 1)'
  BY <1>2, <1>3, <1>8, <1>9, <1>10, <1>13 DEF IsOrder
<1>15. \A k \in DOMAIN m_instr_lines' : NamesRead(m_instr_lines[k], o[k])' /\ Unresolved(m_instr_lines[k], o[k])'
  <2>1. ASSUME NEW k \in 1 .. n + 1 PROVE NamesRead(m_instr_lines[k], o[k])' /\ Unresolved(m_instr_lines[k], o[k])'
    <3>1. PICK l : l = new[k] /\ m_instr_lines'[k] = l
      BY <1>2
    <3>2. NamesRead(l, o[k])' /\ Unresolved(l, o[k])'
      BY <1>11, <1>12, <3>1
    <3>3. QED BY <3>1, <3>2 DEF NamesRead, Unresolved
  <2>2. QED BY <1>2, <1>3, <2>1
<1>16. LinesRead(o, i + 1)'
  BY <1>2, <1>3, <1>14, <1>15 DEF LinesRead
<1>17. QED BY <1>15, <1>16

LEMMA CodeLineReads ==
  ASSUME source \in Sources, ReadInv, CodeLine
  PROVE  GivesUp \/ (ReadInv' /\ phase' = "parse" /\ source' = source)
<1>1. PICK i : i = row
  OBVIOUS
<1>2. Reading /\ words[1] \notin {"section", "end"} /\ current_section = "code"
  BY DEF CodeLine, InSection
<1>3. /\ phase = "parse" /\ i \in 1 .. Len(source) /\ i \in Nat /\ i # 0
      /\ TablesRead(i) /\ words = source[i]
      /\ ~ Bracket(i) /\ SectionOf(i) = "code" /\ SectionOf(i + 1) = "code"
      /\ source[i][1] # "section" /\ source[i][1] # "end"
  BY <1>1, <1>2, LineInSection
<1>4. /\ LinesIn("code", i + 1) = LinesIn("code", i) \union {i}
      /\ LinesIn("config", i + 1) = LinesIn("config", i)
      /\ LinesIn("control_word", i + 1) = LinesIn("control_word", i)
      /\ LinesIn("alias", i + 1) = LinesIn("alias", i)
      /\ LinesIn("code", i) \subseteq 1 .. i - 1
  BY <1>1, <1>2, LineInSection
<1>5. i \in 1 .. End /\ i \in Code
  <2>1. i \in 1 .. End /\ i \in 1 .. End - 1
    BY <1>3, LinesHaveWords
  <2>2. QED BY <1>3, <2>1 DEF Code, LinesIn
<1>6. /\ Config("address_width") = Setting("address_width", i) /\ Setting("address_width", i) \in Nat
      /\ DOMAIN control_lines = Names(i) /\ DOMAIN alias = Aliases(i)
  <2>1. Config("address_width") = Setting("address_width", i) /\ Setting("address_width", i) \in 0 .. 63
    BY <1>3, <1>5, ConfigMeans
  <2>2. DOMAIN control_lines = Names(i) /\ DOMAIN alias = Aliases(i)
    BY <1>3, <1>5, NamesMean
  <2>3. QED BY <2>1, <2>2
<1>7. CASE Config("address_width") = 0 /\ Refuse
  <2>1. ~ WellFormedCode(i)
    BY <1>6, <1>7 DEF WellFormedCode
  <2>2. QED BY <1>5, <1>7, <2>1, NotMeant
<1>8. CASE LongEnough = {} /\ Undefined
  <2>1. AddressEnds(i) = {}
    BY <1>1, <1>3, <1>6, <1>8, StopsAtEnd
  <2>2. ~ WellFormedCode(i)
    BY <2>1 DEF WellFormedCode
  <2>3. QED BY <1>5, <1>8, <2>2, NotMeant
<1>9. CASE LongEnough # {} /\ Len(Strung(AddressWords)) # Config("address_width") /\ Refuse
  <2>1. AddressEnds(i) = {}
    BY <1>1, <1>3, <1>6, <1>9, StopsAtEnd
  <2>2. ~ WellFormedCode(i)
    BY <2>1 DEF WellFormedCode
  <2>3. QED BY <1>5, <1>9, <2>2, NotMeant
<1>10. CASE /\ LongEnough # {} /\ Len(Strung(AddressWords)) = Config("address_width")
            /\ Range(Rest) \ (DOMAIN alias \union DOMAIN control_lines) # {} /\ Refuse
  <2>1. AddressWords \in AddressEnds(i)
    BY <1>1, <1>3, <1>6, <1>10, StopsAtEnd
  <2>2. Range(Rest) = Signals(i)
    BY <1>1, <1>3, <2>1, RestNames
  <2>3. ~ WellFormedCode(i)
    BY <1>6, <1>10, <2>2 DEF WellFormedCode
  <2>4. QED BY <1>5, <1>10, <2>3, NotMeant
<1> DEFINE line == [first |-> Strung(AddressWords),
                    second |-> FlattenSeq([k \in DOMAIN Rest |-> Meaning(Rest[k])])]
<1>11. CASE /\ Config("address_width") > 0
            /\ LongEnough # {} /\ Len(Strung(AddressWords)) = Config("address_width")
            /\ Range(Rest) \ (DOMAIN alias \union DOMAIN control_lines) = {}
            /\ m_instr_lines' = Append(m_instr_lines, line)
            /\ NextLine /\ UNCHANGED <<current_section, tables>>
  <2>1. AddressWords \in AddressEnds(i) /\ Strung(AddressWords) = Chars(i, AddressWords)
    BY <1>1, <1>3, <1>6, <1>11, StopsAtEnd
  <2>2. Strung(AddressWords) = Pattern(i)
    BY <1>3, <2>1, OneEnd DEF Pattern
  <2>3. /\ Range(Rest) = Signals(i)
        /\ IsSequence(FlattenSeq([k \in DOMAIN Rest |-> Meaning(Rest[k])]))
        /\ Range(FlattenSeq([k \in DOMAIN Rest |-> Meaning(Rest[k])])) = Named(i)
    BY <1>1, <1>3, <2>1, RestNames
  <2>4. NamesRead(line, i)
    <3>1. Setting("address_width", i) > 0 /\ AddressEnds(i) # {} /\ Signals(i) \subseteq Aliases(i) \union Names(i)
      BY <1>6, <1>11, <2>1, <2>3
    <3>2. line = [first |-> line.first, second |-> line.second]
      OBVIOUS
    <3>3. QED BY <2>3, <3>1, <3>2 DEF NamesRead
  <2>5. Unresolved(line, i)
    BY <2>2 DEF Unresolved
  <2>6. /\ row' = i + 1 /\ phase' = "parse" /\ source' = source
        /\ current_section' = current_section /\ UNCHANGED tables
    BY <1>1, <1>3, <1>11 DEF NextLine
  <2>7. PICK order : /\ LinesRead(order, i)
                     /\ \A k \in DOMAIN m_instr_lines : Unresolved(m_instr_lines[k], order[k])
    BY <1>1, <1>3 DEF ReadInv
  <2>8. m_instr_lines' = Append(m_instr_lines, line)
    BY <1>11
  <2> HIDE DEF line
  <2>9. PICK o : /\ LinesRead(o, i + 1)'
                 /\ \A k \in DOMAIN m_instr_lines' : Unresolved(m_instr_lines[k], o[k])'
    BY <1>3, <1>4, <2>4, <2>5, <2>6, <2>7, <2>8, LineAdded
  <2>10. WellShapedLine(i)
    BY <1>3 DEF WellShapedLine
  <2>11. TablesRead(i + 1)'
    BY <1>2, <1>3, <2>6, <2>10, TablesPassed
  <2>12. row' \in 1 .. End'
    <3>1. i + 1 \in 1 .. End
      BY <1>3, LinesHaveWords
    <3>2. QED BY <2>6, <3>1, SameLines
  <2>13. LinesRead(o, row)' /\ TablesRead(row)'
    BY <2>6, <2>9, <2>11
  <2>14. ReadInv'
    BY <2>9, <2>12, <2>13 DEF ReadInv
  <2>15. QED BY <2>6, <2>14
<1>12. QED BY <1>7, <1>8, <1>9, <1>10, <1>11 DEF CodeLine

LEMMA EndOfFileReads ==
  ASSUME source \in Sources, ReadInv, EndOfFile
  PROVE  source' = source /\ phase' = "dashes" /\ WalkedInv' /\ DashesInv'
<1>1. /\ phase = "parse" /\ row > Len(source) /\ phase' = "dashes" /\ row' = 1
      /\ UNCHANGED <<source, current_section, m_instr_lines>> /\ UNCHANGED tables
  BY DEF EndOfFile
<1>2. row = End
  <2>1. row \in 1 .. End
    BY <1>1 DEF ReadInv
  <2>2. QED BY <1>1, <2>1, LinesHaveWords
<1>3. TablesRead(End)
  BY <1>1, <1>2 DEF ReadInv
<1>4. PICK order : /\ LinesRead(order, End)
                   /\ \A k \in DOMAIN m_instr_lines : Unresolved(m_instr_lines[k], order[k])
  BY <1>1, <1>2 DEF ReadInv
<1>5. TablesRead(End)' /\ LinesRead(order, End)'
  <2>1. PICK e : e = End /\ End' = e
    BY <1>1, SameLines
  <2>2. TablesRead(e)' /\ LinesRead(order, e)'
    BY <1>1, <1>3, <1>4, <2>1, TablesKept, LinesKept
  <2>3. QED BY <2>1, <2>2
<1>6. Len(m_instr_lines) \in Nat /\ DOMAIN m_instr_lines = 1 .. Len(m_instr_lines)
  BY <1>4, SequenceParts DEF LinesRead
<1>7. WalkedInv'
  <2>1. row' \in 1 .. Len(m_instr_lines') + 1
    BY <1>1, <1>6
  <2>2. IsSequence(m_instr_lines')
    BY <1>1, <1>4 DEF LinesRead
  <2>3. QED BY <1>5, <2>1, <2>2 DEF WalkedInv
<1>8. DashesInv'
  <2>1. ASSUME NEW k \in DOMAIN m_instr_lines'
        PROVE  IF k < row'
               THEN Resolved(m_instr_lines[k], order[k])'
               ELSE Unresolved(m_instr_lines[k], order[k])'
    <3>1. k \in DOMAIN m_instr_lines /\ ~(k < row')
      BY <1>1, <1>6
    <3>2. Unresolved(m_instr_lines[k], order[k])'
      BY <1>1, <1>4, <3>1, LinesKept
    <3>3. QED BY <3>1, <3>2
  <2>2. QED BY <1>5, <2>1 DEF DashesInv
<1>9. QED BY <1>1, <1>7, <1>8

LEMMA InitReads ==
  ASSUME Init
  PROVE  MicrocodeInv
<1>1. source \in Sources /\ phase = "parse" /\ row = 1 /\ current_section = NoSection
  BY DEF Init
<1>2. row \in 1 .. End
  BY <1>1, LinesHaveWords
<1>3. SectionOf(1) = NoSection /\ \A name : LinesIn(name, 1) = {}
  BY FirstSection
<1>4. TablesRead(1)
  <2>1. \A j : j \notin 1 .. 1 - 1
    OBVIOUS
  <2>2. config = Empty /\ control_lines = Empty /\ alias = Empty
    BY DEF Init
  <2>3. QED BY <1>1, <1>3, <2>1, <2>2, NoTable DEF TablesRead
<1>5. LinesRead(<<>>, 1) /\ \A k \in DOMAIN m_instr_lines : Unresolved(m_instr_lines[k], <<>>[k])
  <2>1. m_instr_lines = <<>> /\ <<>> \in Seq({}) /\ \A k : k \notin DOMAIN <<>>
    BY DEF Init
  <2>2. IsSequence(m_instr_lines) /\ \A k : k \notin DOMAIN m_instr_lines
    BY <2>1 DEF IsSequence
  <2>3. QED BY <1>3, <2>2 DEF LinesRead, IsOrder
<1>6. ReadInv
  BY <1>1, <1>2, <1>4, <1>5 DEF ReadInv
<1>7. QED BY <1>1, <1>6 DEF MicrocodeInv, WalkedInv, DashesInv, CompileInv, ImageIsMicrocode
-------------------------------------------------------------------------------
(***************************************************************************)
(* Dashes.                                                                 *)
(***************************************************************************)
LEMMA PlainPattern ==
  ASSUME source \in Sources, Plain, NEW j \in Code, AddressEnds(j) # {}
  PROVE  /\ IsSequence(Pattern(j)) /\ Width \in Nat /\ DOMAIN Pattern(j) = 1 .. Width
         /\ Len(Pattern(j)) = Width
         /\ \A pos \in 1 .. Width : Pattern(j)[pos] \in {"0", "1", "*", "-"}
<1>1. j \in 1 .. Len(source)
  BY LinesHaveWords DEF Code, LinesIn
<1>2. Setting("address_width", j) = Width /\ Range(Pattern(j)) \subseteq {"0", "1", "*", "-"}
  BY DEF Plain
<1>3. IsSequence(Pattern(j)) /\ Len(Pattern(j)) = Width
  BY <1>1, <1>2, PatternParts
<1>4. Len(Pattern(j)) \in Nat /\ DOMAIN Pattern(j) = 1 .. Len(Pattern(j))
  BY <1>3, SequenceParts
<1>5. QED BY <1>2, <1>3, <1>4 DEF Range

\* The lines of microcode before a line are up to the line before it.
LEMMA EarlierLines ==
  ASSUME source \in Sources, NEW order, IsOrder(order, End), NEW n \in Nat, DOMAIN m_instr_lines = 1 .. n,
         NEW k \in 1 .. n
  PROVE  /\ order[k] \in Code /\ order[k] \in Nat
         /\ k # 1 => order[k - 1] \in Code /\ order[k - 1] < order[k] /\ order[k - 1] \in Nat
         /\ \A j \in Code : j < order[k] => k # 1 /\ j <= order[k - 1]
<1>1. /\ \A l \in 1 .. n : order[l] \in Code
      /\ \A a, b \in 1 .. n : a < b => order[a] < order[b]
      /\ \A j \in Code : \E l \in 1 .. n : order[l] = j
  BY DEF IsOrder, Code
<1>2. Code \subseteq Nat
  BY LinesHaveWords DEF Code, LinesIn
<1>3. \A l \in 1 .. n : order[l] \in Nat
  BY <1>1, <1>2
<1>4. k # 1 => k - 1 \in 1 .. n /\ k - 1 < k
  OBVIOUS
<1>5. ASSUME NEW j \in Code, j < order[k] PROVE k # 1 /\ j <= order[k - 1]
  <2>1. PICK l \in 1 .. n : order[l] = j
    BY <1>1
  <2>2. order[l] \in Nat /\ order[k] \in Nat /\ order[l] < order[k]
    BY <1>3, <1>5, <2>1
  <2>3. l # k
    BY <2>2
  <2>4. ~(k < l)
    <3>1. k < l => order[k] < order[l]
      BY <1>1
    <3>2. QED BY <2>2, <3>1
  <2>5. l < k /\ k # 1
    BY <2>3, <2>4
  <2>6. CASE l = k - 1
    BY <1>3, <2>1, <2>5, <2>6
  <2>7. CASE l # k - 1
    <3>1. k - 1 \in 1 .. n /\ l < k - 1
      BY <2>5, <2>7
    <3>2. order[l] < order[k - 1] /\ order[k - 1] \in Nat
      BY <1>1, <1>3, <3>1
    <3>3. QED BY <2>1, <2>2, <2>5, <3>2
  <2>8. QED BY <2>6, <2>7
<1>6. QED BY <1>1, <1>3, <1>4, <1>5

LEMMA GiversBefore ==
  ASSUME source \in Sources, NEW i \in Nat, NEW pos
  PROVE  Giver(i, pos) \subseteq 0 .. i /\ \A j \in Giver(i, pos) : j <= i
<1>1. Code \subseteq Nat
  BY LinesHaveWords DEF Code, LinesIn
<1>2. \A j \in Giver(i, pos) : j \in Code /\ j <= i
  BY DEF Giver
<1>3. \A j \in Giver(i, pos) : j \in Nat /\ j <= i
  BY <1>1, <1>2
<1>4. \A j \in Giver(i, pos) : j \in 0 .. i
  BY <1>3
<1>5. QED BY <1>3, <1>4

\* A character that is no dash is its own giver; a dash has those of the line above.
GiversAre(order, k, i, pos) ==
  /\ Pattern(i)[pos] # "-" =>
       /\ Giver(i, pos) # {} /\ Max(Giver(i, pos)) = i
       /\ CharAt(i, pos) = Pattern(i)[pos]
  /\ Pattern(i)[pos] = "-" =>
       IF k = 1 THEN Giver(i, pos) = {}
       ELSE Giver(i, pos) = Giver(order[k - 1], pos) /\ CharAt(i, pos) = CharAt(order[k - 1], pos)

LEMMA Givers ==
  ASSUME source \in Sources, NEW order, IsOrder(order, End), NEW n \in Nat, DOMAIN m_instr_lines = 1 .. n,
         NEW k \in 1 .. n, NEW pos
  PROVE  GiversAre(order, k, order[k], pos)
<1>1. /\ order[k] \in Code /\ order[k] \in Nat
      /\ k # 1 => order[k - 1] \in Code /\ order[k - 1] < order[k] /\ order[k - 1] \in Nat
      /\ \A j \in Code : j < order[k] => k # 1 /\ j <= order[k - 1]
  BY EarlierLines
<1>2. PICK i : i = order[k]
  OBVIOUS
<1>3. Code \subseteq Nat
  BY LinesHaveWords DEF Code, LinesIn
<1>4. CASE Pattern(i)[pos] # "-"
  <2>1. i \in Nat /\ Giver(i, pos) \subseteq 0 .. i /\ i \in Giver(i, pos) /\ \A j \in Giver(i, pos) : j <= i
    <3>1. i \in Nat /\ i \in Giver(i, pos)
      BY <1>1, <1>2, <1>4 DEF Giver
    <3>2. QED BY <3>1, GiversBefore
  <2>2. Max(Giver(i, pos)) = i
    BY <2>1, LastIs
  <2>3. QED BY <1>2, <1>4, <2>1, <2>2 DEF CharAt, GiversAre
<1>5. CASE Pattern(i)[pos] = "-"
  <2>1. \A j \in Giver(i, pos) : j \in Code /\ j < i
    BY <1>1, <1>2, <1>3, <1>5 DEF Giver
  <2>2. CASE k = 1
    BY <1>1, <1>2, <1>5, <2>1, <2>2 DEF GiversAre
  <2>3. CASE k # 1
    <3>1. PICK p \in Nat : p = order[k - 1] /\ p \in Code /\ p < i
      BY <1>1, <1>2, <2>3
    <3>2. Giver(i, pos) \subseteq Giver(p, pos)
      BY <1>1, <1>2, <2>1, <3>1 DEF Giver
    <3>3. Giver(p, pos) \subseteq Giver(i, pos)
      <4>1. \A j \in Code : j <= p => j <= i
        BY <1>1, <1>2, <1>3, <3>1
      <4>2. QED BY <4>1 DEF Giver
    <3>4. Giver(i, pos) = Giver(p, pos)
      BY <3>2, <3>3
    <3>5. CharAt(i, pos) = CharAt(p, pos)
      BY <3>4 DEF CharAt
    <3>6. QED BY <1>2, <1>5, <2>3, <3>1, <3>4, <3>5 DEF GiversAre
  <2>4. QED BY <2>2, <2>3
<1>6. QED BY <1>2, <1>4, <1>5

\* The line at hand with its dashes resolved.
Undashed ==
  [first |-> [pos \in DOMAIN Mask |-> IF pos \in Dashes THEN CharAbove(pos) ELSE Mask[pos]],
   second |-> m_instr_lines[row].second]

\* The line at hand, and the one above it, which is resolved.
RowFits(j) ==
  /\ j \in Code /\ Width \in Nat /\ Dashes \subseteq 1 .. Width
  /\ NothingAbove # {} => ~ WellFormedCode(j)
  /\ row # 1 => Len(Above) = Width
  /\ NothingAbove = {} => Resolved(Undashed, j)

LEMMA RowResolves ==
  ASSUME source \in Sources, Plain, NEW order, LinesRead(order, End), NEW n \in Nat,
         DOMAIN m_instr_lines = 1 .. n, NEW k \in 1 .. n, row = k,
         Unresolved(m_instr_lines[k], order[k]),
         k # 1 => Resolved(m_instr_lines[k - 1], order[k - 1])
  PROVE  RowFits(order[k])
<1>1. PICK i : i = order[k]
  OBVIOUS
<1>2. i \in Code /\ AddressEnds(i) # {}
  BY <1>1 DEF LinesRead, NamesRead, IsOrder, Code
<1>3. Mask = Pattern(i)
  BY <1>1 DEF Unresolved, Mask
<1>4. /\ Width \in Nat /\ DOMAIN Mask = 1 .. Width
      /\ \A pos \in 1 .. Width : Pattern(i)[pos] \in {"0", "1", "*", "-"}
  BY <1>2, <1>3, PlainPattern
<1>5. Dashes = {pos \in 1 .. Width : Pattern(i)[pos] = "-"}
  BY <1>3, <1>4 DEF Dashes
<1>6. ASSUME k # 1
      PROVE  /\ Above = [pos \in 1 .. Width |-> CharAt(order[k - 1], pos)]
             /\ Len(Above) = Width /\ DOMAIN Above = 1 .. Width
  <2>1. Above = [pos \in 1 .. Width |-> CharAt(order[k - 1], pos)]
    BY <1>6 DEF Above, Resolved
  <2>2. QED BY <1>4, <2>1
<1>7. \A pos \in 1 .. Width : GiversAre(order, k, i, pos)
  <2>1. IsOrder(order, End)
    BY DEF LinesRead
  <2>2. QED BY <1>1, <2>1, Givers
<1>8. \A pos \in Dashes : pos \in NothingAbove <=> k = 1 \/ CharAt(i, pos) = "*"
  BY <1>4, <1>5, <1>6, <1>7 DEF NothingAbove, GiversAre
<1>9. ASSUME NothingAbove # {} PROVE ~ WellFormedCode(i)
  <2>1. PICK pos \in NothingAbove : pos \in Dashes
    BY <1>9 DEF NothingAbove
  <2>2. pos \in 1 .. Width /\ Pattern(i)[pos] = "-"
    BY <1>5, <2>1
  <2>3. SUFFICES ASSUME Giver(i, pos) # {}, CharAt(i, pos) = "*" => Max(Giver(i, pos)) = i PROVE FALSE
    BY <2>2 DEF WellFormedCode
  <2>4. k # 1
    BY <1>7, <2>2, <2>3 DEF GiversAre
  <2>5. Max(Giver(i, pos)) = i
    BY <1>8, <2>1, <2>3, <2>4
  <2>6. Code \subseteq Nat
    BY LinesHaveWords DEF Code, LinesIn
  <2>7. i \in Nat /\ Giver(i, pos) \subseteq 0 .. i
    BY <1>2, <2>6, GiversBefore
  <2>8. Max(Giver(i, pos)) \in Giver(i, pos)
    BY <2>3, <2>7, LastOne
  <2>9. QED BY <2>2, <2>5, <2>8 DEF Giver
<1> DEFINE new == [pos \in DOMAIN Mask |-> IF pos \in Dashes THEN CharAbove(pos) ELSE Mask[pos]]
<1>10. ASSUME NothingAbove = {} PROVE Resolved(Undashed, i)
  <2>1. ASSUME NEW pos \in 1 .. Width
        PROVE  /\ new[pos] = CharAt(i, pos)
               /\ Giver(i, pos) # {} /\ (CharAt(i, pos) = "*" => Max(Giver(i, pos)) = i)
    <3>1. CASE Pattern(i)[pos] # "-"
      BY <1>3, <1>4, <1>5, <1>7, <3>1 DEF GiversAre
    <3>2. CASE Pattern(i)[pos] = "-"
      <4>1. pos \in Dashes /\ k # 1 /\ CharAt(i, pos) # "*"
        BY <1>5, <1>8, <1>10, <3>2
      <4>2. Giver(i, pos) = Giver(order[k - 1], pos) /\ CharAt(i, pos) = CharAt(order[k - 1], pos)
        BY <1>7, <3>2, <4>1 DEF GiversAre
      <4>3. Giver(order[k - 1], pos) # {}
        BY <4>1 DEF Resolved
      <4>4. CharAbove(pos) = CharAt(i, pos)
        BY <1>4, <1>6, <4>1, <4>2 DEF CharAbove
      <4>5. QED BY <1>4, <4>1, <4>2, <4>3, <4>4
    <3>3. QED BY <3>1, <3>2
  <2>2. new = [pos \in 1 .. Width |-> CharAt(i, pos)]
    <3>1. new = [pos \in 1 .. Width |-> new[pos]]
      BY <1>4
    <3> HIDE DEF new
    <3>2. QED BY <2>1, <3>1
  <2>3. Undashed.first = new
    BY DEF Undashed
  <2> HIDE DEF new
  <2>4. QED BY <2>1, <2>2, <2>3 DEF Resolved
<1>11. Dashes \subseteq 1 .. Width
  BY <1>5
<1>12. QED BY <1>1, <1>2, <1>4, <1>6, <1>9, <1>10, <1>11 DEF RowFits
LEMMA DashesDone ==
  ASSUME source \in Sources, WalkedInv, DashesInv, ProcessDashes
  PROVE  GivesUp \/ (source' = source /\ phase' = "dashes" /\ WalkedInv' /\ DashesInv')
<1>1. PICK k : k = row
  OBVIOUS
<1>2. phase = "dashes" /\ row <= Len(m_instr_lines)
  BY DEF ProcessDashes
<1>3. TablesRead(End) /\ IsSequence(m_instr_lines) /\ k \in 1 .. Len(m_instr_lines) + 1
  BY <1>1, <1>2 DEF WalkedInv
<1>4. PICK n \in Nat : n = Len(m_instr_lines) /\ DOMAIN m_instr_lines = 1 .. n
  BY <1>3, SequenceParts
<1>5. k \in 1 .. n
  BY <1>1, <1>2, <1>3, <1>4
<1>6. ASSUME Plain
      PROVE  \E order :
               /\ LinesRead(order, End)
               /\ \A l \in 1 .. n : IF l < k THEN Resolved(m_instr_lines[l], order[l])
                                    ELSE Unresolved(m_instr_lines[l], order[l])
  BY <1>1, <1>2, <1>4, <1>6 DEF DashesInv
<1> DEFINE new == [pos \in DOMAIN Mask |-> IF pos \in Dashes THEN CharAbove(pos) ELSE Mask[pos]]
<1>7. ASSUME Plain, NEW order, LinesRead(order, End),
             \A l \in 1 .. n : IF l < k THEN Resolved(m_instr_lines[l], order[l])
                               ELSE Unresolved(m_instr_lines[l], order[l])
      PROVE  RowFits(order[k])
  <2>1. Unresolved(m_instr_lines[k], order[k])
    BY <1>5, <1>7
  <2>2. k # 1 => Resolved(m_instr_lines[k - 1], order[k - 1])
    <3>1. k # 1 => k - 1 \in 1 .. n /\ k - 1 < k
      BY <1>5
    <3>2. QED BY <1>7, <3>1
  <2>3. QED BY <1>1, <1>4, <1>5, <1>7, <2>1, <2>2, RowResolves
<1>8. CASE NothingAbove # {} /\ Refuse
  <2>1. ASSUME Plain PROVE ~ WellFormed
    <3>1. PICK order : RowFits(order[k])
      BY <1>6, <1>7, <2>1
    <3>2. QED BY <1>8, <3>1 DEF WellFormed, RowFits
  <2>2. QED BY <1>8, <2>1 DEF GivesUp, Refuse
<1>9. CASE NothingAbove = {} /\ (\E pos \in Dashes : pos > Len(Above) + 1) /\ Undefined
  <2>1. ASSUME Plain PROVE FALSE
    <3>1. PICK order : RowFits(order[k])
      BY <1>6, <1>7, <2>1
    <3>2. PICK pos \in Dashes : pos > Len(Above) + 1
      BY <1>9
    <3>3. k # 1
      BY <1>1, <1>9, <3>2 DEF NothingAbove
    <3>4. pos \in 1 .. Width /\ Len(Above) = Width /\ Width \in Nat
      BY <1>1, <3>1, <3>2, <3>3 DEF RowFits
    <3>5. QED BY <3>2, <3>4
  <2>2. QED BY <1>9, <2>1 DEF GivesUp, Undefined
<1>10. CASE /\ NothingAbove = {}
            /\ m_instr_lines' = [m_instr_lines EXCEPT ![row].first = new]
            /\ row' = row + 1
            /\ UNCHANGED <<source, phase, current_section, tables, results>>
  <2>1. PICK e : e = [m_instr_lines[k] EXCEPT !.first = new]
    OBVIOUS
  <2>2. PICK u : u = [m_instr_lines EXCEPT ![k] = e] /\ m_instr_lines' = u
    BY <1>1, <1>10, <2>1
  <2>3. IsSequence(u) /\ Len(u) = n /\ DOMAIN u = 1 .. n /\ u[k] = e /\ \A l \in 1 .. n : l # k => u[l] = m_instr_lines[l]
    BY <1>3, <1>4, <1>5, <2>2, SequenceReplaced
  <2>4. source' = source /\ phase' = "dashes" /\ row' = k + 1 /\ UNCHANGED <<source, current_section, tables>>
    BY <1>1, <1>2, <1>10
  <2>5. WalkedInv'
    <3>1. TablesRead(End)'
      <4>1. PICK end : end = End /\ End' = end
        BY <2>4, SameLines
      <4>2. TablesRead(end)'
        BY <1>3, <2>4, <4>1, TablesKept
      <4>3. QED BY <4>1, <4>2
    <3>2. row' \in 1 .. Len(m_instr_lines') + 1
      BY <1>5, <2>2, <2>3, <2>4
    <3>3. QED BY <2>2, <2>3, <3>1, <3>2 DEF WalkedInv
  <2>6. ASSUME Plain PROVE DashesInv'
    <3>1. PICK order : /\ LinesRead(order, End)
                       /\ \A l \in 1 .. n : IF l < k THEN Resolved(m_instr_lines[l], order[l])
                                            ELSE Unresolved(m_instr_lines[l], order[l])
      BY <1>6, <2>6
    <3>2. Resolved(Undashed, order[k])
      BY <1>7, <1>10, <2>6, <3>1 DEF RowFits
    <3>3. NamesRead(m_instr_lines[k], order[k])
      BY <1>4, <1>5, <3>1 DEF LinesRead
    <3>4. e = Undashed
      <4>1. PICK x, y : m_instr_lines[k] = [first |-> x, second |-> y] /\ y = m_instr_lines[k].second
        BY <3>3 DEF NamesRead
      <4>2. QED BY <1>1, <2>1, <4>1 DEF Undashed
    <3>5. NamesRead(Undashed, order[k])
      <4>1. /\ Undashed.second = m_instr_lines[k].second
            /\ Undashed = [first |-> Undashed.first, second |-> Undashed.second]
        BY <1>1 DEF Undashed
      <4>2. QED BY <3>3, <4>1 DEF NamesRead
    <3> HIDE DEF new
    <3>6. \A x, j : (NamesRead(x, j)' <=> NamesRead(x, j)) /\ (Unresolved(x, j)' <=> Unresolved(x, j))
      BY <2>4, SameLines, SameCode DEF NamesRead, Unresolved
    <3>7. \A x, j : Resolved(x, j)' <=> Resolved(x, j)
      BY <2>4, SameResolved
    <3>8. ASSUME NEW l \in 1 .. n
          PROVE  /\ NamesRead(u[l], order[l])
                 /\ IF l < k + 1 THEN Resolved(u[l], order[l]) ELSE Unresolved(u[l], order[l])
      <4>1. CASE l = k
        BY <1>5, <2>3, <3>2, <3>4, <3>5, <4>1
      <4>2. CASE l # k
        <5>1. l < k + 1 <=> l < k
          BY <1>5, <4>2
        <5>2. QED BY <1>4, <2>3, <3>1, <4>2, <5>1 DEF LinesRead
      <4>3. QED BY <4>1, <4>2
    <3>9. IsOrder(order, End)'
      <4>1. \A i : LinesIn("code", i)' = LinesIn("code", i)
        BY <2>4, SameLines
      <4>2. End' = End
        BY <2>4, SameLines
      <4>3. QED BY <1>4, <2>2, <2>3, <3>1, <4>1, <4>2 DEF LinesRead, IsOrder
    <3>10. ASSUME NEW l \in 1 .. n
           PROVE  /\ NamesRead(m_instr_lines[l], order[l])'
                  /\ IF l < row' THEN Resolved(m_instr_lines[l], order[l])'
                     ELSE Unresolved(m_instr_lines[l], order[l])'
      <4>1. PICK x : x = u[l]
        OBVIOUS
      <4>2. /\ NamesRead(x, order[l])'
            /\ IF l < k + 1 THEN Resolved(x, order[l])' ELSE Unresolved(x, order[l])'
        BY <3>6, <3>7, <3>8, <4>1
      <4>3. m_instr_lines'[l] = x
        BY <2>2, <4>1
      <4>4. QED BY <2>4, <4>2, <4>3
    <3>11. LinesRead(order, End)'
      BY <2>2, <2>3, <3>9, <3>10 DEF LinesRead
    <3>12. QED BY <2>2, <2>3, <3>10, <3>11 DEF DashesInv
  <2>7. ASSUME ~ Plain PROVE DashesInv'
    BY <2>4, <2>7, SameMeaning DEF DashesInv
  <2>8. QED BY <2>4, <2>5, <2>6, <2>7
<1>11. QED BY <1>8, <1>9, <1>10 DEF ProcessDashes
-------------------------------------------------------------------------------
(***************************************************************************)
(* Addresses.                                                              *)
(***************************************************************************)
BitOf(adr, n, pos) == IF Half(adr, n - pos) % 2 = 1 THEN "1" ELSE "0"

\* The expansions of a mask are the strings of digits that agree with it but for the stars.
LEMMA ExpansionsAre ==
  ASSUME NEW n \in Nat, NEW mask \in [1 .. n -> {"0", "1", "*"}]
  PROVE  Expansions(mask) = {e \in [1 .. n -> {"0", "1"}] :
                               \A pos \in 1 .. n : mask[pos] = "*" \/ e[pos] = mask[pos]}
<1> DEFINE E == {e \in [1 .. n -> {"0", "1"}] :
                   \A pos \in 1 .. n : mask[pos] = "*" \/ e[pos] = mask[pos]}
           Put(choice) == [pos \in DOMAIN mask |-> IF pos \in Stars(mask) THEN choice[pos] ELSE mask[pos]]
<1>1. Stars(mask) = {pos \in 1 .. n : mask[pos] = "*"}
  BY DEF Stars
<1>2. ASSUME NEW choice \in [Stars(mask) -> {"0", "1"}] PROVE Put(choice) \in E
  <2>1. ASSUME NEW pos \in 1 .. n
        PROVE  Put(choice)[pos] \in {"0", "1"} /\ (mask[pos] = "*" \/ Put(choice)[pos] = mask[pos])
    <3>1. mask[pos] \in {"0", "1", "*"}
      OBVIOUS
    <3>2. Put(choice)[pos] = IF mask[pos] = "*" THEN choice[pos] ELSE mask[pos]
      BY <1>1
    <3>3. mask[pos] = "*" => choice[pos] \in {"0", "1"}
      BY <1>1
    <3> HIDE DEF Put
    <3>4. QED BY <3>1, <3>2, <3>3
  <2>2. Put(choice) = [pos \in 1 .. n |-> Put(choice)[pos]]
    OBVIOUS
  <2> HIDE DEF Put
  <2>3. Put(choice) \in [1 .. n -> {"0", "1"}]
    BY <2>1, <2>2
  <2>4. QED BY <2>1, <2>3
<1>3. ASSUME NEW e \in E PROVE \E choice \in [Stars(mask) -> {"0", "1"}] : e = Put(choice)
  <2> DEFINE c == [pos \in Stars(mask) |-> e[pos]]
  <2>1. c \in [Stars(mask) -> {"0", "1"}]
    BY <1>1
  <2>2. ASSUME NEW pos \in 1 .. n PROVE e[pos] = Put(c)[pos]
    <3>1. Put(c)[pos] = IF mask[pos] = "*" THEN e[pos] ELSE mask[pos]
      BY <1>1
    <3>2. mask[pos] = "*" \/ e[pos] = mask[pos]
      OBVIOUS
    <3> HIDE DEF Put
    <3>3. QED BY <3>1, <3>2
  <2>3. e = [pos \in 1 .. n |-> e[pos]] /\ Put(c) = [pos \in 1 .. n |-> Put(c)[pos]]
    OBVIOUS
  <2> HIDE DEF Put, c
  <2>4. e = Put(c)
    BY <2>2, <2>3
  <2>5. QED BY <2>1, <2>4
<1>4. Expansions(mask) = {Put(choice) : choice \in [Stars(mask) -> {"0", "1"}]}
  BY DEF Expansions
<1> HIDE DEF E, Put
<1>5. Expansions(mask) = E
  BY <1>2, <1>3, <1>4
<1>6. QED BY <1>5 DEF E

\* The digits of a number of n digits.
LEMMA DigitsAre ==
  ASSUME NEW n \in Nat, NEW e \in [1 .. n -> {"0", "1"}]
  PROVE  /\ str_to_bin(e) \in 0 .. Shifted(n) - 1
         /\ \A pos \in 1 .. n : e[pos] = BitOf(str_to_bin(e), n, pos)
<1>1. /\ str_to_bin(e) \in 0 .. Shifted(n) - 1
      /\ \A pos \in 1 .. n : Digit(e[pos]) = Half(str_to_bin(e), n - pos) % 2
  BY DigitsOfSpelled
<1>2. ASSUME NEW pos \in 1 .. n PROVE e[pos] = BitOf(str_to_bin(e), n, pos)
  <2>1. e[pos] \in {"0", "1"} /\ Digit(e[pos]) = Half(str_to_bin(e), n - pos) % 2
    BY <1>1
  <2>2. QED BY <2>1 DEF Digit, BitOf
<1>3. QED BY <1>1, <1>2

\* get_address_vector lists the addresses that the mask covers, each once.
LEMMA MaskCovers ==
  ASSUME NEW n \in Nat, NEW mask \in [1 .. n -> {"0", "1", "*"}]
  PROVE  /\ get_address_vector(mask) =
              {adr \in 0 .. Shifted(n) - 1 : \A pos \in 1 .. n : mask[pos] \in {"*", BitOf(adr, n, pos)}}
         /\ ListedTwice(mask) = {}
<1> DEFINE V == {adr \in 0 .. Shifted(n) - 1 : \A pos \in 1 .. n : mask[pos] \in {"*", BitOf(adr, n, pos)}}
<1>1. Expansions(mask) = {e \in [1 .. n -> {"0", "1"}] :
                            \A pos \in 1 .. n : mask[pos] = "*" \/ e[pos] = mask[pos]}
  BY ExpansionsAre
<1>2. ASSUME NEW e \in Expansions(mask)
      PROVE  /\ e \in [1 .. n -> {"0", "1"}] /\ str_to_bin(e) \in V
             /\ \A pos \in 1 .. n : e[pos] = BitOf(str_to_bin(e), n, pos)
  <2>1. e \in [1 .. n -> {"0", "1"}] /\ \A pos \in 1 .. n : mask[pos] = "*" \/ e[pos] = mask[pos]
    BY <1>1
  <2>2. /\ str_to_bin(e) \in 0 .. Shifted(n) - 1
        /\ \A pos \in 1 .. n : e[pos] = BitOf(str_to_bin(e), n, pos)
    BY <2>1, DigitsAre
  <2>3. \A pos \in 1 .. n : mask[pos] \in {"*", BitOf(str_to_bin(e), n, pos)}
    BY <2>1, <2>2
  <2>4. QED BY <2>1, <2>2, <2>3
<1>3. ASSUME NEW adr \in V PROVE \E e \in Expansions(mask) : str_to_bin(e) = adr
  <2> DEFINE e == [pos \in 1 .. n |-> BitOf(adr, n, pos)]
  <2>1. e \in [1 .. n -> {"0", "1"}]
    BY DEF BitOf
  <2>2. \A pos \in 1 .. n : e[pos] = BitOf(adr, n, pos)
    OBVIOUS
  <2>3. ASSUME NEW pos \in 1 .. n PROVE Digit(e[pos]) = Half(adr, n - pos) % 2
    <3>1. Shifted(n) \in Nat
      BY ShiftedOn
    <3>2. adr \in Nat /\ n - pos \in Nat
      BY <3>1
    <3>3. Half(adr, n - pos) \in Nat
      BY <3>2, HalfOn
    <3>4. PICK r \in 0 .. 1 : Half(adr, n - pos) % 2 = r
      BY <3>3
    <3>5. QED BY <2>2, <3>4 DEF BitOf, Digit
  <2>4. adr \in 0 .. Shifted(n) - 1 /\ \A pos \in 1 .. n : mask[pos] = "*" \/ e[pos] = mask[pos]
    BY <2>2
  <2> HIDE DEF e, V
  <2>5. str_to_bin(e) = adr
    BY <2>1, <2>3, <2>4, SpelledFromDigits
  <2>6. e \in Expansions(mask)
    BY <1>1, <2>1, <2>4
  <2>7. QED BY <2>5, <2>6
<1>4. get_address_vector(mask) = V
  <2> HIDE DEF V
  <2>1. QED BY <1>2, <1>3 DEF get_address_vector
<1>5. ListedTwice(mask) = {}
  <2> SUFFICES ASSUME NEW adr, adr \in get_address_vector(mask)
               PROVE  ~ (Cardinality({e \in Expansions(mask) : str_to_bin(e) = adr}) > 1)
    BY DEF ListedTwice
  <2>1. PICK e \in Expansions(mask) : str_to_bin(e) = adr
    BY DEF get_address_vector
  <2>2. ASSUME NEW f \in Expansions(mask), str_to_bin(f) = adr PROVE f = e
    <3>1. /\ e \in [1 .. n -> {"0", "1"}] /\ f \in [1 .. n -> {"0", "1"}]
          /\ \A pos \in 1 .. n : e[pos] = f[pos]
      <4> HIDE DEF V
      <4>1. QED BY <1>2, <2>1, <2>2
    <3>2. QED BY <3>1
  <2> DEFINE F == {f \in Expansions(mask) : str_to_bin(f) = adr}
  <2>3. F = {e}
    BY <2>1, <2>2
  <2>4. Cardinality({e}) = 1
    BY FS_Singleton
  <2> SUFFICES ~ (Cardinality(F) > 1)
    OBVIOUS
  <2> HIDE DEF F
  <2>5. Cardinality(F) = 1
    BY <2>3, <2>4
  <2>6. QED BY <2>5
<1>6. QED BY <1>4, <1>5

-------------------------------------------------------------------------------
\* A set of which any two are the same has at most one.
LEMMA AtMostOne ==
  ASSUME NEW S, IsFiniteSet(S)
  PROVE  Cardinality(S) <= 1 <=> \A a, b \in S : a = b
<1>1. CASE S = {}
  BY <1>1, FS_EmptySet
<1>2. CASE S # {}
  <2>1. PICK a \in S : TRUE
    BY <1>2
  <2>2. IsFiniteSet(S \ {a}) /\ Cardinality(S \ {a}) = Cardinality(S) - 1
    BY <2>1, FS_RemoveElement
  <2>3. Cardinality(S) \in Nat /\ Cardinality(S \ {a}) \in Nat
    BY <2>2, FS_CardinalityType
  <2>4. Cardinality(S \ {a}) = 0 <=> S \ {a} = {}
    BY <2>2, FS_EmptySet
  <2>5. Cardinality(S) <= 1 <=> S \ {a} = {}
    BY <2>2, <2>3, <2>4
  <2>6. QED BY <2>1, <2>5
<1>3. QED BY <1>1, <1>2

\* A resolved character is 0, 1 or a star.
LEMMA ResolvedChars ==
  ASSUME source \in Sources, Plain, NEW order, LinesRead(order, End), NEW j \in Code,
         NEW pos \in 1 .. Width, Giver(j, pos) # {}
  PROVE  CharAt(j, pos) \in {"0", "1", "*"}
<1>1. j \in Nat
  BY LinesHaveWords DEF Code, LinesIn
<1>2. Max(Giver(j, pos)) \in Giver(j, pos)
  BY <1>1, GiversBefore, LastOne
<1>3. PICK g \in Code : g = Max(Giver(j, pos)) /\ Pattern(g)[pos] # "-"
  BY <1>2 DEF Giver
<1>4. AddressEnds(g) # {}
  BY <1>3 DEF LinesRead, IsOrder, NamesRead, Code
<1>5. Pattern(g)[pos] \in {"0", "1", "*", "-"}
  BY <1>4, PlainPattern
<1>6. QED BY <1>3, <1>5 DEF CharAt

\* A resolved line takes the addresses it covers, each once.
LEMMA LineCovers ==
  ASSUME source \in Sources, Plain, NEW order, LinesRead(order, End), NEW j \in Code,
         NEW line, Resolved(line, j)
  PROVE  /\ get_address_vector(line.first) = {adr \in Addresses : Covers(j, adr)}
         /\ ListedTwice(line.first) = {}
<1>1. AddressEnds(j) # {}
  BY DEF LinesRead, IsOrder, NamesRead, Code
<1>2. PICK n \in Nat : n = Width
  BY <1>1, PlainPattern
<1>3. PICK mask : mask = line.first
  OBVIOUS
<1>4. mask = [pos \in 1 .. n |-> CharAt(j, pos)]
  BY <1>2, <1>3 DEF Resolved
<1>5. \A pos \in 1 .. n : CharAt(j, pos) \in {"0", "1", "*"}
  BY <1>2, ResolvedChars DEF Resolved
<1>6. mask \in [1 .. n -> {"0", "1", "*"}]
  BY <1>4, <1>5
<1>7. /\ get_address_vector(mask) =
           {adr \in 0 .. Shifted(n) - 1 : \A pos \in 1 .. n : mask[pos] \in {"*", BitOf(adr, n, pos)}}
      /\ ListedTwice(mask) = {}
  BY <1>6, MaskCovers
<1>8. ASSUME NEW adr
      PROVE  Covers(j, adr) <=> \A pos \in 1 .. n : mask[pos] \in {"*", BitOf(adr, n, pos)}
  <2>1. \A pos : BitAt(adr, pos) = BitOf(adr, n, pos)
    BY <1>2 DEF BitAt, BitOf
  <2>2. \A pos \in 1 .. n : mask[pos] = CharAt(j, pos)
    BY <1>4
  <2>3. QED BY <1>2, <2>1, <2>2 DEF Covers
<1>9. Addresses = 0 .. Shifted(n) - 1
  BY <1>2 DEF Addresses
<1>10. QED BY <1>3, <1>7, <1>8, <1>9
-------------------------------------------------------------------------------
(***************************************************************************)
(* The image.                                                              *)
(***************************************************************************)
LEMMA ControlsPlain ==
  ASSUME source \in Sources, TablesRead(End), Plain
  PROVE  Controls /\ DOMAIN control_lines = Names(End)
<1>1. End \in 1 .. End
  BY LinesHaveWords
<1>2. DOMAIN control_lines = Names(End)
  BY <1>1, NamesMean
<1>3. ASSUME NEW n \in Names(End)
      PROVE  /\ control_lines[n].position = Position(n) /\ Position(n) \in WordBits
             /\ control_lines[n].active_level = ActiveHigh(n)
             /\ ActiveHigh(n) \in BOOLEAN
  <2>1. ActiveHigh(n) \in BOOLEAN
    BY DEF ActiveHigh
  <2>2. QED BY <2>1, ControlMeans
<1>4. \A n, o \in Names(End) : Position(n) = Position(o) => ActiveHigh(n) = ActiveHigh(o)
  BY DEF Plain
<1>5. QED BY <1>2, <1>3, <1>4 DEF Controls

LEMMA WidthRead ==
  ASSUME source \in Sources, TablesRead(End)
  PROVE  Config("address_width") = Width /\ Width \in 0 .. 63
<1>1. End \in 1 .. End
  BY LinesHaveWords
<1>2. QED BY <1>1, ConfigMeans DEF Width

\* What has been compiled stays compiled.
LEMMA SameCompiled ==
  ASSUME source' = source, control_lines' = control_lines, NEW order, NEW n
  PROVE  /\ Apart(order, n)' <=> Apart(order, n)
         /\ Known(order, n)' <=> Known(order, n)
         /\ Taken(order, n)' = Taken(order, n)
         /\ Lit(order, n)' = Lit(order, n)
<1>1. /\ Addresses' = Addresses /\ End' = End
      /\ \A j : Named(j)' = Named(j)
      /\ \A j : Names(j)' = Names(j)
      /\ \A j, adr : Covers(j, adr)' <=> Covers(j, adr)
  BY SameLines, SameCode, SameMeaning
<1>2. Apart(order, n)' <=> Apart(order, n)
  BY <1>1 DEF Apart
<1>3. Known(order, n)' <=> Known(order, n)
  BY <1>1 DEF Known
<1>4. Taken(order, n)' = Taken(order, n)
  BY <1>1 DEF Taken
<1>5. \A adr : NamedAt(order, n, adr)' = NamedAt(order, n, adr)
  BY <1>1 DEF NamedAt
<1>6. \A bit, S : LitBy(bit, S)' <=> LitBy(bit, S)
  BY DEF LitBy, Drives
<1>7. \A adr : {bit \in WordBits : LitBy(bit, NamedAt(order, n, adr))}' =
               {bit \in WordBits : LitBy(bit, NamedAt(order, n, adr))}
  BY <1>5, <1>6 DEF WordBits
<1>8. Lit(order, n)' = Lit(order, n)
  BY <1>1, <1>7 DEF Lit
<1>9. QED BY <1>2, <1>3, <1>4, <1>8

LEMMA CompiledOn ==
  ASSUME source' = source, control_lines' = control_lines, NEW order, NEW n,
         Width <= IntWidth, Apart(order, n), Known(order, n),
         visited_mask' = Taken(order, n), image' = Lit(order, n), row' - 1 = n
  PROVE  Compiled(order, row - 1)'
<1>1. Width' = Width /\ IntWidth' = IntWidth
  BY SameCode DEF IntWidth
<1>2. Compiled(order, n)'
  BY <1>1, SameCompiled DEF Compiled
<1>3. QED BY <1>2

\* The tables, and the lines with their dashes resolved, when nothing is written but the image.
LEMMA ResolvedKept ==
  ASSUME UNCHANGED <<source, current_section, tables, m_instr_lines>>, NEW order,
         LinesRead(order, End), \A k \in DOMAIN m_instr_lines : Resolved(m_instr_lines[k], order[k])
  PROVE  /\ LinesRead(order, End)'
         /\ \A k \in DOMAIN m_instr_lines' : Resolved(m_instr_lines[k], order[k])'
<1>1. PICK e : e = End /\ End' = e
  BY SameLines
<1>2. LinesRead(order, e)'
  BY <1>1, LinesKept
<1>3. QED BY <1>1, <1>2, LinesKept

LEMMA TablesStay ==
  ASSUME UNCHANGED <<source, current_section, tables>>, TablesRead(End)
  PROVE  TablesRead(End)'
<1>1. PICK e : e = End /\ End' = e
  BY SameLines
<1>2. TablesRead(e)'
  BY <1>1, TablesKept
<1>3. QED BY <1>1, <1>2

LEMMA CompileStarts ==
  ASSUME source \in Sources, WalkedInv, DashesInv, StartCompile
  PROVE  GivesUp \/ (source' = source /\ phase' = "compile" /\ WalkedInv' /\ CompileInv')
<1>1. phase = "dashes" /\ row > Len(m_instr_lines)
  BY DEF StartCompile
<1>2. TablesRead(End) /\ IsSequence(m_instr_lines) /\ row \in 1 .. Len(m_instr_lines) + 1
  BY <1>1 DEF WalkedInv
<1>3. Len(m_instr_lines) \in Nat /\ DOMAIN m_instr_lines = 1 .. Len(m_instr_lines)
  BY <1>2, SequenceParts
<1>4. Config("address_width") = Width /\ Width \in 0 .. 63
  BY <1>2, WidthRead
<1>5. CASE Config("address_width") > IntWidth
  <2>1. Undefined
    BY <1>5 DEF StartCompile
  <2>2. ~ WellFormed
    BY <1>4, <1>5 DEF WellFormed, IntWidth
  <2>3. QED BY <2>1, <2>2 DEF GivesUp, Undefined
<1>6. CASE ~(Config("address_width") > IntWidth)
  <2>1. /\ phase' = "compile" /\ row' = 1
        /\ image' = [adr \in 0 .. Shifted(Config("address_width")) - 1 |-> get_default_word]
        /\ visited_mask' = {}
        /\ UNCHANGED <<source, current_section, tables, m_instr_lines, chips>>
    BY <1>6 DEF StartCompile
  <2>2. UNCHANGED <<source, current_section, tables, m_instr_lines>> /\ control_lines' = control_lines
    BY <2>1 DEF tables
  <2>3. WalkedInv'
    <3>1. TablesRead(End)'
      BY <1>2, <2>2, TablesStay
    <3>2. QED BY <1>2, <1>3, <2>1, <2>2, <3>1 DEF WalkedInv
  <2>4. ASSUME Plain PROVE CompileInv'
    <3>1. PICK order : /\ LinesRead(order, End)
                       /\ \A k \in DOMAIN m_instr_lines :
                            IF k < row THEN Resolved(m_instr_lines[k], order[k])
                            ELSE Unresolved(m_instr_lines[k], order[k])
      BY <1>1, <2>4 DEF DashesInv
    <3>2. \A k \in DOMAIN m_instr_lines : Resolved(m_instr_lines[k], order[k])
      <4>1. \A k \in DOMAIN m_instr_lines : k < row
        BY <1>1, <1>2, <1>3
      <4>2. QED BY <3>1, <4>1
    <3>3. /\ LinesRead(order, End)'
          /\ \A k \in DOMAIN m_instr_lines' : Resolved(m_instr_lines[k], order[k])'
      BY <2>2, <3>1, <3>2, ResolvedKept
    <3>4. get_default_word = {bit \in WordBits : LitBy(bit, {})}
      BY <1>2, <2>4, ControlsPlain, DefaultLights
    <3>5. \A adr : NamedAt(order, 0, adr) = {}
      BY DEF NamedAt
    <3>6. image' = Lit(order, 0)
      BY <1>4, <2>1, <3>4, <3>5 DEF Addresses, Lit
    <3>7. Width <= IntWidth
      BY <1>4, <1>6 DEF IntWidth
    <3>8. Apart(order, 0) /\ Known(order, 0) /\ visited_mask' = Taken(order, 0)
      <4>1. \A k : k \notin 1 .. 0
        OBVIOUS
      <4>2. QED BY <2>1, <4>1 DEF Apart, Known, Taken
    <3>9. row' - 1 = 0
      BY <2>1
    <3>10. Compiled(order, row - 1)'
      BY <2>2, <3>6, <3>7, <3>8, <3>9, CompiledOn
    <3>11. QED BY <3>3, <3>10 DEF CompileInv
  <2>5. ASSUME ~ Plain PROVE CompileInv'
    BY <2>2, <2>5, SameMeaning DEF CompileInv
  <2>6. QED BY <2>1, <2>3, <2>4, <2>5
<1>7. QED BY <1>5, <1>6

-------------------------------------------------------------------------------
\* A line that takes an address another has taken, or names what is no signal, means nothing.
LEMMA NoTwoCover ==
  ASSUME source \in Sources, NEW adr \in Addresses, NEW a \in Code, NEW b \in Code, a # b,
         Covers(a, adr), Covers(b, adr)
  PROVE  ~ WellFormed
<1> DEFINE S == {i \in Code : Covers(i, adr)}
<1>1. IsFiniteSet(S)
  <2>1. S \subseteq 1 .. Len(source) /\ Len(source) \in Nat
    BY LinesHaveWords DEF Code, LinesIn
  <2>2. IsFiniteSet(1 .. Len(source))
    BY <2>1, FS_Interval
  <2>3. QED BY <2>1, <2>2, FS_Subset
<1>2. a \in S /\ b \in S
  OBVIOUS
<1>3. ~ (Cardinality(S) <= 1)
  <2> HIDE DEF S
  <2>1. QED BY <1>1, <1>2, AtMostOne
<1>4. QED BY <1>3 DEF WellFormed
\* The line at hand and what has been compiled before it.
AllResolved(order) ==
  /\ LinesRead(order, End)
  /\ \A k \in DOMAIN m_instr_lines : Resolved(m_instr_lines[k], order[k])

\* What the line at hand does to the image.
RowNames == m_instr_lines[row].second
RowAddresses == get_address_vector(Mask)
RowImage == [adr \in DOMAIN image |->
               IF adr \in RowAddresses THEN CompiledWord(RowNames) ELSE image[adr]]
RowCompiles(order) ==
  /\ RowAddresses \subseteq DOMAIN image
  /\ ~ (Range(RowNames) \subseteq DOMAIN control_lines) \/ Doubled # {} => ~ WellFormed
  /\ Range(RowNames) \subseteq DOMAIN control_lines /\ Doubled = {} =>
       /\ Width <= IntWidth /\ Apart(order, row) /\ Known(order, row)
       /\ visited_mask \union RowAddresses = Taken(order, row)
       /\ RowImage = Lit(order, row)

LEMMA RowCompiled ==
  ASSUME source \in Sources, TablesRead(End), Plain, NEW order, AllResolved(order),
         NEW n \in Nat, DOMAIN m_instr_lines = 1 .. n, NEW k \in 1 .. n, row = k,
         Compiled(order, k - 1)
  PROVE  RowCompiles(order)
<1>1. PICK j : j = order[k]
  OBVIOUS
<1>2. j \in Code /\ \A l \in 1 .. n : order[l] \in Code
  BY <1>1 DEF AllResolved, LinesRead, IsOrder, Code
<1>3. Controls /\ DOMAIN control_lines = Names(End)
  BY ControlsPlain
<1>4. /\ RowAddresses = {adr \in Addresses : Covers(j, adr)} /\ ListedTwice(Mask) = {}
  <2>1. PICK line : line = m_instr_lines[k] /\ Mask = line.first /\ Resolved(line, j)
    BY <1>1 DEF Mask, AllResolved
  <2>2. QED BY <1>2, <2>1, LineCovers DEF AllResolved, RowAddresses
<1>5. IsSequence(RowNames) /\ Range(RowNames) = Named(j)
  BY <1>1 DEF AllResolved, LinesRead, NamesRead, RowNames
<1>6. /\ Width <= IntWidth /\ Apart(order, k - 1) /\ Known(order, k - 1)
      /\ visited_mask = Taken(order, k - 1) /\ image = Lit(order, k - 1)
  BY DEF Compiled
<1>7. DOMAIN image = Addresses
  BY <1>6 DEF Lit
<1>8. \A l : l \in 1 .. k <=> l \in 1 .. k - 1 \/ l = k
  OBVIOUS
<1>9. ASSUME Range(RowNames) \subseteq DOMAIN control_lines PROVE Known(order, k)
  BY <1>1, <1>3, <1>5, <1>6, <1>8, <1>9 DEF Known
<1>10. ASSUME ~ (Range(RowNames) \subseteq DOMAIN control_lines) PROVE ~ WellFormed
  BY <1>2, <1>3, <1>5, <1>10 DEF WellFormed, WellFormedCode
<1>11. Doubled = {adr \in Addresses : Covers(j, adr) /\ \E l \in 1 .. k - 1 : Covers(order[l], adr)}
  <2>1. Doubled = visited_mask \intersect RowAddresses \intersect Addresses
    BY <1>4, <1>7 DEF Doubled, RowAddresses
  <2>2. visited_mask = {adr \in Addresses : \E l \in 1 .. k - 1 : Covers(order[l], adr)}
    BY <1>6 DEF Taken
  <2>3. QED BY <1>4, <2>1, <2>2
<1>12. ASSUME Doubled # {} PROVE ~ WellFormed
  <2>1. PICK adr \in Addresses : Covers(j, adr) /\ \E l \in 1 .. k - 1 : Covers(order[l], adr)
    BY <1>11, <1>12
  <2>2. PICK l \in 1 .. k - 1 : Covers(order[l], adr)
    BY <2>1
  <2>3. l \in 1 .. n /\ l < k
    BY <2>2
  <2>4. IsOrder(order, End)
    BY DEF AllResolved, LinesRead
  <2>5. order[l] < order[k] /\ order[k] \in Nat
    BY <2>3, <2>4, EarlierLines DEF IsOrder
  <2>6. order[l] # j /\ order[l] \in Code
    <3>1. order[l] # order[k]
      BY <2>5
    <3>2. QED BY <1>1, <1>2, <2>3, <3>1
  <2>7. QED BY <1>2, <2>1, <2>2, <2>6, NoTwoCover
<1>13. visited_mask \union RowAddresses = Taken(order, k)
  BY <1>1, <1>4, <1>6, <1>8 DEF Taken
<1>14. ASSUME Doubled = {} PROVE Apart(order, k)
  <2> SUFFICES ASSUME NEW adr \in Addresses, NEW a \in 1 .. k, NEW b \in 1 .. k,
                      Covers(order[a], adr), Covers(order[b], adr)
               PROVE  a = b
    BY DEF Apart
  <2>1. \A l \in 1 .. k - 1 : ~ (Covers(order[l], adr) /\ Covers(order[k], adr))
    BY <1>1, <1>11, <1>14
  <2>2. CASE a \in 1 .. k - 1 /\ b \in 1 .. k - 1
    BY <1>6, <2>2 DEF Apart
  <2>3. QED BY <1>8, <2>1, <2>2
<1>15. ASSUME Range(RowNames) \subseteq DOMAIN control_lines, Doubled = {} PROVE RowImage = Lit(order, k)
  <2>1. CompiledWord(RowNames) = {bit \in WordBits : LitBy(bit, Named(j))}
    BY <1>3, <1>5, <1>15, WordLights
  <2>2. ASSUME NEW adr \in Addresses
        PROVE  (IF adr \in RowAddresses THEN CompiledWord(RowNames) ELSE image[adr]) =
               {bit \in WordBits : LitBy(bit, NamedAt(order, k, adr))}
    <3>1. CASE Covers(j, adr)
      <4>1. \A l \in 1 .. k - 1 : ~ Covers(order[l], adr)
        BY <1>11, <1>15, <3>1
      <4>2. {l \in 1 .. k : Covers(order[l], adr)} = {k}
        BY <1>1, <1>8, <3>1, <4>1
      <4>3. NamedAt(order, k, adr) = Named(j)
        BY <1>1, <4>2 DEF NamedAt
      <4>4. adr \in RowAddresses
        BY <1>4, <3>1
      <4>5. QED BY <2>1, <4>3, <4>4
    <3>2. CASE ~ Covers(j, adr)
      <4>1. {l \in 1 .. k : Covers(order[l], adr)} = {l \in 1 .. k - 1 : Covers(order[l], adr)}
        BY <1>1, <1>8, <3>2
      <4>2. NamedAt(order, k, adr) = NamedAt(order, k - 1, adr)
        BY <4>1 DEF NamedAt
      <4>3. adr \notin RowAddresses
        BY <1>4, <3>2
      <4>4. image[adr] = {bit \in WordBits : LitBy(bit, NamedAt(order, k - 1, adr))}
        BY <1>6 DEF Lit
      <4>5. QED BY <4>2, <4>3, <4>4
    <3>3. QED BY <3>1, <3>2
  <2>3. QED BY <1>7, <2>2 DEF RowImage, Lit
<1>16. RowAddresses \subseteq DOMAIN image
  BY <1>4, <1>7
<1>17. QED BY <1>6, <1>9, <1>10, <1>12, <1>13, <1>14, <1>15, <1>16 DEF RowCompiles

LEMMA LineCompiles ==
  ASSUME source \in Sources, WalkedInv, CompileInv, CompileLine
  PROVE  GivesUp \/ (source' = source /\ phase' = "compile" /\ WalkedInv' /\ CompileInv')
<1>1. PICK k : k = row
  OBVIOUS
<1>2. phase = "compile" /\ row <= Len(m_instr_lines)
  BY DEF CompileLine
<1>3. TablesRead(End) /\ IsSequence(m_instr_lines) /\ k \in 1 .. Len(m_instr_lines) + 1
  BY <1>1, <1>2 DEF WalkedInv
<1>4. PICK n \in Nat : n = Len(m_instr_lines) /\ DOMAIN m_instr_lines = 1 .. n
  BY <1>3, SequenceParts
<1>5. k \in 1 .. n
  BY <1>1, <1>2, <1>3, <1>4
<1>6. ASSUME Plain PROVE \E order : AllResolved(order) /\ RowCompiles(order)
  <2>1. PICK order : AllResolved(order) /\ Compiled(order, k - 1)
    BY <1>1, <1>2, <1>6 DEF CompileInv, AllResolved
  <2>2. QED BY <1>1, <1>3, <1>4, <1>5, <1>6, <2>1, RowCompiled
<1>7. CASE (~ (Range(RowNames) \subseteq DOMAIN control_lines) \/ Doubled # {}) /\ Refuse
  BY <1>6, <1>7 DEF GivesUp, Refuse, RowCompiles
<1>8. CASE ~ (RowAddresses \subseteq DOMAIN image) /\ Undefined
  BY <1>6, <1>8 DEF GivesUp, Undefined, RowCompiles
<1>9. CASE /\ Range(RowNames) \subseteq DOMAIN control_lines /\ Doubled = {}
           /\ image' = RowImage
           /\ visited_mask' = visited_mask \union RowAddresses
           /\ row' = row + 1
           /\ UNCHANGED <<source, phase, current_section, tables, m_instr_lines, chips>>
  <2>1. /\ source' = source /\ phase' = "compile" /\ row' = k + 1
        /\ UNCHANGED <<source, current_section, tables, m_instr_lines>> /\ control_lines' = control_lines
    BY <1>1, <1>2, <1>9 DEF tables
  <2>2. WalkedInv'
    <3>1. TablesRead(End)'
      BY <1>3, <2>1, TablesStay
    <3>2. row' \in 1 .. Len(m_instr_lines') + 1
      BY <1>4, <1>5, <2>1
    <3>3. QED BY <1>3, <2>1, <3>1, <3>2 DEF WalkedInv
  <2>3. ASSUME Plain PROVE CompileInv'
    <3>1. PICK order : AllResolved(order) /\ RowCompiles(order)
      BY <1>6, <2>3
    <3>2. /\ LinesRead(order, End)'
          /\ \A l \in DOMAIN m_instr_lines' : Resolved(m_instr_lines[l], order[l])'
      BY <2>1, <3>1, ResolvedKept DEF AllResolved
    <3>3. /\ Width <= IntWidth /\ Apart(order, k) /\ Known(order, k)
          /\ visited_mask' = Taken(order, k) /\ image' = Lit(order, k)
      BY <1>1, <1>9, <3>1 DEF RowCompiles
    <3>4. row' - 1 = k
      BY <1>5, <2>1
    <3>5. Compiled(order, row - 1)'
      BY <2>1, <3>3, <3>4, CompiledOn
    <3>6. QED BY <3>2, <3>5 DEF CompileInv
  <2>4. ASSUME ~ Plain PROVE CompileInv'
    BY <2>1, <2>4, SameMeaning DEF CompileInv
  <2>5. QED BY <2>1, <2>2, <2>3, <2>4
<1>10. QED BY <1>7, <1>8, <1>9 DEF CompileLine, RowNames, RowAddresses, RowImage
-------------------------------------------------------------------------------
(***************************************************************************)
(* What is written.                                                        *)
(***************************************************************************)
\* ImageIsMicrocode of the bytes of some chips.
Intended(bytes) ==
  /\ WellFormed
  /\ DOMAIN bytes = 0 .. (Setting("control_width", End) + 7) \div 8 - 1
  /\ \A chip \in DOMAIN bytes : DOMAIN bytes[chip] = Addresses
  /\ \A bit \in 0 .. 8 * Cardinality(DOMAIN bytes) - 1 : \A adr \in Addresses :
       (bit % 8) \in bytes[bit \div 8][adr] <=>
         \E n \in Names(End) : Position(n) = bit /\ (ActiveHigh(n) <=> Asserted(bit, adr))

LEMMA SameIntended ==
  ASSUME source' = source
  PROVE  \A bytes : Intended(bytes)' <=> Intended(bytes)
<1>1. /\ Addresses' = Addresses /\ End' = End /\ Code' = Code
      /\ \A j : Named(j)' = Named(j)
      /\ \A j : Names(j)' = Names(j)
      /\ \A key, j : Setting(key, j)' = Setting(key, j)
      /\ \A j, adr : Covers(j, adr)' <=> Covers(j, adr)
      /\ \A n : Position(n)' = Position(n)
      /\ \A n : ActiveHigh(n)' <=> ActiveHigh(n)
      /\ WellFormed' <=> WellFormed
  BY SameLines, SameCode, SameMeaning
<1>2. \A bit, adr : Asserted(bit, adr)' <=> Asserted(bit, adr)
  BY <1>1 DEF Asserted
<1>3. QED BY <1>1, <1>2 DEF Intended

LEMMA ImageIs ==
  ImageIsMicrocode <=>
    /\ phase = "written" => WellShaped /\ (Plain => Intended(chips))
    /\ phase \in {"refused", "undefined"} /\ WellShaped => ~ (Plain /\ WellFormed)
BY DEF ImageIsMicrocode, Intended, High

\* When every line has been compiled the source is well formed.
LEMMA AllCompiled ==
  ASSUME source \in Sources, NEW order, AllResolved(order), NEW n \in Nat, DOMAIN m_instr_lines = 1 .. n,
         Compiled(order, n)
  PROVE  WellFormed
<1>1. /\ Width <= IntWidth /\ Apart(order, n) /\ Known(order, n)
  BY DEF Compiled
<1>2. /\ \A k \in 1 .. n : order[k] \in Code
      /\ \A j \in Code : \E k \in 1 .. n : order[k] = j
  BY DEF AllResolved, LinesRead, IsOrder, Code
<1>3. ASSUME NEW j \in Code PROVE WellFormedCode(j)
  <2>1. PICK k \in 1 .. n : order[k] = j
    BY <1>2
  <2>2. NamesRead(m_instr_lines[k], j) /\ Resolved(m_instr_lines[k], j)
    BY <2>1 DEF AllResolved, LinesRead
  <2>3. Named(j) \subseteq Names(End)
    BY <1>1, <2>1 DEF Known
  <2>4. QED BY <2>2, <2>3 DEF WellFormedCode, NamesRead, Resolved
<1>4. ASSUME NEW adr \in Addresses PROVE Cardinality({j \in Code : Covers(j, adr)}) <= 1
  <2> DEFINE S == {j \in Code : Covers(j, adr)}
  <2>1. IsFiniteSet(S)
    <3>1. S \subseteq 1 .. Len(source) /\ Len(source) \in Nat
      BY LinesHaveWords DEF Code, LinesIn
    <3>2. IsFiniteSet(1 .. Len(source))
      BY <3>1, FS_Interval
    <3>3. QED BY <3>1, <3>2, FS_Subset
  <2>2. ASSUME NEW a \in S, NEW b \in S PROVE a = b
    <3>1. PICK k \in 1 .. n, l \in 1 .. n : order[k] = a /\ order[l] = b
      BY <1>2
    <3>2. k = l
      BY <1>1, <3>1 DEF Apart
    <3>3. QED BY <3>1, <3>2
  <2> HIDE DEF S
  <2>3. Cardinality(S) <= 1
    BY <2>1, <2>2, AtMostOne
  <2>4. QED BY <2>3 DEF S
<1>5. QED BY <1>1, <1>3, <1>4 DEF WellFormed

\* The bits of the image are those the source means.
LEMMA LitIsMeant ==
  ASSUME source \in Sources, TablesRead(End), NEW order, AllResolved(order),
         NEW n \in Nat, DOMAIN m_instr_lines = 1 .. n, Known(order, n), NEW bit, NEW adr
  PROVE  bit \in WordBits /\ LitBy(bit, NamedAt(order, n, adr)) <=>
           \E name \in Names(End) : Position(name) = bit /\ (ActiveHigh(name) <=> Asserted(bit, adr))
<1>1. End \in 1 .. End
  BY LinesHaveWords
<1>2. DOMAIN control_lines = Names(End)
  BY <1>1, NamesMean
<1>3. \A name \in Names(End) :
        /\ control_lines[name].position = Position(name) /\ Position(name) \in WordBits
        /\ control_lines[name].active_level = ActiveHigh(name)
  BY ControlMeans
<1>4. /\ \A k \in 1 .. n : order[k] \in Code
      /\ \A j \in Code : \E k \in 1 .. n : order[k] = j
  BY DEF AllResolved, LinesRead, IsOrder, Code
<1>5. Drives(bit, NamedAt(order, n, adr)) <=> Asserted(bit, adr)
  <2>1. ASSUME NEW s PROVE s \in NamedAt(order, n, adr) <=>
                             \E j \in Code : Covers(j, adr) /\ s \in Named(j)
    BY <1>4 DEF NamedAt
  <2>2. ASSUME NEW j \in Code PROVE Named(j) \subseteq Names(End)
    BY <1>4 DEF Known
  <2>3. Drives(bit, NamedAt(order, n, adr)) <=>
          \E s \in NamedAt(order, n, adr) : Position(s) = bit
    BY <1>3, <2>1, <2>2 DEF Drives
  <2>4. QED BY <2>1, <2>3 DEF Asserted
<1>6. \A name \in Names(End) : ActiveHigh(name) \in BOOLEAN
  BY DEF ActiveHigh
<1>7. QED BY <1>2, <1>3, <1>5, <1>6 DEF LitBy

LEMMA WritesIntended ==
  ASSUME source \in Sources, TablesRead(End), Plain, NEW order, AllResolved(order),
         NEW n \in Nat, DOMAIN m_instr_lines = 1 .. n, Compiled(order, n)
  PROVE  Intended(split_8bit)
<1>1. Known(order, n) /\ image = Lit(order, n)
  BY DEF Compiled
<1>2. PICK c : c = NChips /\ c = (Setting("control_width", End) + 7) \div 8 /\ c \in Nat
  <2>1. End \in 1 .. End
    BY LinesHaveWords
  <2>2. PICK w \in 0 .. 63 : w = Config("control_width") /\ w = Setting("control_width", End)
    BY <2>1, ConfigMeans
  <2>3. (w + 7) \div 8 \in Nat
    OBVIOUS
  <2>4. QED BY <2>2, <2>3 DEF NChips
<1>3. PICK bytes : bytes = split_8bit
  OBVIOUS
<1>4. /\ DOMAIN bytes = 0 .. c - 1
      /\ \A chip \in 0 .. c - 1 : bytes[chip] = [adr \in DOMAIN image |-> BitsOf(image[adr], chip)]
  BY <1>2, <1>3 DEF split_8bit
<1>5. DOMAIN image = Addresses
  BY <1>1 DEF Lit
<1>6. Cardinality(DOMAIN bytes) = c
  <2>1. Cardinality(0 .. c - 1) = IF 0 > c - 1 THEN 0 ELSE (c - 1) - 0 + 1
    <3>1. 0 \in Int /\ c - 1 \in Int
      BY <1>2
    <3>2. QED BY <3>1, FS_Interval
  <2>2. QED BY <1>2, <1>4, <2>1
<1>7. ASSUME NEW bit \in 0 .. 8 * c - 1, NEW adr \in Addresses
      PROVE  (bit % 8) \in bytes[bit \div 8][adr] <=>
               \E name \in Names(End) : Position(name) = bit /\ (ActiveHigh(name) <=> Asserted(bit, adr))
  <2>1. PICK chip \in 0 .. c - 1, rest \in 0 .. 7 : bit \div 8 = chip /\ bit % 8 = rest /\ 8 * chip + rest = bit
    <3>1. bit \div 8 \in 0 .. c - 1 /\ bit % 8 \in 0 .. 7 /\ 8 * (bit \div 8) + (bit % 8) = bit
      BY <1>2
    <3>2. QED BY <3>1
  <2>2. bytes[chip][adr] = BitsOf(image[adr], chip)
    BY <1>4, <1>5
  <2>3. rest \in bytes[chip][adr] <=> bit \in image[adr]
    BY <2>1, <2>2 DEF BitsOf
  <2>4. image[adr] = {b \in WordBits : LitBy(b, NamedAt(order, n, adr))}
    BY <1>1 DEF Lit
  <2>5. QED BY <1>1, <2>1, <2>3, <2>4, LitIsMeant
<1>8. WellFormed
  BY AllCompiled
<1>9. \A chip \in DOMAIN bytes : DOMAIN bytes[chip] = Addresses
  BY <1>4, <1>5
<1>10. QED BY <1>2, <1>3, <1>4, <1>6, <1>7, <1>8, <1>9 DEF Intended

LEMMA Writes ==
  ASSUME source \in Sources, WalkedInv, CompileInv, Write
  PROVE  source' = source /\ phase' = "written" /\ WalkedInv' /\ ImageIsMicrocode'
<1>1. /\ phase = "compile" /\ row > Len(m_instr_lines) /\ phase' = "written" /\ chips' = split_8bit
      /\ UNCHANGED <<source, row, m_instr_lines>> /\ UNCHANGED <<source, current_section, tables>>
  BY DEF Write
<1>2. TablesRead(End) /\ IsSequence(m_instr_lines) /\ row \in 1 .. Len(m_instr_lines) + 1
  BY <1>1 DEF WalkedInv
<1>3. PICK n \in Nat : n = Len(m_instr_lines) /\ DOMAIN m_instr_lines = 1 .. n
  BY <1>2, SequenceParts
<1>4. row - 1 = n
  BY <1>1, <1>2, <1>3
<1>5. WalkedInv'
  <2>1. TablesRead(End)'
    BY <1>1, <1>2, TablesStay
  <2>2. QED BY <1>1, <1>2, <2>1 DEF WalkedInv
<1>6. WellShaped
  <2>1. \A j \in 1 .. End - 1 : WellShapedLine(j)
    BY <1>2 DEF TablesRead
  <2>2. DOMAIN source = 1 .. End - 1
    BY LinesHaveWords
  <2>3. QED BY <2>1, <2>2 DEF WellShaped
<1>7. Plain => Intended(split_8bit)
  <2> SUFFICES ASSUME Plain PROVE Intended(split_8bit)
    OBVIOUS
  <2>1. PICK order : AllResolved(order) /\ Compiled(order, n)
    BY <1>1, <1>4 DEF CompileInv, AllResolved
  <2>2. QED BY <1>2, <1>3, <2>1, WritesIntended
<1>8. WellShaped' /\ (Plain' => Intended(chips)')
  <2>1. PICK b : b = split_8bit /\ chips' = b
    BY <1>1
  <2>2. WellShaped' /\ (Plain' <=> Plain) /\ (Intended(b)' <=> Intended(b))
    BY <1>1, <1>6, SameMeaning, SameIntended
  <2>3. Plain => Intended(b)'
    BY <1>7, <2>1, <2>2
  <2>4. Intended(b)' => Intended(chips)'
    BY <2>1 DEF Intended
  <2>5. QED BY <2>2, <2>3, <2>4
<1>9. ImageIsMicrocode'
  BY <1>1, <1>8 DEF ImageIsMicrocode, Intended, High
<1>10. QED BY <1>1, <1>5, <1>9

-------------------------------------------------------------------------------
(***************************************************************************)
(* Every step keeps the invariant.                                         *)
(***************************************************************************)
\* The phases of a walk that goes on.
LEMMA InPhase ==
  ASSUME source \in Sources, source' = source,
         \/ phase' = "parse" /\ ReadInv'
         \/ phase' = "dashes" /\ WalkedInv' /\ DashesInv'
         \/ phase' = "compile" /\ WalkedInv' /\ CompileInv'
         \/ phase' = "written" /\ WalkedInv' /\ ImageIsMicrocode'
  PROVE  MicrocodeInv'
<1>1. CASE phase' = "parse" /\ ReadInv'
  BY <1>1 DEF MicrocodeInv, WalkedInv, DashesInv, CompileInv, ImageIsMicrocode
<1>2. CASE phase' = "dashes" /\ WalkedInv' /\ DashesInv'
  BY <1>2 DEF MicrocodeInv, ReadInv, CompileInv, ImageIsMicrocode
<1>3. CASE phase' = "compile" /\ WalkedInv' /\ CompileInv'
  BY <1>3 DEF MicrocodeInv, ReadInv, DashesInv, ImageIsMicrocode
<1>4. CASE phase' = "written" /\ WalkedInv' /\ ImageIsMicrocode'
  BY <1>4 DEF MicrocodeInv, ReadInv, DashesInv, CompileInv
<1>5. QED BY <1>1, <1>2, <1>3, <1>4

\* What is left alone keeps its meaning.
LEMMA StandingStill ==
  ASSUME MicrocodeInv, UNCHANGED vars
  PROVE  MicrocodeInv'
<1>1. /\ UNCHANGED <<source, m_instr_lines>> /\ UNCHANGED <<source, current_section, tables>>
      /\ UNCHANGED <<source, phase, row, current_section, control_lines, m_instr_lines>>
      /\ UNCHANGED <<image, visited_mask, chips>>
  BY DEF vars, tables
<1>2. PICK e, i : e = End /\ End' = e /\ row = i /\ row' = i
  BY <1>1, SameLines
<1>3. source \in Sources /\ ReadInv /\ WalkedInv /\ DashesInv /\ CompileInv /\ ImageIsMicrocode
  BY DEF MicrocodeInv
<1>4. /\ \A j : TablesRead(j) => TablesRead(j)'
      /\ \A order, j : LinesRead(order, j) => LinesRead(order, j)'
      /\ \A k, j : Unresolved(m_instr_lines[k], j)' <=> Unresolved(m_instr_lines[k], j)
      /\ \A k, j : Resolved(m_instr_lines[k], j)' <=> Resolved(m_instr_lines[k], j)
  BY <1>1, TablesKept, LinesKept
<1>5. Plain' <=> Plain
  BY <1>1, SameMeaning
<1>6. CASE phase = "parse"
  <2>1. i \in 1 .. e /\ TablesRead(i)'
    BY <1>2, <1>3, <1>4, <1>6 DEF ReadInv
  <2>2. PICK order : /\ LinesRead(order, i)
                     /\ \A k \in DOMAIN m_instr_lines : Unresolved(m_instr_lines[k], order[k])
    BY <1>2, <1>3, <1>6 DEF ReadInv
  <2>3. /\ LinesRead(order, i)'
        /\ \A k \in DOMAIN m_instr_lines' : Unresolved(m_instr_lines[k], order[k])'
    BY <1>1, <1>4, <2>2
  <2>4. ReadInv'
    BY <1>2, <2>1, <2>3 DEF ReadInv
  <2>5. QED BY <1>1, <1>3, <1>6, <2>4, InPhase
<1>7. CASE phase \in {"dashes", "compile", "written"}
  <2>1. TablesRead(e)' /\ IsSequence(m_instr_lines) /\ i \in 1 .. Len(m_instr_lines) + 1
    BY <1>2, <1>3, <1>4, <1>7 DEF WalkedInv
  <2>2. WalkedInv'
    BY <1>1, <1>2, <2>1 DEF WalkedInv
  <2>3. CASE phase = "dashes"
    <3>1. ASSUME Plain PROVE DashesInv'
      <4>1. PICK order : /\ LinesRead(order, e)
                         /\ \A k \in DOMAIN m_instr_lines :
                              IF k < i THEN Resolved(m_instr_lines[k], order[k])
                              ELSE Unresolved(m_instr_lines[k], order[k])
        BY <1>2, <1>3, <2>3, <3>1 DEF DashesInv
      <4>2. /\ LinesRead(order, e)'
            /\ \A k \in DOMAIN m_instr_lines' :
                 IF k < i THEN Resolved(m_instr_lines[k], order[k])'
                 ELSE Unresolved(m_instr_lines[k], order[k])'
        BY <1>1, <1>4, <4>1
      <4>3. QED BY <1>2, <4>2 DEF DashesInv
    <3>2. ASSUME ~ Plain PROVE DashesInv'
      BY <1>5, <3>2 DEF DashesInv
    <3>3. QED BY <1>1, <1>3, <2>2, <2>3, <3>1, <3>2, InPhase
  <2>4. CASE phase = "compile"
    <3>1. ASSUME Plain PROVE CompileInv'
      <4>1. PICK order : /\ LinesRead(order, End)
                         /\ \A k \in DOMAIN m_instr_lines : Resolved(m_instr_lines[k], order[k])
                         /\ Compiled(order, i - 1)
        BY <1>2, <1>3, <2>4, <3>1 DEF CompileInv
      <4>2. /\ LinesRead(order, End)'
            /\ \A k \in DOMAIN m_instr_lines' : Resolved(m_instr_lines[k], order[k])'
        BY <1>1, <4>1, ResolvedKept
      <4>3. /\ Width <= IntWidth /\ Apart(order, i - 1) /\ Known(order, i - 1)
            /\ visited_mask' = Taken(order, i - 1) /\ image' = Lit(order, i - 1)
        BY <1>1, <4>1 DEF Compiled
      <4>4. row' - 1 = i - 1
        BY <1>2
      <4>5. Compiled(order, row - 1)'
        BY <1>1, <4>3, <4>4, CompiledOn
      <4>6. QED BY <4>2, <4>5 DEF CompileInv
    <3>2. ASSUME ~ Plain PROVE CompileInv'
      BY <1>5, <3>2 DEF CompileInv
    <3>3. QED BY <1>1, <1>3, <2>2, <2>4, <3>1, <3>2, InPhase
  <2>5. CASE phase = "written"
    <3>1. PICK b : b = chips /\ chips' = b
      BY <1>1
    <3>2. (Intended(b)' <=> Intended(b)) /\ (WellShaped' <=> WellShaped)
      BY <1>1, SameIntended, SameMeaning
    <3>3. WellShaped /\ (Plain => Intended(b))
      BY <1>3, <2>5, <3>1, ImageIs
    <3>4. Intended(b)' => Intended(chips)'
      BY <3>1 DEF Intended
    <3>5. ImageIsMicrocode'
      BY <1>1, <1>5, <2>5, <3>2, <3>3, <3>4 DEF ImageIsMicrocode, Intended, High
    <3>6. QED BY <1>1, <1>3, <2>2, <2>5, <3>5, InPhase
  <2>6. QED BY <1>7, <2>3, <2>4, <2>5
<1>8. CASE phase \in {"refused", "undefined"}
  <2>1. WellShaped => ~ (Plain /\ WellFormed)
    BY <1>3, <1>8, ImageIs
  <2>2. GivesUp
    BY <1>1, <1>8, <2>1 DEF GivesUp
  <2>3. QED BY <1>3, <2>2, GivingUp
<1>9. CASE phase \notin {"parse", "dashes", "compile", "written", "refused", "undefined"}
  BY <1>1, <1>3, <1>9 DEF MicrocodeInv, ReadInv, WalkedInv, DashesInv, CompileInv, ImageIsMicrocode
<1>10. QED BY <1>6, <1>7, <1>8, <1>9

LEMMA StepKeeps ==
  ASSUME MicrocodeInv, [Next]_vars
  PROVE  MicrocodeInv'
<1>1. source \in Sources /\ ReadInv /\ WalkedInv /\ DashesInv /\ CompileInv
  BY DEF MicrocodeInv
<1>2. CASE GivesUp
  BY <1>1, <1>2, GivingUp
<1>3. CASE SectionLine
  BY <1>1, <1>2, <1>3, SectionLineReads, InPhase
<1>4. CASE EndLine
  BY <1>1, <1>2, <1>4, EndLineReads, InPhase
<1>5. CASE ConfigLine
  BY <1>1, <1>2, <1>5, ConfigLineReads, InPhase
<1>6. CASE ControlLine
  BY <1>1, <1>2, <1>6, ControlLineReads, InPhase
<1>7. CASE AliasLine
  BY <1>1, <1>2, <1>7, AliasLineReads, InPhase
<1>8. CASE CodeLine
  BY <1>1, <1>2, <1>8, CodeLineReads, InPhase
<1>9. CASE IgnoredLine
  BY <1>1, <1>9, IgnoredLineReads, InPhase
<1>10. CASE EndOfFile
  BY <1>1, <1>10, EndOfFileReads, InPhase
<1>11. CASE ProcessDashes
  BY <1>1, <1>2, <1>11, DashesDone, InPhase
<1>12. CASE StartCompile
  BY <1>1, <1>2, <1>12, CompileStarts, InPhase
<1>13. CASE CompileLine
  BY <1>1, <1>2, <1>13, LineCompiles, InPhase
<1>14. CASE Write
  BY <1>1, <1>14, Writes, InPhase
<1>15. CASE Done \/ UNCHANGED vars
  BY <1>15, StandingStill DEF Done
<1>16. QED
  BY <1>3, <1>4, <1>5, <1>6, <1>7, <1>8, <1>9, <1>10, <1>11, <1>12, <1>13, <1>14, <1>15 DEF Next

\* mc_compiler.cpp: whatever the lines of a source, the images written are those its microcode
\* means, bit by bit at every address, and a source that means something is not refused.
THEOREM ImagesAreMicrocode == Spec => []ImageIsMicrocode
<1>1. Init => MicrocodeInv
  BY InitReads
<1>2. MicrocodeInv /\ [Next]_vars => MicrocodeInv'
  BY StepKeeps
<1>3. MicrocodeInv => ImageIsMicrocode
  BY DEF MicrocodeInv
<1>4. QED BY <1>1, <1>2, <1>3, PTL DEF Spec
===============================================================================
