------------------------------- MODULE CpuProofs -------------------------------
(***************************************************************************)
(* Proofs about the arithmetic unit, for all operands, and about the       *)
(* processor, for every memory map, image and UART input.                  *)
(***************************************************************************)
EXTENDS CpuProgram, SequenceLemmas

\* The bounds of a word.
LEMMA WordBounds ==
  ASSUME NEW w
  PROVE  w \in Word <=> w \in Int /\ 0 <= w /\ w < 65536
<1>1. ASSUME NEW n \in Int
      PROVE  w \in 0 .. n - 1 <=> w \in Int /\ 0 <= w /\ w < n
  OBVIOUS
<1>2. WordSize \in Int
  BY DEF WordSize
<1>3. w \in Word <=> w \in Int /\ 0 <= w /\ w < WordSize
  BY <1>1, <1>2 DEF Word
<1>4. QED BY <1>3 DEF WordSize

\* The remainders and quotients the definitions of Alu are made of.
LEMMA ByteOfWord ==
  ASSUME NEW n \in Int
  PROVE  /\ n % 256 \in Int /\ 0 <= n % 256 /\ n % 256 < 256
         /\ n % 65536 \in Int /\ 0 <= n % 65536 /\ n % 65536 < 65536
<1>1. n % 256 \in Int /\ 0 <= n % 256 /\ n % 256 < 256
  BY SMT
<1>2. n % 65536 \in Int /\ 0 <= n % 65536 /\ n % 65536 < 65536
  BY SMT
<1>3. QED BY <1>1, <1>2

\* Each flag can be read back from the packed flags register.
LEMMA FlagBits ==
  ASSUME NEW v \in BOOLEAN, NEW s \in BOOLEAN, NEW z \in BOOLEAN, NEW c \in BOOLEAN
  PROVE  /\ Flags(v, s, z, c) \in Nibble
         /\ VF(Flags(v, s, z, c)) = Flag(v)
         /\ SF(Flags(v, s, z, c)) = Flag(s)
         /\ ZF(Flags(v, s, z, c)) = Flag(z)
         /\ CF(Flags(v, s, z, c)) = Flag(c)
<1>1. PICK i \in 0 .. 1, j \in 0 .. 1, k \in 0 .. 1, l \in 0 .. 1 :
        i = Flag(v) /\ j = Flag(s) /\ k = Flag(z) /\ l = Flag(c)
  BY DEF Flag
<1> DEFINE w == 8 * i + 4 * j + 2 * k + l
<1>2. w \in 0 .. 15
  BY SMT
<1>3. w % 2 = l
  BY SMT
<1>4. (w \div 2) % 2 = k
  BY SMT
<1>5. (w \div 4) % 2 = j
  BY SMT
<1>6. (w \div 8) % 2 = i
  BY SMT
<1>7. Flags(v, s, z, c) = w
  BY <1>1 DEF Flags
<1>8. QED
  BY <1>1, <1>2, <1>3, <1>4, <1>5, <1>6, <1>7 DEF Nibble, VF, SF, ZF, CF

\* What the conditions of the jumps test in it.
LEMMA FlagTests ==
  ASSUME NEW v \in BOOLEAN, NEW s \in BOOLEAN, NEW z \in BOOLEAN, NEW c \in BOOLEAN
  PROVE  LET g == Flags(v, s, z, c)
         IN  /\ VF(g) = 1 <=> v
             /\ SF(g) = 1 <=> s
             /\ ZF(g) = 1 <=> z
             /\ CF(g) = 1 <=> c
             /\ SF(g) # VF(g) <=> (s <=> ~v)
<1>1. /\ VF(Flags(v, s, z, c)) = Flag(v)
      /\ SF(Flags(v, s, z, c)) = Flag(s)
      /\ ZF(Flags(v, s, z, c)) = Flag(z)
      /\ CF(Flags(v, s, z, c)) = Flag(c)
  BY FlagBits
<1>2. ASSUME NEW q \in BOOLEAN PROVE Flag(q) = 1 <=> q
  BY DEF Flag
<1>3. Flag(s) # Flag(v) <=> (s <=> ~v)
  BY DEF Flag
<1>4. QED BY <1>1, <1>2, <1>3

\* What the subtraction leaves in the intermediate word.
LEMMA Borrow ==
  ASSUME NEW a \in Byte, NEW b \in Byte, NEW c \in 0 .. 1
  PROVE  /\ a >= b + c => Difference(a, b, c) = a - b - c
         /\ a < b + c => Difference(a, b, c) = 65536 + (a - b - c)
<1>1. ASSUME a >= b + c PROVE (a - b - c) % 65536 = a - b - c
  BY <1>1, SMT DEF Byte
<1>2. ASSUME a < b + c PROVE (a - b - c) % 65536 = 65536 + (a - b - c)
  BY <1>2, SMT DEF Byte
<1>3. QED BY <1>1, <1>2 DEF Difference

\* Bit 7 of a byte, and of the intermediate word of a subtraction.
LEMMA SignBit ==
  ASSUME NEW n \in Int, 0 <= n, n < 65536
  PROVE  /\ n < 128 => ~Negative(n)
         /\ n >= 128 /\ n < 256 => Negative(n)
         /\ n >= 65280 /\ n < 65408 => ~Negative(n)
         /\ n >= 65408 => Negative(n)
<1>1. ASSUME n < 128 PROVE (n \div 128) % 2 = 0
  BY <1>1, SMT
<1>2. ASSUME n >= 128, n < 256 PROVE (n \div 128) % 2 = 1
  BY <1>2, SMT
<1>3. ASSUME n >= 65280, n < 65408 PROVE (n \div 128) % 2 = 0
  BY <1>3, SMT
<1>4. ASSUME n >= 65408 PROVE (n \div 128) % 2 = 1
  BY <1>4, SMT
<1>5. QED BY <1>1, <1>2, <1>3, <1>4, SMT DEF Negative

\* The three facts all the ordering conditions are made of.
LEMMA OrdersFromFlags ==
  ASSUME NEW a \in Byte, NEW b \in Byte, NEW f,
         CF(f) = 1 <=> a < b,
         ZF(f) = 1 <=> a = b,
         SF(f) # VF(f) <=> Signed(a) < Signed(b)
  PROVE  Orders(a, b, f)
<1>1. /\ Taken(3, f) <=> ZF(f) = 1
      /\ Taken(11, f) <=> ZF(f) # 1
      /\ Taken(4, f) <=> CF(f) = 1
      /\ Taken(12, f) <=> CF(f) # 1
  BY DEF Taken, Condition
<1>2. /\ Taken(5, f) <=> CF(f) = 1 \/ ZF(f) = 1
      /\ Taken(13, f) <=> ~(CF(f) = 1 \/ ZF(f) = 1)
  BY DEF Taken, Condition
<1>3. /\ Taken(6, f) <=> SF(f) # VF(f)
      /\ Taken(14, f) <=> ~(SF(f) # VF(f))
  BY DEF Taken, Condition
<1>4. /\ Taken(7, f) <=> ZF(f) = 1 \/ SF(f) # VF(f)
      /\ Taken(15, f) <=> ~(ZF(f) = 1 \/ SF(f) # VF(f))
  BY DEF Taken, Condition
<1>5. a \in Int /\ b \in Int /\ Signed(a) \in Int /\ Signed(b) \in Int
      /\ (a = b <=> Signed(a) = Signed(b))
  BY DEF Byte, Signed
<1>6. QED BY <1>1, <1>2, <1>3, <1>4, <1>5 DEF Orders

\* For all operands, the flags of a - b decide equality and both orders.
THEOREM SubtractionDecidesOrders ==
  ASSUME NEW a \in Byte, NEW b \in Byte, NEW f \in Nibble, NEW junk \in Word
  PROVE  Orders(a, b, aluop(1, a, b, f, junk).f)
<1> DEFINE t == Difference(a, b, 0)
           v == Overflow(1, a, b, t)
           s == Negative(t)
           z == (t % 256 = 0)
           c == (t >= 256)
           g == Flags(v, s, z, c)
<1>1. aluop(1, a, b, f, junk).f = g
  BY DEF aluop, AluTmp
<1>2. v \in BOOLEAN /\ s \in BOOLEAN /\ z \in BOOLEAN /\ c \in BOOLEAN
  BY DEF Overflow, Negative
<1> HIDE DEF v, s, z, c
<1>3. /\ VF(g) = 1 <=> v
      /\ SF(g) = 1 <=> s
      /\ ZF(g) = 1 <=> z
      /\ CF(g) = 1 <=> c
      /\ SF(g) # VF(g) <=> (s <=> ~v)
  BY <1>2, FlagTests
<1> USE DEF v, s, z, c
<1>4. a \in Int /\ b \in Int /\ 0 <= a /\ a < 256 /\ 0 <= b /\ b < 256
  BY DEF Byte
<1>5. /\ a >= b => t = a - b
      /\ a < b => t = 65536 + (a - b)
  BY <1>4, Borrow
<1>6. (z <=> a = b) /\ (c <=> a < b)
  <2>1. CASE a >= b
    BY <2>1, <1>4, <1>5, SMT
  <2>2. CASE a < b
    BY <2>2, <1>4, <1>5, SMT
  <2>3. QED BY <1>4, <2>1, <2>2
<1>7. (s <=> ~v) <=> Signed(a) < Signed(b)
  <2>1. v <=> (Negative(a) <=> ~Negative(b)) /\ (Negative(a) <=> ~s)
    BY DEF Overflow, AddOp, SubOp
  <2>2. (Negative(a) <=> a >= 128) /\ (Negative(b) <=> b >= 128)
    BY <1>4, SignBit
  <2>3. a >= b => (s <=> a - b >= 128)
    BY <1>4, <1>5, SignBit
  <2>4. a < b => (s <=> a - b >= -128)
    BY <1>4, <1>5, SignBit
  <2> HIDE DEF t, v, s
  <2>5. QED
    BY <1>4, <2>1, <2>2, <2>3, <2>4 DEF Signed
<1>8. (CF(g) = 1 <=> a < b) /\ (ZF(g) = 1 <=> a = b)
       /\ (SF(g) # VF(g) <=> Signed(a) < Signed(b))
  BY <1>3, <1>6, <1>7
<1> HIDE DEF g
<1>9. Orders(a, b, g)
  BY <1>4, <1>8, OrdersFromFlags
<1>10. QED
  BY <1>1, <1>9

\* The result and the carry of an operation, by its intermediate word.
LEMMA ResultAndCarry ==
  ASSUME NEW op \in Nibble, NEW a \in Byte, NEW b \in Byte, NEW f, NEW junk
  PROVE  LET r == aluop(op, a, b, f, junk)
             tmp == AluTmp(op, a, b, CF(f), junk)
         IN  r.res = tmp % 256 /\ CF(r.f) = Flag(tmp >= 256)
<1> DEFINE tmp == AluTmp(op, a, b, CF(f), junk)
           v == Overflow(op, a, b, tmp)
           s == Negative(tmp)
           z == (tmp % 256 = 0)
           c == (tmp >= 256)
<1>1. v \in BOOLEAN /\ s \in BOOLEAN /\ z \in BOOLEAN /\ c \in BOOLEAN
  BY DEF Overflow, Negative
<1>2. aluop(op, a, b, f, junk).res = tmp % 256
      /\ aluop(op, a, b, f, junk).f = Flags(v, s, z, c)
  BY DEF aluop
<1> HIDE DEF v, s, z, c
<1>3. CF(Flags(v, s, z, c)) = Flag(c)
  BY <1>1, FlagBits
<1>4. QED BY <1>2, <1>3 DEF c

\* A word is its two bytes.
LEMMA Halves ==
  ASSUME NEW w \in Word
  PROVE  Lo(w) \in Byte /\ Hi(w) \in Byte /\ w = 256 * Hi(w) + Lo(w)
<1>1. w \in Int /\ 0 <= w /\ w < 65536
  BY WordBounds
<1>2. w % 256 \in Int /\ 0 <= w % 256 /\ w % 256 < 256
  BY <1>1, ByteOfWord
<1>3. w \div 256 \in Int
  BY <1>1, SMT
<1>4. 0 <= w \div 256 /\ w \div 256 < 256
  BY <1>1, SMT
<1>5. w = 256 * (w \div 256) + (w % 256)
  BY <1>1, SMT
<1>6. Lo(w) \in Byte
  BY <1>2 DEF Lo, Byte
<1>7. Hi(w) \in Byte
  BY <1>3, <1>4 DEF Hi, Byte
<1>8. QED BY <1>5, <1>6, <1>7 DEF Lo, Hi

\* Adding bytes, and words, without the remainder.
LEMMA Sums ==
  ASSUME NEW n \in Int, 0 <= n
  PROVE  /\ n < 512 => n % 256 = IF n < 256 THEN n ELSE n - 256
         /\ n < 131072 => n % 65536 = IF n < 65536 THEN n ELSE n - 65536
<1>1. ASSUME n < 512 PROVE n % 256 = IF n < 256 THEN n ELSE n - 256
  BY <1>1, SMT
<1>2. ASSUME n < 131072 PROVE n % 65536 = IF n < 65536 THEN n ELSE n - 65536
  BY <1>2, SMT
<1>3. QED BY <1>1, <1>2

\* Subtracting words, without the remainder.
LEMMA WordDifference ==
  ASSUME NEW n \in Int, -65536 < n, n < 65536
  PROVE  n % 65536 = IF n < 0 THEN 65536 + n ELSE n
<1>1. ASSUME n < 0 PROVE n % 65536 = 65536 + n
  BY <1>1, SMT
<1>2. ASSUME n >= 0 PROVE n % 65536 = n
  BY <1>2, SMT
<1>3. QED BY <1>1, <1>2

\* add then adc adds words, for all words.
LEMMA AddChains ==
  ASSUME NEW v \in Word, NEW w \in Word, NEW f \in Nibble
  PROVE  LET lo == aluop(0, Lo(v), Lo(w), f, 0)
             hi == aluop(6, Hi(v), Hi(w), lo.f, 0)
         IN  Pair(hi.res, lo.res) = (v + w) % 65536 /\ CF(hi.f) = Flag(v + w >= 65536)
<1> DEFINE lo == aluop(0, Lo(v), Lo(w), f, 0)
           hi == aluop(6, Hi(v), Hi(w), lo.f, 0)
<1> HIDE DEF lo, hi
<1>1. PICK a \in Byte, b \in Byte, p \in Byte, q \in Byte :
        a = Lo(v) /\ b = Lo(w) /\ p = Hi(v) /\ q = Hi(w)
          /\ v = 256 * p + a /\ w = 256 * q + b
  BY Halves
<1>2. a \in 0 .. 255 /\ b \in 0 .. 255 /\ p \in 0 .. 255 /\ q \in 0 .. 255
  BY DEF Byte
<1>3. lo.res = (a + b) % 256 /\ CF(lo.f) = Flag(a + b >= 256)
  <2>1. 0 \in Nibble /\ AluTmp(0, a, b, CF(f), 0) = a + b
    BY DEF Nibble, AluTmp
  <2>2. QED BY <1>1, <2>1, ResultAndCarry DEF lo
<1>4. PICK c \in 0 .. 1 : c = CF(lo.f) /\ c = IF a + b >= 256 THEN 1 ELSE 0
  BY <1>2, <1>3 DEF Flag
<1>5. hi.res = (p + q + c) % 256 /\ CF(hi.f) = Flag(p + q + c >= 256)
  <2>1. 6 \in Nibble /\ AluTmp(6, p, q, CF(lo.f), 0) = p + q + c
    BY <1>4 DEF Nibble, AluTmp
  <2>2. QED BY <1>1, <2>1, ResultAndCarry DEF hi
<1>6. PICK l \in Int : l = lo.res /\ l = IF a + b < 256 THEN a + b ELSE a + b - 256
  BY <1>2, <1>3, Sums
<1>7. PICK h \in Int :
        h = hi.res /\ h = IF p + q + c < 256 THEN p + q + c ELSE p + q + c - 256
  BY <1>2, <1>5, Sums
<1>8. PICK n \in Int : n = (256 * p + a) + (256 * q + b)
  BY <1>2
<1>9. n = v + w
  BY <1>1, <1>8
<1>10. 0 <= n /\ n < 131072
  BY <1>2, <1>8
<1>11. n % 65536 = IF n < 65536 THEN n ELSE n - 65536
  BY <1>10, Sums
<1>12. p + q + c >= 256 <=> n >= 65536
  BY <1>2, <1>4, <1>8
<1>13. 256 * h + l = IF n < 65536 THEN n ELSE n - 65536
  <2>1. CASE a + b >= 256
    BY <2>1, <1>2, <1>4, <1>6, <1>7, <1>8
  <2>2. CASE a + b < 256
    BY <2>2, <1>2, <1>4, <1>6, <1>7, <1>8
  <2>3. QED BY <1>2, <2>1, <2>2
<1>14. Pair(hi.res, lo.res) = (v + w) % 65536
  BY <1>6, <1>7, <1>9, <1>11, <1>13 DEF Pair
<1>15. CF(hi.f) = Flag(v + w >= 65536)
  BY <1>5, <1>9, <1>12 DEF Flag
<1>16. QED BY <1>14, <1>15 DEF hi, lo

\* sub then sbc subtracts words, for all words.
LEMMA SubtractChains ==
  ASSUME NEW v \in Word, NEW w \in Word, NEW f \in Nibble
  PROVE  LET lo == aluop(1, Lo(v), Lo(w), f, 0)
             hi == aluop(7, Hi(v), Hi(w), lo.f, 0)
         IN  Pair(hi.res, lo.res) = (v - w) % 65536 /\ CF(hi.f) = Flag(v < w)
<1> DEFINE lo == aluop(1, Lo(v), Lo(w), f, 0)
           hi == aluop(7, Hi(v), Hi(w), lo.f, 0)
<1> HIDE DEF lo, hi
<1>1. PICK a \in Byte, b \in Byte, p \in Byte, q \in Byte :
        a = Lo(v) /\ b = Lo(w) /\ p = Hi(v) /\ q = Hi(w)
          /\ v = 256 * p + a /\ w = 256 * q + b
  BY Halves
<1>2. a \in 0 .. 255 /\ b \in 0 .. 255 /\ p \in 0 .. 255 /\ q \in 0 .. 255
  BY DEF Byte
<1>3. PICK d \in Int : d = Difference(a, b, 0)
        /\ d = IF a < b THEN 65536 + (a - b) ELSE a - b
  BY <1>2, Borrow
<1>4. lo.res = d % 256 /\ CF(lo.f) = Flag(d >= 256)
  <2>1. 1 \in Nibble /\ AluTmp(1, a, b, CF(f), 0) = d
    BY <1>3 DEF Nibble, AluTmp
  <2>2. QED BY <1>1, <2>1, ResultAndCarry DEF lo
<1>5. PICK c \in 0 .. 1 : c = CF(lo.f) /\ c = IF a < b THEN 1 ELSE 0
  BY <1>2, <1>3, <1>4 DEF Flag
<1>6. PICK e \in Int : e = Difference(p, q, c)
        /\ e = IF p < q + c THEN 65536 + (p - q - c) ELSE p - q - c
  BY <1>2, Borrow
<1>7. hi.res = e % 256 /\ CF(hi.f) = Flag(e >= 256)
  <2>1. 7 \in Nibble /\ AluTmp(7, p, q, CF(lo.f), 0) = e
    BY <1>5, <1>6 DEF Nibble, AluTmp
  <2>2. QED BY <1>1, <2>1, ResultAndCarry DEF hi
<1>8. PICK l \in Int : l = lo.res /\ l = IF a < b THEN 256 + (a - b) ELSE a - b
  BY <1>2, <1>3, <1>4, SMT
<1>9. PICK h \in Int :
        h = hi.res /\ h = IF p < q + c THEN 256 + (p - q - c) ELSE p - q - c
  BY <1>2, <1>6, <1>7, SMT
<1>10. PICK n \in Int : n = (256 * p + a) - (256 * q + b)
  BY <1>2
<1>11. n = v - w
  BY <1>1, <1>10
<1>12. -65536 < n /\ n < 65536
  BY <1>2, <1>10
<1>13. n % 65536 = IF n < 0 THEN 65536 + n ELSE n
  BY <1>12, WordDifference
<1>14. p < q + c <=> n < 0
  BY <1>2, <1>5, <1>10
<1>15. 256 * h + l = IF n < 0 THEN 65536 + n ELSE n
  <2>1. CASE a < b
    BY <2>1, <1>2, <1>5, <1>8, <1>9, <1>10
  <2>2. CASE a >= b
    BY <2>2, <1>2, <1>5, <1>8, <1>9, <1>10
  <2>3. QED BY <1>2, <2>1, <2>2
<1>16. Pair(hi.res, lo.res) = (v - w) % 65536
  BY <1>8, <1>9, <1>11, <1>13, <1>15 DEF Pair
<1>17. e >= 256 <=> n < 0
  BY <1>2, <1>6, <1>14
<1>18. n < 0 <=> v < w
  BY <1>1, <1>2, <1>10
<1>19. CF(hi.f) = Flag(v < w)
  BY <1>7, <1>17, <1>18 DEF Flag
<1>20. QED BY <1>16, <1>19 DEF hi, lo

\* The bounds of the results of 8 and 16 bit arithmetic.
LEMMA ZeroByte == 0 \in Byte
BY DEF Byte

LEMMA WordRange ==
  ASSUME NEW n \in Int PROVE n % 65536 \in Word
<1>1. PICK k \in Int : k = n % 65536
  BY ByteOfWord
<1>2. 0 <= k /\ k < 65536
  BY <1>1, ByteOfWord
<1>3. k \in Word
  BY <1>2, WordBounds
<1>4. QED BY <1>1, <1>3

LEMMA ByteRange ==
  ASSUME NEW n \in Int PROVE n % 256 \in Byte
<1>1. PICK k \in Int : k = n % 256
  BY ByteOfWord
<1>2. 0 <= k /\ k < 256
  BY <1>1, ByteOfWord
<1>3. k \in Byte
  BY <1>2 DEF Byte
<1>4. QED BY <1>1, <1>3

LEMMA Inc16Typed == ASSUME NEW w \in Word PROVE Inc16(w) \in Word
<1>1. PICK n \in Int : n = w + 1
  BY WordBounds
<1>2. QED BY <1>1, WordRange DEF Inc16

LEMMA Dec16Typed == ASSUME NEW w \in Word PROVE Dec16(w) \in Word
<1>1. PICK n \in Int : n = w - 1
  BY WordBounds
<1>2. QED BY <1>1, WordRange DEF Dec16

LEMMA PairTyped == ASSUME NEW h \in Byte, NEW l \in Byte PROVE Pair(h, l) \in Word
<1>1. h \in Int /\ 0 <= h /\ h < 256
  BY DEF Byte
<1>2. l \in Int /\ 0 <= l /\ l < 256
  BY DEF Byte
<1>3. PICK n \in Int : n = 256 * h + l
  BY <1>1, <1>2
<1>4. 0 <= n /\ n < 65536
  BY <1>1, <1>2, <1>3
<1>5. n \in Word
  BY <1>4, WordBounds
<1>6. QED BY <1>3, <1>5 DEF Pair
\* The bitwise operations give a number; its low byte is the result.
LEMMA FromBitsTyped ==
  ASSUME NEW q \in [Weight -> 0 .. 1]
  PROVE  FromBits(q) \in Int
<1>1. \A w \in Weight : q[w] \in Int
  OBVIOUS
<1>2. QED BY <1>1 DEF FromBits, Weight

LEMMA BitTyped ==
  ASSUME NEW n \in Byte, NEW w \in Weight
  PROVE  Bit(n, w) \in 0 .. 1
<1>1. n \in Int
  BY DEF Byte
<1>2. CASE w = 1 BY <1>1, <1>2, SMT DEF Bit
<1>3. CASE w = 2 BY <1>1, <1>3, SMT DEF Bit
<1>4. CASE w = 4 BY <1>1, <1>4, SMT DEF Bit
<1>5. CASE w = 8 BY <1>1, <1>5, SMT DEF Bit
<1>6. CASE w = 16 BY <1>1, <1>6, SMT DEF Bit
<1>7. CASE w = 32 BY <1>1, <1>7, SMT DEF Bit
<1>8. CASE w = 64 BY <1>1, <1>8, SMT DEF Bit
<1>9. CASE w = 128 BY <1>1, <1>9, SMT DEF Bit
<1>10. QED BY <1>2, <1>3, <1>4, <1>5, <1>6, <1>7, <1>8, <1>9 DEF Weight

LEMMA BitwiseTyped ==
  ASSUME NEW a \in Byte, NEW b \in Byte
  PROVE  And(a, b) \in Int /\ Or(a, b) \in Int /\ Xor(a, b) \in Int
<1>1. And(a, b) \in Int
  <2>1. \A i, j \in 0 .. 1 : i * j \in 0 .. 1
    OBVIOUS
  <2>2. [w \in Weight |-> Bit(a, w) * Bit(b, w)] \in [Weight -> 0 .. 1]
    BY <2>1, BitTyped
  <2>3. QED BY <2>2, FromBitsTyped DEF And
<1>2. Or(a, b) \in Int
  <2>1. [w \in Weight |-> Flag(Bit(a, w) + Bit(b, w) > 0)] \in [Weight -> 0 .. 1]
    BY DEF Flag
  <2>2. QED BY <2>1, FromBitsTyped DEF Or
<1>3. Xor(a, b) \in Int
  <2>1. [w \in Weight |-> Flag(Bit(a, w) # Bit(b, w))] \in [Weight -> 0 .. 1]
    BY DEF Flag
  <2>2. QED BY <2>1, FromBitsTyped DEF Xor
<1>4. QED BY <1>1, <1>2, <1>3

\* Every operation yields a byte, four flags and a byte in A.
LEMMA AluTyped ==
  ASSUME NEW op \in Nibble, NEW a \in Byte, NEW b \in Byte, NEW f \in Nibble,
         NEW junk \in Word
  PROVE  LET r == aluop(op, a, b, f, junk)
         IN  r.res \in Byte /\ r.f \in Nibble /\ r.a \in Byte
<1> DEFINE tmp == AluTmp(op, a, b, CF(f), junk)
<1>1. a \in Int /\ b \in Int
  BY DEF Byte
<1>2. CF(f) \in Int
  BY DEF CF, Nibble
<1>3. junk \in Int
  BY WordBounds
<1>4. \A i, j, k \in Int : Difference(i, j, k) \in Int
  BY ByteOfWord DEF Difference
<1>5. a \div 2 \in Int /\ a % 2 \in Int
  BY <1>1, SMT
<1>6. tmp \in Int
  <2>1. CASE op = 0 BY <2>1, <1>1 DEF AluTmp
  <2>2. CASE op = 1 BY <2>2, <1>1, <1>4 DEF AluTmp
  <2>3. CASE op = 2
    <3>1. Difference(0, a, 0) \in Int
      <4>1. 0 - a - 0 \in Int
        BY <1>1
      <4>2. QED BY <4>1, ByteOfWord DEF Difference
    <3>2. tmp = Difference(0, a, 0)
      BY <2>3 DEF AluTmp
    <3>3. QED BY <3>1, <3>2
  <2>4. CASE op = 3 BY <2>4, <1>1 DEF AluTmp
  <2>5. CASE op = 4 BY <2>5, <1>1, <1>2 DEF AluTmp
  <2>6. CASE op = 5 BY <2>6, <1>1 DEF AluTmp
  <2>7. CASE op = 6 BY <2>7, <1>1, <1>2 DEF AluTmp
  <2>8. CASE op = 7 BY <2>8, <1>1, <1>4, <1>2 DEF AluTmp
  <2>9. CASE op = 8 BY <2>9, <1>1 DEF AluTmp
  <2>10. CASE op = 9 BY <2>10, <1>1, BitwiseTyped DEF AluTmp
  <2>11. CASE op = 10 BY <2>11, <1>1, BitwiseTyped DEF AluTmp
  <2>12. CASE op = 11 BY <2>12, <1>1, BitwiseTyped DEF AluTmp
  <2>13. CASE op = 12 BY <2>13, <1>1 DEF AluTmp
  <2>14. CASE op = 13 BY <2>14, <1>1, <1>3 DEF AluTmp
  <2>15. CASE op = 14 BY <2>15, <1>1, <1>5 DEF AluTmp
  <2>16. CASE op = 15 BY <2>16, <1>1, <1>2, <1>5 DEF AluTmp
  <2>17. QED
    BY <2>1, <2>2, <2>3, <2>4, <2>5, <2>6, <2>7, <2>8,
       <2>9, <2>10, <2>11, <2>12, <2>13, <2>14, <2>15, <2>16 DEF Nibble
<1>7. tmp % 256 \in Byte
  BY <1>6, ByteRange
<1>8. (a + 1) % 256 \in Byte
  BY <1>1, ByteRange
<1> DEFINE v == Overflow(op, a, b, tmp)
           s == Negative(tmp)
           z == (tmp % 256 = 0)
           c == (tmp >= 256)
<1>9. v \in BOOLEAN /\ s \in BOOLEAN /\ z \in BOOLEAN /\ c \in BOOLEAN
  BY DEF Overflow, Negative
<1>10. aluop(op, a, b, f, junk) =
         [res |-> tmp % 256, f |-> Flags(v, s, z, c),
          a |-> IF op = IncOp THEN (a + 1) % 256 ELSE a]
  BY DEF aluop
<1> HIDE DEF v, s, z, c
<1>11. Flags(v, s, z, c) \in Nibble
  BY <1>9, FlagBits, Zenon
<1> HIDE DEF tmp
<1>12. QED BY <1>7, <1>8, <1>10, <1>11

\* The carry flag chains byte operations into word operations: compiled code adds and
\* subtracts int and pointers this way.
THEOREM CarryChains ==
  ASSUME NEW v \in Word, NEW w \in Word, NEW f \in Nibble
  PROVE  WideArithmetic(v, w, f)
BY AddChains, SubtractChains DEF WideArithmetic
-------------------------------------------------------------------------------
\* Assigning one register keeps the machine well formed.
LEMMA Assignments ==
  ASSUME NEW g \in Machine
  PROVE  /\ \A v \in Byte : [g EXCEPT !.a = v] \in Machine
         /\ \A v \in Byte : [g EXCEPT !.b = v] \in Machine
         /\ \A v \in Byte : [g EXCEPT !.off = v] \in Machine
         /\ \A v \in Byte : [g EXCEPT !.ir = v] \in Machine
         /\ \A v \in Byte : [g EXCEPT !.bus = v] \in Machine
         /\ \A w \in Word : [g EXCEPT !.x = w] \in Machine
         /\ \A w \in Word : [g EXCEPT !.y = w] \in Machine
         /\ \A w \in Word : [g EXCEPT !.s = w] \in Machine
         /\ \A w \in Word : [g EXCEPT !.p = w] \in Machine
         /\ \A k \in Nibble : [g EXCEPT !.sect = k] \in Machine
BY DEF Machine

LEMMA Registers_Typed ==
  ASSUME NEW g \in Machine
  PROVE  /\ g.a \in Byte /\ g.b \in Byte /\ g.off \in Byte /\ g.ir \in Byte /\ g.bus \in Byte
         /\ g.x \in Word /\ g.y \in Word /\ g.s \in Word /\ g.p \in Word
         /\ g.f \in Nibble /\ g.sect \in Nibble
BY DEF Machine

\* The primitives of the memory map.
LEMMA UartReadTyped ==
  ASSUME NEW g \in Machine
  PROVE  UartRead(g) \in Machine
<1>1. CASE g.rx = <<>>
  BY <1>1, ZeroByte, Assignments DEF UartRead
<1>2. CASE g.rx # <<>>
  <2> DEFINE h == [g EXCEPT !.bus = Head(g.rx)]
  <2>1. Head(g.rx) \in Byte /\ Tail(g.rx) \in Seq(Byte)
    BY <1>2, HeadTailProperties DEF Machine
  <2>2. h \in Machine
    BY <2>1, Assignments
  <2>3. [h EXCEPT !.rx = Tail(g.rx)] \in Machine
    <3> HIDE DEF h
    <3>1. QED BY <2>1, <2>2 DEF Machine
  <2>4. UartRead(g) = [h EXCEPT !.rx = Tail(g.rx)]
    BY <1>2 DEF UartRead, Machine
  <2>5. QED BY <2>3, <2>4
<1>3. QED BY <1>1, <1>2

LEMMA LoadTyped ==
  ASSUME NEW g \in Machine, NEW adr \in Word
  PROVE  Load(g, adr) \in Machine
<1>1. CASE adr \in Mapped
  <2>1. g.mem[adr] \in Byte
    BY <1>1 DEF Machine
  <2>2. QED BY <1>1, <2>1, Assignments DEF Load
<1>2. CASE adr \notin Mapped
  BY <1>2, UartReadTyped, ZeroByte, Assignments DEF Load
<1>3. QED BY <1>1, <1>2

LEMMA StoreTyped ==
  ASSUME NEW g \in Machine, NEW adr \in Word, NEW val \in Byte
  PROVE  Store(g, adr, val) \in Machine
<1>1. CASE adr \in Mapped
  <2>1. [g.mem EXCEPT ![adr] = val] \in [Mapped -> Byte]
    BY <1>1 DEF Machine
  <2>2. Store(g, adr, val) = [g EXCEPT !.mem = [g.mem EXCEPT ![adr] = val]]
    BY <1>1 DEF Store, Machine
  <2>3. QED BY <2>1, <2>2 DEF Machine
<1>2. CASE adr \notin Mapped
  BY <1>2 DEF Store
<1>3. QED BY <1>1, <1>2

LEMMA StackAddrTyped ==
  ASSUME NEW g \in Machine
  PROVE  StackAddr(g) \in Word
<1>1. g.s \in Int
  BY Registers_Typed, WordBounds
<1>2. g.off \in Int
  BY Registers_Typed DEF Byte
<1>3. g.s + g.off \in Int
  BY <1>1, <1>2
<1>4. QED BY <1>3, WordRange DEF StackAddr

LEMMA ImmTyped ==
  ASSUME NEW g \in Machine
  PROVE  Imm(g) \in Machine /\ ImmOff(g) \in Machine
<1>1. Load(g, g.p) \in Machine
  BY LoadTyped, Registers_Typed
<1>2. Inc16(Load(g, g.p).p) \in Word
  BY <1>1, Inc16Typed, Registers_Typed
<1>3. Imm(g) \in Machine
  BY <1>1, <1>2, Assignments DEF Imm
<1>4. QED BY <1>3, Assignments, Registers_Typed DEF ImmOff

LEMMA PeekTyped ==
  ASSUME NEW g \in Machine, NEW n \in Nat
  PROVE  Peek(g, n) \in Machine
<1>1. Load(g, UartAddr) \in Machine
  BY LoadTyped, CpuAssumption
<1>2. [Load(g, UartAddr) EXCEPT !.bus = g.bus] \in Machine
  BY <1>1, Assignments, Registers_Typed
<1>3. QED BY <1>2 DEF Peek

\* The selected place, read and written.
LEMMA SelGetTyped ==
  ASSUME NEW g \in Machine, NEW sel
  PROVE  SelGet(g, sel) \in Machine
<1>1. Lo(g.x) \in Byte /\ Hi(g.x) \in Byte /\ Lo(g.y) \in Byte /\ Hi(g.y) \in Byte
        /\ Lo(g.s) \in Byte /\ Hi(g.s) \in Byte
  BY Halves, Registers_Typed
<1>2. Lo(StackAddr(g)) \in Byte /\ Hi(StackAddr(g)) \in Byte
  BY Halves, StackAddrTyped
<1>3. \A v \in Byte : [g EXCEPT !.bus = v] \in Machine
  BY DEF Machine
<1>4. /\ Load(g, StackAddr(g)) \in Machine /\ Load(g, g.x) \in Machine
      /\ Load(g, g.y) \in Machine /\ Load(g, g.s) \in Machine
  BY LoadTyped, StackAddrTyped, Registers_Typed
<1>5. Load(g, 0) \in Machine
  <2>1. 0 \in Word BY WordBounds
  <2>2. QED BY <2>1, LoadTyped
<1>6. g.a \in Byte /\ g.b \in Byte /\ g.off \in Byte
  BY Registers_Typed
<1>7. QED BY <1>1, <1>2, <1>3, <1>4, <1>5, <1>6, Zenon DEF SelGet

LEMMA SelSetTyped ==
  ASSUME NEW g \in Machine, NEW sel
  PROVE  SelSet(g, sel) \in Machine
<1>1. g.a \in Byte /\ g.b \in Byte /\ g.bus \in Byte
  BY Registers_Typed
<1>2. /\ Pair(Hi(g.x), g.bus) \in Word /\ Pair(g.bus, Lo(g.x)) \in Word
      /\ Pair(Hi(g.y), g.bus) \in Word /\ Pair(g.bus, Lo(g.y)) \in Word
      /\ Pair(Hi(g.s), g.bus) \in Word /\ Pair(g.bus, Lo(g.s)) \in Word
  BY Halves, PairTyped, Registers_Typed
<1>3. /\ [g EXCEPT !.a = g.bus] \in Machine
      /\ [g EXCEPT !.b = g.bus] \in Machine
      /\ [g EXCEPT !.off = g.bus] \in Machine
  BY <1>1, Assignments
<1>4. /\ [g EXCEPT !.x = Pair(Hi(g.x), g.bus)] \in Machine
      /\ [g EXCEPT !.x = Pair(g.bus, Lo(g.x))] \in Machine
      /\ [g EXCEPT !.y = Pair(Hi(g.y), g.bus)] \in Machine
      /\ [g EXCEPT !.y = Pair(g.bus, Lo(g.y))] \in Machine
      /\ [g EXCEPT !.s = Pair(Hi(g.s), g.bus)] \in Machine
      /\ [g EXCEPT !.s = Pair(g.bus, Lo(g.s))] \in Machine
  BY <1>2, Assignments
<1>5. [g EXCEPT !.status = "exited"] \in Machine
  BY DEF Machine
<1>6. /\ Store(g, StackAddr(g), g.bus) \in Machine /\ Store(g, g.x, g.bus) \in Machine
      /\ Store(g, g.y, g.bus) \in Machine /\ Store(g, g.s, g.bus) \in Machine
  BY <1>1, StoreTyped, StackAddrTyped, Registers_Typed
<1>7. Store(g, 0, g.bus) \in Machine
  <2>1. 0 \in Word BY WordBounds
  <2>2. QED BY <1>1, <2>1, StoreTyped
<1>8. QED BY <1>3, <1>4, <1>5, <1>6, <1>7, Zenon DEF SelSet

\* The arguments of an instruction, and the latches.
LEMMA ArgTyped ==
  ASSUME NEW g \in Machine
  PROVE  Arg(g) \in Nibble
<1>1. g.ir \in Int
  BY Registers_Typed DEF Byte
<1>2. g.ir % 16 \in 0 .. 15
  BY <1>1, SMT
<1>3. QED BY <1>2 DEF Arg, Nibble

LEMMA LatchesTyped ==
  ASSUME NEW g \in Machine
  PROVE  /\ LatchA(g) \in Machine /\ LatchB(g) \in Machine
         /\ IncS(g) \in Machine /\ DecS(g) \in Machine
         /\ EndSection(g) \in Machine
<1>1. LatchA(g) \in Machine /\ LatchB(g) \in Machine
  BY Registers_Typed, Assignments DEF LatchA, LatchB
<1>2. IncS(g) \in Machine /\ DecS(g) \in Machine
  BY Registers_Typed, Inc16Typed, Dec16Typed, Assignments DEF IncS, DecS
<1>3. 0 \in Nibble
  BY DEF Nibble
<1>4. EndSection(g) \in Machine
  BY <1>3, Assignments DEF EndSection
<1>5. QED BY <1>1, <1>2, <1>4

LEMMA ComputeTyped ==
  ASSUME NEW g \in Machine, NEW junk \in Word
  PROVE  Compute(g, junk) \in Machine
<1> DEFINE r == aluop(Arg(g), g.a, g.b, g.f, junk)
<1>1. r.res \in Byte /\ r.f \in Nibble /\ r.a \in Byte
  BY Registers_Typed, ArgTyped, AluTyped
<1> HIDE DEF r
<1>2. [g EXCEPT !.bus = r.res, !.f = r.f, !.a = r.a] \in Machine
  BY <1>1 DEF Machine
<1>3. QED BY <1>2 DEF Compute, r

\* The stack and the frame.
LEMMA StackTyped ==
  ASSUME NEW g \in Machine, NEW sel
  PROVE  /\ \A v \in Byte : PushByte(g, v) \in Machine
         /\ PopByte(g) \in Machine
         /\ PushSel(g, sel) \in Machine
         /\ PopSel(g, sel) \in Machine
         /\ PutRel(g, sel) \in Machine
         /\ GetRel(g, sel) \in Machine
<1>1. ASSUME NEW h \in Machine, NEW v \in Byte PROVE PushByte(h, v) \in Machine
  BY StoreTyped, LatchesTyped, Registers_Typed DEF PushByte
<1>2. PopByte(g) \in Machine
  BY LoadTyped, LatchesTyped, Registers_Typed, Inc16Typed DEF PopByte
<1>3. PushSel(g, sel) \in Machine
  BY <1>1, SelGetTyped, Registers_Typed DEF PushSel
<1>4. PopSel(g, sel) \in Machine
  BY <1>2, SelSetTyped DEF PopSel
<1>5. PutRel(g, sel) \in Machine
  BY SelGetTyped, Registers_Typed, StackAddrTyped, StoreTyped DEF PutRel
<1>6. GetRel(g, sel) \in Machine
  BY LoadTyped, StackAddrTyped, SelSetTyped DEF GetRel
<1>7. QED BY <1>1, <1>2, <1>3, <1>4, <1>5, <1>6

LEMMA PushWordTyped ==
  ASSUME NEW g \in Machine, NEW w \in Word
  PROVE  PushWord(g, w) \in Machine
<1>1. Lo(w) \in Byte /\ Hi(w) \in Byte
  BY Halves
<1>2. PushByte(g, Hi(w)) \in Machine
  BY <1>1, StackTyped
<1>3. QED BY <1>1, <1>2, StackTyped DEF PushWord

\* The next two bytes of the stream or of the stack, as p.
LEMMA TargetTyped ==
  ASSUME NEW g \in Machine
  PROVE  ImmP(g) \in Machine /\ PopP(g) \in Machine
<1>1. ASSUME NEW low \in Machine, NEW high \in Machine
      PROVE  [high EXCEPT !.p = Pair(high.bus, low.bus)] \in Machine
  BY Registers_Typed, PairTyped, Assignments
<1>2. ImmP(g) \in Machine
  BY <1>1, ImmTyped DEF ImmP
<1>3. PopP(g) \in Machine
  BY <1>1, StackTyped DEF PopP
<1>4. QED BY <1>2, <1>3

-------------------------------------------------------------------------------
\* Every handler takes a machine to a machine.
LEMMA Section0Typed ==
  ASSUME NEW g \in Machine
  PROVE  /\ OpSeta(g) \in Machine /\ OpPuta(g) \in Machine
         /\ OpLit(g) \in Machine /\ OpLitw(g) \in Machine
         /\ OpPush(g) \in Machine /\ OpPop(g) \in Machine
         /\ OpPushw(g) \in Machine /\ OpPopw(g) \in Machine
         /\ OpJmp(g) \in Machine /\ OpRet(g) \in Machine
         /\ OpCall(g) \in Machine /\ OpExt(g) \in Machine
<1>1. OpSeta(g) \in Machine
  BY SelGetTyped, LatchesTyped DEF OpSeta
<1>2. OpPuta(g) \in Machine
  <2>1. [g EXCEPT !.bus = g.a] \in Machine
    BY Registers_Typed, Assignments
  <2>2. QED BY <2>1, SelSetTyped DEF OpPuta
<1>3. OpLit(g) \in Machine
  BY ImmTyped, SelSetTyped DEF OpLit
<1>4. OpLitw(g) \in Machine
  BY <1>3, ImmTyped, SelSetTyped DEF OpLitw
<1>5. OpPush(g) \in Machine /\ OpPop(g) \in Machine
  BY StackTyped DEF OpPush, OpPop
<1>6. OpPushw(g) \in Machine
  BY StackTyped DEF OpPushw
<1>7. OpPopw(g) \in Machine
  BY StackTyped DEF OpPopw
<1>8. Inc16(Inc16(g.p)) \in Word
  BY Registers_Typed, Inc16Typed
<1>9. OpJmp(g) \in Machine
  BY <1>8, TargetTyped, Assignments DEF OpJmp
<1>10. OpRet(g) \in Machine
  BY TargetTyped DEF OpRet
<1>11. OpCall(g) \in Machine
  BY <1>8, TargetTyped, PushWordTyped DEF OpCall
<1>12. OpExt(g) \in Machine
  BY ArgTyped, Assignments DEF OpExt
<1>13. QED
  BY <1>1, <1>2, <1>3, <1>4, <1>5, <1>6, <1>7, <1>9, <1>10, <1>11, <1>12

LEMMA JmpsTyped ==
  ASSUME NEW g \in Machine, NEW beyond \in BOOLEAN
  PROVE  OpJmps(g, beyond) \in Machine
<1>1. [PopP(g) EXCEPT !.p = g.p] \in Machine
  BY TargetTyped, Assignments, Registers_Typed
<1>2. QED BY <1>1, TargetTyped DEF OpJmps

LEMMA FrameTyped ==
  ASSUME NEW g \in Machine
  PROVE  FrameA(g) \in Machine /\ FrameB(g) \in Machine
<1>1. Load(ImmOff(g), StackAddr(ImmOff(g))) \in Machine
  BY ImmTyped, StackAddrTyped, LoadTyped
<1>2. QED BY <1>1, LatchesTyped DEF FrameA, FrameB

LEMMA ArithmeticTyped ==
  ASSUME NEW g \in Machine, NEW junk \in Word
  PROVE  /\ OpAlu(g, junk) \in Machine /\ OpCmp(g, junk) \in Machine
         /\ OpAlus1(g, junk) \in Machine /\ OpAlus2(g, junk) \in Machine
         /\ OpAlus3(g, junk) \in Machine /\ OpCmps2(g, junk) \in Machine
<1>1. ASSUME NEW h \in Machine PROVE OpAlu(h, junk) \in Machine
  BY ComputeTyped, LatchesTyped DEF OpAlu
<1>2. OpCmp(g, junk) \in Machine
  BY ComputeTyped DEF OpCmp
<1>3. ASSUME NEW h \in Machine PROVE FrameA(h) \in Machine /\ FrameB(h) \in Machine
  BY FrameTyped
<1>4. OpAlus1(g, junk) \in Machine
  BY <1>1, <1>3, StackTyped, LatchesTyped DEF OpAlus1
<1>5. OpAlus2(g, junk) \in Machine
  BY <1>1, <1>3, StackTyped, LatchesTyped DEF OpAlus2
<1>6. OpAlus3(g, junk) \in Machine
  BY <1>1, <1>3, ImmTyped, StackTyped, LatchesTyped DEF OpAlus3
<1>7. OpCmps2(g, junk) \in Machine
  BY <1>3, ComputeTyped, LatchesTyped DEF OpCmps2
<1>8. QED BY <1>1, <1>2, <1>4, <1>5, <1>6, <1>7

LEMMA Section3Typed ==
  ASSUME NEW g \in Machine
  PROVE  /\ OpXpp(g) \in Machine /\ OpXmm(g) \in Machine
         /\ OpYpp(g) \in Machine /\ OpYmm(g) \in Machine
         /\ OpSpp(g) \in Machine /\ OpSmm(g) \in Machine
         /\ OpCalls(g) \in Machine /\ OpAdjustSp(g) \in Machine
         /\ OpPutRelSp(g) \in Machine /\ OpGetRelSp(g) \in Machine
         /\ OpPutRelSpW(g) \in Machine /\ OpGetRelSpW(g) \in Machine
         /\ OpSetb(g) \in Machine /\ OpPutb(g) \in Machine
         /\ OpSimHalt(g) \in Machine
<1>1. /\ [g EXCEPT !.x = Inc16(g.x)] \in Machine /\ [g EXCEPT !.x = Dec16(g.x)] \in Machine
      /\ [g EXCEPT !.y = Inc16(g.y)] \in Machine /\ [g EXCEPT !.y = Dec16(g.y)] \in Machine
  BY Registers_Typed, Inc16Typed, Dec16Typed, Assignments
<1>2. OpXpp(g) \in Machine /\ OpXmm(g) \in Machine
  BY <1>1, LatchesTyped DEF OpXpp, OpXmm
<1>3. OpYpp(g) \in Machine /\ OpYmm(g) \in Machine
  BY <1>1, LatchesTyped DEF OpYpp, OpYmm
<1>4. OpSpp(g) \in Machine /\ OpSmm(g) \in Machine
  BY LatchesTyped DEF OpSpp, OpSmm
<1>5. OpCalls(g) \in Machine
  BY TargetTyped, PushWordTyped, Registers_Typed, LatchesTyped DEF OpCalls
<1>6. OpAdjustSp(g) \in Machine
  <2> DEFINE n == ImmOff(g)
             low == SelSet(SelGet(n, 8), Arg(g))
  <2>1. n \in Machine
    BY ImmTyped
  <2>2. low \in Machine
    BY <2>1, SelGetTyped, SelSetTyped
  <2>3. Hi(StackAddr(n)) \in Byte
    BY <2>1, StackAddrTyped, Halves
  <2> HIDE DEF n, low
  <2>4. [low EXCEPT !.bus = Hi(StackAddr(n))] \in Machine
    BY <2>2, <2>3, Assignments
  <2>5. QED BY <2>4, SelSetTyped, LatchesTyped DEF OpAdjustSp, n, low
<1>7. OpPutRelSp(g) \in Machine /\ OpGetRelSp(g) \in Machine
  BY ImmTyped, StackTyped, LatchesTyped DEF OpPutRelSp, OpGetRelSp
<1>8. OpPutRelSpW(g) \in Machine
  BY ImmTyped, StackTyped, LatchesTyped DEF OpPutRelSpW
<1>9. OpGetRelSpW(g) \in Machine
  BY ImmTyped, StackTyped, LatchesTyped DEF OpGetRelSpW
<1>10. OpSetb(g) \in Machine
  BY SelGetTyped, LatchesTyped DEF OpSetb
<1>11. OpPutb(g) \in Machine
  <2>1. [g EXCEPT !.bus = g.b] \in Machine
    BY Registers_Typed, Assignments
  <2>2. QED BY <2>1, SelSetTyped, LatchesTyped DEF OpPutb
<1>12. OpSimHalt(g) \in Machine
  BY DEF OpSimHalt, Machine
<1>13. QED
  BY <1>2, <1>3, <1>4, <1>5, <1>6, <1>7, <1>8, <1>9, <1>10, <1>11, <1>12

LEMMA SimInfoTyped ==
  ASSUME NEW g \in Machine
  PROVE  OpSimInfo(g) \in Machine
<1>1. \A h \in Machine : Load(h, g.p) \in Machine
  BY LoadTyped, Registers_Typed
<1>2. \A h \in Machine : \A q \in BOOLEAN : [h EXCEPT !.debug = q] \in Machine
  BY DEF Machine
<1> DEFINE show == Load(Load(g, g.p), g.p)
           on   == IF show.bus = 255 THEN [show EXCEPT !.debug = TRUE] ELSE show
           next == Load(on, g.p)
           off  == IF next.bus = 254 THEN [next EXCEPT !.debug = FALSE] ELSE next
           last == Load(off, g.p)
           dump == IF last.bus = 100 THEN Peek(last, 30) ELSE last
<1> HIDE DEF show, on, next, off, last, dump
<1>3. show \in Machine
  BY <1>1 DEF show
<1>4. on \in Machine
  BY <1>2, <1>3 DEF on
<1>5. next \in Machine
  BY <1>1, <1>4 DEF next
<1>6. off \in Machine
  BY <1>2, <1>5 DEF off
<1>7. last \in Machine
  BY <1>1, <1>6 DEF last
<1>8. dump \in Machine
  BY <1>7, PeekTyped DEF dump
<1>9. PrintState(dump) \in Machine
  BY <1>8, PeekTyped DEF PrintState
<1>10. [PrintState(dump) EXCEPT !.p = Inc16(@)] \in Machine
  BY <1>9, Registers_Typed, Inc16Typed, Assignments
<1>11. OpSimInfo(g) = EndSection([PrintState(dump) EXCEPT !.p = Inc16(@)])
  BY DEF OpSimInfo, show, on, next, off, last, dump
<1>12. QED BY <1>10, <1>11, LatchesTyped
-------------------------------------------------------------------------------
\* fetch() keeps the machine well formed, and so does the end of a cycle.
LEMMA FetchedTyped ==
  ASSUME TypeOK
  PROVE  Fetched \in Machine
<1> DEFINE n == Imm(m)
           g == [n EXCEPT !.ir = n.bus]
<1>1. n \in Machine
  BY ImmTyped DEF TypeOK
<1>2. g \in Machine
  BY <1>1, Registers_Typed, Assignments
<1> HIDE DEF g
<1>3. PrintState(g) \in Machine
  BY <1>2, PeekTyped DEF PrintState
<1>4. QED BY <1>2, <1>3 DEF Fetched, g

LEMMA RetireTyped ==
  ASSUME NEW g \in Machine, Retire(g)
  PROVE  TypeOK'
<1>1. [g EXCEPT !.bus = 0] \in Machine
  BY Assignments, ZeroByte
<1>2. QED BY <1>1 DEF Retire, TypeOK

\* Initially the machine is well formed.
LEMMA InitTyped == Init => TypeOK
<1> SUFFICES ASSUME NEW rom \in Image, NEW fill \in RamFill, NEW flag \in DebugFlag,
                    m = PowerOn(rom, fill, flag)
             PROVE  TypeOK
  BY DEF Init
<1>1. rom \in [RomAddr -> Byte] /\ fill \in Byte /\ flag \in BOOLEAN
  BY CpuAssumption
<1>2. [adr \in Mapped |-> IF adr \in RomAddr THEN rom[adr] ELSE fill] \in [Mapped -> Byte]
  BY <1>1
<1>3. 0 \in Word
  BY WordBounds
<1>4. 0 \in Nibble
  BY DEF Nibble
<1>5. <<>> \in Seq(Byte)
  BY EmptySeq
<1>6. QED BY <1>1, <1>2, <1>3, <1>4, <1>5, ZeroByte DEF PowerOn, TypeOK, Machine

\* Every step keeps it well formed: the theorem's induction step, one case per action.
LEMMA StepTyped == TypeOK /\ [Next]_m => TypeOK'
<1> SUFFICES ASSUME TypeOK, [Next]_m PROVE TypeOK'
  OBVIOUS
<1>1. Fetched \in Machine
  BY FetchedTyped
<1>2. \A junk \in Junk : junk \in Word
  BY CpuAssumption
<1>3. CASE Nop \/ BadOp
  BY <1>1, <1>3, RetireTyped DEF Nop, BadOp
<1>4. CASE Seta \/ Puta \/ Lit \/ Litw \/ Push \/ Pop \/ Pushw \/ Popw
  BY <1>1, <1>4, Section0Typed, RetireTyped
     DEF Seta, Puta, Lit, Litw, Push, Pop, Pushw, Popw
<1>5. CASE Jmp \/ Ret \/ Call \/ Ext
  BY <1>1, <1>5, Section0Typed, RetireTyped DEF Jmp, Ret, Call, Ext
<1>6. CASE Jmps
  BY <1>1, <1>6, JmpsTyped, RetireTyped DEF Jmps
<1>7. CASE Alu \/ Cmp
  BY <1>1, <1>2, <1>7, ArithmeticTyped, RetireTyped DEF Alu, Cmp
<1>8. CASE Alus1 \/ Alus2 \/ Alus3 \/ Cmps2
  BY <1>1, <1>2, <1>8, ArithmeticTyped, RetireTyped DEF Alus1, Alus2, Alus3, Cmps2
<1>9. CASE Xpp \/ Xmm \/ Ypp \/ Ymm \/ Spp \/ Smm \/ Calls \/ AdjustSp
  BY <1>1, <1>9, Section3Typed, RetireTyped
     DEF Xpp, Xmm, Ypp, Ymm, Spp, Smm, Calls, AdjustSp
<1>10. CASE PutRelSp \/ GetRelSp \/ PutRelSpW \/ GetRelSpW \/ Setb \/ Putb \/ SimHalt
  BY <1>1, <1>10, Section3Typed, RetireTyped
     DEF PutRelSp, GetRelSp, PutRelSpW, GetRelSpW, Setb, Putb, SimHalt
<1>11. CASE SimInfo
  BY <1>1, <1>11, SimInfoTyped, RetireTyped DEF SimInfo
<1>12. CASE PrintsBadName
  BY <1>12 DEF PrintsBadName, TypeOK, Machine
<1>13. ASSUME NEW c \in UartByte, UartArrive(c) PROVE TypeOK'
  <2>1. c \in Byte /\ m.rx \in Seq(Byte)
    BY CpuAssumption DEF TypeOK, Machine
  <2> DEFINE kept == IF Len(m.rx) = RxCapacity THEN Tail(m.rx) ELSE m.rx
  <2>2. kept \in Seq(Byte)
    <3>1. CASE Len(m.rx) = RxCapacity
      <4>1. m.rx # <<>>
        BY <3>1, EmptySeq, CpuAssumption
      <4>2. QED BY <2>1, <3>1, <4>1, HeadTailProperties
    <3>2. CASE Len(m.rx) # RxCapacity
      BY <2>1, <3>2
    <3>3. QED BY <3>1, <3>2
  <2> HIDE DEF kept
  <2>3. Append(kept, c) \in Seq(Byte)
    BY <2>1, <2>2, AppendProperties
  <2>4. m' = [m EXCEPT !.rx = Append(kept, c)]
    BY <1>13 DEF UartArrive, kept
  <2>5. QED BY <2>3, <2>4 DEF TypeOK, Machine
<1>14. CASE Done \/ UNCHANGED m
  BY <1>14 DEF Done, TypeOK
<1>15. QED
  BY <1>3, <1>4, <1>5, <1>6, <1>7, <1>8, <1>9, <1>10, <1>11, <1>12, <1>13, <1>14
     DEF Next, LocalStep

\* No sequence of instructions, whatever the image, takes a register out of its width,
\* a memory cell out of a byte or the flags out of four bits.
THEOREM MachineTypeCorrect == Spec => []TypeOK
<1>1. QED BY InitTyped, StepTyped, PTL DEF Spec
-------------------------------------------------------------------------------
\* At most one entry of the opcode table is executed in a state.
LEMMA OneOpcode ==
  ASSUME NEW i, NEW j, NEW k, NEW l, Executes(i, j), Executes(k, l)
  PROVE  i = k /\ j = l
BY DEF Executes

\* A step that moves p in a state where a comparison is fetched is that comparison.
LEMMA OnlyComparison ==
  ASSUME TypeOK, Next, m'.p # m.p
  PROVE  (Executes(0, 10) => Cmp) /\ (Executes(2, 3) => Cmps2)
<1>1. CASE Nop \/ Seta \/ Puta \/ Lit \/ Litw \/ Push \/ Pop \/ Pushw
  BY <1>1, OneOpcode DEF Nop, Seta, Puta, Lit, Litw, Push, Pop, Pushw
<1>2. CASE Popw \/ Alu \/ Jmp \/ Jmps \/ Ret \/ Call \/ Ext
  BY <1>2, OneOpcode DEF Popw, Alu, Jmp, Jmps, Ret, Call, Ext
<1>3. CASE Alus1 \/ Alus2 \/ Alus3 \/ BadOp
  BY <1>3, OneOpcode DEF Alus1, Alus2, Alus3, BadOp
<1>4. CASE Xpp \/ Xmm \/ Ypp \/ Ymm \/ Spp \/ Smm \/ Calls \/ AdjustSp
  BY <1>4, OneOpcode DEF Xpp, Xmm, Ypp, Ymm, Spp, Smm, Calls, AdjustSp
<1>5. CASE PutRelSp \/ GetRelSp \/ PutRelSpW \/ GetRelSpW \/ Setb \/ Putb \/ SimInfo \/ SimHalt
  BY <1>5, OneOpcode
     DEF PutRelSp, GetRelSp, PutRelSpW, GetRelSpW, Setb, Putb, SimInfo, SimHalt
<1>6. CASE PrintsBadName \/ (\E c \in UartByte : UartArrive(c)) \/ Done
  <2>1. m'.p = m.p
    BY <1>6 DEF PrintsBadName, UartArrive, Done, TypeOK, Machine
  <2>2. QED BY <2>1
<1>7. CASE Cmp
  BY <1>7, OneOpcode DEF Cmp
<1>8. CASE Cmps2
  BY <1>8, OneOpcode DEF Cmps2
<1>9. QED BY <1>1, <1>2, <1>3, <1>4, <1>5, <1>6, <1>7, <1>8 DEF Next, LocalStep

\* Reading memory and printing leave the decoded instruction alone.
LEMMA InstructionKept ==
  ASSUME NEW g \in Machine
  PROVE  /\ \A adr : Load(g, adr).ir = g.ir
         /\ Imm(g).ir = g.ir /\ ImmOff(g).ir = g.ir
         /\ \A n : Peek(g, n).ir = g.ir
         /\ FrameA(g).ir = g.ir /\ FrameB(g).ir = g.ir
<1>1. ASSUME NEW h \in Machine, NEW adr PROVE Load(h, adr).ir = h.ir
  <2>1. UartRead(h).ir = h.ir
    BY DEF UartRead, Machine
  <2>2. QED BY <2>1 DEF Load, Machine
<1>2. ASSUME NEW h \in Machine PROVE Imm(h).ir = h.ir
  BY <1>1 DEF Imm, Machine
<1>3. ASSUME NEW h \in Machine PROVE ImmOff(h).ir = h.ir
  BY <1>2, ImmTyped DEF ImmOff, Machine
<1>4. ASSUME NEW n PROVE Peek(g, n).ir = g.ir
  BY <1>1 DEF Peek
<1>5. PICK h \in Machine : h = Load(ImmOff(g), StackAddr(ImmOff(g)))
  BY ImmTyped, StackAddrTyped, LoadTyped
<1>6. h.ir = g.ir
  BY <1>1, <1>3, <1>5, ImmTyped
<1>7. LatchA(h).ir = h.ir /\ LatchB(h).ir = h.ir
  BY DEF LatchA, LatchB, Machine
<1>8. FrameA(g).ir = g.ir /\ FrameB(g).ir = g.ir
  BY <1>5, <1>6, <1>7 DEF FrameA, FrameB
<1>9. QED BY <1>1, <1>2, <1>3, <1>4, <1>8

\* A comparison leaves A and B, and flags that decide their order.
LEMMA ComputeOrders ==
  ASSUME NEW g \in Machine, NEW junk \in Word, Arg(g) = 1
  PROVE  LET h == Compute(g, junk) IN Orders(h.a, h.b, h.f)
<1> DEFINE r == aluop(Arg(g), g.a, g.b, g.f, junk)
           h == [g EXCEPT !.bus = r.res, !.f = r.f, !.a = r.a]
<1>1. g.a \in Byte /\ g.b \in Byte /\ g.f \in Nibble
  BY Registers_Typed
<1>2. r.a = g.a
  BY DEF aluop, IncOp
<1>3. Orders(g.a, g.b, r.f)
  BY <1>1, SubtractionDecidesOrders
<1> HIDE DEF r
<1>4. h.a = g.a /\ h.b = g.b /\ h.f = r.f
  BY <1>2 DEF Machine
<1>5. Compute(g, junk) = h
  BY DEF Compute, r
<1>6. QED BY <1>3, <1>4, <1>5

\* For every image and every operand: the jumps after cmp sub and cmps2 sub decide the
\* relations their names promise.
THEOREM ComparisonsDecideOrder == Spec => ComparisonsOrder
<1>1. ASSUME TypeOK, [Next]_m
      PROVE  [(Executes(0, 10) \/ Executes(2, 3)) /\ Opcode % 16 = 1 /\ m'.p # m.p
                => Orders(m'.a, m'.b, m'.f)]_m
  <2> SUFFICES ASSUME Next, Executes(0, 10) \/ Executes(2, 3), Opcode % 16 = 1, m'.p # m.p
               PROVE  Orders(m'.a, m'.b, m'.f)
    BY <1>1
  <2>1. Fetched \in Machine /\ Arg(Fetched) = 1
    <3> DEFINE n == Imm(m)
               g == [n EXCEPT !.ir = n.bus]
    <3>1. n \in Machine /\ n.bus = Opcode
      <4>1. m \in Machine
        BY <1>1 DEF TypeOK
      <4>2. PICK l \in Machine : l = Load(m, m.p)
        BY <4>1, LoadTyped, Registers_Typed
      <4>3. [l EXCEPT !.p = Inc16(l.p)].bus = l.bus
        BY DEF Machine
      <4>4. QED BY <4>1, <4>2, <4>3, ImmTyped DEF Imm, Opcode
    <3>2. g \in Machine /\ g.ir = Opcode
      BY <3>1, Registers_Typed, Assignments DEF Machine
    <3> HIDE DEF g
    <3>3. Fetched.ir = Opcode
      BY <3>2, InstructionKept DEF Fetched, PrintState, g
    <3>4. QED BY <1>1, <3>3, FetchedTyped DEF Arg
  <2>2. ASSUME NEW h \in Machine, Retire(h), Orders(h.a, h.b, h.f)
        PROVE  Orders(m'.a, m'.b, m'.f)
    <3>1. m'.a = h.a /\ m'.b = h.b /\ m'.f = h.f
      BY <2>2 DEF Retire, Machine
    <3>2. QED BY <2>2, <3>1
  <2>3. CASE Executes(0, 10)
    <3>1. PICK junk \in Junk : Retire(OpCmp(Fetched, junk))
      BY <1>1, <2>3, OnlyComparison DEF Cmp
    <3>2. junk \in Word
      BY CpuAssumption
    <3>3. QED
      BY <2>1, <2>2, <3>1, <3>2, ComputeOrders, ComputeTyped DEF OpCmp
  <2>4. CASE Executes(2, 3)
    <3>1. PICK junk \in Junk : Retire(OpCmps2(Fetched, junk))
      BY <1>1, <2>4, OnlyComparison DEF Cmps2
    <3>2. junk \in Word
      BY CpuAssumption
    <3> DEFINE g == FrameA(FrameB(Fetched))
               h == Compute(g, junk)
    <3>3. FrameB(Fetched) \in Machine
      BY <2>1, FrameTyped
    <3>4. g \in Machine /\ Arg(g) = 1
      BY <2>1, <3>3, FrameTyped, InstructionKept DEF Arg
    <3> HIDE DEF g
    <3>5. Orders(h.a, h.b, h.f) /\ h \in Machine
      BY <3>2, <3>4, ComputeOrders, ComputeTyped
    <3> HIDE DEF h
    <3>6. EndSection(h).a = h.a /\ EndSection(h).b = h.b /\ EndSection(h).f = h.f
      BY <3>5 DEF EndSection, Machine
    <3>7. Retire(EndSection(h))
      BY <3>1 DEF OpCmps2, h, g
    <3>8. EndSection(h) \in Machine
      BY <3>5, LatchesTyped
    <3>9. QED BY <2>2, <3>5, <3>6, <3>7, <3>8
  <2>5. QED BY <2>3, <2>4
<1>2. Spec => []TypeOK
  BY MachineTypeCorrect
<1>3. QED BY <1>1, <1>2, PTL DEF Spec, ComparisonsOrder
-------------------------------------------------------------------------------
\* The two halves of a word, taken apart and put together.
LEMMA PairHalves ==
  /\ \A w \in Word : Pair(Hi(w), Lo(w)) = w
  /\ \A h, l \in Byte : Hi(Pair(h, l)) = h /\ Lo(Pair(h, l)) = l
<1>1. ASSUME NEW w \in Word PROVE Pair(Hi(w), Lo(w)) = w
  BY Halves DEF Pair
<1>2. ASSUME NEW h \in Byte, NEW l \in Byte
      PROVE  Hi(Pair(h, l)) = h /\ Lo(Pair(h, l)) = l
  <2>1. h \in Int /\ l \in Int /\ 0 <= l /\ l < 256
    BY DEF Byte
  <2>2. (256 * h + l) \div 256 = h /\ (256 * h + l) % 256 = l
    BY <2>1, SMT
  <2>3. QED BY <2>2 DEF Pair, Hi, Lo
<1>3. QED BY <1>1, <1>2

\* Stepping an address forth and back.
LEMMA StepAndBack ==
  ASSUME NEW w \in Word
  PROVE  /\ Inc16(Dec16(w)) = w /\ Dec16(Inc16(w)) = w
         /\ Inc16(w) # w /\ Dec16(w) # w
         /\ (w - 1) % 65536 = Dec16(w) /\ ((w - 1) + 1) % 65536 = w
         /\ w % 65536 = w /\ (w + 1) % 65536 = Inc16(w)
<1>1. w \in Int /\ 0 <= w /\ w < 65536
  BY WordBounds
<1>2. PICK d \in Int : d = Dec16(w) /\ d = IF w = 0 THEN 65535 ELSE w - 1
  BY <1>1, SMT DEF Dec16
<1>3. PICK i \in Int : i = Inc16(w) /\ i = IF w = 65535 THEN 0 ELSE w + 1
  BY <1>1, SMT DEF Inc16
<1>4. (d + 1) % 65536 = w
  BY <1>1, <1>2, SMT
<1>5. (i - 1) % 65536 = w
  BY <1>1, <1>3, SMT
<1>6. w % 65536 = w /\ ((w - 1) + 1) % 65536 = w
  BY <1>1, SMT
<1>7. Inc16(Dec16(w)) = w /\ Dec16(Inc16(w)) = w
  BY <1>2, <1>3, <1>4, <1>5 DEF Inc16, Dec16
<1>8. QED BY <1>1, <1>2, <1>3, <1>6, <1>7 DEF Inc16, Dec16

\* Moving the stack pointer and then adding the offset, or the other way round.
LEMMA NextStackAddr ==
  ASSUME NEW w \in Word, NEW o \in Byte
  PROVE  (Inc16(w) + o) % 65536 = (((w + o) % 65536) + 1) % 65536
<1>1. w \in Int /\ 0 <= w /\ w < 65536 /\ o \in Int /\ 0 <= o /\ o < 256
  BY WordBounds DEF Byte
<1>2. (((w + 1) % 65536) + o) % 65536 = (((w + o) % 65536) + 1) % 65536
  BY <1>1, SMT
<1>3. QED BY <1>2 DEF Inc16

\* The registers an instruction other than those naming them leaves alone.
SameRegisters(g, h) ==
  /\ h.a = g.a /\ h.b = g.b /\ h.x = g.x /\ h.y = g.y
  /\ h.off = g.off /\ h.p = g.p /\ h.ir = g.ir

\* The selectors of the halves of the register pairs, and the byte each names.
PairSel == {0, 2, 4}
HalfSel == 0 .. 5
Half(g, sel) == SelGet(g, sel).bus

\* Writing a byte of mapped memory changes that byte and nothing else.
LEMMA StoreFields ==
  ASSUME NEW g \in Machine, NEW adr \in Mapped, NEW v \in Byte
  PROVE  LET h == Store(g, adr, v)
         IN  /\ h \in Machine /\ SameRegisters(g, h) /\ h.s = g.s /\ h.bus = g.bus
             /\ h.mem[adr] = v
             /\ \A other \in Mapped \ {adr} : h.mem[other] = g.mem[other]
<1> DEFINE mem == [g.mem EXCEPT ![adr] = v]
<1>1. Mapped \subseteq Word
  BY CpuAssumption DEF Mapped
<1>2. g.mem \in [Mapped -> Byte]
  BY DEF Machine
<1>3. mem[adr] = v /\ \A other \in Mapped \ {adr} : mem[other] = g.mem[other]
  BY <1>2
<1>4. Store(g, adr, v) = [g EXCEPT !.mem = mem]
  BY DEF Store, Machine
<1> HIDE DEF mem
<1>5. PICK h : h = [g EXCEPT !.mem = mem]
  OBVIOUS
<1>6. h.mem = mem /\ SameRegisters(g, h) /\ h.s = g.s /\ h.bus = g.bus
  BY <1>5 DEF SameRegisters, Machine
<1>7. QED BY <1>1, <1>3, <1>4, <1>5, <1>6, StoreTyped

\* Reading mapped memory changes the bus alone.
LEMMA LoadFields ==
  ASSUME NEW g \in Machine, NEW adr \in Mapped
  PROVE  LET h == Load(g, adr)
         IN  /\ h \in Machine /\ SameRegisters(g, h) /\ h.s = g.s
             /\ h.mem = g.mem /\ h.bus = g.mem[adr]
<1>1. Mapped \subseteq Word
  BY CpuAssumption DEF Mapped
<1>2. Load(g, adr) = [g EXCEPT !.bus = g.mem[adr]]
  BY DEF Load
<1>3. PICK h : h = [g EXCEPT !.bus = g.mem[adr]]
  OBVIOUS
<1>4. h.bus = g.mem[adr] /\ h.mem = g.mem /\ SameRegisters(g, h) /\ h.s = g.s
  BY <1>3 DEF SameRegisters, Machine
<1>5. QED BY <1>1, <1>2, <1>3, <1>4, LoadTyped

\* Moving the stack pointer changes the stack pointer alone.
LEMMA MoveFields ==
  ASSUME NEW g \in Machine
  PROVE  /\ IncS(g).s = Inc16(g.s) /\ DecS(g).s = Dec16(g.s)
         /\ SameRegisters(g, IncS(g)) /\ SameRegisters(g, DecS(g))
         /\ IncS(g).mem = g.mem /\ DecS(g).mem = g.mem
         /\ IncS(g).bus = g.bus /\ DecS(g).bus = g.bus
BY DEF IncS, DecS, SameRegisters, Machine

\* Pushing a byte writes it where s points and moves s below it.
LEMMA PushByteFields ==
  ASSUME NEW g \in Machine, NEW v \in Byte, g.s \in RamAddr
  PROVE  LET h == PushByte(g, v)
         IN  /\ h \in Machine /\ SameRegisters(g, h) /\ h.s = Dec16(g.s)
             /\ h.mem[g.s] = v
             /\ \A other \in Mapped \ {g.s} : h.mem[other] = g.mem[other]
<1>1. PICK n \in Machine : n = Store(g, g.s, v)
  BY StoreFields DEF Mapped
<1>2. /\ SameRegisters(g, n) /\ n.s = g.s /\ n.mem[g.s] = v
      /\ \A other \in Mapped \ {g.s} : n.mem[other] = g.mem[other]
  BY <1>1, StoreFields DEF Mapped
<1>3. PICK h \in Machine : h = DecS(n)
  BY LatchesTyped
<1>4. h.s = Dec16(n.s) /\ SameRegisters(n, h) /\ h.mem = n.mem
  BY <1>3, MoveFields
<1>5. SameRegisters(g, h)
  BY <1>2, <1>4 DEF SameRegisters
<1>6. PushByte(g, v) = h
  BY <1>1, <1>3 DEF PushByte
<1>7. QED BY <1>2, <1>4, <1>5, <1>6

\* Popping a byte moves s up to it and delivers it on the bus.
LEMMA PopByteFields ==
  ASSUME NEW g \in Machine, Inc16(g.s) \in RamAddr
  PROVE  LET h == PopByte(g)
         IN  /\ h \in Machine /\ SameRegisters(g, h) /\ h.s = Inc16(g.s)
             /\ h.mem = g.mem /\ h.bus = g.mem[Inc16(g.s)]
<1>1. PICK n \in Machine : n = IncS(g)
  BY LatchesTyped
<1>2. n.s = Inc16(g.s) /\ SameRegisters(g, n) /\ n.mem = g.mem
  BY <1>1, MoveFields
<1>3. PICK h \in Machine : h = Load(n, Inc16(g.s))
  BY LoadFields DEF Mapped
<1>4. SameRegisters(n, h) /\ h.s = n.s /\ h.mem = n.mem /\ h.bus = n.mem[Inc16(g.s)]
  BY <1>3, LoadFields DEF Mapped
<1>5. SameRegisters(g, h)
  BY <1>2, <1>4 DEF SameRegisters
<1>6. PopByte(g) = h
  BY <1>1, <1>3 DEF PopByte
<1>7. QED BY <1>2, <1>4, <1>5, <1>6

\* Reading half a register pair puts it on the bus and changes nothing else; the two
\* halves together are the pair.
LEMMA HalfFields ==
  ASSUME NEW g \in Machine
  PROVE  /\ \A sel \in HalfSel :
              LET h == SelGet(g, sel)
              IN  /\ h \in Machine /\ SameRegisters(g, h) /\ h.s = g.s /\ h.mem = g.mem
                  /\ Half(g, sel) \in Byte
         /\ Half(g, 0) = g.a /\ Half(g, 1) = g.b
         /\ Pair(Half(g, 3), Half(g, 2)) = g.x
         /\ Pair(Half(g, 5), Half(g, 4)) = g.y
         /\ Half(g, 2) = Lo(g.x) /\ Half(g, 3) = Hi(g.x)
         /\ Half(g, 4) = Lo(g.y) /\ Half(g, 5) = Hi(g.y)
<1>1. ASSUME NEW v \in Byte
      PROVE  LET h == [g EXCEPT !.bus = v]
             IN  /\ h \in Machine /\ SameRegisters(g, h) /\ h.s = g.s /\ h.mem = g.mem
                 /\ h.bus = v
  BY DEF SameRegisters, Machine
<1>2. /\ g.a \in Byte /\ g.b \in Byte
      /\ Lo(g.x) \in Byte /\ Hi(g.x) \in Byte /\ Lo(g.y) \in Byte /\ Hi(g.y) \in Byte
  BY Halves, Registers_Typed
<1>3. /\ SelGet(g, 0) = [g EXCEPT !.bus = g.a]
      /\ SelGet(g, 1) = [g EXCEPT !.bus = g.b]
      /\ SelGet(g, 2) = [g EXCEPT !.bus = Lo(g.x)]
      /\ SelGet(g, 3) = [g EXCEPT !.bus = Hi(g.x)]
      /\ SelGet(g, 4) = [g EXCEPT !.bus = Lo(g.y)]
      /\ SelGet(g, 5) = [g EXCEPT !.bus = Hi(g.y)]
  BY DEF SelGet
<1>4. /\ Half(g, 0) = g.a /\ Half(g, 1) = g.b
      /\ Half(g, 2) = Lo(g.x) /\ Half(g, 3) = Hi(g.x)
      /\ Half(g, 4) = Lo(g.y) /\ Half(g, 5) = Hi(g.y)
  BY <1>1, <1>2, <1>3 DEF Half
<1>5. \A sel \in HalfSel : \E v \in Byte : SelGet(g, sel) = [g EXCEPT !.bus = v]
  BY <1>2, <1>3 DEF HalfSel
<1>6. ASSUME NEW sel \in HalfSel
      PROVE  LET h == SelGet(g, sel)
             IN  /\ h \in Machine /\ SameRegisters(g, h) /\ h.s = g.s /\ h.mem = g.mem
                 /\ Half(g, sel) \in Byte
  <2>1. PICK v \in Byte : SelGet(g, sel) = [g EXCEPT !.bus = v]
    BY <1>5
  <2>2. QED BY <1>1, <2>1 DEF Half
<1>7. QED BY <1>4, <1>6, PairHalves, Registers_Typed

\* Machines with the same register pairs select the same halves.
LEMMA HalvesAgree ==
  ASSUME NEW g \in Machine, NEW h \in Machine,
         h.a = g.a, h.b = g.b, h.x = g.x, h.y = g.y
  PROVE  \A sel \in HalfSel : Half(h, sel) = Half(g, sel)
<1>1. /\ Half(g, 0) = Half(h, 0) /\ Half(g, 1) = Half(h, 1) /\ Half(g, 2) = Half(h, 2)
      /\ Half(g, 3) = Half(h, 3) /\ Half(g, 4) = Half(h, 4) /\ Half(g, 5) = Half(h, 5)
  BY HalfFields
<1>2. QED BY <1>1 DEF HalfSel

\* The registers after a pair has been written with the two halves of a word.
WithPair(g, h, sel, high, low) ==
  /\ h.off = g.off /\ h.p = g.p /\ h.ir = g.ir
  /\ IF sel = 0 THEN h.a = low /\ h.b = high ELSE h.a = g.a /\ h.b = g.b
  /\ h.x = IF sel = 2 THEN Pair(high, low) ELSE g.x
  /\ h.y = IF sel = 4 THEN Pair(high, low) ELSE g.y

\* Writing the low half of a pair, other things in between, then the high half.
LEMMA SetPair ==
  ASSUME NEW g \in Machine, NEW i \in Machine, NEW sel \in PairSel,
         SameRegisters(SelSet(g, sel), i)
  PROVE  /\ WithPair(g, SelSet(i, sel + 1), sel, i.bus, g.bus)
         /\ SelSet(g, sel).s = g.s /\ SelSet(g, sel).mem = g.mem
         /\ SelSet(i, sel + 1).s = i.s /\ SelSet(i, sel + 1).mem = i.mem
         /\ SelSet(i, sel + 1).rx = i.rx /\ SelSet(g, sel).rx = g.rx
<1>1. g.bus \in Byte /\ i.bus \in Byte /\ Lo(g.x) \in Byte /\ Lo(g.y) \in Byte
        /\ Hi(g.x) \in Byte /\ Hi(g.y) \in Byte
  BY Registers_Typed, Halves
<1>2. CASE sel = 0
  <2>1. SelSet(g, sel) = [g EXCEPT !.a = g.bus] /\ SelSet(i, sel + 1) = [i EXCEPT !.b = i.bus]
    BY <1>2 DEF SelSet
  <2>2. QED BY <1>2, <2>1 DEF WithPair, SameRegisters, Machine
<1>3. CASE sel = 2
  <2>1. /\ SelSet(g, sel) = [g EXCEPT !.x = Pair(Hi(g.x), g.bus)]
        /\ SelSet(i, sel + 1) = [i EXCEPT !.x = Pair(i.bus, Lo(i.x))]
    BY <1>3 DEF SelSet
  <2>2. SelSet(g, sel).x = Pair(Hi(g.x), g.bus)
    BY <2>1 DEF Machine
  <2>3. Lo(i.x) = g.bus
    BY <1>1, <2>2, PairHalves DEF SameRegisters
  <2>4. QED BY <1>3, <2>1, <2>3 DEF WithPair, SameRegisters, Machine
<1>4. CASE sel = 4
  <2>1. /\ SelSet(g, sel) = [g EXCEPT !.y = Pair(Hi(g.y), g.bus)]
        /\ SelSet(i, sel + 1) = [i EXCEPT !.y = Pair(i.bus, Lo(i.y))]
    BY <1>4 DEF SelSet
  <2>2. SelSet(g, sel).y = Pair(Hi(g.y), g.bus)
    BY <2>1 DEF Machine
  <2>3. Lo(i.y) = g.bus
    BY <1>1, <2>2, PairHalves DEF SameRegisters
  <2>4. QED BY <1>4, <2>1, <2>3 DEF WithPair, SameRegisters, Machine
<1>5. QED BY <1>2, <1>3, <1>4 DEF PairSel

\* The operand code of a pair names its low half, and ArgHigh its high half.
LEMMA ArgOfPair ==
  ASSUME NEW g \in Machine, NEW sel \in PairSel, g.ir = sel
  PROVE  Arg(g) = sel /\ ArgHigh(g) = sel + 1 /\ sel \in HalfSel /\ sel + 1 \in HalfSel
<1>1. sel \in HalfSel /\ sel + 1 \in HalfSel
  BY DEF PairSel, HalfSel
<1>2. sel % 16 = sel /\ 2 * (sel \div 2) + 1 = sel + 1
  <2>1. sel \in Int /\ (sel = 0 \/ sel = 2 \/ sel = 4)
    BY DEF PairSel
  <2>2. QED BY <2>1, SMT
<1>3. QED BY <1>1, <1>2 DEF Arg, ArgHigh

\* The two cells a word pushed at s occupies, and the word read from above s.
PushedWord(g, h, high, low) ==
  /\ h.s = Dec16(Dec16(g.s))
  /\ h.mem[g.s] = high /\ h.mem[Dec16(g.s)] = low

\* Two bytes pushed one after the other.
LEMMA TwoPushes ==
  ASSUME NEW g \in Machine, NEW v \in Byte, NEW w \in Byte,
         g.s \in RamAddr, Dec16(g.s) \in RamAddr
  PROVE  LET n == PushByte(g, v)
             h == PushByte(n, w)
         IN  h \in Machine /\ SameRegisters(g, h) /\ PushedWord(g, h, v, w)
<1>1. PICK n \in Machine : n = PushByte(g, v)
  BY PushByteFields
<1>2. SameRegisters(g, n) /\ n.s = Dec16(g.s) /\ n.mem[g.s] = v
  BY <1>1, PushByteFields
<1>3. PICK h \in Machine : h = PushByte(n, w)
  BY <1>2, PushByteFields
<1>4. /\ SameRegisters(n, h) /\ h.s = Dec16(n.s) /\ h.mem[n.s] = w
      /\ \A other \in Mapped \ {n.s} : h.mem[other] = n.mem[other]
  BY <1>2, <1>3, PushByteFields
<1>5. g.s \in Mapped \ {n.s}
  BY <1>2, StepAndBack, Registers_Typed DEF Mapped
<1>6. SameRegisters(g, h)
  BY <1>2, <1>4 DEF SameRegisters
<1>7. PushedWord(g, h, v, w)
  BY <1>2, <1>4, <1>5 DEF PushedWord
<1>8. QED BY <1>1, <1>3, <1>6, <1>7

\* pushw lays the high half of the pair above the low one.
LEMMA PushwFields ==
  ASSUME NEW g \in Machine, NEW sel \in PairSel, g.ir = sel,
         g.s \in RamAddr, Dec16(g.s) \in RamAddr
  PROVE  LET h == OpPushw(g)
         IN  /\ h \in Machine /\ SameRegisters(g, h)
             /\ PushedWord(g, h, Half(g, sel + 1), Half(g, sel))
<1> DEFINE v == Half(g, sel + 1)
           w == Half(g, sel)
<1>1. sel \in HalfSel /\ sel + 1 \in HalfSel /\ Arg(g) = sel /\ ArgHigh(g) = sel + 1
  BY ArgOfPair
<1>2. PICK q \in Machine : q = SelGet(g, sel + 1)
  BY <1>1, HalfFields
<1>3. SameRegisters(g, q) /\ q.s = g.s /\ q.mem = g.mem /\ q.bus = v /\ v \in Byte
  BY <1>1, <1>2, HalfFields DEF Half
<1>4. PICK n \in Machine : n = PushByte(q, v)
  BY <1>3, PushByteFields
<1>5. SameRegisters(q, n) /\ n.s = Dec16(g.s) /\ n.mem[g.s] = v
  BY <1>3, <1>4, PushByteFields
<1>6. SameRegisters(g, n)
  BY <1>3, <1>5 DEF SameRegisters
<1>7. PICK r \in Machine : r = SelGet(n, sel)
  BY <1>1, HalfFields
<1>8. SameRegisters(n, r) /\ r.s = n.s /\ r.mem = n.mem /\ r.bus = w /\ w \in Byte
  <2>1. r.bus = Half(n, sel)
    BY <1>7 DEF Half
  <2>2. w \in Byte /\ Half(n, sel) = w
    BY <1>1, <1>6, HalfFields, HalvesAgree DEF SameRegisters
  <2>3. QED BY <1>1, <1>7, <2>1, <2>2, HalfFields
<1>9. PICK h \in Machine : h = PushByte(r, w)
  BY <1>5, <1>8, PushByteFields
<1>10. /\ SameRegisters(r, h) /\ h.s = Dec16(n.s) /\ h.mem[n.s] = w
       /\ \A other \in Mapped \ {n.s} : h.mem[other] = n.mem[other]
  BY <1>5, <1>8, <1>9, PushByteFields
<1>11. g.s \in Mapped \ {n.s}
  BY <1>5, StepAndBack, Registers_Typed DEF Mapped
<1>12. SameRegisters(g, h)
  BY <1>6, <1>8, <1>10 DEF SameRegisters
<1>13. PushedWord(g, h, v, w)
  BY <1>5, <1>10, <1>11 DEF PushedWord
<1>14. OpPushw(g) = h
  <2>1. PushSel(g, sel + 1) = n
    BY <1>2, <1>3, <1>4 DEF PushSel
  <2>2. PushSel(n, sel) = h
    BY <1>7, <1>8, <1>9 DEF PushSel
  <2>3. QED BY <1>1, <2>1, <2>2 DEF OpPushw
<1>15. QED BY <1>12, <1>13, <1>14

\* Writing the low half of a pair leaves the stack alone.
LEMMA SetPairLow ==
  ASSUME NEW g \in Machine, NEW sel \in PairSel
  PROVE  /\ SelSet(g, sel).s = g.s /\ SelSet(g, sel).mem = g.mem
         /\ SelSet(g, sel).off = g.off /\ SelSet(g, sel).ir = g.ir
<1>1. /\ SelSet(g, 0) = [g EXCEPT !.a = g.bus]
      /\ SelSet(g, 2) = [g EXCEPT !.x = Pair(Hi(g.x), g.bus)]
      /\ SelSet(g, 4) = [g EXCEPT !.y = Pair(Hi(g.y), g.bus)]
  BY DEF SelSet
<1>2. QED BY <1>1 DEF PairSel, Machine

\* popw takes the low half first.
LEMMA PopwFields ==
  ASSUME NEW g \in Machine, NEW sel \in PairSel, g.ir = sel,
         Inc16(g.s) \in RamAddr, Inc16(Inc16(g.s)) \in RamAddr
  PROVE  LET h == OpPopw(g)
         IN  /\ WithPair(g, h, sel, g.mem[Inc16(Inc16(g.s))], g.mem[Inc16(g.s)])
             /\ h.s = Inc16(Inc16(g.s))
<1>1. Arg(g) = sel /\ ArgHigh(g) = sel + 1
  BY ArgOfPair
<1>2. PICK n \in Machine : n = PopByte(g)
  BY PopByteFields
<1>3. SameRegisters(g, n) /\ n.s = Inc16(g.s) /\ n.mem = g.mem /\ n.bus = g.mem[Inc16(g.s)]
  BY <1>2, PopByteFields
<1>4. PICK q \in Machine : q = SelSet(n, sel)
  BY SelSetTyped
<1>5. PICK i \in Machine : i = PopByte(q)
  BY StackTyped
<1>6. q.s = n.s /\ q.mem = n.mem
  BY <1>4, SetPairLow
<1>7. SameRegisters(q, i) /\ i.s = Inc16(n.s) /\ i.bus = g.mem[Inc16(Inc16(g.s))]
  BY <1>3, <1>5, <1>6, PopByteFields
<1>8. /\ WithPair(n, SelSet(i, sel + 1), sel, i.bus, n.bus)
      /\ SelSet(i, sel + 1).s = i.s
  BY <1>4, <1>7, SetPair
<1>9. WithPair(g, SelSet(i, sel + 1), sel, i.bus, n.bus)
  BY <1>3, <1>8 DEF WithPair, SameRegisters
<1>10. OpPopw(g) = SelSet(i, sel + 1)
  BY <1>1, <1>2, <1>4, <1>5 DEF OpPopw, PopSel
<1>11. QED BY <1>3, <1>7, <1>8, <1>9, <1>10

\* The word above s becomes p.
LEMMA PopPFields ==
  ASSUME NEW g \in Machine,
         Inc16(g.s) \in RamAddr, Inc16(Inc16(g.s)) \in RamAddr
  PROVE  LET h == PopP(g)
         IN  /\ h \in Machine /\ h.p = Pair(g.mem[Inc16(Inc16(g.s))], g.mem[Inc16(g.s)])
             /\ h.s = Inc16(Inc16(g.s))
<1>1. PICK low \in Machine : low = PopByte(g)
  BY PopByteFields
<1>2. low.s = Inc16(g.s) /\ low.mem = g.mem /\ low.bus = g.mem[Inc16(g.s)]
  BY <1>1, PopByteFields
<1>3. PICK high \in Machine : high = PopByte(low)
  BY <1>2, PopByteFields
<1>4. high.s = Inc16(Inc16(g.s)) /\ high.bus = g.mem[Inc16(Inc16(g.s))]
  BY <1>2, <1>3, PopByteFields
<1>5. PICK w \in Word : w = Pair(high.bus, low.bus)
  BY Registers_Typed, PairTyped
<1>6. [high EXCEPT !.p = w].p = w /\ [high EXCEPT !.p = w].s = high.s
        /\ [high EXCEPT !.p = w] \in Machine
  BY DEF Machine
<1>7. PopP(g) = [high EXCEPT !.p = w]
  BY <1>1, <1>3, <1>5 DEF PopP
<1>8. QED BY <1>2, <1>4, <1>5, <1>6, <1>7

\* An address pushed high half first.
LEMMA PushWordFields ==
  ASSUME NEW g \in Machine, NEW w \in Word, g.s \in RamAddr, Dec16(g.s) \in RamAddr
  PROVE  LET h == PushWord(g, w)
         IN  /\ h \in Machine /\ SameRegisters(g, h)
             /\ PushedWord(g, h, Hi(w), Lo(w))
BY Halves, TwoPushes DEF PushWord

\* What was pushed is what lies above s.
LEMMA PushedIsAbove ==
  ASSUME NEW g \in Machine, NEW h \in Machine, NEW high, NEW low,
         PushedWord(g, h, high, low)
  PROVE  /\ Inc16(h.s) = Dec16(g.s) /\ Inc16(Inc16(h.s)) = g.s
         /\ h.mem[Inc16(h.s)] = low /\ h.mem[Inc16(Inc16(h.s))] = high
<1>1. g.s \in Word /\ Dec16(g.s) \in Word
  BY Registers_Typed, Dec16Typed
<1>2. Inc16(h.s) = Dec16(g.s) /\ Inc16(Dec16(g.s)) = g.s
  BY <1>1, StepAndBack DEF PushedWord
<1>3. QED BY <1>2 DEF PushedWord

\* Ending the section, and decoding an instruction, touch no register.
LEMMA SectionFields ==
  ASSUME NEW g \in Machine
  PROVE  /\ EndSection(g) \in Machine /\ SameRegisters(g, EndSection(g))
         /\ EndSection(g).s = g.s /\ EndSection(g).mem = g.mem
         /\ EndSection(g).rx = g.rx
<1>1. /\ SameRegisters(g, EndSection(g)) /\ EndSection(g).s = g.s
      /\ EndSection(g).mem = g.mem /\ EndSection(g).rx = g.rx
  BY DEF EndSection, SameRegisters, Machine
<1>2. QED BY <1>1, LatchesTyped

LEMMA DecodedFields ==
  ASSUME TypeOK, NEW sel \in Byte
  PROVE  LET h == Decoded(sel)
         IN  /\ h \in Machine /\ h.ir = sel /\ h.mem = m.mem /\ h.s = m.s /\ h.p = m.p
             /\ h.a = m.a /\ h.b = m.b /\ h.x = m.x /\ h.y = m.y /\ h.off = m.off
             /\ h.rx = m.rx
<1>1. PICK h : h = [m EXCEPT !.ir = sel]
  OBVIOUS
<1>2. /\ h \in Machine /\ h.ir = sel /\ h.mem = m.mem /\ h.s = m.s /\ h.p = m.p
      /\ h.a = m.a /\ h.b = m.b /\ h.x = m.x /\ h.y = m.y /\ h.off = m.off
      /\ h.rx = m.rx
  BY <1>1 DEF TypeOK, Machine
<1>3. QED BY <1>1, <1>2 DEF Decoded

\* A pair pushed comes back, whatever the machine.
LEMMA PushwThenPopw ==
  ASSUME NEW g \in Machine, NEW sel \in PairSel, g.ir = sel,
         g.s \in RamAddr, Dec16(g.s) \in RamAddr
  PROVE  Registers(OpPopw(OpPushw(g))) = Registers(g)
<1>1. PICK n \in Machine : n = OpPushw(g)
  BY PushwFields
<1>2. SameRegisters(g, n) /\ PushedWord(g, n, Half(g, sel + 1), Half(g, sel))
  BY <1>1, PushwFields
<1>3. /\ Inc16(n.s) = Dec16(g.s) /\ Inc16(Inc16(n.s)) = g.s
      /\ n.mem[Inc16(n.s)] = Half(g, sel) /\ n.mem[Inc16(Inc16(n.s))] = Half(g, sel + 1)
  BY <1>2, PushedIsAbove
<1>4. PICK h : h = OpPopw(n)
  OBVIOUS
<1>5. WithPair(n, h, sel, Half(g, sel + 1), Half(g, sel)) /\ h.s = g.s
  <2>1. n.ir = sel
    BY <1>2 DEF SameRegisters
  <2>2. QED BY <1>3, <1>4, <2>1, PopwFields
<1>6. /\ Half(g, 0) = g.a /\ Half(g, 1) = g.b
      /\ Pair(Half(g, 3), Half(g, 2)) = g.x /\ Pair(Half(g, 5), Half(g, 4)) = g.y
  BY HalfFields
<1>7. /\ h.a = g.a /\ h.b = g.b /\ h.x = g.x /\ h.y = g.y /\ h.off = g.off
  <2>1. CASE sel = 0
    BY <1>2, <1>5, <1>6, <2>1 DEF WithPair, SameRegisters
  <2>2. CASE sel = 2
    BY <1>2, <1>5, <1>6, <2>2 DEF WithPair, SameRegisters
  <2>3. CASE sel = 4
    BY <1>2, <1>5, <1>6, <2>3 DEF WithPair, SameRegisters
  <2>4. QED BY <2>1, <2>2, <2>3 DEF PairSel
<1>8. QED BY <1>1, <1>4, <1>5, <1>7 DEF Registers

\* A word above s is where ret goes.
LEMMA RetFields ==
  ASSUME NEW g \in Machine, NEW h \in Machine, NEW high, NEW low,
         g.s \in RamAddr, Dec16(g.s) \in RamAddr, PushedWord(g, h, high, low)
  PROVE  /\ PopP(h) \in Machine /\ PopP(h).p = Pair(high, low) /\ PopP(h).s = g.s
BY PushedIsAbove, PopPFields

\* Part one of WordsRestored: the stack.
LEMMA StackRestores == TypeOK => PushPopRestores
<1> SUFFICES ASSUME TypeOK, Writable(m.s - 1)
             PROVE  /\ \A sel \in {0, 2, 4} :
                         Registers(OpPopw(OpPushw(Decoded(sel)))) = Registers(m)
                    /\ LET h == OpRet(OpPushw(Decoded(2)))
                       IN  h.p = m.x /\ h.s = m.s
                    /\ LET h == OpRet(OpCalls(OpPushw(Decoded(4))))
                       IN  OpCalls(OpPushw(Decoded(4))).p = m.y /\ h.p = m.p /\ h.s = m.s
  BY DEF PushPopRestores
<1>1. m.s \in Word /\ m.p \in Word /\ m.s \in RamAddr /\ Dec16(m.s) \in RamAddr
  <2>1. m.s \in Word /\ m.p \in Word
    BY Registers_Typed DEF TypeOK
  <2>2. QED BY <2>1, StepAndBack DEF Writable
<1>2. ASSUME NEW sel \in PairSel
      PROVE  /\ Decoded(sel) \in Machine /\ Decoded(sel).ir = sel
             /\ Decoded(sel).s \in RamAddr /\ Dec16(Decoded(sel).s) \in RamAddr
             /\ Decoded(sel).s = m.s /\ Decoded(sel).p = m.p
             /\ Decoded(sel).x = m.x /\ Decoded(sel).y = m.y
             /\ Registers(Decoded(sel)) = Registers(m)
  <2>1. sel \in Byte
    BY DEF PairSel, Byte
  <2>2. QED BY <1>1, <2>1, DecodedFields DEF Registers
<1>3. \A sel \in {0, 2, 4} : Registers(OpPopw(OpPushw(Decoded(sel)))) = Registers(m)
  BY <1>2, PushwThenPopw DEF PairSel
<1>4. ASSUME NEW sel \in PairSel
      PROVE  LET n == OpPushw(Decoded(sel))
                 h == OpRet(n)
             IN  /\ n \in Machine /\ SameRegisters(Decoded(sel), n)
                 /\ Inc16(n.s) \in RamAddr /\ Inc16(Inc16(n.s)) \in RamAddr
                 /\ h \in Machine /\ h.s = m.s
                 /\ h.p = Pair(Half(Decoded(sel), sel + 1), Half(Decoded(sel), sel))
  <2>1. PICK g \in Machine : g = Decoded(sel)
    BY <1>2
  <2>2. PICK n \in Machine : n = OpPushw(g)
    BY <1>2, <2>1, PushwFields
  <2>3. SameRegisters(g, n) /\ PushedWord(g, n, Half(g, sel + 1), Half(g, sel))
    BY <1>2, <2>1, <2>2, PushwFields
  <2>4. /\ OpRet(n) \in Machine /\ OpRet(n).s = g.s
        /\ OpRet(n).p = Pair(Half(g, sel + 1), Half(g, sel))
    BY <1>2, <2>1, <2>3, RetFields DEF OpRet
  <2>5. Inc16(n.s) \in RamAddr /\ Inc16(Inc16(n.s)) \in RamAddr
    BY <1>2, <2>1, <2>3, PushedIsAbove
  <2>6. QED BY <1>2, <2>1, <2>2, <2>3, <2>4, <2>5
<1>5. LET h == OpRet(OpPushw(Decoded(2))) IN h.p = m.x /\ h.s = m.s
  <2>1. 2 \in PairSel /\ 2 + 1 = 3
    BY DEF PairSel
  <2>2. Pair(Half(Decoded(2), 3), Half(Decoded(2), 2)) = m.x
    BY <1>2, <2>1, HalfFields
  <2>3. QED BY <1>4, <2>1, <2>2
<1>6. LET h == OpRet(OpCalls(OpPushw(Decoded(4))))
      IN  OpCalls(OpPushw(Decoded(4))).p = m.y /\ h.p = m.p /\ h.s = m.s
  <2>1. 4 \in PairSel /\ 4 + 1 = 5
    BY DEF PairSel
  <2>2. PICK n \in Machine : n = OpPushw(Decoded(4))
    BY <1>4, <2>1
  <2>3. n.p = m.p
    BY <1>2, <1>4, <2>1, <2>2 DEF SameRegisters
  <2>4. PICK g \in Machine : g = PopP(n)
    BY TargetTyped
  <2>5. g.p = m.y /\ g.s = m.s
    <3>1. Pair(Half(Decoded(4), 5), Half(Decoded(4), 4)) = m.y
      BY <1>2, <2>1, HalfFields
    <3>2. QED BY <1>4, <2>1, <2>2, <2>4, <3>1 DEF OpRet
  <2>6. PICK w \in Machine : w = PushWord(g, n.p)
    BY PushWordTyped, Registers_Typed
  <2>7. SameRegisters(g, w) /\ PushedWord(g, w, Hi(n.p), Lo(n.p))
    BY <1>1, <2>3, <2>5, <2>6, PushWordFields
  <2>8. PICK e \in Machine : e = EndSection(w)
    BY LatchesTyped
  <2>9. SameRegisters(w, e) /\ e.s = w.s /\ e.mem = w.mem
    BY <2>8, SectionFields
  <2>10. e.p = m.y /\ PushedWord(g, e, Hi(m.p), Lo(m.p))
    BY <2>3, <2>5, <2>7, <2>9 DEF SameRegisters, PushedWord
  <2>11. PopP(e).p = m.p /\ PopP(e).s = m.s
    BY <1>1, <2>5, <2>10, RetFields, PairHalves
  <2>12. OpCalls(n) = e
    BY <2>4, <2>6, <2>8 DEF OpCalls
  <2>13. QED BY <2>2, <2>10, <2>11, <2>12 DEF OpRet
<1>7. QED BY <1>3, <1>5, <1>6

\* The operand byte of a frame instruction becomes the offset.
LEMMA ImmOffFields ==
  ASSUME NEW g \in Machine, g.p \in Mapped
  PROVE  LET h == ImmOff(g)
         IN  /\ h \in Machine /\ h.off = g.mem[g.p] /\ h.mem = g.mem /\ h.s = g.s
             /\ h.a = g.a /\ h.b = g.b /\ h.x = g.x /\ h.y = g.y /\ h.ir = g.ir
<1>1. PICK l \in Machine : l = Load(g, g.p)
  BY LoadFields
<1>2. SameRegisters(g, l) /\ l.s = g.s /\ l.mem = g.mem /\ l.bus = g.mem[g.p]
  BY <1>1, LoadFields
<1>3. PICK n : n = [l EXCEPT !.p = Inc16(l.p)]
  OBVIOUS
<1>4. /\ n \in Machine /\ n.bus = l.bus /\ n.mem = l.mem /\ n.s = l.s
      /\ n.a = l.a /\ n.b = l.b /\ n.x = l.x /\ n.y = l.y /\ n.ir = l.ir
  <2>1. Inc16(l.p) \in Word
    BY Registers_Typed, Inc16Typed
  <2>2. QED BY <1>3, <2>1 DEF Machine
<1>5. PICK h : h = [n EXCEPT !.off = n.bus]
  OBVIOUS
<1>6. /\ h.off = n.bus /\ h.mem = n.mem /\ h.s = n.s
      /\ h.a = n.a /\ h.b = n.b /\ h.x = n.x /\ h.y = n.y /\ h.ir = n.ir
  BY <1>4, <1>5 DEF Machine
<1>7. ImmOff(g) = h
  BY <1>1, <1>3, <1>5 DEF ImmOff, Imm
<1>8. QED BY <1>2, <1>4, <1>6, <1>7, ImmTyped DEF SameRegisters

\* Putting half a pair into the frame.
LEMMA PutRelFields ==
  ASSUME NEW g \in Machine, NEW sel \in HalfSel, StackAddr(g) \in RamAddr
  PROVE  LET h == PutRel(g, sel)
         IN  /\ h \in Machine /\ SameRegisters(g, h) /\ h.s = g.s
             /\ h.mem[StackAddr(g)] = Half(g, sel)
             /\ \A other \in Mapped \ {StackAddr(g)} : h.mem[other] = g.mem[other]
<1>1. PICK n \in Machine : n = SelGet(g, sel)
  BY HalfFields
<1>2. SameRegisters(g, n) /\ n.s = g.s /\ n.mem = g.mem
  BY <1>1, HalfFields
<1>3. n.bus = Half(g, sel) /\ n.bus \in Byte
  BY <1>1, Registers_Typed DEF Half
<1>4. StackAddr(n) = StackAddr(g)
  BY <1>2 DEF StackAddr, SameRegisters
<1>5. PICK h \in Machine : h = Store(n, StackAddr(g), n.bus)
  BY <1>3, StoreFields DEF Mapped
<1>6. /\ SameRegisters(n, h) /\ h.s = n.s /\ h.mem[StackAddr(g)] = n.bus
      /\ \A other \in Mapped \ {StackAddr(g)} : h.mem[other] = n.mem[other]
  BY <1>3, <1>5, StoreFields DEF Mapped
<1>7. SameRegisters(g, h)
  BY <1>2, <1>6 DEF SameRegisters
<1>8. PutRel(g, sel) = h
  BY <1>1, <1>4, <1>5 DEF PutRel
<1>9. QED BY <1>2, <1>3, <1>6, <1>7, <1>8

\* The two cells of a word in the frame.
FrameLow(g) == (g.s + g.mem[g.p]) % 65536
FrameHigh(g) == Inc16(FrameLow(g))

\* Adding one to s moves the address of the frame by one.
LEMMA FrameStep ==
  ASSUME NEW g \in Machine, NEW h \in Machine, h.s = Inc16(g.s), h.off = g.off
  PROVE  StackAddr(h) = Inc16(StackAddr(g))
BY NextStackAddr, Registers_Typed DEF StackAddr, Inc16

\* put_rel_sp_w writes the low half of the pair, then the high half above it.
LEMMA PutWordFields ==
  ASSUME NEW g \in Machine, NEW sel \in PairSel, g.ir = sel, g.p \in Mapped,
         FrameLow(g) \in RamAddr, FrameHigh(g) \in RamAddr
  PROVE  LET h == OpPutRelSpW(g)
         IN  /\ h \in Machine /\ h.s = g.s /\ h.off = g.mem[g.p] /\ h.ir = g.ir
             /\ h.a = g.a /\ h.b = g.b /\ h.x = g.x /\ h.y = g.y
             /\ h.mem[FrameLow(g)] = Half(g, sel)
             /\ h.mem[FrameHigh(g)] = Half(g, sel + 1)
             /\ \A other \in Mapped \ {FrameLow(g), FrameHigh(g)} :
                  h.mem[other] = g.mem[other]
<1> DEFINE low == FrameLow(g)
           high == FrameHigh(g)
<1>1. PICK n \in Machine : n = ImmOff(g)
  BY ImmOffFields
<1>2. /\ n.off = g.mem[g.p] /\ n.mem = g.mem /\ n.s = g.s
      /\ n.a = g.a /\ n.b = g.b /\ n.x = g.x /\ n.y = g.y /\ n.ir = sel
  BY <1>1, ImmOffFields
<1>3. Arg(g) = sel /\ ArgHigh(g) = sel + 1 /\ sel \in HalfSel /\ sel + 1 \in HalfSel
  BY <1>2, ArgOfPair
<1>4. StackAddr(n) = low
  BY <1>2 DEF StackAddr, FrameLow
<1>5. PICK q \in Machine : q = PutRel(n, sel)
  BY <1>3, <1>4, PutRelFields
<1>6. /\ SameRegisters(n, q) /\ q.s = n.s /\ q.mem[low] = Half(n, sel)
      /\ \A other \in Mapped \ {low} : q.mem[other] = n.mem[other]
  BY <1>3, <1>4, <1>5, PutRelFields
<1>7. PICK i \in Machine : i = IncS(q)
  BY LatchesTyped
<1>8. SameRegisters(q, i) /\ i.s = Inc16(q.s) /\ i.mem = q.mem
  BY <1>7, MoveFields
<1>9. SameRegisters(n, i)
  BY <1>6, <1>8 DEF SameRegisters
<1>10. StackAddr(i) = high
  <2>1. i.off = n.off /\ i.s = Inc16(n.s)
    BY <1>6, <1>8, <1>9 DEF SameRegisters
  <2>2. QED BY <1>4, <2>1, FrameStep DEF FrameHigh
<1>11. PICK j \in Machine : j = PutRel(i, sel + 1)
  BY <1>3, <1>10, PutRelFields
<1>12. /\ SameRegisters(i, j) /\ j.s = i.s /\ j.mem[high] = Half(i, sel + 1)
       /\ \A other \in Mapped \ {high} : j.mem[other] = i.mem[other]
  BY <1>3, <1>10, <1>11, PutRelFields
<1>13. PICK d \in Machine : d = DecS(j)
  BY LatchesTyped
<1>14. SameRegisters(j, d) /\ d.s = Dec16(j.s) /\ d.mem = j.mem
  BY <1>13, MoveFields
<1>15. PICK h \in Machine : h = EndSection(d)
  BY LatchesTyped
<1>16. SameRegisters(d, h) /\ h.s = d.s /\ h.mem = d.mem
  BY <1>15, SectionFields
<1>17. OpPutRelSpW(g) = h
  BY <1>1, <1>2, <1>3, <1>5, <1>6, <1>7, <1>8, <1>11, <1>13, <1>15 DEF OpPutRelSpW
<1>18. h.s = g.s
  <2>1. g.s \in Word
    BY Registers_Typed
  <2>2. QED BY <2>1, <1>2, <1>6, <1>8, <1>12, <1>14, <1>16, StepAndBack
<1>19. SameRegisters(n, h)
  BY <1>9, <1>12, <1>14, <1>16 DEF SameRegisters
<1>20. Half(n, sel) = Half(g, sel) /\ Half(i, sel + 1) = Half(g, sel + 1)
  <2>1. /\ n.a = g.a /\ n.b = g.b /\ n.x = g.x /\ n.y = g.y
        /\ i.a = g.a /\ i.b = g.b /\ i.x = g.x /\ i.y = g.y
    BY <1>2, <1>9 DEF SameRegisters
  <2>2. QED BY <1>3, <2>1, HalvesAgree
<1>21. low # high /\ low \in Mapped /\ high \in Mapped
  <2>1. low \in Word
    BY CpuAssumption
  <2>2. QED BY <2>1, StepAndBack DEF FrameHigh, Mapped
<1>22. h.mem[low] = Half(g, sel) /\ h.mem[high] = Half(g, sel + 1)
  BY <1>6, <1>8, <1>12, <1>14, <1>16, <1>20, <1>21
<1>23. \A other \in Mapped \ {low, high} : h.mem[other] = g.mem[other]
  BY <1>2, <1>6, <1>8, <1>12, <1>14, <1>16
<1> HIDE DEF low, high
<1>24. QED
  BY <1>2, <1>17, <1>18, <1>19, <1>22, <1>23 DEF SameRegisters, low, high

\* Taking half a pair out of the frame.
LEMMA GetWordFields ==
  ASSUME NEW g \in Machine, NEW sel \in PairSel, g.ir = sel, g.p \in Mapped,
         FrameLow(g) \in RamAddr, FrameHigh(g) \in RamAddr
  PROVE  LET h == OpGetRelSpW(g)
             v == g.mem[FrameHigh(g)]
             w == g.mem[FrameLow(g)]
         IN  /\ h.s = g.s
             /\ IF sel = 0 THEN h.a = w /\ h.b = v ELSE h.a = g.a /\ h.b = g.b
             /\ h.x = IF sel = 2 THEN Pair(v, w) ELSE g.x
             /\ h.y = IF sel = 4 THEN Pair(v, w) ELSE g.y
<1> DEFINE low == FrameLow(g)
           high == FrameHigh(g)
           v == g.mem[high]
           w == g.mem[low]
<1>1. PICK n \in Machine : n = ImmOff(g)
  BY ImmOffFields
<1>2. /\ n.off = g.mem[g.p] /\ n.mem = g.mem /\ n.s = g.s
      /\ n.a = g.a /\ n.b = g.b /\ n.x = g.x /\ n.y = g.y /\ n.ir = sel
  BY <1>1, ImmOffFields
<1>3. Arg(g) = sel /\ ArgHigh(g) = sel + 1
  BY <1>2, ArgOfPair
<1>4. StackAddr(n) = low /\ low \in Mapped /\ high \in Mapped
  BY <1>2 DEF StackAddr, FrameLow, Mapped
<1> HIDE DEF low, high
<1>5. PICK l \in Machine : l = Load(n, low)
  BY <1>4, LoadFields
<1>6. SameRegisters(n, l) /\ l.s = n.s /\ l.mem = n.mem /\ l.bus = w
  <2>1. SameRegisters(n, l) /\ l.s = n.s /\ l.mem = n.mem /\ l.bus = n.mem[low]
    BY <1>4, <1>5, LoadFields
  <2>2. QED BY <1>2, <2>1
<1>7. PICK q \in Machine : q = SelSet(l, sel)
  BY SelSetTyped
<1>8. q.s = l.s /\ q.mem = l.mem /\ q.off = l.off /\ q.ir = l.ir
  BY <1>7, SetPairLow
<1>9. PICK i \in Machine : i = IncS(q)
  BY LatchesTyped
<1>10. SameRegisters(q, i) /\ i.s = Inc16(q.s) /\ i.mem = q.mem
  BY <1>9, MoveFields
<1>11. StackAddr(i) = high
  <2>1. i.off = n.off /\ i.s = Inc16(n.s)
    BY <1>6, <1>8, <1>10 DEF SameRegisters
  <2>2. QED BY <1>4, <2>1, FrameStep DEF FrameHigh, low, high
<1>12. PICK j \in Machine : j = Load(i, high)
  BY <1>4, LoadFields
<1>13. SameRegisters(i, j) /\ j.s = i.s /\ j.mem = i.mem /\ j.bus = v
  <2>1. SameRegisters(i, j) /\ j.s = i.s /\ j.mem = i.mem /\ j.bus = i.mem[high]
    BY <1>4, <1>12, LoadFields
  <2>2. QED BY <1>2, <1>6, <1>8, <1>10, <2>1
<1>14. SameRegisters(q, j)
  BY <1>10, <1>13 DEF SameRegisters
<1>15. PICK r \in Machine : r = SelSet(j, sel + 1)
  BY SelSetTyped
<1>16. WithPair(l, r, sel, v, w) /\ r.s = j.s
  BY <1>6, <1>7, <1>13, <1>14, <1>15, SetPair
<1>17. PICK d \in Machine : d = DecS(r)
  BY LatchesTyped
<1>18. SameRegisters(r, d) /\ d.s = Dec16(r.s)
  BY <1>17, MoveFields
<1>19. PICK h : h = EndSection(d)
  OBVIOUS
<1>20. SameRegisters(d, h) /\ h.s = d.s
  BY <1>19, SectionFields
<1>21. OpGetRelSpW(g) = h
  BY <1>1, <1>3, <1>4, <1>5, <1>6, <1>7, <1>8, <1>9, <1>10, <1>11, <1>12, <1>15, <1>17, <1>19
     DEF OpGetRelSpW, GetRel
<1>22. h.s = g.s
  <2>1. g.s \in Word
    BY Registers_Typed
  <2>2. QED BY <2>1, <1>2, <1>6, <1>8, <1>10, <1>13, <1>16, <1>18, <1>20, StepAndBack
<1>23. WithPair(n, h, sel, v, w)
  BY <1>6, <1>16, <1>18, <1>20 DEF WithPair, SameRegisters
<1> HIDE DEF v, w
<1>24. QED BY <1>2, <1>21, <1>22, <1>23 DEF WithPair, low, high, v, w

\* Wherever the frame lies, put_rel_sp_w leaves s and the offset it read.
LEMMA PutWordAddress ==
  ASSUME NEW g \in Machine, NEW sel \in PairSel, g.ir = sel, g.p \in Mapped
  PROVE  OpPutRelSpW(g).s = g.s /\ OpPutRelSpW(g).off = g.mem[g.p]
<1>1. ASSUME NEW h \in Machine, NEW code \in HalfSel
      PROVE  /\ PutRel(h, code) \in Machine
             /\ PutRel(h, code).s = h.s /\ PutRel(h, code).off = h.off
  <2>1. PICK n \in Machine : n = SelGet(h, code)
    BY HalfFields
  <2>2. n.s = h.s /\ n.off = h.off
    BY <2>1, HalfFields DEF SameRegisters
  <2>3. Store(n, StackAddr(n), n.bus).s = n.s /\ Store(n, StackAddr(n), n.bus).off = n.off
    BY DEF Store, Machine
  <2>4. QED BY <2>1, <2>2, <2>3, StackTyped DEF PutRel
<1>2. Arg(g) = sel /\ ArgHigh(g) = sel + 1 /\ sel \in HalfSel /\ sel + 1 \in HalfSel
  BY ArgOfPair
<1>3. PICK n \in Machine : n = ImmOff(g)
  BY ImmOffFields
<1>4. n.off = g.mem[g.p] /\ n.s = g.s
  BY <1>3, ImmOffFields
<1>5. PICK q \in Machine : q = PutRel(n, sel)
  BY <1>1, <1>2
<1>6. q.s = n.s /\ q.off = n.off
  BY <1>1, <1>2, <1>5
<1>7. PICK i \in Machine : i = IncS(q)
  BY LatchesTyped
<1>8. i.s = Inc16(q.s) /\ i.off = q.off
  BY <1>7, MoveFields DEF SameRegisters
<1>9. PICK j \in Machine : j = PutRel(i, sel + 1)
  BY <1>1, <1>2
<1>10. j.s = i.s /\ j.off = i.off
  BY <1>1, <1>2, <1>9
<1>11. PICK d \in Machine : d = DecS(j)
  BY LatchesTyped
<1>12. d.s = Dec16(j.s) /\ d.off = j.off
  BY <1>11, MoveFields DEF SameRegisters
<1>13. EndSection(d).s = d.s /\ EndSection(d).off = d.off
  BY SectionFields DEF SameRegisters
<1>14. OpPutRelSpW(g) = EndSection(d)
  BY <1>2, <1>3, <1>5, <1>7, <1>9, <1>11 DEF OpPutRelSpW
<1>15. g.s \in Word
  BY Registers_Typed
<1>16. QED
  BY <1>4, <1>6, <1>8, <1>10, <1>12, <1>13, <1>14, <1>15, StepAndBack

\* Part two of WordsRestored: the frame. The operand lies in ROM, the word in RAM.
LEMMA FrameRestores == TypeOK => FrameWordRestores
<1> SUFFICES ASSUME TypeOK, m.p \in RomAddr, NEW sel \in PairSel, NEW off \in 0 .. 3
             PROVE  LET put  == OpPutRelSpW(WithOperand(sel, off))
                        get  == OpGetRelSpW([put EXCEPT !.p = m.p])
                        low  == StackAddr(put)
                        high == (low + 1) % 65536
                    IN  Writable(low) =>
                          /\ get.a = m.a /\ get.b = m.b /\ get.x = m.x /\ get.y = m.y
                          /\ get.s = m.s
                          /\ put.mem[low] = SelGet(m, sel).bus
                          /\ put.mem[high] = SelGet(m, sel + 1).bus
  BY DEF FrameWordRestores, PairSel
<1>1. sel \in Byte /\ off \in Byte /\ sel \in HalfSel /\ sel + 1 \in HalfSel
  BY DEF PairSel, HalfSel, Byte
<1>2. m \in Machine /\ m.p \in Mapped /\ m.p \notin RamAddr
  BY CpuAssumption DEF TypeOK, Mapped
<1>3. PICK d \in Machine : d = Decoded(sel)
  BY <1>1, DecodedFields
<1>4. /\ d.ir = sel /\ d.mem = m.mem /\ d.s = m.s /\ d.p = m.p
      /\ d.a = m.a /\ d.b = m.b /\ d.x = m.x /\ d.y = m.y
  BY <1>1, <1>3, DecodedFields
<1>5. PICK g \in Machine : g = WithOperand(sel, off)
  <2>1. WithOperand(sel, off) = Store(d, m.p, off)
    BY <1>2, <1>3 DEF WithOperand, Store
  <2>2. QED BY <1>1, <1>2, <2>1, StoreFields
<1>6. /\ g.ir = sel /\ g.s = m.s /\ g.p = m.p /\ g.mem[m.p] = off
      /\ g.a = m.a /\ g.b = m.b /\ g.x = m.x /\ g.y = m.y
  <2>1. g = Store(d, m.p, off)
    BY <1>2, <1>3, <1>5 DEF WithOperand, Store
  <2>2. SameRegisters(d, g) /\ g.s = d.s /\ g.mem[m.p] = off
    BY <1>1, <1>2, <2>1, StoreFields
  <2>3. QED BY <1>4, <2>2 DEF SameRegisters
<1>7. PICK put \in Machine : put = OpPutRelSpW(g)
  BY Section3Typed
<1> DEFINE low == FrameLow(g)
           high == FrameHigh(g)
<1>8. put.s = m.s /\ put.off = off
  BY <1>2, <1>6, <1>7, PutWordAddress
<1>9. StackAddr(put) = low /\ low \in Word /\ high = (low + 1) % 65536
  <2>1. StackAddr(put) = low
    BY <1>6, <1>8 DEF StackAddr, FrameLow
  <2>2. QED BY <2>1, StackAddrTyped DEF FrameHigh, Inc16
<1> HIDE DEF low, high
<1>10. SUFFICES ASSUME Writable(low)
                PROVE  LET get == OpGetRelSpW([put EXCEPT !.p = m.p])
                       IN  /\ get.a = m.a /\ get.b = m.b /\ get.x = m.x /\ get.y = m.y
                           /\ get.s = m.s
                           /\ put.mem[low] = SelGet(m, sel).bus
                           /\ put.mem[high] = SelGet(m, sel + 1).bus
  BY <1>5, <1>7, <1>9
<1>11. low \in RamAddr /\ high \in RamAddr
  BY <1>9, <1>10, StepAndBack DEF Writable
<1>12. /\ put.ir = sel
       /\ put.a = m.a /\ put.b = m.b /\ put.x = m.x /\ put.y = m.y
       /\ put.mem[low] = Half(g, sel) /\ put.mem[high] = Half(g, sel + 1)
       /\ put.mem[m.p] = off
  <2>1. m.p \in Mapped \ {low, high}
    BY <1>2, <1>11
  <2>2. QED BY <1>2, <1>6, <1>7, <1>11, <2>1, PutWordFields DEF low, high
<1>13. Half(g, sel) = Half(m, sel) /\ Half(g, sel + 1) = Half(m, sel + 1)
  BY <1>1, <1>2, <1>6, HalvesAgree
<1>14. PICK t \in Machine : t = [put EXCEPT !.p = m.p]
  BY <1>2, Registers_Typed, Assignments
<1>15. /\ t.ir = sel /\ t.p = m.p /\ t.s = m.s /\ t.mem = put.mem
       /\ t.a = m.a /\ t.b = m.b /\ t.x = m.x /\ t.y = m.y
  BY <1>8, <1>12, <1>14 DEF Machine
<1>16. FrameLow(t) = low /\ FrameHigh(t) = high
  BY <1>6, <1>12, <1>15 DEF FrameLow, FrameHigh, low, high
<1>17. PICK get : get = OpGetRelSpW(t)
  OBVIOUS
<1> DEFINE v == Half(m, sel + 1)
           w == Half(m, sel)
<1> HIDE DEF v, w
<1>18. /\ get.s = m.s
       /\ IF sel = 0 THEN get.a = w /\ get.b = v ELSE get.a = m.a /\ get.b = m.b
       /\ get.x = IF sel = 2 THEN Pair(v, w) ELSE m.x
       /\ get.y = IF sel = 4 THEN Pair(v, w) ELSE m.y
  <2>1. t.mem[FrameLow(t)] = w /\ t.mem[FrameHigh(t)] = v
    BY <1>12, <1>13, <1>15, <1>16 DEF v, w
  <2>2. QED BY <1>2, <1>11, <1>15, <1>16, <1>17, <2>1, GetWordFields
<1>19. /\ sel = 0 => w = m.a /\ v = m.b
       /\ sel = 2 => Pair(v, w) = m.x
       /\ sel = 4 => Pair(v, w) = m.y
  BY <1>2, HalfFields DEF v, w
<1>20. get.a = m.a /\ get.b = m.b /\ get.x = m.x /\ get.y = m.y /\ get.s = m.s
  BY <1>18, <1>19 DEF PairSel
<1>21. put.mem[low] = SelGet(m, sel).bus /\ put.mem[high] = SelGet(m, sel + 1).bus
  BY <1>12, <1>13 DEF Half
<1>22. QED BY <1>14, <1>17, <1>20, <1>21

\* Decoding another instruction does not change what the operand is.
LEMMA OperandFields ==
  ASSUME NEW g \in Machine, NEW h \in Machine,
         h.p = g.p, h.mem = g.mem, h.rx = g.rx, h.s = g.s, h.x = g.x, h.y = g.y
  PROVE  LET n == ImmOff(g)
             k == ImmOff(h)
         IN  /\ n \in Machine /\ k \in Machine
             /\ k.off = n.off /\ k.p = n.p /\ k.mem = n.mem /\ k.rx = n.rx
             /\ k.s = n.s /\ k.x = n.x /\ k.y = n.y /\ n.ir = g.ir /\ k.ir = h.ir
<1> DEFINE Agree(i, j) == /\ j.p = i.p /\ j.mem = i.mem /\ j.rx = i.rx
                          /\ j.s = i.s /\ j.x = i.x /\ j.y = i.y
<1>1. PICK i \in Machine, j \in Machine : i = Load(g, g.p) /\ j = Load(h, h.p)
  BY LoadTyped, Registers_Typed
<1>2. Agree(i, j) /\ j.bus = i.bus
  <2>1. CASE g.p \in Mapped
    <3>1. i = [g EXCEPT !.bus = g.mem[g.p]] /\ j = [h EXCEPT !.bus = g.mem[g.p]]
      BY <1>1, <2>1 DEF Load
    <3>2. QED BY <3>1 DEF Machine
  <2>2. CASE g.p \notin Mapped /\ (g.p # UartAddr \/ g.rx = <<>>)
    <3>1. i = [g EXCEPT !.bus = 0] /\ j = [h EXCEPT !.bus = 0]
      BY <1>1, <2>2 DEF Load, UartRead
    <3>2. QED BY <3>1 DEF Machine
  <2>3. CASE g.p \notin Mapped /\ g.p = UartAddr /\ g.rx # <<>>
    <3>1. PICK b, t : b = Head(g.rx) /\ t = Tail(g.rx)
      OBVIOUS
    <3>2. i = [g EXCEPT !.bus = b, !.rx = t] /\ j = [h EXCEPT !.bus = b, !.rx = t]
      BY <1>1, <2>3, <3>1 DEF Load, UartRead
    <3>3. QED BY <3>2 DEF Machine
  <2>4. QED BY <2>1, <2>2, <2>3
<1>3. PICK q \in Machine, r \in Machine : q = Imm(g) /\ r = Imm(h)
  BY ImmTyped
<1>4. Agree(q, r) /\ r.bus = q.bus
  <2>1. q = [i EXCEPT !.p = Inc16(i.p)] /\ r = [j EXCEPT !.p = Inc16(j.p)]
    BY <1>1, <1>3 DEF Imm
  <2>2. QED BY <1>2, <2>1 DEF Machine
<1>5. PICK n \in Machine, k \in Machine : n = ImmOff(g) /\ k = ImmOff(h)
  BY ImmTyped
<1>6. Agree(n, k) /\ k.off = n.off
  <2>1. n = [q EXCEPT !.off = q.bus] /\ k = [r EXCEPT !.off = r.bus]
    BY <1>3, <1>5 DEF ImmOff
  <2>2. QED BY <1>4, <2>1 DEF Machine
<1>7. n.ir = g.ir /\ k.ir = h.ir
  BY <1>5, InstructionKept
<1>8. QED BY <1>5, <1>6, <1>7

\* Writing s half by half.
LEMMA SetStackPointer ==
  ASSUME NEW g \in Machine, NEW h \in Machine, NEW w \in Word,
         g.bus = Lo(w), h.bus = Hi(w), h.s = SelSet(g, 6).s
  PROVE  /\ SelSet(h, 7).s = w
         /\ SelSet(g, 6).x = g.x /\ SelSet(g, 6).y = g.y /\ SelSet(g, 6).off = g.off
         /\ SelSet(g, 6).p = g.p /\ SelSet(g, 6).mem = g.mem /\ SelSet(g, 6).rx = g.rx
         /\ SelSet(h, 7).x = h.x /\ SelSet(h, 7).y = h.y /\ SelSet(h, 7).off = h.off
         /\ SelSet(h, 7).p = h.p /\ SelSet(h, 7).mem = h.mem /\ SelSet(h, 7).rx = h.rx
<1>1. /\ SelSet(g, 6) = [g EXCEPT !.s = Pair(Hi(g.s), g.bus)]
      /\ SelSet(h, 7) = [h EXCEPT !.s = Pair(h.bus, Lo(h.s))]
  BY DEF SelSet
<1>2. h.s = Pair(Hi(g.s), Lo(w))
  BY <1>1 DEF Machine
<1>3. Lo(h.s) = Lo(w)
  BY <1>2, Halves, Registers_Typed, PairHalves
<1>4. Pair(Hi(w), Lo(h.s)) = w
  BY <1>3, PairHalves
<1>5. QED BY <1>1, <1>4 DEF Machine

\* Part three of WordsRestored: adjust_sp.
LEMMA AdjustRestores == TypeOK => AdjustMatchesSequence
<1> SUFFICES ASSUME TypeOK PROVE AdjustMatchesSequence
  OBVIOUS
<1>1. 6 \in Byte /\ 0 \in Byte
  BY DEF Byte
<1>2. PICK g \in Machine, h \in Machine : g = Decoded(6) /\ h = Decoded(0)
  BY <1>1, DecodedFields
<1>3. /\ g.ir = 6 /\ h.p = g.p /\ h.mem = g.mem /\ h.rx = g.rx
      /\ h.s = g.s /\ h.x = g.x /\ h.y = g.y
  BY <1>1, <1>2, DecodedFields
<1>4. PICK n \in Machine, lit \in Machine : n = ImmOff(g) /\ lit = ImmOff(h)
  BY ImmTyped
<1>5. /\ lit.off = n.off /\ lit.p = n.p /\ lit.mem = n.mem /\ lit.rx = n.rx
      /\ lit.s = n.s /\ lit.x = n.x /\ lit.y = n.y /\ n.ir = 6
  BY <1>3, <1>4, OperandFields
<1>6. PICK w \in Word : w = StackAddr(n) /\ w = StackAddr(lit)
  BY <1>5, StackAddrTyped DEF StackAddr
<1>7. Lo(w) \in Byte /\ Hi(w) \in Byte
  BY Halves
<1> DEFINE Rest(i) == <<i.x, i.y, i.off, i.p, i.mem, i.rx>>
<1>8. PICK once : once = OpAdjustSp(g)
  OBVIOUS
<1>9. once.s = w /\ Rest(once) = Rest(n)
  <2>1. PICK q \in Machine : q = SelGet(n, 8)
    BY SelGetTyped
  <2>2. q = [n EXCEPT !.bus = Lo(w)]
    <3>1. SelGet(n, 8) = [n EXCEPT !.bus = Lo(StackAddr(n))]
      BY DEF SelGet
    <3>2. QED BY <1>6, <2>1, <3>1
  <2>3. q.bus = Lo(w) /\ Rest(q) = Rest(n)
    BY <2>2 DEF Machine
  <2>4. PICK low \in Machine : low = SelSet(q, 6)
    BY SelSetTyped
  <2>5. PICK i \in Machine : i = [low EXCEPT !.bus = Hi(w)]
    BY <1>7, Assignments
  <2>6. i.bus = Hi(w) /\ i.s = low.s /\ Rest(i) = Rest(low)
    BY <2>5 DEF Machine
  <2>7. PICK r \in Machine : r = SelSet(i, 7)
    BY SelSetTyped
  <2>8. r.s = w /\ Rest(low) = Rest(q) /\ Rest(r) = Rest(i)
    BY <2>3, <2>4, <2>6, <2>7, SetStackPointer
  <2>9. EndSection(r).s = r.s /\ Rest(EndSection(r)) = Rest(r)
    BY SectionFields DEF SameRegisters
  <2>10. Arg(g) = 6 /\ ArgHigh(g) = 7
    <3>1. 6 % 16 = 6 /\ 2 * (6 \div 2) + 1 = 7
      OBVIOUS
    <3>2. QED BY <1>3, <3>1 DEF Arg, ArgHigh
  <2>11. once = EndSection(r)
    BY <1>4, <1>6, <1>8, <2>1, <2>4, <2>5, <2>7, <2>10 DEF OpAdjustSp
  <2>12. QED BY <2>3, <2>6, <2>8, <2>9, <2>11
<1> DEFINE ab  == LatchB(SelGet(LatchA(SelGet(lit, 8)), 9))
           mid == SelSet([ab EXCEPT !.bus = ab.a], 6)
           seq == SelSet([mid EXCEPT !.bus = ab.b], 7)
<1>10. seq.s = w /\ Rest(seq) = Rest(lit)
  <2>1. PICK q \in Machine : q = SelGet(lit, 8)
    BY SelGetTyped
  <2>2. q.bus = Lo(w) /\ q.s = lit.s /\ Rest(q) = Rest(lit)
    <3>1. SelGet(lit, 8) = [lit EXCEPT !.bus = Lo(StackAddr(lit))]
      BY DEF SelGet
    <3>2. q = [lit EXCEPT !.bus = Lo(w)]
      BY <1>6, <2>1, <3>1
    <3>3. QED BY <3>2 DEF Machine
  <2>3. PICK a \in Machine : a = LatchA(q)
    BY LatchesTyped
  <2>4. a.a = Lo(w) /\ a.s = lit.s /\ Rest(a) = Rest(lit)
    BY <2>2, <2>3 DEF LatchA, Machine
  <2>5. PICK e \in Machine : e = SelGet(a, 9)
    BY SelGetTyped
  <2>6. e.bus = Hi(w) /\ e.a = Lo(w) /\ Rest(e) = Rest(lit)
    <3>1. StackAddr(a) = w
      BY <1>6, <2>4 DEF StackAddr
    <3>2. SelGet(a, 9) = [a EXCEPT !.bus = Hi(StackAddr(a))]
      BY DEF SelGet
    <3>3. e = [a EXCEPT !.bus = Hi(w)]
      BY <2>5, <3>1, <3>2
    <3>4. QED BY <2>4, <3>3 DEF Machine
  <2>7. PICK c \in Machine : c = LatchB(e)
    BY LatchesTyped
  <2>8. c.a = Lo(w) /\ c.b = Hi(w) /\ Rest(c) = Rest(lit)
    BY <2>6, <2>7 DEF LatchB, Machine
  <2>9. PICK i \in Machine : i = [c EXCEPT !.bus = c.a]
    BY Registers_Typed, Assignments
  <2>10. i.bus = Lo(w) /\ Rest(i) = Rest(lit)
    BY <2>8, <2>9 DEF Machine
  <2>11. PICK j \in Machine : j = SelSet(i, 6)
    BY SelSetTyped
  <2>12. PICK k \in Machine : k = [j EXCEPT !.bus = c.b]
    BY Registers_Typed, Assignments
  <2>13. k.bus = Hi(w) /\ k.s = j.s /\ Rest(k) = Rest(j)
    BY <2>8, <2>12 DEF Machine
  <2>14. PICK r \in Machine : r = SelSet(k, 7)
    BY SelSetTyped
  <2>15. r.s = w /\ Rest(j) = Rest(i) /\ Rest(r) = Rest(k)
    BY <2>10, <2>11, <2>13, <2>14, SetStackPointer
  <2>16. seq = r
    BY <2>1, <2>3, <2>5, <2>7, <2>9, <2>11, <2>12, <2>14
  <2>17. QED BY <2>10, <2>13, <2>15, <2>16
<1>11. Rest(n) = Rest(lit)
  BY <1>5
<1>12. /\ <<once.s, once.x, once.y, once.off, once.p>> =
            <<seq.s, seq.x, seq.y, seq.off, seq.p>>
       /\ once.mem = seq.mem /\ once.rx = seq.rx
  BY <1>9, <1>10, <1>11
<1>13. QED BY <1>2, <1>4, <1>8, <1>12 DEF AdjustMatchesSequence

\* Whatever the program has done before: a word pushed is the word popped and the
\* address returned to, a word put into the frame is the word taken out, and the stack
\* pointer is moved as a whole.
THEOREM WordsAreRestored == Spec => []WordsRestored
<1>1. TypeOK => WordsRestored
  BY StackRestores, FrameRestores, AdjustRestores DEF WordsRestored
<1>2. QED BY <1>1, MachineTypeCorrect, PTL
-------------------------------------------------------------------------------
\* A step of a handler that leaves the instruction stream alone, and one that takes n
\* bytes of it.
Takes(g, h, n) == h.sect = g.sect /\ h.p = (g.p + n) % 65536
Stays(g, h) == h.sect = g.sect /\ h.p = g.p

LEMMA TakesTogether ==
  ASSUME NEW g, g.p \in Word, NEW h, NEW k, NEW i \in 0 .. 4, NEW j \in 0 .. 4,
         Takes(g, h, i), Takes(h, k, j)
  PROVE  Takes(g, k, i + j)
<1>1. PICK p \in Int : p = g.p /\ 0 <= p /\ p < 65536
  BY WordBounds
<1>2. (((p + i) % 65536) + j) % 65536 = (p + (i + j)) % 65536
  BY <1>1, SMT
<1>3. QED BY <1>1, <1>2 DEF Takes

LEMMA StaysTakes ==
  ASSUME NEW g, g.p \in Word, NEW h, Stays(g, h)
  PROVE  Takes(g, h, 0)
<1>1. PICK p \in Int : p = g.p /\ 0 <= p /\ p < 65536
  BY WordBounds
<1>2. (p + 0) % 65536 = p
  BY <1>1, SMT
<1>3. QED BY <1>1, <1>2 DEF Takes, Stays

\* An assignment to a field that is neither.
LEMMA AssignmentStays ==
  ASSUME NEW g \in Machine, NEW v
  PROVE  /\ Stays(g, [g EXCEPT !.a = v]) /\ Stays(g, [g EXCEPT !.b = v])
         /\ Stays(g, [g EXCEPT !.x = v]) /\ Stays(g, [g EXCEPT !.y = v])
         /\ Stays(g, [g EXCEPT !.s = v]) /\ Stays(g, [g EXCEPT !.off = v])
         /\ Stays(g, [g EXCEPT !.ir = v]) /\ Stays(g, [g EXCEPT !.bus = v])
         /\ Stays(g, [g EXCEPT !.mem = v]) /\ Stays(g, [g EXCEPT !.rx = v])
         /\ Stays(g, [g EXCEPT !.debug = v]) /\ Stays(g, [g EXCEPT !.status = v])
BY DEF Stays, Machine

\* Memory and the devices.
LEMMA MemoryStays ==
  ASSUME NEW g \in Machine
  PROVE  /\ \A adr : Stays(g, Load(g, adr))
         /\ \A adr, val : Stays(g, Store(g, adr, val))
         /\ \A n : Stays(g, Peek(g, n))
<1>1. Stays(g, g)
  BY DEF Stays
<1>2. Stays(g, UartRead(g))
  BY DEF UartRead, Stays, Machine
<1>3. ASSUME NEW adr PROVE Stays(g, Load(g, adr))
  BY <1>2, AssignmentStays DEF Load
<1>4. ASSUME NEW adr, NEW val PROVE Stays(g, Store(g, adr, val))
  BY <1>1 DEF Store, Stays, Machine
<1>5. ASSUME NEW n PROVE Stays(g, Peek(g, n))
  <2>1. PICK l \in Machine : l = Load(g, UartAddr)
    BY LoadTyped, CpuAssumption
  <2>2. Stays(g, l) /\ Stays(l, [l EXCEPT !.bus = g.bus])
    BY <1>3, <2>1, AssignmentStays
  <2>3. Stays(g, [l EXCEPT !.bus = g.bus])
    BY <2>2 DEF Stays
  <2>4. QED BY <1>1, <2>1, <2>3 DEF Peek
<1>6. QED BY <1>3, <1>4, <1>5

\* The selected place.
LEMMA SelectedStays ==
  ASSUME NEW g \in Machine, NEW sel
  PROVE  Stays(g, SelGet(g, sel)) /\ Stays(g, SelSet(g, sel))
<1>1. Stays(g, SelGet(g, sel))
  BY AssignmentStays, MemoryStays, Zenon DEF SelGet
<1>2. Stays(g, SelSet(g, sel))
  BY AssignmentStays, MemoryStays, Zenon DEF SelSet
<1>3. QED BY <1>1, <1>2

LEMMA RegistersStay ==
  ASSUME NEW g \in Machine
  PROVE  /\ Stays(g, LatchA(g)) /\ Stays(g, LatchB(g))
         /\ Stays(g, IncS(g)) /\ Stays(g, DecS(g))
         /\ \A junk : Stays(g, Compute(g, junk))
<1>1. Stays(g, LatchA(g)) /\ Stays(g, LatchB(g))
  BY AssignmentStays DEF LatchA, LatchB
<1>2. Stays(g, IncS(g)) /\ Stays(g, DecS(g))
  BY AssignmentStays DEF IncS, DecS
<1>3. ASSUME NEW junk PROVE Stays(g, Compute(g, junk))
  <2>1. PICK r : r = aluop(Arg(g), g.a, g.b, g.f, junk)
    OBVIOUS
  <2>2. Stays(g, [g EXCEPT !.bus = r.res, !.f = r.f, !.a = r.a])
    BY DEF Stays, Machine
  <2>3. QED BY <2>1, <2>2 DEF Compute
<1>4. QED BY <1>1, <1>2, <1>3

\* The stack and the frame.
LEMMA StackStays ==
  ASSUME NEW g \in Machine, NEW sel
  PROVE  /\ \A v \in Byte : Stays(g, PushByte(g, v))
         /\ Stays(g, PopByte(g))
         /\ Stays(g, PushSel(g, sel)) /\ Stays(g, PopSel(g, sel))
         /\ Stays(g, PutRel(g, sel)) /\ Stays(g, GetRel(g, sel))
<1>1. ASSUME NEW h \in Machine, NEW v \in Byte PROVE Stays(h, PushByte(h, v))
  <2>1. PICK n \in Machine : n = Store(h, h.s, v)
    BY StoreTyped, Registers_Typed
  <2>2. Stays(h, n) /\ Stays(n, DecS(n))
    BY <2>1, MemoryStays, RegistersStay
  <2>3. QED BY <2>1, <2>2 DEF PushByte, Stays
<1>2. Stays(g, PopByte(g)) /\ PopByte(g) \in Machine
  <2>1. PICK n \in Machine : n = IncS(g)
    BY LatchesTyped
  <2>2. Stays(g, n) /\ Stays(n, Load(n, Inc16(g.s)))
    BY <2>1, MemoryStays, RegistersStay
  <2>3. QED BY <2>1, <2>2, StackTyped DEF PopByte, Stays
<1>3. PICK n \in Machine : n = SelGet(g, sel) /\ Stays(g, n)
  BY SelGetTyped, SelectedStays
<1>4. Stays(g, PushSel(g, sel))
  <2>1. Stays(n, PushByte(n, n.bus))
    BY <1>1, Registers_Typed
  <2>2. QED BY <1>3, <2>1 DEF PushSel, Stays
<1>5. Stays(g, PopSel(g, sel))
  <2>1. Stays(PopByte(g), SelSet(PopByte(g), sel))
    BY <1>2, SelectedStays
  <2>2. QED BY <1>2, <2>1 DEF PopSel, Stays
<1>6. Stays(g, PutRel(g, sel))
  <2>1. Stays(n, Store(n, StackAddr(n), n.bus))
    BY MemoryStays
  <2>2. QED BY <1>3, <2>1 DEF PutRel, Stays
<1>7. Stays(g, GetRel(g, sel))
  <2>1. PICK l \in Machine : l = Load(g, StackAddr(g))
    BY StackAddrTyped, LoadTyped
  <2>2. Stays(g, l) /\ Stays(l, SelSet(l, sel))
    BY <2>1, MemoryStays, SelectedStays
  <2>3. QED BY <2>1, <2>2 DEF GetRel, Stays
<1>8. QED BY <1>1, <1>2, <1>4, <1>5, <1>6, <1>7

\* The next byte.
LEMMA ImmTakes ==
  ASSUME NEW g \in Machine
  PROVE  Takes(g, Imm(g), 1) /\ Takes(g, ImmOff(g), 1)
<1>1. PICK l \in Machine : l = Load(g, g.p)
  BY LoadTyped, Registers_Typed
<1>2. Stays(g, l)
  BY <1>1, MemoryStays
<1>3. PICK n \in Machine : n = Imm(g)
  BY ImmTyped
<1>4. n = [l EXCEPT !.p = Inc16(l.p)]
  BY <1>1, <1>3 DEF Imm
<1>5. n.sect = l.sect /\ n.p = Inc16(l.p)
  BY <1>4 DEF Machine
<1>6. Takes(g, n, 1)
  BY <1>2, <1>5 DEF Stays, Takes, Inc16
<1>7. Stays(n, [n EXCEPT !.off = n.bus])
  BY AssignmentStays
<1>8. QED BY <1>3, <1>6, <1>7 DEF ImmOff, Takes, Stays

\* What a handler that ends its section leaves.
Ends(g, h, n) == h.sect = 0 /\ h.p = (g.p + n) % 65536

LEMMA SectionEnds ==
  ASSUME NEW g \in Machine, NEW h \in Machine, NEW n, Takes(g, h, n)
  PROVE  Ends(g, EndSection(h), n)
BY DEF Takes, Ends, EndSection, Machine

\* The operand bytes the handlers of section 0 take.
LEMMA Section0Takes ==
  ASSUME NEW g \in Machine
  PROVE  /\ Takes(g, OpSeta(g), 0) /\ Takes(g, OpPuta(g), 0)
         /\ Takes(g, OpLit(g), 1) /\ Takes(g, OpLitw(g), 2)
         /\ Takes(g, OpPush(g), 0) /\ Takes(g, OpPop(g), 0)
         /\ Takes(g, OpPushw(g), 0) /\ Takes(g, OpPopw(g), 0)
<1>1. ASSUME NEW h, Stays(g, h) PROVE Takes(g, h, 0)
  BY <1>1, StaysTakes, Registers_Typed
<1>2. Stays(g, OpSeta(g))
  <2>1. PICK n \in Machine : n = SelGet(g, Arg(g))
    BY SelGetTyped
  <2>2. Stays(g, n) /\ Stays(n, LatchA(n))
    BY <2>1, SelectedStays, RegistersStay
  <2>3. QED BY <2>1, <2>2 DEF OpSeta, Stays
<1>3. Stays(g, OpPuta(g))
  <2>1. PICK n \in Machine : n = [g EXCEPT !.bus = g.a]
    BY Registers_Typed, Assignments
  <2>2. Stays(g, n) /\ Stays(n, SelSet(n, Arg(g)))
    BY <2>1, SelectedStays, AssignmentStays
  <2>3. QED BY <2>1, <2>2 DEF OpPuta, Stays
<1>4. ASSUME NEW h \in Machine, NEW sel PROVE Takes(h, SelSet(Imm(h), sel), 1)
  <2>1. PICK n \in Machine : n = Imm(h)
    BY ImmTyped
  <2>2. Takes(h, n, 1) /\ Stays(n, SelSet(n, sel))
    BY <2>1, ImmTakes, SelectedStays
  <2>3. QED BY <2>1, <2>2 DEF Takes, Stays
<1>5. Takes(g, OpLit(g), 1)
  BY <1>4 DEF OpLit
<1>6. Takes(g, OpLitw(g), 2)
  <2>1. PICK n \in Machine : n = OpLit(g)
    BY Section0Typed
  <2>2. Takes(g, n, 1) /\ Takes(n, SelSet(Imm(n), ArgHigh(g)), 1)
    BY <1>4, <1>5, <2>1
  <2>3. Takes(g, SelSet(Imm(n), ArgHigh(g)), 1 + 1)
    <3>1. 1 \in 0 .. 4
      OBVIOUS
    <3>2. QED BY <2>2, <3>1, TakesTogether, Registers_Typed
  <2>4. QED BY <2>1, <2>3 DEF OpLitw
<1>7. Stays(g, OpPush(g)) /\ Stays(g, OpPop(g))
  BY StackStays DEF OpPush, OpPop
<1>8. Stays(g, OpPushw(g))
  <2>1. PICK n \in Machine : n = PushSel(g, ArgHigh(g))
    BY StackTyped
  <2>2. Stays(g, n) /\ Stays(n, PushSel(n, Arg(g)))
    BY <2>1, StackStays
  <2>3. QED BY <2>1, <2>2 DEF OpPushw, Stays
<1>9. Stays(g, OpPopw(g))
  <2>1. PICK n \in Machine : n = PopSel(g, Arg(g))
    BY StackTyped
  <2>2. Stays(g, n) /\ Stays(n, PopSel(n, ArgHigh(g)))
    BY <2>1, StackStays
  <2>3. QED BY <2>1, <2>2 DEF OpPopw, Stays
<1>10. QED BY <1>1, <1>2, <1>3, <1>5, <1>6, <1>7, <1>8, <1>9

\* Those that change p otherwise leave the section.
LEMMA TransfersKeepSection ==
  ASSUME NEW g \in Machine
  PROVE  /\ OpJmp(g).sect = g.sect /\ OpRet(g).sect = g.sect /\ OpCall(g).sect = g.sect
         /\ \A beyond \in BOOLEAN : OpJmps(g, beyond).sect = g.sect
         /\ OpCalls(g).sect = 0 /\ OpExt(g).p = g.p
<1>1. ASSUME NEW h \in Machine, NEW v PROVE [h EXCEPT !.p = v].sect = h.sect
  BY DEF Machine
<1>2. ImmP(g).sect = g.sect
  <2>1. PICK low \in Machine : low = Imm(g)
    BY ImmTyped
  <2>2. PICK high \in Machine : high = Imm(low)
    BY ImmTyped
  <2>3. low.sect = g.sect /\ high.sect = low.sect
    BY <2>1, <2>2, ImmTakes DEF Takes
  <2>4. ImmP(g) = [high EXCEPT !.p = Pair(high.bus, low.bus)]
    BY <2>1, <2>2 DEF ImmP
  <2>5. QED BY <1>1, <2>3, <2>4
<1>3. PopP(g).sect = g.sect
  <2>1. PICK low \in Machine : low = PopByte(g)
    BY StackTyped
  <2>2. PICK high \in Machine : high = PopByte(low)
    BY StackTyped
  <2>3. low.sect = g.sect /\ high.sect = low.sect
    BY <2>1, <2>2, StackStays DEF Stays
  <2>4. PopP(g) = [high EXCEPT !.p = Pair(high.bus, low.bus)]
    BY <2>1, <2>2 DEF PopP
  <2>5. QED BY <1>1, <2>3, <2>4
<1>4. ASSUME NEW h \in Machine, NEW w \in Word
      PROVE  PushWord(h, w) \in Machine /\ PushWord(h, w).sect = h.sect
  <2>1. Lo(w) \in Byte /\ Hi(w) \in Byte
    BY Halves
  <2>2. PICK n \in Machine : n = PushByte(h, Hi(w)) /\ Stays(h, n)
    BY <2>1, StackTyped, StackStays
  <2>3. Stays(n, PushByte(n, Lo(w)))
    BY <2>1, StackStays
  <2>4. QED BY <2>2, <2>3, PushWordTyped DEF PushWord, Stays
<1>5. OpJmp(g).sect = g.sect
  BY <1>1, <1>2, TargetTyped DEF OpJmp
<1>6. OpRet(g).sect = g.sect
  BY <1>3 DEF OpRet
<1>7. OpCall(g).sect = g.sect
  <2>1. Inc16(Inc16(g.p)) \in Word
    BY Registers_Typed, Inc16Typed
  <2>2. QED BY <1>2, <1>4, <2>1, TargetTyped DEF OpCall
<1>8. ASSUME NEW beyond \in BOOLEAN PROVE OpJmps(g, beyond).sect = g.sect
  BY <1>1, <1>3, TargetTyped DEF OpJmps
<1>9. OpCalls(g).sect = 0
  <2>1. PICK n \in Machine : n = PushWord(PopP(g), g.p)
    BY <1>4, TargetTyped, Registers_Typed
  <2>2. EndSection(n).sect = 0
    BY DEF EndSection, Machine
  <2>3. QED BY <2>1, <2>2 DEF OpCalls
<1>10. OpExt(g).p = g.p
  BY DEF OpExt, Machine
<1>11. QED BY <1>5, <1>6, <1>7, <1>8, <1>9, <1>10

\* The operand bytes of the arithmetic.
LEMMA ArithmeticTakes ==
  ASSUME NEW g \in Machine, NEW junk \in Word
  PROVE  /\ Takes(g, OpAlu(g, junk), 0) /\ Takes(g, OpCmp(g, junk), 0)
         /\ Ends(g, OpAlus1(g, junk), 1) /\ Ends(g, OpAlus2(g, junk), 2)
         /\ Ends(g, OpAlus3(g, junk), 3) /\ Ends(g, OpCmps2(g, junk), 2)
<1>1. ASSUME NEW h \in Machine PROVE Stays(h, OpAlu(h, junk)) /\ Stays(h, Compute(h, junk))
  <2>1. PICK n \in Machine : n = Compute(h, junk)
    BY ComputeTyped
  <2>2. Stays(h, n) /\ Stays(n, LatchA(n))
    BY <2>1, RegistersStay
  <2>3. QED BY <2>1, <2>2 DEF OpAlu, Stays
<1>2. ASSUME NEW h \in Machine PROVE Takes(h, FrameA(h), 1) /\ Takes(h, FrameB(h), 1)
  <2>1. PICK n \in Machine : n = ImmOff(h)
    BY ImmTyped
  <2>2. PICK l \in Machine : l = Load(n, StackAddr(n))
    BY StackAddrTyped, LoadTyped
  <2>3. Takes(h, n, 1) /\ Stays(n, l) /\ Stays(l, LatchA(l)) /\ Stays(l, LatchB(l))
    BY <2>1, <2>2, ImmTakes, MemoryStays, RegistersStay
  <2>4. FrameA(h) = LatchA(l) /\ FrameB(h) = LatchB(l)
    BY <2>1, <2>2 DEF FrameA, FrameB
  <2>5. QED BY <2>3, <2>4 DEF Takes, Stays
<1>3. ASSUME NEW h \in Machine, NEW k, NEW n, Takes(g, h, n), Stays(h, k)
      PROVE  Takes(g, k, n)
  BY <1>3 DEF Takes, Stays
<1>4. ASSUME NEW h \in Machine, NEW n, Takes(g, h, n)
      PROVE  PutRel(h, 0) \in Machine /\ Ends(g, EndSection(PutRel(h, 0)), n)
  BY <1>3, <1>4, StackTyped, StackStays, SectionEnds
<1>5. PICK a \in Machine : a = FrameA(g) /\ Takes(g, a, 1)
  BY <1>2, FrameTyped
<1>6. PICK b \in Machine : b = FrameA(FrameB(g)) /\ Takes(g, b, 2)
  <2>1. PICK n \in Machine : n = FrameB(g)
    BY FrameTyped
  <2>2. Takes(g, n, 1) /\ Takes(n, FrameA(n), 1) /\ 1 \in 0 .. 4
    BY <1>2, <2>1
  <2>3. Takes(g, FrameA(n), 1 + 1)
    BY <2>2, TakesTogether, Registers_Typed
  <2>4. QED BY <2>1, <2>3, FrameTyped
<1>7. Ends(g, OpAlus1(g, junk), 1)
  <2>1. PICK n \in Machine : n = OpAlu(a, junk)
    BY ArithmeticTyped
  <2>2. Takes(g, n, 1)
    BY <1>1, <1>3, <1>5, <2>1
  <2>3. QED BY <1>4, <1>5, <2>1, <2>2 DEF OpAlus1
<1>8. PICK c \in Machine : c = OpAlu(b, junk) /\ Takes(g, c, 2)
  BY <1>1, <1>3, <1>6, ArithmeticTyped
<1>9. Ends(g, OpAlus2(g, junk), 2)
  BY <1>4, <1>6, <1>8 DEF OpAlus2
<1>10. Ends(g, OpAlus3(g, junk), 3)
  <2>1. PICK n \in Machine : n = ImmOff(c)
    BY ImmTyped
  <2>2. Takes(c, n, 1) /\ 1 \in 0 .. 4 /\ 2 \in 0 .. 4
    BY <2>1, ImmTakes
  <2>3. Takes(g, n, 2 + 1)
    BY <1>8, <2>2, TakesTogether, Registers_Typed
  <2>4. QED BY <1>4, <1>6, <1>8, <2>1, <2>3 DEF OpAlus3
<1>11. Ends(g, OpCmps2(g, junk), 2)
  <2>1. PICK n \in Machine : n = Compute(b, junk)
    BY ComputeTyped
  <2>2. Takes(g, n, 2)
    BY <1>1, <1>3, <1>6, <2>1
  <2>3. QED BY <1>6, <2>1, <2>2, SectionEnds DEF OpCmps2
<1>12. Takes(g, OpAlu(g, junk), 0) /\ Takes(g, OpCmp(g, junk), 0)
  BY <1>1, StaysTakes, Registers_Typed DEF OpCmp
<1>13. QED BY <1>7, <1>9, <1>10, <1>11, <1>12

\* The operand bytes the handlers of section 3 take.
LEMMA Section3Takes ==
  ASSUME NEW g \in Machine
  PROVE  /\ Ends(g, OpXpp(g), 0) /\ Ends(g, OpXmm(g), 0)
         /\ Ends(g, OpYpp(g), 0) /\ Ends(g, OpYmm(g), 0)
         /\ Ends(g, OpSpp(g), 0) /\ Ends(g, OpSmm(g), 0)
         /\ Ends(g, OpAdjustSp(g), 1)
         /\ Ends(g, OpPutRelSp(g), 1) /\ Ends(g, OpGetRelSp(g), 1)
         /\ Ends(g, OpPutRelSpW(g), 1) /\ Ends(g, OpGetRelSpW(g), 1)
         /\ Ends(g, OpSetb(g), 0) /\ Ends(g, OpPutb(g), 0)
         /\ Takes(g, OpSimHalt(g), 0)
<1>1. ASSUME NEW h \in Machine, Stays(g, h) PROVE Ends(g, EndSection(h), 0)
  BY <1>1, StaysTakes, SectionEnds, Registers_Typed
<1>2. Ends(g, OpXpp(g), 0) /\ Ends(g, OpXmm(g), 0)
  <2>1. [g EXCEPT !.x = Inc16(g.x)] \in Machine /\ [g EXCEPT !.x = Dec16(g.x)] \in Machine
    BY Registers_Typed, Inc16Typed, Dec16Typed, Assignments
  <2>2. QED BY <1>1, <2>1, AssignmentStays DEF OpXpp, OpXmm
<1>3. Ends(g, OpYpp(g), 0) /\ Ends(g, OpYmm(g), 0)
  <2>1. [g EXCEPT !.y = Inc16(g.y)] \in Machine /\ [g EXCEPT !.y = Dec16(g.y)] \in Machine
    BY Registers_Typed, Inc16Typed, Dec16Typed, Assignments
  <2>2. QED BY <1>1, <2>1, AssignmentStays DEF OpYpp, OpYmm
<1>4. Ends(g, OpSpp(g), 0) /\ Ends(g, OpSmm(g), 0)
  BY <1>1, LatchesTyped, RegistersStay DEF OpSpp, OpSmm
<1>5. PICK n \in Machine : n = ImmOff(g) /\ Takes(g, n, 1)
  BY ImmTyped, ImmTakes
<1>6. ASSUME NEW h \in Machine, NEW k, Takes(g, h, 1), Stays(h, k) PROVE Takes(g, k, 1)
  BY <1>6 DEF Takes, Stays
<1>7. Ends(g, OpAdjustSp(g), 1)
  <2>1. PICK q \in Machine : q = SelGet(n, 8) /\ Takes(g, q, 1)
    BY <1>5, <1>6, SelGetTyped, SelectedStays
  <2>2. PICK low \in Machine : low = SelSet(q, Arg(g)) /\ Takes(g, low, 1)
    BY <1>6, <2>1, SelSetTyped, SelectedStays
  <2>3. Hi(StackAddr(n)) \in Byte
    BY StackAddrTyped, Halves
  <2>4. PICK r \in Machine : r = [low EXCEPT !.bus = Hi(StackAddr(n))] /\ Takes(g, r, 1)
    BY <1>6, <2>2, <2>3, Assignments, AssignmentStays
  <2>5. PICK h \in Machine : h = SelSet(r, ArgHigh(g)) /\ Takes(g, h, 1)
    BY <1>6, <2>4, SelSetTyped, SelectedStays
  <2>6. OpAdjustSp(g) = EndSection(h)
    BY <1>5, <2>1, <2>2, <2>4, <2>5 DEF OpAdjustSp
  <2>7. QED BY <2>5, <2>6, SectionEnds
<1>8. ASSUME NEW h \in Machine, NEW sel, Takes(g, h, 1)
      PROVE  /\ PutRel(h, sel) \in Machine /\ Takes(g, PutRel(h, sel), 1)
             /\ GetRel(h, sel) \in Machine /\ Takes(g, GetRel(h, sel), 1)
             /\ IncS(h) \in Machine /\ Takes(g, IncS(h), 1)
             /\ DecS(h) \in Machine /\ Takes(g, DecS(h), 1)
  BY <1>6, <1>8, StackTyped, StackStays, LatchesTyped, RegistersStay
<1>9. Ends(g, OpPutRelSp(g), 1) /\ Ends(g, OpGetRelSp(g), 1)
  BY <1>5, <1>8, SectionEnds DEF OpPutRelSp, OpGetRelSp
<1>10. Ends(g, OpPutRelSpW(g), 1)
  <2>1. PICK q \in Machine : q = PutRel(n, Arg(g)) /\ Takes(g, q, 1)
    BY <1>5, <1>8
  <2>2. PICK i \in Machine : i = IncS(q) /\ Takes(g, i, 1)
    BY <1>8, <2>1
  <2>3. PICK j \in Machine : j = PutRel(i, ArgHigh(g)) /\ Takes(g, j, 1)
    BY <1>8, <2>2
  <2>4. QED BY <1>5, <1>8, <2>1, <2>2, <2>3, SectionEnds DEF OpPutRelSpW
<1>11. Ends(g, OpGetRelSpW(g), 1)
  <2>1. PICK q \in Machine : q = GetRel(n, Arg(g)) /\ Takes(g, q, 1)
    BY <1>5, <1>8
  <2>2. PICK i \in Machine : i = IncS(q) /\ Takes(g, i, 1)
    BY <1>8, <2>1
  <2>3. PICK j \in Machine : j = GetRel(i, ArgHigh(g)) /\ Takes(g, j, 1)
    BY <1>8, <2>2
  <2>4. QED BY <1>5, <1>8, <2>1, <2>2, <2>3, SectionEnds DEF OpGetRelSpW
<1>12. Ends(g, OpSetb(g), 0)
  <2>1. PICK q \in Machine : q = SelGet(g, Arg(g))
    BY SelGetTyped
  <2>2. Stays(g, q) /\ Stays(q, LatchB(q)) /\ LatchB(q) \in Machine
    BY <2>1, SelectedStays, RegistersStay, LatchesTyped
  <2>3. Stays(g, LatchB(q))
    BY <2>2 DEF Stays
  <2>4. QED BY <1>1, <2>1, <2>2, <2>3 DEF OpSetb
<1>13. Ends(g, OpPutb(g), 0)
  <2>1. PICK q \in Machine : q = [g EXCEPT !.bus = g.b]
    BY Registers_Typed, Assignments
  <2>2. PICK r \in Machine : r = SelSet(q, Arg(g))
    BY SelSetTyped
  <2>3. Stays(g, q) /\ Stays(q, r)
    BY <2>1, <2>2, AssignmentStays, SelectedStays
  <2>4. Stays(g, r)
    BY <2>3 DEF Stays
  <2>5. QED BY <1>1, <2>1, <2>2, <2>4 DEF OpPutb
<1>14. Takes(g, OpSimHalt(g), 0)
  BY AssignmentStays, StaysTakes, Registers_Typed DEF OpSimHalt
<1>15. QED
  BY <1>2, <1>3, <1>4, <1>7, <1>9, <1>10, <1>11, <1>12, <1>13, <1>14

\* The operand of info is read four times and passed once.
LEMMA SimInfoTakes ==
  ASSUME NEW g \in Machine
  PROVE  Ends(g, OpSimInfo(g), 1)
<1>1. ASSUME NEW h \in Machine, Stays(g, h)
      PROVE  /\ Load(h, g.p) \in Machine /\ Stays(g, Load(h, g.p))
             /\ \A n \in Nat : Peek(h, n) \in Machine /\ Stays(g, Peek(h, n))
             /\ \A q \in BOOLEAN :
                  [h EXCEPT !.debug = q] \in Machine /\ Stays(g, [h EXCEPT !.debug = q])
  <2>1. Load(h, g.p) \in Machine /\ Stays(h, Load(h, g.p))
    BY LoadTyped, MemoryStays, Registers_Typed
  <2>2. \A n \in Nat : Peek(h, n) \in Machine /\ Stays(h, Peek(h, n))
    BY PeekTyped, MemoryStays
  <2>3. ASSUME NEW q \in BOOLEAN
        PROVE  [h EXCEPT !.debug = q] \in Machine /\ Stays(h, [h EXCEPT !.debug = q])
    <3>1. [h EXCEPT !.debug = q] \in Machine
      BY DEF Machine
    <3>2. QED BY <3>1, AssignmentStays
  <2>4. ASSUME NEW k, Stays(h, k) PROVE Stays(g, k)
    BY <1>1, <2>4 DEF Stays
  <2>5. QED BY <2>1, <2>2, <2>3, <2>4
<1>2. Stays(g, g)
  BY DEF Stays
<1> DEFINE show == Load(Load(g, g.p), g.p)
           on   == IF show.bus = 255 THEN [show EXCEPT !.debug = TRUE] ELSE show
           next == Load(on, g.p)
           off  == IF next.bus = 254 THEN [next EXCEPT !.debug = FALSE] ELSE next
           last == Load(off, g.p)
           dump == IF last.bus = 100 THEN Peek(last, 30) ELSE last
<1> HIDE DEF show, on, next, off, last, dump
<1>3. show \in Machine /\ Stays(g, show)
  <2>1. PICK l \in Machine : l = Load(g, g.p) /\ Stays(g, l)
    BY <1>1, <1>2
  <2>2. QED BY <1>1, <2>1 DEF show
<1>4. on \in Machine /\ Stays(g, on)
  BY <1>1, <1>3 DEF on
<1>5. next \in Machine /\ Stays(g, next)
  BY <1>1, <1>4 DEF next
<1>6. off \in Machine /\ Stays(g, off)
  BY <1>1, <1>5 DEF off
<1>7. last \in Machine /\ Stays(g, last)
  BY <1>1, <1>6 DEF last
<1>8. dump \in Machine /\ Stays(g, dump)
  BY <1>1, <1>7 DEF dump
<1>9. PICK q \in Machine : q = PrintState(dump) /\ Stays(g, q)
  BY <1>1, <1>8 DEF PrintState
<1>10. PICK h \in Machine : h = [q EXCEPT !.p = Inc16(q.p)]
  BY Registers_Typed, Inc16Typed, Assignments
<1>11. Takes(g, h, 1)
  <2>1. h.sect = q.sect /\ h.p = (q.p + 1) % 65536
    BY <1>10 DEF Machine, Inc16
  <2>2. QED BY <1>9, <2>1 DEF Stays, Takes
<1>12. OpSimInfo(g) = EndSection(h)
  BY <1>9, <1>10 DEF OpSimInfo, show, on, next, off, last, dump
<1>13. QED BY <1>11, <1>12, SectionEnds

\* The opcode is the first byte a cycle takes.
LEMMA FetchedTakes ==
  ASSUME TypeOK
  PROVE  Takes(m, Fetched, 1) /\ Fetched.ir = Opcode /\ Opcode \in Byte
<1>1. PICK l \in Machine : l = Load(m, m.p) /\ Stays(m, l)
  BY LoadTyped, MemoryStays, Registers_Typed DEF TypeOK
<1>2. PICK n \in Machine : n = Imm(m) /\ Takes(m, n, 1)
  BY ImmTyped, ImmTakes DEF TypeOK
<1>3. n.bus = Opcode /\ Opcode \in Byte
  <2>1. n = [l EXCEPT !.p = Inc16(l.p)]
    BY <1>1, <1>2 DEF Imm
  <2>2. n.bus = l.bus
    BY <2>1 DEF Machine
  <2>3. QED BY <1>1, <2>2, Registers_Typed DEF Opcode
<1>4. PICK g \in Machine : g = [n EXCEPT !.ir = n.bus]
  BY Registers_Typed, Assignments
<1>5. g.ir = Opcode /\ Stays(n, g)
  BY <1>3, <1>4, AssignmentStays DEF Machine
<1>6. PICK k \in Machine : k = PrintState(g)
  BY PeekTyped DEF PrintState
<1>7. k.ir = g.ir /\ Stays(g, k)
  BY <1>6, InstructionKept, MemoryStays DEF PrintState
<1>8. Fetched = IF g.debug THEN k ELSE g
  BY <1>2, <1>4, <1>6 DEF Fetched
<1>9. QED BY <1>2, <1>3, <1>5, <1>7, <1>8 DEF Takes, Stays

-------------------------------------------------------------------------------
\* The operand bytes taken by the entry of the opcode table at (section, code).
Operands(section, code) ==
  IF section = 0 THEN IF code = 3 THEN 1 ELSE IF code \in {4, 11, 14} THEN 2 ELSE 0
  ELSE IF section = 2 THEN IF code = 2 THEN 3 ELSE IF code = 0 THEN 1
                           ELSE IF code \in {1, 3} THEN 2 ELSE 0
  ELSE IF section = 3 /\ code \in 7 .. 11 \union {14} THEN 1 ELSE 0

\* The entries that may set p: jmp, jmps, ret, call, calls.
Transferring(section, code) == (section = 0 /\ code \in 11 .. 14) \/ (section = 3 /\ code = 6)

\* The entries that leave the section as it is: section 0, op_err, and halt.
Keeping(section, code) ==
  section = 0 \/ section = 1 \/ (section = 2 /\ code \in 4 .. 15) \/ (section = 3 /\ code = 15)

Transfer == Jmp \/ Jmps \/ Ret \/ Call \/ Calls

\* What a cycle that executes the entry at (section, code) does to p and the section.
Executed(section, code) ==
  /\ Executes(section, code)
  /\ IF Transferring(section, code) THEN Transfer
     ELSE m'.p = (m.p + 1 + Operands(section, code)) % 65536
  /\ m'.sect = IF section = 0 /\ code = 15 THEN Opcode % 16
               ELSE IF Keeping(section, code) THEN m.sect ELSE 0
  /\ section = 3 /\ code = 15 => m'.status # "running"

\* The end of a cycle.
LEMMA RetireKeeps ==
  ASSUME NEW g \in Machine, Retire(g)
  PROVE  m'.p = g.p /\ m'.sect = g.sect /\ m'.status = g.status
BY DEF Retire, Machine

LEMMA RetireTakes ==
  ASSUME TypeOK, NEW g \in Machine, Retire(g), NEW n \in 0 .. 3
  PROVE  /\ Takes(Fetched, g, n) => m'.p = (m.p + 1 + n) % 65536 /\ m'.sect = m.sect
         /\ Ends(Fetched, g, n) => m'.p = (m.p + 1 + n) % 65536 /\ m'.sect = 0
<1>1. PICK p \in Int : p = m.p /\ 0 <= p /\ p < 65536
  BY Registers_Typed, WordBounds DEF TypeOK
<1>2. Fetched.p = (p + 1) % 65536 /\ Fetched.sect = m.sect
  BY <1>1, FetchedTakes DEF Takes
<1>3. (((p + 1) % 65536) + n) % 65536 = (p + 1 + n) % 65536
  BY <1>1, SMT
<1>4. QED BY <1>1, <1>2, <1>3, RetireKeeps DEF Takes, Ends

\* Every step executes an entry of the table, or leaves p and the section alone.
LEMMA StepExecutes ==
  ASSUME TypeOK, Next
  PROVE  \/ m'.p = m.p /\ m'.sect = m.sect
         \/ \E section \in 0 .. 3, code \in 0 .. 15 : Executed(section, code)
<1>1. Fetched \in Machine
  BY FetchedTyped
<1>2. \A junk \in Junk : junk \in Word
  BY CpuAssumption
<1>3. 0 \in 0 .. 3 /\ 1 \in 0 .. 3 /\ 2 \in 0 .. 3 /\ 3 \in 0 .. 3
  OBVIOUS
<1>4. ASSUME NEW g \in Machine, Retire(g), NEW section \in {0, 3}, NEW code \in 0 .. 15,
             Executes(section, code), section = 0 => code # 15,
             Keeping(section, code), Takes(Fetched, g, Operands(section, code)),
             ~Transferring(section, code), section = 3 => g.status # "running"
      PROVE  Executed(section, code)
  <2>1. Operands(section, code) \in 0 .. 3
    BY DEF Operands
  <2>2. QED BY <1>4, <2>1, RetireTakes, RetireKeeps DEF Executed
<1>5. ASSUME NEW g \in Machine, Retire(g), NEW section \in {2, 3}, NEW code \in 0 .. 15,
             Executes(section, code), ~Keeping(section, code), ~Transferring(section, code),
             Ends(Fetched, g, Operands(section, code))
      PROVE  Executed(section, code)
  <2>1. Operands(section, code) \in 0 .. 3
    BY DEF Operands
  <2>2. section = 3 => code # 15
    BY <1>5 DEF Keeping
  <2>3. QED BY <1>5, <2>1, <2>2, RetireTakes DEF Executed
<1>6. /\ \A code \in {0, 1, 2, 5, 6, 7, 8, 9, 10} : Operands(0, code) = 0 /\ Keeping(0, code)
      /\ Operands(0, 3) = 1 /\ Keeping(0, 3)
      /\ Operands(0, 4) = 2 /\ Keeping(0, 4)
      /\ Operands(2, 0) = 1 /\ Operands(2, 1) = 2 /\ Operands(2, 2) = 3 /\ Operands(2, 3) = 2
      /\ \A code \in 0 .. 3 : ~Keeping(2, code)
      /\ \A code \in {0, 1, 2, 3, 4, 5, 12, 13} : Operands(3, code) = 0 /\ ~Keeping(3, code)
      /\ \A code \in {7, 8, 9, 10, 11, 14} : Operands(3, code) = 1 /\ ~Keeping(3, code)
      /\ Operands(3, 15) = 0 /\ Keeping(3, 15)
      /\ \A code \in 0 .. 10 : ~Transferring(0, code)
      /\ \A code \in 0 .. 15 : ~Transferring(1, code) /\ ~Transferring(2, code)
      /\ \A code \in (0 .. 5) \union (7 .. 15) : ~Transferring(3, code)
  BY DEF Operands, Keeping, Transferring
<1>7. CASE Nop
  <2>1. Takes(Fetched, Fetched, 0)
    BY <1>1, StaysTakes, Registers_Typed DEF Stays
  <2>2. Executed(0, 0)
    BY <1>1, <1>4, <1>6, <1>7, <2>1 DEF Nop
  <2>3. QED BY <2>2
<1>8. CASE Seta \/ Puta \/ Push \/ Pop \/ Pushw \/ Popw
  <2>1. \E code \in {1, 2, 5, 6, 7, 8} : Executed(0, code)
    <3>1. CASE Seta
      BY <1>1, <1>4, <1>6, <3>1, Section0Takes, Section0Typed DEF Seta
    <3>2. CASE Puta
      BY <1>1, <1>4, <1>6, <3>2, Section0Takes, Section0Typed DEF Puta
    <3>3. CASE Push
      BY <1>1, <1>4, <1>6, <3>3, Section0Takes, Section0Typed DEF Push
    <3>4. CASE Pop
      BY <1>1, <1>4, <1>6, <3>4, Section0Takes, Section0Typed DEF Pop
    <3>5. CASE Pushw
      BY <1>1, <1>4, <1>6, <3>5, Section0Takes, Section0Typed DEF Pushw
    <3>6. CASE Popw
      BY <1>1, <1>4, <1>6, <3>6, Section0Takes, Section0Typed DEF Popw
    <3>7. QED BY <1>8, <3>1, <3>2, <3>3, <3>4, <3>5, <3>6
  <2>2. QED BY <2>1
<1>9. CASE Lit \/ Litw
  <2>1. \E code \in {3, 4} : Executed(0, code)
    <3>1. CASE Lit
      BY <1>1, <1>4, <1>6, <3>1, Section0Takes, Section0Typed DEF Lit
    <3>2. CASE Litw
      BY <1>1, <1>4, <1>6, <3>2, Section0Takes, Section0Typed DEF Litw
    <3>3. QED BY <1>9, <3>1, <3>2
  <2>2. QED BY <1>3, <2>1
<1>10. CASE Alu \/ Cmp
  <2>1. \E code \in {9, 10} : Executed(0, code)
    <3>1. CASE Alu
      BY <1>1, <1>2, <1>4, <1>6, <3>1, ArithmeticTakes, ArithmeticTyped DEF Alu
    <3>2. CASE Cmp
      BY <1>1, <1>2, <1>4, <1>6, <3>2, ArithmeticTakes, ArithmeticTyped DEF Cmp
    <3>3. QED BY <1>10, <3>1, <3>2
  <2>2. QED BY <1>3, <2>1
<1>11. CASE Alus1 \/ Alus2 \/ Alus3 \/ Cmps2
  <2>1. \E code \in {0, 1, 2, 3} : Executed(2, code)
    <3>1. CASE Alus1
      BY <1>1, <1>2, <1>5, <1>6, <3>1, ArithmeticTakes, ArithmeticTyped DEF Alus1
    <3>2. CASE Alus2
      BY <1>1, <1>2, <1>5, <1>6, <3>2, ArithmeticTakes, ArithmeticTyped DEF Alus2
    <3>3. CASE Alus3
      BY <1>1, <1>2, <1>5, <1>6, <3>3, ArithmeticTakes, ArithmeticTyped DEF Alus3
    <3>4. CASE Cmps2
      BY <1>1, <1>2, <1>5, <1>6, <3>4, ArithmeticTakes, ArithmeticTyped DEF Cmps2
    <3>5. QED BY <1>11, <3>1, <3>2, <3>3, <3>4
  <2>2. QED BY <1>3, <2>1
<1>12. CASE Xpp \/ Xmm \/ Ypp \/ Ymm \/ Spp \/ Smm \/ Setb \/ Putb
  <2>1. \E code \in {0, 1, 2, 3, 4, 5, 12, 13} : Executed(3, code)
    <3>1. CASE Xpp
      BY <1>1, <1>5, <1>6, <3>1, Section3Takes, Section3Typed DEF Xpp
    <3>2. CASE Xmm
      BY <1>1, <1>5, <1>6, <3>2, Section3Takes, Section3Typed DEF Xmm
    <3>3. CASE Ypp
      BY <1>1, <1>5, <1>6, <3>3, Section3Takes, Section3Typed DEF Ypp
    <3>4. CASE Ymm
      BY <1>1, <1>5, <1>6, <3>4, Section3Takes, Section3Typed DEF Ymm
    <3>5. CASE Spp
      BY <1>1, <1>5, <1>6, <3>5, Section3Takes, Section3Typed DEF Spp
    <3>6. CASE Smm
      BY <1>1, <1>5, <1>6, <3>6, Section3Takes, Section3Typed DEF Smm
    <3>7. CASE Setb
      BY <1>1, <1>5, <1>6, <3>7, Section3Takes, Section3Typed DEF Setb
    <3>8. CASE Putb
      BY <1>1, <1>5, <1>6, <3>8, Section3Takes, Section3Typed DEF Putb
    <3>9. QED BY <1>12, <3>1, <3>2, <3>3, <3>4, <3>5, <3>6, <3>7, <3>8
  <2>2. QED BY <1>3, <2>1
<1>13. CASE AdjustSp \/ PutRelSp \/ GetRelSp \/ PutRelSpW \/ GetRelSpW
  <2>1. \E code \in {7, 8, 9, 10, 11} : Executed(3, code)
    <3>1. CASE AdjustSp
      BY <1>1, <1>5, <1>6, <3>1, Section3Takes, Section3Typed DEF AdjustSp
    <3>2. CASE PutRelSp
      BY <1>1, <1>5, <1>6, <3>2, Section3Takes, Section3Typed DEF PutRelSp
    <3>3. CASE GetRelSp
      BY <1>1, <1>5, <1>6, <3>3, Section3Takes, Section3Typed DEF GetRelSp
    <3>4. CASE PutRelSpW
      BY <1>1, <1>5, <1>6, <3>4, Section3Takes, Section3Typed DEF PutRelSpW
    <3>5. CASE GetRelSpW
      BY <1>1, <1>5, <1>6, <3>5, Section3Takes, Section3Typed DEF GetRelSpW
    <3>6. QED BY <1>13, <3>1, <3>2, <3>3, <3>4, <3>5
  <2>2. QED BY <1>3, <2>1
<1>14. CASE SimInfo
  <2>1. Executed(3, 14)
    BY <1>1, <1>5, <1>6, <1>14, SimInfoTakes, SimInfoTyped DEF SimInfo
  <2>2. QED BY <1>3, <2>1
<1>15. CASE SimHalt
  <2>1. OpSimHalt(Fetched) \in Machine /\ OpSimHalt(Fetched).status # "running"
    BY <1>1, Section3Typed DEF OpSimHalt, Machine
  <2>2. Executed(3, 15)
    BY <1>1, <1>4, <1>6, <1>15, <2>1, Section3Takes DEF SimHalt
  <2>3. QED BY <1>3, <2>2
<1>16. CASE BadOp
  <2>1. PICK section \in {1, 2}, code \in 0 .. 15 :
          Executes(section, code) /\ (section = 2 => code \in 4 .. 15)
    BY <1>16 DEF BadOp
  <2>2. Operands(section, code) = 0 /\ Keeping(section, code)
    BY <2>1 DEF Operands, Keeping
  <2>3. Takes(Fetched, Fetched, 0) /\ Retire(Fetched)
    BY <1>1, <1>16, StaysTakes, Registers_Typed DEF Stays, BadOp
  <2>4. Executed(section, code)
    BY <1>1, <1>6, <2>1, <2>2, <2>3, RetireTakes DEF Executed
  <2>5. QED BY <1>3, <2>1, <2>4
<1>17. CASE Ext
  <2>1. PICK g \in Machine : g = OpExt(Fetched)
    BY <1>1, Section0Typed
  <2>2. g.p = Fetched.p /\ g.sect = Opcode % 16
    BY <1>1, <2>1, FetchedTakes DEF OpExt, Arg, Machine
  <2>3. Retire(g) /\ Executes(0, 15)
    BY <1>17, <2>1 DEF Ext
  <2>4. m'.p = (m.p + 1) % 65536 /\ m'.sect = Opcode % 16
    BY <2>2, <2>3, RetireKeeps, FetchedTakes DEF Takes
  <2>5. Operands(0, 15) = 0 /\ ~Transferring(0, 15)
    BY DEF Operands, Transferring
  <2>6. m.p + 1 + 0 = m.p + 1
    BY Registers_Typed, WordBounds DEF TypeOK
  <2>7. Executed(0, 15)
    BY <2>3, <2>4, <2>5, <2>6 DEF Executed
  <2>8. QED BY <1>3, <2>7
<1>18. ASSUME NEW g \in Machine, Retire(g), NEW section \in {0, 3}, NEW code \in 0 .. 14,
              Executes(section, code), Transferring(section, code), Transfer,
              g.sect = IF section = 0 THEN m.sect ELSE 0
       PROVE  Executed(section, code)
  <2>1. Keeping(section, code) <=> section = 0
    BY DEF Keeping
  <2>2. QED BY <1>18, <2>1, RetireKeeps DEF Executed
<1>19. Fetched.sect = m.sect /\ Transferring(3, 6)
       /\ (\A code \in 11 .. 14 : Transferring(0, code))
       /\ (Jmp \/ Jmps \/ Ret \/ Call \/ Calls => Transfer)
  BY FetchedTakes DEF Takes, Transferring, Transfer
<1>20. CASE Jmp \/ Jmps \/ Ret \/ Call
  <2>1. \E code \in 11 .. 14 : Executed(0, code)
    <3>1. CASE Jmp
      BY <1>1, <1>18, <1>19, <3>1, TransfersKeepSection, Section0Typed DEF Jmp
    <3>2. CASE Jmps
      BY <1>1, <1>18, <1>19, <3>2, TransfersKeepSection, JmpsTyped DEF Jmps
    <3>3. CASE Ret
      BY <1>1, <1>18, <1>19, <3>3, TransfersKeepSection, Section0Typed DEF Ret
    <3>4. CASE Call
      BY <1>1, <1>18, <1>19, <3>4, TransfersKeepSection, Section0Typed DEF Call
    <3>5. QED BY <1>20, <3>1, <3>2, <3>3, <3>4
  <2>2. QED BY <1>3, <2>1
<1>21. CASE Calls
  <2>1. Executed(3, 6)
    BY <1>1, <1>18, <1>19, <1>21, TransfersKeepSection, Section3Typed DEF Calls
  <2>2. QED BY <1>3, <2>1
<1>22. CASE PrintsBadName \/ (\E c \in UartByte : UartArrive(c)) \/ Done
  <2>1. m'.p = m.p /\ m'.sect = m.sect
    BY <1>22 DEF PrintsBadName, UartArrive, Done, TypeOK, Machine
  <2>2. QED BY <2>1
<1>23. QED
  BY <1>7, <1>8, <1>9, <1>10, <1>11, <1>12, <1>13, <1>14, <1>15, <1>16, <1>17, <1>20, <1>21,
     <1>22 DEF Next, LocalStep

SectionOf(op) == IF Contains(opcodes_0, op) THEN 0 ELSE IF Contains(opcodes_2, op) THEN 2 ELSE 3

Transfers == {"jmp", "jmps", "ret", "call", "calls"}

\* What the tables say of the mnemonic that stands for the entry at (section, code).
Named(op, section, code) ==
  /\ expect_arg(op) = Operands(section, code)
  /\ op \in Transfers <=> Transferring(section, code)
  /\ op = "halt" <=> section = 3 /\ code = 15
  /\ op # "ext"

LEMMA Table0 ==
  ASSUME NEW i \in 1 .. 15
  PROVE  Named(opcodes_0[i], 0, i - 1)
<1>1. CASE i \in 1 .. 5
  BY <1>1 DEF Named, opcodes_0, expect_arg, Operands, Transfers, Transferring
<1>2. CASE i \in 6 .. 10
  BY <1>2 DEF Named, opcodes_0, expect_arg, Operands, Transfers, Transferring
<1>3. CASE i \in 11 .. 15
  BY <1>3 DEF Named, opcodes_0, expect_arg, Operands, Transfers, Transferring
<1>4. QED BY <1>1, <1>2, <1>3

LEMMA Table2 ==
  ASSUME NEW i \in 1 .. 4
  PROVE  Named(opcodes_2[i], 2, i - 1)
BY DEF Named, opcodes_2, expect_arg, Operands, Transfers, Transferring

LEMMA Table3 ==
  ASSUME NEW i \in 1 .. 16
  PROVE  Named(opcodes_3[i], 3, i - 1)
<1>1. CASE i \in 1 .. 5
  BY <1>1 DEF Named, opcodes_3, expect_arg, Operands, Transfers, Transferring
<1>2. CASE i \in 6 .. 10
  BY <1>2 DEF Named, opcodes_3, expect_arg, Operands, Transfers, Transferring
<1>3. CASE i \in 11 .. 16
  BY <1>3 DEF Named, opcodes_3, expect_arg, Operands, Transfers, Transferring
<1>4. QED BY <1>1, <1>2, <1>3

\* A mnemonic is assembled to the entry it names, with its section before it.
Coded(op, section, code) ==
  /\ section \in {0, 2, 3} /\ code \in 0 .. 15 /\ section = SectionOf(op)
  /\ section = 0 => code # 15
  /\ section = 2 => code \notin 4 .. 15
  /\ Named(op, section, code)
  /\ \A arg : gen_instruction(op, arg) = IF section = 0 THEN <<16 * code + arg>>
                                         ELSE <<240 + section, 16 * code + arg>>

LEMMA MnemonicCoded ==
  ASSUME NEW op \in Mnemonics
  PROVE  \E section \in {0, 2, 3}, code \in 0 .. 15 : Coded(op, section, code)
<1>1. DOMAIN opcodes_0 = 1 .. 16 /\ DOMAIN opcodes_2 = 1 .. 4 /\ DOMAIN opcodes_3 = 1 .. 16
      /\ Len(opcodes_0) = 16 /\ Len(opcodes_2) = 4 /\ Len(opcodes_3) = 16
  BY DEF opcodes_0, opcodes_2, opcodes_3
<1>2. opcodes_0[16] = "ext"
  BY DEF opcodes_0
<1>3. /\ \A i \in 1 .. 15 : Named(opcodes_0[i], 0, i - 1)
      /\ \A i \in 1 .. 4 : Named(opcodes_2[i], 2, i - 1)
      /\ \A i \in 1 .. 16 : Named(opcodes_3[i], 3, i - 1)
  BY Table0, Table2, Table3
<1>4. /\ Contains(opcodes_0, op) <=> \E i \in 1 .. 16 : opcodes_0[i] = op
      /\ Contains(opcodes_2, op) <=> \E i \in 1 .. 4 : opcodes_2[i] = op
  BY <1>1 DEF Contains
<1>5. op # "ext" /\ (~Contains(opcodes_0, op) /\ ~Contains(opcodes_2, op)
                       => \E i \in 1 .. 16 : opcodes_3[i] = op)
  <2>1. (op \in ToSet(opcodes_0) /\ op # "ext")
          \/ (\E i \in 1 .. 4 : opcodes_2[i] = op) \/ (\E i \in 1 .. 16 : opcodes_3[i] = op)
    BY <1>1 DEF Mnemonics, ToSet
  <2>2. op \in ToSet(opcodes_0) => \E i \in 1 .. 16 : opcodes_0[i] = op
    BY <1>1 DEF ToSet
  <2>3. \A i \in 1 .. 4 : opcodes_2[i] # "ext"
    BY <1>3 DEF Named
  <2>4. \A i \in 1 .. 16 : opcodes_3[i] # "ext"
    BY <1>3 DEF Named
  <2>5. QED BY <1>4, <2>1, <2>2, <2>3, <2>4
<1>6. CASE Contains(opcodes_0, op)
  <2>1. PICK i : i = CHOOSE j \in DOMAIN opcodes_0 : opcodes_0[j] = op
    OBVIOUS
  <2>2. i \in 1 .. 16 /\ opcodes_0[i] = op
    BY <1>1, <1>4, <1>6, <2>1
  <2>3. i \in 1 .. 15 /\ i - 1 \in 0 .. 15 /\ i - 1 # 15
    BY <1>2, <1>5, <2>2
  <2>4. find_keyword(opcodes_0, op) = i - 1
    BY <2>1 DEF find_keyword
  <2>5. ASSUME NEW arg PROVE gen_instruction(op, arg) = <<16 * (i - 1) + arg>>
    BY <1>5, <1>6, <2>4 DEF gen_instruction
  <2>6. Named(op, 0, i - 1) /\ SectionOf(op) = 0
    BY <1>3, <1>6, <2>2, <2>3 DEF SectionOf
  <2>7. Coded(op, 0, i - 1)
    BY <2>3, <2>5, <2>6 DEF Coded
  <2>8. QED BY <2>3, <2>7
<1>7. CASE ~Contains(opcodes_0, op) /\ Contains(opcodes_2, op)
  <2>1. PICK i : i = CHOOSE j \in DOMAIN opcodes_2 : opcodes_2[j] = op
    OBVIOUS
  <2>2. i \in 1 .. 4 /\ opcodes_2[i] = op
    BY <1>1, <1>4, <1>7, <2>1
  <2>3. i - 1 \in 0 .. 15 /\ i - 1 \notin 4 .. 15
    BY <2>2
  <2>4. find_keyword(opcodes_2, op) = i - 1
    BY <2>1 DEF find_keyword
  <2>5. ASSUME NEW arg PROVE gen_instruction(op, arg) = <<240 + 2, 16 * (i - 1) + arg>>
    <3>1. gen_instruction(op, arg) = <<242, 16 * (i - 1) + arg>>
      BY <1>5, <1>7, <2>4 DEF gen_instruction
    <3>2. QED BY <3>1
  <2>6. Named(op, 2, i - 1) /\ SectionOf(op) = 2
    BY <1>3, <1>7, <2>2 DEF SectionOf
  <2>7. Coded(op, 2, i - 1)
    BY <2>3, <2>5, <2>6 DEF Coded
  <2>8. QED BY <2>3, <2>7
<1>8. CASE ~Contains(opcodes_0, op) /\ ~Contains(opcodes_2, op)
  <2>1. PICK i : i = CHOOSE j \in DOMAIN opcodes_3 : opcodes_3[j] = op
    OBVIOUS
  <2>2. i \in 1 .. 16 /\ opcodes_3[i] = op
    BY <1>1, <1>5, <1>8, <2>1
  <2>3. i - 1 \in 0 .. 15
    BY <2>2
  <2>4. find_keyword(opcodes_3, op) = i - 1
    BY <2>1 DEF find_keyword
  <2>5. ASSUME NEW arg PROVE gen_instruction(op, arg) = <<240 + 3, 16 * (i - 1) + arg>>
    <3>1. gen_instruction(op, arg) = <<243, 16 * (i - 1) + arg>>
      BY <1>5, <1>8, <2>4 DEF gen_instruction
    <3>2. QED BY <3>1
  <2>6. Named(op, 3, i - 1) /\ SectionOf(op) = 3
    BY <1>3, <1>8, <2>2 DEF SectionOf
  <2>7. Coded(op, 3, i - 1)
    BY <2>3, <2>5, <2>6 DEF Coded
  <2>8. QED BY <2>3, <2>7
<1>9. QED BY <1>6, <1>7, <1>8

-------------------------------------------------------------------------------
\* The machine is about to execute the opcode the assembler writes for op.
AboutTo(op, arg) ==
  m.status = "running" /\ m.sect = SectionOf(op) /\ Opcode = Last(gen_instruction(op, arg))

\* Where the instruction after it starts, by what the assembler writes behind it.
NextInstruction(op) == (m.p + 1 + expect_arg(op)) % 65536

\* A mnemonic of section 0 is one byte, any other has its prefix before it.
LEMMA CodedOpcode ==
  ASSUME NEW op, NEW section, NEW code, Coded(op, section, code), NEW arg \in 0 .. 15
  PROVE  /\ Last(gen_instruction(op, arg)) = 16 * code + arg
         /\ (16 * code + arg) \div 16 = code /\ 16 * code + arg \in 0 .. 255
<1>1. code \in 0 .. 15
  BY DEF Coded
<1>2. (16 * code + arg) \div 16 = code /\ 16 * code + arg \in 0 .. 255
  BY <1>1, SMT
<1>3. PICK v : v = 16 * code + arg
  OBVIOUS
<1>4. gen_instruction(op, arg) = <<v>> \/ gen_instruction(op, arg) = <<240 + section, v>>
  BY <1>3 DEF Coded
<1>5. Last(<<v>>) = v /\ Last(<<240 + section, v>>) = v
  BY DEF Last
<1>6. QED BY <1>2, <1>3, <1>4, <1>5

\* What a step does when op is about to be executed.
LEMMA StepTakesOperands ==
  ASSUME TypeOK, Next, NEW op \in Mnemonics, NEW arg \in 0 .. 15, AboutTo(op, arg)
  PROVE  \/ m'.p = m.p /\ m'.sect = m.sect
         \/ /\ IF op \in Transfers THEN Transfer ELSE m'.p = NextInstruction(op)
            /\ IF op = "halt" THEN m'.status # "running" ELSE m'.sect = 0
<1>1. PICK section \in {0, 2, 3}, code \in 0 .. 15 : Coded(op, section, code)
  BY MnemonicCoded
<1>2. m.sect = section /\ Opcode \div 16 = code /\ m.status = "running"
  <2>1. section = SectionOf(op)
    BY <1>1 DEF Coded
  <2>2. PICK v : v = 16 * code + arg
    OBVIOUS
  <2>3. Last(gen_instruction(op, arg)) = v /\ v \div 16 = code
    BY <1>1, <2>2, CodedOpcode
  <2>4. QED BY <2>1, <2>3 DEF AboutTo
<1>3. Executes(section, code)
  <2>1. section % 4 = section
    OBVIOUS
  <2>2. QED BY <1>2, <2>1 DEF Executes
<1>4. Named(op, section, code) /\ (section = 0 => code # 15) /\ (section = 2 => code \notin 4 .. 15)
  BY <1>1 DEF Coded
<1>5. SUFFICES ASSUME ~(m'.p = m.p /\ m'.sect = m.sect)
               PROVE  /\ IF op \in Transfers THEN Transfer ELSE m'.p = NextInstruction(op)
                      /\ IF op = "halt" THEN m'.status # "running" ELSE m'.sect = 0
  OBVIOUS
<1>6. PICK i \in 0 .. 3, j \in 0 .. 15 : Executed(i, j)
  BY <1>5, StepExecutes
<1>7. Executed(section, code)
  <2>1. i = section /\ j = code
    BY <1>3, <1>6, OneOpcode DEF Executed
  <2>2. QED BY <1>6, <2>1
<1>8. IF op \in Transfers THEN Transfer ELSE m'.p = NextInstruction(op)
  BY <1>4, <1>7 DEF Executed, Named, NextInstruction
<1>9. CASE op = "halt"
  BY <1>4, <1>7, <1>8, <1>9 DEF Executed, Named
<1>10. CASE op # "halt"
  <2>1. ~(section = 3 /\ code = 15)
    BY <1>4, <1>10 DEF Named
  <2>2. Keeping(section, code) => m.sect = 0
    BY <1>2, <1>4, <2>1 DEF Keeping
  <2>3. m'.sect = 0
    BY <1>4, <1>7, <2>2 DEF Executed
  <2>4. QED BY <1>8, <1>10, <2>3
<1>11. QED BY <1>9, <1>10
-------------------------------------------------------------------------------
\* How a program lies in its code.
LaidOut(pr) ==
  LET at == Positions(pr)
      code == Code(pr)
  IN  /\ code \in Seq(Byte) /\ Len(code) = at[Len(pr)]
      /\ at[0] = 0
      /\ \A i \in 0 .. Len(pr) : at[i] \in Nat /\ at[i] <= Len(code)
      /\ \A i \in 1 .. Len(pr) :
           /\ at[i] = at[i - 1] + Len(Assembled(pr[i]))
           /\ \A k \in 1 .. Len(Assembled(pr[i])) : code[at[i - 1] + k] = Assembled(pr[i])[k]

\* An instruction is assembled to bytes, and to no fewer than its operand and an opcode.
LEMMA InstructionBytes ==
  ASSUME NEW inst \in Instruction
  PROVE  /\ Assembled(inst) \in Seq(Byte) /\ Len(Assembled(inst)) \in Nat
         /\ Len(Assembled(inst)) =
              Len(gen_instruction(inst.op, inst.arg)) + Len(inst.operand)
         /\ \A k \in 1 .. Len(gen_instruction(inst.op, inst.arg)) :
              Assembled(inst)[k] = gen_instruction(inst.op, inst.arg)[k]
<1>1. inst.op \in Mnemonics /\ inst.arg \in 0 .. 15 /\ inst.operand \in Seq(Byte)
  BY DEF Instruction, Byte
<1>2. PICK section \in {0, 2, 3}, code \in 0 .. 15 : Coded(inst.op, section, code)
  BY <1>1, MnemonicCoded
<1>3. PICK g : g = gen_instruction(inst.op, inst.arg)
  OBVIOUS
<1>4. g \in Seq(Byte)
  <2>1. PICK v : v = 16 * code + inst.arg
    OBVIOUS
  <2>2. v \in Byte /\ 240 + section \in Byte
    <3>1. v \in 0 .. 255
      BY <1>1, <1>2, <2>1, CodedOpcode
    <3>2. QED BY <3>1 DEF Byte
  <2>3. g = <<v>> \/ g = <<240 + section, v>>
    BY <1>2, <1>3, <2>1 DEF Coded
  <2>4. PICK u : u = 240 + section
    OBVIOUS
  <2>5. <<v>> \in Seq(Byte) /\ <<u, v>> \in Seq(Byte)
    BY <2>2, <2>4
  <2>6. QED BY <2>3, <2>4, <2>5
<1>5. /\ g \o inst.operand \in Seq(Byte)
      /\ Len(g \o inst.operand) = Len(g) + Len(inst.operand)
      /\ \A k \in 1 .. Len(g) : (g \o inst.operand)[k] = g[k]
  <2>1. PICK t \in Seq(Byte) : t = inst.operand
    BY <1>1
  <2>2. /\ g \o t \in Seq(Byte) /\ Len(g \o t) = Len(g) + Len(t)
        /\ \A k \in 1 .. Len(g) + Len(t) :
             (g \o t)[k] = IF k <= Len(g) THEN g[k] ELSE t[k - Len(g)]
    BY <1>4, ConcatProperties
  <2>3. \A k \in 1 .. Len(g) : (g \o t)[k] = g[k]
    <3>1. Len(g) \in Nat /\ Len(t) \in Nat
      BY <1>4
    <3>2. QED BY <2>2, <3>1
  <2>4. QED BY <2>1, <2>2, <2>3
<1>6. PICK t : t = Assembled(inst) /\ t = g \o inst.operand
  BY <1>3 DEF Assembled
<1>7. t \in Seq(Byte) /\ Len(t) = Len(g) + Len(inst.operand) /\ \A k \in 1 .. Len(g) : t[k] = g[k]
  BY <1>5, <1>6
<1>8. Len(t) \in Nat
  BY <1>7
<1>9. QED BY <1>3, <1>6, <1>7, <1>8

\* Ahead of what follows the k-th piece stand as many bytes as the pieces are long.
LEMMA ProgramLaidOut ==
  ASSUME NEW pr \in Seq(Instruction)
  PROVE  LaidOut(pr)
<1> DEFINE n == Len(pr)
           g == [i \in DOMAIN pr |-> Assembled(pr[i])]
           len == [i \in 1 .. n |-> Len(Assembled(pr[i]))]
           at == Positions(pr)
<1>1. n \in Nat /\ DOMAIN pr = 1 .. n /\ \A i \in 1 .. n : pr[i] \in Instruction
  OBVIOUS
<1>2. \A i \in 1 .. n : g[i] = Assembled(pr[i]) /\ len[i] = Len(Assembled(pr[i]))
  BY <1>1
<1>3. \A i \in 1 .. n : g[i] \in Seq(Byte) /\ IsSequence(g[i]) /\ len[i] \in Nat /\ len[i] = Len(g[i])
  BY <1>1, <1>2, InstructionBytes DEF IsSequence
<1>4. IsSums(at, len, n)
  <2>1. PICK f : IsSums(f, len, n)
    BY <1>1, SumsExist
  <2>2. f = [i \in 0 .. n |-> IF i = 0 THEN 0 ELSE f[i - 1] + Len(Assembled(pr[i]))]
    <3>1. ASSUME NEW i \in 0 .. n
          PROVE  f[i] = IF i = 0 THEN 0 ELSE f[i - 1] + Len(Assembled(pr[i]))
      <4>1. f[i] = IF i = 0 THEN 0 ELSE f[i - 1] + len[i]
        BY <2>1 DEF IsSums
      <4>2. i # 0 => len[i] = Len(Assembled(pr[i]))
        BY <1>2
      <4>3. QED BY <4>1, <4>2
    <3>2. DOMAIN f = 0 .. n /\ f = [i \in DOMAIN f |-> f[i]]
      BY <2>1 DEF IsSums
    <3>3. QED BY <3>1, <3>2
  <2>3. at = [i \in 0 .. n |-> IF i = 0 THEN 0 ELSE at[i - 1] + Len(Assembled(pr[i]))]
    BY <2>2 DEF Positions
  <2> HIDE DEF at
  <2>4. ASSUME NEW i \in 0 .. n
        PROVE  at[i] = IF i = 0 THEN 0 ELSE at[i - 1] + len[i]
    <3>1. i # 0 => len[i] = Len(Assembled(pr[i]))
      BY <1>2
    <3>2. QED BY <2>3, <3>1
  <2>5. DOMAIN at = 0 .. n /\ at = [i \in DOMAIN at |-> at[i]]
    BY <2>3
  <2>6. QED BY <2>4, <2>5 DEF IsSums
<1> HIDE DEF at
<1>5. /\ at[0] = 0 /\ \A i \in 1 .. n : at[i] = at[i - 1] + len[i]
      /\ \A i \in 0 .. n : at[i] \in Nat /\ at[i] <= at[n]
  BY <1>1, <1>3, <1>4, SumsRise
<1>6. PICK code : code = Code(pr)
  OBVIOUS
<1>7. code = FlattenSeq(g)
  BY <1>6 DEF Code
<1>8. Len(g) = n
  BY <1>1
<1> HIDE DEF g, len
<1>9. /\ code \in Seq(Byte) /\ Len(code) = at[n]
      /\ \A i \in 1 .. n : \A k \in 1 .. Len(g[i]) : code[at[i - 1] + k] = g[i][k]
  <2>1. CASE n = 0
    <3>1. code = <<>>
      BY <1>7, <1>8, <2>1 DEF FlattenSeq
    <3>2. QED BY <1>5, <2>1, <3>1
  <2>2. CASE n # 0
    <3>1. PICK flat : IsFlat(flat, g, n) /\ code = flat[n]
      BY <1>1, <1>7, <1>8, <2>2, Flattened
    <3>2. InOrder(flat, g, n)
      BY <1>1, <1>3, <2>2, <3>1, PiecesLie
    <3> DEFINE a(k) == Ahead(flat, k)
               T == {k \in 0 .. n : ~ (a(k) \in Seq(Byte) /\ Len(a(k)) = at[k])}
    <3>3. T = {}
      <4> SUFFICES ASSUME T # {} PROVE FALSE
        OBVIOUS
      <4>1. T \subseteq Nat
        BY <1>1
      <4>2. PICK k \in T : \A j \in T : k <= j
        <5> HIDE DEF T
        <5>1. QED BY <4>1, LeastNatural
      <4>3. k \in 0 .. n /\ ~ (a(k) \in Seq(Byte) /\ Len(a(k)) = at[k])
        OBVIOUS
      <4>4. k # 0
        BY <1>5, <4>3 DEF Ahead
      <4>5. k \in 1 .. n /\ k - 1 \in 0 .. n /\ k - 1 \notin T
        BY <1>1, <4>2, <4>3, <4>4
      <4>6. PICK b \in Seq(Byte) : b = a(k - 1) /\ Len(b) = at[k - 1]
        BY <4>5
      <4>7. a(k) = b \o g[k] /\ g[k] \in Seq(Byte) /\ Len(g[k]) = len[k]
        BY <1>3, <3>2, <4>5, <4>6 DEF InOrder
      <4>8. b \o g[k] \in Seq(Byte) /\ Len(b \o g[k]) = Len(b) + Len(g[k])
        BY <4>7, ConcatProperties
      <4>9. QED BY <1>5, <4>3, <4>5, <4>6, <4>7, <4>8
    <3>4. \A k \in 0 .. n : a(k) \in Seq(Byte) /\ Len(a(k)) = at[k]
      BY <3>3
    <3>5. code = a(n)
      BY <2>2, <3>1 DEF Ahead
    <3>6. ASSUME NEW i \in 1 .. n, NEW k \in 1 .. Len(g[i])
          PROVE  code[at[i - 1] + k] = g[i][k]
      <4>1. PICK r : IsSequence(r) /\ code = a(i) \o r
        BY <3>1, <3>2 DEF InOrder
      <4>2. PICK b \in Seq(Byte) : b = a(i - 1) /\ Len(b) = at[i - 1]
        BY <1>1, <3>4
      <4>3. IsSequence(b) /\ Len(b) \in Nat /\ IsSequence(g[i]) /\ Len(g[i]) \in Nat
        BY <1>3, <4>2 DEF IsSequence
      <4>4. PICK c : c = a(i) /\ c = b \o g[i]
        BY <3>2, <4>2 DEF InOrder
      <4>5. IsJoined(c, b, g[i])
        BY <4>3, <4>4, JoinedParts
      <4>6. c[Len(b) + k] = g[i][k] /\ IsSequence(c) /\ Len(b) + k \in 1 .. Len(c)
        BY <4>3, <4>5 DEF IsJoined
      <4>7. IsJoined(code, c, r)
        BY <4>1, <4>4, <4>6, JoinedParts
      <4>8. code[Len(b) + k] = c[Len(b) + k]
        BY <4>6, <4>7 DEF IsJoined
      <4>9. QED BY <4>2, <4>6, <4>8
    <3>7. n \in 0 .. n
      BY <1>1
    <3>8. QED BY <3>4, <3>5, <3>6, <3>7
  <2>3. QED BY <2>1, <2>2
<1>10. ASSUME NEW i \in 1 .. n
       PROVE  /\ at[i] = at[i - 1] + Len(Assembled(pr[i]))
              /\ \A k \in 1 .. Len(Assembled(pr[i])) : code[at[i - 1] + k] = Assembled(pr[i])[k]
  BY <1>2, <1>5, <1>9
<1>11. QED BY <1>5, <1>6, <1>9, <1>10 DEF LaidOut, at

\* The code of a program fits the ROM, and ends before the last address: the UART has one.
LEMMA CodeFits ==
  ASSUME NEW pr \in Program
  PROVE  /\ pr \in Seq(Instruction) /\ LaidOut(pr) /\ Code(pr) \in Seq(Byte)
         /\ Len(Code(pr)) \in Nat /\ Len(Code(pr)) < 65536
         /\ \A i \in 0 .. Len(Code(pr)) - 1 : i \in RomAddr
         /\ \A i \in DOMAIN pr : Accepted(pr[i])
<1>1. /\ pr \in Seq(Instruction) /\ \A i \in DOMAIN pr : Accepted(pr[i])
      /\ 0 .. Len(Code(pr)) - 1 \subseteq RomAddr
  BY ProgramAssumption
<1>2. LaidOut(pr) /\ Code(pr) \in Seq(Byte)
  BY <1>1, ProgramLaidOut DEF LaidOut
<1>3. PICK l \in Nat : l = Len(Code(pr))
  BY <1>2
<1>4. l < 65536
  <2>1. UartAddr \in Word /\ UartAddr \notin RomAddr
    BY CpuAssumption
  <2>2. UartAddr \in Int /\ 0 <= UartAddr /\ UartAddr < 65536
    BY <2>1, WordBounds
  <2>3. UartAddr \notin 0 .. l - 1
    BY <1>1, <1>3, <2>1
  <2>4. QED BY <2>2, <2>3
<1>5. QED BY <1>1, <1>2, <1>3, <1>4

\* The image of a program is one.
LEMMA LoadedTyped ==
  ASSUME NEW pr \in Program
  PROVE  Loaded(Code(pr)) \in [RomAddr -> Byte]
<1>1. PICK code \in Seq(Byte) : code = Code(pr)
  BY CodeFits
<1>2. ASSUME NEW adr \in RomAddr PROVE (IF adr < Len(code) THEN code[adr + 1] ELSE 0) \in Byte
  <2>1. adr \in Word
    BY CpuAssumption
  <2>2. adr \in Int /\ 0 <= adr
    BY <2>1, WordBounds
  <2>3. adr < Len(code) => code[adr + 1] \in Byte
    <3>1. adr < Len(code) => adr + 1 \in 1 .. Len(code)
      BY <2>2
    <3>2. QED BY <3>1
  <2>4. QED BY <2>3, ZeroByte
<1>3. QED BY <1>1, <1>2 DEF Loaded

LEMMA MachineInitTyped == MachineInit => TypeOK
<1>1. ASSUME ProgramInit PROVE TypeOK
  <2>1. PICK pr \in Program, fill \in RamFill, flag \in DebugFlag :
          m = PowerOn(Loaded(Code(pr)), fill, flag)
    BY <1>1 DEF ProgramInit
  <2>2. PICK rom : rom = Loaded(Code(pr)) /\ rom \in [RomAddr -> Byte]
    BY LoadedTyped
  <2>3. fill \in Byte /\ flag \in BOOLEAN
    BY CpuAssumption
  <2>4. [adr \in Mapped |-> IF adr \in RomAddr THEN rom[adr] ELSE fill] \in [Mapped -> Byte]
    BY <2>2, <2>3
  <2>5. 0 \in Word
    BY WordBounds
  <2>6. 0 \in Nibble
    BY DEF Nibble
  <2>7. <<>> \in Seq(Byte)
    BY EmptySeq
  <2>8. QED
    BY <2>1, <2>2, <2>3, <2>4, <2>5, <2>6, <2>7, ZeroByte DEF PowerOn, TypeOK, Machine
<1>2. QED BY <1>1, InitTyped DEF MachineInit

LEMMA MachineSteps == [MachineNext]_vars => [Next]_m
BY DEF MachineNext, ProgramNext, ProgramCall, ProgramRet, Next, vars

\* Whatever program runs, or image, the processor is well formed and every step is a cycle.
THEOREM ProgramsRunOnMachine == MachineSpec => []TypeOK /\ [][Next]_m
<1>1. TypeOK /\ [MachineNext]_vars => TypeOK'
  BY MachineSteps, StepTyped
<1>2. MachineSpec => []TypeOK
  BY <1>1, MachineInitTyped, PTL DEF MachineSpec
<1>3. MachineSpec => [][Next]_m
  BY MachineSteps, PTL DEF MachineSpec
<1>4. QED BY <1>2, <1>3

\* For every mnemonic of the assembler: a step that runs it moves p over the operand
\* bytes the assembler writes for it, unless it may jump, and drops its section.
OperandsTaken ==
  \A op \in Mnemonics, arg \in 0 .. 15 :
    AboutTo(op, arg) /\ m'.p # m.p =>
      /\ op \in Transfers \/ m'.p = NextInstruction(op)
      /\ op = "halt" \/ m'.sect = 0

\* Whatever image runs, an assembler's or not: the processor takes as many operand bytes
\* as the assembler writes.
THEOREM DecoderTakesWhatIsEmitted == MachineSpec => [][OperandsTaken]_m
<1>1. TypeOK /\ [Next]_m => [OperandsTaken]_m
  <2> SUFFICES ASSUME TypeOK, Next, NEW op \in Mnemonics, NEW arg \in 0 .. 15,
                      AboutTo(op, arg), m'.p # m.p
               PROVE  /\ op \in Transfers \/ m'.p = NextInstruction(op)
                      /\ op = "halt" \/ m'.sect = 0
    BY DEF OperandsTaken
  <2>1. QED BY StepTakesOperands
<1>2. QED BY <1>1, ProgramsRunOnMachine, PTL
-------------------------------------------------------------------------------
\* What the text of a program must see to, as compiled programs do: it does not write to
\* its ROM, does not run off its end, and jumps, calls and returns to instructions only.
Conventional ==
  starts # {} /\ m.status = "running" =>
    /\ \A adr \in RomAddr : m'.mem[adr] = m.mem[adr]
    /\ \E t \in starts : t > m.p
    /\ Transfer => \/ m'.p \in starts
                   \/ Jmp /\ m'.p = NextInstruction("jmp")
                   \/ Jmps /\ m'.p = NextInstruction("jmps")

\* Between two instructions, or behind the prefix of one; the ROM holds the program.
Between(pr) == m.sect = 0 /\ m.p \in Starts(pr)

Prefixed(pr) ==
  \E i \in 1 .. Len(pr) :
    /\ m.sect \in {2, 3} /\ m.sect = SectionOf(pr[i].op)
    /\ m.p = Positions(pr)[i - 1] + 1

RunsInSync(pr) ==
  /\ starts = Starts(pr)
  /\ m.status = "running" =>
       /\ \A adr \in RomAddr : m.mem[adr] = Loaded(Code(pr))[adr]
       /\ Between(pr) \/ Prefixed(pr)

ProgramsInSync == starts # {} => \E pr \in Program : RunsInSync(pr)

LEMMA SyncStart == MachineInit => ProgramsInSync
<1> SUFFICES ASSUME ProgramInit PROVE ProgramsInSync
  BY DEF MachineInit, ProgramsInSync
<1>1. PICK pr \in Program, fill \in RamFill, flag \in DebugFlag :
        starts = Starts(pr) /\ m = PowerOn(Loaded(Code(pr)), fill, flag)
  BY DEF ProgramInit
<1>2. m.sect = 0 /\ m.p = 0 /\ \A adr \in RomAddr : m.mem[adr] = Loaded(Code(pr))[adr]
  BY <1>1 DEF PowerOn, Mapped
<1>3. 0 \in Starts(pr)
  <2>1. Len(pr) \in Nat /\ Positions(pr)[0] = 0
    BY CodeFits DEF LaidOut
  <2>2. QED BY <2>1 DEF Starts
<1>4. QED BY <1>1, <1>2, <1>3 DEF ProgramsInSync, RunsInSync, Between

\* The byte of the ROM at an address of the code is the byte of the code.
LEMMA CodeFetched ==
  ASSUME TypeOK, NEW pr \in Program,
         \A adr \in RomAddr : m.mem[adr] = Loaded(Code(pr))[adr],
         NEW j \in Nat, j < Len(Code(pr)), m.p = j
  PROVE  Opcode = Code(pr)[j + 1]
<1>1. j \in RomAddr
  <2>1. j \in 0 .. Len(Code(pr)) - 1
    BY CodeFits
  <2>2. QED BY <2>1, CodeFits
<1>2. m.mem[j] = Code(pr)[j + 1]
  BY <1>1 DEF Loaded
<1>3. Opcode = m.mem[j]
  <2>1. m.p \in Mapped
    BY <1>1 DEF Mapped
  <2>2. Load(m, m.p) = [m EXCEPT !.bus = m.mem[m.p]]
    BY <2>1 DEF Load
  <2>3. QED BY <2>2 DEF Opcode, TypeOK, Machine
<1>4. QED BY <1>2, <1>3

\* How the i-th instruction of a program lies in its code.
Lies(pr, i, section, code) ==
  LET at == Positions(pr)
      op == pr[i].op
      v == 16 * code + pr[i].arg
  IN  /\ op \in Mnemonics /\ pr[i].arg \in 0 .. 15 /\ expect_arg(op) \in 0 .. 3
      /\ at[i - 1] \in Nat /\ at[i] \in Nat /\ at[i] < 65536 /\ at[i] <= Len(Code(pr))
      /\ at[i] = at[i - 1] + (IF section = 0 THEN 1 ELSE 2) + expect_arg(op)
      /\ Code(pr)[at[i - 1] + 1] = (IF section = 0 THEN v ELSE 240 + section)
      /\ section # 0 => Code(pr)[at[i - 1] + 2] = v
      /\ Last(gen_instruction(op, pr[i].arg)) = v

LEMMA ThenOperand ==
  ASSUME NEW from \in Nat, NEW n \in 1 .. 2, NEW e \in 0 .. 3, NEW to, to = from + (n + e)
  PROVE  to = from + n + e
BY SMT

LEMMA InstructionLies ==
  ASSUME NEW pr \in Program, NEW i \in 1 .. Len(pr),
         NEW section, NEW code, Coded(pr[i].op, section, code)
  PROVE  Lies(pr, i, section, code)
<1> DEFINE at == Positions(pr)
           op == pr[i].op
<1>1. pr \in Seq(Instruction) /\ LaidOut(pr) /\ Accepted(pr[i]) /\ Len(Code(pr)) < 65536
      /\ Len(Code(pr)) \in Nat
  BY CodeFits
<1>2. PICK inst \in Instruction : inst = pr[i]
  BY <1>1
<1>3. inst.op \in Mnemonics /\ inst.arg \in 0 .. 15 /\ Len(inst.operand) = expect_arg(inst.op)
  BY <1>1, <1>2 DEF Instruction, Accepted
<1>4. expect_arg(inst.op) \in 0 .. 3 /\ section \in {0, 2, 3}
  <2>1. expect_arg(inst.op) = Operands(section, code)
    BY <1>2 DEF Coded, Named
  <2>2. Operands(section, code) \in 0 .. 3
    BY DEF Operands
  <2>3. QED BY <2>1, <2>2 DEF Coded
<1>5. /\ at[i - 1] \in Nat /\ at[i] \in Nat /\ at[i] <= Len(Code(pr))
      /\ at[i] = at[i - 1] + Len(Assembled(inst))
      /\ \A k \in 1 .. Len(Assembled(inst)) : Code(pr)[at[i - 1] + k] = Assembled(inst)[k]
  <2>1. i \in 0 .. Len(pr) /\ i - 1 \in 0 .. Len(pr)
    BY <1>1
  <2>2. QED BY <1>1, <1>2, <2>1 DEF LaidOut
<1> HIDE DEF at
<1>6. PICK v \in 0 .. 255 : v = 16 * code + inst.arg
                            /\ Last(gen_instruction(inst.op, inst.arg)) = v
  <2>1. PICK v : v = 16 * code + inst.arg
    OBVIOUS
  <2>2. Coded(inst.op, section, code)
    BY <1>2
  <2>3. Last(gen_instruction(inst.op, inst.arg)) = v /\ v \in 0 .. 255
    BY <1>3, <2>1, <2>2, CodedOpcode
  <2>4. QED BY <2>1, <2>3
<1>7. PICK g : g = gen_instruction(inst.op, inst.arg)
               /\ g = IF section = 0 THEN <<v>> ELSE <<240 + section, v>>
  BY <1>2, <1>6 DEF Coded
<1>8. PICK b : b = Assembled(inst) /\ Len(b) = Len(g) + Len(inst.operand)
               /\ \A k \in 1 .. Len(g) : b[k] = g[k]
  <2>1. PICK b : b = Assembled(inst)
    OBVIOUS
  <2>2. Len(b) = Len(g) + Len(inst.operand) /\ \A k \in 1 .. Len(g) : b[k] = g[k]
    BY <1>7, <2>1, InstructionBytes
  <2>3. QED BY <2>1, <2>2
<1>9. CASE section = 0
  <2>1. Len(g) = 1 /\ g[1] = v
    BY <1>7, <1>9
  <2>2. Len(b) = 1 + expect_arg(inst.op) /\ b[1] = v /\ 1 \in 1 .. Len(b)
    BY <1>3, <1>4, <1>8, <2>1
  <2>3. Code(pr)[at[i - 1] + 1] = v /\ at[i] = at[i - 1] + 1 + expect_arg(inst.op)
    <3>1. Code(pr)[at[i - 1] + 1] = b[1]
      BY <1>5, <1>8, <2>2
    <3>2. at[i] = at[i - 1] + (1 + expect_arg(inst.op))
      BY <1>5, <1>8, <2>2
    <3>3. at[i] = at[i - 1] + 1 + expect_arg(inst.op)
      BY <1>4, <1>5, <3>2, ThenOperand
    <3>4. QED BY <2>2, <3>1, <3>3
  <2>4. /\ at[i] = at[i - 1] + (IF section = 0 THEN 1 ELSE 2) + expect_arg(inst.op)
        /\ Code(pr)[at[i - 1] + 1] = (IF section = 0 THEN v ELSE 240 + section)
        /\ section # 0 => Code(pr)[at[i - 1] + 2] = v
    BY <1>9, <2>3
  <2>5. at[i] < 65536
    BY <1>1, <1>5
  <2> HIDE DEF op
  <2>6. QED BY <1>2, <1>3, <1>4, <1>5, <1>6, <2>4, <2>5 DEF at, op, Lies
<1>10. CASE section # 0
  <2>1. Len(g) = 2 /\ g[1] = 240 + section /\ g[2] = v
    BY <1>7, <1>10
  <2>2. /\ Len(b) = 2 + expect_arg(inst.op) /\ b[1] = 240 + section /\ b[2] = v
        /\ 1 \in 1 .. Len(b) /\ 2 \in 1 .. Len(b)
    BY <1>3, <1>4, <1>8, <2>1
  <2>3. /\ Code(pr)[at[i - 1] + 1] = 240 + section /\ Code(pr)[at[i - 1] + 2] = v
        /\ at[i] = at[i - 1] + 2 + expect_arg(inst.op)
    <3>1. Code(pr)[at[i - 1] + 1] = b[1] /\ Code(pr)[at[i - 1] + 2] = b[2]
      BY <1>5, <1>8, <2>2
    <3>2. at[i] = at[i - 1] + (2 + expect_arg(inst.op))
      BY <1>5, <1>8, <2>2
    <3>3. at[i] = at[i - 1] + 2 + expect_arg(inst.op)
      BY <1>4, <1>5, <3>2, ThenOperand
    <3>4. QED BY <2>2, <3>1, <3>3
  <2>4. /\ at[i] = at[i - 1] + (IF section = 0 THEN 1 ELSE 2) + expect_arg(inst.op)
        /\ Code(pr)[at[i - 1] + 1] = (IF section = 0 THEN v ELSE 240 + section)
        /\ section # 0 => Code(pr)[at[i - 1] + 2] = v
    BY <1>10, <2>3
  <2>5. at[i] < 65536
    BY <1>1, <1>5
  <2> HIDE DEF op
  <2>6. QED BY <1>2, <1>3, <1>4, <1>5, <1>6, <2>4, <2>5 DEF at, op, Lies
<1>11. QED BY <1>9, <1>10

\* A prefix selects its section.
LEMMA PrefixSelects ==
  ASSUME TypeOK, Next, m.status = "running", m.sect = 0,
         NEW section \in {2, 3}, Opcode = 240 + section
  PROVE  \/ m'.p = m.p /\ m'.sect = m.sect
         \/ m'.p = (m.p + 1) % 65536 /\ m'.sect = section
<1>1. Opcode \div 16 = 15 /\ Opcode % 16 = section
  <2>1. \A s \in {2, 3} : (240 + s) \div 16 = 15 /\ (240 + s) % 16 = s
    BY SMT
  <2>2. QED BY <2>1
<1>2. Executes(0, 15)
  <2>1. 0 % 4 = 0
    OBVIOUS
  <2>2. QED BY <1>1, <2>1 DEF Executes
<1>3. SUFFICES ASSUME ~(m'.p = m.p /\ m'.sect = m.sect)
               PROVE  m'.p = (m.p + 1) % 65536 /\ m'.sect = section
  OBVIOUS
<1>4. PICK i \in 0 .. 3, j \in 0 .. 15 : Executed(i, j)
  BY <1>3, StepExecutes
<1>5. Executed(0, 15)
  <2>1. i = 0 /\ j = 15
    BY <1>2, <1>4, OneOpcode DEF Executed
  <2>2. QED BY <1>4, <2>1
<1>6. Operands(0, 15) = 0 /\ ~Transferring(0, 15)
  BY DEF Operands, Transferring
<1>7. m.p + 1 + 0 = m.p + 1
  BY Registers_Typed, WordBounds DEF TypeOK
<1>8. QED BY <1>1, <1>5, <1>6, <1>7 DEF Executed

\* From an instruction that is about to be executed the machine goes to an instruction.
LEMMA InstructionRuns ==
  ASSUME TypeOK, Next, Conventional, starts # {}, m'.status = "running",
         NEW op \in Mnemonics, NEW arg \in 0 .. 15, AboutTo(op, arg),
         NextInstruction(op) \in starts
  PROVE  (m'.p = m.p /\ m'.sect = m.sect) \/ (m'.p \in starts /\ m'.sect = 0)
<1>1. SUFFICES ASSUME ~(m'.p = m.p /\ m'.sect = m.sect)
               PROVE  m'.p \in starts /\ m'.sect = 0
  OBVIOUS
<1>2. /\ IF op \in Transfers THEN Transfer ELSE m'.p = NextInstruction(op)
      /\ m'.sect = 0
  BY <1>1, StepTakesOperands
<1>3. PICK section \in {0, 2, 3}, code \in 0 .. 15 : Coded(op, section, code)
  BY MnemonicCoded
<1>4. Executes(section, code) /\ expect_arg(op) = Operands(section, code)
  <2>1. section = SectionOf(op) /\ expect_arg(op) = Operands(section, code)
    BY <1>3 DEF Coded, Named
  <2>2. PICK v : v = 16 * code + arg
    OBVIOUS
  <2>3. Last(gen_instruction(op, arg)) = v /\ v \div 16 = code
    BY <1>3, <2>2, CodedOpcode
  <2>4. section % 4 = section
    OBVIOUS
  <2>5. QED BY <2>1, <2>3, <2>4 DEF AboutTo, Executes
<1>5. Jmp => NextInstruction("jmp") = NextInstruction(op)
  <2>1. Jmp => section = 0 /\ code = 11
    BY <1>4, OneOpcode DEF Jmp
  <2>2. Operands(0, 11) = 2 /\ expect_arg("jmp") = 2
    BY DEF Operands, expect_arg
  <2>3. QED BY <1>4, <2>1, <2>2 DEF NextInstruction
<1>6. Jmps => NextInstruction("jmps") = NextInstruction(op)
  <2>1. Jmps => section = 0 /\ code = 12
    BY <1>4, OneOpcode DEF Jmps
  <2>2. Operands(0, 12) = 0 /\ expect_arg("jmps") = 0
    BY DEF Operands, expect_arg
  <2>3. QED BY <1>4, <2>1, <2>2 DEF NextInstruction
<1>7. m.status = "running"
  BY DEF AboutTo
<1>8. QED BY <1>2, <1>5, <1>6, <1>7 DEF Conventional

\* A machine that runs has been running.
LEMMA RunningBefore ==
  ASSUME TypeOK, Next, m'.status = "running"
  PROVE  m.status = "running"
<1> SUFFICES ASSUME m.status # "running" PROVE FALSE
  OBVIOUS
<1>1. \A i, j : ~Executes(i, j)
  BY DEF Executes
<1>2. Done
  BY <1>1 DEF Next, LocalStep, Nop, Seta, Puta, Lit, Litw, Push, Pop, Pushw, Popw, Alu, Cmp, Jmp,
     Jmps, Ret, Call, Ext, Alus1, Alus2, Alus3, Cmps2, BadOp, Xpp, Xmm, Ypp, Ymm, Spp, Smm,
     Calls, AdjustSp, PutRelSp, GetRelSp, PutRelSpW, GetRelSpW, Setb, Putb, SimInfo, SimHalt,
     PrintsBadName, UartArrive
<1>3. QED BY <1>2 DEF Done

\* Remainders play no part below the last address.
\* The opcode behind a prefix lies in the code.
LEMMA OpcodeInside ==
  ASSUME NEW from \in Nat, NEW e \in 0 .. 3, NEW size \in Nat, from + 2 + e <= size
  PROVE  from + 1 \in Nat /\ from + 1 < size /\ (from + 1) + 1 = from + 2
BY SMT

LEMMA SmallRemainder ==
  ASSUME NEW n \in Nat, n < 65536
  PROVE  n % 65536 = n
BY SMT

\* Every step keeps a program in sync.
LEMMA SyncStep ==
  ASSUME TypeOK, Next, Conventional, NEW pr \in Program, RunsInSync(pr), starts' = starts
  PROVE  RunsInSync(pr)'
<1> DEFINE at == Positions(pr)
           code == Code(pr)
           Quiet == m'.p = m.p /\ m'.sect = m.sect
           AtInstruction == m'.p \in starts /\ m'.sect = 0
<1>1. starts = Starts(pr)
  BY DEF RunsInSync
<1>2. SUFFICES ASSUME m'.status = "running"
               PROVE  /\ \A adr \in RomAddr : m'.mem[adr] = Loaded(Code(pr))[adr]
                      /\ Between(pr)' \/ Prefixed(pr)'
  BY <1>1 DEF RunsInSync
<1>3. m.status = "running"
  BY <1>2, RunningBefore
<1>4. (\A adr \in RomAddr : m.mem[adr] = Loaded(Code(pr))[adr]) /\ (Between(pr) \/ Prefixed(pr))
  BY <1>3 DEF RunsInSync
<1>5. LaidOut(pr) /\ Len(pr) \in Nat /\ Len(code) \in Nat /\ Len(code) < 65536
  BY CodeFits
<1>6. starts # {}
  <2>1. 0 \in 0 .. Len(pr)
    BY <1>5
  <2>2. QED BY <1>1, <2>1 DEF Starts
<1>7. /\ \A adr \in RomAddr : m'.mem[adr] = m.mem[adr]
      /\ \E t \in starts : t > m.p
  BY <1>3, <1>6 DEF Conventional
<1>8. \A adr \in RomAddr : m'.mem[adr] = Loaded(Code(pr))[adr]
  BY <1>4, <1>7
<1>9. Quiet => Between(pr)' \/ Prefixed(pr)'
  BY <1>4 DEF Between, Prefixed
<1>10. AtInstruction => Between(pr)'
  BY <1>1 DEF Between
<1>11. ASSUME NEW i \in 1 .. Len(pr), AboutTo(pr[i].op, pr[i].arg),
              pr[i].op \in Mnemonics, pr[i].arg \in 0 .. 15, NextInstruction(pr[i].op) = at[i]
       PROVE  Quiet \/ AtInstruction
  <2>1. i \in 0 .. Len(pr)
    BY <1>5
  <2>2. at[i] \in starts
    BY <1>1, <2>1 DEF Starts
  <2>3. NextInstruction(pr[i].op) \in starts
    BY <1>11, <2>2
  <2>4. PICK op \in Mnemonics, arg \in 0 .. 15 : op = pr[i].op /\ arg = pr[i].arg
    BY <1>11
  <2>5. QED BY <1>2, <1>6, <1>11, <2>3, <2>4, InstructionRuns
<1>12. CASE Between(pr)
  <2>1. PICK j \in 0 .. Len(pr) : m.p = at[j]
    BY <1>12 DEF Between, Starts
  <2>2. PICK t \in starts : t > m.p
    BY <1>7
  <2>3. PICK q \in 0 .. Len(pr) : t = at[q]
    BY <1>1, <2>2 DEF Starts
  <2>4. at[j] \in Nat /\ at[q] \in Nat /\ at[q] <= Len(code) /\ Len(code) = at[Len(pr)]
    BY <1>5 DEF LaidOut
  <2>5. j # Len(pr) /\ at[j] < Len(code)
    BY <2>1, <2>2, <2>3, <2>4
  <2>6. PICK i \in 1 .. Len(pr) : i - 1 = j
    <3>1. j + 1 \in 1 .. Len(pr) /\ (j + 1) - 1 = j
      BY <1>5, <2>5
    <3>2. QED BY <3>1
  <2>7. Opcode = code[at[i - 1] + 1]
    BY <1>4, <2>1, <2>4, <2>5, <2>6, CodeFetched
  <2>8. PICK op \in Mnemonics, arg \in 0 .. 15 : op = pr[i].op /\ arg = pr[i].arg
    <3>1. pr[i] \in Instruction
      BY CodeFits
    <3>2. QED BY <3>1 DEF Instruction
  <2>9. PICK section \in {0, 2, 3}, c \in 0 .. 15 : Coded(op, section, c)
    BY MnemonicCoded
  <2>10. PICK v : v = 16 * c + arg
    OBVIOUS
  <2>11. /\ at[i] \in Nat /\ at[i] < 65536 /\ expect_arg(op) \in 0 .. 3
         /\ at[i] = at[i - 1] + (IF section = 0 THEN 1 ELSE 2) + expect_arg(op)
         /\ code[at[i - 1] + 1] = (IF section = 0 THEN v ELSE 240 + section)
         /\ Last(gen_instruction(op, arg)) = v
    <3>1. Lies(pr, i, section, c)
      BY <2>8, <2>9, InstructionLies
    <3>2. QED BY <2>8, <2>10, <3>1 DEF Lies
  <2>12. m.sect = 0 /\ section = SectionOf(op)
    BY <1>12, <2>9 DEF Between, Coded
  <2>13. CASE section = 0
    <3>1. AboutTo(op, arg)
      BY <1>3, <2>7, <2>11, <2>12, <2>13 DEF AboutTo
    <3>2. m.p + 1 + expect_arg(op) = at[i]
      BY <2>1, <2>6, <2>11, <2>13
    <3>3. NextInstruction(op) = at[i]
      BY <2>11, <3>2, SmallRemainder DEF NextInstruction
    <3>4. Quiet \/ AtInstruction
      BY <1>11, <2>8, <3>1, <3>3
    <3>5. QED BY <1>8, <1>9, <1>10, <3>4
  <2>14. CASE section # 0
    <3>1. section \in {2, 3} /\ Opcode = 240 + section
      BY <2>7, <2>11, <2>14
    <3>2. Quiet \/ (m'.p = (m.p + 1) % 65536 /\ m'.sect = section)
      BY <1>3, <2>12, <3>1, PrefixSelects
    <3>3. (m.p + 1) % 65536 = at[i - 1] + 1
      <4>1. at[i - 1] + 1 \in Nat /\ at[i - 1] + 1 < 65536
        BY <1>5, <2>4, <2>5, <2>6
      <4>2. QED BY <2>1, <2>6, <4>1, SmallRemainder
    <3>4. m'.p = at[i - 1] + 1 /\ m'.sect = section => Prefixed(pr)'
      BY <2>8, <2>12, <3>1 DEF Prefixed
    <3>5. QED BY <1>8, <1>9, <3>2, <3>3, <3>4
  <2>15. QED BY <2>13, <2>14
<1>13. CASE Prefixed(pr)
  <2>1. PICK i \in 1 .. Len(pr) :
          m.sect \in {2, 3} /\ m.sect = SectionOf(pr[i].op) /\ m.p = at[i - 1] + 1
    BY <1>13 DEF Prefixed
  <2>2. PICK op \in Mnemonics, arg \in 0 .. 15 : op = pr[i].op /\ arg = pr[i].arg
    <3>1. pr[i] \in Instruction
      BY CodeFits
    <3>2. QED BY <3>1 DEF Instruction
  <2>3. PICK section \in {0, 2, 3}, c \in 0 .. 15 : Coded(op, section, c)
    BY MnemonicCoded
  <2>4. m.sect = section /\ section # 0
    BY <2>1, <2>2, <2>3 DEF Coded
  <2>5. PICK v : v = 16 * c + arg
    OBVIOUS
  <2>6. /\ at[i - 1] \in Nat /\ at[i] \in Nat /\ at[i] < 65536 /\ at[i] <= Len(code)
        /\ expect_arg(op) \in 0 .. 3
        /\ at[i] = at[i - 1] + (IF section = 0 THEN 1 ELSE 2) + expect_arg(op)
        /\ section # 0 => code[at[i - 1] + 2] = v
        /\ Last(gen_instruction(op, arg)) = v
    <3>1. Lies(pr, i, section, c)
      BY <2>2, <2>3, InstructionLies
    <3>2. QED BY <2>2, <2>5, <3>1 DEF Lies
  <2>7. PICK j \in Nat : j = at[i - 1] + 1 /\ j < Len(code) /\ j + 1 = at[i - 1] + 2
    <3>1. at[i - 1] + 2 + expect_arg(op) <= Len(code)
      BY <2>4, <2>6
    <3>2. QED BY <1>5, <2>6, <3>1, OpcodeInside
  <2>8. Opcode = v
    <3>1. Opcode = code[j + 1]
      BY <1>4, <2>1, <2>7, CodeFetched
    <3>2. QED BY <2>4, <2>6, <2>7, <3>1
  <2>9. AboutTo(op, arg)
    BY <1>3, <2>1, <2>2, <2>6, <2>8 DEF AboutTo
  <2>10. m.p + 1 + expect_arg(op) = at[i]
    BY <2>1, <2>4, <2>6
  <2>11. NextInstruction(op) = at[i]
    <3>1. at[i] % 65536 = at[i]
      BY <2>6, SmallRemainder
    <3>2. QED BY <2>10, <3>1 DEF NextInstruction
  <2>12. Quiet \/ AtInstruction
    BY <1>11, <2>2, <2>9, <2>11
  <2>13. QED BY <1>8, <1>9, <1>10, <2>12
<1>14. QED BY <1>4, <1>12, <1>13

\* InSync is what RunsInSync says of p and the section.
LEMMA SyncIsInSync == TypeOK /\ ProgramsInSync => InSync
<1> SUFFICES ASSUME TypeOK, ProgramsInSync, starts # {}, m.status = "running"
             PROVE  IF m.sect = 0 THEN m.p \in starts
                    ELSE m.sect \in {2, 3} /\ m.p - 1 \in starts
  BY DEF InSync
<1>1. PICK pr \in Program : starts = Starts(pr) /\ (Between(pr) \/ Prefixed(pr))
  BY DEF ProgramsInSync, RunsInSync
<1>2. CASE Between(pr)
  BY <1>1, <1>2 DEF Between
<1>3. CASE Prefixed(pr)
  <2>1. PICK i \in 1 .. Len(pr) : m.sect \in {2, 3} /\ m.p = Positions(pr)[i - 1] + 1
    BY <1>3 DEF Prefixed
  <2>2. i - 1 \in 0 .. Len(pr) /\ Positions(pr)[i - 1] \in Nat
    <3>1. Len(pr) \in Nat /\ LaidOut(pr)
      BY CodeFits
    <3>2. i - 1 \in 0 .. Len(pr)
      BY <3>1
    <3>3. QED BY <3>1, <3>2 DEF LaidOut
  <2>3. m.p - 1 = Positions(pr)[i - 1]
    BY <2>1, <2>2
  <2>4. m.p - 1 \in starts
    BY <1>1, <2>2, <2>3 DEF Starts
  <2>5. QED BY <2>1, <2>4
<1>4. QED BY <1>1, <1>2, <1>3

LEMMA SyncKept ==
  TypeOK /\ ProgramsInSync /\ [MachineNext]_vars /\ [Conventional]_vars => ProgramsInSync'
<1> SUFFICES ASSUME TypeOK, ProgramsInSync, [MachineNext]_vars, [Conventional]_vars,
                    starts' # {}
             PROVE  \E pr \in Program : RunsInSync(pr)'
  BY DEF ProgramsInSync
<1>1. starts' = starts
  BY DEF MachineNext, ProgramNext, ProgramCall, ProgramRet, vars
<1>2. PICK pr \in Program : RunsInSync(pr)
  BY <1>1 DEF ProgramsInSync
<1>3. CASE UNCHANGED vars
  BY <1>2, <1>3 DEF vars, RunsInSync, Between, Prefixed
<1>4. CASE MachineNext /\ Conventional
  <2>1. Next \/ UNCHANGED m
    BY <1>4, MachineSteps
  <2>2. CASE Next
    BY <1>1, <1>2, <1>4, <2>2, SyncStep
  <2>3. CASE UNCHANGED m
    BY <1>1, <1>2, <2>3 DEF RunsInSync, Between, Prefixed
  <2>4. QED BY <2>1, <2>2, <2>3
<1>5. QED BY <1>3, <1>4

\* A program that keeps the conventions is never decoded from the middle of an
\* instruction, however its instructions follow each other.
THEOREM ProgramsStayInSync == MachineSpec /\ [][Conventional]_vars => []InSync
<1>1. MachineSpec /\ [][Conventional]_vars => []ProgramsInSync
  BY SyncKept, SyncStart, ProgramsRunOnMachine, PTL DEF MachineSpec
<1>2. QED BY <1>1, SyncIsInSync, ProgramsRunOnMachine, PTL
-------------------------------------------------------------------------------
\* What the text of a program must see to for its calls to come back: a ret finds the stack
\* as its call left it, no store hits a return address, and the stack is in the RAM.
KeepsReturns ==
  starts # {} /\ m.status = "running" =>
    /\ \A k \in DOMAIN frames : \A adr \in {frames[k].sp, Dec16(frames[k].sp)} : m'.mem[adr] = m.mem[adr]
    /\ Ret => Last(frames).sp = (m.s + 2) % 65536
    /\ Call => Writable(m.s - 1)
    /\ Calls => Writable(m.s + 1)

\* The return address of a call in progress lies where the call has pushed it.
Frame == [ret : Word, sp : Word]
Saved(frame, mem) ==
  /\ frame.sp \in RamAddr /\ Dec16(frame.sp) \in RamAddr
  /\ Pair(mem[frame.sp], mem[Dec16(frame.sp)]) = frame.ret

ReturnsSaved == frames \in Seq(Frame) /\ \A k \in DOMAIN frames : Saved(frames[k], m.mem)

\* Reading memory, a device or the instruction stream.
Reads(g, h) == h.s = g.s /\ h.mem = g.mem

LEMMA MemoryReads ==
  ASSUME NEW g \in Machine
  PROVE  /\ \A adr : Reads(g, Load(g, adr))
         /\ \A n : Reads(g, Peek(g, n))
<1>1. Reads(g, g)
  BY DEF Reads
<1>2. Reads(g, UartRead(g))
  BY DEF UartRead, Reads, Machine
<1>3. ASSUME NEW h \in Machine, NEW v PROVE Reads(h, [h EXCEPT !.bus = v])
  BY DEF Reads, Machine
<1>4. ASSUME NEW adr PROVE Reads(g, Load(g, adr))
  BY <1>2, <1>3 DEF Load
<1>5. ASSUME NEW n PROVE Reads(g, Peek(g, n))
  <2>1. PICK l \in Machine : l = Load(g, UartAddr)
    BY LoadTyped, CpuAssumption
  <2>2. Reads(g, l) /\ Reads(l, [l EXCEPT !.bus = g.bus])
    BY <1>3, <1>4, <2>1
  <2>3. Reads(g, [l EXCEPT !.bus = g.bus])
    BY <2>2 DEF Reads
  <2>4. QED BY <1>1, <2>1, <2>3 DEF Peek
<1>6. QED BY <1>4, <1>5

LEMMA StreamReads ==
  ASSUME NEW g \in Machine
  PROVE  Reads(g, Imm(g)) /\ Reads(g, ImmP(g))
<1>1. ASSUME NEW h \in Machine, NEW v PROVE Reads(h, [h EXCEPT !.p = v])
  BY DEF Reads, Machine
<1>2. ASSUME NEW h \in Machine PROVE Reads(h, Imm(h))
  <2>1. PICK l \in Machine : l = Load(h, h.p)
    BY LoadTyped, Registers_Typed
  <2>2. Reads(h, l) /\ Reads(l, [l EXCEPT !.p = Inc16(l.p)])
    BY <1>1, <2>1, MemoryReads
  <2>3. Imm(h) = [l EXCEPT !.p = Inc16(l.p)]
    BY <2>1 DEF Imm
  <2>4. QED BY <2>2, <2>3 DEF Reads
<1>3. PICK low \in Machine : low = Imm(g)
  BY ImmTyped
<1>4. PICK high \in Machine : high = Imm(low)
  BY ImmTyped
<1>5. Reads(g, low) /\ Reads(low, high) /\ Reads(high, [high EXCEPT !.p = Pair(high.bus, low.bus)])
  BY <1>1, <1>2, <1>3, <1>4
<1>6. ImmP(g) = [high EXCEPT !.p = Pair(high.bus, low.bus)]
  BY <1>3, <1>4 DEF ImmP
<1>7. QED BY <1>3, <1>5, <1>6 DEF Reads

\* fetch() leaves stack and memory alone.
LEMMA FetchedReads ==
  ASSUME TypeOK
  PROVE  /\ Fetched \in Machine /\ Reads(m, Fetched) /\ Fetched.p = Inc16(m.p)
<1>1. PICK n \in Machine : n = Imm(m) /\ Reads(m, n)
  BY ImmTyped, StreamReads DEF TypeOK
<1>2. PICK g \in Machine : g = [n EXCEPT !.ir = n.bus]
  BY Registers_Typed, Assignments
<1>3. Reads(n, g)
  BY <1>2 DEF Reads, Machine
<1>4. Reads(g, PrintState(g))
  BY MemoryReads DEF PrintState
<1>5. Fetched = IF g.debug THEN PrintState(g) ELSE g
  BY <1>1, <1>2 DEF Fetched
<1>6. Fetched.p = Inc16(m.p)
  BY FetchedTakes DEF Takes, Inc16
<1>7. QED BY <1>1, <1>3, <1>4, <1>5, <1>6, FetchedTyped DEF Reads

\* A word pushed is saved.
LEMMA PushSaves ==
  ASSUME NEW g \in Machine, NEW w \in Word, g.s \in RamAddr, Dec16(g.s) \in RamAddr
  PROVE  PushWord(g, w) \in Machine /\ Saved([ret |-> w, sp |-> g.s], PushWord(g, w).mem)
<1>1. PICK h \in Machine : h = PushWord(g, w) /\ PushedWord(g, h, Hi(w), Lo(w))
  BY PushWordFields
<1>2. Pair(h.mem[g.s], h.mem[Dec16(g.s)]) = w
  BY <1>1, PairHalves DEF PushedWord
<1>3. QED BY <1>1, <1>2 DEF Saved

\* The two words above and below an address.
LEMMA TwoUp ==
  ASSUME NEW w \in Word
  PROVE  /\ Inc16(Inc16(w)) = (w + 2) % 65536 /\ Dec16(Inc16(Inc16(w))) = Inc16(w)
         /\ Writable(w + 1) <=> Inc16(w) \in RamAddr /\ Inc16(Inc16(w)) \in RamAddr
         /\ Writable(w - 1) <=> w \in RamAddr /\ Dec16(w) \in RamAddr
<1>1. PICK n \in Int : n = w /\ 0 <= n /\ n < 65536
  BY WordBounds
<1>2. (((n + 1) % 65536) + 1) % 65536 = (n + 2) % 65536
  BY <1>1, SMT
<1>3. Inc16(w) \in Word
  BY Inc16Typed
<1>4. Dec16(Inc16(Inc16(w))) = Inc16(w)
  BY <1>3, StepAndBack
<1>5. (w + 1) % 65536 = Inc16(w) /\ (n + 1) + 1 = n + 2
  BY <1>1 DEF Inc16
<1>6. ((w + 1) + 1) % 65536 = Inc16(Inc16(w))
  BY <1>1, <1>2, <1>5 DEF Inc16
<1>7. Writable(w + 1) <=> Inc16(w) \in RamAddr /\ Inc16(Inc16(w)) \in RamAddr
  BY <1>5, <1>6 DEF Writable
<1>8. (w - 1) % 65536 = Dec16(w) /\ ((w - 1) + 1) % 65536 = w
  BY StepAndBack
<1>9. Writable(w - 1) <=> w \in RamAddr /\ Dec16(w) \in RamAddr
  BY <1>8 DEF Writable
<1>10. Inc16(Inc16(w)) = (w + 2) % 65536
  BY <1>1, <1>2 DEF Inc16
<1>11. QED BY <1>4, <1>7, <1>9, <1>10

LEMMA RetireMemory ==
  ASSUME NEW g \in Machine, Retire(g)
  PROVE  m'.mem = g.mem /\ m'.s = g.s /\ m'.p = g.p
BY DEF Retire, Machine

\* call saves the address behind its operand.
LEMMA CallSaves ==
  ASSUME TypeOK, Call, Writable(m.s - 1)
  PROVE  /\ Inc16(Inc16(Inc16(m.p))) \in Word
         /\ Saved([ret |-> Inc16(Inc16(Inc16(m.p))), sp |-> m.s], m'.mem)
<1>1. m.s \in Word /\ m.p \in Word
  BY Registers_Typed DEF TypeOK
<1>2. m.s \in RamAddr /\ Dec16(m.s) \in RamAddr
  BY <1>1, TwoUp
<1>3. PICK g \in Machine : g = Fetched /\ Reads(m, g) /\ g.p = Inc16(m.p)
  BY FetchedReads
<1>4. PICK w \in Word : w = Inc16(Inc16(g.p))
  BY <1>1, <1>3, Inc16Typed
<1>5. PICK n \in Machine : n = ImmP(g) /\ Reads(g, n)
  BY TargetTyped, StreamReads
<1>6. PICK h \in Machine : h = PushWord(n, w) /\ Saved([ret |-> w, sp |-> n.s], h.mem)
  <2>1. n.s = m.s
    BY <1>3, <1>5 DEF Reads
  <2>2. QED BY <1>2, <2>1, PushSaves
<1>7. Retire(h)
  BY <1>3, <1>4, <1>5, <1>6 DEF Call, OpCall
<1>8. m'.mem = h.mem
  BY <1>7, RetireMemory
<1>9. n.s = m.s
  BY <1>3, <1>5 DEF Reads
<1>10. QED BY <1>3, <1>4, <1>6, <1>8, <1>9

\* Popping p reads the stack.
LEMMA PopReads ==
  ASSUME NEW g \in Machine, Inc16(g.s) \in RamAddr, Inc16(Inc16(g.s)) \in RamAddr
  PROVE  /\ PopP(g) \in Machine /\ PopP(g).mem = g.mem /\ PopP(g).s = Inc16(Inc16(g.s))
         /\ PopP(g).p = Pair(g.mem[Inc16(Inc16(g.s))], g.mem[Inc16(g.s)])
<1>1. PICK low \in Machine : low = PopByte(g) /\ low.s = Inc16(g.s) /\ low.mem = g.mem
  BY PopByteFields
<1>2. PICK high \in Machine : high = PopByte(low) /\ high.mem = g.mem
  BY <1>1, PopByteFields
<1>3. [high EXCEPT !.p = Pair(high.bus, low.bus)].mem = g.mem
  BY <1>2 DEF Machine
<1>4. PopP(g).mem = g.mem
  BY <1>1, <1>2, <1>3 DEF PopP
<1>5. QED BY <1>4, PopPFields

\* calls saves the address behind itself, where its target was.
LEMMA CallsSaves ==
  ASSUME TypeOK, Calls, Writable(m.s + 1)
  PROVE  Inc16(m.p) \in Word /\ Saved([ret |-> Inc16(m.p), sp |-> (m.s + 2) % 65536], m'.mem)
<1>1. m.s \in Word /\ m.p \in Word
  BY Registers_Typed DEF TypeOK
<1>2. /\ Inc16(m.s) \in RamAddr /\ Inc16(Inc16(m.s)) \in RamAddr
      /\ Inc16(Inc16(m.s)) = (m.s + 2) % 65536 /\ Dec16(Inc16(Inc16(m.s))) = Inc16(m.s)
  BY <1>1, TwoUp
<1>3. PICK g \in Machine : g = Fetched /\ g.s = m.s /\ g.p = Inc16(m.p)
  BY FetchedReads DEF Reads
<1>4. PICK w \in Word : w = g.p /\ w = Inc16(m.p)
  BY <1>1, <1>3, Inc16Typed
<1>5. PICK n \in Machine : n = PopP(g) /\ n.s = Inc16(Inc16(m.s))
  BY <1>2, <1>3, PopReads
<1>6. PICK h \in Machine : h = PushWord(n, w) /\ Saved([ret |-> w, sp |-> n.s], h.mem)
  BY <1>2, <1>5, PushSaves
<1>7. PICK k \in Machine : k = EndSection(h) /\ k.mem = h.mem
  BY SectionFields
<1>8. Retire(k)
  BY <1>3, <1>4, <1>5, <1>6, <1>7 DEF Calls, OpCalls
<1>9. m'.mem = h.mem
  BY <1>7, <1>8, RetireMemory
<1>10. QED BY <1>2, <1>4, <1>5, <1>6, <1>9

\* ret goes where the word saved says.
LEMMA RetGoes ==
  ASSUME TypeOK, Ret, NEW frame \in Frame, Saved(frame, m.mem), frame.sp = (m.s + 2) % 65536
  PROVE  m'.p = frame.ret /\ m'.s = frame.sp
<1>1. m.s \in Word
  BY Registers_Typed DEF TypeOK
<1>2. frame.sp = Inc16(Inc16(m.s)) /\ Dec16(frame.sp) = Inc16(m.s)
  BY <1>1, TwoUp
<1>3. PICK g \in Machine : g = Fetched /\ g.s = m.s /\ g.mem = m.mem
  BY FetchedReads DEF Reads
<1>4. PICK h \in Machine : /\ h = PopP(g) /\ h.s = frame.sp
                           /\ h.p = Pair(m.mem[frame.sp], m.mem[Dec16(frame.sp)])
  BY <1>2, <1>3, PopReads DEF Saved
<1>5. Retire(h)
  BY <1>3, <1>4 DEF Ret, OpRet
<1>6. QED BY <1>4, <1>5, RetireMemory DEF Saved

\* Positions grow along a program.
LEMMA PositionsRise ==
  ASSUME NEW pr \in Program
  PROVE  \A i, j \in 0 .. Len(pr) : i <= j => Positions(pr)[i] <= Positions(pr)[j]
<1> DEFINE at == Positions(pr)
           n == Len(pr)
<1>1. /\ n \in Nat /\ \A i \in 0 .. n : at[i] \in Nat
      /\ \A i \in 1 .. n : at[i - 1] <= at[i]
  <2>1. n \in Nat /\ \A i \in 0 .. n : at[i] \in Nat
    BY CodeFits DEF LaidOut
  <2>2. ASSUME NEW i \in 1 .. n PROVE at[i - 1] <= at[i]
    <3>1. pr[i] \in Instruction
      BY CodeFits
    <3>2. Len(Assembled(pr[i])) \in Nat
      BY <3>1, InstructionBytes
    <3>3. at[i] = at[i - 1] + Len(Assembled(pr[i]))
      BY CodeFits DEF LaidOut
    <3>4. at[i - 1] \in Nat
      BY <2>1
    <3>5. QED BY <3>2, <3>3, <3>4
  <2>3. QED BY <2>1, <2>2
<1> HIDE DEF at, n
<1>2. ASSUME NEW i \in 0 .. n PROVE \A j \in i .. n : at[i] <= at[j]
  <2> DEFINE T == {j \in i .. n : ~ (at[i] <= at[j])}
  <2>1. SUFFICES ASSUME T # {} PROVE FALSE
    OBVIOUS
  <2>2. T \subseteq Nat
    BY <1>1
  <2>3. PICK j \in T : \A k \in T : j <= k
    <3> HIDE DEF T
    <3>1. QED BY <2>1, <2>2, LeastNatural
  <2>4. j # i
    BY <1>1
  <2>5. j - 1 \in i .. n /\ j - 1 \notin T /\ j \in 1 .. n
    BY <1>1, <2>3, <2>4
  <2>6. at[i] <= at[j - 1] /\ at[j - 1] <= at[j]
    BY <1>1, <2>5
  <2>7. at[i] \in Nat /\ at[j] \in Nat /\ at[j - 1] \in Nat
    BY <1>1, <2>5
  <2>8. QED BY <2>6, <2>7
<1>3. \A i, j \in 0 .. n : i <= j => at[i] <= at[j]
  BY <1>1, <1>2
<1>4. QED BY <1>3 DEF at, n

\* The start after an address inside an instruction is the end of that instruction.
LEMMA NextStartIs ==
  ASSUME NEW pr \in Program, starts = Starts(pr), m.p \in Int, NEW i \in 1 .. Len(pr),
         Positions(pr)[i - 1] <= m.p, m.p < Positions(pr)[i]
  PROVE  NextStart = Positions(pr)[i]
<1> DEFINE at == Positions(pr)
<1>1. Len(pr) \in Nat /\ \A j \in 0 .. Len(pr) : at[j] \in Nat
  BY CodeFits DEF LaidOut
<1>2. i \in 0 .. Len(pr) /\ i - 1 \in 0 .. Len(pr)
  BY <1>1
<1>3. \A j, k \in 0 .. Len(pr) : j <= k => at[j] <= at[k]
  BY PositionsRise
<1>4. \A u \in starts : \E j \in 0 .. Len(pr) : u = at[j]
  BY DEF Starts
<1>5. at[i] \in starts
  BY <1>2 DEF Starts
<1> HIDE DEF at
<1>6. ASSUME NEW u \in starts, u > m.p PROVE at[i] <= u
  <2>1. PICK j \in 0 .. Len(pr) : u = at[j]
    BY <1>4
  <2>2. ~ (j <= i - 1)
    <3>1. j <= i - 1 => at[j] <= at[i - 1]
      BY <1>2, <1>3
    <3>2. at[j] \in Nat /\ at[i - 1] \in Nat /\ at[i - 1] <= m.p
      BY <1>1, <1>2 DEF at
    <3>3. QED BY <1>6, <2>1, <3>1, <3>2
  <2>3. i <= j
    BY <1>1, <2>2
  <2>4. QED BY <1>2, <1>3, <2>1, <2>3
<1>7. \A u \in starts : u \in Nat
  BY <1>1, <1>4
<1>8. at[i] > m.p /\ \A u \in starts : u > m.p => at[i] <= u
  BY <1>1, <1>2, <1>6 DEF at
<1>9. ASSUME NEW t \in starts, t > m.p, \A u \in starts : u > m.p => t <= u PROVE t = at[i]
  <2>1. t <= at[i] /\ at[i] <= t /\ t \in Nat /\ at[i] \in Nat
    BY <1>5, <1>7, <1>8, <1>9
  <2>2. QED BY <2>1
<1>10. NextStart = at[i]
  BY <1>5, <1>8, <1>9 DEF NextStart
<1>11. QED BY <1>10 DEF at

\* A call of a program in sync is followed, in its text, by what lies behind its operand.
LEMMA CallFollowed ==
  ASSUME TypeOK, NEW pr \in Program, RunsInSync(pr), m.status = "running",
         \E t \in starts : t > m.p,
         NEW s, NEW c, (s = 0 /\ c = 14) \/ (s = 3 /\ c = 6), Executes(s, c)
  PROVE  NextStart = m.p + 1 + Operands(s, c) /\ NextStart < 65536
<1> DEFINE at == Positions(pr)
           code == Code(pr)
<1>1. /\ starts = Starts(pr)
      /\ \A adr \in RomAddr : m.mem[adr] = Loaded(Code(pr))[adr]
      /\ Between(pr) \/ Prefixed(pr)
  BY DEF RunsInSync
<1>2. LaidOut(pr) /\ Len(pr) \in Nat /\ Len(code) \in Nat /\ Len(code) < 65536
  BY CodeFits
<1>3. m.sect % 4 = s /\ Opcode \div 16 = c
  BY DEF Executes
<1>4. ASSUME NEW i \in 1 .. Len(pr), at[i - 1] \in Nat, at[i] \in Nat, at[i] < 65536,
             at[i - 1] <= m.p, at[i] = m.p + 1 + Operands(s, c)
      PROVE  NextStart = m.p + 1 + Operands(s, c) /\ NextStart < 65536
  <2>1. m.p \in Int
    BY Registers_Typed, WordBounds DEF TypeOK
  <2>2. Operands(s, c) \in Nat
    BY DEF Operands
  <2>3. at[i - 1] <= m.p /\ m.p < at[i]
    BY <1>4, <2>1, <2>2
  <2>4. NextStart = at[i]
    BY <1>1, <2>1, <2>3, NextStartIs
  <2>5. QED BY <1>4, <2>4
<1>5. CASE Between(pr)
  <2>1. PICK j \in 0 .. Len(pr) : m.p = at[j] /\ m.sect = 0
    BY <1>5 DEF Between, Starts
  <2>2. s = 0 /\ c = 14
    <3>1. 0 % 4 = 0
      OBVIOUS
    <3>2. QED BY <1>3, <2>1, <3>1
  <2>3. PICK q \in 0 .. Len(pr) : at[q] > m.p
    BY <1>1 DEF Starts
  <2>4. at[j] \in Nat /\ at[q] \in Nat /\ at[q] <= Len(code) /\ Len(code) = at[Len(pr)]
    BY <1>2 DEF LaidOut
  <2>5. j # Len(pr) /\ at[j] < Len(code)
    BY <2>1, <2>3, <2>4
  <2>6. PICK i \in 1 .. Len(pr) : i - 1 = j
    <3>1. j + 1 \in 1 .. Len(pr) /\ (j + 1) - 1 = j
      BY <1>2, <2>5
    <3>2. QED BY <3>1
  <2>7. Opcode = code[at[i - 1] + 1]
    BY <1>1, <2>1, <2>4, <2>5, <2>6, CodeFetched
  <2>8. PICK op \in Mnemonics, arg \in 0 .. 15 : op = pr[i].op /\ arg = pr[i].arg
    <3>1. pr[i] \in Instruction
      BY CodeFits
    <3>2. QED BY <3>1 DEF Instruction
  <2>9. PICK section \in {0, 2, 3}, k \in 0 .. 15 : Coded(op, section, k)
    BY MnemonicCoded
  <2>10. PICK v : v = 16 * k + arg
    OBVIOUS
  <2>11. /\ at[i - 1] \in Nat /\ at[i] \in Nat /\ at[i] < 65536
         /\ at[i] = at[i - 1] + (IF section = 0 THEN 1 ELSE 2) + expect_arg(op)
         /\ code[at[i - 1] + 1] = (IF section = 0 THEN v ELSE 240 + section)
    <3>1. Lies(pr, i, section, k)
      BY <2>8, <2>9, InstructionLies
    <3>2. QED BY <2>8, <2>10, <3>1 DEF Lies
  <2>12. section = 0
    <3>1. \A t \in {2, 3} : (240 + t) \div 16 = 15
      BY SMT
    <3>2. QED BY <1>3, <2>2, <2>7, <2>11, <3>1
  <2>13. k = 14
    <3>1. v \div 16 = k
      BY <2>9, <2>10, CodedOpcode
    <3>2. QED BY <1>3, <2>2, <2>7, <2>11, <2>12, <3>1
  <2>14. expect_arg(op) = Operands(s, c)
    BY <2>2, <2>9, <2>12, <2>13 DEF Coded, Named
  <2>15. at[i] = m.p + 1 + Operands(s, c) /\ at[i - 1] <= m.p
    BY <2>1, <2>6, <2>11, <2>12, <2>14
  <2>16. QED BY <1>4, <2>11, <2>15
<1>6. CASE Prefixed(pr)
  <2>1. PICK i \in 1 .. Len(pr) :
          m.sect \in {2, 3} /\ m.sect = SectionOf(pr[i].op) /\ m.p = at[i - 1] + 1
    BY <1>6 DEF Prefixed
  <2>2. s = 3 /\ c = 6 /\ m.sect = 3
    <3>1. 2 % 4 = 2 /\ 3 % 4 = 3
      OBVIOUS
    <3>2. QED BY <1>3, <2>1, <3>1
  <2>3. PICK op \in Mnemonics, arg \in 0 .. 15 : op = pr[i].op /\ arg = pr[i].arg
    <3>1. pr[i] \in Instruction
      BY CodeFits
    <3>2. QED BY <3>1 DEF Instruction
  <2>4. PICK section \in {0, 2, 3}, k \in 0 .. 15 : Coded(op, section, k)
    BY MnemonicCoded
  <2>5. section = 3
    BY <2>1, <2>2, <2>3, <2>4 DEF Coded
  <2>6. PICK v : v = 16 * k + arg
    OBVIOUS
  <2>7. /\ at[i - 1] \in Nat /\ at[i] \in Nat /\ at[i] < 65536 /\ at[i] <= Len(code)
        /\ expect_arg(op) \in 0 .. 3
        /\ at[i] = at[i - 1] + (IF section = 0 THEN 1 ELSE 2) + expect_arg(op)
        /\ section # 0 => code[at[i - 1] + 2] = v
    <3>1. Lies(pr, i, section, k)
      BY <2>3, <2>4, InstructionLies
    <3>2. QED BY <2>3, <2>6, <3>1 DEF Lies
  <2>8. PICK j \in Nat : j = at[i - 1] + 1 /\ j < Len(code) /\ j + 1 = at[i - 1] + 2
    <3>1. at[i - 1] + 2 + expect_arg(op) <= Len(code)
      BY <2>5, <2>7
    <3>2. QED BY <1>2, <2>7, <3>1, OpcodeInside
  <2>9. Opcode = v
    <3>1. Opcode = code[j + 1]
      BY <1>1, <2>1, <2>8, CodeFetched
    <3>2. QED BY <2>5, <2>7, <2>8, <3>1
  <2>10. k = 6
    <3>1. v \div 16 = k
      BY <2>4, <2>6, CodedOpcode
    <3>2. QED BY <1>3, <2>2, <2>9, <3>1
  <2>11. expect_arg(op) = Operands(s, c)
    BY <2>2, <2>4, <2>5, <2>10 DEF Coded, Named
  <2>12. at[i] = m.p + 1 + Operands(s, c) /\ at[i - 1] <= m.p
    BY <2>1, <2>5, <2>7, <2>11
  <2>13. QED BY <1>4, <2>7, <2>12
<1>7. QED BY <1>1, <1>5, <1>6

\* Stepping p along the operand of a call.
LEMMA SteppedOn ==
  ASSUME NEW p \in Word
  PROVE  /\ p + 1 < 65536 => Inc16(p) = p + 1
         /\ p + 1 + 2 < 65536 => Inc16(Inc16(Inc16(p))) = p + 1 + 2
<1>1. PICK n \in Nat : n = p
  BY WordBounds
<1>2. n + 1 < 65536 => (n + 1) % 65536 = n + 1
  BY SMT
<1>3. n + 3 < 65536 => (n + 1) % 65536 = n + 1 /\ ((n + 1) + 1) % 65536 = n + 2
                       /\ ((n + 2) + 1) % 65536 = n + 3
  BY SMT
<1>4. n + 1 + 2 = n + 3
  OBVIOUS
<1>5. QED BY <1>1, <1>2, <1>3, <1>4 DEF Inc16
-------------------------------------------------------------------------------
\* A call puts what it saves on top of what is saved.
LEMMA CallAdds ==
  ASSUME ReturnsSaved, NEW frame \in Frame, Saved(frame, m'.mem),
         \A k \in DOMAIN frames : Saved(frames[k], m'.mem),
         frames' = Append(frames, frame)
  PROVE  ReturnsSaved'
<1>1. frames \in Seq(Frame) /\ Len(frames) \in Nat /\ DOMAIN frames = 1 .. Len(frames)
  BY DEF ReturnsSaved
<1>2. /\ frames' \in Seq(Frame) /\ DOMAIN frames' = 1 .. Len(frames) + 1
      /\ \A k \in 1 .. Len(frames) + 1 :
           frames'[k] = IF k <= Len(frames) THEN frames[k] ELSE frame
  BY <1>1
<1>3. ASSUME NEW k \in DOMAIN frames' PROVE Saved(frames'[k], m'.mem)
  <2>1. k \in DOMAIN frames \/ ~ (k <= Len(frames))
    BY <1>1, <1>2
  <2>2. QED BY <1>1, <1>2, <2>1
<1>4. QED BY <1>2, <1>3 DEF ReturnsSaved, Saved

\* A ret drops the last.
LEMMA RetDrops ==
  ASSUME ReturnsSaved, frames # <<>>, \A k \in DOMAIN frames : Saved(frames[k], m'.mem),
         frames' = Front(frames)
  PROVE  ReturnsSaved' /\ Last(frames) \in Frame /\ Saved(Last(frames), m.mem)
<1>1. PICK n \in Nat : frames \in Seq(Frame) /\ n = Len(frames) /\ DOMAIN frames = 1 .. n /\ n # 0
  BY DEF ReturnsSaved
<1>2. Front(frames) = [k \in 1 .. n - 1 |-> frames[k]]
  BY <1>1 DEF Front
<1>3. /\ frames' \in Seq(Frame) /\ DOMAIN frames' = 1 .. n - 1
      /\ \A k \in 1 .. n - 1 : frames'[k] = frames[k] /\ k \in DOMAIN frames
  BY <1>1, <1>2
<1>4. ReturnsSaved'
  BY <1>3 DEF ReturnsSaved, Saved
<1>5. Last(frames) = frames[n] /\ n \in DOMAIN frames
  BY <1>1 DEF Last
<1>6. QED BY <1>1, <1>4, <1>5 DEF ReturnsSaved

LEMMA ReturnStep ==
  ASSUME TypeOK, ProgramsInSync, ReturnsSaved, starts = {} => frames = <<>>,
         MachineNext, Conventional, KeepsReturns
  PROVE  /\ ReturnsSaved'
         /\ Len(frames') < Len(frames) => m'.p = Last(frames).ret /\ m'.s = Last(frames).sp
<1>1. CASE starts # {} /\ m.status = "running" /\ ProgramNext
  <2>1. PICK pr \in Program : RunsInSync(pr)
    BY <1>1 DEF ProgramsInSync
  <2>2. ASSUME NEW k \in DOMAIN frames PROVE Saved(frames[k], m'.mem)
    <3>1. Saved(frames[k], m.mem)
      BY DEF ReturnsSaved
    <3>2. /\ m'.mem[frames[k].sp] = m.mem[frames[k].sp]
          /\ m'.mem[Dec16(frames[k].sp)] = m.mem[Dec16(frames[k].sp)]
      BY <1>1 DEF KeepsReturns
    <3>3. QED BY <3>1, <3>2 DEF Saved
  <2>3. \E t \in starts : t > m.p
    BY <1>1 DEF Conventional
  <2>4. m.p \in Word /\ m.s \in Word
    BY Registers_Typed DEF TypeOK
  <2>5. CASE Call /\ frames' = Append(frames, [ret |-> NextStart, sp |-> m.s])
    <3>1. Executes(0, 14)
      BY <2>5 DEF Call
    <3>2. NextStart = m.p + 1 + 2 /\ NextStart < 65536
      <4>1. Operands(0, 14) = 2
        BY DEF Operands
      <4>2. PICK s, c : s = 0 /\ c = 14
        OBVIOUS
      <4>3. NextStart = m.p + 1 + Operands(s, c) /\ NextStart < 65536
        BY <1>1, <2>1, <2>3, <3>1, <4>2, CallFollowed
      <4>4. QED BY <4>1, <4>2, <4>3
    <3>3. NextStart = Inc16(Inc16(Inc16(m.p)))
      BY <2>4, <3>2, SteppedOn
    <3>4. Writable(m.s - 1)
      BY <1>1, <2>5 DEF KeepsReturns
    <3>5. PICK frame : frame = [ret |-> NextStart, sp |-> m.s]
      OBVIOUS
    <3>6. frame \in Frame /\ Saved(frame, m'.mem)
      BY <2>4, <2>5, <3>3, <3>4, <3>5, CallSaves DEF Frame
    <3>7. ReturnsSaved'
      BY <2>2, <2>5, <3>5, <3>6, CallAdds
    <3>8. ~ (Len(frames') < Len(frames))
      <4>1. frames \in Seq(Frame)
        BY DEF ReturnsSaved
      <4>2. Len(frames') = Len(frames) + 1 /\ Len(frames) \in Nat
        BY <2>5, <3>5, <3>6, <4>1
      <4>3. QED BY <4>2
    <3>9. QED BY <3>7, <3>8
  <2>6. CASE Calls /\ frames' = Append(frames, [ret |-> NextStart, sp |-> (m.s + 2) % 65536])
    <3>1. Executes(3, 6)
      BY <2>6 DEF Calls
    <3>2. NextStart = m.p + 1 /\ NextStart < 65536
      <4>1. Operands(3, 6) = 0
        BY DEF Operands
      <4>2. PICK s, c : s = 3 /\ c = 6
        OBVIOUS
      <4>3. NextStart = m.p + 1 + Operands(s, c) /\ NextStart < 65536
        BY <1>1, <2>1, <2>3, <3>1, <4>2, CallFollowed
      <4>4. m.p + 1 + 0 = m.p + 1
        BY <2>4, WordBounds
      <4>5. QED BY <4>1, <4>2, <4>3, <4>4
    <3>3. NextStart = Inc16(m.p)
      BY <2>4, <3>2, SteppedOn
    <3>4. Writable(m.s + 1)
      BY <1>1, <2>6 DEF KeepsReturns
    <3>5. (m.s + 2) % 65536 \in Word
      BY <2>4, WordBounds, WordRange
    <3>6. PICK frame : frame = [ret |-> NextStart, sp |-> (m.s + 2) % 65536]
      <4>1. PICK sp \in Word : sp = (m.s + 2) % 65536
        BY <3>5
      <4>2. PICK ret : ret = NextStart
        OBVIOUS
      <4>3. \E frame : frame = [ret |-> ret, sp |-> sp]
        BY Zenon
      <4>4. QED BY <4>1, <4>2, <4>3
    <3>7. frame \in Frame /\ Saved(frame, m'.mem)
      BY <2>4, <2>6, <3>3, <3>4, <3>5, <3>6, CallsSaves DEF Frame
    <3>8. ReturnsSaved'
      BY <2>2, <2>6, <3>6, <3>7, CallAdds
    <3>9. ~ (Len(frames') < Len(frames))
      <4>1. frames \in Seq(Frame)
        BY DEF ReturnsSaved
      <4>2. Len(frames') = Len(frames) + 1 /\ Len(frames) \in Nat
        BY <2>6, <3>6, <3>7, <4>1
      <4>3. QED BY <4>2
    <3>10. QED BY <3>8, <3>9
  <2>7. CASE ProgramRet
    <3>1. Ret /\ frames # <<>> /\ frames' = Front(frames)
      BY <2>7 DEF ProgramRet
    <3>2. ReturnsSaved' /\ Last(frames) \in Frame /\ Saved(Last(frames), m.mem)
      BY <2>2, <3>1, RetDrops
    <3>3. Last(frames).sp = (m.s + 2) % 65536
      BY <1>1, <3>1 DEF KeepsReturns
    <3>4. m'.p = Last(frames).ret /\ m'.s = Last(frames).sp
      BY <3>1, <3>2, <3>3, RetGoes
    <3>5. QED BY <3>2, <3>4
  <2>8. CASE frames' = frames
    <3>1. ReturnsSaved'
      BY <2>2, <2>8 DEF ReturnsSaved, Saved
    <3>2. Len(frames) \in Nat
      BY DEF ReturnsSaved
    <3>3. QED BY <2>8, <3>1, <3>2
  <2>9. QED BY <1>1, <2>5, <2>6, <2>7, <2>8 DEF ProgramNext, ProgramCall
<1>2. CASE starts # {} /\ m.status # "running" /\ ProgramNext
  <2>1. \A i, j : ~ Executes(i, j)
    BY <1>2 DEF Executes
  <2>2. ~ Call /\ ~ Calls /\ ~ Ret
    BY <2>1 DEF Call, Calls, Ret
  <2>3. Done /\ frames' = frames
    BY <1>2, <2>1, <2>2 DEF ProgramNext, ProgramCall, ProgramRet, LocalStep, Nop, Seta, Puta, Lit,
       Litw, Push, Pop, Pushw, Popw, Alu, Cmp, Jmp, Jmps, Ext, Alus1, Alus2, Alus3, Cmps2, BadOp,
       Xpp, Xmm, Ypp, Ymm, Spp, Smm, AdjustSp, PutRelSp, GetRelSp, PutRelSpW, GetRelSpW, Setb,
       Putb, SimInfo, SimHalt, PrintsBadName, UartArrive
  <2>4. QED BY <2>3 DEF Done, ReturnsSaved
<1>3. CASE starts = {}
  <2>1. frames = <<>> /\ frames' = <<>>
    BY <1>3 DEF MachineNext
  <2>2. QED BY <2>1 DEF ReturnsSaved
<1>4. QED BY <1>1, <1>2, <1>3 DEF MachineNext

\* A program that keeps the conventions comes home from its calls, however they nest and
\* whatever is typed meanwhile: ret (sim.c) goes to the instruction that follows the call in
\* the text, with the stack pointer the caller had.
THEOREM CallsReturnHome ==
  MachineSpec /\ [][Conventional]_vars /\ [][KeepsReturns]_vars => ReturnsHome
<1> DEFINE Home == Len(frames') < Len(frames) =>
                     m'.p = Last(frames).ret /\ m'.s = Last(frames).sp
           NoImage == starts = {} => frames = <<>>
<1>1. MachineInit => ReturnsSaved /\ NoImage
  <2> SUFFICES ASSUME MachineInit PROVE ReturnsSaved /\ NoImage
    OBVIOUS
  <2>1. frames = <<>>
    BY DEF MachineInit, ProgramInit
  <2>2. QED BY <2>1 DEF ReturnsSaved
<1>2. /\ TypeOK /\ ProgramsInSync /\ ReturnsSaved /\ NoImage
      /\ [MachineNext]_vars /\ [Conventional]_vars /\ [KeepsReturns]_vars
      => ReturnsSaved' /\ NoImage' /\ [Home]_vars
  <2> SUFFICES ASSUME TypeOK, ProgramsInSync, ReturnsSaved, NoImage, [MachineNext]_vars,
                      [Conventional]_vars, [KeepsReturns]_vars
               PROVE  ReturnsSaved' /\ NoImage' /\ [Home]_vars
    OBVIOUS
  <2>1. CASE UNCHANGED vars
    BY <2>1 DEF vars, ReturnsSaved
  <2>2. CASE MachineNext /\ Conventional /\ KeepsReturns
    <3>1. ReturnsSaved' /\ Home
      BY <2>2, ReturnStep
    <3>2. NoImage'
      BY <2>2 DEF MachineNext, ProgramNext, ProgramCall, ProgramRet
    <3>3. QED BY <3>1, <3>2
  <2>3. QED BY <2>1, <2>2
<1> HIDE DEF NoImage, Home
<1>3. MachineSpec /\ [][Conventional]_vars => []ProgramsInSync
  BY SyncKept, SyncStart, ProgramsRunOnMachine, PTL DEF MachineSpec
<1>4. MachineSpec /\ [][Conventional]_vars /\ [][KeepsReturns]_vars => [][Home]_vars
  BY <1>1, <1>2, <1>3, ProgramsRunOnMachine, PTL DEF MachineSpec
<1>5. QED BY <1>4, PTL DEF ReturnsHome, Home
===============================================================================
