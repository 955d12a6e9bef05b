---------------------------- MODULE AluTableProofs ----------------------------
(***************************************************************************)
(* What the two chips compute, proved for all bytes, operations and        *)
(* carries, and that the simulated instruction computes it too.            *)
(***************************************************************************)
EXTENDS AluTable, CpuProofs

\* The fields of a chip's address come out as they went in.
LEMMA AddressFields ==
  ASSUME NEW a \in Nibble, NEW b \in Nibble, NEW cmd \in Nibble, NEW c \in 0 .. 1
  PROVE  LET adr == build_addr(a, b, cmd, c)
         IN  /\ adr % 16 = a /\ (adr \div 16) % 16 = b
             /\ (adr \div 256) % 16 = cmd /\ (adr \div 4096) % 2 = c
<1> DEFINE adr == a + 16 * b + 256 * cmd + 4096 * c
<1>1. adr % 16 = a
  BY SMT DEF Nibble
<1>2. (adr \div 16) % 16 = b
  <2>1. adr \div 16 = b + 16 * cmd + 256 * c
    BY SMT DEF Nibble
  <2>2. (b + 16 * cmd + 256 * c) % 16 = b
    BY SMT DEF Nibble
  <2>3. QED BY <2>1, <2>2
<1>3. (adr \div 256) % 16 = cmd
  <2>1. adr \div 256 = cmd + 16 * c
    BY SMT DEF Nibble
  <2>2. (cmd + 16 * c) % 16 = cmd
    BY SMT DEF Nibble
  <2>3. QED BY <2>1, <2>2
<1>4. (adr \div 4096) % 2 = c
  <2>1. adr \div 4096 = c
    BY SMT DEF Nibble
  <2>2. c % 2 = c
    BY SMT
  <2>3. QED BY <2>1, <2>2
<1>5. QED BY <1>1, <1>2, <1>3, <1>4 DEF build_addr

\* What a chip says of a half result.
LEMMA OutputFields ==
  ASSUME NEW f \in Int, 0 <= f, f < 256
  PROVE  /\ Output(f) % 16 = f % 16
         /\ Zero(Output(f)) = Flag(f % 16 = 0)
         /\ Carry(Output(f)) = Flag(f >= 16)
<1>1. PICK h \in 0 .. 15, z \in 0 .. 1, c \in 0 .. 1 :
        h = f % 16 /\ z = Flag(f % 16 = 0) /\ c = Flag(f >= 16)
  <2>1. f % 16 \in 0 .. 15
    BY SMT
  <2>2. Flag(f % 16 = 0) \in 0 .. 1 /\ Flag(f >= 16) \in 0 .. 1
    BY DEF Flag
  <2>3. QED BY <2>1, <2>2
<1> DEFINE w == h + 16 * z + 32 * c
<1>2. w % 16 = h
  BY SMT
<1>3. (w \div 16) % 2 = z
  <2>1. w \div 16 = z + 2 * c
    BY SMT
  <2>2. (z + 2 * c) % 2 = z
    BY SMT
  <2>3. QED BY <2>1, <2>2
<1>4. (w \div 32) % 2 = c
  <2>1. w \div 32 = c
    BY SMT
  <2>2. c % 2 = c
    BY SMT
  <2>3. QED BY <2>1, <2>2
<1>5. Output(f) = w
  BY <1>1 DEF Output
<1>6. QED BY <1>1, <1>2, <1>3, <1>4, <1>5 DEF Zero, Carry

\* A half of a byte.
LEMMA HalvesOfByte ==
  ASSUME NEW a \in Byte
  PROVE  a % 16 \in Nibble /\ a \div 16 \in Nibble /\ a = (a % 16) + 16 * (a \div 16)
<1>1. a % 16 \in 0 .. 15 /\ a \div 16 \in 0 .. 15 /\ a = (a % 16) + 16 * (a \div 16)
  BY SMT DEF Byte
<1>2. QED BY <1>1 DEF Nibble

\* And, Or, Xor of halves are halves, and those of bytes are made of them.
LEMMA BitwiseHalves ==
  ASSUME NEW a \in Byte, NEW b \in Byte
  PROVE  /\ And(a % 16, b % 16) \in Nibble /\ And(a \div 16, b \div 16) \in Nibble
         /\ Or(a % 16, b % 16) \in Nibble /\ Or(a \div 16, b \div 16) \in Nibble
         /\ Xor(a % 16, b % 16) \in Nibble /\ Xor(a \div 16, b \div 16) \in Nibble
         /\ And(a, b) = And(a % 16, b % 16) + 16 * And(a \div 16, b \div 16)
         /\ Or(a, b) = Or(a % 16, b % 16) + 16 * Or(a \div 16, b \div 16)
         /\ Xor(a, b) = Xor(a % 16, b % 16) + 16 * Xor(a \div 16, b \div 16)
<1> DEFINE Low == {1, 2, 4, 8}
\* The bits of a byte are those of its halves.
<1>1. ASSUME NEW n \in Byte, NEW w \in Low
      PROVE  /\ Bit(n, w) = Bit(n % 16, w) /\ Bit(n, 16 * w) = Bit(n \div 16, w)
             /\ Bit(n % 16, 16 * w) = 0 /\ Bit(n \div 16, 16 * w) = 0
             /\ Bit(n, w) \in 0 .. 1 /\ Bit(n, 16 * w) \in 0 .. 1
  <2>1. PICK l \in 0 .. 15, h \in 0 .. 15 : l = n % 16 /\ h = n \div 16 /\ n = l + 16 * h
    BY HalvesOfByte DEF Nibble
  <2>2. CASE w = 1
    <3>1. n % 2 = l % 2 /\ (n \div 16) % 2 = h % 2 /\ (l \div 16) % 2 = 0 /\ (h \div 16) % 2 = 0
      BY <2>1, SMT
    <3>2. n \div 1 = n /\ l \div 1 = l /\ h \div 1 = h /\ n % 2 \in 0 .. 1 /\ h % 2 \in 0 .. 1
      BY <2>1, SMT
    <3>3. QED BY <2>1, <2>2, <3>1, <3>2 DEF Bit
  <2>3. CASE w = 2
    <3>1. /\ (n \div 2) % 2 = (l \div 2) % 2 /\ (n \div 32) % 2 = (h \div 2) % 2
          /\ (l \div 32) % 2 = 0 /\ (h \div 32) % 2 = 0
      BY <2>1, SMT
    <3>2. (n \div 2) % 2 \in 0 .. 1 /\ (n \div 32) % 2 \in 0 .. 1
      BY <2>1, SMT
    <3>3. QED BY <2>1, <2>3, <3>1, <3>2 DEF Bit
  <2>4. CASE w = 4
    <3>1. /\ (n \div 4) % 2 = (l \div 4) % 2 /\ (n \div 64) % 2 = (h \div 4) % 2
          /\ (l \div 64) % 2 = 0 /\ (h \div 64) % 2 = 0
      BY <2>1, SMT
    <3>2. (n \div 4) % 2 \in 0 .. 1 /\ (n \div 64) % 2 \in 0 .. 1
      BY <2>1, SMT
    <3>3. QED BY <2>1, <2>4, <3>1, <3>2 DEF Bit
  <2>5. CASE w = 8
    <3>1. /\ (n \div 8) % 2 = (l \div 8) % 2 /\ (n \div 128) % 2 = (h \div 8) % 2
          /\ (l \div 128) % 2 = 0 /\ (h \div 128) % 2 = 0
      BY <2>1, SMT
    <3>2. (n \div 8) % 2 \in 0 .. 1 /\ (n \div 128) % 2 \in 0 .. 1
      BY <2>1, SMT
    <3>3. QED BY <2>1, <2>5, <3>1, <3>2 DEF Bit
  <2>6. QED BY <2>2, <2>3, <2>4, <2>5
\* A byte and two halves made bit by bit with a function of two bits that keeps 0.
<1>2. ASSUME NEW p \in [Weight -> 0 .. 1], NEW l \in [Weight -> 0 .. 1], NEW h \in [Weight -> 0 .. 1],
             \A w \in Low : p[w] = l[w] /\ p[16 * w] = h[w] /\ l[16 * w] = 0 /\ h[16 * w] = 0
      PROVE  /\ FromBits(l) \in Nibble /\ FromBits(h) \in Nibble
             /\ FromBits(p) = FromBits(l) + 16 * FromBits(h)
  <2>1. /\ p[1] = l[1] /\ p[2] = l[2] /\ p[4] = l[4] /\ p[8] = l[8]
        /\ p[16] = h[1] /\ p[32] = h[2] /\ p[64] = h[4] /\ p[128] = h[8]
        /\ l[16] = 0 /\ l[32] = 0 /\ l[64] = 0 /\ l[128] = 0
        /\ h[16] = 0 /\ h[32] = 0 /\ h[64] = 0 /\ h[128] = 0
    BY <1>2
  <2>2. PICK i \in 0 .. 1, j \in 0 .. 1, k \in 0 .. 1, n \in 0 .. 1 :
          i = l[1] /\ j = l[2] /\ k = l[4] /\ n = l[8]
    BY DEF Weight
  <2>3. PICK q \in 0 .. 1, r \in 0 .. 1, s \in 0 .. 1, t \in 0 .. 1 :
          q = h[1] /\ r = h[2] /\ s = h[4] /\ t = h[8]
    BY DEF Weight
  <2>4. FromBits(l) = i + 2 * j + 4 * k + 8 * n
    BY <2>1, <2>2 DEF FromBits
  <2>5. FromBits(h) = q + 2 * r + 4 * s + 8 * t
    BY <2>1, <2>3 DEF FromBits
  <2>6. FromBits(p) = i + 2 * j + 4 * k + 8 * n + 16 * q + 32 * r + 64 * s + 128 * t
    BY <2>1, <2>2, <2>3 DEF FromBits
  <2>7. i + 2 * j + 4 * k + 8 * n \in Nibble /\ q + 2 * r + 4 * s + 8 * t \in Nibble
    BY DEF Nibble
  <2>8. QED BY <2>4, <2>5, <2>6, <2>7
<1> DEFINE al == a % 16  bl == b % 16  ah == a \div 16  bh == b \div 16
<1>3. al \in Byte /\ bl \in Byte /\ ah \in Byte /\ bh \in Byte
  BY HalvesOfByte DEF Nibble, Byte
<1>4. \A w \in Low : w \in Weight /\ 16 * w \in Weight
  BY DEF Weight
<1>5. ASSUME NEW w \in Low
      PROVE  /\ Bit(a, w) = Bit(al, w) /\ Bit(b, w) = Bit(bl, w)
             /\ Bit(a, 16 * w) = Bit(ah, w) /\ Bit(b, 16 * w) = Bit(bh, w)
             /\ Bit(al, 16 * w) = 0 /\ Bit(bl, 16 * w) = 0
             /\ Bit(ah, 16 * w) = 0 /\ Bit(bh, 16 * w) = 0
  BY <1>1
<1> HIDE DEF al, bl, ah, bh
<1>6. And(al, bl) \in Nibble /\ And(ah, bh) \in Nibble /\ And(a, b) = And(al, bl) + 16 * And(ah, bh)
  <2> DEFINE B(x, y) == [w \in Weight |-> Bit(x, w) * Bit(y, w)]
  <2>1. \A i, j \in 0 .. 1 : i * j \in 0 .. 1
    OBVIOUS
  <2>2. \A x, y \in Byte : B(x, y) \in [Weight -> 0 .. 1]
    BY <2>1, BitTyped
  <2>3. ASSUME NEW w \in Low
        PROVE  /\ B(a, b)[w] = B(al, bl)[w] /\ B(a, b)[16 * w] = B(ah, bh)[w]
               /\ B(al, bl)[16 * w] = 0 /\ B(ah, bh)[16 * w] = 0
    BY <1>4, <1>5
  <2>4. And(a, b) = FromBits(B(a, b)) /\ And(al, bl) = FromBits(B(al, bl)) /\ And(ah, bh) = FromBits(B(ah, bh))
    BY DEF And
  <2> HIDE DEF B
  <2>5. QED BY <1>2, <1>3, <2>2, <2>3, <2>4
<1>7. Or(al, bl) \in Nibble /\ Or(ah, bh) \in Nibble /\ Or(a, b) = Or(al, bl) + 16 * Or(ah, bh)
  <2> DEFINE B(x, y) == [w \in Weight |-> Flag(Bit(x, w) + Bit(y, w) > 0)]
  <2>1. Flag(0 + 0 > 0) = 0
    BY DEF Flag
  <2>2. \A x, y \in Byte : B(x, y) \in [Weight -> 0 .. 1]
    BY DEF Flag
  <2>3. ASSUME NEW w \in Low
        PROVE  /\ B(a, b)[w] = B(al, bl)[w] /\ B(a, b)[16 * w] = B(ah, bh)[w]
               /\ B(al, bl)[16 * w] = 0 /\ B(ah, bh)[16 * w] = 0
    BY <1>4, <1>5, <2>1
  <2>4. Or(a, b) = FromBits(B(a, b)) /\ Or(al, bl) = FromBits(B(al, bl)) /\ Or(ah, bh) = FromBits(B(ah, bh))
    BY DEF Or
  <2> HIDE DEF B
  <2>5. QED BY <1>2, <1>3, <2>2, <2>3, <2>4
<1>8. Xor(al, bl) \in Nibble /\ Xor(ah, bh) \in Nibble /\ Xor(a, b) = Xor(al, bl) + 16 * Xor(ah, bh)
  <2> DEFINE B(x, y) == [w \in Weight |-> Flag(Bit(x, w) # Bit(y, w))]
  <2>1. Flag(0 # 0) = 0
    BY DEF Flag
  <2>2. \A x, y \in Byte : B(x, y) \in [Weight -> 0 .. 1]
    BY DEF Flag
  <2>3. ASSUME NEW w \in Low
        PROVE  /\ B(a, b)[w] = B(al, bl)[w] /\ B(a, b)[16 * w] = B(ah, bh)[w]
               /\ B(al, bl)[16 * w] = 0 /\ B(ah, bh)[16 * w] = 0
    BY <1>4, <1>5, <2>1
  <2>4. Xor(a, b) = FromBits(B(a, b)) /\ Xor(al, bl) = FromBits(B(al, bl)) /\ Xor(ah, bh) = FromBits(B(ah, bh))
    BY DEF Xor
  <2> HIDE DEF B
  <2>5. QED BY <1>2, <1>3, <2>2, <2>3, <2>4
<1>9. QED BY <1>6, <1>7, <1>8 DEF al, bl, ah, bh

\* A half result is a byte.
LEMMA HalfResultTyped ==
  ASSUME NEW cmd \in Nibble, NEW a \in Nibble, NEW b \in Nibble, NEW c \in 0 .. 1,
         NEW is_first \in 0 .. 1,
         And(a, b) \in Nibble, Or(a, b) \in Nibble, Xor(a, b) \in Nibble
  PROVE  HalfResult(cmd, a, b, c, is_first) \in 0 .. 255
<1>1. a + b + c \in 0 .. 255 /\ (a - b - c) % 256 \in 0 .. 255 /\ (0 - a - c) % 256 \in 0 .. 255
  BY SMT DEF Nibble
<1>2. 2 * a + c \in 0 .. 255 /\ a + c \in 0 .. 255 /\ a + 1 \in 0 .. 255 /\ 255 - a \in 0 .. 255
  BY SMT DEF Nibble
<1>3. And(a, b) \in 0 .. 255 /\ Or(a, b) \in 0 .. 255 /\ Xor(a, b) \in 0 .. 255 /\ 0 \in 0 .. 255
  BY DEF Nibble
<1>4. QED BY <1>1, <1>2, <1>3 DEF HalfResult, AddOp, SubOp, IncOp

\* The half results the chips are asked for.
LowHalf(a, b, cmd, c) == HalfResult(cmd, a % 16, b % 16, CarryTaken(cmd, c, 1), 1)
HighHalf(a, b, cmd, c) == HalfResult(cmd, a \div 16, b \div 16, CarryTaken(cmd, c, 0), 0)

\* What a chip holds where it is asked.
ChipHolds(a, b, cmd, c, is_first) ==
  LET f == HalfResult(cmd, a, b, CarryTaken(cmd, c, is_first), is_first)
      o == alu_value_for_input(build_addr(a, b, cmd, c), is_first)
  IN  /\ f \in 0 .. 255
      /\ o % 16 = f % 16 /\ Zero(o) = Flag(f % 16 = 0) /\ Carry(o) = Flag(f >= 16)

LEMMA ChipsHold ==
  ASSUME NEW a \in Nibble, NEW b \in Nibble, NEW cmd \in Nibble, NEW c \in 0 .. 1, NEW is_first \in 0 .. 1,
         And(a, b) \in Nibble, Or(a, b) \in Nibble, Xor(a, b) \in Nibble
  PROVE  ChipHolds(a, b, cmd, c, is_first)
<1> DEFINE f == HalfResult(cmd, a, b, CarryTaken(cmd, c, is_first), is_first)
           o == alu_value_for_input(build_addr(a, b, cmd, c), is_first)
<1>1. f \in 0 .. 255
  <2>1. CarryTaken(cmd, c, is_first) \in 0 .. 1
    BY DEF CarryTaken
  <2>2. QED BY <2>1, HalfResultTyped
<1>2. o = Output(f)
  BY AddressFields DEF alu_value_for_input
<1>3. ChipHolds(a, b, cmd, c, is_first) <=>
        /\ f \in 0 .. 255
        /\ o % 16 = f % 16 /\ Zero(o) = Flag(f % 16 = 0) /\ Carry(o) = Flag(f >= 16)
  BY DEF ChipHolds
<1> HIDE DEF f, o
<1>4. QED BY <1>1, <1>2, <1>3, OutputFields

\* The two chips together.
LEMMA ChipsTogether ==
  ASSUME NEW a \in Byte, NEW b \in Byte, NEW cmd \in Nibble, NEW c \in 0 .. 1
  PROVE  LET l == LowHalf(a, b, cmd, c)
             h == HighHalf(a, b, cmd, Flag(l >= 16))
         IN  /\ l \in 0 .. 255 /\ h \in 0 .. 255
             /\ process(a, b, cmd, c) =
                  [res |-> (l % 16) + 16 * (h % 16),
                   zero |-> Flag(l % 16 = 0) * Flag(h % 16 = 0), carry |-> Flag(h >= 16)]
<1> DEFINE l == LowHalf(a, b, cmd, c)
           d == Flag(l >= 16)
           h == HighHalf(a, b, cmd, d)
           low == alu_value_for_input(build_addr(a % 16, b % 16, cmd, c), 1)
           high == alu_value_for_input(build_addr(a \div 16, b \div 16, cmd, d), 0)
<1>1. PICK al \in Nibble, ah \in Nibble, bl \in Nibble, bh \in Nibble :
        al = a % 16 /\ ah = a \div 16 /\ bl = b % 16 /\ bh = b \div 16
  BY HalvesOfByte
<1>2. PICK e \in 0 .. 1 : e = d
  BY DEF Flag
<1>3. /\ And(al, bl) \in Nibble /\ Or(al, bl) \in Nibble /\ Xor(al, bl) \in Nibble
      /\ And(ah, bh) \in Nibble /\ Or(ah, bh) \in Nibble /\ Xor(ah, bh) \in Nibble
  BY <1>1, BitwiseHalves
<1>4. ChipHolds(al, bl, cmd, c, 1) /\ ChipHolds(ah, bh, cmd, e, 0)
  BY <1>1, <1>2, <1>3, ChipsHold
<1>5. /\ l \in 0 .. 255 /\ h \in 0 .. 255
      /\ low % 16 = l % 16 /\ Zero(low) = Flag(l % 16 = 0) /\ Carry(low) = d
      /\ high % 16 = h % 16 /\ Zero(high) = Flag(h % 16 = 0) /\ Carry(high) = Flag(h >= 16)
  BY <1>1, <1>2, <1>4 DEF ChipHolds, LowHalf, HighHalf
<1>6. process(a, b, cmd, c) =
        [res |-> (low % 16) + 16 * (high % 16), zero |-> Zero(low) * Zero(high), carry |-> Carry(high)]
  BY <1>5 DEF process
<1> HIDE DEF l, h, low, high
<1>7. QED BY <1>5, <1>6 DEF l, h

\* The result of the whole is put together from the halves: what the halves of a sum that
\* is carried from one to the other say of the sum.
LEMMA HalvesZero ==
  ASSUME NEW t \in Int, NEW l \in 0 .. 255, NEW h \in 0 .. 255,
         (l % 16) + 16 * (h % 16) = t % 256
  PROVE  Flag(l % 16 = 0) * Flag(h % 16 = 0) = Flag(t % 256 = 0)
<1>1. l % 16 \in 0 .. 15 /\ h % 16 \in 0 .. 15
  BY SMT
<1>2. PICK i \in 0 .. 15, j \in 0 .. 15 : i = l % 16 /\ j = h % 16
  BY <1>1
<1>3. i + 16 * j = 0 <=> i = 0 /\ j = 0
  OBVIOUS
<1>4. QED BY <1>2, <1>3 DEF Flag

\* Remainders of numbers that are at most one turn off.
LEMMA Wraps ==
  ASSUME NEW n \in Int
  PROVE  /\ 0 <= n /\ n < 16 => n % 16 = n
         /\ 16 <= n /\ n < 32 => n % 16 = n - 16
         /\ 0 <= n /\ n < 256 => n % 256 = n
         /\ 256 <= n /\ n < 512 => n % 256 = n - 256
         /\ -256 <= n /\ n < 0 => n % 256 = n + 256
         /\ 240 <= n /\ n < 256 => n % 16 = n - 240
<1>1. 0 <= n /\ n < 16 => n % 16 = n
  BY SMT
<1>2. 16 <= n /\ n < 32 => n % 16 = n - 16
  BY SMT
<1>3. 0 <= n /\ n < 256 => n % 256 = n
  BY SMT
<1>4. 256 <= n /\ n < 512 => n % 256 = n - 256
  BY SMT
<1>5. -256 <= n /\ n < 0 => n % 256 = n + 256
  BY SMT
<1>6. 240 <= n /\ n < 256 => n % 16 = n - 240
  BY SMT
<1>7. QED BY <1>1, <1>2, <1>3, <1>4, <1>5, <1>6

\* A sum of halves.
LEMMA SumJoined ==
  ASSUME NEW a \in Byte, NEW b \in Byte, NEW c \in 0 .. 1
  PROVE  LET l == (a % 16) + (b % 16) + c
             h == (a \div 16) + (b \div 16) + Flag(l >= 16)
         IN  (l % 16) + 16 * (h % 16) = (a + b + c) % 256 /\ (h >= 16 <=> a + b + c >= 256)
<1>1. PICK i \in 0 .. 15, j \in 0 .. 15, k \in 0 .. 15, n \in 0 .. 15 :
        /\ i = a % 16 /\ j = a \div 16 /\ k = b % 16 /\ n = b \div 16
        /\ a = i + 16 * j /\ b = k + 16 * n
  <2>1. a % 16 \in Nibble /\ a \div 16 \in Nibble /\ a = (a % 16) + 16 * (a \div 16)
    BY HalvesOfByte
  <2>2. b % 16 \in Nibble /\ b \div 16 \in Nibble /\ b = (b % 16) + 16 * (b \div 16)
    BY HalvesOfByte
  <2>3. QED BY <2>1, <2>2 DEF Nibble
<1>2. PICK l \in Int : l = i + k + c
  OBVIOUS
<1>3. PICK h \in Int : h = j + n + Flag(l >= 16)
  BY DEF Flag
<1>4. PICK t \in Int : t = a + b + c /\ t = l + 16 * (j + n)
  BY <1>1, <1>2
<1>5. l % 16 = (IF l >= 16 THEN l - 16 ELSE l) /\ h % 16 = (IF h >= 16 THEN h - 16 ELSE h)
  BY <1>2, <1>3, Wraps DEF Flag
<1>6. t % 256 = (IF t >= 256 THEN t - 256 ELSE t)
  BY <1>2, <1>4, Wraps
<1>7. (l % 16) + 16 * (h % 16) = t % 256 /\ (h >= 16 <=> t >= 256)
  <2>1. CASE l >= 16
    <3>1. h = j + n + 1 /\ t = (l - 16) + 16 * h
      BY <2>1, <1>3, <1>4 DEF Flag
    <3>2. QED BY <2>1, <3>1, <1>2, <1>5, <1>6
  <2>2. CASE ~(l >= 16)
    <3>1. h = j + n /\ t = l + 16 * h
      BY <2>2, <1>3, <1>4 DEF Flag
    <3>2. QED BY <2>2, <3>1, <1>2, <1>5, <1>6
  <2>3. QED BY <2>1, <2>2
<1>8. QED BY <1>1, <1>2, <1>3, <1>4, <1>7

\* A difference of halves.
LowDifference(a, b, c) == ((a % 16) - (b % 16) - c) % 256
HighDifference(a, b, c) == ((a \div 16) - (b \div 16) - c) % 256

LEMMA DifferenceJoined ==
  ASSUME NEW a \in Byte, NEW b \in Byte, NEW c \in 0 .. 1
  PROVE  LET l == LowDifference(a, b, c)
             h == HighDifference(a, b, Flag(l >= 16))
         IN  (l % 16) + 16 * (h % 16) = (a - b - c) % 256 /\ (h >= 16 <=> a < b + c)
<1>1. PICK i \in 0 .. 15, j \in 0 .. 15, k \in 0 .. 15, n \in 0 .. 15 :
        /\ i = a % 16 /\ j = a \div 16 /\ k = b % 16 /\ n = b \div 16
        /\ a = i + 16 * j /\ b = k + 16 * n
  <2>1. a % 16 \in Nibble /\ a \div 16 \in Nibble /\ a = (a % 16) + 16 * (a \div 16)
    BY HalvesOfByte
  <2>2. b % 16 \in Nibble /\ b \div 16 \in Nibble /\ b = (b % 16) + 16 * (b \div 16)
    BY HalvesOfByte
  <2>3. QED BY <2>1, <2>2 DEF Nibble
<1> DEFINE l == (i - k - c) % 256
           h == (j - n - Flag(l >= 16)) % 256
<1> SUFFICES (l % 16) + 16 * (h % 16) = (a - b - c) % 256 /\ (h >= 16 <=> a < b + c)
  BY <1>1 DEF LowDifference, HighDifference
<1>2. CASE i < k + c
  <2>1. l = i - k - c + 256 /\ l % 16 = i - k - c + 16 /\ l >= 16
    BY <1>2, SMT
  <2>2. h = (j - n - 1) % 256
    BY <2>1 DEF Flag
  <2>3. CASE j < n + 1
    <3>1. h = j - n - 1 + 256 /\ h % 16 = j - n - 1 + 16 /\ (a - b - c) % 256 = a - b - c + 256
      BY <1>1, <1>2, <2>2, <2>3, SMT
    <3>2. QED BY <1>1, <1>2, <2>1, <2>3, <3>1
  <2>4. CASE j >= n + 1
    <3>1. h = j - n - 1 /\ h % 16 = j - n - 1 /\ (a - b - c) % 256 = a - b - c
      BY <1>1, <1>2, <2>2, <2>4, SMT
    <3>2. QED BY <1>1, <1>2, <2>1, <2>4, <3>1
  <2>5. QED BY <2>3, <2>4
<1>3. CASE i >= k + c
  <2>1. l = i - k - c /\ l % 16 = i - k - c /\ l < 16
    BY <1>3, SMT
  <2>2. h = (j - n) % 256
    BY <2>1 DEF Flag
  <2>3. CASE j < n
    <3>1. h = j - n + 256 /\ h % 16 = j - n + 16 /\ (a - b - c) % 256 = a - b - c + 256
      BY <1>1, <1>3, <2>2, <2>3, SMT
    <3>2. QED BY <1>1, <1>3, <2>1, <2>3, <3>1
  <2>4. CASE j >= n
    <3>1. h = j - n /\ h % 16 = j - n /\ (a - b - c) % 256 = a - b - c
      BY <1>1, <1>3, <2>2, <2>4, SMT
    <3>2. QED BY <1>1, <1>3, <2>1, <2>4, <3>1
  <2>5. QED BY <2>3, <2>4
<1>4. QED BY <1>1, <1>2, <1>3

\* What an operation of the chips is on whole bytes: a number the result is the low byte of,
\* and when there is a carry.
Total(cmd, a, b, c) ==
  CASE cmd \in AddOp -> a + b + c
    [] cmd \in SubOp -> a - b - c
    [] cmd = 2  -> 0 - a
    [] cmd = 3  -> 2 * a
    [] cmd = IncOp -> a + 1
    [] cmd = 8  -> 255 - a
    [] cmd = 9  -> And(a, b)
    [] cmd = 10 -> Or(a, b)
    [] cmd = 11 -> Xor(a, b)
    [] OTHER    -> 0

CarryOut(cmd, a, b, c) ==
  \/ cmd \in AddOp /\ a + b + c >= 256
  \/ cmd \in SubOp /\ a < b + c
  \/ cmd = 2 /\ a > 0
  \/ cmd = 3 /\ 2 * a >= 256
  \/ cmd = IncOp /\ a + 1 >= 256
  \/ cmd = 8

LEMMA BitwiseBytes ==
  ASSUME NEW a \in Byte, NEW b \in Byte
  PROVE  And(a, b) \in Byte /\ Or(a, b) \in Byte /\ Xor(a, b) \in Byte
<1>1. \A l, h \in Nibble : l + 16 * h \in Byte
  BY DEF Nibble, Byte
<1>2. QED BY <1>1, BitwiseHalves

\* The operations one by one: the halves, with the carry each chip takes, and the whole.
LEMMA OperationCases ==
  ASSUME NEW cmd \in Nibble, NEW a \in Int, NEW b \in Int, NEW c \in 0 .. 1, NEW is_first \in 0 .. 1
  PROVE  LET k == CarryTaken(cmd, c, is_first)
             f == HalfResult(cmd, a, b, k, is_first)
         IN  /\ cmd \in AddOp => f = a + b + k /\ Total(cmd, a, b, c) = a + b + c
             /\ cmd \in SubOp => f = (a - b - k) % 256 /\ Total(cmd, a, b, c) = a - b - c
             /\ cmd = 2 => f = (0 - a - k) % 256 /\ Total(cmd, a, b, c) = 0 - a
             /\ cmd = 3 => f = 2 * a + k /\ Total(cmd, a, b, c) = 2 * a
             /\ cmd = IncOp => f = a + (IF is_first = 1 THEN 1 ELSE k) /\ Total(cmd, a, b, c) = a + 1
             /\ cmd = 8 => f = 255 - a /\ Total(cmd, a, b, c) = 255 - a
             /\ cmd = 9 => f = And(a, b) /\ Total(cmd, a, b, c) = And(a, b)
             /\ cmd = 10 => f = Or(a, b) /\ Total(cmd, a, b, c) = Or(a, b)
             /\ cmd = 11 => f = Xor(a, b) /\ Total(cmd, a, b, c) = Xor(a, b)
             /\ cmd \in {4, 12, 13, 14, 15} => f = 0 /\ Total(cmd, a, b, c) = 0
<1> DEFINE k == CarryTaken(cmd, c, is_first)
<1>1. PICK f : f = HalfResult(cmd, a, b, k, is_first)
  OBVIOUS
<1>2. PICK t : t = Total(cmd, a, b, c)
  OBVIOUS
<1>3. k \in Int
  BY DEF CarryTaken
<1> HIDE DEF k
<1>4. cmd = 0 => f = a + b + k /\ t = a + b + c
  BY <1>1, <1>2, <1>3 DEF HalfResult, Total, AddOp, SubOp, IncOp
<1>5. cmd = 6 => f = a + b + k /\ t = a + b + c
  BY <1>1, <1>2, <1>3 DEF HalfResult, Total, AddOp, SubOp, IncOp
<1>6. cmd = 1 => f = (a - b - k) % 256 /\ t = a - b - c
  BY <1>1, <1>2, <1>3 DEF HalfResult, Total, AddOp, SubOp, IncOp
<1>7. cmd = 7 => f = (a - b - k) % 256 /\ t = a - b - c
  BY <1>1, <1>2, <1>3 DEF HalfResult, Total, AddOp, SubOp, IncOp
<1>8. cmd = 2 => f = (0 - a - k) % 256 /\ t = 0 - a
  BY <1>1, <1>2, <1>3 DEF HalfResult, Total, AddOp, SubOp, IncOp
<1>9. cmd = 3 => f = 2 * a + k /\ t = 2 * a
  BY <1>1, <1>2, <1>3 DEF HalfResult, Total, AddOp, SubOp, IncOp
<1>10. cmd = IncOp => f = a + (IF is_first = 1 THEN 1 ELSE k) /\ t = a + 1
  BY <1>1, <1>2, <1>3 DEF HalfResult, Total, AddOp, SubOp, IncOp
<1>11. cmd = 8 => f = 255 - a /\ t = 255 - a
  BY <1>1, <1>2 DEF HalfResult, Total, AddOp, SubOp, IncOp
<1>12. cmd = 9 => f = And(a, b) /\ t = And(a, b)
  BY <1>1, <1>2 DEF HalfResult, Total, AddOp, SubOp, IncOp
<1>13. cmd = 10 => f = Or(a, b) /\ t = Or(a, b)
  BY <1>1, <1>2 DEF HalfResult, Total, AddOp, SubOp, IncOp
<1>14. cmd = 11 => f = Xor(a, b) /\ t = Xor(a, b)
  BY <1>1, <1>2 DEF HalfResult, Total, AddOp, SubOp, IncOp
<1>15. cmd \in {4, 12, 13, 14, 15} => f = 0 /\ t = 0
  <2>1. CASE cmd = 4 BY <1>1, <1>2, <2>1 DEF HalfResult, Total, AddOp, SubOp, IncOp
  <2>2. CASE cmd = 12 BY <1>1, <1>2, <2>2 DEF HalfResult, Total, AddOp, SubOp, IncOp
  <2>3. CASE cmd = 13 BY <1>1, <1>2, <2>3 DEF HalfResult, Total, AddOp, SubOp, IncOp
  <2>4. CASE cmd = 14 BY <1>1, <1>2, <2>4 DEF HalfResult, Total, AddOp, SubOp, IncOp
  <2>5. CASE cmd = 15 BY <1>1, <1>2, <2>5 DEF HalfResult, Total, AddOp, SubOp, IncOp
  <2>6. QED BY <2>1, <2>2, <2>3, <2>4, <2>5
<1>16. QED
  BY <1>1, <1>2, <1>4, <1>5, <1>6, <1>7, <1>8, <1>9, <1>10, <1>11, <1>12, <1>13, <1>14, <1>15 DEF k, AddOp, SubOp

LEMMA CarryCases ==
  ASSUME NEW cmd \in Nibble, NEW c \in 0 .. 1
  PROVE  /\ cmd \in {0, 1, 2, 3, 5, 6, 7} => CarryTaken(cmd, c, 0) = c
         /\ cmd \in {2, 3} => CarryTaken(cmd, c, 1) = 0
BY DEF CarryTaken

\* Both chips together compute the operation on the bytes, and its carry.
LEMMA ChipsTotal ==
  ASSUME NEW a \in Byte, NEW b \in Byte, NEW cmd \in Nibble, NEW c \in 0 .. 1
  PROVE  LET l == LowHalf(a, b, cmd, c)
             h == HighHalf(a, b, cmd, Flag(l >= 16))
             d == CarryTaken(cmd, c, 1)
         IN  /\ Total(cmd, a, b, d) \in Int
             /\ (l % 16) + 16 * (h % 16) = Total(cmd, a, b, d) % 256
             /\ h >= 16 <=> CarryOut(cmd, a, b, d)
<1> DEFINE d == CarryTaken(cmd, c, 1)
           l == LowHalf(a, b, cmd, c)
           e == Flag(l >= 16)
           h == HighHalf(a, b, cmd, e)
           t == Total(cmd, a, b, d)
           Agrees == /\ t \in Int
                     /\ (l % 16) + 16 * (h % 16) = t % 256
                     /\ h >= 16 <=> CarryOut(cmd, a, b, d)
<1>1. d \in 0 .. 1 /\ e \in 0 .. 1 /\ 0 \in 0 .. 1 /\ 1 \in 0 .. 1
  BY DEF CarryTaken, Flag
<1>2. PICK al \in 0 .. 15, ah \in 0 .. 15, bl \in 0 .. 15, bh \in 0 .. 15 :
        /\ al = a % 16 /\ ah = a \div 16 /\ bl = b % 16 /\ bh = b \div 16
        /\ a = al + 16 * ah /\ b = bl + 16 * bh
  <2>1. a % 16 \in Nibble /\ a \div 16 \in Nibble /\ a = (a % 16) + 16 * (a \div 16)
    BY HalvesOfByte
  <2>2. b % 16 \in Nibble /\ b \div 16 \in Nibble /\ b = (b % 16) + 16 * (b \div 16)
    BY HalvesOfByte
  <2>3. QED BY <2>1, <2>2 DEF Nibble
<1>3. /\ l = HalfResult(cmd, al, bl, CarryTaken(cmd, c, 1), 1)
      /\ h = HalfResult(cmd, ah, bh, CarryTaken(cmd, e, 0), 0)
  BY <1>2 DEF LowHalf, HighHalf
<1>4. a \in Int /\ b \in Int /\ 0 <= a /\ a < 256
  BY DEF Byte
<1> HIDE DEF d, l, e, h, t
\* What the operations of the cases below leave in both chips.
<1>5. /\ cmd \in AddOp => l = al + bl + d /\ h = ah + bh + e /\ t = a + b + d
      /\ cmd \in SubOp => l = (al - bl - d) % 256 /\ h = (ah - bh - e) % 256 /\ t = a - b - d
      /\ cmd = 2 => l = (0 - al - 0) % 256 /\ h = (0 - ah - e) % 256 /\ t = 0 - a
      /\ cmd = 3 => l = 2 * al + 0 /\ h = 2 * ah + e /\ t = 2 * a
      /\ cmd = IncOp => l = al + 1 /\ h = ah + e /\ t = a + 1
      /\ cmd = 8 => l = 255 - al /\ h = 255 - ah /\ t = 255 - a
      /\ cmd = 9 => l = And(al, bl) /\ h = And(ah, bh) /\ t = And(a, b)
      /\ cmd = 10 => l = Or(al, bl) /\ h = Or(ah, bh) /\ t = Or(a, b)
      /\ cmd = 11 => l = Xor(al, bl) /\ h = Xor(ah, bh) /\ t = Xor(a, b)
      /\ cmd \in {4, 12, 13, 14, 15} => l = 0 /\ h = 0 /\ t = 0
  <2>1. LET k == CarryTaken(cmd, c, 1)
        IN  /\ cmd \in AddOp => l = al + bl + k
            /\ cmd \in SubOp => l = (al - bl - k) % 256
            /\ cmd = 2 => l = (0 - al - k) % 256
            /\ cmd = 3 => l = 2 * al + k
            /\ cmd = IncOp => l = al + 1
            /\ cmd = 8 => l = 255 - al
            /\ cmd = 9 => l = And(al, bl)
            /\ cmd = 10 => l = Or(al, bl)
            /\ cmd = 11 => l = Xor(al, bl)
            /\ cmd \in {4, 12, 13, 14, 15} => l = 0
    BY <1>1, <1>2, <1>3, OperationCases
  <2>2. LET k == CarryTaken(cmd, e, 0)
        IN  /\ cmd \in AddOp => h = ah + bh + k
            /\ cmd \in SubOp => h = (ah - bh - k) % 256
            /\ cmd = 2 => h = (0 - ah - k) % 256
            /\ cmd = 3 => h = 2 * ah + k
            /\ cmd = IncOp => h = ah + k
            /\ cmd = 8 => h = 255 - ah
            /\ cmd = 9 => h = And(ah, bh)
            /\ cmd = 10 => h = Or(ah, bh)
            /\ cmd = 11 => h = Xor(ah, bh)
            /\ cmd \in {4, 12, 13, 14, 15} => h = 0
    BY <1>1, <1>2, <1>3, OperationCases
  <2>3. /\ cmd \in AddOp => t = a + b + d
        /\ cmd \in SubOp => t = a - b - d
        /\ cmd = 2 => t = 0 - a
        /\ cmd = 3 => t = 2 * a
        /\ cmd = IncOp => t = a + 1
        /\ cmd = 8 => t = 255 - a
        /\ cmd = 9 => t = And(a, b)
        /\ cmd = 10 => t = Or(a, b)
        /\ cmd = 11 => t = Xor(a, b)
        /\ cmd \in {4, 12, 13, 14, 15} => t = 0
    BY <1>1, <1>4, OperationCases DEF t
  <2>4. QED BY <1>1, <2>1, <2>2, <2>3, CarryCases DEF d, AddOp, SubOp, IncOp
\* The carry of a sum, and of a difference, of halves.
<1>6. ASSUME NEW x \in Byte, NEW y \in Byte, NEW i \in 0 .. 1,
             l = (x % 16) + (y % 16) + i, h = (x \div 16) + (y \div 16) + e
      PROVE  (l % 16) + 16 * (h % 16) = (x + y + i) % 256 /\ (h >= 16 <=> x + y + i >= 256)
  BY <1>6, SumJoined DEF e
<1>7. ASSUME NEW x \in Byte, NEW y \in Byte, NEW i \in 0 .. 1,
             l = ((x % 16) - (y % 16) - i) % 256, h = ((x \div 16) - (y \div 16) - e) % 256
      PROVE  (l % 16) + 16 * (h % 16) = (x - y - i) % 256 /\ (h >= 16 <=> x < y + i)
  <2>1. l = LowDifference(x, y, i) /\ h = HighDifference(x, y, Flag(l >= 16))
    BY <1>7 DEF e, LowDifference, HighDifference
  <2>2. LET low == LowDifference(x, y, i)
            high == HighDifference(x, y, Flag(low >= 16))
        IN  (low % 16) + 16 * (high % 16) = (x - y - i) % 256 /\ (high >= 16 <=> x < y + i)
    BY <1>7, DifferenceJoined
  <2>3. QED BY <2>1, <2>2
<1>8. PICK z \in Byte : z = 0 /\ z % 16 = 0 /\ z \div 16 = 0
  BY DEF Byte
<1>9. ASSUME cmd \in AddOp \union SubOp \union {2, 3, IncOp} PROVE Agrees
  <2>1. CASE cmd \in AddOp
    <3>1. CarryOut(cmd, a, b, d) <=> a + b + d >= 256
      BY <2>1 DEF CarryOut, AddOp, SubOp, IncOp
    <3>2. (l % 16) + 16 * (h % 16) = (a + b + d) % 256 /\ (h >= 16 <=> a + b + d >= 256)
      BY <1>1, <1>2, <1>5, <1>6, <2>1
    <3>3. QED BY <1>1, <1>4, <1>5, <2>1, <3>1, <3>2
  <2>2. CASE cmd \in SubOp
    <3>1. CarryOut(cmd, a, b, d) <=> a < b + d
      BY <2>2 DEF CarryOut, AddOp, SubOp, IncOp
    <3>2. (l % 16) + 16 * (h % 16) = (a - b - d) % 256 /\ (h >= 16 <=> a < b + d)
      BY <1>1, <1>2, <1>5, <1>7, <2>2
    <3>3. QED BY <1>1, <1>4, <1>5, <2>2, <3>1, <3>2
  <2>3. CASE cmd = 2
    <3>1. CarryOut(cmd, a, b, d) <=> a > 0
      BY <2>3 DEF CarryOut, AddOp, SubOp, IncOp
    <3>2. (l % 16) + 16 * (h % 16) = (z - a - 0) % 256 /\ (h >= 16 <=> z < a + 0)
      BY <1>1, <1>2, <1>5, <1>7, <1>8, <2>3
    <3>3. QED BY <1>1, <1>4, <1>5, <1>8, <2>3, <3>1, <3>2
  <2>4. CASE cmd = 3
    <3>1. CarryOut(cmd, a, b, d) <=> 2 * a >= 256
      BY <2>4 DEF CarryOut, AddOp, SubOp, IncOp
    <3>2. l = al + al + 0 /\ h = ah + ah + e
      BY <1>1, <1>2, <1>5, <2>4
    <3>3. (l % 16) + 16 * (h % 16) = (a + a + 0) % 256 /\ (h >= 16 <=> a + a + 0 >= 256)
      BY <1>1, <1>2, <1>6, <3>2
    <3>4. a + a + 0 = 2 * a
      BY <1>4
    <3>5. QED BY <1>1, <1>4, <1>5, <2>4, <3>1, <3>3, <3>4
  <2>5. CASE cmd = IncOp
    <3>1. CarryOut(cmd, a, b, d) <=> a + 1 >= 256
      BY <2>5 DEF CarryOut, AddOp, SubOp, IncOp
    <3>2. l = al + 0 + 1 /\ h = ah + 0 + e
      BY <1>1, <1>2, <1>5, <2>5
    <3>3. (l % 16) + 16 * (h % 16) = (a + z + 1) % 256 /\ (h >= 16 <=> a + z + 1 >= 256)
      BY <1>1, <1>2, <1>6, <1>8, <3>2
    <3>4. a + z + 1 = a + 1
      BY <1>4, <1>8
    <3>5. QED BY <1>1, <1>4, <1>5, <2>5, <3>1, <3>3, <3>4
  <2>6. QED BY <1>9, <2>1, <2>2, <2>3, <2>4, <2>5
<1>10. ASSUME cmd = 8 PROVE Agrees
  <2>1. CarryOut(cmd, a, b, d)
    BY <1>10 DEF CarryOut
  <2>2. (255 - al) % 16 = 15 - al /\ (255 - ah) % 16 = 15 - ah
    BY <1>2, SMT
  <2>3. (255 - a) % 256 = 255 - a
    BY <1>4, SMT
  <2>4. l % 16 = 15 - al /\ h % 16 = 15 - ah /\ h >= 16 /\ t = 255 - a
    BY <1>2, <1>5, <1>10, <2>2
  <2>5. t \in Int /\ t % 256 = 255 - a
    BY <1>4, <2>3, <2>4
  <2>6. (l % 16) + 16 * (h % 16) = 255 - a
    BY <1>2, <2>4
  <2>7. QED BY <2>1, <2>4, <2>5, <2>6
<1>11. ASSUME cmd \notin AddOp \union SubOp \union {2, 3, IncOp, 8},
              l \in Nibble, h \in Nibble, t = l + 16 * h
       PROVE  Agrees
  <2>1. PICK p \in 0 .. 15, q \in 0 .. 15 : p = l /\ q = h
    BY <1>11 DEF Nibble
  <2>2. p % 16 = p /\ q % 16 = q /\ (p + 16 * q) % 256 = p + 16 * q
    BY <2>1, SMT
  <2>3. ~CarryOut(cmd, a, b, d)
    BY <1>11 DEF CarryOut
  <2>4. QED BY <1>11, <2>1, <2>2, <2>3
<1>12. ASSUME cmd \in {4, 9, 10, 11, 12, 13, 14, 15} PROVE Agrees
  <2>1. cmd \notin AddOp \union SubOp \union {2, 3, IncOp, 8}
    BY <1>12 DEF AddOp, SubOp, IncOp
  <2>2. l \in Nibble /\ h \in Nibble /\ t = l + 16 * h
    <3>1. CASE cmd = 9
      <4>1. l = And(al, bl) /\ h = And(ah, bh) /\ t = And(a, b)
        BY <3>1, <1>5
      <4>2. QED BY <4>1, <1>2, BitwiseHalves
    <3>2. CASE cmd = 10
      <4>1. l = Or(al, bl) /\ h = Or(ah, bh) /\ t = Or(a, b)
        BY <3>2, <1>5
      <4>2. QED BY <4>1, <1>2, BitwiseHalves
    <3>3. CASE cmd = 11
      <4>1. l = Xor(al, bl) /\ h = Xor(ah, bh) /\ t = Xor(a, b)
        BY <3>3, <1>5
      <4>2. QED BY <4>1, <1>2, BitwiseHalves
    <3>4. CASE cmd \in {4, 12, 13, 14, 15}
      BY <3>4, <1>5 DEF Nibble
    <3>5. QED BY <1>12, <3>1, <3>2, <3>3, <3>4
  <2>3. QED BY <1>11, <2>1, <2>2
<1>13. Agrees
  BY <1>9, <1>10, <1>12 DEF Nibble, AddOp, SubOp, IncOp
<1>14. QED BY <1>13 DEF d, l, e, h, t

\* A byte is what it expects, so the test of the program passes.
LEMMA TotalIsExpected ==
  ASSUME NEW a \in Byte, NEW b \in Byte, NEW cmd \in Nibble
  PROVE  Expected(cmd, a, b) = Total(cmd, a, b, 0) % 256
<1>1. PICK e : e = Expected(cmd, a, b)
  OBVIOUS
<1>2. PICK t : t = Total(cmd, a, b, 0)
  OBVIOUS
<1>3. a \in Int /\ b \in Int /\ 0 <= a /\ a < 256 /\ 0 % 256 = 0
  BY SMT DEF Byte
<1>4. ASSUME NEW n \in Byte PROVE n % 256 = n
  BY SMT DEF Byte
<1>5. 255 - a \in Byte
  BY DEF Byte
<1>6. cmd \in {0, 6} => e = (a + b) % 256 /\ t = a + b + 0
  <2>1. cmd = 0 => e = (a + b) % 256 /\ t = a + b + 0
    BY <1>1, <1>2 DEF Expected, Total, AddOp, SubOp, IncOp
  <2>2. cmd = 6 => e = (a + b) % 256 /\ t = a + b + 0
    BY <1>1, <1>2 DEF Expected, Total, AddOp, SubOp, IncOp
  <2>3. QED BY <2>1, <2>2
<1>7. cmd \in {1, 7} => e = (a - b) % 256 /\ t = a - b - 0
  <2>1. cmd = 1 => e = (a - b) % 256 /\ t = a - b - 0
    BY <1>1, <1>2 DEF Expected, Total, AddOp, SubOp, IncOp
  <2>2. cmd = 7 => e = (a - b) % 256 /\ t = a - b - 0
    BY <1>1, <1>2 DEF Expected, Total, AddOp, SubOp, IncOp
  <2>3. QED BY <2>1, <2>2
<1>8. cmd = 2 => e = (0 - a) % 256 /\ t = 0 - a
  BY <1>1, <1>2 DEF Expected, Total, AddOp, SubOp, IncOp
<1>9. cmd = 3 => e = (2 * a) % 256 /\ t = 2 * a
  BY <1>1, <1>2 DEF Expected, Total, AddOp, SubOp, IncOp
<1>10. cmd = IncOp => e = (a + 1) % 256 /\ t = a + 1
  BY <1>1, <1>2 DEF Expected, Total, AddOp, SubOp, IncOp
<1>11. cmd = 8 => e = 255 - a /\ t = 255 - a
  BY <1>1, <1>2 DEF Expected, Total, AddOp, SubOp, IncOp
<1>12. cmd = 9 => e = And(a, b) /\ t = And(a, b)
  BY <1>1, <1>2 DEF Expected, Total, AddOp, SubOp, IncOp
<1>13. cmd = 10 => e = Or(a, b) /\ t = Or(a, b)
  BY <1>1, <1>2 DEF Expected, Total, AddOp, SubOp, IncOp
<1>14. cmd = 11 => e = Xor(a, b) /\ t = Xor(a, b)
  BY <1>1, <1>2 DEF Expected, Total, AddOp, SubOp, IncOp
<1>15. cmd \in {4, 12, 13, 14, 15} => e = 0 /\ t = 0
  <2>1. CASE cmd = 4 BY <1>1, <1>2, <2>1 DEF Expected, Total, AddOp, SubOp, IncOp
  <2>2. CASE cmd = 12 BY <1>1, <1>2, <2>2 DEF Expected, Total, AddOp, SubOp, IncOp
  <2>3. CASE cmd = 13 BY <1>1, <1>2, <2>3 DEF Expected, Total, AddOp, SubOp, IncOp
  <2>4. CASE cmd = 14 BY <1>1, <1>2, <2>4 DEF Expected, Total, AddOp, SubOp, IncOp
  <2>5. CASE cmd = 15 BY <1>1, <1>2, <2>5 DEF Expected, Total, AddOp, SubOp, IncOp
  <2>6. QED BY <2>1, <2>2, <2>3, <2>4, <2>5
<1>16. e = t % 256
  <2>1. CASE cmd \in {0, 1, 6, 7}
    <3>1. a + b + 0 = a + b /\ a - b - 0 = a - b
      BY <1>3
    <3>2. QED BY <2>1, <3>1, <1>6, <1>7
  <2>2. CASE cmd \in {2, 3, IncOp}
    BY <2>2, <1>8, <1>9, <1>10
  <2>3. CASE cmd \in {8, 9, 10, 11}
    BY <2>3, <1>4, <1>5, <1>11, <1>12, <1>13, <1>14, BitwiseBytes
  <2>4. CASE cmd \in {4, 12, 13, 14, 15}
    BY <2>4, <1>3, <1>15
  <2>5. QED BY <2>1, <2>2, <2>3, <2>4 DEF Nibble, IncOp
<1>17. QED BY <1>1, <1>2, <1>16

\* What the board computes, with the carry into the low chip.
LEMMA BoardComputes ==
  ASSUME NEW a \in Byte, NEW b \in Byte, NEW cmd \in Nibble, NEW c \in 0 .. 1
  PROVE  LET d == CarryTaken(cmd, c, 1)
             t == Total(cmd, a, b, d)
             chips == process(a, b, cmd, c)
         IN  /\ chips.res = t % 256 /\ chips.zero = Flag(t % 256 = 0)
             /\ chips.carry = Flag(CarryOut(cmd, a, b, d))
<1> DEFINE d == CarryTaken(cmd, c, 1)
           t == Total(cmd, a, b, d)
<1>1. PICK l \in 0 .. 255, h \in 0 .. 255 :
        /\ l = LowHalf(a, b, cmd, c) /\ h = HighHalf(a, b, cmd, Flag(l >= 16))
        /\ process(a, b, cmd, c) =
             [res |-> (l % 16) + 16 * (h % 16),
              zero |-> Flag(l % 16 = 0) * Flag(h % 16 = 0), carry |-> Flag(h >= 16)]
  <2>1. PICK l : l = LowHalf(a, b, cmd, c)
    OBVIOUS
  <2>2. PICK h : h = HighHalf(a, b, cmd, Flag(l >= 16))
    OBVIOUS
  <2>3. /\ l \in 0 .. 255 /\ h \in 0 .. 255
        /\ process(a, b, cmd, c) =
             [res |-> (l % 16) + 16 * (h % 16),
              zero |-> Flag(l % 16 = 0) * Flag(h % 16 = 0), carry |-> Flag(h >= 16)]
    BY <2>1, <2>2, ChipsTogether
  <2>4. QED BY <2>1, <2>2, <2>3
<1>2. t \in Int /\ (l % 16) + 16 * (h % 16) = t % 256 /\ (h >= 16 <=> CarryOut(cmd, a, b, d))
  BY <1>1, ChipsTotal
<1> HIDE DEF d, t
<1>3. Flag(l % 16 = 0) * Flag(h % 16 = 0) = Flag(t % 256 = 0)
  BY <1>2, HalvesZero
<1>4. Flag(h >= 16) = Flag(CarryOut(cmd, a, b, d))
  BY <1>2 DEF Flag
<1>5. QED BY <1>1, <1>2, <1>3, <1>4 DEF d, t

\* The test generate_alu_table runs over its own table passes: for all bytes and all
\* operations, the chips put together give what do_test() expects.
THEOREM OwnTestPasses ==
  \A a, b \in Byte, cmd \in Nibble : do_test(a, b, cmd)
<1> SUFFICES ASSUME NEW a \in Byte, NEW b \in Byte, NEW cmd \in Nibble
             PROVE  do_test(a, b, cmd)
  OBVIOUS
<1>1. CarryTaken(cmd, 0, 1) = 0
  BY DEF CarryTaken
<1>2. process(a, b, cmd, 0).res = Total(cmd, a, b, 0) % 256
  BY <1>1, BoardComputes
<1>3. QED BY <1>2, TotalIsExpected DEF do_test
-------------------------------------------------------------------------------
\* The simulated unit computes the same totals in its wider intermediate result.
LEMMA SimulatedTotal ==
  ASSUME NEW a \in Byte, NEW b \in Byte, NEW op \in CommonOp, NEW c \in 0 .. 1, NEW junk
  PROVE  LET d == CarryTaken(op, c, 1)
             tmp == AluTmp(op, a, b, c, junk)
         IN  tmp % 256 = Total(op, a, b, d) % 256 /\ (tmp >= 256 <=> CarryOut(op, a, b, d))
<1>1. PICK tmp : tmp = AluTmp(op, a, b, c, junk)
  OBVIOUS
<1>2. PICK d : d = CarryTaken(op, c, 1)
  OBVIOUS
<1>3. PICK t : t = Total(op, a, b, d)
  OBVIOUS
<1>4. a \in Int /\ b \in Int /\ 0 <= a /\ a < 256 /\ 0 <= b /\ b < 256 /\ c \in Int
  BY DEF Byte
\* A borrow from the high byte of the intermediate word does not show in its low one.
<1>5. ASSUME NEW x \in Byte, NEW y \in Byte, NEW i \in 0 .. 1
      PROVE  Difference(x, y, i) % 256 = (x - y - i) % 256 /\ (Difference(x, y, i) >= 256 <=> x < y + i)
  <2>1. x \in Int /\ y \in Int /\ 0 <= x /\ x < 256 /\ 0 <= y /\ y < 256
    BY DEF Byte
  <2>2. PICK n \in Int : n = x - y - i
    BY <2>1
  <2>3. (65536 + n) % 256 = n % 256
    BY SMT
  <2>4. CASE x >= y + i
    BY <2>1, <2>2, <2>4, Borrow
  <2>5. CASE x < y + i
    BY <2>1, <2>2, <2>3, <2>5, Borrow
  <2>6. QED BY <2>1, <2>4, <2>5
<1>6. CASE op = 0
  <2>1. tmp = a + b /\ t = a + b + 0 /\ (CarryOut(op, a, b, d) <=> a + b + 0 >= 256)
    BY <1>1, <1>2, <1>3, <1>6 DEF AluTmp, Total, CarryOut, CarryTaken, AddOp, SubOp, IncOp
  <2>2. QED BY <1>1, <1>2, <1>3, <1>4, <2>1
<1>7. CASE op = 6
  <2>1. tmp = a + b + c /\ t = a + b + c /\ (CarryOut(op, a, b, d) <=> a + b + c >= 256)
    BY <1>1, <1>2, <1>3, <1>7 DEF AluTmp, Total, CarryOut, CarryTaken, AddOp, SubOp, IncOp
  <2>2. QED BY <1>1, <1>2, <1>3, <2>1
<1>8. CASE op = 1
  <2>1. tmp = Difference(a, b, 0) /\ t = a - b - 0 /\ (CarryOut(op, a, b, d) <=> a < b + 0)
    BY <1>1, <1>2, <1>3, <1>8 DEF AluTmp, Total, CarryOut, CarryTaken, AddOp, SubOp, IncOp
  <2>2. tmp % 256 = t % 256 /\ (tmp >= 256 <=> CarryOut(op, a, b, d))
    <3>1. 0 \in 0 .. 1
      OBVIOUS
    <3>2. Difference(a, b, 0) % 256 = (a - b - 0) % 256 /\ (Difference(a, b, 0) >= 256 <=> a < b + 0)
      BY <1>5, <3>1
    <3>3. QED BY <2>1, <3>2
  <2>3. QED BY <1>1, <1>2, <1>3, <2>2
<1>9. CASE op = 7
  <2>1. tmp = Difference(a, b, c) /\ t = a - b - c /\ (CarryOut(op, a, b, d) <=> a < b + c)
    BY <1>1, <1>2, <1>3, <1>9 DEF AluTmp, Total, CarryOut, CarryTaken, AddOp, SubOp, IncOp
  <2>2. tmp % 256 = t % 256 /\ (tmp >= 256 <=> CarryOut(op, a, b, d))
    <3>1. Difference(a, b, c) % 256 = (a - b - c) % 256 /\ (Difference(a, b, c) >= 256 <=> a < b + c)
      BY <1>5
    <3>2. QED BY <2>1, <3>1
  <2>3. QED BY <1>1, <1>2, <1>3, <2>2
<1>10. CASE op = 2
  <2>1. tmp = Difference(0, a, 0) /\ t = 0 - a /\ (CarryOut(op, a, b, d) <=> a > 0)
    BY <1>1, <1>2, <1>3, <1>10 DEF AluTmp, Total, CarryOut, CarryTaken, AddOp, SubOp, IncOp
  <2>2. tmp % 256 = (0 - a - 0) % 256 /\ (tmp >= 256 <=> 0 < a + 0)
    <3>1. 0 \in 0 .. 1
      OBVIOUS
    <3>2. Difference(0, a, 0) % 256 = (0 - a - 0) % 256 /\ (Difference(0, a, 0) >= 256 <=> 0 < a + 0)
      BY <1>5, <3>1, ZeroByte
    <3>3. QED BY <2>1, <3>2
  <2>3. 0 - a - 0 = 0 - a /\ (0 < a + 0 <=> a > 0)
    BY <1>4
  <2>4. QED BY <1>1, <1>2, <1>3, <2>1, <2>2, <2>3
<1>11. CASE op = 3
  <2>1. tmp = 2 * a /\ t = 2 * a /\ (CarryOut(op, a, b, d) <=> 2 * a >= 256)
    BY <1>1, <1>2, <1>3, <1>11 DEF AluTmp, Total, CarryOut, CarryTaken, AddOp, SubOp, IncOp
  <2>2. QED BY <1>1, <1>2, <1>3, <2>1
<1>12. CASE op = 8
  <2>1. tmp = 65535 - a /\ t = 255 - a /\ CarryOut(op, a, b, d)
    BY <1>1, <1>2, <1>3, <1>12 DEF AluTmp, Total, CarryOut, CarryTaken, AddOp, SubOp, IncOp
  <2>2. (65535 - a) % 256 = 255 - a /\ (255 - a) % 256 = 255 - a /\ 65535 - a >= 256
    BY <1>4, SMT
  <2>3. QED BY <1>1, <1>2, <1>3, <2>1, <2>2
<1>13. CASE op \in {9, 10, 11, 12}
  <2>1. op = 9 => tmp = And(a, b) /\ t = And(a, b)
    BY <1>1, <1>3 DEF AluTmp, Total, AddOp, SubOp, IncOp
  <2>2. op = 10 => tmp = Or(a, b) /\ t = Or(a, b)
    BY <1>1, <1>3 DEF AluTmp, Total, AddOp, SubOp, IncOp
  <2>3. op = 11 => tmp = Xor(a, b) /\ t = Xor(a, b)
    BY <1>1, <1>3 DEF AluTmp, Total, AddOp, SubOp, IncOp
  <2>4. op = 12 => tmp = 0 /\ t = 0
    BY <1>1, <1>3 DEF AluTmp, Total, AddOp, SubOp, IncOp
  <2>5. tmp \in Byte /\ tmp = t
    BY <1>13, <2>1, <2>2, <2>3, <2>4, BitwiseBytes, ZeroByte
  <2>6. ~CarryOut(op, a, b, d)
    BY <1>13 DEF CarryOut, AddOp, SubOp, IncOp
  <2>7. ~(tmp >= 256)
    BY <2>5 DEF Byte
  <2>8. QED BY <1>1, <1>2, <1>3, <2>5, <2>6, <2>7
<1>14. QED
  BY <1>6, <1>7, <1>8, <1>9, <1>10, <1>11, <1>12, <1>13 DEF CommonOp

\* What aluop leaves is what the chips hold.
LEMMA UnitIsChips ==
  ASSUME NEW a \in Byte, NEW b \in Byte, NEW op \in CommonOp, NEW f \in Nibble, NEW junk
  PROVE  LET r == aluop(op, a, b, f, junk)
             chips == process(a, b, op, CF(f))
         IN  r.res = chips.res /\ ZF(r.f) = chips.zero /\ CF(r.f) = chips.carry /\ r.a = a
<1> DEFINE tmp == AluTmp(op, a, b, CF(f), junk)
           v == Overflow(op, a, b, tmp)
           s == Negative(tmp)
           z == (tmp % 256 = 0)
           k == (tmp >= 256)
           d == CarryTaken(op, CF(f), 1)
           t == Total(op, a, b, d)
           r == aluop(op, a, b, f, junk)
<1>1. v \in BOOLEAN /\ s \in BOOLEAN /\ z \in BOOLEAN /\ k \in BOOLEAN
  BY DEF Overflow, Negative
<1>2. r.res = tmp % 256 /\ r.f = Flags(v, s, z, k) /\ r.a = a
  BY DEF aluop, CommonOp, IncOp
<1>3. CF(f) \in 0 .. 1
  BY SMT DEF CF, Nibble
<1>4. op \in Nibble
  BY DEF CommonOp, Nibble
<1>5. tmp % 256 = t % 256 /\ (k <=> CarryOut(op, a, b, d))
  BY <1>3, SimulatedTotal
<1>6. /\ process(a, b, op, CF(f)).res = t % 256
      /\ process(a, b, op, CF(f)).zero = Flag(t % 256 = 0)
      /\ process(a, b, op, CF(f)).carry = Flag(CarryOut(op, a, b, d))
  BY <1>3, <1>4, BoardComputes
<1>7. z <=> t % 256 = 0
  BY <1>5
<1> HIDE DEF v, s, z, k, tmp, d, t, r
<1>8. ZF(r.f) = Flag(z) /\ CF(r.f) = Flag(k)
  BY <1>1, <1>2, FlagBits
<1>9. Flag(z) = Flag(t % 256 = 0) /\ Flag(k) = Flag(CarryOut(op, a, b, d))
  BY <1>5, <1>7 DEF Flag
<1>10. QED BY <1>2, <1>5, <1>6, <1>8, <1>9 DEF r, tmp, t
-------------------------------------------------------------------------------
\* A step that moves p in a state where an alu instruction is fetched is that instruction.
LEMMA OnlyAlu ==
  ASSUME TypeOK, Next, m'.p # m.p, Executes(0, 9)
  PROVE  Alu
<1>1. CASE Nop \/ Seta \/ Puta \/ Lit \/ Litw \/ Push \/ Pop \/ Pushw
  BY <1>1, OneOpcode DEF Nop, Seta, Puta, Lit, Litw, Push, Pop, Pushw
<1>2. CASE Popw \/ Cmp \/ Jmp \/ Jmps \/ Ret \/ Call \/ Ext
  BY <1>2, OneOpcode DEF Popw, Cmp, Jmp, Jmps, Ret, Call, Ext
<1>3. CASE Alus1 \/ Alus2 \/ Alus3 \/ Cmps2 \/ BadOp
  BY <1>3, OneOpcode DEF Alus1, Alus2, Alus3, Cmps2, BadOp
<1>4. CASE Xpp \/ Xmm \/ Ypp \/ Ymm \/ Spp \/ Smm \/ Calls \/ AdjustSp
  BY <1>4, OneOpcode DEF Xpp, Xmm, Ypp, Ymm, Spp, Smm, Calls, AdjustSp
<1>5. CASE PutRelSp \/ GetRelSp \/ PutRelSpW \/ GetRelSpW \/ Setb \/ Putb \/ SimInfo \/ SimHalt
  BY <1>5, OneOpcode
     DEF PutRelSp, GetRelSp, PutRelSpW, GetRelSpW, Setb, Putb, SimInfo, SimHalt
<1>6. CASE PrintsBadName \/ (\E c \in UartByte : UartArrive(c)) \/ Done
  <2>1. m'.p = m.p
    BY <1>6 DEF PrintsBadName, UartArrive, Done, TypeOK, Machine
  <2>2. QED BY <2>1
<1>7. QED BY <1>1, <1>2, <1>3, <1>4, <1>5, <1>6 DEF Next, LocalStep

\* Fetching an instruction leaves the operands of the unit alone.
LEMMA FetchKeepsOperands ==
  ASSUME TypeOK
  PROVE  /\ Fetched.a = m.a /\ Fetched.b = m.b /\ Fetched.f = m.f
         /\ Fetched.ir = Opcode
<1> DEFINE Same(g) == g.a = m.a /\ g.b = m.b /\ g.f = m.f
<1>1. ASSUME NEW g \in Machine, NEW adr, Same(g) PROVE Same(Load(g, adr)) /\ Load(g, adr).ir = g.ir
  <2>1. Same(UartRead(g)) /\ UartRead(g).ir = g.ir
    BY <1>1 DEF UartRead, Machine
  <2>2. QED BY <1>1, <2>1 DEF Load, Machine
<1>2. m \in Machine /\ Same(m)
  BY DEF TypeOK
<1>3. PICK l \in Machine : l = Load(m, m.p)
  BY <1>2, LoadTyped, Registers_Typed
<1>4. Same(l) /\ l.bus = Opcode
  BY <1>1, <1>2, <1>3 DEF Opcode
<1> DEFINE n == Imm(m)
           g == [n EXCEPT !.ir = n.bus]
<1>5. n \in Machine /\ Same(n) /\ n.bus = Opcode
  BY <1>2, <1>3, <1>4, ImmTyped DEF Imm, Machine
<1> HIDE DEF n
<1>6. g \in Machine /\ Same(g) /\ g.ir = Opcode
  BY <1>5, Registers_Typed, Assignments DEF Machine
<1> HIDE DEF g
<1>7. Same(PrintState(g)) /\ PrintState(g).ir = g.ir
  <2>1. PICK k \in Machine : k = Load(g, UartAddr)
    BY <1>6, LoadTyped, CpuAssumption
  <2>2. Same(k) /\ k.ir = g.ir
    BY <1>1, <1>6, <2>1
  <2>3. Same([k EXCEPT !.bus = g.bus]) /\ [k EXCEPT !.bus = g.bus].ir = g.ir
    BY <2>1, <2>2 DEF Machine
  <2>4. QED BY <1>6, <2>1, <2>3 DEF PrintState, Peek
<1>8. Fetched = (IF g.debug THEN PrintState(g) ELSE g)
  BY DEF Fetched, g, n
<1>9. QED BY <1>6, <1>7, <1>8

\* The hardware built from the generated table does what the simulator does, for every
\* image, operand and flag, in the operations the two have in common.
THEOREM SimulatorComputesAsChips == Spec => ComputesAsChips
<1>1. ASSUME TypeOK, [Next]_m
      PROVE  [Executes(0, 9) /\ Opcode % 16 \in CommonOp /\ m'.p # m.p
                => LET chips == process(m.a, m.b, Opcode % 16, CF(m.f))
                   IN  m'.a = chips.res /\ ZF(m'.f) = chips.zero /\ CF(m'.f) = chips.carry]_m
  <2> SUFFICES ASSUME Next, Executes(0, 9), Opcode % 16 \in CommonOp, m'.p # m.p
               PROVE  LET chips == process(m.a, m.b, Opcode % 16, CF(m.f))
                      IN  m'.a = chips.res /\ ZF(m'.f) = chips.zero /\ CF(m'.f) = chips.carry
    BY <1>1
  <2>1. PICK junk \in Junk : Retire(OpAlu(Fetched, junk))
    BY <1>1, OnlyAlu DEF Alu
  <2>2. junk \in Word
    BY CpuAssumption
  <2>3. Fetched \in Machine
    BY <1>1, FetchedTyped
  <2>4. PICK op \in CommonOp : op = Arg(Fetched) /\ op = Opcode % 16
    BY <1>1, FetchKeepsOperands DEF Arg
  <2>5. PICK a \in Byte, b \in Byte, f \in Nibble :
          a = m.a /\ b = m.b /\ f = m.f /\ a = Fetched.a /\ b = Fetched.b /\ f = Fetched.f
    BY <1>1, <2>3, FetchKeepsOperands, Registers_Typed
  <2>6. PICK r : r = aluop(op, a, b, f, junk)
    OBVIOUS
  <2>7. LET chips == process(a, b, op, CF(f))
        IN  r.res = chips.res /\ ZF(r.f) = chips.zero /\ CF(r.f) = chips.carry
    BY <2>6, UnitIsChips
  <2>8. PICK h \in Machine : h = Compute(Fetched, junk)
    BY <2>2, <2>3, ComputeTyped
  <2>9. h.bus = r.res /\ h.f = r.f
    <3>1. h = [Fetched EXCEPT !.bus = r.res, !.f = r.f, !.a = r.a]
      BY <2>4, <2>5, <2>6, <2>8 DEF Compute
    <3>2. QED BY <2>3, <3>1 DEF Machine
  <2>10. m'.a = r.res /\ m'.f = r.f
    <3>1. m' = [[h EXCEPT !.a = h.bus] EXCEPT !.bus = 0]
      BY <2>1, <2>8 DEF Retire, OpAlu, LatchA
    <3>2. QED BY <2>8, <2>9, <3>1 DEF Machine
  <2>11. QED BY <2>4, <2>5, <2>7, <2>10
<1>2. Spec => []TypeOK
  BY MachineTypeCorrect
<1>3. QED BY <1>1, <1>2, PTL DEF Spec, ComputesAsChips
===============================================================================
