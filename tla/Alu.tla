---------------------------------- MODULE Alu ----------------------------------
(***************************************************************************)
(* The arithmetic unit of sim/sim.c: aluop() and the jump conditions, as   *)
(* functions of the accumulators and the flags.                            *)
(***************************************************************************)
EXTENDS Integers

Byte == 0 .. 255
WordSize == 65536
Word == 0 .. WordSize - 1
Nibble == 0 .. 15

Lo(w) == w % 256
Hi(w) == w \div 256
Pair(h, l) == 256 * h + l
Inc16(w) == (w + 1) % 65536

\* Mutant: a decrement that does not wrap.
Dec16_NoWrap(w) == w - 1

Dec16(w) == (w - 1) % 65536

Flag(cond) == IF cond THEN 1 ELSE 0
Negative(n) == (n \div 128) % 2 = 1
Signed(n) == IF n < 128 THEN n ELSE n - 256

Bit(n, weight) == (n \div weight) % 2

\* The byte whose bits are given by a function of their weight.
FromBits(bit) ==
  bit[1] + 2 * bit[2] + 4 * bit[4] + 8 * bit[8] + 16 * bit[16] + 32 * bit[32]
    + 64 * bit[64] + 128 * bit[128]

Weight == {1, 2, 4, 8, 16, 32, 64, 128}

And(a, b) == FromBits([w \in Weight |-> Bit(a, w) * Bit(b, w)])
Or(a, b)  == FromBits([w \in Weight |-> Flag(Bit(a, w) + Bit(b, w) > 0)])
Xor(a, b) == FromBits([w \in Weight |-> Flag(Bit(a, w) # Bit(b, w))])

AddOp == {0, 6}
SubOp == {1, 7}
IncOp == 5
JunkOp == 13

CF(f) == f % 2
ZF(f) == (f \div 2) % 2
SF(f) == (f \div 4) % 2
VF(f) == (f \div 8) % 2

\* Subtraction in a uint16_t: a borrow shows as a high byte that is not 0.
Difference(a, b, c) == (a - b - c) % 65536

\* The 16-bit intermediate result `tmp`. Operation 13 leaves it uninitialised: it is
\* then whatever the stack holds, given as `junk`.
AluTmp(op, a, b, c, junk) ==
  CASE op = 0  -> a + b
    [] op = 1  -> Difference(a, b, 0)
    [] op = 2  -> Difference(0, a, 0)
    [] op = 3  -> 2 * a
    [] op = 4  -> 2 * a + c
    [] op = 5  -> a
    [] op = 6  -> a + b + c
    [] op = 7  -> Difference(a, b, c)
    [] op = 8  -> 65535 - a
    [] op = 9  -> And(a, b)
    [] op = 10 -> Or(a, b)
    [] op = 11 -> Xor(a, b)
    [] op = 12 -> 0
    [] op = 14 -> a \div 2 + 256 * (a % 2)
    [] op = 15 -> a \div 2 + 256 * (a % 2) + 128 * c
    [] OTHER   -> junk

\* Mutant: the overflow rule of addition is used for subtraction too.
Overflow_AsAddition(op, a, b, tmp) ==
  /\ op \in AddOp \union SubOp
  /\ Negative(a) <=> Negative(b)
  /\ Negative(a) <=> ~Negative(tmp)

Overflow(op, a, b, tmp) ==
  \/ /\ op \in AddOp
     /\ Negative(a) <=> Negative(b)
     /\ Negative(a) <=> ~Negative(tmp)
  \/ /\ op \in SubOp
     /\ Negative(a) <=> ~Negative(b)
     /\ Negative(a) <=> ~Negative(tmp)

Flags(v, s, z, c) == 8 * Flag(v) + 4 * Flag(s) + 2 * Flag(z) + Flag(c)

\* aluop(): the result, the flags, and A itself, which operation IncOp changes on
\* its own (tmp = r.a++).
aluop(op, a, b, f, junk) ==
  LET tmp == AluTmp(op, a, b, CF(f), junk)
  IN  [res |-> tmp % 256,
       f   |-> Flags(Overflow(op, a, b, tmp), Negative(tmp),
                     tmp % 256 = 0, tmp >= 256),
       a   |-> IF op = IncOp THEN (a + 1) % 256 ELSE a]

\* cond_vec of op_jmp, indexed by the low three bits of the operand; the fourth
\* bit inverts it.
Condition(k, f) ==
  CASE k = 0 -> TRUE
    [] k = 1 -> VF(f) = 1
    [] k = 2 -> SF(f) = 1
    [] k = 3 -> ZF(f) = 1
    [] k = 4 -> CF(f) = 1
    [] k = 5 -> CF(f) = 1 \/ ZF(f) = 1
    [] k = 6 -> SF(f) # VF(f)
    [] OTHER -> ZF(f) = 1 \/ SF(f) # VF(f)

Taken(arg, f) == Condition(arg % 8, f) <=> arg < 8
-------------------------------------------------------------------------------
\* What the conditional jumps decide after a comparison of A and B.
Orders(a, b, f) ==
  /\ Taken(3, f) <=> a = b                          \* JE
  /\ Taken(11, f) <=> a # b                         \* JNE
  /\ Taken(4, f) <=> a < b                          \* JB
  /\ Taken(12, f) <=> a >= b                        \* JAE
  /\ Taken(5, f) <=> a <= b                         \* JBE
  /\ Taken(13, f) <=> a > b                         \* JA
  /\ Taken(6, f) <=> Signed(a) < Signed(b)          \* JL
  /\ Taken(14, f) <=> Signed(a) >= Signed(b)        \* JGE
  /\ Taken(7, f) <=> Signed(a) <= Signed(b)         \* JLE
  /\ Taken(15, f) <=> Signed(a) > Signed(b)         \* JG

\* Chaining add with adc, and sub with sbc, through the carry flag adds and
\* subtracts words, and leaves the carry and the overflow of the word operation.
WideArithmetic(v, w, f) ==
  LET lo  == aluop(0, Lo(v), Lo(w), f, 0)
      hi  == aluop(6, Hi(v), Hi(w), lo.f, 0)
      lo2 == aluop(1, Lo(v), Lo(w), f, 0)
      hi2 == aluop(7, Hi(v), Hi(w), lo2.f, 0)
  IN  /\ Pair(hi.res, lo.res) = (v + w) % 65536
      /\ CF(hi.f) = Flag(v + w >= 65536)
      /\ Pair(hi2.res, lo2.res) = (v - w) % 65536
      /\ CF(hi2.f) = Flag(v < w)
===============================================================================
