-------------------------------- MODULE AluTable --------------------------------
(***************************************************************************)
(* The arithmetic unit in hardware: two memory chips, one for each half of *)
(* a byte, whose contents alu/generate_alu_table.cpp writes. A chip's      *)
(* address is a half of A, a half of B, the operation and a carry; there   *)
(* it holds a half of the result, whether that is zero, and a carry.       *)
(***************************************************************************)
EXTENDS Cpu

build_addr(a, b, cmd, carry) == a + 16 * b + 256 * cmd + 4096 * carry

\* The chip of the low half adds a carry in two operations only.
CarryTaken(cmd, carry, is_first) ==
  IF cmd \in {6, 7} \/ (is_first = 0 /\ cmd \in {0, 1, 2, 3, 5}) THEN carry ELSE 0

\* F of alu_value_for_input(), a uint8_t.
HalfResult(cmd, a, b, c, is_first) ==
  CASE cmd \in AddOp -> a + b + c
    [] cmd \in SubOp -> (a - b - c) % 256
    [] cmd = 2  -> (0 - a - c) % 256
    [] cmd = 3  -> 2 * a + c
    [] cmd = IncOp -> a + (IF is_first = 1 THEN 1 ELSE c)
    [] cmd = 8  -> 255 - a
    [] cmd = 9  -> And(a, b)
    [] cmd = 10 -> Or(a, b)
    [] cmd = 11 -> Xor(a, b)
    [] OTHER    -> 0

Output(f) == (f % 16) + 16 * Flag(f % 16 = 0) + 32 * Flag(f >= 16)

\* Mutant: the high chip does not take the carry of the low one.
alu_value_for_input_NoCarry(addr, is_first) ==
  Output(HalfResult((addr \div 256) % 16, addr % 16, (addr \div 16) % 16, 0, is_first))

\* The byte at an address of a chip's image.
alu_value_for_input(addr, is_first) ==
  LET cmd == (addr \div 256) % 16
  IN  Output(HalfResult(cmd, addr % 16, (addr \div 16) % 16,
                        CarryTaken(cmd, (addr \div 4096) % 2, is_first), is_first))

Carry(output) == (output \div 32) % 2
Zero(output) == (output \div 16) % 2

\* process(): the chips put together, the carry of the low one going into the high one. The
\* result and the flags the board has, with a carry into the low chip (0 in process).
process(a, b, cmd, carry_in_low) ==
  LET low  == alu_value_for_input(build_addr(a % 16, b % 16, cmd, carry_in_low), 1)
      high == alu_value_for_input(build_addr(a \div 16, b \div 16, cmd, Carry(low)), 0)
  IN  [res |-> (low % 16) + 16 * (high % 16), zero |-> Zero(low) * Zero(high), carry |-> Carry(high)]

\* What do_test() expects without a carry.
Expected(cmd, a, b) ==
  CASE cmd \in AddOp -> (a + b) % 256
    [] cmd \in SubOp -> (a - b) % 256
    [] cmd = 2  -> (0 - a) % 256
    [] cmd = 3  -> (2 * a) % 256
    [] cmd = IncOp -> (a + 1) % 256
    [] cmd = 8  -> 255 - a
    [] cmd = 9  -> And(a, b)
    [] cmd = 10 -> Or(a, b)
    [] cmd = 11 -> Xor(a, b)
    [] OTHER    -> 0

\* The program's own test, which passes for all bytes and operations.
do_test(a, b, cmd) == process(a, b, cmd, 0).res = Expected(cmd, a, b)

\* The operations the chips and the simulator have in common. The chips shift and rotate
\* nothing to the right, and the simulator's increment is another one.
CommonOp == {0, 1, 2, 3, 6, 7, 8, 9, 10, 11, 12}

\* With the carry flag as the carry into the low chip, the chips hold what the simulated
\* instruction leaves in A, the zero and the carry flag (generate_alu_table.cpp, op_alu).
ComputesAsChips ==
  [][Executes(0, 9) /\ Opcode % 16 \in CommonOp /\ m'.p # m.p
       => LET chips == process(m.a, m.b, Opcode % 16, CF(m.f))
          IN  m'.a = chips.res /\ ZF(m'.f) = chips.zero /\ CF(m'.f) = chips.carry]_m
================================================================================
