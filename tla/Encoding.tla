------------------------------- MODULE Encoding --------------------------------
(***************************************************************************)
(* The machine code binutils/asm.c emits for an instruction: the position  *)
(* of its mnemonic in the keyword tables gives the opcode, the table gives *)
(* the section prefix, and the operand bytes the assembler then expects.   *)
(***************************************************************************)
EXTENDS Integers, Sequences, SequencesExt

opcodes_0 ==
  <<"nop", "seta", "puta", "lit", "litw", "push", "pop", "pushw",
    "popw", "alu", "cmp", "jmp", "jmps", "ret", "call", "ext">>

opcodes_2 == <<"alus1", "alus2", "alus3", "cmps2">>

opcodes_3 ==
  <<"x++", "x--", "y++", "y--", "s++", "s--", "calls", "adjust_sp",
    "put_rel_sp", "get_rel_sp", "put_rel_sp_w", "get_rel_sp_w",
    "setb", "putb", "info", "halt">>

\* Position of a keyword in its table, counted from 0.
find_keyword(table, op) == (CHOOSE i \in DOMAIN table : table[i] = op) - 1

alu_args ==
  <<"add", "sub", "neg", "shl", "shlc", "inc", "adc", "sbc", "not", "and", "or", "xor",
    "zero", "NOP", "shr", "shrc">>

args ==
  <<"a", "b", "xl", "xh", "yl", "yh", "sl", "sh", "sol", "soh", "", "m[so]", "", "m[x]",
    "m[y]", "m[s]">>

reg_16_names ==
  <<"a", "", "x", "", "y", "", "s", "", "~z", "", "", "", "", "", "", "">>

Conditions ==
  [o |-> 1, no |-> 9, s |-> 2, ns |-> 10, e |-> 3, z |-> 3, ne |-> 11, nz |-> 11,
   b |-> 4, nae |-> 4, c |-> 4, nb |-> 12, ae |-> 12, nc |-> 12, be |-> 5, na |-> 5,
   a |-> 13, nbe |-> 13, l |-> 6, nge |-> 6, ge |-> 14, nl |-> 14, le |-> 7, ng |-> 7,
   g |-> 15, nle |-> 15]

\* The table in which the argument of a mnemonic is looked up.
ArgumentTable(op) ==
  CASE op \in {"seta", "puta", "lit", "push", "pop", "put_rel_sp", "get_rel_sp", "setb", "putb"}
         -> args
    [] op \in {"litw", "pushw", "popw", "adjust_sp", "put_rel_sp_w", "get_rel_sp_w"}
         -> reg_16_names
    [] op \in {"alu", "cmp", "alus1", "alus2", "alus3", "cmps2"} -> alu_args
    [] OTHER -> <<>>

TakesCondition(op) == op \in {"jmp", "jmps"}

\* The opcode byte with its argument code, after the prefix of its section. The
\* mnemonic "ext" is known and emits nothing: only the assembler writes a prefix.
gen_instruction(op, arg) ==
  IF op = "ext" THEN <<>>
  ELSE IF Contains(opcodes_0, op) THEN <<16 * find_keyword(opcodes_0, op) + arg>>
  ELSE IF Contains(opcodes_2, op) THEN <<242, 16 * find_keyword(opcodes_2, op) + arg>>
  ELSE <<243, 16 * find_keyword(opcodes_3, op) + arg>>

\* expect_arg_n * expect_arg_size: the operand bytes that must follow.
expect_arg(op) ==
  CASE op \in {"lit", "alus1", "adjust_sp", "put_rel_sp", "get_rel_sp",
               "put_rel_sp_w", "get_rel_sp_w", "info"}    -> 1
    [] op \in {"litw", "jmp", "call", "alus2", "cmps2"}   -> 2
    [] op = "alus3"                                       -> 3
    [] OTHER                                              -> 0

\* A word operand: low byte first.
WordOperand(w) == <<w % 256, w \div 256>>

Accepted(inst) == Len(inst.operand) = expect_arg(inst.op)

Assembled(inst) == gen_instruction(inst.op, inst.arg) \o inst.operand

\* What the assembler takes for an instruction that emits something.
Mnemonics == (ToSet(opcodes_0) \ {"ext"}) \union ToSet(opcodes_2) \union ToSet(opcodes_3)

Instruction == [op : Mnemonics, arg : 0 .. 15, operand : Seq(0 .. 255)]

\* The code of a program.
Code(program) == FlattenSeq([i \in DOMAIN program |-> Assembled(program[i])])

\* Where each instruction of a program ends and the next one starts.
Positions(program) ==
  LET at[i \in 0 .. Len(program)] ==
        IF i = 0 THEN 0 ELSE at[i - 1] + Len(Assembled(program[i]))
  IN  at

Starts(program) == {Positions(program)[i] : i \in 0 .. Len(program)}
===============================================================================
