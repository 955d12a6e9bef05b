----------------------------- MODULE RuntimeLibrary ----------------------------
(***************************************************************************)
(* Assembly text as the compiler and the runtime library write it, the     *)
(* program it stands for once it is assembled and linked, and the text of  *)
(* the library.                                                            *)
(*                                                                         *)
(* A line is a tuple: <<"label", name>>, or a mnemonic, its argument where *)
(* it has one, and its operands. An operand that names a label is written  *)
(* without the $; "litw$" is a litw with such an operand.                  *)
(***************************************************************************)
EXTENDS Encoding


LOCAL IsLabel(line) == line[1] = "label"

Op(line) == IF line[1] = "litw$" THEN "litw" ELSE line[1]

\* The code of the argument: a condition, or a word of the table of the mnemonic.
ArgumentCode(line) ==
  IF TakesCondition(Op(line))
  THEN IF Len(line) = 1 \/ line[2] = "" THEN 0 ELSE Conditions[line[2]]
  ELSE IF ArgumentTable(Op(line)) # <<>> THEN find_keyword(ArgumentTable(Op(line)), line[2]) ELSE 0

LineSize(line) == IF IsLabel(line) THEN 0
                  ELSE Len(gen_instruction(Op(line), 0)) + expect_arg(Op(line))

\* Long texts are taken by halves: the stack of the checker is short.
FirstHalf(s) == SubSeq(s, 1, Len(s) \div 2)
SecondHalf(s) == SubSeq(s, Len(s) \div 2 + 1, Len(s))

RECURSIVE Size(_), LabelAddress(_, _), CodeOf(_), StartsFrom(_, _)

Size(text) ==
  CASE text = <<>>   -> 0
    [] Len(text) = 1 -> LineSize(text[1])
    [] OTHER         -> Size(FirstHalf(text)) + Size(SecondHalf(text))

\* The address of every label, the first line standing at address base.
LabelAddress(text, base) ==
  CASE text = <<>>   -> <<>>
    [] Len(text) = 1 -> IF IsLabel(text[1]) THEN text[1][2] :> base ELSE <<>>
    [] OTHER         -> LabelAddress(FirstHalf(text), base)
                          @@ LabelAddress(SecondHalf(text), base + Size(FirstHalf(text)))

\* Code and Starts of a program that is longer than the samples are.
CodeOf(program) ==
  IF Len(program) < 2 THEN Code(program) ELSE CodeOf(FirstHalf(program)) \o CodeOf(SecondHalf(program))

StartsFrom(program, base) ==
  IF Len(program) < 2 THEN {base + adr : adr \in Starts(program)}
  ELSE StartsFrom(FirstHalf(program), base)
         \union StartsFrom(SecondHalf(program), base + Len(CodeOf(FirstHalf(program))))

\* The operand bytes; numbers are cut to the size of their operand.
OperandBytes(line, address) ==
  CASE Op(line) = "jmp"    -> WordOperand(address[line[3]])
    [] Op(line) = "call"   -> WordOperand(address[line[2]])
    [] line[1]  = "litw$"  -> WordOperand(address[line[3]])
    [] line[1]  = "litw"   -> WordOperand(line[3] % 65536)
    [] OTHER -> [k \in 1 .. Len(line) - 2 |-> line[k + 2] % 256]

\* The instructions of the text, with every reference to a label resolved.
Resolved(text, address) ==
  LET lines == SelectSeq(text, LAMBDA line : ~IsLabel(line))
  IN  [i \in DOMAIN lines |->
         [op |-> Op(lines[i]), arg |-> ArgumentCode(lines[i]),
          operand |-> OperandBytes(lines[i], address)]]

\* The labels a text defines, and those it calls or takes the address of.
Defines(text) == {text[i][2] : i \in {j \in DOMAIN text : IsLabel(text[j])}}
References(text) ==
  {text[i][2] : i \in {j \in DOMAIN text : text[j][1] = "call"}}
    \union {text[i][3] : i \in {j \in DOMAIN text : text[j][1] = "litw$"}}

\* main with the sections of the library it needs behind it, as the linker keeps them:
\* those whose labels are called, directly or from a section that is kept.
Linked(main, library) ==
  LET Needed(kept) == {text \in library : \E one \in kept : Defines(text) \intersect References(one) # {}}
      needed == FoldLeft(LAMBDA kept, n : kept \union Needed(kept), Needed({main}),
                         [n \in 1 .. Cardinality(library) |-> n])
  IN  FoldSet(LAMBDA one, text : text \o one, main, needed)
-------------------------------------------------------------------------------
\* The arithmetic the compiler calls for (binutils/crt1.s), one listing for each section of
\* the file. Labels stand without their __crt_. On entry m[s+1..s+2] is the return address;
\* above it lie the room for the result, the second and the first argument.

MULU1 ==
  <<<<"label", "MULU1">>, <<"get_rel_sp", "xl", 4>>, <<"get_rel_sp", "xh", 5>>, <<"lit", "yl", 0>>,
    <<"label", "MULU1_loop">>,
    <<"seta", "xh">>, <<"lit", "b", 0>>, <<"cmp", "sub">>, <<"jmp", "z", "MULU1_end">>,
    <<"seta", "xh">>, <<"alu", "shr">>, <<"puta", "xh">>, <<"jmp", "nc", "MULU1_nc">>,
    <<"seta", "xl">>, <<"setb", "yl">>, <<"alu", "add">>, <<"puta", "yl">>,
    <<"label", "MULU1_nc">>, <<"seta", "xl">>, <<"alu", "shl">>, <<"puta", "xl">>,
    <<"jmp", "", "MULU1_loop">>,
    <<"label", "MULU1_end">>, <<"put_rel_sp", "yl", 3>>, <<"ret">>>>

\* The second argument (m[7..8], its high byte at `top`) is shifted out; the first one is
\* added where a bit was.
MUL2From(top, adc) ==
  <<<<"label", "MULI2">>, <<"label", "MULU2">>, <<"litw", "a", 0>>, <<"put_rel_sp_w", "a", 3>>,
    <<"label", "MULI2_loop">>, <<"lit", "b", 0>>,
    <<"get_rel_sp", "a", 8>>, <<"alu", "sub">>, <<"jmp", "ne", "MULI2_continue">>,
    <<"get_rel_sp", "a", 7>>, <<"alu", "sub">>, <<"jmp", "e", "MULI2_end">>,
    <<"label", "MULI2_continue">>, <<"alus1", "shr", top>>, <<"alus1", "shrc", top - 1>>,
    <<"jmp", "nc", "MULI2_nc">>, <<"alus2", "add", 5, 3>>, <<"alus2", adc, 6, 4>>,
    <<"label", "MULI2_nc">>, <<"alus1", "shl", 5>>, <<"alus1", "shlc", 6>>,
    <<"jmp", "", "MULI2_loop">>, <<"label", "MULI2_end">>, <<"ret">>>>

\* Mutants: the high byte is added without the carry; the offset of the second argument is
\* counted one too high.
MUL2_NoCarry == MUL2From(8, "add")
MUL2_OffByOne == MUL2From(9, "adc")

MUL2 == MUL2From(8, "adc")

MUL4 ==
  <<<<"label", "MULI4">>, <<"label", "MULU4">>, <<"litw", "a", 0>>,
    <<"put_rel_sp_w", "a", 3>>, <<"put_rel_sp_w", "a", 5>>,
    <<"label", "MULI4_loop">>, <<"lit", "b", 0>>,
    <<"get_rel_sp", "a", 14>>, <<"alu", "sub">>, <<"jmp", "ne", "MULI4_continue">>,
    <<"get_rel_sp", "a", 13>>, <<"alu", "sub">>, <<"jmp", "ne", "MULI4_continue">>,
    <<"get_rel_sp", "a", 12>>, <<"alu", "sub">>, <<"jmp", "ne", "MULI4_continue">>,
    <<"get_rel_sp", "a", 11>>, <<"alu", "sub">>, <<"jmp", "e", "MULI4_end">>,
    <<"label", "MULI4_continue">>, <<"alus1", "shr", 14>>, <<"alus1", "shrc", 13>>,
    <<"alus1", "shrc", 12>>, <<"alus1", "shrc", 11>>, <<"jmp", "nc", "MULI4_nc">>,
    <<"alus2", "add", 7, 3>>, <<"alus2", "adc", 8, 4>>, <<"alus2", "adc", 9, 5>>,
    <<"alus2", "adc", 10, 6>>,
    <<"label", "MULI4_nc">>, <<"alus1", "shl", 7>>, <<"alus1", "shlc", 8>>,
    <<"alus1", "shlc", 9>>, <<"alus1", "shlc", 10>>, <<"jmp", "", "MULI4_loop">>,
    <<"label", "MULI4_end">>, <<"ret">>>>
-------------------------------------------------------------------------------
\* Division bit by bit: N at m[9..10], D at m[7..8], Q at m[5..6], R in y, the bit in x.
crt_divide_worker ==
  <<<<"label", "divide_worker">>, <<"lit", "a", 0>>, <<"put_rel_sp", "a", 5>>,
    <<"put_rel_sp", "a", 6>>, <<"litw", "y", 0>>, <<"litw", "x", 32768>>,
    <<"label", "DIVI2_loop">>,
    <<"seta", "yl">>, <<"alu", "shl">>, <<"puta", "yl">>,
    <<"seta", "yh">>, <<"alu", "shlc">>, <<"puta", "yh">>,
    <<"get_rel_sp", "a", 10>>, <<"setb", "xh">>, <<"cmp", "and">>,
    <<"jmp", "z", "DIVI2_no_high_bit">>, <<"y++">>, <<"jmp", "", "DIVI2_end_set">>,
    <<"label", "DIVI2_no_high_bit">>,
    <<"get_rel_sp", "a", 9>>, <<"setb", "xl">>, <<"cmp", "and">>,
    <<"jmp", "z", "DIVI2_end_set">>, <<"y++">>,
    <<"label", "DIVI2_end_set">>,
    <<"get_rel_sp", "b", 8>>, <<"seta", "yh">>, <<"cmp", "sub">>,
    <<"jmp", "b", "DIVI2_end_cmp">>, <<"jmp", "a", "DIVI2_cmp_true">>,
    <<"get_rel_sp", "b", 7>>, <<"seta", "yl">>, <<"cmp", "sub">>,
    <<"jmp", "ae", "DIVI2_cmp_true">>, <<"jmp", "", "DIVI2_end_cmp">>,
    <<"label", "DIVI2_cmp_true">>,
    <<"get_rel_sp", "b", 7>>, <<"seta", "yl">>, <<"alu", "sub">>, <<"puta", "yl">>,
    <<"get_rel_sp", "b", 8>>, <<"seta", "yh">>, <<"alu", "sbc">>, <<"puta", "yh">>,
    <<"get_rel_sp", "a", 5>>, <<"setb", "xl">>, <<"alu", "or">>, <<"put_rel_sp", "a", 5>>,
    <<"get_rel_sp", "a", 6>>, <<"setb", "xh">>, <<"alu", "or">>, <<"put_rel_sp", "a", 6>>,
    <<"label", "DIVI2_end_cmp">>,
    <<"seta", "xh">>, <<"alu", "shr">>, <<"puta", "xh">>,
    <<"seta", "xl">>, <<"alu", "shrc">>, <<"puta", "xl">>,
    <<"jmp", "nc", "DIVI2_loop">>, <<"ret">>>>

crt_DIVU2 ==
  <<<<"label", "DIVU2">>, <<"call", "divide_worker">>, <<"ret">>,
    <<"label", "MODU2">>, <<"call", "divide_worker">>, <<"put_rel_sp_w", "y", 3>>, <<"ret">>>>

crt_negate_16 ==
  <<<<"label", "__negate_tos_16">>, <<"lit", "a", 0>>, <<"push", "a">>,
    <<"alus3", "sub", 4, 1, 4>>, <<"alus3", "sbc", 5, 1, 5>>, <<"adjust_sp", "s", 1>>, <<"ret">>>>

\* A copy of the next word of the arguments is pushed, and negated if it is negative; xl
\* counts those that were.
Magnitude16(done) ==
  <<<<"get_rel_sp_w", "a", 8>>, <<"pushw", "a">>, <<"lit", "a", 128>>, <<"cmp", "and">>,
    <<"jmp", "z", done>>, <<"x++">>, <<"call", "__negate_tos_16">>, <<"label", done>>>>

\* Mutant: the count of negative arguments is not saved across the call.
Signed16_CountInX(name, unsigned, one, two, end) ==
  <<<<"label", name>>, <<"lit", "xl", 0>>, <<"push", "xl">>>>
    \o Magnitude16(one) \o Magnitude16(two)
    \o <<<<"pushw", "a">>, <<"call", unsigned>>,
         <<"lit", "a", 1>>, <<"setb", "xl">>, <<"cmp", "and">>, <<"jmp", "z", end>>,
         <<"call", "__negate_tos_16">>, <<"label", end>>,
         <<"popw", "a">>, <<"put_rel_sp_w", "a", 8>>, <<"adjust_sp", "s", 5>>, <<"ret">>>>

\* DIVI2 and MODI2 differ in the routine they call: its result is negated when one of
\* the arguments was negative.
Signed16(name, unsigned, one, two, end) ==
  <<<<"label", name>>, <<"lit", "xl", 0>>, <<"push", "xl">>>>
    \o Magnitude16(one) \o Magnitude16(two)
    \o <<<<"pushw", "a">>, <<"put_rel_sp", "xl", 7>>, <<"call", unsigned>>,
         <<"get_rel_sp", "xl", 7>>, <<"lit", "a", 1>>, <<"setb", "xl">>, <<"cmp", "and">>,
         <<"jmp", "z", end>>, <<"call", "__negate_tos_16">>, <<"label", end>>,
         <<"popw", "a">>, <<"put_rel_sp_w", "a", 8>>, <<"adjust_sp", "s", 5>>, <<"ret">>>>

crt_DIVI2 == Signed16("DIVI2", "DIVU2", "divi2_move_1_end", "divi2_move_2_end", "divi2_move_retval")
crt_MODI2 == Signed16("MODI2", "MODU2", "modi2_move_1_end", "modi2_move_2_end", "modi2_move_retval")
-------------------------------------------------------------------------------
\* If the bit of the numerator is set, R(0) is to be set: x becomes 1.
TestBit(n, i, next) ==
  <<<<"cmps2", "and", n, i>>, <<"jmp", "z", next>>, <<"x++">>, <<"jmp", "", "DIVI4_end_set">>>>

\* One byte of R >= D: decided unless equal.
TestByte(d, r) ==
  <<<<"cmps2", "sub", d, r>>, <<"jmp", "b", "DIVI4_end_cmp">>, <<"jmp", "a", "DIVI4_cmp_true">>>>

\* N at m[21..24], D at m[17..20], Q at m[13..16], and in 8 bytes of its own the bit at
\* m[1..4] and R at m[5..8], which it returns in x and y.
crt_divide32_worker ==
  <<<<"label", "divide32_worker">>,
    <<"seta", "sl">>, <<"lit", "b", 8>>, <<"alu", "sub">>, <<"puta", "sl">>,
    <<"seta", "sh">>, <<"lit", "b", 0>>, <<"alu", "sbc">>, <<"puta", "sh">>,
    <<"litw", "a", 0>>, <<"put_rel_sp_w", "a", 13>>, <<"put_rel_sp_w", "a", 15>>,
    <<"put_rel_sp_w", "a", 5>>, <<"put_rel_sp_w", "a", 7>>,
    <<"put_rel_sp_w", "a", 1>>, <<"litw", "a", 32768>>, <<"put_rel_sp_w", "a", 3>>,
    <<"label", "DIVI4_loop">>,
    <<"alus1", "shl", 5>>, <<"alus1", "shlc", 6>>, <<"alus1", "shlc", 7>>, <<"alus1", "shlc", 8>>,
    <<"lit", "xl", 0>>>>
    \o TestBit(24, 4, "DIVI4_no_3_bit")
    \o <<<<"label", "DIVI4_no_3_bit">>>> \o TestBit(23, 3, "DIVI4_no_2_bit")
    \o <<<<"label", "DIVI4_no_2_bit">>>> \o TestBit(22, 2, "DIVI4_no_1_bit")
    \o <<<<"label", "DIVI4_no_1_bit">>>> \o TestBit(21, 1, "DIVI4_end_set")
    \o <<<<"label", "DIVI4_end_set">>,
         <<"setb", "xl">>, <<"get_rel_sp", "a", 5>>, <<"alu", "or">>, <<"put_rel_sp", "a", 5>>>>
    \o TestByte(20, 8) \o TestByte(19, 7) \o TestByte(18, 6)
    \o <<<<"cmps2", "sub", 17, 5>>, <<"jmp", "ae", "DIVI4_cmp_true">>,
         <<"jmp", "", "DIVI4_end_cmp">>,
         <<"label", "DIVI4_cmp_true">>,
         <<"alus2", "sub", 17, 5>>, <<"alus2", "sbc", 18, 6>>, <<"alus2", "sbc", 19, 7>>,
         <<"alus2", "sbc", 20, 8>>,
         <<"alus2", "or", 1, 13>>, <<"alus2", "or", 2, 14>>, <<"alus2", "or", 3, 15>>,
         <<"alus2", "or", 4, 16>>,
         <<"label", "DIVI4_end_cmp">>,
         <<"alus1", "shr", 4>>, <<"alus1", "shrc", 3>>, <<"alus1", "shrc", 2>>,
         <<"alus1", "shrc", 1>>, <<"jmp", "nc", "DIVI4_loop">>,
         <<"get_rel_sp_w", "x", 5>>, <<"get_rel_sp_w", "y", 7>>, <<"adjust_sp", "s", 8>>, <<"ret">>>>

crt_DIVU4 == <<<<"label", "DIVU4">>, <<"call", "divide32_worker">>, <<"ret">>>>

crt_MODU4 ==
  <<<<"label", "MODU4">>, <<"call", "divide32_worker">>,
    <<"put_rel_sp_w", "x", 3>>, <<"put_rel_sp_w", "y", 5>>, <<"ret">>>>

crt_negate32 ==
  <<<<"label", "__negate_tos_32">>, <<"lit", "a", 0>>, <<"push", "a">>,
    <<"alus3", "sub", 4, 1, 4>>, <<"alus3", "sbc", 5, 1, 5>>, <<"alus3", "sbc", 6, 1, 6>>,
    <<"alus3", "sbc", 7, 1, 7>>, <<"adjust_sp", "s", 1>>, <<"ret">>>>

Magnitude32(done) ==
  <<<<"get_rel_sp_w", "a", 14>>, <<"pushw", "a">>, <<"get_rel_sp_w", "a", 14>>, <<"pushw", "a">>,
    <<"get_rel_sp_w", "a", 3>>, <<"lit", "a", 128>>, <<"cmp", "and">>,
    <<"jmp", "z", done>>, <<"x++">>, <<"call", "__negate_tos_32">>, <<"label", done>>>>

\* DIVI4 and MODI4.
Signed32(name, unsigned, one, two, end) ==
  <<<<"label", name>>, <<"lit", "xl", 0>>, <<"push", "xl">>>>
    \o Magnitude32(one) \o Magnitude32(two)
    \o <<<<"pushw", "a">>, <<"pushw", "a">>, <<"put_rel_sp", "xl", 13>>, <<"call", unsigned>>,
         <<"get_rel_sp", "xl", 13>>, <<"lit", "a", 1>>, <<"setb", "xl">>, <<"cmp", "and">>,
         <<"jmp", "z", end>>, <<"call", "__negate_tos_32">>, <<"label", end>>,
         <<"popw", "a">>, <<"put_rel_sp_w", "a", 14>>, <<"popw", "a">>, <<"put_rel_sp_w", "a", 14>>,
         <<"adjust_sp", "s", 9>>, <<"ret">>>>

crt_DIVI4 == Signed32("DIVI4", "DIVU4", "divi4_move_1_end", "divi4_move_2_end", "divi4_move_retval")
crt_MODI4 == Signed32("MODI4", "MODU4", "modi4_move_1_end", "modi4_move_2_end", "modi4_move_retval")

\* The sections of crt1.s.
Library ==
  {MULU1, MUL2, MUL4, crt_divide_worker, crt_DIVU2, crt_negate_16, crt_DIVI2, crt_MODI2,
   crt_divide32_worker, crt_DIVU4, crt_MODU4, crt_negate32, crt_DIVI4, crt_MODI4}
===============================================================================
