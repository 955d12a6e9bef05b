--------------------------------- MODULE MCCpu ---------------------------------
(***************************************************************************)
(* Programs for the model checker: a start like that of crt0.s, two        *)
(* subroutines, and a main part put together from short blocks that leave  *)
(* the stack as they found it, as compiled code does; and images.          *)
(***************************************************************************)
EXTENDS CpuProgram, AluTable

I(op, arg, operand) == <<[op |-> op, arg |-> arg, operand |-> operand]>>
P(op) == I(op, 0, <<>>)

\* Argument codes (keywords.h).
A == 0  B == 1  XL == 2  X == 2  Y == 4  S == 6  SL == 6  SH == 7
SOL == 8  SOH == 9  OFF == 10  MSO == 11  MX == 13  MY == 14  MS == 15

Top == 65535
Uart == 16384
Exit == 6
Leaf == 8
Outer == 11

\* Start at 0, Exit at 6, Leaf at 8, Outer at 11, Main at 17.
Prologue ==
  I("litw", S, WordOperand(Top)) \o I("jmp", 0, WordOperand(17)) \o P("halt")
    \o I("push", A, <<>>) \o I("pop", B, <<>>) \o P("ret")
    \o I("pushw", X, <<>>) \o I("call", 0, WordOperand(Leaf))
    \o I("popw", Y, <<>>) \o P("ret")

LitAB(v, w) == I("lit", A, <<v>>) \o I("lit", B, <<w>>)
Sample == {0, 1, 127, 128, 255}

AluBlocks ==
  {LitAB(200, 77) \o I("alu", op, <<>>) \o I("cmp", op, <<>>) : op \in 0 .. 15}

BranchBlocks ==
  {LitAB(v, w) \o I("cmp", 1, <<>>) \o I("jmp", 13, WordOperand(Exit)) :
     v, w \in Sample}

StackBlocks ==
  {I("pushw", X, <<>>) \o I("popw", Y, <<>>),
   I("litw", X, <<52, 18>>) \o I("pushw", X, <<>>) \o I("pushw", Y, <<>>)
     \o I("popw", A, <<>>) \o I("popw", Y, <<>>),
   I("pushw", A, <<>>) \o I("put_rel_sp_w", X, <<1>>) \o I("get_rel_sp_w", Y, <<1>>)
     \o I("adjust_sp", S, <<2>>),
   P("s--") \o I("put_rel_sp", A, <<1>>) \o I("get_rel_sp", B, <<1>>) \o P("s++"),
   P("s--") \o P("s--") \o I("alus1", 3, <<1>>) \o I("alus2", 0, <<1, 2>>)
     \o I("alus3", 7, <<2, 1, 2>>) \o I("cmps2", 1, <<1, 2>>) \o P("s++") \o P("s++"),
   I("push", MSO, <<>>) \o I("pop", OFF, <<>>) \o I("seta", MSO, <<>>)}

CallBlocks ==
  {I("call", 0, WordOperand(Leaf)) \o I("call", 0, WordOperand(Outer)),
   I("litw", X, WordOperand(Outer)) \o I("pushw", X, <<>>) \o P("calls"),
   I("push", B, <<>>) \o I("call", 0, WordOperand(Outer)) \o I("pop", B, <<>>),
   I("litw", Y, WordOperand(Exit)) \o I("pushw", Y, <<>>) \o I("jmps", 3, <<>>)}

DeviceBlocks ==
  {I("litw", Y, WordOperand(Uart)) \o I("seta", MY, <<>>) \o I("puta", MY, <<>>),
   I("litw", X, <<240, 255>>) \o I("puta", MX, <<>>) \o I("setb", MX, <<>>)
     \o I("putb", XL, <<>>),
   P("x++") \o P("x--") \o P("x--") \o P("y--") \o P("y++"),
   P("nop") \o I("info", 0, <<100>>),
   I("info", 0, <<255>>) \o P("nop") \o I("info", 0, <<254>>),
   I("litw", S, WordOperand(Uart - 5)) \o I("info", 0, <<255>>)
     \o I("litw", S, WordOperand(Uart - 25)) \o I("info", 0, <<100>>)
     \o I("litw", S, WordOperand(Top))}

Blocks ==
  AluBlocks \union BranchBlocks \union StackBlocks \union CallBlocks \union DeviceBlocks

Programs ==
  {Prologue \o one \o two \o P("halt") : one, two \in Blocks}

\* Jumps through the stack with every condition, after comparisons that set and
\* clear each flag.
JmpsBlocks ==
  {LitAB(v, w) \o I("cmp", 1, <<>>) \o I("litw", Y, WordOperand(Exit))
     \o I("pushw", Y, <<>>) \o I("jmps", code, <<>>) :
     v, w \in {1, 128}, code \in 0 .. 15}

ShortPrograms == {Prologue \o one \o P("halt") : one \in Blocks \union JmpsBlocks}

\* Images that are not assembler output: an undefined opcode of section 2, a section
\* number past the table of names, and writes to sol and soh.
RawImages ==
  {<<242, 64, 0, 1, 243, 240>>, <<247, 224, 0, 243, 240>>,
   <<244, 0, 247, 0, 243, 240>>, <<0, 40, 0>>, <<67, 1, 0, 72, 1, 0>>}

MCRomAddr == 0 .. 95
MCRamAddr == 65504 .. 65535
MCJunk == {0, 384}

ImageOf(code) == [adr \in MCRomAddr |-> IF adr < Len(code) THEN code[adr + 1] ELSE 0]

MCImage == {ImageOf(Code(pr)) : pr \in ShortPrograms} \union {ImageOf(c) : c \in RawImages}
===============================================================================
