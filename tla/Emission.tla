-------------------------------- MODULE Emission --------------------------------
(***************************************************************************)
(* The text of a function (lcc/src/cpu4.c and cpu4_impl.c): one handler    *)
(* for each operator, from the registers and slots its operands are in to  *)
(* its own. sp is how much the stack has grown in the function so far, and *)
(* all places are counted from the stack pointer.                          *)
(*                                                                         *)
(* Registers are named as the assembler names them; a line <<"assert">>    *)
(* stands where the compiler gives up.                                     *)
(***************************************************************************)
EXTENDS CodeGenerator

GivesUp == <<<<"assert">>>>
OffFail == 1000   \* an offset that does not fit a byte

Out(g, lines) ==
  LET bad == \E k \in DOMAIN lines :
               \/ lines[k] = GivesUp[1]
               \/ lines[k][1] \notin {"litw", "litw$", "jmp", "call", "label", "lit"}
                    /\ \E j \in 3 .. Len(lines[k]) : lines[k][j] >= OffFail
  IN  [g EXCEPT !.text = @ \o lines, !.failed = @ \/ bad]

Grown(g, n) == [g EXCEPT !.sp = @ + n]

\* What an operand or a result with this target holds, and where: its slot's offset.
Checked(offset) == IF offset > 255 \/ offset < 0 THEN OffFail ELSE offset
get_spill_sp_offset(g, x) == Checked(g.sp + 1 + x)
get_local_sp_offset(g, x) == Checked(g.sp + 2 * g.n_spill + 1 + x)
get_arg_sp_offset(g, x) == Checked(g.sp + 2 * g.n_spill + g.maxoffset + 2 + g.retsize + 1 + x)
\* Mutant: one byte beside the room the caller made.
get_retval_sp_offset_OffByOne(g) == Checked(g.sp + 2 * g.n_spill + g.maxoffset + 2 + 2)

get_retval_sp_offset(g) == Checked(g.sp + 2 * g.n_spill + g.maxoffset + 2 + 1)
get_retaddr_sp_offset(g) == Checked(g.sp + 2 * g.n_spill + g.maxoffset + 1)

At(g, p, byte) == get_spill_sp_offset(g, 2 * g.target[p].n + byte)

reg16_names == <<"x", "y">>
reg8_names == <<<<"xl", "xh">>, <<"yl", "yh">>>>
InReg(g, p) == g.target[p].kind = "reg"
InSpill(g, p) == g.target[p].kind = "spill"
Reg16(g, p) == reg16_names[g.target[p].n + 1]
Reg8(g, p, high) == reg8_names[g.target[p].n + 1][IF high > 0 THEN 2 ELSE 1]

PutKid8(g, kid, reg, high) ==
  CASE InReg(g, kid) -> IF reg = "a" THEN <<<<"seta", Reg8(g, kid, high)>>>>
                        ELSE IF reg = "b" THEN <<<<"setb", Reg8(g, kid, high)>>>>
                        ELSE <<<<"seta", Reg8(g, kid, high)>>, <<"puta", reg>>>>
    [] InSpill(g, kid) -> <<<<"get_rel_sp", reg, At(g, kid, high)>>>>
    [] OTHER -> GivesUp

PutKid16(g, kid, reg) ==
  CASE InReg(g, kid) ->
         IF reg = "a" THEN PutKid8(g, kid, "a", 0) \o PutKid8(g, kid, "b", 1)
         ELSE PutKid8(g, kid, reg \o "l", 0) \o PutKid8(g, kid, reg \o "h", 1)
    [] InSpill(g, kid) -> <<<<"get_rel_sp_w", reg, At(g, kid, 0)>>>>
    [] OTHER -> GivesUp

\* The accumulators a (or b) to the target of a node; a is the low byte of a word.
ToTarget8(g, p, reg, high) ==
  CASE InReg(g, p)   -> <<<<IF reg = "a" THEN "puta" ELSE "putb", Reg8(g, p, high)>>>>
    [] InSpill(g, p) -> <<<<"put_rel_sp", reg, At(g, p, high)>>>>
    [] OTHER -> GivesUp

ToTarget16(g, p) ==
  CASE InReg(g, p)   -> ToTarget8(g, p, "a", 0) \o ToTarget8(g, p, "b", 1)
    [] InSpill(g, p) -> <<<<"put_rel_sp_w", "a", At(g, p, 0)>>>>
    [] OTHER -> GivesUp

\* One piece of text for each byte, in this order.
ForBytes(ks, Lines(_)) == FoldLeft(LAMBDA text, k : text \o Lines(k), <<>>, ks)
Upward(size) == [k \in 1 .. size |-> k - 1]
Downward(size) == [k \in 1 .. size |-> size - k]

push(g, reg) == Grown(Out(g, <<<<"push", reg>>>>), 1)
pushw(g, reg) == Grown(Out(g, <<<<"pushw", reg>>>>), 2)
pop(g, reg) == Grown(Out(g, <<<<"pop", reg>>>>), -1)
popw(g, reg) == Grown(Out(g, <<<<"popw", reg>>>>), -2)
-------------------------------------------------------------------------------
\* Arithmetic. The carry goes from byte to byte.
AluCommand(op, k) ==
  CASE op = "BOR" -> "or" [] op = "BAND" -> "and" [] op = "BXOR" -> "xor"
    [] op = "ADD" -> IF k = 0 THEN "add" ELSE "adc"
    [] op = "SUB" -> IF k = 0 THEN "sub" ELSE "sbc"

OnStack(g, p) == \A q \in {p} \union ToSet(g.nodes[p].kids) : InSpill(g, q)

alu(g, p, l, r) ==
  LET n == g.nodes[p]
      OfSlots(k) ==
        IF At(g, p, 0) = At(g, l, 0)
        THEN <<<<"alus2", AluCommand(n.op, k), At(g, r, 0) + k, At(g, l, 0) + k>>>>
        ELSE <<<<"alus3", AluCommand(n.op, k), At(g, r, 0) + k, At(g, l, 0) + k, At(g, p, 0) + k>>>>
      OfRegisters(k) ==
        PutKid8(g, r, "b", k) \o PutKid8(g, l, "a", k) \o <<<<"alu", AluCommand(n.op, k)>>>>
          \o ToTarget8(g, p, "a", k)
  IN  Out(g, IF n.size = 4 \/ OnStack(g, p) THEN ForBytes(Upward(n.size), OfSlots)
             ELSE ForBytes(Upward(n.size), OfRegisters))

\* Four bytes are negated and complemented where they are.
alu_unary(g, p, kid) ==
  LET n == g.nodes[p]
      Complement(k) == PutKid8(g, kid, "a", k) \o <<<<"alu", "not">>>> \o ToTarget8(g, p, "a", k)
      InPlace(k) == <<<<"alus1", "not", At(g, kid, 0) + k>>>>
      Negate(k) == <<<<"lit", "a", 0>>>> \o PutKid8(g, kid, "b", k)
                     \o <<<<"alu", AluCommand("SUB", k)>>>> \o ToTarget8(g, p, "a", k)
  IN  Out(g, (IF n.size = 4 /\ At(g, p, 0) # At(g, kid, 0) THEN GivesUp ELSE <<>>)
              \o (IF n.op = "NEG" THEN ForBytes(Upward(n.size), Negate)
                  ELSE IF n.size = 4 THEN ForBytes(Upward(4), InPlace)
                  ELSE ForBytes(Upward(n.size), Complement)))

\* Shifts by a constant, one bit at a time; four bytes are shifted where they are.
shift(g, p, kid, by) ==
  LET n == g.nodes[p]
      left == n.op = "LSH"
      bytes == IF left THEN Upward(n.size) ELSE Downward(n.size)
      Command(k) == IF left THEN (IF k = 0 THEN "shl" ELSE "shlc")
                    ELSE IF k = n.size - 1 /\ n.size > 1 THEN "shr" ELSE "shrc"
      OneByte(i, k) ==
        (IF i = 1 THEN PutKid8(g, kid, "a", k) ELSE <<<<"seta", reg8_names[1][k + 1]>>>>)
          \o <<<<"alu", Command(k)>>>>
          \o (IF i = by THEN ToTarget8(g, p, "a", k) ELSE <<<<"puta", reg8_names[1][k + 1]>>>>)
      InPlace(k) == <<<<"alus1", Command(k), At(g, kid, 0) + k>>>>
      moved == IF At(g, p, 0) = At(g, kid, 0) THEN <<>>
               ELSE <<<<"get_rel_sp_w", "a", At(g, kid, 0)>>, <<"put_rel_sp_w", "a", At(g, p, 0)>>,
                      <<"get_rel_sp_w", "a", At(g, kid, 0) + 2>>, <<"put_rel_sp_w", "a", At(g, p, 0) + 2>>>>
      Bit(i) == IF n.size = 4 THEN ForBytes(bytes, InPlace) ELSE ForBytes(bytes, LAMBDA k : OneByte(i, k))
  IN  Out(g, ForBytes([i \in 1 .. by |-> i], Bit) \o IF n.size = 4 THEN moved ELSE <<>>)
-------------------------------------------------------------------------------
\* Constants, addresses and variables.
cnst(g, p) ==
  LET n == g.nodes[p]
  IN  Out(g, IF n.size = 1
             THEN IF InReg(g, p) THEN <<<<"lit", Reg8(g, p, 0), n.sym.n>>>>
                  ELSE <<<<"lit", "a", n.sym.n>>>> \o ToTarget8(g, p, "a", 0)
             ELSE IF InReg(g, p) THEN <<<<"litw", Reg16(g, p), n.sym.n>>>>
                  ELSE <<<<"litw", "a", n.sym.n>>>> \o ToTarget16(g, p))

\* The offset of a local or an argument.
VariableOffset(g, op, sym) ==
  IF op = "ADDRL" THEN get_local_sp_offset(g, g.place[sym.name] + sym.n)
  ELSE get_arg_sp_offset(g, g.param[sym.name] + sym.n)

address(g, p) ==
  LET n == g.nodes[p]
      Into(reg) == IF n.op = "ADDRG" THEN <<<<"litw$", reg, n.sym.name>>>>
                   ELSE <<<<"adjust_sp", reg, VariableOffset(g, n.op, n.sym)>>>>
  IN  Out(g, IF InReg(g, p) THEN Into(Reg16(g, p)) ELSE Into("a") \o ToTarget16(g, p))

\* The value of a variable: iaddrg, iaddrl, iaddrf.
variable(g, p) ==
  LET n == g.nodes[p]
      var == g.nodes[n.kids[1]]
      wide == n.size = 2
      put == IF wide THEN ToTarget16(g, p) ELSE ToTarget8(g, p, "a", 0)
  IN  Out(g, IF var.op = "ADDRG"
             THEN <<<<"litw$", "x", var.sym.name>>, <<"seta", "m[x]">>>>
                    \o (IF wide THEN <<<<"x++">>, <<"setb", "m[x]">>>> ELSE <<>>) \o put
             ELSE <<<<IF wide THEN "get_rel_sp_w" ELSE "get_rel_sp", "a", VariableOffset(g, var.op, var.sym)>>>> \o put)

\* An assignment to a variable: asgng, asgnl, asgnf.
assign(g, p) ==
  LET n == g.nodes[p]
      var == g.nodes[n.kids[1]]
      wide == n.size = 2
      get == IF wide THEN PutKid16(g, n.kids[2], "a") ELSE PutKid8(g, n.kids[2], "a", 0)
  IN  Out(g, IF var.op = "ADDRG"
             THEN <<<<"litw$", "x", var.sym.name>>>> \o get \o <<<<"puta", "m[x]">>>>
                    \o (IF wide THEN <<<<"x++">>, <<"putb", "m[x]">>>> ELSE <<>>)
             ELSE get \o <<<<IF wide THEN "put_rel_sp_w" ELSE "put_rel_sp", "a",
                             VariableOffset(g, var.op, var.sym)>>>>)

\* Through a pointer.
Pointer == [x |-> "m[x]", y |-> "m[y]"]
Next16 == [x |-> "x++", y |-> "y++"]

indir(g, p, kid) ==
  LET n == g.nodes[p]
      reg == IF InReg(g, kid) THEN Reg16(g, kid) ELSE "x"
      load == IF InReg(g, kid) THEN <<>> ELSE PutKid16(g, kid, "x")
      Byte(k) == (IF k = 0 THEN <<>> ELSE <<<<Next16[reg]>>>>)
                   \o <<<<"seta", Pointer[reg]>>, <<"put_rel_sp", "a", At(g, p, 0) + k>>>>
  IN  Out(g, load \o
        IF n.size = 4 THEN ForBytes(Upward(4), Byte)
        ELSE <<<<"setb", Pointer[reg]>>>>
               \o (IF n.size = 2 THEN <<<<Next16[reg]>>, <<"seta", Pointer[reg]>>>> \o ToTarget8(g, p, "a", 1) ELSE <<>>)
               \o ToTarget8(g, p, "b", 0))

\* The name of the register with the address is overwritten by that of the value's.
asgn_op(g, p, to, from) ==
  LET n == g.nodes[p]
      reg == IF ~InReg(g, to) THEN "x" ELSE IF InReg(g, from) THEN Reg16(g, from) ELSE Reg16(g, to)
      load == IF InReg(g, to) THEN <<>> ELSE PutKid16(g, to, "x")
      Word(k) == <<<<"get_rel_sp_w", "a", At(g, from, k)>>, <<"puta", "m[x]">>, <<"x++">>, <<"putb", "m[x]">>>>
  IN  Out(g, IF n.size = 4
             THEN <<<<"get_rel_sp_w", "x", At(g, to, 0)>>>> \o Word(0) \o <<<<"x++">>>> \o Word(2)
             ELSE load \o PutKid8(g, from, Pointer[reg], 0)
                    \o IF n.size = 2 THEN <<<<Next16[reg]>>>> \o PutKid8(g, from, Pointer[reg], 1) ELSE <<>>)
-------------------------------------------------------------------------------
\* Conversions. A sign is extended by a test and a jump; whether it is, the type converted
\* to decides.
Label(lab) == "label_" \o ToString(lab)
Skip(lab) == "jmp_label_false_" \o ToString(lab)
NewLabel(g) == [g EXCEPT !.label = @ + 1]

\* One of a and b has the sign, the other becomes the byte to extend with.
Extended(reg, lab) ==
  <<<<"lit", reg, 128>>, <<"cmp", "and">>, <<"lit", reg, 0>>, <<"jmp", "z", Label(lab)>>,
    <<"lit", reg, 255>>, <<"label", Label(lab)>>>>

Cut(g, p, kid) ==
  IF g.nodes[p].size = 1 THEN PutKid8(g, kid, "a", 0) \o ToTarget8(g, p, "a", 0)
  ELSE IF g.nodes[p].size = 2 THEN PutKid16(g, kid, "a") \o ToTarget16(g, p)
  ELSE <<<<"get_rel_sp_w", "a", At(g, kid, 0)>>, <<"put_rel_sp_w", "a", At(g, p, 0)>>,
         <<"get_rel_sp_w", "a", At(g, kid, 0) + 2>>, <<"put_rel_sp_w", "a", At(g, p, 0) + 2>>>>

cv(g, p, kid) ==
  LET n    == g.nodes[p]
      from == n.sym.n
      reg  == IF from = 1 THEN "b" ELSE "a"
      low  == IF from = 1 THEN PutKid8(g, kid, "a", 0) \o ToTarget8(g, p, "a", 0)
              ELSE PutKid16(g, kid, "a") \o ToTarget16(g, p)
      High(k) == ToTarget8(g, p, reg, k)
      high == ForBytes([k \in 1 .. n.size - from |-> from + k - 1], High)
  IN  IF from > n.size THEN Out(g, Cut(g, p, kid))
      ELSE IF from = n.size THEN IF g.target[kid] = g.target[p] THEN g ELSE Out(g, Cut(g, p, kid))
      ELSE IF n.t = "I" THEN NewLabel(Out(g, low \o Extended(reg, g.label) \o high))
      ELSE Out(g, low \o <<<<"lit", reg, 0>>>> \o high)
-------------------------------------------------------------------------------
\* Labels, jumps and tests.
JumpTo(condition, lab) == <<"jmp", condition, lab>>

\* For the jump on one byte, signed and unsigned, and for the lowest of several.
ByteConditions ==
  [GT |-> <<"g", "a", "a">>, GE |-> <<"ge", "ae", "ae">>, LT |-> <<"l", "b", "b">>,
   LE |-> <<"le", "be", "be">>, EQ |-> <<"e", "e", "e">>, NE |-> <<"ne", "ne", "ne">>]

\* For a higher byte that shows the test fails.
FailConditions ==
  [GT |-> <<"l", "b">>, GE |-> <<"l", "b">>, LT |-> <<"g", "a">>, LE |-> <<"g", "a">>,
   EQ |-> <<"ne", "ne">>]

Column(signed) == IF signed THEN 1 ELSE 2

FailCondition(n, k) == FailConditions[n.op][Column(n.t = "I" /\ k = n.size - 1)]

\* The higher bytes only tell that a test fails: the lowest one is compared even if a higher
\* one showed that it succeeds. The label a four-byte cond_ne puts down, with a number it
\* has never set and nobody jumps to, is left out.
cond_br(g, p, l, r) ==
  LET n == g.nodes[p]
      to == Label(n.sym.n)
      Compare(k) == <<"cmps2", "sub", At(g, r, 0) + k, At(g, l, 0) + k>>
      Differs(k) == <<Compare(k), JumpTo("ne", to)>>
      Fails(k) == <<Compare(k), JumpTo(FailCondition(n, k), Skip(g.label))>>
      low == <<Compare(0), JumpTo(ByteConditions[n.op][3], to)>>
  IN  IF n.size = 1
      THEN Out(g, PutKid8(g, l, "a", 0) \o PutKid8(g, r, "b", 0)
                    \o <<<<"cmp", "sub">>, JumpTo(ByteConditions[n.op][Column(n.t = "I")], to)>>)
      ELSE IF ~(InSpill(g, l) /\ InSpill(g, r)) THEN Out(g, GivesUp)
      ELSE IF n.op = "NE" THEN Out(IF n.size = 2 THEN NewLabel(g) ELSE g, ForBytes(Downward(n.size), Differs))
      ELSE NewLabel(Out(g, ForBytes(Front(Downward(n.size)), Fails) \o low \o <<<<"label", Skip(g.label)>>>>))

\* Only jumps to labels: a computed jump comes from the table of a switch.
jmpc(g, p) == Out(g, <<JumpTo("", Label(g.nodes[g.nodes[p].kids[1]].sym.n))>>)
-------------------------------------------------------------------------------
\* Calls. Arguments are pushed where their values are, then room for the result is made.
PushKid(g, kid, size) ==
  LET high == pushw(Out(g, <<<<"get_rel_sp_w", "a", At(g, kid, 0) + 2>>>>), "a")
  IN  IF size = 4 THEN pushw(Out(high, <<<<"get_rel_sp_w", "a", At(high, kid, 0)>>>>), "a")
      ELSE IF size = 2 THEN IF InReg(g, kid) THEN pushw(g, Reg16(g, kid)) ELSE pushw(Out(g, PutKid16(g, kid, "a")), "a")
      ELSE IF InReg(g, kid) THEN push(g, Reg8(g, kid, 0)) ELSE push(Out(g, PutKid8(g, kid, "a", 0)), "a")

ReserveRetval(g, size) == Grown(Out(g, [k \in 1 .. size |-> <<"s--">>]), size)

\* The result from the stack to where the node has it.
PopResult(g, p) ==
  LET size == g.nodes[p].size
      low  == popw(g, "a")
      high == popw(Out(low, <<<<"put_rel_sp_w", "a", At(low, p, 0)>>>>), "a")
  IN  CASE size = 0 -> g
        [] size = 1 -> IF InReg(g, p) THEN pop(g, Reg8(g, p, 0))
                       ELSE LET one == pop(g, "a") IN Out(one, ToTarget8(one, p, "a", 0))
        [] size = 2 -> IF InReg(g, p) THEN popw(g, Reg16(g, p)) ELSE Out(low, ToTarget16(low, p))
        [] OTHER    -> Out(high, <<<<"put_rel_sp_w", "a", At(high, p, 0) + 2>>>>)

Discard(g, n) == Grown(Out(g, <<<<"adjust_sp", "s", n>>>>), -n)

\* Mutant: the arguments of a call whose result is used stay on the stack.
AfterCall_KeepsArguments(g, p, size) ==
  IF g.target[p] = NoTarget THEN Discard(g, size + g.nodes[p].size) ELSE PopResult(g, p)

\* What the call left on the stack is taken off; a result nobody uses goes with it.
AfterCall(g, p, size) ==
  IF g.target[p] = NoTarget THEN Discard(g, size + g.nodes[p].size) ELSE Discard(PopResult(g, p), size)

\* callc, for a function by its name, and call_op, for one by its address (not modelled
\* with a result of four bytes, for which the compiler asks for a routine there is not).
call_op(g, p) ==
  LET n == g.nodes[p]
      size == FoldLeft(LAMBDA sum, q : sum + g.nodes[q].size, 0, g.args[p])
      room == ReserveRetval(g, n.size)
      f == n.kids[1]
      load == IF InReg(g, f) THEN pushw(room, Reg16(g, f)) ELSE pushw(Out(room, PutKid16(room, f, "a")), "a")
      back == IF g.nodes[f].op = "ADDRG" THEN Out(room, <<<<"call", g.nodes[f].sym.name>>>>)
              ELSE Grown(Out(load, <<<<"calls">>>>), -2)
  IN  AfterCall(back, p, size)

\* An operator the processor has no instruction for: a routine of the library. The second
\* operand is taken from the register y; if it is in a slot, the first one is read instead.
intr_fn(g, p, l, r) ==
  LET n == g.nodes[p]
      Load(h, reg) == Out(h, IF n.size = 1 THEN PutKid8(h, l, reg \o "l", 0) ELSE PutKid16(h, l, reg))
      Push(h, kid, reg) ==
        LET loaded == IF InSpill(g, kid) THEN Load(h, reg) ELSE h
        IN  IF n.size = 1 THEN push(loaded, reg \o "l") ELSE pushw(loaded, reg)
      both == IF n.size = 4 THEN PushKid(PushKid(g, l, 4), r, 4) ELSE Push(Push(g, l, "x"), r, "y")
      back == Out(ReserveRetval(both, n.size), <<<<"call", n.op \o n.t \o ToString(n.size)>>>>)
  IN  Discard(PopResult(back, p), 2 * n.size)

ret(g, p, kid) ==
  LET size == g.nodes[p].size
      to == get_retval_sp_offset(g)
      value == IF size = 4
               THEN <<<<"get_rel_sp_w", "a", At(g, kid, 2)>>, <<"put_rel_sp_w", "a", to + 2>>,
                      <<"get_rel_sp_w", "a", At(g, kid, 0)>>, <<"put_rel_sp_w", "a", to>>>>
               ELSE IF size = 2
               THEN IF InReg(g, kid) THEN <<<<"put_rel_sp_w", Reg16(g, kid), to>>>>
                    ELSE PutKid16(g, kid, "a") \o <<<<"put_rel_sp_w", "a", to>>>>
               ELSE IF InReg(g, kid) THEN <<<<"put_rel_sp", Reg8(g, kid, 0), to>>>>
                    ELSE PutKid8(g, kid, "a", 0) \o <<<<"put_rel_sp", "a", to>>>>
  IN  Out(g, value \o <<<<"adjust_sp", "s", get_retaddr_sp_offset(g) - 1>>, <<"ret">>>>)
-------------------------------------------------------------------------------
\* optimize_node(): an operation on a variable needs no address, nor does a call or a jump
\* to a name.
Direct(g, p) ==
  LET n == g.nodes[p]
      to == g.nodes[n.kids[1]].op
  IN  \/ n.op \in {"INDIR", "ASGN"} /\ n.size <= 2 /\ to \in AddressOps
      \/ n.op \in {"CALL", "JUMP"} /\ to = "ADDRG"

KidsOf(g, p) == IF g.nodes[p].kids # <<>> /\ Direct(g, p) THEN Tail(g.nodes[p].kids) ELSE g.nodes[p].kids

dump_op(g, p) ==
  LET n == g.nodes[p]
      Kid(k) == n.kids[k]
  IN  CASE n.op = "CNST" -> cnst(g, p)
        [] n.op \in AddressOps -> address(g, p)
        [] n.op = "LABEL" -> Out(g, <<<<"label", Label(n.sym.n)>>>>)
        [] n.op \in {"CVI", "CVU", "CVP"} -> cv(g, p, Kid(1))
        [] n.op = "ARG" -> PushKid(g, Kid(1), n.size)
        [] n.op \in {"BCOM", "NEG"} -> alu_unary(g, p, Kid(1))
        [] n.op = "INDIR" -> IF Direct(g, p) THEN variable(g, p) ELSE indir(g, p, Kid(1))
        [] n.op = "JUMP" -> jmpc(g, p)
        [] n.op = "RET" -> ret(g, p, Kid(1))
        [] n.op = "CALL" -> call_op(g, p)
        [] n.op = "ASGN" -> IF Direct(g, p) THEN assign(g, p) ELSE asgn_op(g, p, Kid(1), Kid(2))
        [] n.op \in {"BOR", "BAND", "BXOR", "ADD", "SUB"} -> alu(g, p, Kid(1), Kid(2))
        [] n.op \in {"LSH", "RSH"} /\ g.nodes[Kid(2)].op = "CNST" -> shift(g, p, Kid(1), g.nodes[Kid(2)].sym.n)
        [] n.op \in Relations -> cond_br(g, p, Kid(1), Kid(2))
        [] OTHER -> intr_fn(g, p, Kid(1), Kid(2))

\* History: what a place holds after a node, and the operands no longer in theirs.
PlacesOf(g, p) == IF InReg(g, p) THEN {-1 - g.target[p].n} ELSE SlotsOf(g.target[p], g.nodes[p].size)
Missing(g, p) == {kid \in ToSet(KidsOf(g, p)) : \E s \in PlacesOf(g, kid) : g.holds[s] # kid}
Spoiled(g, p) ==
  LET n == g.nodes[p]
  IN  {-1, -2} \union IF n.op \in {"LSH", "RSH"} /\ n.size = 4 THEN PlacesOf(g, n.kids[1]) ELSE {}
Holding(g, p) ==
  [g EXCEPT !.holds = [s \in DOMAIN @ |-> IF s \in PlacesOf(g, p) THEN p
                                           ELSE IF s \in Spoiled(g, p) THEN 0 ELSE @[s]]]

RECURSIVE dumptree(_, _)
dumptree(g, p) ==
  IF p \in g.emitted THEN g
  ELSE LET kids == FoldLeft(dumptree, g, g.args[p] \o KidsOf(g, p))
           done == dump_op([kids EXCEPT !.misread = @ \union Missing(kids, p)], p)
       IN  Holding([done EXCEPT !.emitted = @ \union {p}], p)

\* emit(): a root, unless another node uses it.
emit(g, p) == IF g.count[p] > 0 THEN g ELSE dumptree(g, p)

\* function(): room for the frame before the body, and after it the way back, unless the
\* last node written was a RET; it is always the label of the returns (funcend).
Prologue(g) ==
  <<<<"seta", "sl">>, <<"lit", "b", g.maxoffset + 2 * g.n_spill>>, <<"alu", "sub">>, <<"puta", "sl">>,
    <<"seta", "sh">>, <<"lit", "b", 0>>, <<"alu", "sbc">>, <<"puta", "sh">>>>

Epilogue(g) == <<<<"adjust_sp", "s", get_retaddr_sp_offset(g) - 1>>, <<"ret">>>>
===============================================================================
