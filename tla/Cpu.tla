---------------------------------- MODULE Cpu ----------------------------------
(***************************************************************************)
(* The instruction set simulator of sim/sim.c: registers, the memory map   *)
(* with its devices, fetch, decode through the two-level opcode table and  *)
(* one handler per opcode.                                                 *)
(*                                                                         *)
(* The machine is one record.  A handler is a function from machine to     *)
(* machine; `bus` carries the byte a read delivered to the place the       *)
(* handler puts it, and is empty between cycles.  A step of the            *)
(* specification is one call of cycle().                                   *)
(***************************************************************************)
EXTENDS Alu, Sequences

CONSTANTS
  RomAddr,    \* addresses of the ROM device (0x0000 - 0x3FFF)
  RamAddr,    \* addresses of the RAM device (0x8000 - 0xFFFF)
  UartAddr,   \* address of the UART (0x4000)
  Image,      \* set of ROM contents to start from
  RamFill,    \* set of bytes the uninitialised RAM may be filled with
  Junk,       \* set of values an uninitialised uint16_t may have
  UartByte,   \* set of bytes that can be typed
  RxCapacity, \* bytes the UART buffers before it drops the oldest (128)
  DebugFlag   \* set of values of fl_debug at start: {TRUE} with -d

ASSUME CpuAssumption ==
  /\ RomAddr \subseteq Word /\ RamAddr \subseteq Word /\ UartAddr \in Word
  /\ RomAddr \intersect RamAddr = {}
  /\ UartAddr \notin RomAddr \union RamAddr
  /\ Image \subseteq [RomAddr -> Byte]
  /\ RamFill \subseteq Byte /\ Junk \subseteq Word /\ UartByte \subseteq Byte
  /\ RxCapacity \in Nat \ {0} /\ DebugFlag \subseteq BOOLEAN

VARIABLE m   \* the machine

Mapped == RomAddr \union RamAddr

Machine ==
  [a : Byte, b : Byte, f : Nibble, x : Word, y : Word, s : Word, p : Word,
   off : Byte, ir : Byte, sect : Nibble, bus : Byte,
   mem : [Mapped -> Byte], rx : Seq(Byte), debug : BOOLEAN,
   status : {"running", "halted", "exited", "crashed"}]

TypeOK == m \in Machine

\* The machine main() starts: the registers are a zeroed global, the ROM is loaded,
\* the RAM comes from malloc.
PowerOn(rom, fill, flag) ==
  [a |-> 0, b |-> 0, f |-> 0, x |-> 0, y |-> 0, s |-> 0, p |-> 0,
   off |-> 0, ir |-> 0, sect |-> 0, bus |-> 0,
   mem |-> [adr \in Mapped |-> IF adr \in RomAddr THEN rom[adr] ELSE fill],
   rx |-> <<>>, debug |-> flag, status |-> "running"]

Init ==
  \E rom \in Image, fill \in RamFill, flag \in DebugFlag :
    m = PowerOn(rom, fill, flag)
-------------------------------------------------------------------------------
\* The memory map.

\* uart_device_read: the oldest byte is taken out of the buffer, none reads as 0.
UartRead(g) ==
  IF g.rx = <<>> THEN [g EXCEPT !.bus = 0]
  ELSE [g EXCEPT !.bus = Head(g.rx), !.rx = Tail(g.rx)]

\* mem_read through select_device_by_addr: an unmapped address reads as 0.
Load(g, adr) ==
  IF adr \in Mapped THEN [g EXCEPT !.bus = g.mem[adr]]
  ELSE IF adr = UartAddr THEN UartRead(g) ELSE [g EXCEPT !.bus = 0]

\* mem_write: ROM is as writable as RAM; a byte sent to the UART is printed.
Store(g, adr, val) ==
  IF adr \in Mapped THEN [g EXCEPT !.mem[adr] = val] ELSE g

\* The next byte of the instruction stream.
Imm(g) == [Load(g, g.p) EXCEPT !.p = Inc16(@)]

\* `r.off = mem_read(p); inc16(p)`
ImmOff(g) == LET n == Imm(g) IN [n EXCEPT !.off = n.bus]

\* The address `val16(s) + off`, cut to 16 bits by the parameter of mem_read.
StackAddr(g) == (g.s + g.off) % 65536

\* Printing the stack from s+1 to s+n takes a byte out of a UART that is there.
Peek(g, n) ==
  IF \E k \in 1 .. n : UartAddr = (g.s + k) % 65536
  THEN [Load(g, UartAddr) EXCEPT !.bus = g.bus]
  ELSE g

PrintState(g) == Peek(g, 10)

\* sel_get_value: the selected byte, on the bus. Nothing ever sets z, a zeroed
\* global, so m[z] is address 0.
SelGet(g, sel) ==
  CASE sel = 0  -> [g EXCEPT !.bus = g.a]
    [] sel = 1  -> [g EXCEPT !.bus = g.b]
    [] sel = 2  -> [g EXCEPT !.bus = Lo(g.x)]
    [] sel = 3  -> [g EXCEPT !.bus = Hi(g.x)]
    [] sel = 4  -> [g EXCEPT !.bus = Lo(g.y)]
    [] sel = 5  -> [g EXCEPT !.bus = Hi(g.y)]
    [] sel = 6  -> [g EXCEPT !.bus = Lo(g.s)]
    [] sel = 7  -> [g EXCEPT !.bus = Hi(g.s)]
    [] sel = 8  -> [g EXCEPT !.bus = Lo(StackAddr(g))]
    [] sel = 9  -> [g EXCEPT !.bus = Hi(StackAddr(g))]
    [] sel = 10 -> [g EXCEPT !.bus = g.off]
    [] sel = 11 -> Load(g, StackAddr(g))
    [] sel = 12 -> Load(g, 0)
    [] sel = 13 -> Load(g, g.x)
    [] sel = 14 -> Load(g, g.y)
    [] OTHER    -> Load(g, g.s)

\* sel_set_value: the byte on the bus goes to the selected place; writing sol or
\* soh terminates the simulator.
SelSet(g, sel) ==
  CASE sel = 0  -> [g EXCEPT !.a = g.bus]
    [] sel = 1  -> [g EXCEPT !.b = g.bus]
    [] sel = 2  -> [g EXCEPT !.x = Pair(Hi(g.x), g.bus)]
    [] sel = 3  -> [g EXCEPT !.x = Pair(g.bus, Lo(g.x))]
    [] sel = 4  -> [g EXCEPT !.y = Pair(Hi(g.y), g.bus)]
    [] sel = 5  -> [g EXCEPT !.y = Pair(g.bus, Lo(g.y))]
    [] sel = 6  -> [g EXCEPT !.s = Pair(Hi(g.s), g.bus)]
    [] sel = 7  -> [g EXCEPT !.s = Pair(g.bus, Lo(g.s))]
    [] sel \in {8, 9} -> [g EXCEPT !.status = "exited"]
    [] sel = 10 -> [g EXCEPT !.off = g.bus]
    [] sel = 11 -> Store(g, StackAddr(g), g.bus)
    [] sel = 12 -> Store(g, 0, g.bus)
    [] sel = 13 -> Store(g, g.x, g.bus)
    [] sel = 14 -> Store(g, g.y, g.bus)
    [] OTHER    -> Store(g, g.s, g.bus)

Arg(g) == g.ir % 16
\* ARG | 0x01: the high half of a register pair.
ArgHigh(g) == 2 * (Arg(g) \div 2) + 1

EndSection(g) == [g EXCEPT !.sect = 0]
LatchA(g) == [g EXCEPT !.a = g.bus]
LatchB(g) == [g EXCEPT !.b = g.bus]
IncS(g) == [g EXCEPT !.s = Inc16(@)]
DecS(g) == [g EXCEPT !.s = Dec16(@)]

\* The stack grows down and s is the free byte below its top.
PushByte(g, val) == DecS(Store(g, g.s, val))
PopByte(g) == Load(IncS(g), Inc16(g.s))
PushWord(g, w) == PushByte(PushByte(g, Hi(w)), Lo(w))
PushSel(g, sel) == LET n == SelGet(g, sel) IN PushByte(n, n.bus)
PopSel(g, sel) == SelSet(PopByte(g), sel)

\* m[so] from and to a selected place.
PutRel(g, sel) == LET n == SelGet(g, sel) IN Store(n, StackAddr(n), n.bus)
GetRel(g, sel) == SelSet(Load(g, StackAddr(g)), sel)

\* The next two bytes of the stream, or of the stack, become p.
ImmP(g) ==
  LET low  == Imm(g)
      high == Imm(low)
  IN  [high EXCEPT !.p = Pair(high.bus, low.bus)]

PopP(g) ==
  LET low  == PopByte(g)
      high == PopByte(low)
  IN  [high EXCEPT !.p = Pair(high.bus, low.bus)]

\* aluop applied to the machine, with its result on the bus.
Compute(g, junk) ==
  LET r == aluop(Arg(g), g.a, g.b, g.f, junk)
  IN  [g EXCEPT !.bus = r.res, !.f = r.f, !.a = r.a]
-------------------------------------------------------------------------------
\* The handlers of the opcode table, section 0.

OpSeta(g) == LatchA(SelGet(g, Arg(g)))
OpPuta(g) == SelSet([g EXCEPT !.bus = g.a], Arg(g))
OpLit(g) == SelSet(Imm(g), Arg(g))
OpLitw(g) == SelSet(Imm(OpLit(g)), ArgHigh(g))
OpPush(g) == PushSel(g, Arg(g))
OpPop(g) == PopSel(g, Arg(g))

\* High half first, so that it lies above the low one.
OpPushw(g) == PushSel(PushSel(g, ArgHigh(g)), Arg(g))
OpPopw(g) == PopSel(PopSel(g, Arg(g)), ArgHigh(g))

OpAlu(g, junk) == LatchA(Compute(g, junk))
OpCmp(g, junk) == Compute(g, junk)

OpJmp(g) ==
  IF Taken(Arg(g), g.f) THEN ImmP(g) ELSE [ImmP(g) EXCEPT !.p = Inc16(Inc16(g.p))]

\* cond_vec of op_jmps has no entry for "always": its entries stand one place lower
\* than the codes of op_jmp, and code 7 reads past its end (`beyond`).
TakenFromStack(arg, f, beyond) ==
  (IF arg % 8 = 7 THEN beyond ELSE Condition((arg % 8) + 1, f)) <=> arg < 8

OpJmps(g, beyond) ==
  IF TakenFromStack(Arg(g), g.f, beyond) THEN PopP(g) ELSE [PopP(g) EXCEPT !.p = g.p]

OpRet(g) == PopP(g)

\* Mutant: the address pushed is that of the operand, not of the next instruction.
OpCall_PushesOperand(g) == PushWord(ImmP(g), g.p)

OpCall(g) == PushWord(ImmP(g), Inc16(Inc16(g.p)))

OpExt(g) == [g EXCEPT !.sect = Arg(g)]
-------------------------------------------------------------------------------
\* Section 2: arithmetic on the stack frame.

FrameA(g) == LET n == ImmOff(g) IN LatchA(Load(n, StackAddr(n)))
FrameB(g) == LET n == ImmOff(g) IN LatchB(Load(n, StackAddr(n)))

OpAlus1(g, junk) == EndSection(PutRel(OpAlu(FrameA(g), junk), 0))
OpAlus2(g, junk) == EndSection(PutRel(OpAlu(FrameA(FrameB(g)), junk), 0))
OpAlus3(g, junk) == EndSection(PutRel(ImmOff(OpAlu(FrameA(FrameB(g)), junk)), 0))

\* Mutant: the second operand of a comparison is not read.
OpCmps2_OneOperand(g, junk) == EndSection(Compute(FrameB(g), junk))

OpCmps2(g, junk) == EndSection(Compute(FrameA(FrameB(g)), junk))
-------------------------------------------------------------------------------
\* Section 3: pointers, the stack frame, and the simulator itself.

OpXpp(g) == EndSection([g EXCEPT !.x = Inc16(@)])
OpXmm(g) == EndSection([g EXCEPT !.x = Dec16(@)])
OpYpp(g) == EndSection([g EXCEPT !.y = Inc16(@)])
OpYmm(g) == EndSection([g EXCEPT !.y = Dec16(@)])
OpSpp(g) == EndSection(IncS(g))
OpSmm(g) == EndSection(DecS(g))

OpCalls(g) == EndSection(PushWord(PopP(g), g.p))

\* Both halves of s + off are taken before either is written.
OpAdjustSp(g) ==
  LET n   == ImmOff(g)
      low == SelSet(SelGet(n, 8), Arg(g))
  IN  EndSection(SelSet([low EXCEPT !.bus = Hi(StackAddr(n))], ArgHigh(g)))

OpPutRelSp(g) == EndSection(PutRel(ImmOff(g), Arg(g)))
OpGetRelSp(g) == EndSection(GetRel(ImmOff(g), Arg(g)))

OpPutRelSpW(g) ==
  EndSection(DecS(PutRel(IncS(PutRel(ImmOff(g), Arg(g))), ArgHigh(g))))

\* Mutant: the second byte is read from the address of the first.
OpGetRelSpW_SameByte(g) ==
  EndSection(GetRel(GetRel(ImmOff(g), Arg(g)), ArgHigh(g)))

OpGetRelSpW(g) ==
  EndSection(DecS(GetRel(IncS(GetRel(ImmOff(g), Arg(g))), ArgHigh(g))))

OpSetb(g) == EndSection(LatchB(SelGet(g, Arg(g))))
OpPutb(g) == EndSection(SelSet([g EXCEPT !.bus = g.b], Arg(g)))

\* The operand is read four times: to print it, and to compare it with 255, 254
\* and 100.
OpSimInfo(g) ==
  LET show == Load(Load(g, g.p), g.p)
      on   == IF show.bus = 255 THEN [show EXCEPT !.debug = TRUE] ELSE show
      next == Load(on, g.p)
      off  == IF next.bus = 254 THEN [next EXCEPT !.debug = FALSE] ELSE next
      last == Load(off, g.p)
      dump == IF last.bus = 100 THEN Peek(last, 30) ELSE last
  IN  EndSection([PrintState(dump) EXCEPT !.p = Inc16(@)])

OpSimHalt(g) == [g EXCEPT !.status = "halted"]
-------------------------------------------------------------------------------
\* One call of cycle() for each entry of the opcode table.

Opcode == Load(m, m.p).bus

\* fetch(), and the print of the debug mode.
Fetched ==
  LET n == Imm(m)
      g == [n EXCEPT !.ir = n.bus]
  IN  IF g.debug THEN PrintState(g) ELSE g

Executes(section, code) ==
  /\ m.status = "running"
  /\ m.sect % 4 = section
  /\ Opcode \div 16 = code

\* The bus is no register: it is empty between cycles.
Retire(g) == m' = [g EXCEPT !.bus = 0]

Nop   == Executes(0, 0) /\ Retire(Fetched)
Seta  == Executes(0, 1) /\ Retire(OpSeta(Fetched))
Puta  == Executes(0, 2) /\ Retire(OpPuta(Fetched))
Lit   == Executes(0, 3) /\ Retire(OpLit(Fetched))
Litw  == Executes(0, 4) /\ Retire(OpLitw(Fetched))
Push  == Executes(0, 5) /\ Retire(OpPush(Fetched))
Pop   == Executes(0, 6) /\ Retire(OpPop(Fetched))
Pushw == Executes(0, 7) /\ Retire(OpPushw(Fetched))
Popw  == Executes(0, 8) /\ Retire(OpPopw(Fetched))
Alu   == Executes(0, 9) /\ \E junk \in Junk : Retire(OpAlu(Fetched, junk))
Cmp   == Executes(0, 10) /\ \E junk \in Junk : Retire(OpCmp(Fetched, junk))
Jmp   == Executes(0, 11) /\ Retire(OpJmp(Fetched))
Jmps  == Executes(0, 12) /\ \E beyond \in BOOLEAN : Retire(OpJmps(Fetched, beyond))
Ret   == Executes(0, 13) /\ Retire(OpRet(Fetched))
Call  == Executes(0, 14) /\ Retire(OpCall(Fetched))
Ext   == Executes(0, 15) /\ Retire(OpExt(Fetched))

Alus1 == Executes(2, 0) /\ \E junk \in Junk : Retire(OpAlus1(Fetched, junk))
Alus2 == Executes(2, 1) /\ \E junk \in Junk : Retire(OpAlus2(Fetched, junk))
Alus3 == Executes(2, 2) /\ \E junk \in Junk : Retire(OpAlus3(Fetched, junk))
Cmps2 == Executes(2, 3) /\ \E junk \in Junk : Retire(OpCmps2(Fetched, junk))

Xpp       == Executes(3, 0) /\ Retire(OpXpp(Fetched))
Xmm       == Executes(3, 1) /\ Retire(OpXmm(Fetched))
Ypp       == Executes(3, 2) /\ Retire(OpYpp(Fetched))
Ymm       == Executes(3, 3) /\ Retire(OpYmm(Fetched))
Spp       == Executes(3, 4) /\ Retire(OpSpp(Fetched))
Smm       == Executes(3, 5) /\ Retire(OpSmm(Fetched))
Calls     == Executes(3, 6) /\ Retire(OpCalls(Fetched))
AdjustSp  == Executes(3, 7) /\ Retire(OpAdjustSp(Fetched))
PutRelSp  == Executes(3, 8) /\ Retire(OpPutRelSp(Fetched))
GetRelSp  == Executes(3, 9) /\ Retire(OpGetRelSp(Fetched))
PutRelSpW == Executes(3, 10) /\ Retire(OpPutRelSpW(Fetched))
GetRelSpW == Executes(3, 11) /\ Retire(OpGetRelSpW(Fetched))
Setb      == Executes(3, 12) /\ Retire(OpSetb(Fetched))
Putb      == Executes(3, 13) /\ Retire(OpPutb(Fetched))
SimInfo   == Executes(3, 14) /\ Retire(OpSimInfo(Fetched))
SimHalt   == Executes(3, 15) /\ Retire(OpSimHalt(Fetched))

\* op_err: section 1, and the rest of section 2. The section stays selected.
BadOp ==
  /\ \/ \E code \in 0 .. 15 : Executes(1, code)
     \/ \E code \in 4 .. 15 : Executes(2, code)
  /\ Retire(Fetched)

\* print_state() names the instruction from a table of 64 with the whole section
\* number as index: from section 4 on it prints through whatever lies behind.
PrintsBadName ==
  /\ m.status = "running" /\ m.sect >= 4
  /\ m.debug \/ Executes(3, 14)
  /\ m' = [m EXCEPT !.status = "crashed"]

\* The UART thread, whose buffer drops the oldest byte when it is full.
UartArrive(c) ==
  /\ m.status = "running"
  /\ m' = [m EXCEPT !.rx = Append(IF Len(@) = RxCapacity THEN Tail(@) ELSE @, c)]

Done == m.status # "running" /\ UNCHANGED m

LocalStep ==
  \/ Nop \/ Seta \/ Puta \/ Lit \/ Litw \/ Push \/ Pop \/ Pushw
  \/ Popw \/ Alu \/ Cmp \/ Jmp \/ Jmps \/ Ext
  \/ Alus1 \/ Alus2 \/ Alus3 \/ Cmps2 \/ BadOp
  \/ Xpp \/ Xmm \/ Ypp \/ Ymm \/ Spp \/ Smm \/ AdjustSp
  \/ PutRelSp \/ GetRelSp \/ PutRelSpW \/ GetRelSpW
  \/ Setb \/ Putb \/ SimInfo \/ SimHalt
  \/ PrintsBadName \/ (\E c \in UartByte : UartArrive(c)) \/ Done

Next == Call \/ Calls \/ Ret \/ LocalStep

Spec == Init /\ [][Next]_m
-------------------------------------------------------------------------------
\* m with the operand code, and the operand byte, of an instruction about to run.
Decoded(sel) == [m EXCEPT !.ir = sel]
WithOperand(sel, off) == [Decoded(sel) EXCEPT !.mem[m.p] = off]
Registers(g) == <<g.a, g.b, g.x, g.y, g.s, g.off>>
Writable(adr) == {adr % 65536, (adr + 1) % 65536} \subseteq RamAddr

\* A register pair pushed with pushw comes back with popw, and one pushed as an
\* address is where ret and calls go: the two halves keep their order through every
\* pair of handlers, and the stack pointer its place.
PushPopRestores ==
  Writable(m.s - 1) =>
    /\ \A sel \in {0, 2, 4} :
         Registers(OpPopw(OpPushw(Decoded(sel)))) = Registers(m)
    /\ LET h == OpRet(OpPushw(Decoded(2)))
       IN  h.p = m.x /\ h.s = m.s
    /\ LET h == OpRet(OpCalls(OpPushw(Decoded(4))))
       IN  OpCalls(OpPushw(Decoded(4))).p = m.y /\ h.p = m.p /\ h.s = m.s

\* A register pair put into the frame with put_rel_sp_w is the one get_rel_sp_w of
\* the same offset takes out, and lies there as pushw would have laid it.
FrameWordRestores ==
  m.p \in RomAddr =>
    \A sel \in {0, 2, 4}, off \in 0 .. 3 :
      LET put  == OpPutRelSpW(WithOperand(sel, off))
          get  == OpGetRelSpW([put EXCEPT !.p = m.p])
          low  == StackAddr(put)
          high == (low + 1) % 65536
      IN  Writable(low) =>
            /\ get.a = m.a /\ get.b = m.b /\ get.x = m.x /\ get.y = m.y /\ get.s = m.s
            /\ put.mem[low] = SelGet(m, sel).bus
            /\ put.mem[high] = SelGet(m, sel + 1).bus

\* adjust_sp of s does what the five instructions in the comment of op_adjust_sp do
\* (lit off X; seta sol; setb soh; puta sl; putb sh), but for a and b.
AdjustMatchesSequence ==
  LET once == OpAdjustSp(Decoded(6))
      lit  == ImmOff(Decoded(0))
      ab   == LatchB(SelGet(LatchA(SelGet(lit, 8)), 9))
      seq  == SelSet([SelSet([ab EXCEPT !.bus = ab.a], 6) EXCEPT !.bus = ab.b], 7)
  IN  /\ <<once.s, once.x, once.y, once.off, once.p>> =
           <<seq.s, seq.x, seq.y, seq.off, seq.p>>
      /\ once.mem = seq.mem /\ once.rx = seq.rx

\* A word survives the stack, it survives the frame, and the stack pointer is moved as a whole (op_pushw,
\* op_popw, op_ret, op_calls, op_put_rel_sp_w, op_get_rel_sp_w, op_adjust_sp).
WordsRestored == PushPopRestores /\ FrameWordRestores /\ AdjustMatchesSequence

\* After every comparison by subtraction the conditional jumps decide equality and
\* the unsigned and signed orders of the operands, as the table above op_jmp claims.
ComparisonsOrder ==
  [][(Executes(0, 10) \/ Executes(2, 3)) /\ Opcode % 16 = 1 /\ m'.p # m.p
       => Orders(m'.a, m'.b, m'.f)]_m

\* What an unconditional jmps must do: go to the address on top of the stack.
JmpsIsUnconditional ==
  [][Executes(0, 12) /\ Opcode % 16 = 0 /\ m'.p # m.p => m'.p = OpRet(Fetched).p]_m

\* alu inc adds one to A.
IncIncrements ==
  [][Executes(0, 9) /\ Opcode % 16 = IncOp /\ m'.p # m.p => m'.a = (m.a + 1) % 256]_m
===============================================================================
