------------------------------ MODULE CpuProgram -------------------------------
(***************************************************************************)
(* The simulator running assembled programs: what the assembler emits      *)
(* (Encoding) is what the processor decodes (Cpu).  Two history variables  *)
(* remember the program text and the calls in progress.                    *)
(***************************************************************************)
EXTENDS Cpu, Encoding

CONSTANT Program   \* set of programs: sequences of instructions

ASSUME ProgramAssumption ==
  \A pr \in Program :
    /\ pr \in Seq(Instruction)
    /\ \A i \in DOMAIN pr : Accepted(pr[i])
    /\ 0 .. Len(Code(pr)) - 1 \subseteq RomAddr

VARIABLES
  starts,   \* history: addresses where an instruction of the program starts
  frames    \* history: the calls in progress

vars == <<m, starts, frames>>

\* The ROM is cleared, then the image is read into it.
Loaded(code) == [adr \in RomAddr |-> IF adr < Len(code) THEN code[adr + 1] ELSE 0]

ProgramInit ==
  /\ \E pr \in Program, fill \in RamFill, flag \in DebugFlag :
       /\ starts = Starts(pr)
       /\ m = PowerOn(Loaded(Code(pr)), fill, flag)
  /\ frames = <<>>

\* The instruction after the one in progress, by the program text.
NextStart == CHOOSE t \in starts : t > m.p /\ \A u \in starts : u > m.p => t <= u

ProgramCall ==
  /\ \/ Call /\ frames' = Append(frames, [ret |-> NextStart, sp |-> m.s])
     \/ Calls /\ frames' = Append(frames, [ret |-> NextStart, sp |-> (m.s + 2) % 65536])
  /\ UNCHANGED starts

ProgramRet ==
  /\ frames # <<>>
  /\ Ret
  /\ frames' = Front(frames)
  /\ UNCHANGED starts

ProgramNext == ProgramCall \/ ProgramRet \/ (LocalStep /\ UNCHANGED <<starts, frames>>)

\* A program, or an image of Image, which no program text goes with.
MachineInit == ProgramInit \/ (Init /\ starts = {} /\ frames = <<>>)

MachineNext ==
  \/ starts # {} /\ ProgramNext
  \/ starts = {} /\ Next /\ UNCHANGED <<starts, frames>>

MachineSpec == MachineInit /\ [][MachineNext]_vars
-------------------------------------------------------------------------------
\* The decoder never loses the instruction stream of a program: whenever a section 0 opcode is
\* fetched it is the first byte of an instruction of the program, and a prefixed
\* opcode is fetched right after its prefix. Every handler takes as many operand
\* bytes as the assembler emits for its mnemonic, and drops its section.
InSync ==
  starts # {} /\ m.status = "running" =>
    IF m.sect = 0 THEN m.p \in starts ELSE m.sect \in {2, 3} /\ m.p - 1 \in starts

\* A ret returns to the instruction after the call it belongs to, with the stack
\* pointer the caller had, however the calls nest and whatever was pushed and popped
\* between.
ReturnsHome ==
  [][Len(frames') < Len(frames) =>
       m'.p = Last(frames).ret /\ m'.s = Last(frames).sp]_vars
===============================================================================
