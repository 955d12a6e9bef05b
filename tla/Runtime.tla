-------------------------------- MODULE Runtime --------------------------------
(***************************************************************************)
(* The processor executing the arithmetic of the runtime library, called   *)
(* the way the compiler calls it (intr_fn): the arguments are pushed, then *)
(* room for the result, and the result is found there.                     *)
(***************************************************************************)
EXTENDS CpuProgram, RuntimeLibrary

C == INSTANCE CSemantics

\* Calls [fn, x, y, is]: a routine, its arguments, lowest byte first, and the value C gives
\* to the operator; <<>> where it gives none.
CONSTANT Task

VARIABLE task   \* the call the program makes

runtimeVars == <<m, starts, frames, task>>

Top == 65535
Canary == <<165, 90>>

\* A value on the stack, its high byte above the low one.
Pushed(value) ==
  FlattenSeq([k \in DOMAIN value |-> <<<<"lit", "a", Reverse(value)[k]>>, <<"push", "a">>>>])

\* intr_fn between two marks.
Caller(t) ==
  <<<<"litw", "s", Top>>>> \o Pushed(Canary) \o Pushed(t.x) \o Pushed(t.y)
    \o [k \in 1 .. Len(t.x) |-> <<"s--">>] \o <<<<"call", t.fn>>, <<"halt">>>>

ProgramOf(t) == LET text == Linked(Caller(t), Library) IN Resolved(text, LabelAddress(text, 0))

RuntimeInit ==
  \E t \in Task, fill \in RamFill :
    /\ task = t
    /\ starts = StartsFrom(ProgramOf(t), 0)
    /\ m = PowerOn(Loaded(CodeOf(ProgramOf(t))), fill, FALSE)
    /\ frames = <<>>

RuntimeNext == ProgramNext /\ UNCHANGED task

\* main() of the simulator calls cycle() again and again: weak fairness of RuntimeNext, which
\* is enabled as long as the machine runs (spelled out: ENABLED of all the handlers is slow).
Cycles == []<>(m.status # "running") \/ []<><<RuntimeNext>>_runtimeVars

RuntimeSpec == RuntimeInit /\ [][RuntimeNext]_runtimeVars /\ Cycles
-------------------------------------------------------------------------------
Multiplication(fn, x, y) == [fn |-> fn, x |-> x, y |-> y, is |-> C!Product(x, y)]

\* The division of q * d + r by d, with the signs given: C truncates, so that the remainder
\* has the sign of the dividend.
Division(fn, q, d, r, minusN, minusD) ==
  [fn |-> fn,
   x  |-> C!WithSign(minusN, C!Sum(C!Product(q, d), r)),
   y  |-> C!WithSign(minusD, d),
   is |-> IF fn \in {"DIVU2", "DIVI2", "DIVU4", "DIVI4"} THEN C!WithSign(minusN # minusD, q)
          ELSE C!WithSign(minusN, r)]

DivisionByZero(fn, x) == [fn |-> fn, x |-> x, y |-> C!Zeros(Len(x)), is |-> <<>>]
-------------------------------------------------------------------------------
Width == Len(task.x)
Returned == [k \in 1 .. Width |-> m.mem[m.s + k]]

\* A signed remainder takes the sign of the quotient: with a negative divisor it has the
\* wrong one, unless it is zero (crt1.s:495, 910).
RemainderSignLost == task.fn \in {"MODI2", "MODI4"} /\ C!Negative(task.y)

\* The value a routine leaves for its caller is the one C gives to the operator, for
\* every sign and width; a remainder with a negative divisor is right but for its sign,
\* and a division by zero means nothing.
ResultIsC ==
  m.status = "halted" /\ task.is # <<>> =>
    IF RemainderSignLost THEN Returned \in {task.is, C!Negated(task.is)} ELSE Returned = task.is

\* Whatever the routines push, pop and call among themselves at hand-counted offsets, what
\* lies above the arguments stays as it was, and the caller finds its stack pointer.
CallerUntouched ==
  /\ frames # <<>> \/ m.status = "halted" => <<m.mem[Top - 1], m.mem[Top]>> = Canary
  /\ m.status = "halted" => m.s = Top - 2 - 3 * Width

\* Every call returns, division by zero included: each loop shifts its bit, or its
\* multiplier, out.
CallReturns == <>(m.status = "halted")
===============================================================================
