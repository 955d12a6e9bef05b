------------------------------ MODULE CSemantics ------------------------------
(***************************************************************************)
(* What a C program means: its expression trees and statements evaluated   *)
(* as the language defines them, on a memory of bytes of its own. The      *)
(* reference for the compiler; no part of it.                              *)
(*                                                                         *)
(* A memory is [mem, top]: bytes at addresses from 1, those up to top in   *)
(* use. A scope gives the address of every variable.                       *)
(***************************************************************************)
EXTENDS Integers, Sequences, SequencesExt, Bitwise

(***************************************************************************)
(* Numbers as sequences of bytes, the lowest first: what C's operators     *)
(* mean on them, written as one computes on paper in base 256.             *)
(***************************************************************************)
\* Digits that may exceed a byte, with the carries taken; the last one is dropped.
Carried(d) ==
  LET carry[k \in 0 .. Len(d)] == IF k = 0 THEN 0 ELSE (d[k] + carry[k - 1]) \div 256
  IN  [k \in DOMAIN d |-> (d[k] + carry[k - 1]) % 256]

Zeros(width) == [k \in 1 .. width |-> 0]

Sum(x, y) == Carried([k \in DOMAIN x |-> x[k] + y[k]])

Inverted(x) == [k \in DOMAIN x |-> 255 - x[k]]

Negated(x) == Sum(Inverted(x), [Zeros(Len(x)) EXCEPT ![1] = 1])

Negative(x) == Last(x) >= 128

\* The product, cut to the width of the factors.
Product(x, y) ==
  LET column[k \in DOMAIN x, i \in 0 .. Len(x)] == IF i = 0 THEN 0 ELSE column[k, i - 1] + x[i] * y[k + 1 - i]
  IN  Carried([k \in DOMAIN x |-> column[k, k]])

\* A number with a sign.
WithSign(minus, x) == IF minus THEN Negated(x) ELSE x

-------------------------------------------------------------------------------
\* Integers in bytes, lowest first.
Bytes(n, size) == [k \in 1 .. size |-> (n \div <<1, 256, 65536, 16777216>>[k]) % 256]
Number(v) ==
  LET from[k \in 1 .. Len(v) + 1] == IF k > Len(v) THEN 0 ELSE v[k] + 256 * from[k + 1] IN from[1]
Signed(v) == IF Negative(v) THEN -Number(Negated(v)) ELSE Number(v)

Load(e, adr, size) == [k \in 1 .. size |-> e.mem[adr + k - 1]]
Store(e, adr, v) == [e EXCEPT !.mem = [a \in adr .. adr + Len(v) - 1 |-> v[a - adr + 1]] @@ @]

Halved(v) == [k \in DOMAIN v |-> v[k] \div 2 + 128 * (IF k < Len(v) THEN v[k + 1] % 2 ELSE 0)]
HalvedSigned(v) == [Halved(v) EXCEPT ![Len(v)] = @ + 128 * (v[Len(v)] \div 128)]

Magnitude(a) == IF a < 0 THEN -a ELSE a
Quotient(a, b) == (IF (a < 0) # (b < 0) THEN -1 ELSE 1) * (Magnitude(a) \div Magnitude(b))

Each(F(_, _), l, r) == [k \in DOMAIN l |-> F(l[k], r[k])]
Repeated(F(_), v, n) == LET after[k \in 0 .. n] == IF k = 0 THEN v ELSE F(after[k - 1]) IN after[n]
Doubled(v) == Sum(v, v)
Shifted(t, v) == IF t = "I" THEN HalvedSigned(v) ELSE Halved(v)
NumberIn(t, v) == IF t = "I" THEN Signed(v) ELSE Number(v)
Divided(op, l, r) == IF op = "DIV" THEN Quotient(l, r) ELSE l - r * Quotient(l, r)

\* The operators of two operands; shifts by the number the second one is.
Binary(op, t, l, r) ==
  CASE op = "ADD"  -> Sum(l, r)
    [] op = "SUB"  -> Sum(l, Negated(r))
    [] op = "MUL"  -> Product(l, r)
    [] op = "BAND" -> Each(LAMBDA x, y : x & y, l, r)
    [] op = "BOR"  -> Each(LAMBDA x, y : x | y, l, r)
    [] op = "BXOR" -> Each(LAMBDA x, y : x ^^ y, l, r)
    [] op = "LSH"  -> Repeated(Doubled, l, r[1])
    [] op = "RSH"  -> Repeated(LAMBDA v : Shifted(t, v), l, r[1])
    [] op \in {"DIV", "MOD"} -> Bytes(Divided(op, NumberIn(t, l), NumberIn(t, r)), Len(l))

\* The order of two numbers is that of their highest digits that differ.
Below(signed, l, r) ==
  IF signed /\ Negative(l) # Negative(r) THEN Negative(l)
  ELSE \E k \in DOMAIN l : l[k] < r[k] /\ \A j \in k + 1 .. Len(l) : l[j] = r[j]

Holds(op, signed, l, r) ==
  CASE op = "EQ" -> l = r
    [] op = "NE" -> l # r
    [] op = "LT" -> Below(signed, l, r)
    [] op = "GT" -> Below(signed, r, l)
    [] op = "LE" -> ~Below(signed, r, l)
    [] op = "GE" -> ~Below(signed, l, r)

\* A conversion keeps the value where it fits: what it widens it extends by the sign of the
\* type it comes from.
Converted(op, v, size) ==
  [k \in 1 .. size |-> IF k <= Len(v) THEN v[k] ELSE IF op = "CVI" /\ Negative(v) THEN 255 ELSE 0]
-------------------------------------------------------------------------------
\* Variables laid out from an address on: [at, scope].
Placed(vars, at, scope) ==
  FoldLeft(LAMBDA acc, v : [at |-> acc.at + v.size, scope |-> (v.name :> acc.at) @@ acc.scope],
           [at |-> at, scope |-> scope], vars)

UnaryOps == {"INDIR", "NEG", "BCOM", "CVI", "CVU", "CVP", "RET"}
Relation == {"EQ", "NE", "LT", "LE", "GT", "GE"}

\* Eval(u, e, sc, tp): the memory afterwards and the value, of unit u in scope sc.
RECURSIVE Eval(_, _, _, _), Truth(_, _, _, _), Exec(_, _, _, _), Invoke(_, _, _, _)

Value(e, v) == [e |-> e, v |-> v]

Pair(l, r) == [e |-> r.e, l |-> l.v, r |-> r.v]
Right(u, sc, tp, l) == Pair(l, Eval(u, l.e, sc, tp.kids[2]))
Operands2(u, e, sc, tp) == Right(u, sc, tp, Eval(u, e, sc, tp.kids[1]))

\* Arguments are listed from the last one to the first.
RECURSIVE Arguments(_, _, _, _)
Arguments(u, e, sc, arg) ==
  LET before == IF Len(arg.kids) > 1 THEN Arguments(u, e, sc, arg.kids[2]) ELSE [e |-> e, vs |-> <<>>]
      one    == Eval(u, before.e, sc, arg.kids[1])
  IN  [e |-> one.e, vs |-> Append(before.vs, one.v)]

\* The function and the arguments of a call; calls listed first are those among the arguments.
RECURSIVE ArgumentTree(_)
ArgumentTree(tp) == IF tp.op = "ARG" THEN tp ELSE ArgumentTree(tp.kids[2])

Call(u, e, sc, tp) ==
  LET to     == tp.kids[1]
      given  == to.op = "RIGHT"
      in     == IF given THEN Arguments(u, e, sc, ArgumentTree(to.kids[1])) ELSE [e |-> e, vs |-> <<>>]
      callee == IF given THEN to.kids[2] ELSE to
  IN  Invoke(u, in.e, CHOOSE f \in ToSet(u.functions) : f.name = callee.sym.name, in.vs)

Given(one, v) == Value(one.e, v)
Loaded(one, size) == Given(one, Load(one.e, Number(one.v), size))
Stored(two) == Value(Store(two.e, Number(two.l), two.r), two.r)
Arm(u, sc, tp, is) == Eval(u, is.e, sc, tp.kids[IF is.v THEN 2 ELSE 3])

\* One operand, or two.
Unary(tp, one) ==
  CASE tp.op = "INDIR" -> Loaded(one, tp.size)
    [] tp.op = "NEG"   -> Given(one, Negated(one.v))
    [] tp.op = "BCOM"  -> Given(one, Inverted(one.v))
    [] tp.op \in {"CVI", "CVU", "CVP"} -> Given(one, Converted(tp.op, one.v, tp.size))
    [] tp.op = "RET"   -> one

OfTwo(tp, two) ==
  CASE tp.op = "ASGN"  -> Stored(two)
    [] tp.op = "RIGHT" -> Value(two.e, IF tp.sym.name = "postfix" THEN two.l ELSE two.r)
    [] OTHER           -> Value(two.e, Binary(tp.op, tp.t, two.l, two.r))

Eval(u, e, sc, tp) ==
  CASE tp.op = "CNST" -> Value(e, Bytes(tp.sym.n, tp.size))
    [] tp.op \in {"ADDRL", "ADDRF", "ADDRG"} -> Value(e, Bytes(sc[tp.sym.name] + tp.sym.n, 2))
    [] tp.op = "NONE" -> Value(e, <<>>)
    [] tp.op = "COND" ->
         LET arm == Arm(u, sc, tp, Truth(u, e, sc, tp.kids[1]))
         IN  IF Len(tp.kids) = 4 THEN Eval(u, arm.e, sc, tp.kids[4]) ELSE arm
    [] tp.op = "CALL" -> Call(u, e, sc, tp)
    [] tp.op \in UnaryOps -> Unary(tp, Eval(u, e, sc, tp.kids[1]))
    [] OTHER -> OfTwo(tp, Operands2(u, e, sc, tp))

\* A condition; && and || stop as soon as they are decided.
Compared(tp, two) == Value(two.e, Holds(tp.op, tp.kids[1].t = "I", two.l, two.r))
Decided(u, sc, tp, one) ==
  CASE tp.op = "NOT" -> Value(one.e, ~one.v)
    [] tp.op = IF one.v THEN "OR" ELSE "AND" -> one
    [] OTHER -> Truth(u, one.e, sc, tp.kids[2])

Truth(u, e, sc, tp) ==
  IF tp.op \in {"AND", "OR", "NOT"} THEN Decided(u, sc, tp, Truth(u, e, sc, tp.kids[1]))
  ELSE Compared(tp, Operands2(u, e, sc, tp))
-------------------------------------------------------------------------------
\* Statements: the memory afterwards, what follows ("next", "break", "continue", "return"),
\* and the value returned.
Then(r, how, v) == [e |-> r, how |-> how, v |-> v]
Next(r) == Then(r, "next", <<>>)

Sequence(u, e, sc, stmts) ==
  FoldLeft(LAMBDA acc, st : IF acc.how = "next" THEN Exec(u, acc.e, sc, st) ELSE acc, Next(e), stmts)

\* A loop from its test on, and from the end of a body on: the step, the test.
RECURSIVE Loop(_, _, _, _)
After(u, sc, st, body) ==
  CASE body.how = "break"  -> Next(body.e)
    [] body.how = "return" -> body
    [] OTHER -> Loop(u, sc, st, Truth(u, Eval(u, body.e, sc, st.step).e, sc, st.e))
Loop(u, sc, st, test) == IF test.v THEN After(u, sc, st, Exec(u, test.e, sc, st.body)) ELSE Next(test.e)

Unbroken(r) == IF r.how = "break" THEN Next(r.e) ELSE r

\* Where a switch goes on in its statements.
Start(stmts, v) ==
  LET Is(i) == stmts[i].s = "case" /\ \E n \in ToSet(stmts[i].values) : Bytes(n, 2) = v
      from  == {i \in DOMAIN stmts : Is(i)}
      other == {i \in DOMAIN stmts : stmts[i].s = "default"}
  IN  IF from # {} THEN CHOOSE i \in from : TRUE
      ELSE IF other # {} THEN CHOOSE i \in other : TRUE ELSE Len(stmts) + 1

Switched(u, sc, stmts, v) ==
  Unbroken(Sequence(u, v.e, sc, SubSeq(stmts, Start(stmts, v.v), Len(stmts))))

Chosen(u, sc, st, test) ==
  IF test.v THEN Exec(u, test.e, sc, st.then) ELSE Sequence(u, test.e, sc, st.else)

NoStep(st) == [step |-> [op |-> "NONE"]] @@ st
Scoped(u, e, in, body) == Sequence(u, [e EXCEPT !.top = in.at - 1], in.scope, body)
Returned(one) == Then(one.e, "return", one.v)

Exec(u, e, sc, st) ==
  CASE st.s = "if"     -> Chosen(u, sc, st, Truth(u, e, sc, st.e))
    [] st.s = "while"  -> Loop(u, sc, NoStep(st), Truth(u, e, sc, st.e))
    [] st.s = "do"     -> After(u, sc, NoStep(st), Exec(u, e, sc, st.body))
    [] st.s = "for"    -> Loop(u, sc, st, Truth(u, Eval(u, e, sc, st.init).e, sc, st.e))
    [] st.s = "switch" -> Switched(u, sc, st.body.body, Eval(u, e, sc, st.e))
    [] st.s \in {"case", "default"} -> Exec(u, e, sc, st.body)
    [] st.s = "block"  -> Scoped(u, e, Placed(st.locals, e.top + 1, sc), st.body)
    [] st.s \in {"break", "continue"} -> Then(e, st.s, <<>>)
    [] st.s = "return" -> Returned(Eval(u, e, sc, st.e))
    [] OTHER           -> Next(Eval(u, e, sc, st.e).e)

\* A call: its parameters and locals are new, its globals those of the unit.
Ended(f, done) == Value(done.e, IF done.how = "return" THEN done.v ELSE Bytes(0, f.size))
StoreAll(e, names, scope, value) ==
  FoldLeft(LAMBDA acc, name : Store(acc, scope[name], value[name]), e, names)

Begun(u, e, f, args, params, locals) ==
  Sequence(u, StoreAll([e EXCEPT !.top = locals.at - 1], [k \in DOMAIN args |-> f.params[k].name], params.scope,
                       [name \in {f.params[k].name : k \in DOMAIN args} |->
                          args[CHOOSE k \in DOMAIN args : f.params[k].name = name]]),
           locals.scope, f.body)

Entered(u, e, f, args, params) == Begun(u, e, f, args, params, Placed(f.locals, params.at, params.scope))

Invoke(u, e, f, args) == Ended(f, Entered(u, e, f, args, Placed(f.params, e.top + 1, u.scope)))

NamesOf(vars) == [k \in DOMAIN vars |-> vars[k].name]
Run(functions, at, input, names) ==
  Invoke([functions |-> functions, scope |-> at.scope],
         StoreAll([mem |-> <<>>, top |-> at.at - 1], names, at.scope, input),
         CHOOSE f \in ToSet(functions) : f.name = "main", <<>>).e
GlobalsIn(e, at, input) == [g \in DOMAIN input |-> Load(e, at.scope[g], Len(input[g]))]

\* The globals after main(), from those before it: each name with its bytes.
Laid(functions, globals, input, at) == GlobalsIn(Run(functions, at, input, NamesOf(globals)), at, input)
Meaning(functions, globals, input) == Laid(functions, globals, input, Placed(globals, 1, <<>>))
===============================================================================
