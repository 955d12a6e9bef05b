------------------------------- MODULE MCFrontEnd -------------------------------
(***************************************************************************)
(* The front end on the files of SourceFiles, compared with what CSource   *)
(* says of them.                                                           *)
(***************************************************************************)
EXTENDS FrontEnd

S == INSTANCE CSemantics

\* How many bytes a directive fills, and with what.
Filling(l) ==
  CASE l.d = "skip"    -> l.n
    [] l.d = "ascii"   -> Len(l.str)
    [] l.d = "address" -> 2
    [] l.d = "const"   -> l.size
    [] OTHER           -> 0
DataAt == 16
Labels(out) ==
  FoldLeft(LAMBDA acc, l : IF l.d = "label" THEN [acc EXCEPT !.adr = (l.name :> acc.at) @@ @]
                           ELSE [acc EXCEPT !.at = @ + Filling(l)],
           [at |-> DataAt, adr |-> <<>>], out)
\* Functions have addresses too, above all memory.
CodeAt == 60000
CodeNames(fs) == [name \in {f.name : f \in ToSet(fs)} |-> CodeAt + (CHOOSE k \in DOMAIN fs : fs[k].name = name)]
BytesOf(l, adr) ==
  CASE l.d = "skip"    -> [k \in 1 .. l.n |-> 0]
    [] l.d = "ascii"   -> l.str
    [] l.d = "address" -> S!Bytes(adr[l.name] + l.n, 2)
    [] l.d = "const"   -> S!Bytes(l.n, l.size)
    [] OTHER           -> <<>>
Image(out, adr) == FoldLeft(LAMBDA acc, l : acc \o BytesOf(l, adr), <<>>, out)

\* The program: where everything is, and the bytes it starts with.
Linked(out, fs, ss, at) ==
  [adr |-> CodeNames(fs) @@ at.adr, functions |-> fs, structs |-> ss, top |-> at.at,
   data |-> Image(out, CodeNames(fs) @@ at.adr)]
Program == Linked(cc.out, functions, cc.structs, Labels(cc.out))
-------------------------------------------------------------------------------
Value(m, v) == [m |-> m, v |-> v]
StoreBytes(m, adr, v) == [m EXCEPT !.mem = [a \in adr .. adr + Len(v) - 1 |-> v[a - adr + 1]] @@ @]
\* What has no value yet reads as 0.
LoadBytes(m, adr, size) ==
  [k \in 1 .. size |-> IF adr + k - 1 \in DOMAIN m.mem THEN m.mem[adr + k - 1] ELSE 0]
Remember(r, id) == IF id = 0 THEN r ELSE [r EXCEPT !.m.memo = (id :> r.v) @@ @]

RECURSIVE Eval(_, _, _, _), Truth(_, _, _, _), Given(_, _, _, _), Invoke(_, _, _, _)

Second(g, sc, p, l) == LET r == Eval(g, l.m, sc, p.kids[2]) IN [m |-> r.m, l |-> l.v, r |-> r.v]
Both(g, m, sc, p) == Second(g, sc, p, Eval(g, m, sc, p.kids[1]))

OfOne(p, r) ==
  CASE p.op = "INDIR" -> Value(r.m, LoadBytes(r.m, S!Number(r.v), p.size))
    [] p.op = "NEG"   -> Value(r.m, S!Negated(r.v))
    [] p.op = "BCOM"  -> Value(r.m, S!Inverted(r.v))
    [] p.op \in {"CVI", "CVU", "CVP"} -> Value(r.m, S!Converted(p.op, r.v, p.size))
OfTwo(p, two) ==
  CASE p.op = "ASGN"  -> Value(StoreBytes(two.m, S!Number(two.l), two.r), two.r)
    [] p.op = "RIGHT" -> Value(two.m, IF IsPostfix(p) \/ Missing(p.kids[2]) THEN two.l ELSE two.r)
    [] OTHER          -> Value(two.m, S!Binary(p.op, p.t, two.l, two.r))

\* The arm of a ?: that is taken; what it assigns to the variable of the ?: is its value.
Arm(p, test) ==
  LET arm == p.kids[IF test.v THEN 2 ELSE 3]
  IN  IF Len(p.kids) = 4 /\ arm.op = "ASGN" /\ arm.kids[1].sym.name = p.sym.name THEN arm.kids[2] ELSE arm
Choose(g, sc, p, test) == Eval(g, test.m, sc, Arm(p, test))

\* Arguments come last to first; calls among them have been listed before.
Earlier(arg) == IF Len(arg.kids) > 1 THEN arg.kids[2] ELSE Nothing
NextGiven(g, sc, arg, before) ==
  LET one == Eval(g, before.m, sc, arg.kids[1]) IN Value(one.m, Append(before.v, one.v))
Given(g, m, sc, arg) ==
  CASE arg.op = "NONE"  -> Value(m, <<>>)
    [] arg.op = "ARG"   -> NextGiven(g, sc, arg, Given(g, m, sc, Earlier(arg)))
    [] arg.op = "RIGHT" -> Given(g, Eval(g, m, sc, arg.kids[1]).m, sc, arg.kids[2])

Jump(g, given, to) ==
  Invoke(g, to.m, CHOOSE f \in ToSet(g.functions) : g.adr[f.name] = S!Number(to.v), given.v)
CallTo(g, sc, to, given) == Jump(g, given, Eval(g, given.m, sc, to))
Call(g, m, sc, to) ==
  IF to.op = "RIGHT" THEN CallTo(g, sc, to.kids[2], Given(g, m, sc, to.kids[1])) ELSE CallTo(g, sc, to, Value(m, <<>>))

\* && and || whose value nothing wants: the right side is left for what it does.
Attempted(g, sc, p, one) ==
  IF one.v = (p.op = "OR") THEN Value(one.m, <<>>) ELSE Value(Eval(g, one.m, sc, p.kids[2]).m, <<>>)

AddressOfSymbol(g, sc, p) == (IF p.op = "ADDRG" THEN g.adr[p.sym.name] ELSE sc[p.sym.name]) + p.sym.n
Evaluated(g, m, sc, p) ==
  CASE p.op = "CNST"      -> Value(m, S!Bytes(p.sym.n, p.size))
    [] p.op \in AddressOps -> Value(m, S!Bytes(AddressOfSymbol(g, sc, p), 2))
    [] p.op = "NONE"      -> Value(m, <<>>)
    [] p.op = "COND"      -> Choose(g, sc, p, Truth(g, m, sc, p.kids[1]))
    [] p.op = "CALL"      -> Call(g, m, sc, p.kids[1])
    [] p.op \in {"AND", "OR"} -> Attempted(g, sc, p, Truth(g, m, sc, p.kids[1]))
    [] p.op \in Relations -> Value(Truth(g, m, sc, p).m, <<>>)
    [] p.op \in {"INDIR", "NEG", "BCOM", "CVI", "CVU", "CVP"} -> OfOne(p, Eval(g, m, sc, p.kids[1]))
    [] OTHER              -> OfTwo(p, Both(g, m, sc, p))
Eval(g, m, sc, p) ==
  IF p.id # 0 /\ p.id \in DOMAIN m.memo THEN Value(m, m.memo[p.id]) ELSE Remember(Evaluated(g, m, sc, p), p.id)

Compared(p, two) == Value(two.m, S!Holds(p.op, p.t = "I", two.l, two.r))
Settled(g, sc, p, one) ==
  CASE p.op = "NOT" -> Value(one.m, ~one.v)
    [] p.op = (IF one.v THEN "OR" ELSE "AND") -> one
    [] OTHER -> Truth(g, one.m, sc, p.kids[2])
Truth(g, m, sc, p) ==
  CASE p.op \in {"AND", "OR", "NOT"} -> Settled(g, sc, p, Truth(g, m, sc, p.kids[1]))
    [] p.op \in Relations -> Compared(p, Both(g, m, sc, p))
    [] p.op = "RIGHT" -> Truth(g, Eval(g, m, sc, p.kids[1]).m, sc, p.kids[2])
    [] p.op = "CNST"  -> Value(m, val(p) # 0)

\* A function: room for its parameters and variables, then its code until it returns.
Room(g, vs, at) ==
  FoldLeft(LAMBDA acc, v : [top |-> acc.top + Size(g.structs, v.type), sc |-> (v.name :> acc.top) @@ acc.sc],
           at, vs)
Stored(g, m, params, sc, vs) ==
  FoldLeft(LAMBDA acc, k : StoreBytes(acc, sc[params[k].name], SubSeq(vs[k], 1, Size(g.structs, params[k].type))),
           m, [k \in DOMAIN params |-> k])
Step(g, m, sc, st) ==
  IF m.ret.how THEN m
  ELSE LET r == Eval(g, m, sc, st.e) IN IF st.s = "return" THEN [r.m EXCEPT !.ret = [how |-> TRUE, v |-> r.v]] ELSE r.m
NotReturned == [how |-> FALSE, v |-> <<>>]
Resumed(m, in) == Value([in EXCEPT !.memo = m.memo, !.ret = m.ret], in.ret.v)
Enter(g, m, f, vs, at) ==
  Resumed(m, FoldLeft(LAMBDA acc, st : Step(g, acc, at.sc, st),
                    Stored(g, [m EXCEPT !.top = at.top, !.memo = <<>>, !.ret = NotReturned], f.params, at.sc, vs), f.code))
Invoke(g, m, f, vs) == Enter(g, m, f, vs, Room(g, f.params \o f.locals, [top |-> m.top, sc |-> <<>>]))

Before(g) ==
  [mem |-> [a \in DataAt .. DataAt + Len(g.data) - 1 |-> g.data[a - DataAt + 1]], top |-> g.top, memo |-> <<>>, ret |-> NotReturned]
Afterwards(g) == Invoke(g, Before(g), CHOOSE f \in ToSet(g.functions) : f.name = "main", <<>>).m

\* Whether a memory holds what variables should: name -> set of <<offset, bytes>>.
HoldsAll(g, m, contained) ==
  \A name \in DOMAIN contained : \A cell \in contained[name] :
    name \in DOMAIN g.adr /\ LoadBytes(m, g.adr[name] + cell[1], Len(cell[2])) = cell[2]
-------------------------------------------------------------------------------
\* The names the file uses, defines and imports.
RECURSIVE Uses(_)
Uses(p) ==
  (IF p.op = "ADDRG" THEN {p.sym.name} ELSE {}) \union UNION {Uses(p.kids[k]) : k \in DOMAIN p.kids}
NamesIn(d) == {l.name : l \in {x \in ToSet(cc.out) : x.d = d}}
UsedNames == NamesIn("address") \union UNION {UNION {Uses(st.e) : st \in ToSet(f.code)} : f \in ToSet(functions)}
DefinedNames == NamesIn("label") \union {f.name : f \in ToSet(functions)}
DefinedOnce ==
  /\ Cardinality(DefinedNames) = Len(SelectSeq(cc.out, LAMBDA l : l.d = "label")) + Len(functions)
  /\ Cardinality(NamesIn("export")) = Len(SelectSeq(cc.out, LAMBDA l : l.d = "export"))
-------------------------------------------------------------------------------
P == INSTANCE SourceFiles

MCFiles == DOMAIN P!Families
MCBegins(name) == P!ProgramWritten(P!Families[name].head)
MCEnds(name) == P!Families[name].ends
MCTokens(os) == P!ProgramWritten(os)

\* The file as the language reads it.
Source == P!Loaded(P!Families[file.name].head \o file.end)

\* The trees of the file, run on the data it defines, leave in every number the file's
\* variables contain what the source leaves there: operators bind and convert as they should,
\* folding and simplification change nothing, names stand for what the scopes say
\* (expr.c, enode.c, simp.c, decl.c, sym.c).
Agrees(w, g) == w.ok => HoldsAll(g, Afterwards(g), P!Contained(w))
ProgramMeansSource == done => Agrees(P!RunMain(Source), Program)

\* The bytes laid out for the variables of the file are their initial values: every part of
\* an aggregate at its offset, strings cut or filled up, zero where nothing is given, and
\* arrays of unknown size as long as their values (init.c, decl.c).
DataMeansSource == done => HoldsAll(Program, Before(Program), P!Contained(Source))

\* However often and wherever a name is declared, it is defined at most once, what is
\* imported is not defined, all that is used is one or the other,
\* and other files see what C gives external linkage (dclglobal, dcllocal, doglobal).
LinkageMeansSource ==
  done => /\ DefinedOnce
          /\ UsedNames \subseteq DefinedNames \union NamesIn("import")
          /\ NamesIn("import") \intersect DefinedNames = {}
          /\ NamesIn("export") = P!Exports(Source)
===============================================================================
