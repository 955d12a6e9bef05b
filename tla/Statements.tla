------------------------------ MODULE Statements ------------------------------
(***************************************************************************)
(* From statements to the code list of a function (lcc/src/stmt.c): labels *)
(* and jumps are put down with the forests, jumps to the next label and    *)
(* labels in front of a jump are taken out again.                          *)
(*                                                                         *)
(* A statement is [s, e, body, ...] with s the keyword; a block is         *)
(* [s, locals, body]. Conditions are relations, && || or !, as cond()      *)
(* leaves them. Not modelled: goto, and the jump table of a dense switch.  *)
(***************************************************************************)
EXTENDS Dag

\* The entries that stand for no code, and with the labels those definelab looks past.
Markers == {"Blockbeg", "Blockend", "Local"}

\* The last entry of the list that is of none of these kinds, 0 for its start.
LastBut(d, kinds) == Max({0} \union {i \in DOMAIN d.code : d.code[i].kind \notin kinds})
KindAt(d, i) == IF i = 0 THEN "Start" ELSE d.code[i].kind
RootAt(d, i) == d.nodes[d.code[i].forest[1]]
Without(d, i) == [d EXCEPT !.code = RemoveAt(@, i)]

\* A jump right before the label it goes to is dropped, and then the one before it.
RECURSIVE DropJumpsTo(_, _)
DropJumpsTo(d, lab) ==
  LET i == LastBut(d, Markers \union {"Label"})
  IN  IF KindAt(d, i) = "Jump" /\ d.nodes[RootAt(d, i).kids[1]].sym.n = lab
      THEN DropJumpsTo([Without(d, i) EXCEPT !.ref[lab] = @ - 1], lab)
      ELSE d

definelab(d, lab) ==
  LET label == newnode(Flush(d), LabelNode(lab))
  IN  DropJumpsTo(code(label.d, [kind |-> "Label", forest |-> <<label.p>>]), lab)

\* Whether old is new, or what new was equated to.
RECURSIVE equal(_, _, _)
equal(d, old, new) == old = new \/ (d.equated[new] # 0 /\ equal(d, old, d.equated[new]))

\* Labels right before a jump become names of its target.
RECURSIVE EquateLabelsBefore(_, _)
EquateLabelsBefore(d, lab) ==
  LET i == LastBut(d, Markers)
  IN  IF KindAt(d, i) = "Label" /\ ~equal(d, RootAt(d, i).sym.n, lab)
      THEN EquateLabelsBefore(equatelab(Without(d, i), RootAt(d, i).sym.n, lab), lab)
      ELSE d

\* A jump; none after another one, where it could not be reached.
branch(d, lab) ==
  LET to   == jump(EquateLabelsBefore(Flush(d), lab), lab)
      done == KindAt(to.d, LastBut(to.d, Markers)) \in {"Jump", "Switch"}
  IN  IF done THEN [to.d EXCEPT !.ref[lab] = @ - 1]
      ELSE code(to.d, [kind |-> "Jump", forest |-> <<to.p>>])

DefineIfUsed(d, lab) == IF d.ref[lab] > 0 THEN definelab(d, lab) ELSE d
-------------------------------------------------------------------------------
\* Whether the first test of a for can be seen to succeed.
RelationHolds(op, l, r) ==
  CASE op = "EQ" -> l = r [] op = "NE" -> l # r [] op = "LT" -> l < r
    [] op = "LE" -> l <= r [] op = "GT" -> l > r [] op = "GE" -> l >= r

foldcond(e1, e2) ==
  /\ e1.op = "ASGN" /\ e1.kids[1].op \in AddressOps /\ e1.kids[2].op = "CNST"
  /\ e2.op \in Relations /\ e2.kids[1].op = "INDIR" /\ e2.kids[2].op = "CNST"
  /\ e2.kids[1].kids[1].sym = e1.kids[1].sym
  /\ e2.kids[2].t = e1.kids[2].t /\ e2.kids[2].size = e1.kids[2].size
  /\ RelationHolds(e2.op, e1.kids[2].sym.n, e2.kids[2].sym.n)

\* A case: values in ascending order, each with its label.
caselabel(sw, val, lab) ==
  LET before == SelectSeq(sw.cases, LAMBDA c : c.val < val)
      after  == SelectSeq(sw.cases, LAMBDA c : c.val > val)
  IN  [sw EXCEPT !.cases = before \o <<[val |-> val, lab |-> lab]>> \o after]

\* Runs of cases at least half of whose range is taken, found from left to right: the
\* positions at which they start.
Dense(v, i, j) == 2 * (j - i + 1) >= v[j].val - v[i].val + 1

RECURSIVE MergeRuns(_, _, _)
MergeRuns(v, starts, k) ==
  IF Len(starts) > 1 /\ Dense(v, starts[Len(starts) - 1], k) THEN MergeRuns(v, Front(starts), k) ELSE starts

Runs(v) == FoldLeft(LAMBDA starts, k : MergeRuns(v, Append(starts, k), k), <<>>, [k \in DOMAIN v |-> k])

cmp(d, op, var, n, lab) == listnodes(d, Node(op, "I", 2, <<var, Node("CNST", "I", 2, <<>>, Symbol("", n))>>, NoSymbol), lab, 0).d

\* Binary search among the runs b[lb..ub], whose values are compared one by one.
RECURSIVE swcode(_, _, _, _, _)
swcode(d, sw, b, lb, ub) ==
  LET k == (lb + ub) \div 2
      low == k > lb
      high == k < ub
      lolab == IF low THEN d.label ELSE sw.deflab
      hilab == IF high THEN d.label + (IF low THEN 1 ELSE 0) ELSE sw.deflab
      first == b[k]
      last  == IF k = Len(b) THEN Len(sw.cases) ELSE b[k + 1] - 1
      named == genlabel(d, (IF low THEN 1 ELSE 0) + (IF high THEN 1 ELSE 0))
      found == FoldLeft(LAMBDA acc, i : cmp(acc, "EQ", sw.var, sw.cases[i].val, sw.cases[i].lab),
                        named, [i \in 1 .. last - first + 1 |-> first + i - 1])
      away  == Flush(IF low THEN cmp(found, "GT", sw.var, sw.cases[last].val, hilab)
                     ELSE IF high THEN cmp(found, "LT", sw.var, sw.cases[first].val, lolab)
                     ELSE branch(found, lolab))
      below == IF low THEN swcode(definelab(away, lolab), sw, b, lb, k - 1) ELSE away
  IN  IF high THEN swcode(definelab(below, hilab), sw, b, k + 1, ub) ELSE below

swgen(d, sw) == IF sw.cases = <<>> THEN d ELSE LET b == Runs(sw.cases) IN swcode(d, sw, b, 1, Len(b))
-------------------------------------------------------------------------------
\* The statements. loop and sw.lab are the labels of the loop and the switch around, 0 for
\* none; d.sw is that switch.
RECURSIVE statement(_, _, _)

Body(d, stmts, loop) == FoldLeft(LAMBDA acc, st : statement(acc, st, loop), d, stmts)

ifstmt(d, st, loop) ==
  LET lab == d.label
      then == statement(walk(genlabel(d, 2), st.e, 0, lab), st.then, loop)
  IN  IF st.else = <<>> THEN definelab(then, lab)
      ELSE DefineIfUsed(Body(definelab(branch(then, lab + 1), lab), st.else, loop), lab + 1)

\* The test is at the end, and jumped to first.
whilestmt(d, st) ==
  LET lab  == d.label
      body == statement(definelab(branch(Flush(genlabel(d, 3)), lab + 1), lab), st.body, lab)
  IN  DefineIfUsed(walk(definelab(body, lab + 1), st.e, lab, 0), lab + 2)

dostmt(d, st) ==
  LET lab  == d.label
      body == statement(definelab(genlabel(d, 3), lab), st.body, lab)
  IN  DefineIfUsed(walk(definelab(body, lab + 1), st.e, lab, 0), lab + 2)

\* Mutant: continue goes past the step.
forstmt_StepSkipped(d, st) ==
  LET lab  == d.label
      once == foldcond(st.init, st.e)
      init == walk(genlabel(d, 4), st.init, 0, 0)
      in   == definelab(IF once THEN init ELSE branch(init, lab + 3), lab)
      step == definelab(walk(statement(in, st.body, lab), st.step, 0, 0), lab + 1)
      test == walk(IF once THEN step ELSE definelab(step, lab + 3), st.e, lab, 0)
  IN  DefineIfUsed(test, lab + 2)

forstmt(d, st) ==
  LET lab  == d.label
      once == foldcond(st.init, st.e)
      init == walk(genlabel(d, 4), st.init, 0, 0)
      in   == definelab(IF once THEN init ELSE branch(init, lab + 3), lab)
      step == walk(definelab(statement(in, st.body, lab), lab + 1), st.step, 0, 0)
      test == walk(IF once THEN step ELSE definelab(step, lab + 3), st.e, lab, 0)
  IN  DefineIfUsed(test, lab + 2)

\* The comparisons are put where the switch starts, once its cases are known.
swstmt(d, st, loop) ==
  LET lab   == d.label
      head  == Flush(genlabel(d, 2))
      sw    == [lab |-> lab, deflab |-> 0, cases |-> <<>>, var |-> st.e]
      body  == statement([code(head, Marker("Switch", <<>>)) EXCEPT !.sw = sw], st.body, loop)
      whole == IF body.sw.deflab # 0 THEN body
               ELSE [definelab(body, lab) EXCEPT !.sw.deflab = lab]
      ended == DefineIfUsed(whole, lab + 1)
      tests == branch(swgen([ended EXCEPT !.code = head.code], ended.sw), lab)
  IN  [tests EXCEPT !.code = @ \o SubSeq(ended.code, Len(head.code) + 2, Len(ended.code)), !.sw = d.sw]

casestmt(d, st, loop) ==
  LET lab == d.label
      in  == definelab(genlabel(d, 1), lab)
  IN  statement([in EXCEPT !.sw = FoldLeft(LAMBDA sw, val : caselabel(sw, val, lab), @, st.values)], st.body, loop)

defaultstmt(d, st, loop) ==
  statement([definelab(d, d.sw.lab) EXCEPT !.sw.deflab = d.sw.lab], st.body, loop)

compound(d, st, loop) ==
  code(Flush(Body(code(Flush(d), Marker("Blockbeg", st.locals)), st.body, loop)), Marker("Blockend", <<>>))

\* Nodes of an expression statement stay known to the next one.
exprstmt(d, st) == LET done == listnodes(d, st.e, 0, 0).d IN IF done.buckets = {} THEN Flush(done) ELSE done

statement(d, st, loop) ==
  Knowing(d,
    CASE st.s = "if"       -> ifstmt(d, st, loop)
      [] st.s = "while"    -> whilestmt(d, st)
      [] st.s = "do"       -> dostmt(d, st)
      [] st.s = "for"      -> forstmt(d, st)
      [] st.s = "switch"   -> swstmt(d, st, loop)
      [] st.s = "case"     -> casestmt(d, st, loop)
      [] st.s = "default"  -> defaultstmt(d, st, loop)
      [] st.s = "block"    -> compound(d, st, loop)
      [] st.s = "break"    -> branch(Flush(d), IF d.sw.lab > loop THEN d.sw.lab + 1 ELSE loop + 2)
      [] st.s = "continue" -> branch(Flush(d), loop + 1)
      [] st.s = "return"   -> branch(walk(d, st.e, 0, 0), d.exit)
      [] OTHER             -> exprstmt(d, st))

\* The code list of a function before its body, with the label its returns go to, and after
\* it: a body that may run out returns 0.
funcbegin(d, f) ==
  [genlabel(d, 1) EXCEPT !.exit = d.label, !.nodes = <<>>, !.code = <<Marker("Blockbeg", f.locals)>>]

funcend(d, f) ==
  LET body == Flush(d)
      open == KindAt(body, LastBut(body, Markers)) # "Jump"
      full == IF open /\ f.size > 0
              THEN walk(body, Node("RET", "I", 2, <<Node("CNST", "I", 2, <<>>, Symbol("", 0))>>, NoSymbol), 0, 0)
              ELSE body
  IN  Flush(definelab(code(full, Marker("Blockend", <<>>)), d.exit))
===============================================================================
