---------------------------------- MODULE Dag ----------------------------------
(***************************************************************************)
(* From expression trees to forests of dags (lcc/src/dag.c): common        *)
(* subexpressions are found through the hash table of nodes, && || ! ?:    *)
(* become labels and jumps.                                                *)
(*                                                                         *)
(* A tree is [op, t, size, kids, sym]: the generic operator, its type      *)
(* suffix (I, U, P, V), its size, the operand trees, and a symbol          *)
(* [name, n] - a variable with an offset, a constant, a label. A node is   *)
(* the same with the numbers of its operand nodes.                         *)
(***************************************************************************)
EXTENDS Integers, Sequences, SequencesExt

Symbol(name, n) == [name |-> name, n |-> n]
NoSymbol == Symbol("", 0)
AddressOps == {"ADDRG", "ADDRF", "ADDRL"}

Node(op, t, size, kids, sym) == [op |-> op, t |-> t, size |-> size, kids |-> kids, sym |-> sym]
NoTree == Node("NONE", "V", 0, <<>>, NoSymbol)

\* The compiler before the first function: nodes made so far, those the hash table holds,
\* the roots listed since the last walk, the code list, the depth of && and ||, for each
\* label its number of uses and the label it was equated to, the label returns go to, and
\* the switch around the statement.
NoCode ==
  [nodes |-> <<>>, buckets |-> {}, forest |-> <<>>, code |-> <<>>, depth |-> 0,
   label |-> 1, ref |-> <<>>, equated |-> <<>>, exit |-> 0,
   sw |-> [lab |-> 0, deflab |-> 0, cases |-> <<>>, var |-> NoTree]]

\* v, with d known before: the checker evaluates an argument where it is used, and its stack
\* is too short for a function whose statements all wait for each other.
Knowing(d, v) == CASE d.label > 0 -> v

code(d, entry) == [d EXCEPT !.code = Append(@, entry)]
Marker(kind, locals) == [kind |-> kind, forest |-> <<>>, locals |-> locals]

\* A variable the compiler makes itself gets its place where it is first used.
addlocal(d, sym, size) ==
  LET entry == Marker("Local", <<[name |-> sym.name, size |-> size]>>)
  IN  IF Contains(d.code, entry) THEN d ELSE code(d, entry)

genlabel(d, n) ==
  [d EXCEPT !.label = @ + n, !.ref = @ \o [k \in 1 .. n |-> 0],
            !.equated = @ \o [k \in 1 .. n |-> 0]]

Used(d, lab) == [d EXCEPT !.ref[lab] = @ + 1]
equatelab(d, old, new) == Used([d EXCEPT !.equated[old] = new], new)

reset(d) == [d EXCEPT !.buckets = {}]

\* Mutant: the nodes that read through a pointer are kept.
killnodes_NamedOnly(d, sym) ==
  LET n(i) == d.nodes[i]
      Stale(i) == n(i).op = "INDIR" /\ d.nodes[n(i).kids[1]].op \in AddressOps
                    /\ d.nodes[n(i).kids[1]].sym = sym
  IN  [d EXCEPT !.buckets = {i \in @ : ~Stale(i)}]

\* What an assignment to a variable makes stale: its value, and whatever is read through a
\* pointer.
killnodes(d, sym) ==
  LET n(i) == d.nodes[i]
      Stale(i) == n(i).op = "INDIR" /\ \/ d.nodes[n(i).kids[1]].op \notin AddressOps
                                       \/ d.nodes[n(i).kids[1]].sym = sym
  IN  [d EXCEPT !.buckets = {i \in @ : ~Stale(i)}]

\* A node and the compiler that has it: newnode() always makes one, node() looks first.
newnode(d, n) == [d |-> [d EXCEPT !.nodes = Append(@, n)], p |-> Len(d.nodes) + 1]

node(d, n) ==
  IF \E i \in d.buckets : d.nodes[i] = n
  THEN [d |-> d, p |-> CHOOSE i \in d.buckets : d.nodes[i] = n]
  ELSE LET made == newnode(d, n) IN [made EXCEPT !.d.buckets = @ \union {made.p}]

list(r) == IF r.p = 0 \/ Contains(r.d.forest, r.p) THEN r.d ELSE [r.d EXCEPT !.forest = Append(@, r.p)]
ListNew(d, n) == list(newnode(d, n))

LabelNode(lab) == Node("LABEL", "V", 0, <<>>, Symbol("", lab))

EndsInLabel(d) == d.forest # <<>> /\ d.nodes[Last(d.forest)].op = "LABEL"
LastLabel(d) == d.nodes[Last(d.forest)].sym.n

labelnode(d, lab) ==
  reset(IF EndsInLabel(d) THEN equatelab(d, lab, LastLabel(d)) ELSE ListNew(d, LabelNode(lab)))

\* jump() and the root it is listed as.
jump(d, lab) ==
  LET address == newnode(Used(d, lab), Node("ADDRG", "P", 2, <<>>, Symbol("", lab)))
  IN  newnode(address.d, Node("JUMP", "V", 0, <<address.p>>, NoSymbol))

\* After an arm of ?: that ends in a label of its own, that label is the end of the whole.
JoinArm(d, end) ==
  IF EndsInLabel(d) THEN [equatelab(d, LastLabel(d), end) EXCEPT !.forest = Front(@)] ELSE d

Opposite == [EQ |-> "NE", NE |-> "EQ", GT |-> "LE", LE |-> "GT", LT |-> "GE", GE |-> "LT"]
Relations == DOMAIN Opposite

\* The relation to jump on: the one written, or its inverse for the jump on false.
Tested(op, tlab) == IF tlab # 0 THEN op ELSE Opposite[op]
-------------------------------------------------------------------------------
\* listnodes(tp, tlab, flab): the compiler afterwards and the node of the value, 0 for none.
\* With a label the tree is a condition to jump on.
RECURSIVE listnodes(_, _, _, _)

Only(d) == [d |-> d, p |-> 0]

\* The operands one after the other, and the numbers of their nodes.
Operands(d, kids) ==
  LET one == listnodes(d, kids[1], 0, 0)
      two == listnodes(one.d, kids[2], 0, 0)
  IN  CASE Len(kids) = 0 -> [d |-> d, p |-> <<>>]
        [] Len(kids) = 1 -> [d |-> one.d, p |-> <<one.p>>]
        [] Len(kids) = 2 -> [d |-> two.d, p |-> <<one.p, two.p>>]

Outermost(d) == [(IF d.depth = 0 THEN reset(d) ELSE d) EXCEPT !.depth = @ + 1]
Leave(d) == Only([d EXCEPT !.depth = @ - 1])

ListAnd(d, tp, tlab, flab) ==
  LET in   == IF flab # 0 THEN Outermost(d) ELSE genlabel(Outermost(d), 1)
      skip == IF flab # 0 THEN flab ELSE d.label
      one  == listnodes(in, tp.kids[1], 0, skip).d
  IN  IF flab # 0 THEN Leave(listnodes(one, tp.kids[2], 0, skip).d)
      ELSE Leave(labelnode(listnodes(one, tp.kids[2], tlab, 0).d, skip))

ListOr(d, tp, tlab, flab) ==
  LET in   == IF tlab # 0 THEN Outermost(d) ELSE genlabel(Outermost(d), 1)
      take == IF tlab # 0 THEN tlab ELSE d.label
      one  == listnodes(in, tp.kids[1], take, 0).d
  IN  IF tlab # 0 THEN Leave(listnodes(one, tp.kids[2], take, 0).d)
      ELSE Leave(labelnode(listnodes(one, tp.kids[2], 0, flab).d, take))

\* e ? l : r, whose arms assign to a variable of their own if they have a value.
ListCond(d, tp) ==
  LET no    == d.label
      end   == no + 1
      has   == Len(tp.kids) = 4
      in    == IF has THEN addlocal(d, tp.kids[4].kids[1].sym, tp.kids[4].size) ELSE d
      yes   == reset(listnodes(genlabel(in, 2), tp.kids[1], 0, no).d)
      left  == jump(JoinArm(listnodes(yes, tp.kids[2], 0, 0).d, end), end)
      right == JoinArm(listnodes(labelnode(list(left), no), tp.kids[3], 0, 0).d, end)
      out   == labelnode(right, end)
  IN  IF has THEN listnodes(out, tp.kids[4], 0, 0) ELSE Only(out)

ListConstant(d, tp, tlab, flab) ==
  IF tlab = 0 /\ flab = 0 THEN node(d, Node("CNST", tp.t, tp.size, <<>>, tp.sym))
  ELSE IF tlab # 0 /\ tp.sym.n # 0 THEN Only(list(jump(d, tlab)))
  ELSE IF flab # 0 /\ tp.sym.n = 0 THEN Only(list(jump(d, flab)))
  ELSE Only(d)

\* The comma, and x++ (the old value is listed before the assignment to the same place).
ListRight(d, tp, tlab, flab) ==
  IF tp.sym.name = "postfix"
  THEN LET old == listnodes(d, tp.kids[1], 0, 0)
       IN  [d |-> listnodes(list(old), tp.kids[2], 0, 0).d, p |-> old.p]
  ELSE listnodes(listnodes(d, tp.kids[1], 0, 0).d, tp.kids[2], tlab, flab)

\* The arguments and the address of the function are the operand. A call that is itself an
\* argument is listed before all arguments: its tree knows its node from then on. (sym.n
\* tells the calls of a program apart.)
ListCall(d, tp) ==
  LET f == Operands(d, tp.kids)
      call == newnode(f.d, Node("CALL", tp.t, tp.size, f.p, tp.sym))
  IN  IF \E i \in DOMAIN d.nodes : d.nodes[i].op = "CALL" /\ d.nodes[i].sym = tp.sym
      THEN [d |-> d, p |-> CHOOSE i \in DOMAIN d.nodes : d.nodes[i].op = "CALL" /\ d.nodes[i].sym = tp.sym]
      ELSE [d |-> reset(list(call)), p |-> call.p]

\* Left to right: the arguments before this one are its second operand.
ListArg(d, tp) ==
  LET before == IF Len(tp.kids) > 1 THEN listnodes(d, tp.kids[2], 0, 0).d ELSE d
      value  == listnodes(before, tp.kids[1], 0, 0)
  IN  Only(ListNew(value.d, Node("ARG", tp.t, tp.size, <<value.p>>, Symbol("", tp.size))))

ListRelation(d, tp, tlab, flab) ==
  LET v   == Operands(d, tp.kids)
      l   == v.d.nodes[v.p[1]]
      lab == IF tlab # 0 THEN tlab ELSE flab
  IN  Only(Used(ListNew(v.d, Node(Tested(tp.op, tlab), l.t, l.size, v.p, Symbol("", lab))), lab))

\* After an assignment to a variable its old value is forgotten, after one through a
\* pointer everything is.
ListAsgn(d, tp) ==
  LET v     == Operands(d, tp.kids)
      place == tp.kids[1]
      done  == ListNew(v.d, Node("ASGN", tp.t, tp.size, v.p, Symbol("", tp.size)))
  IN  [d |-> IF place.op \in AddressOps THEN killnodes(done, place.sym) ELSE reset(done),
       p |-> v.p[2]]

\* A conversion keeps the size it converts from.
ListValue(d, tp) ==
  LET v == Operands(d, tp.kids)
  IN  node(v.d, Node(tp.op, tp.t, tp.size, v.p,
                     IF tp.op \in {"CVI", "CVU", "CVP"} THEN Symbol("", tp.kids[1].size) ELSE tp.sym))

ListReturn(d, tp) ==
  LET v == Operands(d, tp.kids) IN Only(ListNew(v.d, Node("RET", tp.t, tp.size, v.p, NoSymbol)))

listnodes(d, tp, tlab, flab) ==
  Knowing(d,
    CASE tp.op = "AND"         -> ListAnd(d, tp, tlab, flab)
      [] tp.op = "OR"          -> ListOr(d, tp, tlab, flab)
      [] tp.op = "NOT"         -> listnodes(d, tp.kids[1], flab, tlab)
      [] tp.op = "COND"        -> ListCond(d, tp)
      [] tp.op = "CNST"        -> ListConstant(d, tp, tlab, flab)
      [] tp.op = "RIGHT"       -> ListRight(d, tp, tlab, flab)
      [] tp.op = "CALL"        -> ListCall(d, tp)
      [] tp.op = "ARG"         -> ListArg(d, tp)
      [] tp.op \in Relations   -> ListRelation(d, tp, tlab, flab)
      [] tp.op = "ASGN"        -> ListAsgn(d, tp)
      [] tp.op = "RET"         -> ListReturn(d, tp)
      [] tp.op = "NONE"        -> Only(d)
      [] OTHER                 -> ListValue(d, tp))
-------------------------------------------------------------------------------
\* The roots listed so far become an entry of the code list.
Flush(d) ==
  reset(IF d.forest = <<>> THEN d
        ELSE [code(d, [kind |-> "Gen", forest |-> d.forest]) EXCEPT !.forest = <<>>])

walk(d, tp, tlab, flab) == Flush(listnodes(d, tp, tlab, flab).d)

RECURSIVE equated(_, _)
equated(d, lab) == IF d.equated[lab] = 0 THEN lab ELSE equated(d, d.equated[lab])

\* Mutant: tests keep the labels they were made for.
fixup_JumpsOnly(d, nodes, forest) ==
  LET jumps == {nodes[p].kids[1] : p \in {p \in ToSet(forest) : nodes[p].op = "JUMP"}}
  IN  [i \in DOMAIN nodes |->
         IF i \in jumps THEN [nodes[i] EXCEPT !.sym = Symbol("", equated(d, nodes[i].sym.n))] ELSE nodes[i]]

\* fixup(): the jumps and tests of a forest go to the labels theirs were equated to.
fixup(d, nodes, forest) ==
  LET Target(i) == Symbol("", equated(d, nodes[i].sym.n))
      jumps == {nodes[p].kids[1] : p \in {p \in ToSet(forest) : nodes[p].op = "JUMP"}}
      tests == {p \in ToSet(forest) : nodes[p].op \in Relations}
  IN  [i \in DOMAIN nodes |->
         IF i \in jumps \union tests THEN [nodes[i] EXCEPT !.sym = Target(i)] ELSE nodes[i]]
===============================================================================
