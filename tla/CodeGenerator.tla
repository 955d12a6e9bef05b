----------------------------- MODULE CodeGenerator -----------------------------
(***************************************************************************)
(* Where the values of a function go (lcc/src/cpu4.c): every node of its   *)
(* dags gets a register, or slots of two bytes on the stack that are taken *)
(* and given back as the operands are used up.                             *)
(*                                                                         *)
(* A function is [name, params, locals, size, body]: its variables as      *)
(* sequences of [name, size], the size of its result, its statements.      *)
(***************************************************************************)
EXTENDS Dag

CONSTANT spill_mask_size   \* slots the mask has room for (128)

NoTarget == [kind |-> "none", n |-> 0]
Reg(n) == [kind |-> "reg", n |-> n]
Spill(n) == [kind |-> "spill", n |-> n]

Slots(size) == IF size > 2 THEN 2 ELSE 1
SlotsOf(target, size) == IF target.kind = "spill" THEN target.n .. target.n + Slots(size) - 1 ELSE {}

\* The references the operands of all nodes make to a node.
Counts(nodes) ==
  [p \in DOMAIN nodes |->
     FoldLeft(LAMBDA sum, n : sum + Cardinality({k \in DOMAIN n.kids : n.kids[k] = p}), 0, nodes)]

\* The generator at the start of a function. holds and misread are history: the node whose
\* value a slot (or register, numbered below 0) has, and operands read when it had not.
Generator(nodes, label) ==
  [nodes |-> nodes, count |-> Counts(nodes), target |-> [p \in DOMAIN nodes |-> NoTarget],
   generated |-> {}, args |-> [p \in DOMAIN nodes |-> <<>>], mask |-> {}, n_spill |-> 0,
   emitted |-> {}, sp |-> 0, text |-> <<>>, label |-> label, failed |-> FALSE,
   holds |-> [s \in -2 .. spill_mask_size - 1 |-> 0], misread |-> {}]

\* The first slots that are free; without any the compiler gives up.
alloc_spill(g, size) ==
  LET free == {s \in 0 .. spill_mask_size - Slots(size) : SlotsOf(Spill(s), size) \intersect g.mask = {}}
  IN  IF free = {} THEN [g |-> [g EXCEPT !.failed = TRUE], target |-> Spill(0)]
      ELSE [g |-> [g EXCEPT !.mask = @ \union SlotsOf(Spill(Min(free)), size)],
            target |-> Spill(Min(free))]

Shared(g, p) == g.count[p] > 1
must_spill(op) == op \in {"ADD", "SUB", "BOR", "BXOR", "BAND"} \union Relations

\* An operand waits in a slot while the other one is computed, if it is used again, or if
\* the operation works on the stack.
KidSpills(g, n, k) == k < Len(n.kids) \/ Shared(g, n.kids[k]) \/ must_spill(n.op)

\* Mutant: the slots of an operand are given back although the operand is used again.
free_spills_Shared(g, p) ==
  [g EXCEPT !.mask = @ \ UNION {SlotsOf(g.target[kid], g.nodes[kid].size) : kid \in ToSet(g.nodes[p].kids)}]

\* The operands of a node are used up by it, unless they are used again.
free_spills(g, p) ==
  LET kids == {kid \in ToSet(g.nodes[p].kids) : ~Shared(g, kid)}
  IN  [g EXCEPT !.mask = @ \ UNION {SlotsOf(g.target[kid], g.nodes[kid].size) : kid \in kids}]

\* A node keeps the place its user wants unless it must be in a slot; a root has a place
\* only for a value that is used.
TargetOf(g, p, want) ==
  LET n == g.nodes[p]
      own == \/ want.kind = "reg" /\ (Shared(g, p) \/ must_spill(n.op) \/ n.size > 2)
             \/ want.kind = "none" /\ g.count[p] > 0
  IN  IF own THEN alloc_spill(g, n.size) ELSE [g |-> g, target |-> want]

\* Mutant: the frame is made for one slot for each value.
n_spillFor_Narrow(g, p) == Max({g.n_spill} \union {s + 1 : s \in SlotsOf(g.target[p], 2)})

\* The slots the frame has room for.
n_spillFor(g, p) == Max({g.n_spill} \union {s + 1 : s \in SlotsOf(g.target[p], g.nodes[p].size)})

RECURSIVE gen_node(_, _, _)

GenKid(g, p, k) ==
  LET n   == g.nodes[p]
      kid == n.kids[k]
      s   == alloc_spill(g, g.nodes[kid].size)
  IN  IF kid \in g.generated THEN g
      ELSE IF KidSpills(g, n, k) THEN gen_node(s.g, kid, s.target)
      ELSE gen_node(g, kid, Reg(k - 1))

gen_node(g, p, want) ==
  IF p \in g.generated THEN g
  ELSE LET kids  == FoldLeft(LAMBDA acc, k : GenKid(acc, p, k), g, [k \in DOMAIN g.nodes[p].kids |-> k])
           place == TargetOf(free_spills(kids, p), p, want)
           done  == [place.g EXCEPT !.target[p] = place.target, !.generated = @ \union {p}]
       IN  [done EXCEPT !.n_spill = n_spillFor(done, p)]

gen_root(g, p) == IF g.count[p] > 0 THEN g ELSE gen_node(g, p, NoTarget)

\* The arguments listed since the call before, the last one first.
ArgumentsBefore(g, forest, k) ==
  LET Op(j) == g.nodes[forest[j]].op
      calls == {j \in 1 .. k - 1 : Op(j) = "CALL"}
      here  == SubSeq(forest, Max({0} \union calls) + 1, k - 1)
  IN  Reverse(SelectSeq(here, LAMBDA p : g.nodes[p].op = "ARG"))

assign_args(g, forest, k) ==
  LET args == ArgumentsBefore(g, forest, k)
  IN  [g EXCEPT !.args[forest[k]] = args,
                !.count = [p \in DOMAIN @ |-> IF p \in ToSet(args) THEN 1 ELSE @[p]]]

\* gen(): the root at k; a call takes the arguments before it.
gen(g, forest, k) ==
  LET done == gen_root(g, forest[k])
  IN  IF g.nodes[forest[k]].op = "CALL" THEN assign_args(done, forest, k) ELSE done
-------------------------------------------------------------------------------
\* The places of variables in order of their declaration: name |-> offset.
PlacesFrom(vars, start) ==
  FoldLeft(LAMBDA acc, v : [at |-> acc.at + v.size, place |-> acc.place @@ (v.name :> acc.at)],
           [at |-> start, place |-> <<>>], vars)

\* The locals of a code list: a block that ends leaves its places to the next one.
\* maxoffset is the room they need.
LocalPlaces(entries) ==
  LET Enter(acc, e) ==
        LET new == PlacesFrom(e.locals, acc.offset)
        IN  [acc EXCEPT !.offset = new.at, !.place = @ @@ new.place]
      Step(acc, e) ==
        CASE e.kind = "Blockbeg" -> Enter([acc EXCEPT !.outer = Append(@, acc.offset)], e)
          [] e.kind = "Local"    -> Enter(acc, e)
          [] e.kind = "Blockend" -> [acc EXCEPT !.offset = Last(acc.outer), !.outer = Front(@),
                                                !.maxoffset = Max({@, acc.offset})]
          [] OTHER               -> acc
  IN  FoldLeft(Step, [offset |-> 0, maxoffset |-> 0, outer |-> <<>>, place |-> <<>>], entries)
===============================================================================
