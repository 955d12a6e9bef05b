--------------------------------- MODULE Nodes ---------------------------------
(***************************************************************************)
(* The nodes of the expression trees of lcc (lcc/src/tree.c, and what      *)
(* enode.c and expr.c look for in a tree).                                 *)
(*                                                                         *)
(* A tree is what Dag says, with its C type in ty and an id: an            *)
(* assignment, a call or a condition has the place in the source it comes  *)
(* from, so that a tree used twice is known to be one tree. A missing      *)
(* operand is Nothing. c is [structs, needconst]: the structures declared, *)
(* and whether a constant is wanted.                                       *)
(***************************************************************************)
EXTENDS Types, Dag

Bare(op, ty, kids) ==
  [op |-> op, t |-> "V", size |-> 0, kids |-> kids, sym |-> NoSymbol, ty |-> ty, id |-> 0]

\* tree(mkop(op, opty), ty, kids)
Tree(c, op, opty, ty, kids) ==
  [Bare(op, ty, kids) EXCEPT !.t = ttob(opty), !.size = OpSize(c.structs, opty)]

At(p, id) == [p EXCEPT !.id = id]
Named(p, name, n) == [p EXCEPT !.sym = Symbol(name, n)]
retype(p, ty) == [p EXCEPT !.ty = ty]

Nothing == Bare("NONE", voidtype, <<>>)
Missing(p) == p.op = "NONE"
\* Both, one or none of two trees for their effects.
Join(ty, l, r) == IF Missing(l) /\ Missing(r) THEN Nothing ELSE Bare("RIGHT", ty, <<l, r>>)

\* x++: lcc writes ((x, x = x + 1), x) and lists x once.
Postfix(p, asgn, id) == At(Named(Bare("RIGHT", p.ty, <<p, asgn>>), "postfix", 0), id)
IsPostfix(p) == p.op = "RIGHT" /\ p.sym.name = "postfix"

isaddrop(p) == p.op \in AddressOps
Constant(p) == p.op = "CNST"
ConstantOf(p, t) == Constant(p) /\ p.t = t
Is(p, t, n) == ConstantOf(p, t) /\ p.sym.n = n
val(p) == p.sym.n

\* Two to the number of bits of a type narrower than the integers of this model.
Modulus(size) == <<256, 65536>>[size]
extend(n, size) ==
  IF size = 4 THEN n ELSE ((n + (Modulus(size) \div 2)) % Modulus(size)) - (Modulus(size) \div 2)
\* Constants of four bytes stay below 2^31.
Masked(n, size) == CASE size < 4 -> n % Modulus(size) [] size = 4 /\ n >= 0 -> n
Wrapped(ty, n) ==
  CASE ty.op = "INT" -> extend(n, ty.size) [] ty.op = "UNSIGNED" -> Masked(n, ty.size) [] isptr(ty) -> Masked(n, PtrSize)

\* cnsttree: an unsigned constant is cut to its type, a signed one is not.
cnsttree(ty, n) ==
  LET p == [Bare("CNST", ty, <<>>) EXCEPT !.t = ttob(ty), !.size = IF isptr(ty) THEN PtrSize ELSE ty.size]
  IN  Named(p, "", IF isunsigned(ty) THEN Masked(n, ty.size) ELSE n)
consttree(n, ty) == cnsttree(ty, n)

RECURSIVE rightkid(_)
rightkid(p) ==
  IF p.op # "RIGHT" THEN p
  ELSE rightkid(IF IsPostfix(p) \/ Missing(p.kids[2]) THEN p.kids[1] ELSE p.kids[2])

RECURSIVE hascall(_)
hascall(p) == p.op = "CALL" \/ \E k \in DOMAIN p.kids : hascall(p.kids[k])

rvalue(c, p) == LET ty == deref(p.ty) IN Tree(c, "INDIR", ty, ty, <<p>>)
lvalue(p) == p.kids[1]

\* An array is a pointer to its first element, a function one to itself.
pointer(p) ==
  CASE isarray(p.ty) -> retype(p, atop(p.ty))
    [] isfunc(p.ty)  -> retype(p, ptr(p.ty))
    [] OTHER -> p

\* The address of a variable, or its value where it has one. A symbol is [name, op, type].
Address(c, p) ==
  Named(Tree(c, p.op, voidptype, IF isarray(p.type) \/ isfunc(p.type) THEN p.type ELSE ptr(p.type), <<>>), p.name, 0)
idtree(c, p) == LET e == Address(c, p) IN IF isptr(e.ty) THEN rvalue(c, e) ELSE e

isnullptr(p) == Constant(p) /\ (isint(p.ty) \/ isvoidptr(p.ty)) /\ val(p) = 0
\* Pointers to the same type, whatever is not known of it.
Alike(xty, yty) == isptr(xty) /\ isptr(yty) /\ eqtype(xty.type, yty.type, TRUE)
\* A pointer to an object and a void*.
WithVoid(xty, yty) == isptr(xty) /\ ~isfunc(xty.type) /\ isvoidptr(yty)

\* assign(): the type a value takes when it is assigned.
assign(xty, p) == Unenumerated(xty)

\* A condition is decided by its operator.
Deciding == {"AND", "OR", "NOT"} \union Relations
===============================================================================
