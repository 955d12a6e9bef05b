--------------------------------- MODULE Trees ---------------------------------
(***************************************************************************)
(* The trees the parser of lcc asks for (lcc/src/enode.c, simp.c, and the  *)
(* conversions of expr.c): every operator chooses its type, converts its   *)
(* operands to it, and folds constants. Operands are of legal types.       *)
(*                                                                         *)
(* The functions call each other; Build is all of them, by their names.    *)
(***************************************************************************)
EXTENDS Nodes, Bitwise
-------------------------------------------------------------------------------
RECURSIVE Build(_, _, _)

root(c, p)       == Build(c, "root", <<p>>)
value(c, p)      == Build(c, "value", <<p>>)
cond(c, p)       == Build(c, "cond", <<p>>)
cast(c, p, ty)   == Build(c, "cast", <<p, ty>>)
\* simplify(op of opty, ty, l, r): r is Nothing for an operator of one operand.
simplify(c, op, opty, ty, l, r) == Build(c, "simplify", <<op, opty, ty, l, r>>)
eqtree(c, op, l, r)       == Build(c, "eqtree", <<op, l, r>>)
asgntree(c, l, r, id)     == Build(c, "asgntree", <<l, r, id>>)
condtree(c, e, l, r, id)  == Build(c, "condtree", <<e, l, r, id>>)
-------------------------------------------------------------------------------
\* root1(): what is left of an expression whose value nobody wants.
RootArm(c, has, p) == root(c, IF has /\ p.op = "ASGN" THEN p.kids[2] ELSE p)
RootCond(c, p) ==
  LET has == Len(p.kids) = 4
      l == RootArm(c, has, p.kids[2])
      r == RootArm(c, has, p.kids[3])
  IN  IF Missing(l) /\ Missing(r) THEN root(c, p.kids[1]) ELSE [p EXCEPT !.kids = <<p.kids[1], l, r>>]
RootLogical(c, p) ==
  LET r == root(c, p.kids[2]) IN IF Missing(r) THEN root(c, p.kids[1]) ELSE [p EXCEPT !.kids[2] = r]
RootBoth(c, p) == Join(p.ty, root(c, p.kids[1]), root(c, p.kids[2]))
RootRight(c, p) ==
  IF IsPostfix(p) /\ p.kids[1].op = "INDIR" /\ lvalue(p.kids[1]) = lvalue(p.kids[2]) THEN p.kids[2]
  ELSE IF Missing(p.kids[2]) THEN root(c, p.kids[1])
  ELSE RootBoth(c, p)

RootTree(c, p) ==
  CASE p.op \in {"NONE", "ASGN", "CALL"} -> p
    [] p.op = "COND" -> RootCond(c, p)
    [] p.op \in {"AND", "OR"} -> RootLogical(c, p)
    [] p.op = "RIGHT" -> RootRight(c, p)
    [] p.op \in {"NOT", "INDIR", "NEG", "BCOM", "CVI", "CVU", "CVP"} -> root(c, p.kids[1])
    [] isaddrop(p) \/ Constant(p) -> IF c.needconst THEN p ELSE Nothing
    [] OTHER -> RootBoth(c, p)
-------------------------------------------------------------------------------
Quotient(a, b) == (IF (a < 0) # (b < 0) THEN -1 ELSE 1) * ((IF a < 0 THEN -a ELSE a) \div (IF b < 0 THEN -b ELSE b))

\* Bit by bit, on numbers of 16 bits with a sign or on numbers without.
BitwiseOf(op, a, b) == CASE op = "BAND" -> a & b [] op = "BOR" -> a | b [] op = "BXOR" -> a ^^ b
BitsOf(op, a, b) ==
  IF a >= 0 /\ b >= 0 THEN BitwiseOf(op, a, b) ELSE extend(BitwiseOf(op, Masked(a, 2), Masked(b, 2)), 2)

Computed(op, a, b) ==
  CASE op = "ADD"  -> a + b
    [] op = "SUB"  -> a - b
    [] op = "MUL"  -> a * b
    [] op = "DIV"  -> Quotient(a, b)
    [] op = "MOD"  -> a - b * Quotient(a, b)
    [] op \in {"BAND", "BOR", "BXOR"} -> BitsOf(op, a, b)
    [] op = "LSH"  -> a * 2 ^ b
    [] op = "RSH"  -> a \div 2 ^ b

CompareOp(op, a, b) ==
  CASE op = "EQ" -> a = b [] op = "NE" -> a # b [] op = "LT" -> a < b
    [] op = "LE" -> a <= b [] op = "GT" -> a > b [] op = "GE" -> a >= b

InLimits(ty, n) == n \in LimitMin(ty) .. LimitMax(ty)
Smallest(ty, p) == Is(p, "I", LimitMin(ty))

\* addi, muli: the result is in the limits of the type, or its operands look as if it were.
Adds(ty, x, y) == x = 0 \/ y = 0 \/ (x < 0) # (y < 0) \/ InLimits(ty, x + y)
Multiplies(ty, x, y) == {x, y} \intersect {0, 1} # {} \/ InLimits(ty, x * y)
MayFold(c, op, ty, x, y) ==
  \/ op \in {"BAND", "BOR", "BXOR", "DIV", "MOD"} \/ c.needconst \/ isunsigned(ty)
  \/ op = "ADD" /\ Adds(ty, x, y)
  \/ op = "SUB" /\ Adds(ty, x, -y)
  \/ op = "MUL" /\ Multiplies(ty, x, y)

\* Products of unsigned words may be wider than the model's integers.
Product2(a, b) == (((((a \div 256) * b) % 256) * 256) + ((a % 256) * b)) % 65536
Folded(ty, op, a, b) ==
  IF op = "MUL" /\ isunsigned(ty) /\ ty.size = 2 THEN Product2(a, b) ELSE Computed(op, a, b)

Commutative == {"ADD", "BAND", "BOR", "BXOR", "EQ", "NE"}
\* Constants go to the right, those of a product to the left.
Swaps(op, l, r) ==
  \/ op \in Commutative /\ Constant(l) /\ ~Constant(r)
  \/ op = "MUL" /\ Constant(r) /\ ~Constant(l)

ispow2(n) == IF \E k \in 1 .. 15 : n = 2 ^ k THEN CHOOSE k \in 1 .. 15 : n = 2 ^ k ELSE 0

\* x + 0 and the like, which are x.
Neutral(op, ty, l, r) ==
  CASE op \in {"ADD", "SUB", "BOR", "BXOR"} -> Is(r, ttob(ty), 0)
    [] op = "BAND" -> Is(r, "U", LimitMax(ty))

\* What cannot be divided is left to the program.
Undividable(ty, l, r) == val(r) = 0 \/ (~isunsigned(ty) /\ Smallest(ty, l) /\ val(r) = -1)

Integral(c, op, ty, l, r) == Tree(c, op, ty, ty, <<l, r>>)
Zeroed(c, ty, l) == Bare("RIGHT", ty, <<root(c, l), cnsttree(ty, 0)>>)

\* x + c and x - c
ByConstant(p) == p.op \in {"ADD", "SUB"} /\ p.t = "I" /\ ConstantOf(p.kids[2], "I")

\* c1 * (x + c2) and c1 * (x - c2)
Distributed(c, ty, l, r) ==
  simplify(c, r.op, ty, ty, simplify(c, "MUL", ty, ty, l, r.kids[1]), simplify(c, "MUL", ty, ty, l, r.kids[2]))

SimplifyProduct(c, ty, l, r) ==
  IF isunsigned(ty) /\ Constant(l) /\ ispow2(val(l)) # 0
  THEN simplify(c, "LSH", ty, ty, r, consttree(ispow2(val(l)), inttype))
  ELSE IF Constant(l) /\ Constant(r) /\ MayFold(c, "MUL", ty, val(l), val(r))
  THEN cnsttree(ty, Folded(ty, "MUL", val(l), val(r)))
  ELSE IF ~isunsigned(ty) /\ Constant(l) /\ ByConstant(r) THEN Distributed(c, ty, l, r)
  ELSE IF ~isunsigned(ty) /\ Constant(l) /\ ispow2(val(l)) # 0
  THEN simplify(c, "LSH", ty, ty, r, consttree(ispow2(val(l)), inttype))
  ELSE Integral(c, "MUL", ty, l, r)

SimplifyShift(c, op, ty, l, r) ==
  LET folds == Constant(l) /\ Constant(r) /\ val(r) \in 0 .. 8 * l.size - 1
  IN  IF Is(r, "I", 0) THEN l
      ELSE IF folds /\ (isunsigned(ty) \/ op = "RSH" \/ c.needconst \/ Multiplies(ty, val(l), 2 ^ val(r)))
      THEN cnsttree(ty, Computed(op, val(l), val(r)))
      ELSE Integral(c, op, ty, l, r)

\* Division and remainder by a constant.
SimplifyQuotient(c, op, ty, l, r) ==
  IF op = "DIV" /\ val(r) = 1 THEN l
  ELSE IF isunsigned(ty) /\ op = "MOD" /\ ispow2(val(r)) # 0
  THEN simplify(c, "BAND", ty, ty, l, cnsttree(ty, val(r) - 1))
  ELSE IF Undividable(ty, l, r) THEN Integral(c, op, ty, l, r)
  ELSE IF isunsigned(ty) /\ op = "DIV" /\ ispow2(val(r)) # 0
  THEN simplify(c, "RSH", ty, ty, l, consttree(ispow2(val(r)), inttype))
  ELSE IF Constant(l) THEN cnsttree(ty, Computed(op, val(l), val(r)))
  ELSE IF op = "MOD" /\ val(r) = 1 /\ ~isunsigned(ty) THEN Zeroed(c, ty, l)
  ELSE Integral(c, op, ty, l, r)

SimplifySum(c, op, ty, l, r) ==
  IF Constant(l) /\ Constant(r) /\ MayFold(c, op, ty, val(l), val(r))
  THEN cnsttree(ty, Computed(op, val(l), val(r)))
  ELSE IF Neutral(op, ty, l, r) THEN l
  ELSE IF op = "BAND" /\ Is(r, ttob(ty), 0) THEN Zeroed(c, ty, l)
  ELSE Integral(c, op, ty, l, r)

\* Offsets are added to the address they belong to.
addrtree(p, n, ty) == retype(Named(p, p.sym.name, p.sym.n + n), ty)
\* p + x, a sum of pointers already.
Displaced(p) == p.op = "ADD" /\ p.t = "P"
SumOf(c, l, r, ty) == simplify(c, "ADD", ty, ty, l, r)

SimplifyPointer(c, ty, l, r) ==
  IF Constant(l) /\ Constant(r) THEN cnsttree(ty, val(l) + val(r))
  ELSE IF Constant(r) /\ val(r) = 0 THEN retype(l, ty)
  ELSE IF isaddrop(l) /\ Constant(r) THEN addrtree(l, val(r), ty)
  ELSE IF Displaced(l) /\ isaddrop(l.kids[2]) /\ Constant(r)
  THEN simplify(c, "ADD", ty, ty, l.kids[1], addrtree(l.kids[2], val(r), ty))
  ELSE IF ByConstant(l) /\ isaddrop(r)
  THEN simplify(c, "ADD", ty, ty, l.kids[1], simplify(c, l.op, ty, ty, r, l.kids[2]))
  ELSE IF Displaced(l) /\ Constant(l.kids[2]) /\ Constant(r)
  THEN simplify(c, "ADD", ty, ty, l.kids[1], SumOf(c, l.kids[2], r, l.kids[2].ty))
  ELSE IF l.op = "ADD" /\ l.t = "I" /\ Constant(l.kids[2]) /\ Displaced(r) /\ Constant(r.kids[2])
  THEN simplify(c, "ADD", ty, ty, l.kids[1],
         simplify(c, "ADD", ty, ty, r.kids[1], SumOf(c, l.kids[2], r.kids[2], r.kids[2].ty)))
  ELSE IF IsPostfix(l) THEN retype([l EXCEPT !.kids[1] = simplify(c, "ADD", ty, ty, @, r)], ty)
  ELSE IF l.op = "RIGHT" /\ ~Missing(l.kids[2])
  THEN Bare("RIGHT", ty, <<l.kids[1], simplify(c, "ADD", ty, ty, l.kids[2], r)>>)
  ELSE IF l.op = "RIGHT" /\ Missing(l.kids[2])
  THEN Bare("RIGHT", ty, <<simplify(c, "ADD", ty, ty, l.kids[1], r), Nothing>>)
  ELSE Integral(c, "ADD", ty, l, r)

SimplifyPointerLess(c, ty, l, r) ==
  IF Constant(r) THEN simplify(c, "ADD", ty, ty, l, consttree(-val(r), inttype))
  ELSE IF isaddrop(l) /\ r.op = "ADD" /\ r.t = "I" /\ ConstantOf(r.kids[2], "I")
  THEN simplify(c, "SUB", ty, ty, simplify(c, "SUB", ty, ty, l, r.kids[2]), r.kids[1])
  ELSE Integral(c, "SUB", ty, l, r)

Sure(c, p, n) == Bare("RIGHT", inttype, <<root(c, p), consttree(n, inttype)>>)
Bit(b) == IF b THEN 1 ELSE 0

\* Relations of operands of type opty; 0 is the least unsigned number.
SimplifyRelation(c, op, opty, l, r) ==
  LET unsigned == isunsigned(opty)
  IN  IF unsigned /\ op \in {"GE", "LT"} /\ Is(r, "U", 0) THEN Sure(c, l, Bit(op = "GE"))
      ELSE IF unsigned /\ op \in {"GT", "LE"} /\ Is(l, "U", 0) THEN Sure(c, r, Bit(op = "LE"))
      ELSE IF Constant(l) /\ Constant(r) THEN consttree(Bit(CompareOp(op, val(l), val(r))), inttype)
      ELSE IF unsigned /\ op \in {"GE", "LT"} /\ Is(l, "U", 0) THEN eqtree(c, IF op = "GE" THEN "EQ" ELSE "NE", r, l)
      ELSE IF unsigned /\ op \in {"GT", "LE"} /\ Is(r, "U", 0) THEN eqtree(c, IF op = "LE" THEN "EQ" ELSE "NE", l, r)
      ELSE Tree(c, op, opty, inttype, <<l, r>>)

\* 0 && r, 1 && r, 0 || r, 1 || r
SimplifyLogical(c, op, l, r) ==
  IF ~ConstantOf(l, "I") THEN Bare(op, inttype, <<l, r>>)
  ELSE IF (op = "AND") = (val(l) # 0) THEN cond(c, r)
  ELSE IF op = "AND" THEN l
  ELSE consttree(1, inttype)

\* The operators of one operand; two in a row cancel.
SimplifyUnary(c, op, ty, l) ==
  IF op = "BCOM" /\ Constant(l) THEN cnsttree(ty, Wrapped(ty, -val(l) - 1))
  ELSE IF op = "BCOM" /\ l.op = "BCOM" /\ l.t = "U" THEN l.kids[1]
  ELSE IF op = "NEG" /\ Constant(l) /\ (c.needconst \/ ~Smallest(ty, l)) THEN cnsttree(ty, -val(l))
  ELSE IF op = "NEG" /\ l.op = "NEG" THEN l.kids[1]
  ELSE IF op = "NOT" /\ ConstantOf(l, "I") THEN consttree(Bit(val(l) = 0), inttype)
  ELSE IF op = "NOT" /\ ~ConstantOf(l, "I") THEN Bare("NOT", inttype, <<l>>)
  ELSE Tree(c, op, ty, ty, <<l>>)

\* A constant is converted at once where it fits the type, or where a constant is wanted.
SimplifyConversion(c, op, ty, l) ==
  IF Constant(l) /\ (c.needconst \/ (IF isptr(ty) THEN val(l) \in 0 .. 65535 ELSE InLimits(ty, val(l))))
  THEN cnsttree(ty, Wrapped(ty, val(l)))
  ELSE Tree(c, op, ty, ty, <<l>>)

SimpleTree(c, op, opty, ty, left, right) ==
  LET swap == Swaps(op, left, right)
      l == IF swap THEN right ELSE left
      r == IF swap THEN left ELSE right
  IN  CASE op \in {"CVI", "CVU", "CVP"}  -> SimplifyConversion(c, op, ty, l)
        [] op \in {"NEG", "BCOM", "NOT"} -> SimplifyUnary(c, op, ty, l)
        [] op \in {"AND", "OR"}          -> SimplifyLogical(c, op, l, r)
        [] op \in Relations              -> SimplifyRelation(c, op, opty, l, r)
        [] op = "ADD" /\ isptr(opty)     -> SimplifyPointer(c, ty, l, r)
        [] op = "SUB" /\ isptr(opty)     -> SimplifyPointerLess(c, ty, l, r)
        [] op = "MUL"                    -> SimplifyProduct(c, ty, l, r)
        [] op \in {"LSH", "RSH"}         -> SimplifyShift(c, op, ty, l, r)
        [] op \in {"DIV", "MOD"} /\ Constant(r) -> SimplifyQuotient(c, op, ty, l, r)
        [] op \in {"DIV", "MOD"} /\ ~Constant(r) -> Integral(c, op, ty, l, r)
        [] OTHER                         -> SimplifySum(c, op, ty, l, r)
-------------------------------------------------------------------------------
SameSize(c, xty, yty) == xty.op = yty.op /\ Size(c.structs, xty) = Size(c.structs, yty)
Conversion(ty) == CASE ty.op = "INT" -> "CVI" [] ty.op = "UNSIGNED" -> "CVU" [] isptr(ty) -> "CVP"
Convert(c, p, ty) == simplify(c, Conversion(p.ty), ty, ty, p, Nothing)

\* A narrow value is widened first, a pointer becomes a number.
Widened(c, p) ==
  CASE isint(p.ty) /\ p.ty.size < inttype.size -> Convert(c, p, inttype)
    [] isenum(p.ty) -> retype(p, inttype)
    [] isptr(p.ty)  -> Convert(c, p, super(p.ty))
    [] OTHER -> p
\* Then the sign changes, at the width of the target but at least that of an int.
Resigned(c, p, dst) == IF p.ty.op # dst.op THEN Convert(c, p, dst) ELSE p
\* Then the width.
Fitted(c, p, dst) == IF SameSize(c, p.ty, dst) THEN p ELSE Convert(c, p, dst)

CastTree(c, e, ty) ==
  LET p == value(c, e)
  IN  CASE p.ty = ty -> p
        [] p.ty # ty /\ SameSize(c, p.ty, ty) -> retype(p, ty)
        [] OTHER -> retype(Fitted(c, Resigned(c, Widened(c, p), super(ty)), ty), ty)

AsgnTree(c, l, e, id) ==
  LET p  == pointer(e)
      ty == assign(l.ty, p)
  IN  At(Tree(c, "ASGN", ty, ty, <<lvalue(l), cast(c, p, ty)>>), id)

\* The variable of a ?: at a place in the source.
Temporary(id, ty) == [name |-> "?" \o ToString(id), op |-> "ADDRL", type |-> ty]

CondType(xty, yty, l, r) ==
  IF isint(xty) /\ isint(yty) THEN binary(xty, yty)
  ELSE IF eqtype(xty, yty, TRUE) THEN xty
  ELSE IF isptr(xty) /\ isnullptr(r) THEN xty
  ELSE IF isnullptr(l) /\ isptr(yty) THEN yty
  ELSE IF WithVoid(xty, yty) \/ WithVoid(yty, xty) THEN voidptype
  ELSE xty

CondTree(c, e, l, r, id) ==
  LET ty == CondType(l.ty, r.ty, l, r)
      t1 == idtree(c, Temporary(id, ty))
  IN  CASE Constant(e) -> cast(c, IF val(e) # 0 THEN l ELSE r, ty)
        [] ~Constant(e) /\ ty = voidtype -> At(Bare("COND", ty, <<cond(c, e), root(c, l), root(c, r)>>), id)
        [] OTHER -> At(Named(Bare("COND", ty, <<cond(c, e), asgntree(c, t1, l, 0), asgntree(c, t1, r, 0), t1>>),
                             "?" \o ToString(id), 0), id)

\* A condition that is used as a number.
ValueTree(c, p) ==
  IF p.ty # voidtype /\ rightkid(p).op \in Deciding
  THEN condtree(c, p, consttree(1, inttype), consttree(0, inttype), rightkid(p).id) ELSE p

\* A number that is used as a condition.
DecisionTree(c, p) ==
  IF rightkid(p).op \in Deciding THEN p ELSE eqtree(c, "NE", pointer(p), consttree(0, inttype))
-------------------------------------------------------------------------------
\* Arithmetic operands meet in one type.
Arithmetic(c, op, l, r) ==
  LET ty == binary(l.ty, r.ty) IN simplify(c, op, ty, ty, cast(c, l, ty), cast(c, r, ty))
bittree(c, op, l, r) == Arithmetic(c, op, l, r)
multree(c, op, l, r) == Arithmetic(c, op, l, r)

cmptree(c, op, l, r) ==
  LET ty == IF isint(l.ty) /\ isint(r.ty) THEN binary(l.ty, r.ty) ELSE unsignedptr
  IN  simplify(c, op, ty, inttype, cast(c, l, ty), cast(c, r, ty))

AsPointers(xty, yty, r) == (isptr(xty) /\ isnullptr(r)) \/ WithVoid(xty, yty) \/ Alike(xty, yty)
PointersEqual(c, op, l, r) ==
  simplify(c, op, unsignedptr, inttype, cast(c, l, unsignedptr), cast(c, r, unsignedptr))
EqTree(c, op, l, r) ==
  CASE AsPointers(l.ty, r.ty, r) -> PointersEqual(c, op, l, r)
    [] ~AsPointers(l.ty, r.ty, r) /\ ((isptr(r.ty) /\ isnullptr(l)) \/ WithVoid(r.ty, l.ty)) -> PointersEqual(c, op, r, l)
    [] OTHER -> cmptree(c, op, l, r)

\* A number of elements in bytes, as wide as a pointer.
Scaled(c, p, ty) ==
  LET n == Size(c.structs, ty.type)
      e == cast(c, p, promote(p.ty))
      bytes == IF n > 1 THEN multree(c, "MUL", cnsttree(signedptr, n), e) ELSE e
  IN  cast(c, bytes, IF isunsigned(bytes.ty) THEN unsignedptr ELSE signedptr)

addtree(c, l, r) ==
  CASE isptr(l.ty) -> simplify(c, "ADD", l.ty, l.ty, Scaled(c, r, l.ty), l)
    [] isptr(r.ty) -> simplify(c, "ADD", r.ty, r.ty, Scaled(c, l, r.ty), r)
    [] OTHER       -> Arithmetic(c, "ADD", l, r)

\* The difference of two pointers is taken of unsigned words and divided as a long.
Distance(c, l, r) ==
  LET bytes == simplify(c, "SUB", unsignedptr, unsignedptr, cast(c, l, unsignedptr), cast(c, r, unsignedptr))
  IN  simplify(c, "DIV", longtype, longtype, cast(c, bytes, longtype), cnsttree(longtype, Size(c.structs, l.ty.type)))
subtree(c, l, r) ==
  CASE isptr(l.ty) /\ isint(r.ty) -> simplify(c, "SUB", l.ty, l.ty, l, Scaled(c, r, l.ty))
    [] isptr(l.ty) /\ isptr(r.ty) -> Distance(c, l, r)
    [] OTHER -> Arithmetic(c, "SUB", l, r)

shtree(c, op, l, r) ==
  LET ty == promote(l.ty) IN simplify(c, op, ty, ty, cast(c, l, ty), cast(c, r, inttype))

andtree(c, op, l, r) == simplify(c, op, inttype, inttype, cond(c, l), cond(c, r))

\* A function is called through its address; arguments that call come first.
calltree(c, f, ty, args, id) ==
  LET to  == IF Missing(args) THEN f ELSE Bare("RIGHT", f.ty, <<args, f>>)
      rty == promote(ty)
      p   == At(Tree(c, "CALL", rty, rty, <<to>>), id)
  IN  IF isptr(ty) \/ p.size > Size(c.structs, ty) THEN cast(c, p, ty) ELSE p

\* addrof(): the address of what an expression is a copy of. Not modelled: of a ?:.
RECURSIVE Copied(_)
Copied(p) ==
  CASE p.op = "RIGHT" -> Copied(p.kids[IF Missing(p.kids[2]) THEN 1 ELSE 2])
    [] p.op = "ASGN"  -> Copied(p.kids[2])
    [] p.op = "INDIR" -> p
addrof(c, p) ==
  IF p.op = "INDIR" THEN lvalue(p) ELSE Bare("RIGHT", lvalue(Copied(p)).ty, <<root(c, p), lvalue(Copied(p))>>)

\* The member of the structure whose address p is.
field(c, p, name) ==
  LET q  == fieldref(c.structs, name, deref(p.ty))
      ty == IF isarray(q.type) THEN q.type ELSE ptr(q.type)
      at == simplify(c, "ADD", ty, ty, p, consttree(q.offset, signedptr))
  IN  IF isarray(q.type) THEN at ELSE rvalue(c, at)
-------------------------------------------------------------------------------
\* prec[], oper[] and optree[]: how strong an operator binds and the tree it makes.
prec ==
  "%" :> 13 @@ "*" :> 13 @@ "/" :> 13 @@ "+" :> 12 @@ "-" :> 12 @@ "<<" :> 11 @@ ">>" :> 11
  @@ "<" :> 10 @@ ">" :> 10 @@ "<=" :> 10 @@ ">=" :> 10 @@ "==" :> 9 @@ "!=" :> 9
  @@ "&" :> 8 @@ "^" :> 7 @@ "|" :> 6 @@ "&&" :> 5 @@ "||" :> 4
Prec(k) == IF k \in DOMAIN prec THEN prec[k] ELSE 0
oper ==
  "%" :> "MOD" @@ "*" :> "MUL" @@ "/" :> "DIV" @@ "+" :> "ADD" @@ "-" :> "SUB" @@ "<<" :> "LSH" @@ ">>" :> "RSH"
  @@ "<" :> "LT" @@ ">" :> "GT" @@ "<=" :> "LE" @@ ">=" :> "GE" @@ "==" :> "EQ" @@ "!=" :> "NE"
  @@ "&" :> "BAND" @@ "^" :> "BXOR" @@ "|" :> "BOR" @@ "&&" :> "AND" @@ "||" :> "OR" @@ "++" :> "ADD" @@ "--" :> "SUB"

OpTree(c, k, l, r) ==
  CASE k \in {"%", "&", "^", "|"} -> bittree(c, oper[k], l, r)
    [] k \in {"*", "/"}   -> multree(c, oper[k], l, r)
    [] k \in {"+", "++"}  -> addtree(c, l, r)
    [] k \in {"-", "--"}  -> subtree(c, l, r)
    [] k \in {"<<", ">>"} -> shtree(c, oper[k], l, r)
    [] k \in {"<", ">", "<=", ">="} -> cmptree(c, oper[k], l, r)
    [] k \in {"==", "!="} -> eqtree(c, oper[k], l, r)
    [] k \in {"&&", "||"} -> andtree(c, oper[k], l, r)

Build(c, what, a) ==
  CASE what = "root"     -> RootTree(c, a[1])
    [] what = "value"    -> ValueTree(c, a[1])
    [] what = "cond"     -> DecisionTree(c, a[1])
    [] what = "cast"     -> CastTree(c, a[1], a[2])
    [] what = "simplify" -> SimpleTree(c, a[1], a[2], a[3], a[4], a[5])
    [] what = "eqtree"   -> EqTree(c, a[1], a[2], a[3])
    [] what = "asgntree" -> AsgnTree(c, a[1], a[2], a[3])
    [] what = "condtree" -> CondTree(c, a[1], a[2], a[3], a[4])
    [] what = "optree"   -> OpTree(c, a[1], a[2], a[3])
    [] what = "calltree" -> calltree(c, a[1], a[2], a[3], a[4])
    [] what = "addrof"   -> addrof(c, a[1])
    [] what = "field"    -> field(c, a[1], a[2])
Make(c, what, a) == Build(c, what, a)
===============================================================================
