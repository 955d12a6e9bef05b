--------------------------------- MODULE Parser ---------------------------------
(***************************************************************************)
(* The recursive descent of lcc through a source: expressions              *)
(* (lcc/src/expr.c), type specifiers, declarators and declarations         *)
(* (lcc/src/decl.c), initial values (lcc/src/init.c), and the statements   *)
(* with an expression (lcc/src/stmt.c). Every operator takes the state of  *)
(* the front end and returns it with what it has read: the tree p, the     *)
(* type ty. Trees, types and scopes change on the way.                     *)
(*                                                                         *)
(* The sources are legal programs: where the code reports an error no case *)
(* applies. Not modelled: const and volatile, bit fields, functions with   *)
(* an identifier list, functions that return structures.                   *)
(***************************************************************************)
EXTENDS Symbols

B == INSTANCE Trees

Read(s, p) == [s |-> s, p |-> p]

\* A decision is known by the place of its operator.
Decision(p, id) == IF p.op \in Deciding THEN At(p, id) ELSE p

\* The functions that read a source call each other; Parse is all of them, by their names.
RECURSIVE Parse(_, _, _)
expr(s)    == Parse("expr", s, <<>>)
expr1(s)   == Parse("expr1", s, <<>>)
expr2(s)   == Parse("expr2", s, <<>>)
expr3(s, k) == Parse("expr3", s, k)
unary(s)   == Parse("unary", s, <<>>)
\* What follows the tree read so far.
postfix(r) == Parse("postfix", r.s, r.p)
call(s, f, first, args, at) == Parse("call", s, <<f, first, args, at>>)
specifier(s)   == Parse("specifier", s, <<>>)
dclr1(s, mode) == Parse("dclr1", s, mode)
parameters(s)  == Parse("parameters", s, <<>>)
typename(s)    == Parse("typename", s, <<>>)
structdcl(s, op) == Parse("structdcl", s, op)
enumdcl(s) == Parse("enumdcl", s, <<>>)
intexpr(s) == Parse("intexpr", s, <<>>)

initializer(s, ty, lev) == Parse("initializer", s, <<ty, lev>>)
dclglobal(s, sclass, id, ty) == Parse("dclglobal", s, <<sclass, id, ty>>)
\* The declarator d, and those that follow, of what r has specified.
Declarators(d, r) == Parse("declarators", d.s, <<d, r>>)
\* What the actions of FrontEnd read; s is at its first token.
FirstDeclarator(s)  == Parse("first", s, <<>>)
Declaration(s)      == Parse("declaration", s, <<>>)
Definition(s)       == Parse("definition", s, <<>>)
LocalDeclaration(s) == Parse("local", s, <<>>)
ReturnStatement(s, ty)  == Parse("return", s, ty)
ExpressionStatement(s)  == Parse("statement", s, <<>>)
EndOfBody(s, ty)        == Parse("end", s, ty)

\* The trees they ask for.
Made(c, what, a) == Parse("tree", c, [what |-> what, a |-> a])
root(c, p)     == Made(c, "root", <<p>>)
value(c, p)    == Made(c, "value", <<p>>)
cond(c, p)     == Made(c, "cond", <<p>>)
cast(c, p, ty) == Made(c, "cast", <<p, ty>>)
simplify(c, op, ty, l, r)  == Made(c, "simplify", <<op, ty, ty, l, r>>)
asgntree(c, l, r, id)      == Made(c, "asgntree", <<l, r, id>>)
condtree(c, e, l, r, id)   == Made(c, "condtree", <<e, l, r, id>>)
optree(c, k, l, r)         == Made(c, "optree", <<k, l, r>>)
calltree(c, f, ty, all, id) == Made(c, "calltree", <<f, ty, all, id>>)
addrof(c, p)               == Made(c, "addrof", <<p>>)
field(c, p, name)          == Made(c, "field", <<p, name>>)
Prec(k) == B!Prec(k)

\* x op= e; e is x op e assigned to x.
incr(c, k, v, e, id) == asgntree(c, v, optree(c, k, v, e), id)
One == consttree(1, inttype)
-------------------------------------------------------------------------------
\* Expressions.

\* e, f: e for its effects.
Comma(l, r) == Read(r.s, Bare("RIGHT", pointer(r.p).ty, <<root(l.s, value(l.s, l.p)), pointer(r.p)>>))
RECURSIVE Commas(_)
Commas(r) == IF T(r.s) = "," THEN Commas(Comma(r, expr1(gettok(r.s)))) ELSE r
expr0(s) == LET r == expr(s) IN Read(r.s, root(r.s, r.p))

\* l = r and l op= r
Assigning(k) == Prec(k) \in 6 .. 8 \union 11 .. 13
Assigned(l, r, id) == Read(r.s, asgntree(r.s, l.p, value(r.s, r.p), id))
Increased(l, k, r, id) == Read(r.s, incr(r.s, k, l.p, r.p, id))
Assignment(l) ==
  IF T(l.s) = "=" THEN Assigned(l, expr1(gettok(l.s)), l.s.i)
  ELSE IF Assigning(T(l.s)) THEN Increased(l, T(l.s), expr1(expect(gettok(l.s), "=")), l.s.i)
  ELSE l

\* c ? l : r
Choice(test, l, r, id) == Read(r.s, condtree(r.s, pointer(test.p), pointer(l.p), pointer(r.p), id))
Otherwise(test, l, id) == Choice(test, l, expr2(expect(l.s, ":")), id)
Conditional(test) == IF T(test.s) = "?" THEN Otherwise(test, expr(gettok(test.s)), test.s.i) ELSE test

\* Mutant: the operators of one strength associate to the right.
RightStrength_Same(op, k1) == k1

\* The operand on the right of && and || may hold others of them, of other operators only
\* stronger ones.
RightStrength(op, k1) == IF op \in {"&&", "||"} THEN k1 ELSE k1 + 1

\* Operators from strength k1 down to k.
Joined(l, op, r, id) == Read(r.s, Decision(optree(r.s, op, pointer(l.p), pointer(r.p)), id))
RECURSIVE Climb(_, _, _)
Climb(l, k, k1) ==
  IF k1 < k THEN l
  ELSE IF Prec(T(l.s)) = k1 /\ Ahead(l.s) # "="
  THEN Climb(Joined(l, T(l.s), expr3(gettok(l.s), RightStrength(T(l.s), k1)), l.s.i), k, k1)
  ELSE Climb(l, k, k1 - 1)
Climbing(l, k) == Climb(l, k, Prec(T(l.s)))

\* *p
Content(c, p) ==
  IF isptr(p.ty) /\ (isfunc(p.ty.type) \/ isarray(p.ty.type)) THEN retype(p, p.ty.type) ELSE rvalue(c, p)
\* &x
AddressOf(p) == IF isarray(p.ty) \/ isfunc(p.ty) THEN retype(p, ptr(p.ty)) ELSE lvalue(p)
Negated(c, p, ty) ==
  IF isunsigned(ty)
  THEN simplify(c, "ADD", ty, simplify(c, "BCOM", ty, p, Nothing), cnsttree(ty, 1))
  ELSE simplify(c, "NEG", ty, p, Nothing)
Complement(c, p, ty) == simplify(c, "BCOM", ty, p, Nothing)

Operated(k, r, id) ==
  LET p  == pointer(r.p)
      ty == promote(p.ty)
  IN  CASE k = "*" -> Read(r.s, Content(r.s, p))
        [] k = "&" -> Read(r.s, AddressOf(r.p))
        [] k = "+" -> Read(r.s, cast(r.s, p, ty))
        [] k = "-" -> Read(r.s, Negated(r.s, cast(r.s, p, ty), ty))
        [] k = "~" -> Read(r.s, Complement(r.s, cast(r.s, p, ty), ty))
        [] k = "!" -> Read(r.s, Decision(simplify(r.s, "NOT", inttype, cond(r.s, p), Nothing), id))
        [] k \in {"++", "--"} -> Read(r.s, incr(r.s, k, p, One, id))

\* sizeof (type), sizeof e: what e would do is not done.
SizeOf(s, ty) == Read(s, cnsttree(unsignedlong, Size(s.structs, ty)))
SizeOfType(r) == SizeOf(expect(r.s, ")"), r.ty)
SizeOfTree(r) == SizeOf(r.s, r.p.ty)
Closed(r) == postfix(Read(expect(r.s, ")"), r.p))
sizeof(s) ==
  IF T(s) = "(" /\ istypename(gettok(s)) THEN SizeOfType(typename(gettok(s)))
  ELSE IF T(s) = "(" THEN SizeOfTree(Closed(expr(gettok(s))))
  ELSE SizeOfTree(unary(s))

\* (type) e: no longer something to assign to.
CastTo(r, to) ==
  LET ty == Unenumerated(to)
      p  == IF ty = voidtype THEN pointer(r.p) ELSE cast(r.s, pointer(r.p), ty)
  IN  Read(r.s, IF p.op = "INDIR" \/ ty = voidtype THEN Bare("RIGHT", ty, <<Nothing, p>>) ELSE retype(p, ty))
Casting(r) == CastTo(unary(expect(r.s, ")")), r.ty)

\* Identifiers and constants. A function not declared is declared by its call.
Implicit(s, name) ==
  LET ty  == func(inttype, <<>>, TRUE)
      in  == install(s, Sym(name, s.level, "extern", ty, name, 0))
  IN  IF lookup(s.externals, name) # 0 THEN in
      ELSE [in EXCEPT !.externals = Append(@, Sym(name, GLOBAL, "extern", ty, name, 0))]

Valued(s, p) == IF p.sclass = "enum" THEN consttree(p.n, inttype) ELSE idtree(s, SymbolLeaf(s, p))
StringType(str) == array(chartype, Len(str))
primary(s) ==
  CASE T(s) = "ICON" -> Read(gettok(s), cnsttree(Tok(s).ty, Tok(s).n))
    [] T(s) = "SCON" -> LET in == constant(s, Tok(s).str)
                        IN  Read(gettok(in), idtree(in, Leaf(StringLabel(in, Tok(s).str), "ADDRG", StringType(Tok(s).str))))
    [] T(s) = "ID" /\ s.tsym # 0 -> Read(gettok(s), Valued(s, s.ids[s.tsym]))
    [] T(s) = "ID" /\ s.tsym = 0 /\ Ahead(s) = "(" ->
         LET in == Implicit(s, Tok(s).name) IN Read(gettok(in), Valued(in, Last(in.ids)))

Unary(s) ==
  IF T(s) \in {"*", "&", "+", "-", "~", "!", "++", "--"} THEN Operated(T(s), unary(gettok(s)), s.i)
  ELSE IF T(s) = "sizeof" THEN sizeof(gettok(s))
  ELSE IF T(s) # "(" THEN postfix(primary(s))
  ELSE IF istypename(gettok(s)) THEN Casting(typename(gettok(s)))
  ELSE Closed(expr(gettok(s)))

\* Trees with calls one after the other.
Early(first, q) ==
  IF ~hascall(q) THEN first ELSE IF Missing(first) THEN q ELSE Bare("RIGHT", voidtype, <<first, q>>)

\* p[q]
Element(s, p) == Read(s, Content(s, p))
Indexed(l, r) == Element(expect(r.s, "]"), optree(r.s, "+", pointer(l.p), pointer(r.p)))
\* p.f: a structure is the content of its address.
Member(s, address) == Read(gettok(s), field(s, address, Tok(s).name))

Postfixed(r) ==
  CASE T(r.s) \in {"++", "--"} -> postfix(Read(gettok(r.s), Postfix(r.p, incr(r.s, T(r.s), r.p, One, r.s.i), r.s.i)))
    [] T(r.s) = "["  -> postfix(Indexed(r, expr(gettok(r.s))))
    [] T(r.s) = "("  -> postfix(call(gettok(r.s), pointer(r.p), Early(Nothing, r.p), Nothing, [id |-> r.s.i, n |-> 0]))
    [] T(r.s) = "."  -> postfix(Member(gettok(r.s), addrof(r.s, r.p)))
    [] T(r.s) = "->" -> postfix(Member(gettok(r.s), pointer(r.p)))
    [] OTHER -> r

\* call(): the arguments one by one; args lists them last to first. Trees with calls are
\* listed before all arguments, in first.
Promoted(c, q) == cast(c, q, promote(q.ty))
\* What is passed: as the prototype says, but no narrower than an int.
Passed(c, fty, n, q) ==
  IF fty.oldstyle \/ n > Len(fty.proto) \/ fty.proto[n] = voidtype THEN Promoted(c, q)
  ELSE LET p == cast(c, q, assign(fty.proto[n], q)) IN IF isint(p.ty) THEN Promoted(c, p) ELSE p

Known(q, id) == IF hascall(q) /\ q.id = 0 THEN At(q, id) ELSE q
Listed(c, q, args) == Tree(c, "ARG", q.ty, q.ty, IF Missing(args) THEN <<q>> ELSE <<q, args>>)
AfterComma(s) == IF T(s) = "," THEN gettok(s) ELSE s
Argument(s, f, first, args, at, q) == call(AfterComma(s), f, Early(first, q), Listed(s, q, args), at)
NextArgument(r, f, first, args, at) ==
  Argument(r.s, f, first, args, at, Known(Passed(r.s, f.ty.type, at.n, value(r.s, pointer(r.p))), -r.s.i))

Called(s, f, first, args, at) ==
  LET all == IF Missing(first) THEN args ELSE Bare("RIGHT", voidtype, <<first, args>>)
  IN  Read(gettok(s), calltree(s, f, freturn(f.ty.type), all, at.id))

Arguments(s, f, first, args, at) ==
  IF T(s) = ")" THEN Called(s, f, first, args, at)
  ELSE NextArgument(expr1(s), f, first, args, [at EXCEPT !.n = @ + 1])
-------------------------------------------------------------------------------
\* Type specifiers: the words in any order.
Unspecified == [cls |-> "", sign |-> "", size |-> "", type |-> "", ty |-> NoType]
Decided(d, s) ==
  LET unsigned == d.sign = "unsigned"
      type == IF d.type = "" THEN "int" ELSE d.type
  IN  [s |-> s, sclass |-> d.cls,
       ty |-> CASE type = "char" /\ d.sign # "" -> IF unsigned THEN unsignedchar ELSE signedchar
                [] d.size = "short" -> IF unsigned THEN unsignedshort ELSE shorttype
                [] d.size = "long"  -> IF unsigned THEN unsignedlong ELSE longtype
                [] type = "int" /\ d.size = "" -> IF unsigned THEN unsignedtype ELSE inttype
                [] OTHER -> d.ty]

\* A name of a type is one only where no other type has been given.
NamesType(s, d) ==
  T(s) = "ID" /\ istypename(s) /\ d.type = "" /\ d.sign = "" /\ d.size = ""
RECURSIVE Specifiers(_, _)
Declared(r, d, type) == Specifiers(r.s, [d EXCEPT !.type = type, !.ty = r.ty])
Specifiers(s, d) ==
  CASE T(s) \in StaticKind           -> Specifiers(gettok(s), [d EXCEPT !.cls = T(s)])
    [] T(s) \in {"signed", "unsigned"} -> Specifiers(gettok(s), [d EXCEPT !.sign = T(s)])
    [] T(s) \in {"long", "short"}    -> Specifiers(gettok(s), [d EXCEPT !.size = T(s)])
    [] T(s) = "void" -> Specifiers(gettok(s), [d EXCEPT !.type = "void", !.ty = voidtype])
    [] T(s) = "char" -> Specifiers(gettok(s), [d EXCEPT !.type = "char", !.ty = chartype])
    [] T(s) = "int"  -> Specifiers(gettok(s), [d EXCEPT !.type = "int", !.ty = inttype])
    [] T(s) = "enum" -> Declared(enumdcl(gettok(s)), d, "enum")
    [] T(s) = "struct" -> Declared(structdcl(gettok(s), "STRUCT"), d, "struct")
    [] T(s) = "union"  -> Declared(structdcl(gettok(s), "UNION"), d, "struct")
    [] NamesType(s, d) -> Specifiers(gettok(s), [d EXCEPT !.type = "name", !.ty = s.ids[s.tsym].type])
    [] OTHER -> Decided(d, s)

\* Declarators. What is declared is [s, id, mods, params, given]: the name, how its type is
\* made of the one specified (the last step first), and the parameters of the function it
\* is, if any have been read.
Declarator(s, id, given) == [s |-> s, id |-> id, mods |-> <<>>, params |-> <<>>, given |-> given]
Modifier(op, n, proto, oldstyle) == [op |-> op, n |-> n, proto |-> proto, oldstyle |-> oldstyle]
Modified(ty, mods) ==
  FoldLeft(LAMBDA base, m : CASE m.op = "POINTER"  -> ptr(base)
                              [] m.op = "FUNCTION" -> func(base, m.proto, m.oldstyle)
                              [] m.op = "ARRAY"    -> array(base, m.n), ty, mods)

\* Parameters have a scope of their own, inside a block two.
enterparams(s) == IF s.level >= PARAM THEN enterscope(enterscope(s)) ELSE enterscope(s)
exitparams(s) == IF s.level > PARAM THEN exitscope(exitscope(s)) ELSE exitscope(s)

\* ( parameters ): those read first may become those of a function; their scope stays.
Function(r) == Modifier("FUNCTION", 0, r.proto, r.oldstyle)
Parenthesized(d, r) ==
  IF d.given THEN [d EXCEPT !.s = exitparams(r.s), !.mods = <<Function(r)>> \o @]
  ELSE [d EXCEPT !.s = r.s, !.mods = <<Function(r)>> \o @, !.params = r.params, !.given = TRUE]
Measured(d, r) == [d EXCEPT !.s = expect(r.s, "]"), !.mods = <<Modifier("ARRAY", r.p, <<>>, FALSE)>> \o @]

\* intexpr(): a constant.
Constantly(s) == [s EXCEPT !.needconst = TRUE]
AsInt(r, was) == Read([r.s EXCEPT !.needconst = was], val(cast(r.s, r.p, inttype)))

RECURSIVE Lengthen(_)
Lengthen(d) ==
  CASE T(d.s) = "(" -> Lengthen(Parenthesized(d, parameters(enterparams(gettok(d.s)))))
    [] T(d.s) = "[" /\ Ahead(d.s) # "]" -> Lengthen(Measured(d, intexpr(gettok(d.s))))
    [] T(d.s) = "[" /\ Ahead(d.s) = "]" -> Lengthen(Measured(d, Read(gettok(d.s), 0)))
    [] OTHER -> d

Pointer(d) == [d EXCEPT !.mods = <<Modifier("POINTER", 0, <<>>, FALSE)>> \o @]
Closing(d) == [d EXCEPT !.s = expect(@, ")")]
\* Without a name, what stands in parentheses may be parameters.
Nameless(s) == istypename(s) \/ T(s) \in {"register", ")"}

\* mode.abstract: the name may be missing; mode.keep: parameters may stay in scope.
DeclaratorAt(s, mode) ==
  CASE T(s) = "ID" -> Lengthen(Declarator(gettok(s), Tok(s).name, ~mode.keep))
    [] T(s) = "*"  -> Pointer(dclr1(gettok(s), mode))
    [] T(s) = "("  -> Lengthen(IF mode.abstract /\ Nameless(gettok(s)) THEN Declarator(s, "", TRUE)
                               ELSE Closing(dclr1(gettok(s), mode)))
    [] T(s) = "["  -> Lengthen(Declarator(s, "", ~mode.keep))
    [] OTHER       -> Declarator(s, "", ~mode.keep)

Specifying(d, ty) == [s |-> d.s, id |-> d.id, ty |-> Modified(ty, d.mods), params |-> d.params, given |-> d.given]
dclr(s, ty, mode) == Specifying(dclr1(s, mode), ty)
Plain == [abstract |-> FALSE, keep |-> FALSE]
Defining == [abstract |-> FALSE, keep |-> TRUE]
Abstract == [abstract |-> TRUE, keep |-> FALSE]

\* A type without a name, in sizeof and casts.
NameOf(r) == IF T(r.s) \in {"*", "(", "["} THEN dclr(r.s, r.ty, Abstract) ELSE r

\* dclparam(): a function is passed as a pointer, and so is an array.
dclparam(s, id, ty) ==
  LET as == CASE isfunc(ty) -> ptr(ty) [] isarray(ty) -> atop(ty) [] OTHER -> ty
  IN  [install(s, Sym(id, s.level, "auto", as, id, 0)) EXCEPT !.ids[Len(s.ids) + 1].defined = TRUE]

\* A list of parameters, [s, found]: their names and types; (void) is none, ... the type void.
Parameter(l, d) ==
  LET id == IF d.id = "" THEN ToString(Len(l.found) + 1) ELSE d.id
      s  == dclparam(d.s, id, d.ty)
  IN  IF d.ty = voidtype THEN [l EXCEPT !.s = d.s]
      ELSE [s |-> s, found |-> Append(l.found, [name |-> id, type |-> Last(s.ids).type])]
RECURSIVE ParameterList(_)
OneParameter(l, r) == Parameter(l, dclr(r.s, r.ty, Abstract))
Ellipsis(l) == [s |-> gettok(l.s), found |-> Append(l.found, [name |-> "", type |-> voidtype])]
Following(l) ==
  IF T(l.s) # "," THEN l
  ELSE IF Ahead(l.s) = "..." THEN Ellipsis([l EXCEPT !.s = gettok(@)])
  ELSE ParameterList([l EXCEPT !.s = gettok(@)])
ParameterList(l) == Following(OneParameter(l, specifier(l.s)))

Prototyped(l) ==
  [s |-> expect(l.s, ")"), params |-> l.found, proto |-> [k \in DOMAIN l.found |-> l.found[k].type], oldstyle |-> FALSE]
Parameters(s) ==
  IF T(s) \in StaticKind \/ istypename(s) THEN Prototyped(ParameterList([s |-> s, found |-> <<>>]))
  ELSE [s |-> expect(s, ")"), params |-> <<>>, proto |-> <<>>, oldstyle |-> TRUE]
-------------------------------------------------------------------------------
\* Where the members lie: nothing has to be aligned.
Layout(ss, op, members) ==
  FoldLeft(LAMBDA at, f : LET off == IF op = "UNION" THEN 0 ELSE at.off
                          IN  [fields |-> Append(at.fields, [f EXCEPT !.offset = off]),
                               off |-> off + Size(ss, f.type),
                               size |-> Max({at.size, off + Size(ss, f.type)})],
           [fields |-> <<>>, off |-> 0, size |-> 0], members)

Laid(s, ty, members) ==
  LET at == Layout(s.structs, ty.op, members)
  IN  [s EXCEPT !.structs[ty.tag] = [op |-> ty.op, size |-> at.size, fields |-> at.fields]]

\* The members, [s, found]: declarators of one specifier, separated by commas.
NewField(l, d) == [l EXCEPT !.s = d.s, !.found = Append(@, [name |-> d.id, type |-> d.ty, offset |-> 0])]
RECURSIVE FieldList(_, _), fields(_)
FieldList(l, base) ==
  LET one == NewField(l, dclr(l.s, base, Plain))
  IN  IF T(one.s) = "," THEN FieldList([one EXCEPT !.s = gettok(@)], base) ELSE fields([one EXCEPT !.s = expect(@, ";")])
Specified(l, r) == FieldList([l EXCEPT !.s = r.s], r.ty)
fields(l) == IF istypename(l.s) THEN Specified(l, specifier(l.s)) ELSE l

Typed(s, ty) == [s |-> s, ty |-> ty]
Contents(l, ty) == Typed(Laid(expect(l.s, "}"), ty, l.found), ty)
Opened(r) == Contents(fields([s |-> gettok(r.s), found |-> <<>>]), r.ty)

\* A tag and perhaps its contents; alone in a declaration a tag of an outer scope is new.
Tagging(s, op, tag) ==
  LET k == lookup(s.types, tag)
  IN  IF T(s) = "{" THEN Opened(newstruct(s, op, tag))
      ELSE IF k # 0 /\ s.types[k].type.op = op /\ ~(T(s) = ";" /\ s.types[k].scope < s.level)
      THEN Typed(s, s.types[k].type)
      ELSE newstruct(s, op, tag)
Record(s, op) == IF T(s) = "ID" THEN Tagging(gettok(s), op, Tok(s).name) ELSE Tagging(s, op, "")

\* Enumerations, [s, ty, n]: each name is the value given or the next one, n the last.
Enumerator(l, id, r) ==
  [l EXCEPT !.s = AfterComma(install(r.s, Sym(id, r.s.level, "enum", l.ty, "", r.p))), !.n = r.p]
RECURSIVE enumerators(_)
Enumerated(l, id) ==
  enumerators(Enumerator(l, id, IF T(l.s) = "=" THEN intexpr(gettok(l.s)) ELSE Read(l.s, l.n + 1)))
enumerators(l) ==
  IF T(l.s) = "ID" THEN Enumerated([l EXCEPT !.s = gettok(@)], Tok(l.s).name) ELSE [l EXCEPT !.s = expect(@, "}")]

Numbering(r) == enumerators([s |-> gettok(r.s), ty |-> r.ty, n |-> -1])
EnumTagging(s, tag) ==
  IF T(s) = "{" THEN Numbering(newstruct(s, "ENUM", tag)) ELSE Typed(s, s.types[lookup(s.types, tag)].type)
Enumeration(s) == IF T(s) = "ID" THEN EnumTagging(gettok(s), Tok(s).name) ELSE EnumTagging(s, "")
-------------------------------------------------------------------------------
\* A comma may stand before the brace that ends an initializer at the outermost level.
initend(s, lev) == expect(IF lev = 0 THEN AfterComma(s) ELSE s, "}")

\* initvalue(): a constant of type ty.
Cast(r, ty, was) == Read([r.s EXCEPT !.needconst = was], val(cast(r.s, r.p, ty)))
initvalue(s, ty) == Cast(expr1(Constantly(s)), ty, s.needconst)

RECURSIVE initarray(_, _, _, _), initchars(_, _, _), initstruct(_, _, _, _, _)

\* Whether there is more for an aggregate of len bytes, of which n have been given; len = 0:
\* up to the brace.
GoesOn(s, len, n) == ~(len > 0 /\ n >= len) /\ T(s) = "," /\ Ahead(s) # "}"
\* The comma of the last one.
Ended(s, len, n) == IF ~(len > 0 /\ n >= len) THEN AfterComma(s) ELSE s

AfterElement(r, len, ty, lev) ==
  IF GoesOn(r.s, len, r.n) THEN initarray([r EXCEPT !.s = gettok(@)], len, ty, lev)
  ELSE [r EXCEPT !.s = Ended(@, len, r.n)]
Counted(one, r) == [one EXCEPT !.n = r.n + @]
Sized(one, ty) == [one EXCEPT !.n = Size(one.s.structs, ty)]
initarray(r, len, ty, lev) == AfterElement(Counted(Sized(initializer(r.s, ty, lev), ty), r), len, ty, lev)

\* initchar(): characters are collected in strings; here each is one.
Character(r, v) == [r EXCEPT !.s = defstring(v.s, <<v.p % 256>>), !.n = @ + 1]
MoreCharacters(r, len, ty) ==
  IF GoesOn(r.s, len, r.n) THEN initchars([r EXCEPT !.s = gettok(@)], len, ty)
  ELSE [r EXCEPT !.s = Ended(@, len, r.n)]
initchars(r, len, ty) == MoreCharacters(Character(r, initvalue(r.s, ty)), len, ty)

\* The members from the k-th on.
NextMember(r, len, fs, k, lev) ==
  IF GoesOn(r.s, len, r.n)
  THEN initstruct([r EXCEPT !.s = gettok(@)], len, fs, IF k < Len(fs) THEN k + 1 ELSE k, lev)
  ELSE [r EXCEPT !.s = Ended(@, len, r.n)]
initstruct(r, len, fs, k, lev) ==
  NextMember(Counted(Sized(initializer(Space(r.s, fs[k].offset - r.n), fs[k].type, lev), fs[k].type),
                     [r EXCEPT !.n = IF fs[k].offset > r.n THEN fs[k].offset ELSE r.n]), len, fs, k, lev)

\* A scalar: a constant expression, in braces or not.
ScalarValue(r, ty, was) ==
  LET made == genconst(r.s, cast(r.s, pointer(r.p), Unenumerated(ty)))
  IN  Initial([made.s EXCEPT !.needconst = was], ty, made.n)
Unbraced(r, lev) == [r EXCEPT !.s = initend(@, lev)]
initscalar(s, ty, lev) ==
  ScalarValue(IF T(s) = "{" THEN Unbraced(expr1(gettok(Constantly(s))), lev) ELSE expr1(Constantly(s)),
              ty, s.needconst)

Braced(r) == [r EXCEPT !.s = expect(@, "}")]
From0(s, ty) == Initial(s, ty, 0)

\* A union is given by its first member, a structure by all of them; without braces each takes
\* as many values as it needs.
initunion(s, ty, lev) ==
  LET fs == s.structs[ty.tag].fields
      n  == Size(s.structs, fs[1].type)
  IN  IF T(s) = "{" THEN Unbraced(initstruct(From0(gettok(s), ty), n, fs, 1, lev + 1), lev)
      ELSE initstruct(From0(s, ty), n, fs, 1, lev + 1)
initrecord(s, ty, lev) ==
  LET fs == s.structs[ty.tag].fields
  IN  CASE T(s) = "{" -> Braced(initstruct(From0(gettok(s), ty), 0, fs, 1, lev + 1))
        [] T(s) # "{" /\ lev > 0 -> initstruct(From0(s, ty), Size(s.structs, ty), fs, 1, lev + 1)

\* A string leaves out its end where the array has no room for it.
Fitting(str, ty) == IF ty.n > 0 /\ ty.n = Len(str) - 1 THEN Front(str) ELSE str
initstring(s, ty) ==
  LET str == Fitting(Tok(s).str, ty) IN Initial(gettok(defstring(s, str)), ty, Len(str))
inittext(s, ty, lev) ==
  CASE T(s) = "SCON" -> initstring(s, ty)
    [] T(s) = "{" /\ Ahead(s) = "SCON" -> Unbraced(initializer(gettok(s), ty, lev + 1), lev)
    [] T(s) = "{" /\ Ahead(s) # "SCON" -> Braced(initchars(From0(gettok(s), ty), 0, ty.type))
    [] T(s) \notin {"SCON", "{"} /\ lev > 0 /\ ty.n > 0 -> initchars(From0(s, ty), ty.n, ty.type)
initelements(s, ty, lev) ==
  CASE T(s) = "{" -> Braced(initarray(From0(gettok(s), ty), 0, ty.type, lev + 1))
    [] T(s) # "{" /\ lev > 0 /\ ty.n > 0 -> initarray(From0(s, ty), Size(s.structs, ty), ty.type, lev + 1)

ischar(ty) == isint(ty) /\ ty.size = 1
Valuing(s, ty, lev) ==
  CASE isscalar(ty)       -> initscalar(s, ty, lev)
    [] ty.op = "UNION"    -> initunion(s, ty, lev)
    [] ty.op = "STRUCT"   -> initrecord(s, ty, lev)
    [] isarray(ty) /\ ischar(ty.type)  -> inittext(s, ty, lev)
    [] isarray(ty) /\ ~ischar(ty.type) -> initelements(s, ty, lev)

\* Mutant: what is not given keeps no room.
Completed_NoRoom(r, ty) ==
  LET size == Size(r.s.structs, ty)
  IN  IF size > 0 THEN [r EXCEPT !.ty = ty] ELSE [r EXCEPT !.ty = array(ty.type, r.n \div Size(r.s.structs, ty.type))]

\* What is not given is zero; an array of unknown size is as long as what is given.
Completed(r, ty) ==
  LET size == Size(r.s.structs, ty)
  IN  IF size > 0 THEN [r EXCEPT !.s = Space(@, size - r.n), !.ty = ty]
      ELSE [r EXCEPT !.ty = array(ty.type, r.n \div Size(r.s.structs, ty.type))]
\* A string in braces has been completed already.
InBraces(s, ty) == isarray(ty) /\ ischar(ty.type) /\ T(s) = "{" /\ Ahead(s) = "SCON"
Initializer(s, ty, lev) ==
  IF InBraces(s, ty) THEN Valuing(s, ty, lev) ELSE Completed(Valuing(s, ty, lev), ty)
-------------------------------------------------------------------------------
\* initglobal() of a variable called x in the assembly file: [s, ty], its type with the size
\* the initial value gives it.
Grown(s, ty, given) == IF isarray(ty) /\ Size(s.structs, ty) = 0 THEN given ELSE ty
Initialized(r, ty) == Typed(r.s, Grown(r.s, ty, r.ty))
initglobal(s, x, static, ty) ==
  Initialized(initializer(IF T(s) = "=" THEN gettok(defglobal(s, x, static)) ELSE defglobal(s, x, static), ty, 0), ty)
\* The symbol number k has got its room.
Defined(r, k) ==
  [r.s EXCEPT !.ids[k].type = r.ty, !.ids[k].defined = TRUE,
              !.ids[k].sclass = IF @ = "extern" THEN "auto" ELSE @]

\* Mutant: what has been declared extern stays so.
Redeclared_StaysExtern(s, k, sclass, ty) == [s EXCEPT !.ids[k].type = compose(ty, @)]

\* dclglobal(): declarations of one name are put together.
Redeclared(s, k, sclass, ty) ==
  [s EXCEPT !.ids[k].type = compose(ty, @), !.ids[k].sclass = IF @ = "extern" THEN sclass ELSE @]
Relocated(s, sclass, ty) == [s EXCEPT !.ids[Len(s.ids)].sclass = sclass, !.ids[Len(s.ids)].type = ty]
Entered(s, sclass, id, ty) ==
  LET k == lookup(s.ids, id)
      q == lookup(s.externals, id)
  IN  IF k # 0 /\ s.ids[k].scope = GLOBAL THEN Redeclared(s, k, sclass, ty)
      ELSE IF q # 0 THEN Relocated(relocate(s, q), sclass, ty)
      ELSE install(s, Sym(id, GLOBAL, sclass, ty, id, 0))
WithValue(s, k) ==
  IF T(s) = "=" THEN Defined(initglobal(s, s.ids[k].x, s.ids[k].sclass = "static", s.ids[k].type), k) ELSE s
EnteredAs(s, id) == WithValue(s, Globally(s, id))
Global(s, sclass, id, ty) == EnteredAs(Entered(s, IF sclass = "" THEN "auto" ELSE sclass, id, ty), id)
-------------------------------------------------------------------------------
\* dcllocal(): variables of a block. An extern is another name of a global variable, or of
\* one that only blocks know so far.
KnownGlobally(s, id) == LET g == Globally(s, id) IN g # 0 /\ s.ids[g].sclass \notin {"typedef", "enum"}
External(s, id, ty) ==
  IF KnownGlobally(s, id) \/ lookup(s.externals, id) # 0 THEN s
  ELSE [s EXCEPT !.externals = Append(@, Sym(id, GLOBAL, "extern", ty, id, 0))]

StaticLocal(s, k) ==
  LET p == s.ids[k]
  IN  IF T(s) = "=" THEN Defined(initglobal(s, p.x, TRUE, p.type), k)
      ELSE Defined(Typed(Reserved(s, p.x, TRUE, p.type), p.type), k)

\* The tree that gives a variable its first value is part of the code.
Listing(s, p) == IF Missing(p) THEN s ELSE [s EXCEPT !.code = Append(@, [s |-> "expr", e |-> p])]
Assign(r, k, id) == Listing(r.s, root(r.s, asgntree(r.s, idtree(r.s, SymbolLeaf(r.s, r.s.ids[k])), r.p, id)))
ScalarInit(s, k, id) ==
  Assign(IF T(s) = "{" THEN LET r == expr1(gettok(s)) IN Read(expect(r.s, "}"), r.p) ELSE expr1(s), k, id)

\* The values of an aggregate lie in a static variable, from which it is copied.
Copied(s, from, ty, k) ==
  LET to == SymbolLeaf(s, s.ids[k])
  IN  IF isarray(ty)
      THEN Listing(s, Tree(s, "ASGN", ty, ty, <<idtree(s, to), Tree(s, "INDIR", ty, ty, <<idtree(s, from)>>)>>))
      ELSE Listing(s, asgntree(s, idtree(s, to), idtree(s, from), 0))
Filled(r, x, k) == Copied([r.s EXCEPT !.ids[k].type = r.ty], Leaf(x, "ADDRG", r.ty), r.ty, k)
AggregateInit(s, k, x) == Filled(initglobal(s, x, TRUE, s.ids[k].type), x, k)

InitLocal(s, k, id) ==
  IF isscalar(s.ids[k].type) \/ (isstruct(s.ids[k].type) /\ T(s) # "{") THEN ScalarInit(s, k, id)
  ELSE AggregateInit(s, k, s.ids[k].x \o "$")
Local(s, k) == [s EXCEPT !.locals = Append(@, [name |-> s.ids[k].x, type |-> s.ids[k].type])]
AutoLocal(s, k) == Local(IF T(s) = "=" THEN InitLocal(gettok(s), k, s.i) ELSE s, k)

\* The class of a local variable that says none.
LocalClass(sclass, ty) == IF sclass # "" THEN sclass ELSE IF isfunc(ty) THEN "extern" ELSE "auto"
\* A second extern in one block adds what it knows.
Composed(s, id, ty) ==
  LET q == lookup(s.ids, id)
  IN  IF q # 0 /\ s.ids[q].scope = s.level THEN compose(ty, s.ids[q].type) ELSE ty
Installed(s, sclass, id, ty) ==
  CASE sclass = "extern" -> External(install(s, Sym(id, s.level, sclass, Composed(s, id, ty), id, 0)), id, ty)
    [] sclass = "static" -> StaticLocal(install(s, Sym(id, s.level, sclass, ty, DefName(s, id, s.level, sclass), 0)), Len(s.ids) + 1)
    [] sclass \in {"auto", "register"} ->
         AutoLocal(install(s, Sym(id, s.level, sclass, ty, DefName(s, id, s.level, sclass), 0)), Len(s.ids) + 1)
dcllocal(s, sclass, id, ty) == Installed(s, LocalClass(sclass, ty), id, ty)
-------------------------------------------------------------------------------
\* decl(): declarators of one specifier. What a declaration is may be seen only after its
\* first declarator: r is what has been specified, d what it declares.
StartsDeclarator(s) == T(s) \in {"ID", "*", "(", "["}
BodyFollows(s) == T(s) = "{" \/ istypename(s) \/ (T(s) \in StaticKind /\ T(s) # "typedef")
IsDefinition(d) == d.given /\ isfunc(d.ty) /\ BodyFollows(d.s)
LeaveParameters(d) == IF d.given THEN [d EXCEPT !.s = exitparams(@)] ELSE d

DeclareOne(s, sclass, d) ==
  CASE sclass = "typedef" -> install(s, Sym(d.id, s.level, "typedef", d.ty, "", 0))
    [] sclass # "typedef" /\ s.level = GLOBAL -> dclglobal(s, sclass, d.id, d.ty)
    [] sclass # "typedef" /\ s.level > GLOBAL -> dcllocal(s, sclass, d.id, d.ty)

AfterOne(s, r) ==
  IF T(s) = "," THEN Declarators(dclr(gettok(s), r.ty, Plain), r) ELSE expect(s, ";")
Some(d, r) == AfterOne(DeclareOne(d.s, r.sclass, d), r)

\* A declaration that is no function definition.
First(r) == dclr(r.s, r.ty, Defining)
Whole(r) == IF StartsDeclarator(r.s) THEN Declarators(LeaveParameters(First(r)), r) ELSE expect(r.s, ";")
OfBlock(r) == IF StartsDeclarator(r.s) THEN Declarators(dclr(r.s, r.ty, Plain), r) ELSE expect(r.s, ";")
-------------------------------------------------------------------------------
\* funcdefn() up to the body, with the parameters in scope; without a prototype their scope
\* is entered anew.
Beginning(s, d) ==
  [s |-> [s EXCEPT !.ids[Globally(s, d.id)].defined = TRUE, !.locals = <<>>, !.code = <<>>],
   id |-> d.id, params |-> d.params]
DefinitionType(s, d) ==
  LET k == lookup(s.ids, d.id)
  IN  IF d.ty.oldstyle /\ ~(k # 0 /\ s.ids[k].scope = GLOBAL /\ isfunc(s.ids[k].type)) THEN func(d.ty.type, <<>>, TRUE)
      ELSE d.ty
Rescoped(d) == [d EXCEPT !.s = IF d.ty.oldstyle THEN enterscope(exitscope(@)) ELSE @]
Begun(r, d) == Beginning(dclglobal(d.s, r.sclass, d.id, DefinitionType(d.s, d)), d)
funcdefn(r) == Begun(r, Rescoped(First(r)))

\* compound(): the scope of a block begins before its brace is looked behind, and it ends
\* before the next token is read.
OpenBlock(s) == expect(enterscope(s), "{")
CloseBlock(s) == expect(exitscope(s), "}")

\* retcode(): the value is converted to the type of the function, and to an int at least.
Return(s, e) == [s EXCEPT !.code = Append(@, [s |-> "return", e |-> e])]
retcode(s, p, ty) == Return(s, Promoted(s, cast(s, pointer(p), assign(ty, p))))
NoValue(s, ty) == IF ty = voidtype THEN Return(s, Nothing) ELSE retcode(s, cnsttree(inttype, 0), ty)
Giving(r, ty) == retcode(expect(r.s, ";"), r.p, ty)
Returned(s, ty) == IF T(s) = ";" THEN NoValue(gettok(s), ty) ELSE Giving(expr(s), ty)

AsStatement(r) == Listing(expect(r.s, ";"), r.p)

\* The end of a function: 0 is returned where nothing is, then both scopes end, then the
\* brace is looked behind.
EndsOpen(s) == s.code = <<>> \/ Last(s.code).s # "return"
Finished(s, ty) == IF EndsOpen(s) THEN NoValue(s, ty) ELSE s
CloseFunction(s, k) == expect(exitscope(exitscope(Exported(s, k))), "}")
-------------------------------------------------------------------------------
Parse(what, s, x) ==
  CASE what = "expr"    -> Commas(expr1(s))
    [] what = "expr1"   -> Assignment(expr2(s))
    [] what = "expr2"   -> Conditional(expr3(s, 4))
    [] what = "expr3"   -> Climbing(unary(s), x)
    [] what = "unary"   -> Unary(s)
    [] what = "postfix" -> Postfixed(Read(s, x))
    [] what = "call"    -> Arguments(s, x[1], x[2], x[3], x[4])
    [] what = "specifier"  -> Specifiers(s, Unspecified)
    [] what = "dclr1"      -> DeclaratorAt(s, x)
    [] what = "parameters" -> Parameters(s)
    [] what = "typename"   -> NameOf(specifier(s))
    [] what = "structdcl"  -> Record(s, x)
    [] what = "enumdcl"    -> Enumeration(s)
    [] what = "intexpr"    -> AsInt(expr1(Constantly(s)), s.needconst)
    [] what = "initializer" -> Initializer(s, x[1], x[2])
    [] what = "dclglobal"   -> Global(s, x[1], x[2], x[3])
    [] what = "declarators" -> Some(x[1], x[2])
    [] what = "first"       -> First(specifier(s))
    [] what = "declaration" -> Whole(specifier(s))
    [] what = "definition"  -> funcdefn(specifier(s))
    [] what = "local"       -> OfBlock(specifier(s))
    [] what = "return"      -> Returned(s, x)
    [] what = "statement"   -> AsStatement(expr0(s))
    [] what = "end"         -> Finished(s, x)
    [] what = "tree"        -> B!Make(s, x.what, x.a)
===============================================================================
