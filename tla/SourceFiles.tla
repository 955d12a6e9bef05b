------------------------------ MODULE SourceFiles ------------------------------
(***************************************************************************)
(* The C files the front end is run on: families of files that begin the   *)
(* same way and end in many ways. What main() computes is left in global   *)
(* variables.                                                              *)
(***************************************************************************)
EXTENDS CSource

Prog(head, ends) == [head |-> head, ends |-> ends]
Main(decls, body) == <<Function("", Fn(IntT, <<>>), "main", decls, Append(body, Return(Num(0))))>>
V(name) == Var(name)
Give(name, e) == Do(Set(V(name), e))
Global(t, name)    == Outer(One("", t, name, NoInit))
GlobalIs(t, name, e) == Outer(One("", t, name, Is(e)))
\* main() leaves the value of e as an int and as a long.
Computes(e) == Main(<<>>, <<Give("r", e), Give("s", e)>>)
Leaves(e)   == Main(<<>>, <<Give("r", e)>>)
Results == <<Global(IntT, "r"), Global(LongT, "s")>>

Numbers ==
  <<GlobalIs(IntT, "a", Num(7)), GlobalIs(IntT, "b", Num(3)), GlobalIs(IntT, "z", Num(0)), GlobalIs(IntT, "m", Un("-", Num(300))),
    GlobalIs(CharT, "c", Num(100)), GlobalIs(Base(<<"signed", "char">>, signedchar), "d", Un("-", Num(3))),
    GlobalIs(UcharT, "k", Num(200)), GlobalIs(UintT, "u", Num(40000)),
    GlobalIs(LongT, "l", NumOf(70000, longtype)), GlobalIs(LongT, "n", Un("-", NumOf(70000, longtype)))>> \o Results
NarrowNames == {"c", "d", "k"}
WideNames    == {"a", "m", "u", "l", "n"}

Arith == {"+", "-", "*", "/", "%", "&", "^", "|"}
Moves == {"<<", ">>"}
Orders == {"<", "<=", ">", ">=", "==", "!="}
Ops == Arith \union Moves \union Orders \union {"&&", "||"}

\* Every operator on every pair of types; on constants it is folded.
Pairs == Prog(Numbers, {Computes(Bin(V(x), op, V(y))) : x \in {"c", "k", "m", "u", "l"}, y \in {"d", "k", "a", "u", "n"}, op \in Ops})
Literals ==
  {Num(0), Num(1), Num(2), Num(9), Un("-", Num(5)), NumOf(60000, unsignedtype), NumOf(8, unsignedtype), NumOf(33000, longtype)}
Folds == Prog(Numbers, {Computes(Bin(x, op, y)) : x \in Literals, y \in Literals, op \in Ops})
Halves == Prog(Numbers, {Computes(Bin(x, op, y)) : x \in {V("b"), V("u"), V("d")}, y \in Literals, op \in Ops}
                  \union {Computes(Bin(x, op, y)) : x \in Literals, y \in {V("b"), V("u"), V("d")}, op \in Ops})

\* Every two operators, in both orders.
Strengths ==
  Prog(Numbers, {Leaves(Bin(Bin(V("a"), o, V("b")), p, Num(2))) : o \in Ops, p \in Ops}
        \union {Leaves(Bin(V("a"), o, Bin(V("b"), p, Num(2)))) : o \in Ops, p \in Ops})

\* Operators of one operand, on names, on each other and among others.
Signs == {"-", "+", "~", "!"}
Steps == {"++", "--"}
Ones ==
  Prog(Numbers, {Computes(Un(o, V(x))) : o \in Signs \union Steps, x \in NarrowNames \union WideNames}
        \union {Computes(Post(V(x), o)) : o \in Steps, x \in NarrowNames \union WideNames}
        \union {Computes(Un(o, Un(p, V(x)))) : o \in Signs, p \in Signs, x \in {"d", "u", "a", "n"}}
        \union {Computes(Bin(Un(o, V("a")), p, Un(o, V("b")))) : o \in Signs, p \in {"-", "&&", "==", "<<", ">"}}
        \union {Computes(Un(o, Bin(V("a"), p, V("b")))) : o \in Signs, p \in {"-", "&&", "==", "<<", "||"}}
        \union {Computes(Un(o, Num(k))) : o \in Signs, k \in {0, 1, 32767}})

\* Conversions: casts, and every type assigned to every other.
NumberTypes ==
  {CharT, IntT, UintT, LongT, UcharT, Base(<<"signed", "char">>, signedchar), Base(<<"short">>, shorttype),
   Base(<<"unsigned", "long">>, unsignedlong), Base(<<"long", "int">>, longtype), Base(<<"short", "int">>, shorttype),
   Base(<<"signed">>, inttype), Base(<<"int", "unsigned">>, unsignedtype)}
Casts ==
  Prog(Numbers, {Computes(CastTo(t, V(x))) : t \in NumberTypes, x \in NarrowNames \union WideNames}
        \union {Computes(CastTo(t, CastTo(p, V(x)))) : t \in {CharT, UcharT, UintT, LongT}, p \in {CharT, UcharT, UintT, IntT}, x \in {"m", "l"}}
        \union {Computes(CastTo(t, Num(k))) : t \in NumberTypes, k \in {0, 300, 200}}
        \union {<<Function("", Fn(t, <<Member("x", p)>>), "f", <<>>, <<Return(V("x"))>>)>> \o Computes(App(V("f"), <<V(x)>>)) :
                  t \in {CharT, UcharT, IntT, LongT}, p \in {CharT, UintT, LongT}, x \in {"d", "k", "m", "u"}}
        \union {Leaves(SizeOf(t)) : t \in NumberTypes} \union {Leaves(SizeOfE(V(x))) : x \in NarrowNames \union WideNames}
        \union {Leaves(SizeOfE(Bin(V("c"), "+", V(x)))) : x \in NarrowNames \union WideNames})

\* Assignments with an operator, their values, and what stands on their left.
Updates ==
  Prog(Numbers, {Computes(Asg(V(x), o, V(y))) : o \in Arith \union Moves, x \in {"c", "k", "a", "u", "l"}, y \in {"b", "d", "u", "l"}}
        \union {Computes(Asg(V("a"), o, Asg(V("b"), p, Num(2)))) : o \in Arith \union {""}, p \in Arith \union {""}}
        \union {Computes(Asg(V("a"), o, Bin(V("b"), "-", Num(1)))) : o \in Arith})

\* Conditions, commas and what they decide about.
Tests == {V("z"), V("a"), Bin(V("a"), ">", V("b")), Un("!", V("a")), Num(0), Num(1), Bin(V("z"), "&&", Post(V("b"), "++")),
          Bin(V("z"), "||", Post(V("b"), "++")), Then(Set(V("z"), Num(5)), V("z"))}
Arms == {V("c"), V("l"), Num(4), Set(V("b"), Num(9)), Post(V("m"), "--"), If3(V("z"), V("a"), V("b"))}
Decisions ==
  Prog(Numbers, {Computes(If3(t, x, y)) : t \in Tests, x \in Arms, y \in Arms}
        \union {Main(<<>>, <<Do(If3(t, x, y)), Do(Bin(t, o, x)), Do(Then(x, t))>>) : t \in Tests, o \in {"&&", "||", "+"}, x \in Arms, y \in {Num(4), Un("++", V("a"))}}
        \union {Computes(Bin(If3(t, V("a"), V("b")), o, V("c"))) : t \in Tests, o \in {"-", "<", "&&"}}
        \union {Computes(Then(Then(x, y), Set(V("z"), V("m")))) : x \in Arms, y \in Arms})

-------------------------------------------------------------------------------
\* Pointers, arrays, structures and functions.
Pair == RecRef("struct", "pair")
Things ==
  <<GlobalIs(IntT, "a", Num(2)), GlobalIs(IntT, "b", Num(1)),
    Outer(One("", Arr(IntT, Num(5)), "v", Items([j \in 1 .. 5 |-> Is(Num(10 * j))]))),
    Outer(One("", Arr(CharT, NoEx), "t", Is(Text(<<72, 105>>)))),
    GlobalIs(To(IntT), "p", Bin(V("v"), "+", Num(1))), GlobalIs(To(To(IntT)), "q", Un("&", V("p"))),
    GlobalIs(To(CharT), "h", V("t")),
    Outer(Decl("", Rec("struct", "pair", <<Member("x", CharT), Member("y", IntT), Member("z", Arr(IntT, Num(2))), Member("to", To(Pair))>>),
               <<Dcl(Same, "o", Items(<<Is(Num(3)), Is(Num(4)), Items(<<Is(Num(5)), Is(Num(6))>>)>>)), Dcl(Same, "w", NoInit),
                 Dcl(Arr(Same, Num(2)), "ws", NoInit), Dcl(To(Same), "g", Is(Un("&", V("o"))))>>)),
    Outer(One("", Rec("union", "either", <<Member("i", IntT), Member("c", Arr(CharT, Num(2)))>>), "e", NoInit)),
    Outer(Decl("", EnumOf("color", <<[name |-> "red", e |-> NoEx], [name |-> "green", e |-> Num(5)], [name |-> "blue", e |-> NoEx]>>),
               <<Dcl(Same, "paint", Is(V("green")))>>)),
    Function("", Fn(IntT, <<Member("n", IntT)>>), "twice", <<>>, <<Return(Bin(V("n"), "*", Num(2)))>>),
    Function("static", Fn(IntT, <<Member("n", CharT), Member("p", To(IntT))>>), "sum", <<>>,
             <<Return(Bin(V("n"), "+", Un("*", V("p"))))>>),
    GlobalIs(To(Fn(IntT, <<Member("", IntT)>>)), "f", V("twice"))>> \o Results
Elements ==
  {Idx(V("v"), V("a")), Idx(V("p"), Num(1)), Idx(Num(1), V("p")), Un("*", Bin(V("v"), "+", V("a"))), Un("*", V("p")),
   Un("*", Bin(V("p"), "-", V("b"))), Un("*", Post(V("p"), "++")), Un("*", Un("++", V("p"))), Un("*", Un("*", V("q"))),
   Idx(Un("*", V("q")), V("b")), Un("*", Asg(V("p"), "+", V("b"))), Dot(V("o"), "y"), Dot(V("o"), "x"), V("paint"), Arrow(V("g"), "y"),
   Idx(Dot(V("o"), "z"), V("b")), Idx(Arrow(V("g"), "z"), Num(1)), Un("*", Arrow(Un("&", V("o")), "z")),
   Dot(Un("*", V("g")), "x"), Dot(Idx(V("ws"), V("b")), "y"), Idx(Dot(V("e"), "c"), Num(0)), Dot(V("e"), "i"),
   Idx(V("t"), V("b")), Un("*", Post(V("h"), "++")), Dot(Set(V("w"), V("o")), "y"), Idx(Dot(Then(V("a"), V("o")), "z"), V("b"))}
Places == Elements \ {Dot(Set(V("w"), V("o")), "y"), Idx(Dot(Then(V("a"), V("o")), "z"), V("b")), Dot(V("o"), "x")}
PointerValues ==
  {Bin(V("p"), "-", V("v")), Bin(Un("&", Idx(V("v"), Num(3))), "-", V("p")), Bin(V("p"), "==", Bin(V("v"), "+", V("b"))),
   Bin(V("p"), "!=", Num(0)), Bin(Num(0), "==", V("g")), Un("!", V("p")), Bin(V("p"), "&&", V("a")), If3(V("p"), V("a"), V("b")),
   Bin(V("p"), ">", V("v")), Bin(V("p"), "<=", V("v")), Bin(V("p"), "==", CastTo(To(VoidT), V("p"))),
   Un("*", If3(V("a"), V("p"), CastTo(To(VoidT), Num(0)))),
   Bin(Un("&", Idx(V("ws"), Num(1))), "-", V("ws")), Bin(Un("&", Idx(Dot(V("o"), "z"), V("b"))), "-", Dot(V("o"), "z")),
   Un("*", CastTo(To(CharT), V("v"))), Bin(CastTo(UintT, V("p")), "-", CastTo(UintT, V("v"))),
   Un("*", Un("&", V("a"))), Un("*", Then(Set(V("p"), V("v")), Bin(V("p"), "+", Num(2))))}
CallsMade ==
  {App(V("twice"), <<V("a")>>), App(V("f"), <<Num(4)>>), App(Un("*", V("f")), <<V("b")>>), App(Un("*", Un("*", V("f"))), <<V("b")>>),
   App(If3(V("a"), V("twice"), V("f")), <<Num(6)>>), App(V("sum"), <<Num(300), V("p")>>), App(V("sum"), <<V("a"), V("v")>>),
   App(V("twice"), <<App(V("twice"), <<V("a")>>)>>), App(V("sum"), <<App(V("twice"), <<V("a")>>), Bin(V("v"), "+", App(V("twice"), <<V("b")>>))>>),
   Bin(App(V("twice"), <<V("a")>>), "+", App(V("f"), <<V("b")>>)), App(V("twice"), <<Set(V("a"), Num(9))>>),
   Un("-", App(V("twice"), <<Post(V("a"), "++")>>)), Then(Set(V("f"), Un("&", V("twice"))), App(V("f"), <<V("a")>>))}
Sizes ==
  {V("paint"), V("v"), V("t"), V("p"), V("o"), V("ws"), V("e"), Idx(V("v"), V("a")), Un("*", V("p")), Un("&", V("v")), Dot(V("o"), "z"), V("g"), Un("*", V("g")),
   Text(<<72, 105>>), Bin(V("v"), "+", Num(1)), App(V("twice"), <<V("a")>>), Post(V("a"), "++")}
Objects ==
  Prog(Things, {Computes(e) : e \in Elements \union PointerValues \union CallsMade}
        \union {Computes(SizeOfE(e)) : e \in Sizes}
        \union {Computes(Asg(e, o, V("a"))) : e \in Places, o \in {"", "+", "<<"}}
        \union {Computes(Post(e, o)) : e \in Places, o \in {"++", "--"}}
        \union {Computes(Un(o, e)) : e \in Places, o \in {"++", "--", "-", "!"}}
        \union {Main(<<One("", EnumRef("color"), "y", Is(x))>>, <<Give("r", Bin(Post(V("y"), "++"), o, V("paint"))), Give("s", V("y"))>>) :
                  x \in {V("red"), V("blue")}, o \in {"+", "-", "&&"}}
        \union {Main(<<>>, <<Do(Set(V("w"), Un("*", V("g")))), Do(Set(Idx(V("ws"), V("b")), V("w"))), Give("r", Dot(Idx(V("ws"), Num(1)), "y"))>>),
                Main(<<>>, <<Do(Set(Dot(V("o"), "to"), V("g"))), Give("r", Arrow(Arrow(Arrow(V("g"), "to"), "to"), "y"))>>)})

-------------------------------------------------------------------------------
\* Types of pointers, arrays and functions, up to n of them around an int, and the ways to
\* name one: variables, members, parameters, typedefs, casts.
MayHold(t) == t.op # "FN"
MayGive(t) == t.op \notin {"FN", "ARRAY"}
RECURSIVE Types(_)
Types(n) ==
  IF n = 0 THEN {IntT}
  ELSE LET ts == Types(n - 1)
       IN  {To(t) : t \in ts} \union {Arr(t, Num(2)) : t \in {x \in ts : MayHold(x)}}
             \union {Fn(t, <<Member("", CharT)>>) : t \in {x \in ts : MayGive(x)}}
AllTypes == UNION {Types(n) : n \in 1 .. 3}
ObjectTypes == {t \in AllTypes : MayHold(t)}
Taking(t) == Function("", Fn(IntT, <<Member("y", t)>>), "f", <<>>, <<Return(SizeOfE(V("y")))>>)
Declarators ==
  Prog(Results,
    {<<Global(t, "x"), Global(t, "x")>> \o Leaves(SizeOfE(V("x"))) : t \in ObjectTypes}
    \union {<<Global(Arr(To(t), NoEx), "x"), Outer(One("extern", Arr(To(t), Num(3)), "x", NoInit))>> \o Leaves(SizeOfE(V("x"))) : t \in AllTypes}
    \union {<<Outer(One("", t, "x", NoInit)), Outer(One("extern", t, "x", NoInit))>> \o Leaves(SizeOfE(Un("&", V("x")))) : t \in AllTypes \ ObjectTypes}
    \union {<<Outer(One("typedef", t, "name", NoInit)), Global(To(Alias("name")), "x")>> \o Leaves(SizeOfE(Un("*", V("x")))) : t \in ObjectTypes}
    \union {Main(<<One("", Rec("struct", "", <<Member("c", CharT), Member("x", t), Member("d", CharT)>>), "o", NoInit)>>,
                 <<Give("r", SizeOfE(V("o"))), Give("s", SizeOfE(Dot(V("o"), "x")))>>) : t \in ObjectTypes}
    \union {Main(<<One("", CharT, "x", NoInit)>>, <<Give("r", SizeOf(t)), Give("s", SizeOfE(CastTo(To(t), Num(0))))>>) : t \in ObjectTypes}
    \union {<<Taking(t)>> \o Leaves(App(V("f"), <<Num(0)>>)) : t \in AllTypes}
    \union {<<Outer(Decl("", IntT, <<Dcl(Onto(t), "x", NoInit), Dcl(Onto(u), "y", NoInit)>>))>> \o Leaves(SizeOfE(V("y"))) :
              t \in Types(1), u \in Types(2) \intersect ObjectTypes})

\* Initial values of everything, at file level, static and automatic: the numbers of x are
\* copied to v one by one.
RECURSIVE NumbersOf(_, _)
NumbersOf(t, e) ==
  CASE t.op = "ARRAY" -> FlattenSeq([j \in 1 .. t.n.n |-> NumbersOf(t.type, Idx(e, Num(j - 1)))])
    [] t.op = "struct" -> FlattenSeq([j \in DOMAIN t.members |-> NumbersOf(t.members[j].t, Dot(e, t.members[j].name))])
    [] t.op = "union" -> NumbersOf(t.members[1].t, Dot(e, t.members[1].name))
    [] OTHER -> <<e>>
Collected(t, body) ==
  LET es == NumbersOf(t, V("x")) IN body \o [j \in DOMAIN es |-> Do(Set(Idx(V("v"), Num(j - 1)), es[j]))]
Ns(ns) == [j \in DOMAIN ns |-> Is(Num(ns[j]))]
S2 == Rec("struct", "two", <<Member("a", CharT), Member("b", IntT)>>)
S3 == Rec("struct", "three", <<Member("a", CharT), Member("b", Arr(IntT, Num(2))), Member("c", CharT)>>)
SS == Rec("struct", "both", <<Member("s", S2), Member("t", Arr(CharT, Num(3))), Member("n", LongT)>>)
U2 == Rec("union", "some", <<Member("c", CharT), Member("i", IntT)>>)
Abc == Is(Text(<<97, 98>>))
\* A type, the same with its sizes left open, an initial value.
I(t, i) == [t |-> t, as |-> t, i |-> i]
Open(t, n, i) == [t |-> Arr(t, Num(n)), as |-> Arr(t, NoEx), i |-> i]
Values ==
  {I(IntT, Is(Num(5))), I(CharT, Is(Un("-", Num(5)))), I(LongT, Is(Num(5))), I(UcharT, Items(Ns(<<5>>))),
   I(IntT, Is(Bin(Num(2), "+", Bin(Num(3), "*", Num(4))))), I(IntT, Is(If3(Num(1), Num(2), Num(3)))), I(UintT, Is(Un("-", Num(1)))),
   I(CharT, Is(SizeOf(LongT))), I(IntT, Is(CastTo(CharT, Num(300)))),
   I(Arr(IntT, Num(3)), Items(Ns(<<1, 2>>))), I(Arr(IntT, Num(3)), Items(Ns(<<1, 2, 3>>))), Open(IntT, 2, Items(Ns(<<1, 2>>))),
   I(Arr(CharT, Num(2)), Abc), I(Arr(CharT, Num(3)), Abc), I(Arr(CharT, Num(5)), Abc), Open(CharT, 3, Abc), Open(CharT, 3, Items(<<Abc>>)),
   I(Arr(CharT, Num(4)), Items(Ns(<<1, 2>>))), Open(CharT, 3, Items(Ns(<<1, 2, 0>>))),
   I(Arr(Arr(IntT, Num(2)), Num(2)), Items(Ns(<<1, 2, 3>>))), I(Arr(Arr(IntT, Num(2)), Num(2)), Items(<<Items(Ns(<<1>>)), Items(Ns(<<2, 3>>))>>)),
   Open(Arr(IntT, Num(2)), 2, Items(Ns(<<1, 2, 3>>))), Open(Arr(IntT, Num(2)), 2, Items(<<Items(Ns(<<1>>)), Is(Num(2))>>)),
   I(Arr(Arr(CharT, Num(3)), Num(2)), Items(<<Abc, Is(Text(<<99>>))>>)), I(Arr(Arr(CharT, Num(3)), Num(2)), Items(<<Items(Ns(<<1>>)), Abc>>)),
   I(S2, Items(Ns(<<1>>))), I(S2, Items(Ns(<<1, 300>>))), I(S3, Items(Ns(<<1, 2, 3, 4>>))), I(S3, Items(<<Is(Num(1)), Items(Ns(<<2>>)), Is(Num(4))>>)),
   I(SS, Items(<<Is(Num(1)), Is(Num(2)), Abc, Is(Num(5))>>)), I(SS, Items(<<Items(Ns(<<1>>)), Items(Ns(<<3, 4>>))>>)),
   I(SS, Items(Ns(<<1, 2, 3, 4, 5, 6>>))), I(Arr(S2, Num(2)), Items(Ns(<<1, 2, 3>>))), I(Arr(S2, Num(3)), Items(<<Items(Ns(<<1>>)), Items(Ns(<<2, 3>>))>>)),
   I(Arr(S3, Num(2)), Items(<<Is(Num(1)), Is(Num(2)), Is(Num(3)), Is(Num(4)), Items(Ns(<<5, 6>>))>>)),
   Open(S2, 2, Items(<<Is(Num(1)), Is(Num(2)), Items(Ns(<<3>>))>>)), I(U2, Items(Ns(<<7>>))),
   I(Arr(U2, Num(2)), Items(Ns(<<7, 8>>))), I(Arr(Rec("struct", "", <<Member("u", U2), Member("x", CharT)>>), Num(2)), Items(Ns(<<7, 8, 9>>)))}
InitialValues ==
  Prog(<<Global(Arr(IntT, Num(12)), "v")>>,
    {<<Outer(One(class, x.as, "x", x.i))>> \o Main(<<>>, Collected(x.t, <<>>)) : class \in {"", "static"}, x \in Values}
    \union {Main(<<One(class, x.as, "x", x.i)>>, Collected(x.t, <<Do(Set(Idx(V("v"), Num(11)), SizeOfE(V("x"))))>>)) : class \in {"", "static"}, x \in Values})

-------------------------------------------------------------------------------
\* Scopes: x declared, or not, at file level, as a parameter, in a function and in a block of
\* it; each level leaves what it sees in v, before and after the inner one.
ConstantX(n) == Decl("", EnumOf("", <<[name |-> "x", e |-> Num(n)]>>), <<>>)
TaggedX(size) == Decl("", Rec("struct", "x", <<Member("c", Arr(CharT, Num(size)))>>), <<>>)
Within(n) ==
  {<<>>, <<One("", IntT, "x", Is(Num(n)))>>, <<One("static", IntT, "x", Is(Num(n)))>>, <<One("static", CharT, "x", NoInit)>>,
   <<One("extern", IntT, "x", NoInit)>>, <<ConstantX(n)>>, <<One("register", CharT, "x", Is(Num(n)))>>}
IsVariable(ds) == ds = <<>> \/ ds[1].ds # <<>>
Sees(j) == Do(Set(Idx(V("v"), Num(j)), V("x")))
Changes(ds) == IF IsVariable(ds) THEN <<Do(Un("++", V("x")))>> ELSE <<Empty>>
Nest(params, ds, es) ==
  Function("", Fn(IntT, params), "f", ds,
           <<Sees(0)>> \o Changes(ds) \o <<Block(es, <<Sees(1)>> \o (IF es = <<>> THEN Changes(ds) ELSE Changes(es))), Sees(2), Return(V("x"))>>)
Twice == Main(<<>>, <<Do(Set(Idx(V("v"), Num(3)), App(V("f"), <<Num(50)>>))), Do(Set(Idx(V("v"), Num(4)), App(V("f"), <<Num(60)>>))), Sees(5)>>)
Nestings ==
  Prog(<<Global(Arr(IntT, Num(6)), "v"), GlobalIs(IntT, "x", Num(10))>>,
       {<<Nest(<<Member(p, IntT)>>, ds, es)>> \o Twice : p \in {"x", "y"}, ds \in Within(20), es \in Within(30)})

\* Tags and names of types in the same way.
Aliased(t) == Decl("typedef", t, <<Dcl(Same, "x", NoInit)>>)
Shaped(n) ==
  {<<>>, <<TaggedX(n)>>, <<Decl("", RecRef("struct", "x"), <<>>), TaggedX(n)>>, <<Decl("", Rec("union", "x", <<Member("i", Arr(IntT, Num(n)))>>), <<>>)>>,
   <<Aliased(Base(<<"char">>, chartype)), One("", Arr(CharT, Num(n)), "y", NoInit)>>}
KindOf(ds, outer) == IF ds = <<>> \/ ds[1].class = "typedef" THEN outer ELSE ds[1].t.op
SizeNow(j, kind) == Do(Set(Idx(V("v"), Num(j)), SizeOf(RecRef(kind, "x"))))
TagNestings ==
  Prog(<<Global(Arr(IntT, Num(6)), "v"), Outer(TaggedX(5)), Global(RecRef("struct", "x"), "o"), Outer(Aliased(IntT)), Global(Alias("x"), "y")>>,
       {Main(ds, <<SizeNow(0, KindOf(ds, "struct")), Do(Set(Idx(V("v"), Num(1)), SizeOf(Alias("x")))),
                   Block(es, <<SizeNow(2, KindOf(es, KindOf(ds, "struct"))), Do(Set(Idx(V("v"), Num(3)), SizeOf(Alias("x"))))>>),
                   Do(Set(Idx(V("v"), Num(4)), SizeOfE(V("y"))))>>) : ds \in Shaped(3), es \in Shaped(4)})

\* Variables several declarations of the file, or of its functions, are about.
Y(class, i) == Outer(One(class, IntT, "y", i))
Tentative == {<<Y("", NoInit)>>, <<Y("extern", NoInit)>>, <<Y("", Is(Num(4)))>>, <<>>}
Hidden    == {<<Y("static", NoInit)>>, <<Y("static", Is(Num(4)))>>}
OnceGiven(os) == Cardinality({j \in DOMAIN os : os[j].d.ds[1].init.i # "none"}) <= 1
DeclaredInTurn == {os \in {a \o b \o c : a \in Tentative, b \in Tentative, c \in Tentative} \union {a \o b : a \in Hidden, b \in Hidden \union {<<Y("extern", NoInit)>>}} : OnceGiven(os)}
InFunctions(os) ==
  {os \o <<Function("", Fn(VoidT, <<>>), "g", <<One("extern", IntT, "y", NoInit)>>, <<Do(Un("++", V("y"))), Return(NoEx)>>)>> \o Main(<<>>, <<Do(App(V("g"), <<>>))>>),
   <<Function("", Fn(VoidT, <<>>), "g", <<One("extern", IntT, "y", NoInit)>>, <<Do(Un("++", V("y")))>>)>> \o os \o Main(<<One("extern", IntT, "y", NoInit)>>, <<Do(App(V("g"), <<>>))>>)}
IsHidden(os) == os # <<>> /\ os[1].d.class = "static"
Linkages ==
  Prog(<<Blank>>, UNION {InFunctions(os) : os \in {x \in DeclaredInTurn : ~IsHidden(x)}}
        \union {os \o <<Function("static", Fn(VoidT, <<>>), "g", <<One("extern", IntT, "y", NoInit)>>, <<Do(Un("++", V("y")))>>)>> \o Main(<<>>, <<Do(App(V("g"), <<>>))>>) : os \in {x \in DeclaredInTurn : IsHidden(x)}})

\* Functions declared in many ways, or not at all, before they are called and defined.
FType == Fn(IntT, <<Member("", IntT)>>)
Named(t) == {<<>>, <<Outer(One("", t, "f", NoInit))>>, <<Outer(One("extern", t, "f", NoInit))>>, <<Outer(One("", t, "f", NoInit)), Outer(One("", t, "f", NoInit))>>}
FDefined(class) ==
  <<Function(class, Fn(IntT, <<Member("n", IntT)>>), "f", <<>>,
             <<Return(If3(Bin(V("n"), ">", Num(1)), Bin(App(V("f"), <<Bin(V("n"), "-", Num(1))>>), "*", V("n")), V("n")))>>)>>
FCalled(ds) == Main(ds, <<Give("r", App(V("f"), <<Num(3)>>)), Block(<<>>, <<Give("s", App(V("f"), <<Num(2)>>))>>)>>)
FunctionUses ==
  Prog(Results,
    UNION {{d \o FDefined("") \o FCalled(ds), d \o FCalled(ds) \o FDefined("")} : d \in Named(FType) \union Named(OldFn(IntT)),
             ds \in {<<>>, <<One("", FType, "f", NoInit)>>, <<One("extern", OldFn(IntT), "f", NoInit)>>}}
    \union {<<Outer(One("static", FType, "f", NoInit))>> \o FCalled(<<>>) \o FDefined(class) : class \in {"", "static"}}
    \union {d \o FDefined("static") \o FCalled(<<>>) : d \in {<<>>, <<Outer(One("static", FType, "f", NoInit))>>}}
    \union {<<Function("", OldFn(IntT), "f", <<>>, <<Return(Num(7))>>)>> \o Main(<<>>, <<Give("r", App(V("f"), <<>>))>>)}
    \union {d \o Main(<<>>, <<Do(Un("&", V("r"))), Do(SizeOfE(App(V("f"), <<Num(1)>>)))>>) : d \in Named(FType)})

Families ==
  [pairs |-> Pairs, folds |-> Folds, halves |-> Halves, strengths |-> Strengths, ones |-> Ones, casts |-> Casts,
   updates |-> Updates, choices |-> Decisions,
   objects |-> Objects, declarators |-> Declarators, initials |-> InitialValues,
   scopes |-> Nestings, tags |-> TagNestings, linkages |-> Linkages, functions |-> FunctionUses]
===============================================================================
