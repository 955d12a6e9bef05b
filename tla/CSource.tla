-------------------------------- MODULE CSource --------------------------------
(***************************************************************************)
(* C programs and what they mean, independently of lcc: programs as trees  *)
(* of declarations, statements and expressions, how they are written down  *)
(* as tokens, and what the language says they do, on integers without      *)
(* bounds and a memory of bytes. The reference for the front end; no part  *)
(* of it. Sizes and what else the language leaves to the implementation    *)
(* are those of the cpu4: int has 16 bits, long 32, char a sign.           *)
(*                                                                         *)
(* A program whose meaning is undefined, or whose numbers leave the        *)
(* integers of the model, is marked by ok = FALSE.                         *)
(***************************************************************************)
EXTENDS Types, TLC

LOCAL INSTANCE Bitwise

-------------------------------------------------------------------------------
\* Expressions.
Ex(k, op, kids, name, n, ty) == [k |-> k, op |-> op, kids |-> kids, name |-> name, n |-> n, ty |-> ty, str |-> <<>>]
Num(n)       == Ex("num", "", <<>>, "", n, inttype)
NumOf(n, ty) == Ex("num", "", <<>>, "", n, ty)
Text(chars)  == [Ex("text", "", <<>>, "", 0, NoType) EXCEPT !.str = chars \o <<0>>]
Var(name)    == Ex("var", "", <<>>, name, 0, NoType)
Un(op, a)    == Ex("un", op, <<a>>, "", 0, NoType)
Post(a, op)  == Ex("post", op, <<a>>, "", 0, NoType)
Bin(a, op, b) == Ex("bin", op, <<a, b>>, "", 0, NoType)
Asg(a, op, b) == Ex("asg", op, <<a, b>>, "", 0, NoType)
Set(a, b)    == Asg(a, "", b)
If3(c, a, b) == Ex("cond", "", <<c, a, b>>, "", 0, NoType)
Then(a, b)   == Ex("comma", "", <<a, b>>, "", 0, NoType)
CastTo(t, a) == Ex("cast", "", <<a>>, "", 0, t)
SizeOf(t)    == Ex("sizeof", "", <<>>, "", 0, t)
SizeOfE(a)   == Ex("sizeof", "", <<a>>, "", 0, NoType)
Idx(a, b)    == Ex("index", "", <<a, b>>, "", 0, NoType)
Dot(a, f)    == Ex("dot", "", <<a>>, f, 0, NoType)
Arrow(a, f)  == Ex("arrow", "", <<a>>, f, 0, NoType)
App(f, args) == Ex("call", "", <<f>> \o args, "", 0, NoType)
NoEx == Ex("none", "", <<>>, "", 0, NoType)

\* Types as they are written.
Base(words, ty) == [op |-> "BASE", words |-> words, ty |-> ty]
IntT   == Base(<<"int">>, inttype)
CharT  == Base(<<"char">>, chartype)
LongT  == Base(<<"long">>, longtype)
UintT  == Base(<<"unsigned">>, unsignedtype)
UcharT == Base(<<"unsigned", "char">>, unsignedchar)
VoidT  == Base(<<"void">>, voidtype)
To(t)      == [op |-> "POINTER", type |-> t]
Arr(t, n)  == [op |-> "ARRAY", type |-> t, n |-> n]
Fn(t, params) == [op |-> "FN", type |-> t, params |-> params, proto |-> TRUE]
OldFn(t)      == [op |-> "FN", type |-> t, params |-> <<>>, proto |-> FALSE]
Member(name, t) == [name |-> name, t |-> t]
Rec(kind, tag, members) == [op |-> kind, tag |-> tag, members |-> members, whole |-> TRUE]
RecRef(kind, tag)       == [op |-> kind, tag |-> tag, members |-> <<>>, whole |-> FALSE]
EnumOf(tag, names) == [op |-> "enum", tag |-> tag, members |-> names, whole |-> TRUE]
EnumRef(tag)       == [op |-> "enum", tag |-> tag, members |-> <<>>, whole |-> FALSE]
Alias(name) == [op |-> "ALIAS", name |-> name]

\* What the specifier of a declaration has said, for its declarators.
Same == [op |-> "SAME"]
RECURSIVE BaseOf(_), Onto(_)
BaseOf(t) == IF t.op \in {"POINTER", "ARRAY", "FN"} THEN BaseOf(t.type) ELSE t
Onto(t) == IF t.op \in {"POINTER", "ARRAY", "FN"} THEN [t EXCEPT !.type = Onto(@)] ELSE Same

\* Declarations and initial values.
NoInit    == [i |-> "none"]
Is(e)     == [i |-> "e", e |-> e]
Items(is) == [i |-> "list", items |-> is]
Dcl(t, name, init) == [t |-> t, name |-> name, init |-> init]
Decl(class, t, ds)  == [class |-> class, t |-> t, ds |-> ds]
One(class, t, name, init) == Decl(class, BaseOf(t), <<Dcl(Onto(t), name, init)>>)

\* Statements, and what stands at file level.
Do(e)      == [s |-> "expr", e |-> e]
Return(e)  == [s |-> "return", e |-> e]
Empty      == [s |-> "empty"]
Block(decls, body) == [s |-> "block", decls |-> decls, body |-> body]
Outer(d)   == [x |-> "decl", d |-> d]
\* A semicolon by itself, which lcc allows.
Blank      == [x |-> "none"]
Function(class, t, name, decls, body) == [x |-> "fun", class |-> class, t |-> t, name |-> name, decls |-> decls, body |-> body]
-------------------------------------------------------------------------------
\* How it is written: tokens as the front end takes them.
Tk(k, name, n, ty, str) == [k |-> k, name |-> name, n |-> n, ty |-> ty, str |-> str]
W(k) == <<Tk(k, "", 0, NoType, <<>>)>>
Id(name) == <<Tk("ID", name, 0, NoType, <<>>)>>
Words(ks) == [j \in DOMAIN ks |-> W(ks[j])[1]]
Bracket(l, ts, r) == W(l) \o ts \o W(r)
Separated(tss) == FoldLeft(LAMBDA acc, ts : IF acc = <<>> THEN ts ELSE acc \o W(",") \o ts, <<>>, tss)

Strength ==
  "," :> 1 @@ "||" :> 4 @@ "&&" :> 5 @@ "|" :> 6 @@ "^" :> 7 @@ "&" :> 8 @@ "==" :> 9 @@ "!=" :> 9
  @@ "<" :> 10 @@ ">" :> 10 @@ "<=" :> 10 @@ ">=" :> 10 @@ "<<" :> 11 @@ ">>" :> 11 @@ "+" :> 12 @@ "-" :> 12
  @@ "*" :> 13 @@ "/" :> 13 @@ "%" :> 13
LevelOf(e) ==
  CASE e.k = "comma" -> 1
    [] e.k = "asg"   -> 2
    [] e.k = "cond"  -> 3
    [] e.k = "bin"   -> Strength[e.op]
    [] e.k \in {"un", "cast", "sizeof"} -> 14
    [] OTHER -> 15

\* Expressions, types around a declarator, initial values, declarations, bodies of functions.
RECURSIVE Tokens(_, _)
Written(e)     == Tokens("expression", e)
Around(t, d, starred) == Tokens("type", [t |-> t, d |-> d, starred |-> starred])
Parts(t, d)    == Around(t, d, FALSE)
Initials(init) == Tokens("initial", init)
Dcls(class, d) == Tokens("declaration", [class |-> class, d |-> d])
Body(st)       == Tokens("body", st)
\* An expression where one of at least this level may stand without parentheses.
Inside(e, level) == IF LevelOf(e) >= level THEN Written(e) ELSE Bracket("(", Written(e), ")")
\* A type by itself.
TypeWritten(t) == LET p == Parts(t, <<>>) IN p.base \o p.d

Expression(e) ==
  LET a == e.kids[1]
      b == e.kids[2]
      level == LevelOf(e)
  IN  CASE e.k = "num"  -> <<Tk("ICON", "", e.n, e.ty, <<>>)>>
        [] e.k = "text" -> <<Tk("SCON", "", 0, NoType, e.str)>>
        [] e.k = "var"  -> Id(e.name)
        [] e.k = "un"   -> W(e.op) \o Inside(a, 14)
        [] e.k = "post" -> Inside(a, 15) \o W(e.op)
        [] e.k = "bin"  -> Inside(a, level) \o W(e.op) \o Inside(b, level + 1)
        [] e.k = "asg"  -> Inside(a, 14) \o (IF e.op = "" THEN <<>> ELSE W(e.op)) \o W("=") \o Inside(b, 2)
        [] e.k = "cond" -> Inside(a, 4) \o W("?") \o Inside(b, 1) \o W(":") \o Inside(e.kids[3], 3)
        [] e.k = "comma" -> Inside(a, 1) \o W(",") \o Inside(b, 2)
        [] e.k = "cast" -> Bracket("(", TypeWritten(e.ty), ")") \o Inside(a, 14)
        [] e.k = "sizeof" /\ e.kids = <<>> -> W("sizeof") \o Bracket("(", TypeWritten(e.ty), ")")
        [] e.k = "sizeof" /\ e.kids # <<>> -> W("sizeof") \o Inside(a, IF a.k = "cast" THEN 15 ELSE 14)
        [] e.k = "index" -> Inside(a, 15) \o Bracket("[", Written(b), "]")
        [] e.k = "dot"   -> Inside(a, 15) \o W(".") \o Id(e.name)
        [] e.k = "arrow" -> Inside(a, 15) \o W("->") \o Id(e.name)
        [] e.k = "call"  -> Inside(a, 15) \o
             Bracket("(", Separated([j \in 1 .. Len(e.kids) - 1 |-> Inside(e.kids[j + 1], 2)]), ")")
        [] e.k = "none"  -> <<>>

\* A declaration of d: the specifier, and the declarator around d. What follows a name binds
\* stronger than the star before it.
Tight(d, starred) == IF starred THEN Bracket("(", d, ")") ELSE d
Specifier(t) ==
  LET members == FoldLeft(LAMBDA acc, m : acc \o Dcls("", One("", m.t, m.name, NoInit)), <<>>, t.members)
      names   == Separated([j \in DOMAIN t.members |->
                              Id(t.members[j].name) \o (IF t.members[j].e = NoEx THEN <<>> ELSE W("=") \o Inside(t.members[j].e, 3))])
      tag     == W(t.op) \o (IF t.tag = "" THEN <<>> ELSE Id(t.tag))
  IN  CASE t.op = "BASE"  -> Words(t.words)
        [] t.op = "ALIAS" -> Id(t.name)
        [] t.op \in {"struct", "union"} -> tag \o (IF t.whole THEN Bracket("{", members, "}") ELSE <<>>)
        [] t.op = "enum" -> tag \o (IF t.whole THEN Bracket("{", names, "}") ELSE <<>>)
ParameterTokens(t) ==
  CASE ~t.proto -> <<>>
    [] t.proto /\ t.params = <<>> -> W("void")
    [] t.proto /\ t.params # <<>> -> Separated([j \in DOMAIN t.params |->
         LET p == Parts(t.params[j].t, IF t.params[j].name = "" THEN <<>> ELSE Id(t.params[j].name)) IN p.base \o p.d])
Declarator(t, d, starred) ==
  CASE t.op = "POINTER" -> Around(t.type, W("*") \o d, TRUE)
    [] t.op = "ARRAY"   -> Around(t.type, Tight(d, starred) \o Bracket("[", IF t.n = NoEx THEN <<>> ELSE Written(t.n), "]"), FALSE)
    [] t.op = "FN"      -> Around(t.type, Tight(d, starred) \o Bracket("(", ParameterTokens(t), ")"), FALSE)
    [] t.op = "SAME"    -> [base |-> <<>>, d |-> d]
    [] OTHER            -> [base |-> Specifier(t), d |-> d]

InitialValue(init) ==
  CASE init.i = "e"    -> Inside(init.e, 2)
    [] init.i = "list" -> Bracket("{", Separated([j \in DOMAIN init.items |-> Initials(init.items[j])]), "}")
DeclaratorOf(d) ==
  Parts(d.t, Id(d.name)).d \o (IF d.init.i = "none" THEN <<>> ELSE W("=") \o Initials(d.init))
\* The specifier is that of the first declarator's type.
Declaration(class, d) ==
  (IF class = "" THEN <<>> ELSE W(class)) \o Parts(d.t, <<>>).base
    \o Separated([j \in DOMAIN d.ds |-> DeclaratorOf(d.ds[j])]) \o W(";")
DeclWritten(d) == Dcls(d.class, d)

Flat(F(_), xs) == FoldLeft(LAMBDA acc, x : acc \o F(x), <<>>, xs)
StatementWritten(st) ==
  CASE st.s = "expr"   -> Written(st.e) \o W(";")
    [] st.s = "return" -> W("return") \o Written(st.e) \o W(";")
    [] st.s = "empty"  -> W(";")
    [] st.s = "block"  -> Bracket("{", Body(st), "}")
BlockBody(st) == Flat(DeclWritten, st.decls) \o Flat(StatementWritten, st.body)
Tokens(what, x) ==
  CASE what = "expression"  -> Expression(x)
    [] what = "type"        -> Declarator(x.t, x.d, x.starred)
    [] what = "initial"     -> InitialValue(x)
    [] what = "declaration" -> Declaration(x.class, x.d)
    [] what = "body"        -> BlockBody(x)
OuterWritten(o) ==
  CASE o.x = "none" -> W(";")
    [] o.x = "decl" -> DeclWritten(o.d)
    [] o.x = "fun"  -> LET p == Parts(o.t, Id(o.name))
                       IN  (IF o.class = "" THEN <<>> ELSE W(o.class)) \o p.base \o p.d \o Bracket("{", Body(o), "}")
ProgramWritten(os) == Flat(OuterWritten, os)
-------------------------------------------------------------------------------
\* What it means. A world w:
\*   ok       whether all of it has been defined so far
\*   mem      bytes, where there are any; next is the first free address
\*   scopes   of file, parameters and blocks: names, and tags
\*   records  the structures and unions
\*   linked   addresses of what the file, or several, know by name
\*   statics  those of the static variables of blocks, by function and number
\*   strings  those of the strings
\*   functions, pending, given  the functions, the variables without a value so far, and those
\*            with one; internal are the names other files do not see
\*   in, count  the function run, and its declarations so far
\*   ret      whether it has returned, and what; same: see Same; typing: whether only
\*            types are asked for
RoomOf == 64
Fail(w) == [w EXCEPT !.ok = FALSE]
Given(w, v, ty) == [w |-> w, v |-> v, ty |-> ty]
Unless(bad, r) == IF bad THEN [r EXCEPT !.w = Fail(@)] ELSE r
Undefined(w, ty) == Unless(TRUE, Given(w, 0, ty))
AtAddress(w, adr, ty) == [w |-> w, adr |-> adr, ty |-> ty]
SizeIn(w, ty) == Size(w.records, ty)

Scopes(w, name) == {k \in DOMAIN w.scopes : name \in DOMAIN w.scopes[k].ids}
Known(w, name) == Scopes(w, name) # {}
Find(w, name) == w.scopes[Max(Scopes(w, name))].ids[name]
Here(w) == Len(w.scopes)
Bind(w, name, b) == [w EXCEPT !.scopes[Here(w)].ids = (name :> b) @@ @]
BindTag(w, tag, ty) == [w EXCEPT !.scopes[Here(w)].tags = (tag :> ty) @@ @]
Tags(w, tag) == {k \in DOMAIN w.scopes : tag \in DOMAIN w.scopes[k].tags}
Enter(w) == [w EXCEPT !.scopes = Append(@, [ids |-> <<>>, tags |-> <<>>])]
\* A name stands for a type, a constant n, an object at address n, or something linked.
Binding(b, ty, n) == [b |-> b, ty |-> ty, n |-> n]

\* A place of its own for something known by a key.
Link(w, name) ==
  IF name \in DOMAIN w.linked THEN w ELSE [w EXCEPT !.linked = (name :> w.next) @@ @, !.next = @ + RoomOf]
Static(w, key) ==
  IF key \in DOMAIN w.statics THEN w ELSE [w EXCEPT !.statics = (key :> w.next) @@ @, !.next = @ + RoomOf]
-------------------------------------------------------------------------------
\* Integers. A value is in the range of its type.
Two(size) == <<256, 65536>>[size]
LowestOf(ty)  == IF isunsigned(ty) THEN 0 ELSE <<-128, -32768, 0, -2147483647>>[ty.size]
HighestOf(ty) == IF isunsigned(ty) THEN <<255, 65535, 0, 2147483647>>[ty.size] ELSE <<127, 32767, 0, 2147483647>>[ty.size]
Fits(ty, n) == LowestOf(ty) <= n /\ n <= HighestOf(ty)
\* A number brought into a type: unsigned types count in circles, narrower types are cut.
Cut(ty, n) ==
  IF Fits(ty, n) THEN n
  ELSE IF ty.size = 4 THEN 0
  ELSE IF isunsigned(ty) THEN n % Two(ty.size)
  ELSE ((n + (Two(ty.size) \div 2)) % Two(ty.size)) - (Two(ty.size) \div 2)
Cuts(ty, n) == ty.size < 4 \/ Fits(ty, n)

\* The types operands are converted to: integers narrower than int to int, where it can hold
\* them; of two the wider one, of two as wide the unsigned one.
Promotion(ty) ==
  CASE isenum(ty) \/ (isint(ty) /\ ty.size < 2) -> inttype
    [] ty = shorttype -> inttype
    [] ty = unsignedshort -> unsignedtype
    [] OTHER -> ty
Common(s, t) ==
  LET a == Promotion(s)
      b == Promotion(t)
  IN  IF a.size # b.size THEN (IF a.size > b.size THEN a ELSE b)
      ELSE IF isunsigned(a) THEN a ELSE b
Decay(ty) == CASE isarray(ty) -> ptr(ty.type) [] isfunc(ty) -> ptr(ty) [] OTHER -> ty

\* The result of an operator must be one of its type, unless the type is unsigned.
Result(w, ty, n) == Unless(~Fits(ty, n) /\ (~isunsigned(ty) \/ ty.size = 4), Given(w, Cut(ty, n), ty))
Convert(r, ty) ==
  CASE ty = voidtype -> [r EXCEPT !.ty = ty]
    [] isint(ty) \/ isenum(ty) ->
         LET to == IF isenum(ty) THEN inttype ELSE ty
         IN  Unless(~Cuts(to, r.v), Given(r.w, Cut(to, r.v), to))
    [] isptr(ty)    -> Given(r.w, r.v % 65536, ty)
    [] isstruct(ty) -> r

Abs(n) == IF n < 0 THEN -n ELSE n
Truncated(a, b) == (IF (a < 0) # (b < 0) THEN -1 ELSE 1) * (Abs(a) \div Abs(b))
\* On negative numbers the bits of the two's complement.
Masks(op, a, b) == CASE op = "&" -> a & b [] op = "|" -> a | b [] op = "^" -> a ^^ b
Bits(op, a, b) ==
  IF a >= 0 /\ b >= 0 THEN Masks(op, a, b)
  ELSE LET n == Masks(op, a % 65536, b % 65536) IN IF n < 32768 THEN n ELSE n - 65536
Narrow(a, b) == Abs(a) < 30000 /\ Abs(b) < 30000
Product(w, ty, a, b) ==
  IF Narrow(a, b) THEN Result(w, ty, a * b)
  ELSE IF ty = unsignedtype
  THEN Given(w, (((((a \div 256) * b) % 256) * 256) + ((a % 256) * b)) % 65536, ty)
  ELSE IF 0 \in {a, b} THEN Given(w, 0, ty)
  ELSE Undefined(w, ty)

Calculated(w, op, ty, a, b) ==
  CASE op = "+" -> Result(w, ty, a + b)
    [] op = "-" -> Result(w, ty, a - b)
    [] op = "*" -> Product(w, ty, a, b)
    [] op \in {"/", "%"} /\ b = 0 -> Undefined(w, ty)
    [] op = "/" /\ b # 0 -> Result(w, ty, Truncated(a, b))
    [] op = "%" /\ b # 0 -> Result(w, ty, a - b * Truncated(a, b))
    [] op \in {"&", "|", "^"} /\ ty.size = 4 /\ (a < 0 \/ b < 0) -> Undefined(w, ty)
    [] op \in {"&", "|", "^"} -> Result(w, ty, Bits(op, a, b))

\* Shifts have the type of what is shifted.
Shifted(w, op, ty, a, b) ==
  IF b \notin 0 .. 8 * ty.size - 1 \/ b > 30 THEN Undefined(w, ty)
  ELSE IF op = ">>" THEN Given(w, a \div 2 ^ b, ty)
  ELSE IF ty = unsignedtype THEN Given(w, (a % 2 ^ (16 - b)) * 2 ^ b, ty)
  ELSE IF a < 0 \/ a > HighestOf(ty) \div 2 ^ b THEN Undefined(w, ty)
  ELSE Given(w, a * 2 ^ b, ty)

Ordered(op, a, b) ==
  CASE op = "==" -> a = b [] op = "!=" -> a # b [] op = "<" -> a < b
    [] op = "<=" -> a <= b [] op = ">" -> a > b [] op = ">=" -> a >= b
Truth(w, holds) == Given(w, IF holds THEN 1 ELSE 0, inttype)
-------------------------------------------------------------------------------
\* Memory.
BytesOf(n, size) == [k \in 1 .. size |-> (n \div <<1, 256, 65536, 16777216>>[k]) % 256]
Number(bs) == FoldRight(LAMBDA b, acc : b + 256 * acc, bs, 0)
\* The highest byte carries the sign.
NumberAs(ty, bs) ==
  LET top == Last(bs)
      low == Number(Front(bs))
  IN  IF ty.op \in {"INT", "ENUM"} /\ top > 127 THEN low + (top - 256) * <<1, 256, 65536, 16777216>>[Len(bs)]
      ELSE low + top * <<1, 256, 65536, 16777216>>[Len(bs)]
Put(w, adr, bs) == [w EXCEPT !.mem = [a \in adr .. adr + Len(bs) - 1 |-> bs[a - adr + 1]] @@ @]
Zero(w, adr, size) == Put(w, adr, [k \in 1 .. size |-> 0])
Present(w, adr, size) == \A a \in adr .. adr + size - 1 : a \in DOMAIN w.mem
Get(w, adr, size) == [k \in 1 .. size |-> w.mem[adr + k - 1]]
\* Unsigned numbers of four bytes must stay below 2^31.
TooLarge(ty, bs) == Len(bs) = 4 /\ isunsigned(ty) /\ bs[4] > 127
Load(d) ==
  LET size == SizeIn(d.w, d.ty)
  IN  IF ~Present(d.w, d.adr, size) THEN Undefined(d.w, d.ty)
      ELSE IF isstruct(d.ty) THEN Given(d.w, Get(d.w, d.adr, size), d.ty)
      ELSE IF TooLarge(d.ty, Get(d.w, d.adr, size)) THEN Undefined(d.w, d.ty)
      ELSE Given(d.w, NumberAs(d.ty, Get(d.w, d.adr, size)), IF isenum(d.ty) THEN inttype ELSE d.ty)
StoreAt(d, r) ==
  [r EXCEPT !.w = Put(@, d.adr, IF isstruct(r.ty) THEN r.v ELSE BytesOf(r.v, SizeIn(@, d.ty)))]
\* The value of what stands for an object or a function.
Rvalue(d) == IF isarray(d.ty) \/ isfunc(d.ty) THEN Given(d.w, d.adr, Decay(d.ty)) ELSE Load(d)
-------------------------------------------------------------------------------
\* What an expression is worth and what it stands for, what a type is, what a statement and a
\* call do: all of it is Mean.
RECURSIVE Mean(_, _, _)
Ev(w, e)          == Mean("value", w, e)
Designate(w, e)   == Mean("object", w, e)
Resolve(w, t)     == Mean("type", w, t)
Exec(w, st)       == Mean("statement", w, st)
Calling(w, f, vs) == Mean("call", w, [f |-> f, vs |-> vs])
Declare(w, d)     == Mean("declaration", w, d)
Define(w, o)      == Mean("definition", w, o)
\* The initial values items for an object, for the parts of one.
Fill(w, adr, ty, items) == Mean("fill", w, [adr |-> adr, ty |-> ty, items |-> items])
Slots(w, parts, items)  == Mean("parts", w, [parts |-> parts, items |-> items])
\* The arguments es, those before them being worth vs.
Passing(w, f, es, vs) == Mean("arguments", w, [f |-> f, es |-> es, vs |-> vs])

\* The type of an expression is that of its value; what it does is forgotten, and nothing is
\* called for it.
Denotes(e) == e.k \in {"var", "index", "dot", "arrow", "text"} \/ (e.k = "un" /\ e.op = "*")
TypeHere(w, e) ==
  IF e.k = "var" /\ Known(w, e.name) /\ Find(w, e.name).b = "const" THEN inttype
  ELSE IF Denotes(e) THEN Designate(w, e).ty ELSE Ev(w, e).ty
TypeOf(w, e) == TypeHere([w EXCEPT !.typing = TRUE], e)

\* A member of the structure at an address.
FieldOf(w, ty, name) == LET fs == w.records[ty.tag].fields IN fs[CHOOSE k \in DOMAIN fs : fs[k].name = name]
MemberAt(d, name) == LET f == FieldOf(d.w, d.ty, name) IN AtAddress(d.w, d.adr + f.offset, f.type)
Pointed(r) == AtAddress(r.w, r.v, r.ty.type)

\* Sums and differences with pointers, and of integers.
Times(w, p) == SizeIn(w, p.ty.type)
Added(w, op, a, b) ==
  CASE isptr(a.ty) /\ isint(b.ty) -> Given(w, (a.v + (IF op = "+" THEN 1 ELSE -1) * b.v * Times(w, a)) % 65536, a.ty)
    [] isint(a.ty) /\ isptr(b.ty) -> Given(w, (b.v + a.v * Times(w, b)) % 65536, b.ty)
    [] isptr(a.ty) /\ isptr(b.ty) -> Unless(a.v < b.v, Given(w, Truncated(a.v - b.v, Times(w, a)), longtype))
OnNumbers(op, l, r) ==
  IF op \in {"==", "!=", "<", "<=", ">", ">="} THEN Truth(r.w, Ordered(op, l.v, r.v))
  ELSE Calculated(r.w, op, r.ty, l.v, r.v)
Second(op, l, b) == OnNumbers(op, l, Convert([b EXCEPT !.w = l.w], l.ty))
Usual(w, op, a, b) == Second(op, Convert([a EXCEPT !.w = w], Common(a.ty, b.ty)), b)
Combine(w, op, a, b) ==
  CASE op \in {"<<", ">>"} -> LET l == Convert([a EXCEPT !.w = w], Promotion(a.ty)) IN Shifted(l.w, op, l.ty, l.v, b.v)
    [] op \in {"+", "-"} /\ (isptr(a.ty) \/ isptr(b.ty)) -> Added(w, op, a, b)
    [] op \in {"==", "!=", "<", "<=", ">", ">="} /\ (isptr(a.ty) \/ isptr(b.ty)) -> Truth(w, Ordered(op, a.v, b.v))
    [] OTHER -> Usual(w, op, a, b)

Both(w, op, a, bx) == LET b == Ev(w, bx) IN Combine(b.w, op, a, b)
Short(op, a, bx) ==
  IF (a.v # 0) = (op = "||") THEN Truth(a.w, op = "||") ELSE LET b == Ev(a.w, bx) IN Truth(b.w, b.v # 0)
\* Assignments: the value is the one stored.
Assign(d, r) == StoreAt(d, Convert(r, d.ty))
Update(d, op, bx) == LET a == Load(d) IN Assign(d, Both(a.w, op, a, bx))
\* x++
Kept(new, old) == Given(new.w, old.v, old.ty)
After(d, old, op) == Kept(Assign(d, Combine(old.w, op, old, Given(old.w, 1, inttype))), old)

\* The type of a conditional expression.
ArmType(a, b) ==
  IF isint(a) /\ isint(b) THEN Common(a, b) ELSE IF isptr(a) THEN a ELSE b
Chosen(test, x, y) == Convert(Ev(test.w, IF test.v # 0 THEN x ELSE y), Decay(ArmType(TypeOf(test.w, x), TypeOf(test.w, y))))

Unary(op, a) ==
  LET p == Convert(a, Promotion(a.ty))
  IN  CASE op = "-" -> Result(p.w, p.ty, -p.v)
        [] op = "+" -> p
        [] op = "~" -> IF p.ty.size = 4 /\ isunsigned(p.ty) THEN Undefined(p.w, p.ty) ELSE Given(p.w, Cut(p.ty, -p.v - 1), p.ty)

Linked(w, name, ty) == LET in == Link(w, name) IN AtAddress(in, in.linked[name], ty)
Bound(w, name, b) == IF b.b = "linked" THEN Linked(w, name, b.ty) ELSE AtAddress(w, b.n, b.ty)
Spelled(w, chars) ==
  IF chars \in DOMAIN w.strings THEN w
  ELSE Put([w EXCEPT !.strings = (chars :> w.next) @@ @, !.next = @ + RoomOf], w.next, chars)
TextAt(w, chars) == AtAddress(w, w.strings[chars], array(chartype, Len(chars)))
\* (x = y).f, too: structures are objects wherever they come from.
Object(w, e) ==
  CASE e.k = "var" /\ Known(w, e.name)  -> Bound(w, e.name, Find(w, e.name))
    [] e.k = "var" /\ ~Known(w, e.name) -> Linked(w, e.name, func(inttype, <<>>, TRUE))
    [] e.k = "text"  -> TextAt(Spelled(w, e.str), e.str)
    [] e.k = "index" -> LET a == Ev(w, e.kids[1]) IN Pointed(Both(a.w, "+", a, e.kids[2]))
    [] e.k = "dot"   -> MemberAt(Designate(w, e.kids[1]), e.name)
    [] e.k = "arrow" -> MemberAt(Pointed(Ev(w, e.kids[1])), e.name)
    [] e.k = "un"    -> Pointed(Ev(w, e.kids[1]))
    [] e.k = "asg"   -> Designate(Ev(w, e).w, e.kids[1])
    [] e.k = "comma" -> Designate(Ev(w, e.kids[1]).w, e.kids[2])

Stepping(d, op) == LET a == Load(d) IN Assign(d, Combine(a.w, op, a, Given(a.w, 1, inttype)))
PostStepping(d, op) == After(d, Load(d), op)
Negation(a) == Truth(a.w, a.v = 0)
AddressIn(d) == Given(d.w, d.adr, ptr(d.ty))
IsConstant(w, e) == e.k = "var" /\ Known(w, e.name) /\ Find(w, e.name).b = "const"
Measured(w, r) == Given(r.w, SizeIn(r.w, r.ty), unsignedlong)

Value(w, e) ==
  CASE e.k = "num" -> Given(w, e.n, e.ty)
    [] IsConstant(w, e) -> Given(w, Find(w, e.name).n, inttype)
    [] Denotes(e) /\ ~IsConstant(w, e) -> Rvalue(Designate(w, e))
    [] e.k = "un" /\ e.op = "&" -> AddressIn(Designate(w, e.kids[1]))
    [] e.k = "un" /\ e.op = "!" -> Negation(Ev(w, e.kids[1]))
    [] e.k = "un" /\ e.op \in {"++", "--"} -> Stepping(Designate(w, e.kids[1]), IF e.op = "++" THEN "+" ELSE "-")
    [] e.k = "un" /\ e.op \in {"+", "-", "~"} -> Unary(e.op, Ev(w, e.kids[1]))
    [] e.k = "post" -> PostStepping(Designate(w, e.kids[1]), IF e.op = "++" THEN "+" ELSE "-")
    [] e.k = "bin" /\ e.op \in {"&&", "||"} -> Short(e.op, Ev(w, e.kids[1]), e.kids[2])
    [] e.k = "bin" /\ e.op \notin {"&&", "||"} -> LET a == Ev(w, e.kids[1]) IN Both(a.w, e.op, a, e.kids[2])
    [] e.k = "asg" /\ e.op = "" -> LET d == Designate(w, e.kids[1]) IN Assign(d, Ev(d.w, e.kids[2]))
    [] e.k = "asg" /\ e.op # "" -> Update(Designate(w, e.kids[1]), e.op, e.kids[2])
    [] e.k = "cond"  -> Chosen(Ev(w, e.kids[1]), e.kids[2], e.kids[3])
    [] e.k = "comma" -> Ev(Ev(w, e.kids[1]).w, e.kids[2])
    [] e.k = "cast"  -> LET r == Resolve(w, e.ty) IN Convert(Ev(r.w, e.kids[1]), r.ty)
    [] e.k = "sizeof" /\ e.kids = <<>> -> Measured(w, Resolve(w, e.ty))
    [] e.k = "sizeof" /\ e.kids # <<>> -> Measured(w, [w |-> w, ty |-> TypeOf(w, e.kids[1])])
    [] e.k = "call"  -> LET f == Ev(w, e.kids[1]) IN Passing(f.w, f, Tail(e.kids), <<>>)

\* Calls: the arguments as the prototype says, or promoted.
ArgumentType(fty, j, ty) ==
  IF fty.oldstyle \/ j > Len(fty.proto) \/ fty.proto[j] = voidtype THEN (IF isint(ty) THEN Promotion(ty) ELSE ty)
  ELSE fty.proto[j]
Arguments(w, f, es, vs) ==
  IF es = <<>> THEN Calling(w, f, vs)
  ELSE LET r == Ev(w, es[1])
           a == Convert(r, ArgumentType(f.ty.type, Len(vs) + 1, r.ty))
       IN  Passing(a.w, f, Tail(es), Append(vs, [v |-> a.v, ty |-> a.ty]))

NamesAt(w, adr) == {name \in DOMAIN w.linked : w.linked[name] = adr}
\* A place for a variable of the scope entered last.
Fresh(w, name, ty) == [Bind(w, name, Binding("object", ty, w.next)) EXCEPT !.next = @ + RoomOf]
Parameter(w, p, a) ==
  LET r  == Resolve(w, p.t)
      ty == Decay(r.ty)
  IN  StoreAt(AtAddress(Fresh(r.w, p.name, ty), r.w.next, ty), Convert(Given(Fresh(r.w, p.name, ty), a.v, a.ty), ty)).w
Parameters(w, ps, vs) == FoldLeft(LAMBDA acc, j : IF acc.ok THEN Parameter(acc, ps[j], vs[j]) ELSE acc, w, [j \in DOMAIN ps |-> j])

\* Back where the call was.
Finished(w, in, ty) ==
  LET back == [in EXCEPT !.scopes = <<@[1]>> \o Tail(w.scopes), !.in = w.in, !.count = w.count, !.ret = w.ret]
  IN  IF ty = voidtype THEN Given(back, 0, ty)
      ELSE IF ~in.ret.how THEN Undefined(back, ty)
      ELSE Convert(Given(back, in.ret.v, in.ret.ty), ty)
NotYet == [how |-> FALSE, v |-> 0, ty |-> NoType]
Begin(w, name) == [Enter(w) EXCEPT !.scopes = <<w.scopes[1], @[Len(@)]>>, !.in = name, !.count = 0, !.ret = NotYet]
Run(w, name, fn, vs, ty) ==
  Finished(w, Exec(Parameters(Begin(w, name), fn.t.params, vs), Block(fn.decls, fn.body)), ty)
Call(w, f, vs) ==
  LET names == NamesAt(w, f.v) \intersect DOMAIN w.functions
      name  == CHOOSE x \in names : TRUE
  IN  IF w.typing \/ names = {} THEN Undefined(w, f.ty.type.type)
      ELSE Run(w, name, w.functions[name], vs, f.ty.type.type)
-------------------------------------------------------------------------------
\* Types: what a structure or an enumeration defines is known from there on.
Laid(w, kind, ms) ==
  FoldLeft(LAMBDA acc, m :
             LET r   == Resolve(acc.w, m.t)
                 off == IF kind = "union" THEN 0 ELSE acc.size
                 end == off + SizeIn(r.w, r.ty)
             IN  [w |-> r.w, size |-> Max({acc.size, end}),
                  fields |-> Append(acc.fields, [name |-> m.name, type |-> r.ty, offset |-> off])],
           [w |-> w, size |-> 0, fields |-> <<>>], ms)
RecordOp(kind) == IF kind = "union" THEN "UNION" ELSE "STRUCT"
NewRecord(w, kind, tag) ==
  LET ty == Tagged(RecordOp(kind), Len(w.records) + 1)
      in == [w EXCEPT !.records = Append(@, [size |-> 0, fields |-> <<>>])]
  IN  [w |-> IF tag = "" THEN in ELSE BindTag(in, tag, ty), ty |-> ty]
TagHere(w, tag) == tag # "" /\ tag \in DOMAIN w.scopes[Here(w)].tags
TagOf(w, tag) == w.scopes[Max(Tags(w, tag))].tags[tag]
Contents(r, kind, ms) ==
  LET at == Laid(r.w, kind, ms)
  IN  [w |-> [at.w EXCEPT !.records[r.ty.tag] = [size |-> at.size, fields |-> at.fields]], ty |-> r.ty]
Record(w, t) ==
  IF t.whole THEN Contents(IF TagHere(w, t.tag) THEN [w |-> w, ty |-> TagOf(w, t.tag)] ELSE NewRecord(w, t.op, t.tag), t.op, t.members)
  ELSE IF Tags(w, t.tag) # {} THEN [w |-> w, ty |-> TagOf(w, t.tag)]
  ELSE NewRecord(w, t.op, t.tag)

Constants(w, ty, ms) ==
  FoldLeft(LAMBDA acc, m :
             LET n == IF m.e = NoEx THEN acc.n + 1 ELSE Ev(acc.w, m.e).v
             IN  [w |-> Bind(acc.w, m.name, Binding("const", ty, n)), n |-> n],
           [w |-> w, n |-> -1], ms).w
Enumeration(w, t) ==
  IF ~t.whole THEN [w |-> w, ty |-> TagOf(w, t.tag)]
  ELSE LET ty == Tagged("ENUM", 0)
       IN  [w |-> Constants(IF t.tag = "" THEN w ELSE BindTag(w, t.tag, ty), ty, t.members), ty |-> ty]

With(r, F(_)) == [w |-> r.w, ty |-> F(r.ty)]
Prototype(w, t) ==
  FoldLeft(LAMBDA acc, p : LET r == Resolve(acc.w, p.t) IN [w |-> r.w, ty |-> Append(acc.ty, Decay(r.ty))],
           [w |-> w, ty |-> <<>>], t.params)
FunctionType(w, t, r) ==
  LET in == Prototype(Enter(r.w), t)
  IN  [w |-> [in.w EXCEPT !.scopes = Front(@)], ty |-> func(r.ty, in.ty, ~t.proto)]
TypeNamed(w, t) ==
  CASE t.op = "BASE"    -> [w |-> w, ty |-> t.ty]
    [] t.op = "SAME"    -> [w |-> w, ty |-> w.same]
    [] t.op = "ALIAS"   -> [w |-> w, ty |-> Find(w, t.name).ty]
    [] t.op = "POINTER" -> With(Resolve(w, t.type), ptr)
    [] t.op = "ARRAY"   -> With(Resolve(w, t.type), LAMBDA ty : array(ty, IF t.n = NoEx THEN 0 ELSE Ev(w, t.n).v))
    [] t.op = "FN"      -> FunctionType(w, t, Resolve(w, t.type))
    [] t.op \in {"struct", "union"} -> Record(w, t)
    [] t.op = "enum"    -> Enumeration(w, t)
-------------------------------------------------------------------------------
\* Initial values. Items are used up by the parts of an aggregate in their order; without
\* braces of its own a part takes as many as it needs: [w, rest].
Used(w, rest) == [w |-> w, rest |-> rest]
Item(i) == IF i.i = "list" THEN i.items[1].e ELSE i.e
IsChars(ty) == isarray(ty) /\ isint(ty.type) /\ ty.type.size = 1
IsText(ty, i) == IsChars(ty) /\ (IF i.i = "list" THEN i.items # <<>> /\ i.items[1].i = "e" /\ i.items[1].e.k = "text" ELSE i.e.k = "text")
Chars(ty, cs) == IF ty.n > 0 /\ Len(cs) > ty.n THEN SubSeq(cs, 1, ty.n) ELSE cs
PartsOf(w, adr, ty) ==
  CASE ty.op = "STRUCT" -> LET fs == w.records[ty.tag].fields IN [k \in DOMAIN fs |-> [adr |-> adr + fs[k].offset, ty |-> fs[k].type]]
    [] ty.op = "UNION"  -> <<[adr |-> adr + 0, ty |-> w.records[ty.tag].fields[1].type]>>
    [] isarray(ty)      -> [k \in 1 .. ty.n |-> [adr |-> adr + (k - 1) * SizeIn(w, ty.type), ty |-> ty.type]]
Each(w, parts, items) ==
  IF parts = <<>> \/ items = <<>> THEN Used(w, items)
  ELSE LET one == Fill(w, parts[1].adr, parts[1].ty, items) IN Slots(one.w, Tail(parts), one.rest)
Filled(w, adr, ty, items) ==
  LET i == items[1]
  IN  IF isscalar(ty) THEN Used(Assign(AtAddress(w, adr, ty), Ev(w, Item(i))).w, Tail(items))
      ELSE IF IsText(ty, i) THEN Used(Put(w, adr, Chars(ty, Item(i).str)), Tail(items))
      ELSE IF i.i = "list" THEN Used(Slots(w, PartsOf(w, adr, ty), i.items).w, Tail(items))
      ELSE Slots(w, PartsOf(w, adr, ty), items)

\* How many elements an array gets that does not say.
RECURSIVE Array(_, _, _, _, _)
Array(w, adr, ty, items, k) ==
  IF items = <<>> THEN k ELSE Array(w, adr, ty, Fill(w, adr, ty, items).rest, k + 1)
LengthOf(w, ty, i) ==
  IF IsText(ty, i) THEN Len(Item(i).str) ELSE Array(w, w.next, ty.type, i.items, 0)
Complete(w, ty, i) == IF isarray(ty) /\ ty.n = 0 /\ i.i # "none" THEN array(ty.type, LengthOf(w, ty, i)) ELSE ty

\* The value of the object at adr; that of a structure may be another structure.
Initial(w, adr, ty, i) ==
  CASE i.i = "none" -> w
    [] i.i = "e" /\ isstruct(ty) -> Assign(AtAddress(w, adr, ty), Ev(w, i.e)).w
    [] OTHER -> Fill(IF isscalar(ty) THEN w ELSE Zero(w, adr, SizeIn(w, ty)), adr, ty, <<i>>).w
-------------------------------------------------------------------------------
\* Declarations.
\* A name is seen by other files unless it was first declared static.
Inward(w, class, name) ==
  IF class = "static" /\ name \notin DOMAIN w.linked THEN [w EXCEPT !.internal = @ \union {name}] ELSE w
Shared(w, name, ty, i, extern) ==
  LET in  == Link(Bind(w, name, Binding("linked", ty, 0)), name)
      adr == in.linked[name]
  IN  IF i.i # "none" THEN [Initial(in, adr, ty, i) EXCEPT !.pending = @ \ {name}, !.given = @ \union {name}]
      ELSE IF extern \/ isfunc(ty) \/ name \in w.given THEN in ELSE [in EXCEPT !.pending = @ \union {name}]
Merged(w, name, ty) ==
  IF name \in DOMAIN w.scopes[Here(w)].ids THEN compose(ty, w.scopes[Here(w)].ids[name].ty) ELSE ty
StaticOne(w, name, ty, i) ==
  LET key == <<w.in, w.count>>
      in  == Static(w, key)
      b   == Bind(in, name, Binding("object", ty, in.statics[key]))
  IN  IF key \in DOMAIN w.statics THEN b ELSE Initial(Zero(b, in.statics[key], SizeIn(b, ty)), in.statics[key], ty, i)
AutoOne(w, name, ty, i) == Initial(Fresh(w, name, ty), w.next, ty, i)

Declaring(w, class, name, ty, i) ==
  CASE class = "typedef" -> Bind(w, name, Binding("type", ty, 0))
    [] class # "typedef" /\ (Here(w) = 1 \/ class = "extern" \/ isfunc(ty)) ->
         Shared(Inward(w, class, name), name, Merged(w, name, ty), i, class = "extern")
    [] class = "static" /\ Here(w) > 1 /\ ~isfunc(ty) -> StaticOne(w, name, ty, i)
    [] OTHER -> AutoOne(w, name, ty, i)
Counted(w) == [w EXCEPT !.count = @ + 1]
OneOf(w, class, d) ==
  LET r == Resolve(w, d.t) IN Declaring(Counted(r.w), class, d.name, Complete(r.w, r.ty, d.init), d.init)
\* A tag by itself is a new one in this scope.
Specified(w, d) ==
  IF d.ds = <<>> /\ d.t.op \in {"struct", "union"} /\ ~d.t.whole /\ ~TagHere(w, d.t.tag)
  THEN NewRecord(w, d.t.op, d.t.tag) ELSE Resolve(w, d.t)
Declared(w, d) ==
  LET r == Specified(w, d)
  IN  FoldLeft(LAMBDA acc, one : OneOf([acc EXCEPT !.same = r.ty], d.class, one), r.w, d.ds)

Returning(w, r) == [r.w EXCEPT !.ret = [how |-> TRUE, v |-> r.v, ty |-> r.ty]]
Scoped(w, st) ==
  LET in  == FoldLeft(LAMBDA acc, d : IF acc.ok THEN Declare(acc, d) ELSE acc, Enter(w), st.decls)
      out == FoldLeft(LAMBDA acc, one : Exec(acc, one), in, st.body)
  IN  [out EXCEPT !.scopes = Front(@)]
Done(w, st) ==
  CASE w.ret.how \/ ~w.ok \/ st.s = "empty" -> w
    [] OTHER -> CASE st.s = "expr"   -> Ev(w, st.e).w
                  [] st.s = "return" -> IF st.e = NoEx THEN Returning(w, Given(w, 0, voidtype)) ELSE Returning(w, Ev(w, st.e))
                  [] st.s = "block"  -> Scoped(w, st)

\* The definition of a function.
Defining(w, o) ==
  LET r == Resolve(w, o.t)
  IN  [Link(Bind(Inward(r.w, o.class, o.name), o.name, Binding("linked", Merged(r.w, o.name, r.ty), 0)), o.name)
         EXCEPT !.functions = (o.name :> o) @@ @]

Mean(what, w, x) ==
  CASE what = "value"     -> Value(w, x)
    [] what = "object"    -> Object(w, x)
    [] what = "type"      -> TypeNamed(w, x)
    [] what = "statement" -> Done(w, x)
    [] what = "call"      -> Call(w, x.f, x.vs)
    [] what = "arguments" -> Arguments(w, x.f, x.es, x.vs)
    [] what = "declaration" -> Declared(w, x)
    [] what = "definition"  -> Defining(w, x)
    [] what = "fill"      -> Filled(w, x.adr, x.ty, x.items)
    [] what = "parts"     -> Each(w, x.parts, x.items)
-------------------------------------------------------------------------------
\* A file: its declarations, then room for what has no value, then main().
World ==
  [ok |-> TRUE, mem |-> <<>>, next |-> RoomOf, scopes |-> <<>>, records |-> <<>>, linked |-> <<>>, statics |-> <<>>,
   strings |-> <<>>, functions |-> <<>>, pending |-> {}, given |-> {},
   internal |-> {}, in |-> "", count |-> 0, ret |-> NotYet, same |-> NoType, typing |-> FALSE]
Read(w, o) ==
  CASE ~w.ok \/ o.x = "none"  -> w
    [] w.ok /\ o.x = "decl"   -> Declare(w, o.d)
    [] w.ok /\ o.x = "fun"    -> Define(w, o)
Zeroed(w, name) ==
  LET ty == w.scopes[1].ids[name].ty
  IN  Zero(w, w.linked[name], IF isarray(ty) /\ ty.n = 0 THEN SizeIn(w, ty.type) ELSE SizeIn(w, ty))
Loaded(os) ==
  LET w == FoldLeft(Read, Enter(World), os) IN FoldLeft(Zeroed, w, SetToSeq(w.pending))
MainFunction(w) == [v |-> w.linked["main"], ty |-> ptr(func(inttype, <<>>, FALSE))]
RunMain(w) == Calling(w, MainFunction(w), <<>>).w

\* The names this file defines for others.
Exports(w) == (DOMAIN w.functions \union w.pending \union w.given) \ w.internal

\* The numbers an object is made of, by offset and size; addresses and unions left out.
RECURSIVE Scalars(_, _, _)
Scalars(w, ty, off) ==
  CASE isint(ty) \/ isenum(ty) -> {<<off, SizeIn(w, ty)>>}
    [] isarray(ty)  -> UNION {Scalars(w, ty.type, off + k * SizeIn(w, ty.type)) : k \in 0 .. Max({ty.n, 1}) - 1}
    [] ty.op = "STRUCT" -> UNION {Scalars(w, f.type, off + f.offset) : f \in ToSet(w.records[ty.tag].fields)}
    [] OTHER -> {}
\* What every variable of the file holds, where it holds something.
Contained(w) ==
  LET ids  == w.scopes[1].ids
      Vars == {name \in DOMAIN ids : ids[name].b = "linked" /\ ~isfunc(ids[name].ty)}
      Cells(name) == {c \in Scalars(w, ids[name].ty, 0) : Present(w, w.linked[name] + c[1], c[2])}
  IN  [name \in Vars |-> {<<c[1], Get(w, w.linked[name] + c[1], c[2])>> : c \in Cells(name)}]
===============================================================================
