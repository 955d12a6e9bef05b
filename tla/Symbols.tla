-------------------------------- MODULE Symbols --------------------------------
(***************************************************************************)
(* The state of the front end of lcc while it reads a source file: the     *)
(* tokens with one token of lookahead, the scopes of identifiers and tags  *)
(* (lcc/src/sym.c), and what has been written to the assembly file.        *)
(*                                                                         *)
(* A state is a record s:                                                  *)
(*   toks, i, tsym  the tokens, the one looked at, and the identifier it   *)
(*                  was found to be when it was read (0 for none)          *)
(*   level          GLOBAL, PARAM, LOCALS and up, as blocks are entered     *)
(*   ids            every identifier ever installed; one whose scope has   *)
(*                  been left has scope NoScope                            *)
(*   externals      functions and variables only blocks have declared      *)
(*   types          the tags, in the same way                              *)
(*   structs        what structures, unions and enumerations contain       *)
(*   strings        the string constants                                   *)
(*   needconst      whether an expression must be constant                 *)
(*   out            the data, as directives of the assembler               *)
(*   locals, code   of the function read: its variables, and the trees     *)
(*                  handed to the back end                                 *)
(***************************************************************************)
EXTENDS Nodes

NoScope == 0
GLOBAL == 3
PARAM == 4
LOCALS == 5

\* A token: a keyword or a punctuator is its own kind; ID, ICON and SCON have a name, a
\* number with its type, the characters.
Token(k, name, n, ty, str) == [k |-> k, name |-> name, n |-> n, ty |-> ty, str |-> str]
Word(k) == Token(k, "", 0, NoType, <<>>)
EOI == Word("EOI")

\* A symbol: x is its name in the assembly file, n the value of an enumeration constant,
\* or the number of a structure.
Sym(name, scope, sclass, ty, x, n) ==
  [name |-> name, scope |-> scope, sclass |-> sclass, type |-> ty, x |-> x, n |-> n, defined |-> FALSE]

\* A directive of the assembly file.
Line(d, name, n, size, str) == [d |-> d, name |-> name, n |-> n, size |-> size, str |-> str]
Put(s, line) == [s EXCEPT !.out = Append(@, line)]

\* lookup(): the innermost symbol of a name that is in scope, the last one installed there.
\* A table holds symbols of many scopes; 0 if there is none.
Visible(tab, name) == {k \in DOMAIN tab : tab[k].name = name /\ tab[k].scope # NoScope}
lookup(tab, name) ==
  LET seen  == Visible(tab, name)
      scope == Max({tab[k].scope : k \in seen})
  IN  IF seen = {} THEN 0 ELSE Max({k \in seen : tab[k].scope = scope})

\* lookup(id, globals), whatever hides it.
Globally(s, name) == Max({0} \union {k \in Visible(s.ids, name) : s.ids[k].scope = GLOBAL})

Tok(s) == s.toks[s.i]
T(s) == Tok(s).k
Ahead(s) == IF s.i < Len(s.toks) THEN s.toks[s.i + 1].k ELSE "EOI"

\* The next token; what an identifier stands for is looked up now.
gettok(s) ==
  LET next == s.toks[s.i + 1]
  IN  [s EXCEPT !.i = @ + 1, !.tsym = IF next.k = "ID" THEN lookup(s.ids, next.name) ELSE 0]

\* The sources are legal programs: the token expected is there.
expect(s, k) == CASE T(s) = k -> gettok(s)

CharKind == {"char", "short", "int", "unsigned", "void", "struct", "union", "enum", "long", "signed"}
StaticKind == {"auto", "extern", "register", "static", "typedef"}
istypename(s) == T(s) \in CharKind \/ (T(s) = "ID" /\ s.tsym # 0 /\ s.ids[s.tsym].sclass = "typedef")

enterscope(s) == [s EXCEPT !.level = @ + 1]

\* A table whose symbols of a scope are left. (The concatenation makes TLC keep a sequence, to
\* which it can append what EXCEPT has changed.)
Left(tab, scope) ==
  <<>> \o [k \in DOMAIN tab |-> IF tab[k].scope = scope THEN [tab[k] EXCEPT !.scope = NoScope] ELSE tab[k]]

\* What was installed at this level goes out of scope.
exitscope(s) ==
  [s EXCEPT !.ids = Left(@, s.level), !.types = Left(@, s.level), !.level = @ - 1]

install(s, sym) == [s EXCEPT !.ids = Append(@, sym)]
installtype(s, tag, ty) == [s EXCEPT !.types = Append(@, Sym(tag, s.level, "", ty, "", 0))]

\* defsymbol(): a static variable of a block gets a name of its own, so that two blocks may
\* use one; the place in the source stands for the number.
DefName(s, name, scope, sclass) ==
  IF scope >= LOCALS /\ sclass # "extern" THEN name \o "#" \o ToString(s.i) ELSE name

\* relocate(): a symbol only blocks knew becomes a global one.
relocate(s, k) ==
  [s EXCEPT !.ids = Append(@, [s.externals[k] EXCEPT !.scope = GLOBAL]), !.externals = RemoveAt(@, k)]

\* The symbol an extern of a block stands for.
alias(s, name) ==
  LET g == Globally(s, name)
  IN  IF g # 0 /\ s.ids[g].sclass \notin {"typedef", "enum"} THEN s.ids[g]
      ELSE s.externals[lookup(s.externals, name)]

\* constant() and genident(): equal strings are one.
StringName(k) == "string" \o ToString(k)
constant(s, str) ==
  IF Contains(s.strings, str) THEN s ELSE [s EXCEPT !.strings = Append(@, str)]
StringLabel(s, str) == StringName(CHOOSE k \in DOMAIN s.strings : s.strings[k] = str)

\* What an identifier is in an expression: its address, or its value (idtree).
Leaf(x, op, ty) == [name |-> x, op |-> op, type |-> ty]
SymbolLeaf(s, p) ==
  CASE p.scope = GLOBAL \/ p.sclass = "static" -> Leaf(p.x, "ADDRG", p.type)
    [] p.scope = PARAM -> Leaf(p.x, "ADDRF", p.type)
    [] p.scope > PARAM /\ p.sclass = "extern" -> Leaf(alias(s, p.name).x, "ADDRG", alias(s, p.name).type)
    [] p.scope > PARAM /\ p.sclass \in {"auto", "register"} -> Leaf(p.x, "ADDRL", p.type)

\* newstruct(): a tag of this scope that has no contents yet is completed, any other is new.
Undeclared(s, op, tag) ==
  LET k == lookup(s.types, tag)
      p == s.types[k]
  IN  \/ k = 0
      \/ ~(p.scope = s.level \/ (p.scope = PARAM /\ s.level = PARAM + 1))
newstruct(s, op, tag) ==
  LET number == Len(s.structs) + 1
      ty     == Tagged(op, number)
  IN  IF tag # "" /\ ~Undeclared(s, op, tag) THEN [s |-> s, ty |-> s.types[lookup(s.types, tag)].type]
      ELSE [s |-> installtype([s EXCEPT !.structs = Append(@, [op |-> op, size |-> 0, fields |-> <<>>])],
                              IF tag = "" THEN ToString(number) ELSE tag, ty),
            ty |-> ty]

\* The front end at the first token of a source.
Start(toks) ==
  LET s == [toks |-> toks \o <<EOI, EOI>>, i |-> 0, tsym |-> 0, level |-> GLOBAL, ids |-> <<>>,
            externals |-> <<>>, types |-> <<>>, structs |-> <<>>, strings |-> <<>>, needconst |-> FALSE,
            out |-> <<>>, locals |-> <<>>, code |-> <<>>]
  IN  gettok(s)
-------------------------------------------------------------------------------
\* What is written to the assembly file.
Space(s, n) == IF n > 0 THEN Put(s, Line("skip", "", n, 0, <<>>)) ELSE s
defstring(s, str) == Put(s, Line("ascii", "", 0, 0, str))

\* defglobal(): a label in a section of its own, known to other files unless it is static.
defglobal(s, x, static) ==
  LET in == Put(s, Line("label", x, 0, 0, <<>>)) IN IF static THEN in ELSE Put(in, Line("export", x, 0, 0, <<>>))

\* What has been read of a value: the state, its type and its size in bytes.
Initial(s, ty, n) == [s |-> s, ty |-> ty, n |-> n]

\* genconst(): an address stays what it is, whatever it is converted to.
RECURSIVE genconst(_, _)
genconst(s, e) ==
  CASE e.op = "ADDRG" -> Initial(Put(s, Line("address", e.sym.name, e.sym.n, 2, <<>>)), e.ty, Size(s.structs, e.ty))
    [] e.op = "CNST"  -> Initial(Put(s, Line("const", "", val(e), e.size, <<>>)), e.ty, Size(s.structs, e.ty))
    [] e.op = "RIGHT" -> genconst(s, e.kids[IF Missing(e.kids[2]) THEN 1 ELSE 2])
    [] e.op \in {"CVP", "CVI", "CVU"} -> genconst(s, e.kids[1])

\* Room without a value.
Reserved(s, x, static, ty) == Space(defglobal(s, x, static), Size(s.structs, ty))
Exported(s, k) == IF s.ids[k].sclass = "static" THEN s ELSE Put(s, Line("export", s.ids[k].x, 0, 0, <<>>))

\* finalize(): what has been declared and not defined comes from another file, or is room
\* still to be reserved; the strings come last.
Import(s, p) == Put(s, Line("import", p.x, 0, 0, <<>>))
Sizeable(s, ty) == IF isarray(ty) /\ ty.n = 0 /\ Size(s.structs, ty.type) > 0 THEN array(ty.type, 1) ELSE ty
doglobal(s, p) ==
  CASE ~p.defined /\ (p.sclass = "extern" \/ (isfunc(p.type) /\ p.sclass = "auto")) -> Import(s, p)
    [] ~p.defined /\ ~isfunc(p.type) /\ p.sclass \in {"auto", "static"} ->
         Reserved(s, p.x, p.sclass = "static", Sizeable(s, p.type))
    [] OTHER -> s
doconst(s, k) == defstring(defglobal(s, StringName(k), TRUE), s.strings[k])

Globals(s) == SelectSeq(s.ids, LAMBDA p : p.scope = GLOBAL)
finalize(s) ==
  FoldLeft(LAMBDA acc, k : doconst(acc, k),
           FoldLeft(LAMBDA acc, p : doglobal(acc, p),
                    FoldLeft(LAMBDA acc, p : Import(acc, p), s, s.externals), Globals(s)),
           [k \in DOMAIN s.strings |-> k])
===============================================================================
