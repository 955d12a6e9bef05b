------------------------------ MODULE MCPreprocessor ------------------------------
(***************************************************************************)
(* What a source file stands for by the C standard, computed from its      *)
(* structure instead of its text, against what the preprocessor puts out   *)
(* for the text.                                                           *)
(*                                                                         *)
(* A file is a sequence of items: rows of text, definitions, conditionals  *)
(* with their groups, inclusions. A row is a sequence of texts of tokens,  *)
(* " " for a space. An input is the name of a family with the numbers of   *)
(* the choices made in it.                                                 *)
(***************************************************************************)
EXTENDS Preprocessor
-------------------------------------------------------------------------------
\* The items.
Rows(row) == [kind |-> "text", row |-> row]
Def(name, body) == [kind |-> "define", name |-> name, func |-> FALSE, params |-> <<>>, body |-> body]
DefF(name, params, body) == [kind |-> "define", name |-> name, func |-> TRUE, params |-> params, body |-> body]
Undefine(name) == [kind |-> "undef", name |-> name]
\* groups: a sequence of [cond, items]; the condition of an #else is Always.
Cond(text, value) == [text |-> text, value |-> value]    \* a condition of known value
IsDefined(text, name, yes) == [text |-> text, name |-> name, yes |-> yes]
Always == Cond("", TRUE)
Group(cond, items) == [cond |-> cond, items |-> items]
Conditional(groups) == [kind |-> "if", groups |-> groups]
Inclusion(file, text) == [kind |-> "include", file |-> file, text |-> text]
Renumbered(text, line, file) == [kind |-> "line", text |-> text, line |-> line, file |-> file]
Passed(text, tokens) == [kind |-> "passed", text |-> text, row |-> tokens]    \* left to the compiler
Malformed(text) == [kind |-> "malformed", text |-> text]

\* Their texts.
Join(row) == FoldLeft(LAMBDA s, t : s \o t, "", row)
Comma(names) == FoldLeft(LAMBDA s, n : IF s = "" THEN n ELSE s \o "," \o n, "", names)
RECURSIVE Source(_)
Source(items) ==
  IF items = <<>> THEN ""
  ELSE LET i == Head(items)
           Opened(k) == IF k > 1 /\ i.groups[k].cond = Always THEN "#else\n"
                        ELSE (IF k > 1 THEN "#el" ELSE "#") \o i.groups[k].cond.text \o "\n"
           Groups == FoldLeft(LAMBDA s, k : s \o Opened(k) \o Source(i.groups[k].items), "", [k \in DOMAIN i.groups |-> k])
       IN  (CASE i.kind = "text"    -> Join(i.row) \o "\n"
              [] i.kind = "define"  -> "#define " \o i.name \o (IF i.func THEN "(" \o Comma(i.params) \o ")" ELSE "")
                                         \o " " \o Join(i.body) \o "\n"
              [] i.kind = "undef"   -> "#undef " \o i.name \o "\n"
              [] i.kind = "if"      -> Groups \o "#endif\n"
              [] i.kind = "include" -> "#include " \o i.text \o "\n"
              [] i.kind \in {"line", "passed", "malformed"} -> i.text)
           \o Source(Tail(items))
-------------------------------------------------------------------------------
(* Replacing macros, by hide sets: a name made by the expansion of a macro is not expanded as that
   macro again. The standard leaves open what is hidden from a call that ends outside of the
   expansion its name came from: both answers are computed ("all", "common"). A token "open",
   "count" or "undefined" stands for what is wrong or undefined. *)
T(text, ws) == [text |-> text, ws |-> ws, hs |-> {}, line |-> 0, last |-> 0]
Wrong(text) == T(text, FALSE)
Marks(ts) == SelectSeq(ts, LAMBDA t : t.text \in {"open", "count", "undefined"})
Named(t) == Char(t.text, 1) \in Alpha
\* The tokens of a row.
Tokens(row) ==
  LET Space(k) == row[k] = " " \/ SubSeq(row[k] \o " ", 1, 2) \in {"/*", "//"}
      at == SelectSeq([k \in DOMAIN row |-> k], LAMBDA k : ~Space(k) /\ row[k] # "\\\n")
      Spaced(k) == \E j \in (IF k = 1 THEN 1 ELSE at[k - 1]) .. at[k] - 1 : Space(j)
  IN  [k \in DOMAIN at |-> T(row[at[k]], Spaced(k))]

Quoted(arg) ==
  LET Chars(t) == FoldLeft(LAMBDA s, c : s \o (IF c \in {"\"", "\\"} THEN "\\" \o c ELSE c), "", CharsOf(t.text))
      Literal(t) == Char(t.text, 1) \in {"\"", "'"}
      Piece(k) == (IF k > 1 /\ arg[k].ws THEN " " ELSE "") \o (IF Literal(arg[k]) THEN Chars(arg[k]) ELSE arg[k].text)
  IN  IF Marks(arg) # <<>> THEN Head(Marks(arg))
      ELSE IF \E k \in 2 .. Len(arg) : arg[k].ws /\ arg[k].hs # {} THEN Wrong("undefined")
      ELSE T("\"" \o FoldLeft(LAMBDA s, k : s \o Piece(k), "", [k \in DOMAIN arg |-> k]) \o "\"", FALSE)

PastedRow(a, b, row, policy) ==
  IF Marks(<<a, b>>) # <<>> THEN Head(Marks(<<a, b>>))
  ELSE IF Len(row) # 2 \/ row[1].type = "UNCLASS" THEN Wrong("undefined")
  ELSE [a EXCEPT !.text = a.text \o b.text, !.hs = IF policy = "all" THEN {} ELSE @ \intersect b.hs]
Pasted(a, b, policy) == PastedRow(a, b, Scan(a.text \o b.text, 1, FALSE, <<>>).row, policy)

\* The position of the parenthesis that closes the one in front of ts, or 0.
CloseOf(ts) ==
  LET Open(k) == 1 + Cardinality({j \in 1 .. k : ts[j].text = "("}) - Cardinality({j \in 1 .. k : ts[j].text = ")"})
      closed == {k \in DOMAIN ts : Open(k) = 0}
  IN  IF closed = {} THEN 0 ELSE Min(closed)
RECURSIVE Split(_, _, _)
Split(ts, depth, arg) ==
  IF ts = <<>> THEN <<arg>>
  ELSE LET t == Head(ts)
       IN  IF t.text = "," /\ depth = 0 THEN <<arg>> \o Split(Tail(ts), 0, <<>>)
           ELSE Split(Tail(ts), CASE t.text = "(" -> depth + 1 [] t.text = ")" -> depth - 1 [] OTHER -> depth, Append(arg, t))

RECURSIVE Expanded(_, _, _)
\* The replacement list with the arguments in the places of the parameters.
Substituted(m, args, macros, policy) ==
  LET body == m.body
      Param(k) == IF k \in DOMAIN body /\ \E j \in DOMAIN m.params : m.params[j] = body[k].text
                  THEN CHOOSE j \in DOMAIN m.params : m.params[j] = body[k].text ELSE 0
      Is(k, text) == k \in DOMAIN body /\ body[k].text = text
      Raw(k) == Is(k - 1, "##") \/ Is(k + 1, "##")
      Spaced(ts, ws) == IF ts = <<>> THEN ts ELSE [ts EXCEPT ![1].ws = ws]
      Piece(k) ==
        IF m.func /\ Is(k, "#") THEN IF Param(k + 1) = 0 THEN <<Wrong("count")>> ELSE Spaced(<<Quoted(args[Param(k + 1)])>>, body[k].ws)
        ELSE IF m.func /\ Is(k - 1, "#") THEN <<>>
        ELSE IF Param(k) = 0 THEN <<body[k]>>
        ELSE Spaced(IF Raw(k) THEN args[Param(k)] ELSE Expanded(args[Param(k)], macros, policy), body[k].ws)
      Glue(ts, new) == IF ts = <<>> \/ new = <<>> THEN <<Wrong("count")>>
                       ELSE Front(ts) \o <<Pasted(Last(ts), Head(new), policy)>> \o Tail(new)
      operands == SelectSeq([k \in DOMAIN body |-> k], LAMBDA k : ~Is(k, "##") /\ ~(m.func /\ Is(k - 1, "#")))
  IN  IF Is(1, "##") \/ Is(Len(body), "##") THEN <<Wrong("count")>>
      ELSE FoldLeft(LAMBDA ts, k : IF Is(k - 1, "##") THEN Glue(ts, Piece(k)) ELSE ts \o Piece(k), <<>>, operands)

\* A macro expanded: end is the last token of the call; all of the replacement is hidden from the macro.
Hidden(t, end, replacement, policy) ==
  LET hs == (IF policy = "all" THEN t.hs ELSE t.hs \intersect end.hs) \union {t.text}
  IN  [k \in DOMAIN replacement |->
        [replacement[k] EXCEPT !.hs = @ \union hs, !.line = t.line, !.last = Max({t.last, end.last}),
                               !.ws = IF k = 1 THEN t.ws ELSE @]]
ArgumentsOf(inner) == IF inner = <<>> THEN <<>> ELSE Split(inner, 0, <<>>)
CallExpanded(t, rest, close, m, args, macros, policy) ==
  IF Len(args) # Len(m.params) THEN <<Wrong("count")>>
  ELSE IF \E k \in DOMAIN args : args[k] = <<>> THEN <<Wrong("undefined")>>
  ELSE Expanded(Hidden(t, rest[close + 1], Substituted(m, args, macros, policy), policy)
                  \o SubSeq(rest, close + 2, Len(rest)), macros, policy)
HeadExpanded(t, rest, close, macros, policy) ==
  LET m == macros[t.text]
  IN  IF t.text = "__LINE__" THEN <<[t EXCEPT !.text = ToString(t.line)]>> \o Expanded(rest, macros, policy)
      ELSE IF \/ ~Named(t) \/ t.text \notin DOMAIN macros \/ t.text \in t.hs
              \/ m.func /\ (rest = <<>> \/ rest[1].text # "(")
      THEN <<t>> \o Expanded(rest, macros, policy)
      ELSE IF ~m.func THEN Expanded(Hidden(t, t, Substituted(m, <<>>, macros, policy), policy) \o rest, macros, policy)
      ELSE IF close = 0 THEN <<Wrong("open")>>
      ELSE CallExpanded(t, rest, close, m, ArgumentsOf(SubSeq(rest, 2, close)), macros, policy)
Expanded(ts, macros, policy) ==
  IF ts = <<>> THEN <<>> ELSE HeadExpanded(Head(ts), Tail(ts), CloseOf(SubSeq(ts, 3, Len(ts))), macros, policy)
-------------------------------------------------------------------------------
(* What the items come to: the macros defined, the tokens put out with their lines and files, and
   whether something is wrong (to be reported) or left open by the standard. *)
Texts(ts) == [k \in DOMAIN ts |-> ts[k].text]
\* The rows of text gathered in r.run are expanded; where a call goes over the end of a row their lines are lost.
Flushed(r, all, common) ==
  LET crossed == \E k \in DOMAIN all : all[k].last > all[k].line
      Has(what) == \E k \in DOMAIN all : all[k].text \in what
      Put(t) == [text |-> IF t.text = "__FILE__" THEN "\"" \o r.file \o "\"" ELSE t.text,
                 file |-> r.file, line |-> IF crossed THEN 0 ELSE t.line]
  IN  [r EXCEPT !.run = <<>>, !.out = @ \o [k \in DOMAIN all |-> Put(all[k])],
                !.wrong = @ \/ Has({"open", "count"}),
                !.open = @ \/ Has({"undefined"}) \/ Texts(all) # Texts(common)]
Flush(r) ==
  IF r.run = <<>> THEN r ELSE Flushed(r, Expanded(r.run, r.macros, "all"), Expanded(r.run, r.macros, "common"))

LinesOf(items) == Cardinality({i \in 1 .. Len(Source(items)) : Char(Source(items), i) = "\n"})
RECURSIVE Nesting(_)
Nesting(items) ==
  Max({0} \union {1 + Nesting(items[k].groups[n].items) :
                    <<k, n>> \in {q \in (DOMAIN items) \X (1 .. 4) : items[q[1]].kind = "if" /\ q[2] \in DOMAIN items[q[1]].groups}})
Holds(cond, macros) == IF "name" \in DOMAIN cond THEN (cond.name \in DOMAIN macros) = cond.yes ELSE cond.value

RECURSIVE Meaning(_, _)
Gathered(i, r) ==
  [r EXCEPT !.run = @ \o [k \in DOMAIN Tokens(i.row) |-> [Tokens(i.row)[k] EXCEPT !.line = r.line, !.last = r.line]],
            !.line = @ + LinesOf(<<i>>)]
GroupTaken(i, k, r) ==
  LET Lines(from, to) == LinesOf(<<Conditional(SubSeq(i.groups, from, to))>>)
      Rest(g) == [g EXCEPT !.line = @ + Lines(k + 1, Len(i.groups)), !.depth = r.depth]
  IN  Rest(Flush(Meaning(i.groups[k].items, [r EXCEPT !.line = @ + Lines(1, k - 1), !.depth = @ + 1])))
File(i, r) ==
  [Flush(Meaning(r.files[i.file], [r EXCEPT !.file = i.file, !.line = 1, !.included = @ + 1]))
    EXCEPT !.file = r.file, !.line = r.line + 1, !.included = r.included]
Directed(i, r) ==
  LET next == [r EXCEPT !.line = @ + LinesOf(<<i>>)]
      m == [func |-> i.func, params |-> i.params, body |-> Tokens(i.body)]
      held == {k \in DOMAIN i.groups : Holds(i.groups[k].cond, r.macros)}
      refused == i.name \in Builtins \union {"defined"} \/ (i.name \in DOMAIN r.macros /\ r.macros[i.name] # m)
  IN  CASE i.kind = "define"    -> IF refused THEN [next EXCEPT !.wrong = TRUE] ELSE [next EXCEPT !.macros = (i.name :> m) @@ @]
        [] i.kind = "undef"     -> [next EXCEPT !.macros = Restrict(@, DOMAIN @ \ {i.name})]
        [] i.kind = "if"        -> IF r.depth + Nesting(<<i>>) >= NIF THEN [r EXCEPT !.wrong = TRUE]
                                   ELSE IF held = {} THEN next ELSE GroupTaken(i, Min(held), r)
        [] i.kind = "include"   -> IF i.file \notin DOMAIN r.files \/ r.included = MaxInclude THEN [r EXCEPT !.wrong = TRUE]
                                   ELSE File(i, r)
        [] i.kind = "line"      -> [r EXCEPT !.line = i.line, !.file = IF i.file = "" THEN @ ELSE i.file]
        [] i.kind = "passed"    -> [next EXCEPT !.out = @ \o [k \in DOMAIN i.row |-> [text |-> i.row[k], file |-> r.file, line |-> r.line]]]
        [] i.kind = "malformed" -> [r EXCEPT !.wrong = TRUE]
Meaning(items, r) ==
  IF items = <<>> \/ r.wrong THEN r
  ELSE Meaning(Tail(items), IF Head(items).kind = "text" THEN Gathered(Head(items), r) ELSE Directed(Head(items), Flush(r)))

Standard(program) ==
  Flush(Meaning(program.files["main"],
    [files |-> program.files, macros |-> program.macros, out |-> <<>>, run |-> <<>>, wrong |-> FALSE, open |-> FALSE,
     file |-> "main", line |-> 1, depth |-> 0, included |-> 0]))
-------------------------------------------------------------------------------
(* What the compiler reads from the output: its tokens, and for each the file and line that the rows
   "#line" put it in. *)
RECURSIVE Read(_, _, _, _)
Read(text, at, file, line) ==
  LET s == Scan(text, at, FALSE, <<>>)
      tokens == Front(s.row)
      number == IF tokens[2].text = "line" THEN tokens[3].text ELSE tokens[2].text
      name == Last(tokens)
      Position(n) == [text |-> tokens[n].text, file |-> file, line |-> line]
  IN  IF at > Len(text) THEN <<>>
      ELSE IF tokens # <<>> /\ tokens[1].text = "#" /\ Len(tokens) > 1 /\ (tokens[2].text = "line" \/ tokens[2].type = "NUMBER")
      THEN Read(text, s.at, IF name.type = "STRING" THEN SubSeq(name.text, 2, Len(name.text) - 1) ELSE file,
                DigitsValue(number, 1, Len(number), 10))
      ELSE [n \in DOMAIN tokens |-> Position(n)] \o Read(text, s.at, file, line + 1)

SameTokens(read, meant) ==
  /\ Len(read) = Len(meant)
  /\ \A k \in DOMAIN read : /\ read[k].text = meant[k].text /\ read[k].file = meant[k].file
                            /\ meant[k].line \in {0, read[k].line}
-------------------------------------------------------------------------------
(* The families. Left out are the sources the preprocessor is known to take otherwise: the name of
   a macro with parameters at the end of an argument, or in front of a directive; the end of a line in
   an argument that is made a string, and a space in it in front of what a macro put there; operators
   of one level without parentheses; and "# 9" in a group that is skipped. *)
NoMacros == [n \in {} |-> 0]
Main(items) == [files |-> [main |-> items], options |-> <<>>, macros |-> NoMacros]

\* Macros that name each other and themselves, with the calls that come out of replacements.
BodiesOfF ==
  << <<"x">>, <<"(", "x", ")">>, <<"#", "x">>, <<"x", "##", "1">>, <<"a", "##", "x">>, <<"f", "(", "x", ")">>,
     <<"a">>, <<"a", "(", "x", ")">>, <<"x", " ", "f">>, <<"-", "x">>, <<"x", " ", "#", "x", " ", "x", "##", "x">>,
     <<"b", "(", "x", ")">>, <<"x", " ", "+", " ", "b">> >>
BodiesOfA ==
  << <<"a">>, <<"f">>, <<"b">>, <<"f", "(", "a", ")">>, <<"f", "(", "b", ")">>, <<"-">>, <<"f", " ", "(">>,
     <<"b", " ", "a">>, <<"+", "1">> >>
DefsOfB == << Def("b", <<"a">>), Def("b", <<"f">>), DefF("b", <<"y">>, <<"y", " ", "a">>), Undefine("b") >>
MacroUses ==
  << <<"a">>, <<"f", "(", "a", ")">>, <<"f", "(", "f", "(", "a", ")", ")">>, <<"a", "(", "2", ")">>,
     <<"f", "(", "b", " ", "+", "a", ")">>, <<"f", "(", "(", "a", ",", "b", ")", ")">>, <<"-", "a">>,
     <<"f", "(", "1", ")", "(", "a", ")">>, <<"b", " ", "(", "1", ")">>, <<"f", " ", "f", "(", "b", " ", "1", ")">> >>
MacroProgram(f, a, b, t) ==
  Main(<<DefF("f", <<"x">>, BodiesOfF[f]), Def("a", BodiesOfA[a]), DefsOfB[b], Rows(MacroUses[t] \o <<";">>)>>)

\* Two arguments, strings and pasting, also by way of a macro that expands them first.
BodiesOfG ==
  << <<"x", "##", "y">>, <<"#", "x", " ", "#", "y">>, <<"y", " ", "x">>, <<"g", "(", "y", ",", "x", ")">>, <<"x", "##", "y", "##", "x">>,
     <<"s", "(", "x", " ", "y", ")">>, <<"s", "(", "p", "(", "x", ",", "y", ")", ")">>, <<"p", "(", "x", ",", "y", ")">>,
     <<"p", "(", "x", ",", "b", ")", "#", "y">>, <<"s", "(", "x", "-", "y", ")">>, <<"y", "-", "x">> >>
Args ==
  << <<"a">>, <<"b">>, <<"1">>, <<"\"q\\n\"">>, <<"'\"'">>, <<"-">>, <<">">>, <<"=">>, <<"(", "1", ",", "a", ")">>,
     <<"a", " ", "b">>, <<"-", "b">>, <<"a", "-">>, <<".5e+3">> >>
ArgsProgram(g, l, r, a) ==
  Main(<<DefF("s", <<"x">>, <<"#", "x">>), DefF("p", <<"x", "y">>, <<"x", "##", "y">>), DefF("g", <<"x", "y">>, BodiesOfG[g]),
         Def("a", (<< <<"b">>, <<"-", "1">>, <<"g">> >>)[a]), Rows(<<"+", "g", "(">> \o Args[l] \o <<",">> \o Args[r] \o <<")", ";">>)>>)

\* Rows: calls over several of them, comments, folded rows, and where the tokens are afterwards.
RowsOf ==
  << <<"f", "(", "1", ")">>, <<"f", "(">>, <<"a", ")">>, <<"f">>, <<"(", "f", "(", "b">>, <<")", ")">>, <<"f", "(", "f">>,
     <<"a", "/* (\n */", "b">>, <<"a", " ", "\\\n", "b">>, <<"x", "// )">>, <<>>, <<"\"\\\\\"", " ", "'\\''">> >>
RowsProgram(one, two, three, a) ==
  Main(<<DefF("f", <<"x">>, <<"x", " ", "+", " ", "\\\n", "x">>), Def("a", (<< <<"1">>, <<"f">>, <<"f", "(">> >>)[a]),
         Rows(RowsOf[one]), Rows(RowsOf[two]), Rows(RowsOf[three]), Rows(<<")", ";">>),
         Undefine("a"), Rows(<<"a", " ", "__FILE__", " ", "__LINE__">>)>>)

\* Groups in groups, with definitions in them that later conditions ask for.
Conds(style) ==
  CASE style = 1 -> <<Cond("if 0", FALSE), Cond("if 1", TRUE)>>
    [] style = 2 -> <<IsDefined("if defined a", "a", TRUE), IsDefined("if !defined ( a ) // a", "a", FALSE)>>
    [] style = 3 -> <<IsDefined("ifdef a", "a", TRUE), IsDefined("ifndef a", "a", FALSE)>>
Marked(n) == <<Rows(<<ToString(n), " ", "a", " ", "__LINE__">>)>>
\* shape: which condition, whether #elif and #else follow; inner stands in one of the groups.
Groups(style, shape, n, inner, place) ==
  LET first == Conds(style)[1 + (shape % 2)]
      elif  == (shape \div 2) % 3
      In(k, items) == IF k = place THEN items \o inner ELSE items
  IN  Conditional(
        <<Group(first, In(1, Marked(n)))>>
        \o (IF elif = 0 THEN <<>> ELSE <<Group(Conds(IF style = 3 THEN 1 ELSE style)[elif], In(2, Marked(n + 1)))>>)
        \o (IF shape \div 6 = 0 THEN <<>> ELSE <<Group(Always, In(3, Marked(n + 2)))>>))
GroupsProgram(style, outer, inner, place) ==
  Main(<<Groups(style, outer, 10, <<Groups(1, inner, 20, <<Undefine("a"), Def("a", <<"0">>)>>, 1 + (inner % 3))>>, place)>>
       \o Marked(1) \o <<Groups(3, inner, 30, <<>>, 1)>> \o Marked(2))

\* Nesting up to the limits and beyond.
RECURSIVE Nested(_, _)
Nested(n, on) ==
  IF n = 0 THEN Marked(n) ELSE <<Conditional(<<Group(Conds(1)[on], Nested(n - 1, on)), Group(Always, Marked(n))>>)>>
Including(k) == <<Rows(<<ToString(k)>>), Inclusion(ToString(k), "\"" \o ToString(k) \o "\""), Rows(<<"__FILE__", " ", "__LINE__">>)>>
NestingProgram(ifs, on, files) ==
  [files   |-> [f \in {"main"} \union {ToString(k) : k \in 1 .. files} |->
                 IF f = "main" THEN Nested(ifs, on) \o (IF files = 0 THEN <<>> ELSE Including(1))
                 ELSE LET k == CHOOSE n \in 1 .. files : ToString(n) = f IN IF k = files THEN Marked(k) ELSE Including(k + 1)],
   options |-> <<>>, macros |-> NoMacros]

\* Files that guard themselves, included twice and by each other.
Guarded(name, items) == <<Conditional(<<Group(IsDefined("ifndef " \o name, name, FALSE), <<Def(name, <<"1">>)>> \o items)>>)>>
Ways == << Inclusion("h", "\"h\""), Inclusion("h", "<h>"), Inclusion("h", "HEADER"), Inclusion("k", "\"k\" /* k */"), Inclusion("n", "<n>") >>
IncludeProgram(one, two, three, shape) ==
  [files |-> [main |-> <<Def("HEADER", <<"\"h\"">>), Ways[one], Rows(<<"a", " ", "__LINE__">>), Ways[two], Rows(<<"a", ";">>)>>,
              h |-> (CASE shape = 1 -> Guarded("H", Marked(1) \o <<Ways[three]>> \o Marked(2))
                       [] shape = 2 -> Marked(1) \o <<Conditional(<<Group(IsDefined("ifdef H", "H", TRUE), Marked(3)),
                                                                    Group(Always, <<Def("H", <<>>), Ways[three]>>)>>)>>
                       [] shape = 3 -> Guarded("H", <<DefF("a", <<"x">>, <<"x", " ", "__LINE__">>), Rows(<<"a", "(", "__FILE__", ")">>),
                                                      Undefine("a"), Def("a", <<"2">>)>>)),
              k |-> Guarded("K", <<Inclusion("h", "\"h\"")>> \o Marked(5)) \o Marked(6)],
   options |-> <<>>, macros |-> NoMacros]

\* Conditions. A value is [v, u, known], u for unsigned; an expression has a text and a level as well.
Levels == << {"||"}, {"&&"}, {"|"}, {"^"}, {"&"}, {"==", "!="}, {"<", "<=", ">", ">="}, {"<<", ">>"}, {"+", "-"}, {"*", "/", "%"} >>
LevelOf(op) == CHOOSE k \in DOMAIN Levels : op \in Levels[k]
Ops == <<"||", "&&", "|", "^", "&", "==", "!=", "<", "<=", ">", ">=", "<<", ">>", "+", "-", "*", "/", "%">>
Bits(a, b, F(_, _)) == FoldLeft(LAMBDA n, k : n + F((a \div 2 ^ k) % 2, (b \div 2 ^ k) % 2) * 2 ^ k, 0, [j \in 1 .. 16 |-> j - 1])
Between(v) == v \in -(2 ^ 15) .. 2 ^ 15 - 1
\* open: the standard leaves the result open, or a long of this width has no room for it.
Applied(op, l, r) ==
  LET u == l.u \/ r.u
      a == IF u THEN l.v % W ELSE l.v
      b == IF u THEN r.v % W ELSE r.v
      AsSigned(v) == IF v < 2 ^ 15 THEN v ELSE v - W
      Bitwise(F(_, _)) == LET v == Bits(l.v % W, r.v % W, F) IN IF u THEN v ELSE AsSigned(v)
      toward0 == IF (a < 0) = (b < 0) THEN Max({a, -a}) \div Max({b, -b}) ELSE -(Max({a, -a}) \div Max({b, -b}))
      OneOrZero(v) == [v |-> IF v THEN 1 ELSE 0, u |-> FALSE, known |-> l.known /\ r.known, open |-> l.open \/ r.open]
      Usual(v, uns, bad) == [v |-> IF uns THEN v % W ELSE v, u |-> uns, known |-> l.known /\ r.known /\ ~bad,
                             open |-> l.open \/ r.open \/ (~uns /\ ~bad /\ ~Between(v))]
      shift == r.v \in 0 .. 14
  IN  CASE op = "||" -> [OneOrZero(l.v # 0 \/ r.v # 0) EXCEPT !.known = l.known /\ (l.v # 0 \/ r.known)]
        [] op = "&&" -> [OneOrZero(l.v # 0 /\ r.v # 0) EXCEPT !.known = l.known /\ (l.v = 0 \/ r.known)]
        [] op = "|"  -> Usual(Bitwise(LAMBDA x, y : IF x + y > 0 THEN 1 ELSE 0), u, FALSE)
        [] op = "^"  -> Usual(Bitwise(LAMBDA x, y : (x + y) % 2), u, FALSE)
        [] op = "&"  -> Usual(Bitwise(LAMBDA x, y : x * y), u, FALSE)
        [] op = "==" -> OneOrZero(a = b)
        [] op = "!=" -> OneOrZero(a # b)
        [] op = "<"  -> OneOrZero(a < b)
        [] op = "<=" -> OneOrZero(a <= b)
        [] op = ">"  -> OneOrZero(a > b)
        [] op = ">=" -> OneOrZero(a >= b)
        [] op = "<<" -> IF shift /\ l.v >= 0 THEN Usual(l.v * 2 ^ r.v, l.u, FALSE) ELSE [Usual(0, l.u, FALSE) EXCEPT !.open = TRUE]
        [] op = ">>" -> IF shift /\ l.v >= 0 THEN Usual(l.v \div 2 ^ r.v, l.u, FALSE) ELSE [Usual(0, l.u, FALSE) EXCEPT !.open = TRUE]
        [] op = "+"  -> Usual(a + b, u, FALSE)
        [] op = "-"  -> Usual(a - b, u, FALSE)
        [] op = "*"  -> IF l.v * r.v \in -(2 ^ 15) .. 2 ^ 15 THEN Usual(l.v * r.v, u, FALSE) ELSE [Usual(0, u, FALSE) EXCEPT !.open = TRUE]
        [] op = "/"  -> IF b = 0 THEN Usual(0, u, TRUE) ELSE Usual(toward0, u, FALSE)
        [] op = "%"  -> IF b = 0 THEN Usual(0, u, TRUE) ELSE Usual(a - b * toward0, u, FALSE)

Expr(text, level, v) == [text |-> text, level |-> level, v |-> v]
Atom(text, v, u) == Expr(text, 11, [v |-> v, u |-> u, known |-> TRUE, open |-> FALSE])
InParens(e, needed) == IF needed THEN "(" \o e.text \o ")" ELSE e.text
\* Operators of one level are grouped from the right by eval, so the left one is put in parentheses too.
Bin(op, l, r) ==
  Expr(InParens(l, l.level <= LevelOf(op)) \o " " \o op \o " " \o InParens(r, r.level <= LevelOf(op)), LevelOf(op), Applied(op, l.v, r.v))
\* Both results have the same type, and the condition a value.
Choice(c, l, r) ==
  Expr(InParens(c, FALSE) \o " ? " \o l.text \o " : " \o r.text, 0,
       [(IF c.v.v # 0 THEN l.v ELSE r.v) EXCEPT !.open = @ \/ c.v.open \/ ~c.v.known \/ l.v.u # r.v.u])
Triples ==
  << <<Atom("5", 5, FALSE), Atom("-2", -2, FALSE), Atom("3", 3, FALSE)>>, <<Atom("0", 0, FALSE), Atom("2", 2, FALSE), Atom("1", 1, FALSE)>>,
     <<Atom("1", 1, FALSE), Atom("+0", 0, FALSE), Atom("0", 0, FALSE)>>, <<Atom("~0", -1, FALSE), Atom("1u", 1, TRUE), Atom("'\\n'", 10, FALSE)>>,
     <<Atom("a", 3, FALSE), Atom("b", 0, FALSE), Atom("defined a", 1, FALSE)>>, <<Atom("'a'", 97, FALSE), Atom("0x1F", 31, FALSE), Atom("07L", 7, FALSE)>>,
     <<Atom("!2", 0, FALSE), Atom("f(2)", 2, FALSE), Atom("0U", 0, TRUE)>>, <<Atom("'\\''", 39, FALSE), Atom("-!defined(b)", -1, FALSE), Atom("'\\101'", 65, FALSE)>> >>
Expression(one, two, shape, n) ==
  LET x == Triples[n]
  IN  CASE shape = 1 -> Bin(Ops[two], Bin(Ops[one], x[1], x[2]), x[3])
        [] shape = 2 -> Bin(Ops[one], x[1], Bin(Ops[two], x[2], x[3]))
        [] shape = 3 -> Choice(Bin(Ops[one], x[1], x[2]), Bin(Ops[two], x[2], x[3]), x[3])
ConditionProgram(one, two, shape, n) ==
  LET e == Expression(one, two, shape, n)
      text == "if (" \o e.text \o ") == " \o ToString(e.v.v)
  IN  Main(<<Def("a", <<"3">>), DefF("f", <<"x">>, <<"x">>)>>
           \o IF e.v.known THEN <<Conditional(<<Group(Cond(text, TRUE), Marked(1))>>)>> ELSE <<Malformed("#" \o text \o "\n#endif\n")>>)

\* Options, and what is defined more than once.
Option(type, text) == [type |-> type, text |-> text]
Ones == [func |-> FALSE, params |-> <<>>, body |-> Tokens(<<"1">>)]
Given ==
  << [options |-> <<Option("D", "a")>>, macros |-> [n \in {"a"} |-> Ones], right |-> TRUE],
     [options |-> <<Option("D", "a=1 + b")>>, macros |-> [n \in {"a"} |-> [Ones EXCEPT !.body = Tokens(<<"1", " ", "+", " ", "b">>)]], right |-> TRUE],
     [options |-> <<Option("D", "a="), Option("D", "b"), Option("U", "b")>>, macros |-> [n \in {"a"} |-> [Ones EXCEPT !.body = <<>>]], right |-> TRUE],
     [options |-> <<Option("U", "a")>>, macros |-> NoMacros, right |-> TRUE],
     [options |-> <<Option("D", "1")>>, macros |-> NoMacros, right |-> FALSE],
     [options |-> <<Option("D", "a b")>>, macros |-> NoMacros, right |-> FALSE],
     [options |-> <<Option("D", "a"), Option("U", "a b")>>, macros |-> NoMacros, right |-> FALSE] >>
DefsOfA ==
  << Def("a", <<"1">>), Def("a", <<"1", " ", "+", " ", "b">>), Def("a", <<"1", "+", " ", "b">>), Def("a", <<"1", " ", "/* c */", "+", " ", "b">>),
     DefF("a", <<"x">>, <<"x">>), DefF("a", <<"y">>, <<"y">>), DefF("a", <<"x", "y">>, <<"x">>), DefF("a", <<>>, <<"1">>), Undefine("a"),
     Def("__LINE__", <<"1">>), Def("defined", <<"1">>), Def("b", <<"a">>) >>
DefinedProgram(given, one, two, three) ==
  LET g == Given[given]
  IN  [Main((IF g.right THEN <<>> ELSE <<Malformed("")>>)
            \o <<DefsOfA[one], DefsOfA[two], DefsOfA[three], Rows(<<"a", " ", "a", "(", "2", ")", ";">>)>>)
       EXCEPT !.options = g.options, !.macros = g.macros]

\* Lines that are renumbered, and lines that are wrong, in groups that are skipped and in others.
Lines == << Renumbered("#line 5\n", 5, ""), Renumbered("# line 7 \"g\"\n", 7, "g"), Renumbered("# 9 \"h\"\n", 9, "h"),
            Renumbered("#line TEN\n", 10, ""), Passed("#pragma TEN\n", <<"#", "pragma", "TEN">>),
            Passed("#ident \"v\"\n", <<"#", "ident", "\"v\"">>), Passed("# // none\n", <<"#">>), Passed("#eval TEN - 9\n", <<>>) >>
LineProgram(one, two, on) ==
  Main(<<Def("TEN", <<"10", " ", "/*\n*/">>), Lines[one]>> \o Marked(1) \o <<Conditional(<<Group(Conds(1)[on], Marked(2)), Group(Always, <<Lines[two]>> \o Marked(3))>>)>>
       \o Marked(4))
Mistakes ==
  << "#if\n#endif\n", "#if 1 +\n#endif\n", "#if (1\n#endif\n", "#if 1)\n#endif\n", "#if 1 2\n#endif\n", "#if \"s\"\n#endif\n", "#if 1 : 2\n#endif\n",
     "#if 1 ? 2\n#endif\n", "#if * 1\n#endif\n", "#if defined\n#endif\n", "#if defined(a\n#endif\n", "#if 1.5\n#endif\n", "#if a = 1\n#endif\n", "#if 1 !\n#endif\n",
     "#if 09\n#endif\n", "#if ''\n#endif\n", "#if 'ab'\n#endif\n", "#if ()\n#endif\n", "#if 1, 2\n#endif\n", "#ifdef\n#endif\n", "#ifdef 1\n#endif\n", "#ifndef a b\n#endif\n",
     "#else\n", "#endif\n", "#elif 1\n", "#if 1\n", "#if 0\n", "#if 0\n#if 1\n#endif\n", "#if 1\n#else\n#else\n#endif\n", "#if 0\n#else\n#elif 1\n#endif\n",
     "#if 1\n#else x\n#endif\n", "#if 1\n#endif x\n", "#define\n", "#define 1\n", "#define f(\n", "#define f(x\n", "#define f(x,)\n", "#define f(x,x) 1\n",
     "#define f(1) 1\n", "#define f(x y) 1\n", "#undef\n", "#undef 1\n", "#undef a b\n", "#include\n", "#include a\n", "#include \"\"\n", "#include \"m\"\n",
     "#include <m>\n", "#include \"m\" m\n", "#line\n", "#line x\n", "#line 5 x\n", "#line 0\n", "#error no\n", "#foo\n", "# !\n", "\"abc\n", "'a\n", "\"abc",
     "#define f(x) x ##\nf(1)\n", "#define f(x) # y\nf(1)\n", "#define f(x) x\nf(1, 2)\n", "#define f(x) x\nf(1\n", "#define f() 1\nf(2)\n" >>
ErrorProgram(n, before) ==
  Main((IF before = 1 THEN <<>> ELSE <<Def("a", <<"1">>), Conditional(<<Group(Conds(1)[1], <<Malformed(" ")>>), Group(Always, Marked(1))>>)>>)
       \o <<Malformed(Mistakes[n])>> \o Marked(2))
-------------------------------------------------------------------------------
Program(q) ==
  CASE q[1] = "macros"     -> MacroProgram(q[2], q[3], q[4], q[5])
    [] q[1] = "arguments"  -> ArgsProgram(q[2], q[3], q[4], q[5])
    [] q[1] = "rows"       -> RowsProgram(q[2], q[3], q[4], q[5])
    [] q[1] = "groups"     -> GroupsProgram(q[2], q[3], q[4], q[5])
    [] q[1] = "nesting"    -> NestingProgram(q[2], q[3], q[4])
    [] q[1] = "includes"   -> IncludeProgram(q[2], q[3], q[4], q[5])
    [] q[1] = "conditions" -> ConditionProgram(q[2], q[3], q[4], q[5])
    [] q[1] = "defined"    -> DefinedProgram(q[2], q[3], q[4], q[5])
    [] q[1] = "lines"      -> LineProgram(q[2], q[3], q[4])
    [] q[1] = "errors"     -> ErrorProgram(q[2], q[3])

MCTexts(q) == LET files == Program(q).files IN [f \in DOMAIN files |-> Source(files[f])]
MCOptions(q) == Program(q).options
Family(name, a, b, c, d) == {<<name, i, j, k, l>> : i \in 1 .. a, j \in 1 .. b, k \in 1 .. c, l \in 1 .. d}
MCInputs ==
  Family("macros", 13, 9, 4, 10) \union Family("arguments", 11, 13, 13, 2) \union Family("rows", 11, 11, 11, 3)
  \union Family("groups", 3, 12, 12, 3) \union Family("nesting", 4, 2, 4, 1) \union Family("includes", 5, 5, 5, 3)
  \union {q \in Family("conditions", 18, 18, 3, 8) :
            (q[2] + q[3] + q[5]) % 3 = 0 /\ ~Expression(q[2], q[3], q[4], q[5]).v.open}
  \union Family("defined", 1, 12, 12, 12) \union Family("defined", 7, 12, 12, 1) \union {q \in Family("lines", 8, 8, 2, 1) : q[3] # 3 \/ q[4] = 1} \union Family("errors", 64, 2, 1, 1)
-------------------------------------------------------------------------------
(* The translation of a source is what the standard says it stands for: the same tokens, none merged
   with its neighbour, each in the line of its file; and something is reported if and only if the
   source is wrong (main, process, control, expandrow, eval). *)
AgreesWith(s) ==
  IF s.wrong THEN reported # {}
  ELSE s.open \/ ("error" \notin reported /\ "fatal" \notin reported /\ SameTokens(Read(out, 1, "main", 1), s.out))
TranslatesAsStandard == done /\ "hung" \notin reported => AgreesWith(Standard(Program(input)))
===============================================================================
