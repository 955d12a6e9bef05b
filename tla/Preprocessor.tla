------------------------------ MODULE Preprocessor ------------------------------
(***************************************************************************)
(* The preprocessor of lcc (lcc/cpp): rows of tokens are read from the     *)
(* current source, directives obeyed, macros expanded in place, and the    *)
(* rows put out. A turn of process() is two steps: a row is read, and a    *)
(* directive or a row of text is dealt with, one action for each kind.     *)
(*                                                                         *)
(* A source and the output are strings. Not modelled: trigraphs, wide      *)
(* literals, two points in a row, __DATE__ and __TIME__, the option -M,    *)
(* and the limits on the size of a buffer, a hide set, a string and the    *)
(* stacks of eval. All sources are in one directory; a long has 16 bits.   *)
(***************************************************************************)
EXTENDS Integers, FiniteSets, SequencesExt, Bitwise

CONSTANTS
  Inputs,          \* what is translated
  TextsOf(_),      \* the files of an input: a function from names to texts, "main" among the names
  OptionsOf(_),    \* the options -D and -U it is translated with: a sequence of [type, text]
  NIF,             \* #if may be nested less deep than this
  MaxInclude       \* and #include no deeper than this

VARIABLES
  input,
  cursource,      \* the stack of sources, the current one first
  trp,            \* the row read and not dealt with yet
  nlist,          \* the macros, by name
  ifdepth, ifsatisfied, skipping,
  out,
  reported,       \* the kinds of messages given
  done

vars == <<input, cursource, trp, nlist, ifdepth, ifsatisfied, skipping, out, reported, done>>
-------------------------------------------------------------------------------
\* Tokens (lex.c). put says that the space before the token was put there by an expansion (XPWS).
Token(type, text, ws) == [type |-> type, text |-> text, ws |-> ws, put |-> FALSE, hideset |-> {}]
NL  == Token("NL", "\n", FALSE)
END == Token("END", "", FALSE)

Char(text, i) == IF i \in 1 .. Len(text) THEN SubSeq(text, i, i) ELSE ""
CharsOf(text) == [i \in 1 .. Len(text) |-> Char(text, i)]
Digit == ToSet(CharsOf("0123456789"))
Alpha == ToSet(CharsOf("abcdefghijklmnopqrstuvwxyzABCDEFGHIJKLMNOPQRSTUVWXYZ_"))
Blank == {" ", "\t"}
Operators ==
  {"-", "--", "-=", "->", "+", "++", "+=", "<", "<<", "<=", "<<=", ">", ">>", ">=", ">>=", "=", "==",
   "!", "!=", "&", "&&", "&=", "|", "||", "|=", "#", "##", "%", "%=", "*", "*=", "^", "^=", "/", "/=",
   "[", "]", "(", ")", ",", "?", ":", ";", "{", "}", "~", ".", "..."}

\* The first position from i on with a property, or the one behind the text.
From(text, i, Has(_)) == CHOOSE j \in i .. Len(text) + 1 : (j > Len(text) \/ Has(j)) /\ \A k \in i .. j - 1 : ~Has(k)
\* A sign goes on with a number behind an e, and the second of two is no exponent; elsewhere a point does.
EndsNumber(text, i, j) ==
  LET es == j - 1 - Max({k \in i .. j - 1 : Char(text, k) \notin {"e", "E"}})
  IN  ~ \/ Char(text, j) \in (Digit \union Alpha) \ {"_"}
        \/ Char(text, j) \in (IF es % 2 = 1 THEN {"+", "-"} ELSE {"."})
\* The closing quote stands behind an even number of backslashes.
EndsLiteral(text, i, j) ==
  \/ Char(text, j) = "\n"
  \/ /\ Char(text, j) = Char(text, i)
     /\ (j - Max({k \in i .. j - 1 : Char(text, k) # "\\"})) % 2 = 1

OperatorAt(text, i) ==
  Max({0} \union {n \in 1 .. 3 : i + n - 1 <= Len(text) /\ SubSeq(text, i, i + n - 1) \in Operators})
\* What begins at a position; blanks and comments are one type.
TypeAt(text, i) ==
  LET c == Char(text, i)
      d == Char(text, i + 1)
      op == OperatorAt(text, i)
  IN  CASE c = "" -> "END"
        [] c = "\n" -> "NL"
        [] c \in Blank \/ (c = "/" /\ d \in {"/", "*"}) -> "SPACE"
        [] c \in Digit \/ (c = "." /\ d \in Digit) -> "NUMBER"
        [] c \in Alpha -> "NAME"
        [] c = "\"" -> "STRING"
        [] c = "'" -> "CCON"
        [] OTHER -> IF op = 0 THEN "UNCLASS" ELSE SubSeq(text, i, i + op - 1)
\* Where it ends.
TokenEnd(text, i, type) ==
  CASE type = "END"    -> i
    [] type = "NUMBER" -> From(text, i + 1, LAMBDA j : EndsNumber(text, i, j))
    [] type = "NAME"   -> From(text, i + 1, LAMBDA j : Char(text, j) \notin Alpha \union Digit)
    [] type \in {"STRING", "CCON"} -> From(text, i + 1, LAMBDA j : EndsLiteral(text, i, j)) + 1
    [] type = "SPACE"  ->
         IF Char(text, i) \in Blank THEN i + 1
         ELSE IF Char(text, i + 1) = "/" THEN From(text, i, LAMBDA j : Char(text, j) = "\n")
         ELSE From(text, i + 2, LAMBDA j : Char(text, j) \o Char(text, j + 1) = "*/") + 2
    [] type \in {"NL", "UNCLASS"} -> i + 1
    [] OTHER -> i + Len(type)

\* The row from position i on, up to the end of the line or of the text; a literal stops at both.
RECURSIVE Scan(_, _, _, _)
ScanToken(text, i, ws, row, type, e) ==
  LET unclosed == type \in {"STRING", "CCON"} /\ (Char(text, e - 1) # Char(text, i) \/ e - 1 = i)
      last == IF type = "NL" \/ (unclosed /\ Char(text, e - 1) = "\n") THEN NL ELSE END
      whole == row = <<>> \/ Last(row).type = "NL"
  IN  IF type \notin {"NL", "END"} /\ ~unclosed
      THEN Scan(text, e, type = "SPACE", IF type = "SPACE" THEN row ELSE Append(row, Token(type, SubSeq(text, i, e - 1), ws)))
      ELSE [row |-> Append(row, last), at |-> e,
            bad |-> CASE unclosed     -> {IF last = NL THEN "error" ELSE "fatal"}
                      [] type = "NL"  -> {}
                      [] type = "END" -> IF whole THEN {} ELSE {"warning"}]
Scan(text, i, ws, row) == ScanToken(text, i, ws, row, TypeAt(text, i), TokenEnd(text, i, TypeAt(text, i)))

(* gettokens: a row is added to x.row. A backslash at the end of a line that was read is taken out
   of the source together with the newline (foldline), and the row read again. *)
RECURSIVE gettokens(_)
Folded(s, j) ==
  [s EXCEPT !.text = SubSeq(s.text, 1, j - 1) \o SubSeq(s.text, j + 2, Len(s.text)), !.lineinc = @ + 1]
AddRow(x, r) ==
  LET s == x.src
      folds == {j \in s.at .. r.at - 2 : SubSeq(s.text, j, j + 1) = "\\\n"}
      lines == Cardinality({k \in s.at .. r.at - 1 : Char(s.text, k) = "\n"})
  IN  IF folds # {} THEN gettokens([x EXCEPT !.src = Folded(s, Min(folds))])
      ELSE [x EXCEPT !.row = @ \o r.row, !.src.at = r.at, !.src.lineinc = @ + lines, !.bad = @ \union r.bad]
gettokens(x) == AddRow(x, Scan(x.src.text, x.src.at, FALSE, <<>>))
-------------------------------------------------------------------------------
(* Sources and rows. x is a row being worked on: [row, tp, src, where, macros, inif, bad]: tp the
   position looked at, src the source more rows may come from, where the file and line of the row,
   inif says that "defined" is an operator, bad is what was reported. *)
setsource(name, text) == [filename |-> name, line |-> 1, lineinc |-> 0, text |-> text, at |-> 1, ifdepth |-> 0]
Work(row, tp, src, where, macros, bad) ==
  [row |-> row, tp |-> tp, src |-> src, where |-> where, macros |-> macros, inif |-> FALSE, bad |-> bad]

Tight == {"NL", "[", "]", "(", ")", ",", ";", "{", "}"}
makespace(row, i) ==
  IF i > Len(row) THEN row
  ELSE LET tight == row[i].type \in Tight \/ (i > 1 /\ row[i - 1].type \in Tight)
       IN  CASE row[i].ws  -> [row EXCEPT ![i].ws = ~(row[i].put /\ tight)]
             [] ~row[i].ws -> IF tight THEN row ELSE [row EXCEPT ![i].ws = TRUE, ![i].put = TRUE]

\* Mutant: no space is put in, so that tokens can run together.
InsertTight(row, i, n, new) == SubSeq(row, 1, i - 1) \o new \o SubSeq(row, i + n, Len(row))
insertrow(row, i, n, new) ==
  LET moved == SubSeq(row, 1, i - 1) \o new \o SubSeq(row, i + n, Len(row))
  IN  makespace(makespace(moved, i), i + Len(new))

normtokenrow(row) == [i \in DOMAIN row |-> [row[i] EXCEPT !.ws = @ /\ i > 1]]
comparetokens(row, other) ==
  \/ Len(row) # Len(other)
  \/ \E i \in DOMAIN row : <<row[i].type, row[i].ws, row[i].text>> # <<other[i].type, other[i].ws, other[i].text>>

TextOf(row) == FoldLeft(LAMBDA text, t : text \o (IF t.ws THEN " " ELSE "") \o t.text, "", row)
genline(s) == "#line " \o ToString(s.line) \o " \"" \o s.filename \o "\"\n"
-------------------------------------------------------------------------------
\* Macros (macro.c).
Builtins == {"__LINE__", "__FILE__"}
Macro(func, params, body) == [func |-> func, params |-> params, body |-> body]
KwMacros == [n \in {"defined"} |-> Macro(FALSE, <<>>, <<Token("NAME", "defined", FALSE)>>)]

lookuparg(m, t) ==
  IF t.type = "NAME" /\ \E i \in DOMAIN m.params : m.params[i].text = t.text
  THEN Min({i \in DOMAIN m.params : m.params[i].text = t.text})
  ELSE 0

stringify(arg) ==
  LET Escaped(t) == FoldLeft(LAMBDA s, c : s \o (IF c \in {"\"", "\\"} THEN "\\" ELSE "") \o c, "", CharsOf(t.text))
      Piece(t) == (IF t.ws /\ ~t.put THEN " " ELSE "") \o (IF t.type \in {"STRING", "CCON"} THEN Escaped(t) ELSE t.text)
  IN  Token("STRING", FoldLeft(LAMBDA s, t : s \o Piece(t), "\"", arg) \o "\"", FALSE)

\* doconcat: the pasted text is read as a source of its own, and only its first token is taken. s is [row, bad].
RECURSIVE doconcat(_, _)
Pasting(s, i, pasted) ==
  [row |-> insertrow(s.row, i - 1, 3, makespace(<<pasted[1]>>, 1)),
   bad |-> IF Len(pasted) # 2 \/ pasted[1].type = "UNCLASS" THEN s.bad \union {"warning"} ELSE s.bad]
doconcat(s, i) ==
  LET type == s.row[i].type
      inside == i > 1 /\ i < Len(s.row)
  IN  IF i > Len(s.row) THEN s
      ELSE IF type = "##" /\ inside
      THEN doconcat(Pasting(s, i, Scan(s.row[i - 1].text \o s.row[i + 1].text, 1, FALSE, <<>>).row), i)
      ELSE doconcat(CASE type = "DSHARP1" -> [s EXCEPT !.row[i].type = "##"]
                      [] type = "##"      -> [s EXCEPT !.bad = @ \union {"error"}]
                      [] OTHER            -> s, i + 1)

builtin(x) ==
  LET t == x.row[x.tp]
      as == IF t.text = "__LINE__" THEN [type |-> "NUMBER", text |-> ToString(x.where.line)]
            ELSE [type |-> "STRING", text |-> "\"" \o x.where.filename \o "\""]
  IN  [x EXCEPT !.row[x.tp].type = as.type, !.row[x.tp].text = as.text, !.tp = @ + 1]

\* gatherargs. Looking for the parenthesis; without one what follows is next, or the name again at the end.
More(x) == IF x.tp > Len(x.row) THEN gettokens(x) ELSE x
RECURSIVE Opening(_, _)
Opens(y, more, name) ==
  IF more /\ Last(y.row).type = "END" THEN [y EXCEPT !.row = Front(@), !.tp = name]
  ELSE IF y.row[y.tp].type = "NL" THEN Opening([y EXCEPT !.tp = @ + 1], name)
  ELSE y
Opening(x, name) == Opens(More(x), x.tp > Len(x.row), name)

\* Looking for the closing one; ends of lines are taken out of the row, with a space in their place.
RECURSIVE Closing(_, _, _)
SpaceIf(x, needspace) == IF needspace THEN [x EXCEPT !.row = makespace(@, x.tp)] ELSE x
Closes(x, parens) ==
  LET t == x.row[x.tp].type
      deeper == CASE t = "(" -> parens + 1 [] t = ")" -> parens - 1 [] OTHER -> parens
  IN  IF t = "END" THEN [x EXCEPT !.row = Front(@), !.bad = @ \union {"error"}]
      ELSE IF deeper = 0 THEN x
      ELSE Closing(IF t = "NL" THEN [x EXCEPT !.row = makespace(RemoveAt(@, x.tp), x.tp)] ELSE [x EXCEPT !.tp = @ + 1],
                   deeper, t = "NL")
Closing(x, parens, needspace) == Closes(SpaceIf(More(x), needspace), parens)

\* The arguments in the row between the parentheses at positions l and r.
Arguments(row, l, r) ==
  LET Depth(i) == Cardinality({j \in l .. i : row[j].type = "("}) - Cardinality({j \in l .. i : row[j].type = ")"})
      Ends(i) == (row[i].type = "," /\ Depth(i) = 1 /\ i \in l .. r) \/ (i = r /\ r > l + 1)
      ends == SelectSeq([i \in DOMAIN row |-> i], Ends)
      Begin(k) == IF k = 1 THEN l + 1 ELSE ends[k - 1] + 1
  IN  [k \in DOMAIN ends |-> normtokenrow(SubSeq(row, Begin(k), ends[k] - 1))]

\* call says whether there is a call; ntok is the number of tokens passed. o and c are where the parentheses are.
CallOf(x, o, c) ==
  LET ended == c.tp > Len(c.row)
      NotSpecial(row) == [i \in DOMAIN row |->
        IF i \in o.tp .. c.tp /\ row[i].type = "##" THEN [row[i] EXCEPT !.type = "DSHARP1"] ELSE row[i]]
  IN  [call |-> TRUE,
       x    |-> [c EXCEPT !.row = IF ended THEN @ ELSE NotSpecial(@), !.tp = x.tp],
       ntok |-> c.tp - x.tp + (IF ended THEN 0 ELSE 1),
       args |-> IF ended THEN <<>> ELSE Arguments(NotSpecial(c.row), o.tp, c.tp)]
Call(x, o) == IF o.row[o.tp].type # "(" THEN [call |-> FALSE, x |-> o]
              ELSE CallOf(x, o, Closing([o EXCEPT !.tp = @ + 1], 1, FALSE))
gatherargs(x) == Call(x, Opening([x EXCEPT !.tp = @ + 1], x.tp))

\* expand puts the replacement, its names hidden from the macro, in the place of n tokens; it is looked at next.
Replace(x, n, body) ==
  LET name == x.row[x.tp]
      Hidden(t) == IF t.type = "NAME" THEN [t EXCEPT !.hideset = @ \union name.hideset \union {name.text}] ELSE t
  IN  [x EXCEPT !.row = insertrow(@, x.tp, n, [i \in DOMAIN body.row |-> Hidden(body.row[i])]), !.bad = body.bad]

RECURSIVE expandrow(_)

\* An argument is expanded as a row of its own.
ExpandedArg(x, arg) == expandrow([x EXCEPT !.row = arg, !.tp = 1, !.src = setsource("<macro>", "")])

\* What comes in the place of how many tokens at position i of a replacement list.
Taken(n, e) == [n |-> n, row |-> e.row, bad |-> e.bad]
Substitute(x, m, args, rtr, i) ==
  LET t == rtr[i]
      argno == lookuparg(m, t)
      quoted == IF t.type = "#" /\ i < Len(rtr) THEN lookuparg(m, rtr[i + 1]) ELSE 0
      pasted == (i < Len(rtr) /\ rtr[i + 1].type = "##") \/ (i > 1 /\ rtr[i - 1].type = "##")
      None(bad) == [n |-> 0, row |-> <<t>>, bad |-> bad]
  IN  IF t.type = "#"
      THEN IF quoted = 0 THEN None(x.bad \union {"error"}) ELSE [n |-> 2, row |-> <<stringify(args[quoted])>>, bad |-> x.bad]
      ELSE IF argno = 0 THEN None(x.bad)
      ELSE IF pasted THEN [n |-> 1, row |-> args[argno], bad |-> x.bad]
      ELSE Taken(1, ExpandedArg(x, args[argno]))
RECURSIVE substargs(_, _, _, _, _)
SubstituteNext(x, m, args, rtr, i, new) ==
  substargs([x EXCEPT !.bad = new.bad], m, args, IF new.n = 0 THEN rtr ELSE insertrow(rtr, i, new.n, new.row), i + Len(new.row))
substargs(x, m, args, rtr, i) ==
  IF i > Len(rtr) THEN [row |-> rtr, bad |-> x.bad]
  ELSE SubstituteNext(x, m, args, rtr, i, Substitute(x, m, args, rtr, i))

ExpandCall(x, m, g) ==
  IF ~g.call THEN g.x
  ELSE IF Len(g.args) # Len(m.params)
  THEN [g.x EXCEPT !.row[x.tp].hideset = @ \union {x.row[x.tp].text}, !.tp = @ + g.ntok, !.bad = @ \union {"error"}]
  ELSE Replace(g.x, g.ntok, doconcat(substargs(g.x, m, g.args, m.body, 1), 1))
expand(x) ==
  LET m == x.macros[x.row[x.tp].text]
  IN  IF m.func THEN ExpandCall(x, m, gatherargs(x)) ELSE Replace(x, 1, doconcat([row |-> m.body, bad |-> x.bad], 1))

\* "defined" keeps the name it asks for from being expanded.
MarkDefined(x) ==
  LET i == x.tp
      Type(k) == IF i + k <= Len(x.row) THEN x.row[i + k].type ELSE ""
      marked == [x EXCEPT !.row[i].type = "DEFINED", !.tp = @ + 1]
  IN  IF Type(1) = "NAME" THEN [marked EXCEPT !.row[i + 1].type = "NAME1"]
      ELSE IF <<Type(1), Type(2), Type(3)>> = <<"(", "NAME", ")">> THEN [marked EXCEPT !.row[i + 2].type = "NAME1"]
      ELSE [marked EXCEPT !.bad = @ \union {"error"}]

Expandable(x, t) ==
  t.type = "NAME" /\ t.text \in DOMAIN x.macros \union Builtins /\ t.text \notin t.hideset

ExpandToken(x, t) ==
  IF ~Expandable(x, t) THEN [x EXCEPT !.tp = @ + 1]
  ELSE IF t.text = "defined" /\ x.inif THEN MarkDefined(x)
  ELSE IF t.text \in Builtins THEN builtin(x)
  ELSE expand(x)
\* A turn that changes nothing is repeated for ever.
Unless(x, y) == IF y = x THEN [x EXCEPT !.bad = @ \union {"hung"}] ELSE y
expandrow(x) ==
  IF x.tp > Len(x.row) \/ x.bad \intersect {"fatal", "hung"} # {} THEN x
  ELSE expandrow(Unless(x, ExpandToken(x, x.row[x.tp])))
-------------------------------------------------------------------------------
(* Conditions (eval.c). A value is [val, type]; an evaluation e has the stacks vals and ops, rand
   when an operand was just read, stop when a result cannot be had any more, and bad. *)
W == 2 ^ 16
Unsigned(v) == v % W
SignedOf(v) == ((v + 2 ^ 15) % W) - 2 ^ 15
Truth(b) == IF b THEN 1 ELSE 0

Priority(op) ==
  CASE op = "END" -> 0
    [] op \in {"(", ")"} -> 3
    [] op = "," -> 4
    [] op \in {"?", ":"} -> 5
    [] op = "||" -> 6
    [] op = "&&" -> 7
    [] op = "|" -> 8
    [] op = "^" -> 9
    [] op = "&" -> 10
    [] op \in {"==", "!="} -> 11
    [] op \in {"<", ">", "<=", ">="} -> 12
    [] op \in {"<<", ">>"} -> 13
    [] op \in {"+", "-"} -> 14
    [] op \in {"*", "/", "%"} -> 15
    [] op \in {"~", "!", "UMINUS", "DEFINED"} -> 16
Unary == {"~", "!", "UMINUS", "DEFINED"}
Relational == {"==", "!=", "<", ">", "<=", ">="}
Binary == Relational \union {",", "?", ":", "||", "&&", "|", "^", "&", "<<", ">>", "+", "-", "*", "/", "%"}

ResultType(op, v1, v2) ==
  LET Either(type) == type \in {v1.type, v2.type}
  IN  CASE op \in Unary -> v1.type
        [] op \in {"<<", ">>"} -> IF Either("UND") THEN "UND" ELSE v1.type
        [] OTHER -> IF Either("UND") THEN "UND" ELSE IF Either("UNS") THEN "UNS" ELSE "SGN"

\* Quotients go towards zero; the processor takes the count of a shift modulo the width.
Quot(a, b) == LET q == Max({a, -a}) \div Max({b, -b}) IN IF (a < 0) = (b < 0) THEN q ELSE -q
Compute(op, v1, v2) ==
  LET type == ResultType(op, v1, v2)
      View(v) == IF type = "UNS" THEN Unsigned(v.val) ELSE v.val
      a == View(v1)
      b == IF op \in {"<<", ">>"} THEN v2.val % 16 ELSE View(v2)
      Value(v) == [val |-> SignedOf(v), type |-> type]
      Relation(r) == [val |-> Truth(r), type |-> IF type = "UNS" THEN "SGN" ELSE type]
      Undefined == [val |-> v1.val, type |-> "UND"]
      Decided(r) == [val |-> Truth(r), type |-> "SGN"]
  IN  CASE op = "==" -> Relation(v1.val = v2.val)
        [] op = "!=" -> Relation(v1.val # v2.val)
        [] op = "<"  -> Relation(a < b)
        [] op = ">"  -> Relation(a > b)
        [] op = "<=" -> Relation(a <= b)
        [] op = ">=" -> Relation(a >= b)
        [] op = "<<" -> Value(v1.val * 2 ^ b)
        [] op = ">>" -> Value(a \div 2 ^ b)
        [] op = "&&" -> IF v1.type = "UND" \/ (v1.val # 0 /\ v2.type = "UND") THEN Undefined
                        ELSE Decided(v1.val # 0 /\ v2.val # 0)
        [] op = "||" -> IF v1.type = "UND" \/ (v1.val = 0 /\ v2.type = "UND") THEN Undefined
                        ELSE Decided(v1.val # 0 \/ v2.val # 0)
        [] op = "&"  -> Value(Unsigned(v1.val) & Unsigned(v2.val))
        [] op = "|"  -> Value(Unsigned(v1.val) | Unsigned(v2.val))
        [] op = "^"  -> Value(Unsigned(v1.val) ^^ Unsigned(v2.val))
        [] op = "*"  -> Value(v1.val * v2.val)
        [] op = "+"  -> Value(v1.val + v2.val)
        [] op = "-"  -> Value(v1.val - v2.val)
        [] op = "/"  -> IF v2.val = 0 THEN Undefined ELSE Value(Quot(a, b))
        [] op = "%"  -> IF v2.val = 0 THEN Undefined ELSE Value(a - b * Quot(a, b))
        [] op = "UMINUS" -> Value(-v1.val)
        [] op = "~"  -> Value(-v1.val - 1)
        [] op = "!"  -> [val |-> Truth(v1.val = 0), type |-> IF type = "UND" THEN type ELSE "SGN"]
        [] op = "DEFINED" -> v1

\* evalop: the operators on the stack that bind tighter than pri are applied.
RECURSIVE evalop(_, _)
Apply(e, op, ops, n) ==
  LET v2 == e.vals[n]
      v1 == IF op \in Binary THEN e.vals[n - 1] ELSE v2
      asks == e.vals[n - 2]
      Becomes(used, v, bad) == [e EXCEPT !.ops = ops, !.vals = Append(SubSeq(e.vals, 1, n - used), v), !.bad = @ \union bad]
      Chooses == Last(ops) = "?"
  IN  CASE op \in {",", "("}       -> [e EXCEPT !.stop = TRUE, !.bad = @ \union {"warning"}]
        [] op = "?"               -> [e EXCEPT !.stop = TRUE, !.bad = @ \union {"error"}]
        [] op = ":" /\ Chooses    -> [Becomes(3, IF asks.val = 0 THEN v2 ELSE v1, {}) EXCEPT !.ops = Front(ops)]
        [] op = ":" /\ ~Chooses   -> Becomes(2, v1, {"error"})
        [] op \in Unary           -> Becomes(1, Compute(op, v2, v2), {})
        [] op \in Binary \ {",", "?", ":"} -> Becomes(2, Compute(op, v1, v2), {})
evalop(pri, e) ==
  IF e.stop \/ pri >= Priority(Last(e.ops)) THEN e
  ELSE evalop(pri, Apply(e, Last(e.ops), Front(e.ops), Len(e.vals)))

\* tokval: what an operand is worth, and what there is to say of it.
IndexIn(c, text) == IF \E i \in 1 .. Len(text) : Char(text, i) = c THEN Min({i \in 1 .. Len(text) : Char(text, i) = c}) ELSE 0
digit(c) == Max({IndexIn(c, "0123456789abcdef"), IndexIn(c, "0123456789ABCDEF")}) - 1
DigitsValue(text, from, to, base) ==
  FoldLeft(LAMBDA n, i : (n * base + digit(Char(text, i))) % W, 0, [k \in 1 .. to - from + 1 |-> from + k - 1])
Operand(v, type, bad) == [v |-> [val |-> SignedOf(v), type |-> type], bad |-> bad]

NumberValue(text) ==
  LET base == IF Char(text, 1) # "0" THEN 10 ELSE IF Char(text, 2) \in {"x", "X"} THEN 16 ELSE 8
      first == CASE base = 16 -> 3 [] base = 8 -> 2 [] base = 10 -> 1
      next == From(text, first, LAMBDA j : digit(Char(text, j)) < 0)
      suffix == {Char(text, j) : j \in next .. Len(text)}
  IN  Operand(DigitsValue(text, first, next - 1, base),
              IF suffix \intersect {"u", "U"} # {} THEN "UNS" ELSE "SGN",
              (IF \E j \in first .. next - 1 : digit(Char(text, j)) >= base THEN {"warning"} ELSE {})
                \union (IF suffix \subseteq {"u", "U", "l", "L"} THEN {} ELSE {"error"}))

\* A blank is in the place of the grave accent.
Ascii == " !\"#$%&'()*+,-./0123456789:;<=>?@ABCDEFGHIJKLMNOPQRSTUVWXYZ[\\]^_ abcdefghijklmnopqrstuvwxyz{|}~"
Code(c) == 31 + IndexIn(c, Ascii)
Escapes == <<<<"b", 8>>, <<"f", 12>>, <<"n", 10>>, <<"r", 13>>, <<"t", 9>>, <<"v", 11>>>>
CharacterValue(text) ==
  LET c == Char(text, 2)
      d == Char(text, 3)
      octal == From(text, 3, LAMBDA j : j > 5 \/ digit(Char(text, j)) \notin 0 .. 7)
      hex == From(text, 4, LAMBDA j : digit(Char(text, j)) < 0)
      Constant(n, next, bad) ==
        Operand(n, "SGN", bad \union (IF next # Len(text) \/ n > 127 THEN {"warning"} ELSE {}))
  IN  IF c = "'" THEN Constant(0, 2, {"error"})
      ELSE IF c # "\\" THEN Constant(Code(c), 3, {})
      ELSE IF octal > 3 THEN Constant(DigitsValue(text, 3, octal - 1, 8), octal, {})
      ELSE IF d = "x" THEN Constant(DigitsValue(text, 4, hex - 1, 16), hex, {})
      ELSE IF d \in {"'", "\"", "?", "\\"} THEN Constant(Code(d), 4, {})
      ELSE IF \E k \in DOMAIN Escapes : Escapes[k][1] = d
      THEN Constant(Escapes[CHOOSE k \in DOMAIN Escapes : Escapes[k][1] = d][2], 4, {})
      ELSE Constant(0, 4, {"warning"})

tokval(t, macros) ==
  CASE t.type = "NAME"   -> Operand(0, "SGN", {})
    [] t.type = "NAME1"  -> Operand(Truth(t.text \in DOMAIN macros \union Builtins), "SGN", {})
    [] t.type = "NUMBER" -> NumberValue(t.text)
    [] t.type = "CCON"   -> CharacterValue(t.text)
    [] t.type = "STRING" -> Operand(0, "SGN", {"error"})

Stop(e, kind) == [e EXCEPT !.stop = TRUE, !.bad = @ \union {kind}]
PushValue(e, o) == [e EXCEPT !.vals = Append(@, o.v), !.rand = TRUE, !.bad = @ \union o.bad]
PushOp(e, op) == IF e.stop THEN e ELSE [e EXCEPT !.ops = Append(@, op), !.rand = FALSE]
CloseParen(e) == IF e.stop THEN e ELSE IF Last(e.ops) # "(" THEN Stop(e, "error") ELSE [e EXCEPT !.ops = Front(@)]
EvalToken(e, t, macros) ==
  IF e.stop \/ t.type = "NL" THEN e
  ELSE IF t.type \in {"NAME", "NAME1", "NUMBER", "CCON", "STRING"}
  THEN IF e.rand THEN Stop(e, "error") ELSE PushValue(e, tokval(t, macros))
  ELSE IF t.type \in {"DEFINED", "~", "!", "("}
  THEN IF e.rand THEN Stop(e, "error") ELSE PushOp(e, t.type)
  ELSE IF t.type \in {"+", "-"} /\ ~e.rand
  THEN IF t.type = "-" THEN PushOp(e, "UMINUS") ELSE e
  ELSE IF ~e.rand \/ t.type \notin Binary \union {")"} THEN Stop(e, "error")
  ELSE IF t.type = ")" THEN CloseParen(evalop(Priority(")"), e))
  ELSE PushOp(evalop(Priority(t.type), e), t.type)

\* eval: x.row is a directive; gives the value of its condition in .val and what was reported in .bad.
NoCondition(bad) == [val |-> 0, bad |-> bad]
ValueOf(e) ==
  IF e.stop THEN NoCondition(e.bad)
  ELSE IF e.ops # <<"END">> \/ Len(e.vals) # 1 THEN NoCondition(e.bad \union {"error"})
  ELSE [val |-> e.vals[1].val, bad |-> e.bad \union (IF e.vals[1].type = "UND" THEN {"error"} ELSE {})]
AtLineEnd(e) == IF e.stop \/ e.rand THEN evalop(0, e) ELSE Stop(e, "error")
Evaluated(x) ==
  LET begun == [vals |-> <<>>, ops |-> <<"END">>, rand |-> FALSE, stop |-> FALSE, bad |-> x.bad]
      EvalNext(e, t) == EvalToken(e, t, x.macros)
  IN  IF x.bad \intersect {"hung", "fatal"} # {} THEN NoCondition(x.bad)
      ELSE ValueOf(AtLineEnd(FoldLeft(EvalNext, begun, SubSeq(x.row, 3, Len(x.row)))))
eval(x) ==
  LET word == x.row[2].text
      asked == x.row[3]
      known == asked.text \in DOMAIN x.macros \union Builtins
  IN  IF word \notin {"ifdef", "ifndef"}
      THEN Evaluated(expandrow([x EXCEPT !.tp = 3, !.src = setsource("<if>", ""), !.inif = TRUE]))
      ELSE IF Len(x.row) # 4 \/ asked.type # "NAME" THEN NoCondition(x.bad \union {"error"})
      ELSE [val |-> Truth((word = "ifdef") = known), bad |-> x.bad]
-------------------------------------------------------------------------------
\* doadefine: an option -D or -U, row its tokens; a is [macros, bad].
OptionRow(a, type, row) ==
  LET name == row[1]
      body == IF row[2].type = "END" THEN <<Token("NUMBER", "1", FALSE)>>
              ELSE normtokenrow(SubSeq(row, 3, Len(row) - 1))
      wrong == \/ name.type # "NAME"
               \/ type = "U" /\ Len(row) # 2
               \/ type = "D" /\ row[2].type \notin {"END", "="}
  IN  IF wrong THEN [a EXCEPT !.bad = @ \union {"fatal"}]
      ELSE IF type = "U" THEN [a EXCEPT !.macros = Restrict(@, DOMAIN @ \ {name.text})]
      ELSE [a EXCEPT !.macros = (name.text :> Macro(FALSE, <<>>, body)) @@ @]
doadefine(a, option) == OptionRow(a, option.type, Scan(option.text, 1, FALSE, <<>>).row)

Begin(a) == nlist = a.macros /\ reported = a.bad /\ done = ("fatal" \in a.bad)
Init ==
  /\ input \in Inputs
  /\ cursource = <<setsource("main", TextsOf(input)["main"])>>
  /\ Begin(FoldLeft(doadefine, [macros |-> KwMacros, bad |-> {}], OptionsOf(input)))
  /\ trp = <<>>
  /\ ifdepth = 0 /\ skipping = 0
  /\ ifsatisfied = [d \in 0 .. NIF - 1 |-> 0]
  /\ out = genline(Head(cursource))

Row == Work(trp, 1, Head(cursource), Head(cursource), nlist, {})

\* What was reported; the program ends with a fatal error, and does nothing more when it loops for ever.
Report(bad) == reported' = reported \union bad /\ done' = (bad \intersect {"fatal", "hung"} # {})

\* The end of a turn: the row is put out, s its source.
EndTurn(row, s) ==
  LET next == [s EXCEPT !.line = @ + s.lineinc]
  IN  /\ out' = out \o TextOf(IF skipping' # 0 THEN <<NL>> ELSE row) \o (IF s.lineinc > 1 THEN genline(next) ELSE "")
      /\ cursource' = <<next>> \o Tail(cursource)
      /\ trp' = <<>>
      /\ UNCHANGED input

NextRow(x) == trp' = x.row /\ cursource' = <<x.src>> \o Tail(cursource) /\ Report(x.bad)
ReadRow ==
  /\ ~done /\ trp = <<>>
  /\ NextRow(gettokens([Row EXCEPT !.src.lineinc = 0]))
  /\ UNCHANGED <<input, nlist, ifdepth, ifsatisfied, skipping, out>>

Reading == ~done /\ trp # <<>>
AtEnd == Reading /\ Head(trp).type = "END"

EndOfInclude ==
  /\ AtEnd /\ Len(cursource) > 1
  /\ LET s == cursource[2]
         next == [s EXCEPT !.line = @ + s.lineinc]
     IN  cursource' = <<next>> \o SubSeq(cursource, 3, Len(cursource)) /\ out' = out \o genline(next)
  /\ Report(IF Head(cursource).ifdepth # 0 THEN {"error"} ELSE {})
  /\ trp' = <<>>
  /\ UNCHANGED <<input, nlist, ifdepth, ifsatisfied, skipping>>

EndOfInput ==
  /\ AtEnd /\ Len(cursource) = 1
  /\ reported' = reported \union (IF ifdepth # 0 THEN {"error"} ELSE {})
  /\ done' = TRUE
  /\ UNCHANGED <<input, cursource, trp, nlist, ifdepth, ifsatisfied, skipping, out>>

PutRow(x) == EndTurn(x.row, x.src) /\ Report(x.bad)
TextRow ==
  /\ Reading /\ Head(trp).type \notin {"END", "#"}
  /\ UNCHANGED <<nlist, ifdepth, ifsatisfied, skipping>>
  /\ PutRow(IF skipping = 0 THEN expandrow(Row) ELSE Row)
-------------------------------------------------------------------------------
\* Directives: control().
Keywords == {"if", "ifdef", "ifndef", "elif", "else", "endif", "include", "define", "undef", "line", "error", "pragma", "eval", "ident"}
Conditionals == {"if", "ifdef", "ifndef"}
Directive(words) == Reading /\ Head(trp).type = "#" /\ trp[2].type = "NAME" /\ trp[2].text \in words
Obeyed(words) == Directive(words) /\ skipping = 0
EndDirective(row, bad) == EndTurn(row, Head(cursource)) /\ Report(bad)
Errors(wrong) == IF wrong THEN {"error"} ELSE {}
Deeper(by) == [Head(cursource) EXCEPT !.ifdepth = @ + by]

\* dodefine.
Parameters(from) ==
  LET ends == {i \in from .. Len(trp) : trp[i].type # (IF (i - from) % 2 = 0 THEN "NAME" ELSE ",")}
      end == Min(ends)
      empty == trp[from].type = ")"
  IN  [names |-> IF empty THEN <<>> ELSE [k \in 1 .. (end - from + 1) \div 2 |-> trp[from + 2 * (k - 1)]],
       right |-> empty \/ (trp[end].type = ")" /\ (end - from) % 2 = 1),
       next  |-> IF empty THEN from + 1 ELSE end + 1]
Define ==
  /\ Obeyed({"define"})
  /\ LET name == trp[3].text
         func == trp[4].type = "(" /\ ~trp[4].ws
         p == Parameters(5)
         body == SubSeq(trp, IF func THEN p.next ELSE 4, Len(trp) - (IF Last(trp).type = "NL" THEN 1 ELSE 0))
         m == Macro(func, IF func THEN normtokenrow(p.names) ELSE <<>>, normtokenrow(body))
         refused == trp[3].type # "NAME" \/ name \in {"defined", "__STDC__"} \union Builtins \/ (func /\ ~p.right)
         twice == \E i, j \in DOMAIN m.params : i < j /\ m.params[i].text = m.params[j].text
         redefined == name \in DOMAIN nlist /\
           \/ comparetokens(m.body, nlist[name].body)
           \/ func # nlist[name].func
           \/ func /\ comparetokens(p.names, nlist[name].params)
     IN  IF refused THEN UNCHANGED nlist /\ Report({"error"})
         ELSE nlist' = (name :> m) @@ nlist /\ Report(Errors(twice \/ redefined))
  /\ UNCHANGED <<ifdepth, ifsatisfied, skipping>>
  /\ EndTurn(<<NL>>, Head(cursource))

Undef ==
  /\ Obeyed({"undef"})
  /\ LET right == trp[3].type = "NAME" /\ Len(trp) = 4
     IN  /\ nlist' = IF right THEN Restrict(nlist, DOMAIN nlist \ {trp[3].text}) ELSE nlist
         /\ Report(Errors(~right))
  /\ UNCHANGED <<ifdepth, ifsatisfied, skipping>>
  /\ EndTurn(<<NL>>, Head(cursource))

\* A condition: what it is worth decides the group; one deeper than the limit is fatal.
OpenGroup(e, depth) ==
  /\ ifdepth' = depth
  /\ ifsatisfied' = [ifsatisfied EXCEPT ![depth] = IF e.val # 0 THEN 1 ELSE 0]
  /\ skipping' = IF e.val # 0 THEN 0 ELSE depth
  /\ EndTurn(<<NL>>, Deeper(1)) /\ Report(e.bad)
  /\ UNCHANGED nlist
If ==
  /\ Obeyed(Conditionals)
  /\ IF ifdepth + 1 < NIF THEN OpenGroup(eval(Row), ifdepth + 1)
     ELSE Report({"fatal"}) /\ UNCHANGED <<input, cursource, trp, nlist, ifdepth, ifsatisfied, skipping, out>>

\* A group in a skipped one is counted and no more.
SkippedIf ==
  /\ Directive(Conditionals) /\ skipping # 0
  /\ ifdepth' = ifdepth + 1
  /\ UNCHANGED <<nlist, ifsatisfied, skipping>>
  /\ EndTurn(trp, Deeper(1)) /\ Report(IF ifdepth' >= NIF THEN {"fatal"} ELSE {})

\* #elif and #else of the group that is skipped are obeyed.
OfThisGroup == skipping = 0 \/ ifdepth <= skipping

NextGroup(e) ==
  LET takes == e.val # 0 /\ ifsatisfied[ifdepth] = 0
  IN  /\ skipping' = IF takes THEN 0 ELSE ifdepth
      /\ ifsatisfied' = IF takes THEN [ifsatisfied EXCEPT ![ifdepth] = 1] ELSE ifsatisfied
      /\ EndDirective(<<NL>>, e.bad \union Errors(ifsatisfied[ifdepth] = 2))
Elif ==
  /\ Directive({"elif"}) /\ OfThisGroup
  /\ UNCHANGED <<nlist, ifdepth>>
  /\ IF ifdepth # 0 THEN NextGroup(eval(Row)) ELSE UNCHANGED <<ifsatisfied, skipping>> /\ EndDirective(trp, {"error"})

Unopened == ifdepth = 0 \/ Head(cursource).ifdepth = 0

Else ==
  /\ Directive({"else"}) /\ OfThisGroup
  /\ UNCHANGED <<nlist, ifdepth>>
  /\ IF Unopened THEN UNCHANGED <<ifsatisfied, skipping>> /\ EndDirective(trp, {"error"})
     ELSE /\ skipping' = IF ifsatisfied[ifdepth] # 0 THEN ifdepth ELSE 0
          /\ ifsatisfied' = [ifsatisfied EXCEPT ![ifdepth] = 2]
          /\ EndDirective(<<NL>>, Errors(ifsatisfied[ifdepth] = 2 \/ Len(trp) # 3))

Endif ==
  /\ Obeyed({"endif"})
  /\ UNCHANGED <<nlist, ifsatisfied, skipping>>
  /\ IF Unopened THEN UNCHANGED ifdepth /\ EndDirective(trp, {"error"})
     ELSE /\ ifdepth' = ifdepth - 1
          /\ EndTurn(<<NL>>, Deeper(-1)) /\ Report(IF Len(trp) # 3 THEN {"warning"} ELSE {})

SkippedEndif ==
  /\ Directive({"endif"}) /\ skipping # 0
  /\ ifdepth' = ifdepth - 1
  /\ skipping' = IF ifdepth' < skipping THEN 0 ELSE skipping
  /\ UNCHANGED <<nlist, ifsatisfied>>
  /\ EndTurn(<<NL>>, Deeper(-1)) /\ Report({})

\* doinclude. The name is a string, or what stands between < and >; macros may give it.
IncludeName(row) ==
  LET close == From(row, 4, LAMBDA j : row[j].type = ">")
      name == FoldLeft(LAMBDA text, t : text \o t.text, "", SubSeq(row, 4, close - 1))
      string == row[3].type = "STRING"
      last == IF string THEN 3 ELSE close
      known == string \/ (row[3].type = "<" /\ close <= Len(row))
  IN  [name  |-> IF string THEN SubSeq(row[3].text, 2, Len(row[3].text) - 1) ELSE name,
       right |-> known /\ last + 1 >= Len(row)]

Included(n, bad) ==
  LET s == Head(cursource)
      new == setsource(n.name, TextsOf(input)[n.name])
      found == n.right /\ n.name \in DOMAIN TextsOf(input)
      deep == Len(cursource) > MaxInclude
      next == [s EXCEPT !.line = @ + s.lineinc]
  IN  /\ cursource' = IF found THEN <<new>> \o cursource ELSE <<next>> \o Tail(cursource)
      /\ out' = out \o (IF found THEN genline(new) ELSE IF s.lineinc > 1 THEN genline(next) ELSE "")
      /\ Report(bad \union Errors(~found) \union (IF found /\ deep THEN {"fatal"} ELSE {}))
IncludeRow(x) == Included(IncludeName(x.row), x.bad)
Include ==
  /\ Obeyed({"include"})
  /\ UNCHANGED <<input, nlist, ifdepth, ifsatisfied, skipping>>
  /\ trp' = <<>>
  /\ IncludeRow(IF trp[3].type \in {"STRING", "<"} THEN Row
                ELSE expandrow([Row EXCEPT !.tp = 3, !.src = setsource("<include>", "")]))

\* #line, and the same without the word: the row is passed on, and counts for __LINE__ and __FILE__.
LineRow(x, i) ==
  LET row == x.row
      right == i < Len(row) /\ row[i].type = "NUMBER" /\ i + 3 > Len(row) /\ (i + 2 = Len(row) => row[i + 1].type = "STRING")
      s == Head(cursource)
      renamed == row[i + 1].type = "STRING"
      name == SubSeq(row[i + 1].text, 2, Len(row[i + 1].text) - 1)
      number == DigitsValue(row[i].text, 1, Len(row[i].text), 10)
      many == IF number \in 1 .. 32768 THEN {} ELSE {"warning"}
  IN  IF right
      THEN EndTurn(row, [s EXCEPT !.line = number - 1, !.filename = IF renamed THEN name ELSE @]) /\ Report(x.bad \union many)
      ELSE EndTurn(row, s) /\ Report(x.bad \union {"error"})

Line ==
  /\ UNCHANGED <<nlist, ifdepth, ifsatisfied, skipping>>
  /\ \/ Obeyed({"line"}) /\ LineRow(expandrow([Row EXCEPT !.tp = 3, !.src = setsource("<line>", "")]), 3)
     \/ Reading /\ Head(trp).type = "#" /\ trp[2].type = "NUMBER" /\ LineRow(Row, 2)

\* The directives that change nothing; an unknown one is only warned of, also in a skipped group.
Other ==
  /\ UNCHANGED <<nlist, ifdepth, ifsatisfied, skipping>>
  /\ \/ Obeyed({"error"}) /\ EndDirective(<<NL>>, {"warning"})
     \/ Obeyed({"eval"}) /\ EndDirective(<<NL>>, eval(Row).bad)
     \/ Obeyed({"pragma", "ident"}) /\ EndDirective(trp, {})
     \/ Directive(Keywords \ (Conditionals \union {"endif", "elif", "else"})) /\ skipping # 0 /\ EndDirective(trp, {})
     \/ Directive({"elif", "else"}) /\ ~OfThisGroup /\ EndDirective(trp, {})
     \/ /\ Reading /\ Head(trp).type = "#" /\ trp[2].type = "NAME" /\ trp[2].text \notin Keywords
        /\ EndDirective(trp, IF skipping # 0 /\ trp[2].text \in DOMAIN nlist THEN {} ELSE {"warning"})
     \/ /\ Reading /\ Head(trp).type = "#" /\ trp[2].type \notin {"NAME", "NUMBER"}
        /\ EndDirective(trp, IF trp[2].type = "NL" THEN {} ELSE {"error"})

Stopped == done /\ UNCHANGED vars

Next ==
  \/ ReadRow \/ EndOfInclude \/ EndOfInput \/ TextRow
  \/ Define \/ Undef \/ If \/ SkippedIf \/ Elif \/ Else \/ Endif \/ SkippedEndif \/ Include \/ Line \/ Other
  \/ Stopped

Spec == Init /\ [][Next]_vars
===============================================================================
