------------------------------ MODULE MCCompiler ------------------------------
(***************************************************************************)
(* Units of C, one for each thing the compiler does that could go wrong,   *)
(* as the parser would build their trees. They read in and aux and leave   *)
(* their results in out and more.                                          *)
(***************************************************************************)
EXTENDS Compiler

Local(x) == Node("ADDRL", "P", 2, <<>>, Symbol(x, 0))
Formal(x) == Node("ADDRF", "P", 2, <<>>, Symbol(x, 0))
Extern(x) == Node("ADDRG", "P", 2, <<>>, Symbol(x, 0))

Of(t, size, a) == Node("INDIR", t, size, <<a>>, NoSymbol)
ValueOf(a) == Of("I", 2, a)
CharOf(a) == Of("I", 1, a)
LongOf(a) == Of("I", 4, a)
Number(n) == Node("CNST", "I", 2, <<>>, Symbol("", n))
CharNumber(n) == Node("CNST", "I", 1, <<>>, Symbol("", n))

Two(op, l, r) == Node(op, l.t, l.size, <<l, r>>, NoSymbol)
Add(l, r) == Two("ADD", l, r)
Sub(l, r) == Two("SUB", l, r)
Cast(op, t, size, e) == Node(op, t, size, <<e>>, NoSymbol)
Assign(a, e) == Node("ASGN", e.t, e.size, <<a, e>>, NoSymbol)
Comma(l, r) == Node("RIGHT", r.t, r.size, <<l, r>>, NoSymbol)
After(a, e) == Node("RIGHT", "I", 2, <<ValueOf(a), Assign(a, e)>>, Symbol("postfix", 0))
Test(op, l, r) == Node(op, "I", 2, <<l, r>>, NoSymbol)
IsSet(e) == Test("NE", e, Number(0))
Both(l, r) == Node("AND", "I", 2, <<l, r>>, NoSymbol)
Either(l, r) == Node("OR", "I", 2, <<l, r>>, NoSymbol)
Negation(e) == Node("NOT", "I", 2, <<e>>, NoSymbol)
\* e ? l : r through the variable t.
If(t, e, l, r) == Node("COND", "I", 2, <<e, Assign(Local(t), l), Assign(Local(t), r), ValueOf(Local(t))>>, NoSymbol)

ArgumentsOf(es) ==
  FoldLeft(LAMBDA before, e : Node("ARG", "I", e.size, IF before = NoTree THEN <<e>> ELSE <<e, before>>, NoSymbol),
           NoTree, es)
HasCall(es) == SelectSeq(es, LAMBDA e : e.op = "CALL")
CommaAll(es) == FoldLeft(Comma, es[1], Tail(es))

\* The call of this number in the unit.
CallOf(id, size, name, es) ==
  LET given == ArgumentsOf(es)
      all   == IF HasCall(es) = <<>> THEN given ELSE Comma(CommaAll(HasCall(es)), given)
      f     == IF es = <<>> THEN Extern(name) ELSE Comma(all, Extern(name))
  IN  Node("CALL", "I", size, <<f>>, Symbol("", id))

Expr(e) == [s |-> "expr", e |-> e]
Let(x, e) == Expr(Assign(Local(x), e))
Give(x, e) == Expr(Assign(Extern(x), e))
Block(locals, body) == [s |-> "block", locals |-> locals, body |-> body]
When(e, stmts) == [s |-> "if", e |-> e, then |-> Block(<<>>, stmts), else |-> <<>>]
Else(e, yes, no) == [s |-> "if", e |-> e, then |-> Block(<<>>, yes), else |-> <<Block(<<>>, no)>>]
While(e, body) == [s |-> "while", e |-> e, body |-> Block(<<>>, body)]
Do(body, e) == [s |-> "do", e |-> e, body |-> Block(<<>>, body)]
For(init, e, step, body) == [s |-> "for", init |-> init, e |-> e, step |-> step, body |-> Block(<<>>, body)]
Switch(e, body) == [s |-> "switch", e |-> e, body |-> Block(<<>>, body)]
Case(values, st) == [s |-> "case", values |-> values, body |-> st]
Default(st) == [s |-> "default", body |-> st]
Break == [s |-> "break"]
Continue == [s |-> "continue"]
Return(e) == [s |-> "return", e |-> Node("RET", e.t, e.size, <<e>>, NoSymbol)]

Vars(names) == [k \in DOMAIN names |-> [name |-> names[k], size |-> 2]]
Func(name, params, locals, body) ==
  [name |-> name, params |-> Vars(params), locals |-> Vars(locals), size |-> 2, body |-> body]

Words(names) == Vars(names)
StartsWith(name, n) == name :> S!Bytes(n % 65536, 2)
Zero(globals) == [name \in {g.name : g \in ToSet(globals)} |->
                    S!Bytes(0, (CHOOSE g \in ToSet(globals) : g.name = name).size)]
\* A unit of words in and aux, and the results.
UnitOf(functions, ins, auxs) ==
  LET globals == Words(<<"in", "aux", "out", "more">>)
  IN  [functions |-> functions, globals |-> globals,
       inputs |-> {StartsWith("in", i) @@ StartsWith("aux", a) @@ Zero(globals) : i \in ins, a \in auxs}]

In == ValueOf(Extern("in"))
Aux == ValueOf(Extern("aux"))
X == ValueOf(Local("x"))
Y == ValueOf(Local("y"))
N == ValueOf(Formal("n"))
-------------------------------------------------------------------------------
\* int x, y, *p; x = in; p = &x; y = *p + 1; x = y + 1; out = *p + 1; *p = aux; more = x + (y - in);
Aliases ==
  UnitOf(<<Func("main", <<>>, <<"x", "y", "p">>,
           LET p == Of("P", 2, Local("p"))
           IN  <<Let("x", In), Let("p", Local("x")), Let("y", Add(ValueOf(p), Number(1))),
                 Let("x", Add(Y, Number(1))), Give("out", Add(ValueOf(p), Number(1))),
                 Expr(Assign(p, Aux)), Give("more", Add(X, Sub(Y, In)))>>)>>,
         {5, -5}, {255, 256})

\* A sum used three times, in two statements, around an assignment that leaves it alone.
Common ==
  UnitOf(<<Func("main", <<>>, <<"x", "y">>,
           LET sum == Add(In, Aux)
           IN  <<Let("x", Add(sum, sum)), Let("y", Sub(Add(sum, X), sum)),
                 Give("out", Two("BXOR", Y, Two("BAND", sum, Number(4095)))),
                 Give("more", Two("BOR", Add(sum, Number(7)), Node("BCOM", "I", 2, <<sum>>, NoSymbol)))>>)>>,
         {255, -2}, {3, 700})

\* x = in != 0 && aux == 3 || !(in == 2 || aux != 4) ? aux : in, and its use in an if.
Decisions ==
  UnitOf(<<Func("main", <<>>, <<"x", "t">>,
           LET e == Either(Both(IsSet(In), Test("EQ", Aux, Number(3))),
                           Negation(Either(Test("EQ", In, Number(2)), Test("NE", Aux, Number(4)))))
           IN  <<Let("x", If("t", e, Aux, In)),
                 Else(Both(e, Test("NE", X, Number(4))), <<Give("out", Add(X, Number(100))), When(Test("EQ", In, Number(300)), <<Give("more", X)>>)>>,
                      <<When(Negation(e), <<Give("more", Number(1))>>), Give("out", X)>>)>>)>>,
         {0, 2, 300}, {3, 4})

\* for (x = 0; x < 6; x++) { if (x == in) continue; y = y + aux; if (y > 99) break; }
\* while (y > 30) y = y - 20;  do { y++; more = more + y; } while (y < in);
Loops ==
  UnitOf(<<Func("main", <<>>, <<"x", "y">>,
           <<Let("y", Number(0)),
             For(Assign(Local("x"), Number(0)), Test("LT", X, Number(6)), After(Local("x"), Add(X, Number(1))),
                 <<When(Test("EQ", X, In), <<Continue>>), Let("y", Add(Y, Aux)),
                   When(Test("GT", Y, Number(99)), <<Break>>)>>),
             While(Test("GT", Y, Number(30)), <<Let("y", Sub(Y, Number(20)))>>),
             Do(<<Expr(After(Local("y"), Add(Y, Number(1)))), Give("more", Add(ValueOf(Extern("more")), Y))>>,
                Test("LT", Y, In)),
             Give("out", Add(X, Y))>>)>>,
         {0, 4, 17}, {2, 40})

\* A switch with sparse cases in a loop: falling through, break, continue and default.
Switches ==
  UnitOf(<<Func("main", <<>>, <<"x">>,
           <<Let("x", In),
             While(Test("LT", X, Number(90)),
               <<Switch(X, <<Case(<<1>>, Give("out", Number(11))),
                             Case(<<40, 41>>, Give("more", Add(X, Aux))), Break,
                             Default(Let("x", Add(X, Number(7)))), Continue,
                             Case(<<80>>, Block(<<>>, <<Let("x", Number(100)), Break>>))>>),
                 Let("x", Add(X, Number(39)))>>)>>)>>,
         {0, 1, 2, 40, 80}, {5})

\* int f(int n, int k) { int x, y; if (n < 2) return n + k; x = f(n - 1, k); y = f(n - 2, k);
\*   return x + y; }
\* void g(int *p, int n) { *p = *p - n; }
\* main: x = f(in, f(aux, 1)); g(&x, f(2, in)); out = x;
Recursion ==
  LET n == N
      k == ValueOf(Formal("k"))
      f(id, es) == CallOf(id, 2, "f", es)
      p == Of("P", 2, Formal("p"))
  IN  UnitOf(<<Func("main", <<>>, <<"x">>,
                <<Let("x", f(1, <<In, f(2, <<Aux, Number(1)>>)>>)),
                  Expr(CallOf(3, 0, "g", <<Local("x"), f(4, <<Number(2), In>>)>>)),
                  Give("out", X)>>),
               Func("f", <<"n", "k">>, <<"x", "y">>,
                <<When(Test("LT", n, Number(2)), <<Return(Add(n, k))>>),
                  Let("x", f(5, <<Sub(n, Number(1)), k>>)), Let("y", f(6, <<Sub(n, Number(2)), k>>)),
                  Return(Add(X, Y))>>),
               [Func("g", <<"p", "n">>, <<>>, <<Expr(Assign(p, Sub(ValueOf(p), n)))>>) EXCEPT !.size = 0]>>,
             {0, 3}, {2})

\* Blocks that follow each other share their places, a nested one does not.
Blocks ==
  UnitOf(<<Func("main", <<>>, <<"x">>,
           LET z == ValueOf(Local("z")) w == ValueOf(Local("w"))
           IN  <<Let("x", In),
                 Block(Vars(<<"y">>), <<Let("y", Add(X, Aux)),
                   Block(Vars(<<"z">>), <<Let("z", Two("MUL", Y, Aux)), Let("y", Sub(z, X))>>),
                   Block(Vars(<<"w">>), <<Let("w", Add(Y, Number(1))), Let("x", Add(w, Y))>>)>>),
                 Block(Vars(<<"v">>), <<Let("v", Two("DIV", X, Aux)), Give("out", ValueOf(Local("v")))>>),
                 Give("more", X)>>)>>,
         {9, 258}, {5})

\* long a, b; char c; constants of four bytes are variables of their own (one, low).
\* a = lin + one; b = (lin - a) << 2; if (a < low) b = b - a; c = cin; out = c;
\* lout = b + out; cout = (unsigned)in >> 1; more = (int)a; b = in; lmore = b & lin;
Widths ==
  LET a == LongOf(Local("a")) b == LongOf(Local("b"))
      lin == LongOf(Extern("lin"))
      out == ValueOf(Extern("out"))
      v == [name |-> "a", size |-> 4]
      globals == <<[name |-> "lin", size |-> 4], [name |-> "one", size |-> 4], [name |-> "low", size |-> 4],
                   [name |-> "cin", size |-> 1], [name |-> "in", size |-> 2], [name |-> "lout", size |-> 4],
                   [name |-> "lmore", size |-> 4], [name |-> "cout", size |-> 1], [name |-> "out", size |-> 2],
                   [name |-> "more", size |-> 2]>>
      main == [name |-> "main", params |-> <<>>, size |-> 2,
               locals |-> <<[name |-> "a", size |-> 4], [name |-> "b", size |-> 4], [name |-> "c", size |-> 1]>>,
               body |-> <<
                 Let("a", Add(lin, LongOf(Extern("one")))),
                 Let("b", Node("LSH", "I", 4, <<Sub(lin, a), Number(2)>>, NoSymbol)),
                 When(Test("LT", a, LongOf(Extern("low"))), <<Let("b", Sub(b, a))>>),
                 Let("c", CharOf(Extern("cin"))),
                 Give("out", Cast("CVI", "I", 2, CharOf(Local("c")))),
                 Give("lout", Add(b, Cast("CVI", "I", 4, out))),
                 Give("cout", Cast("CVU", "U", 1, Node("RSH", "U", 2, <<Of("U", 2, Extern("in")), Number(1)>>, NoSymbol))),
                 Give("more", Cast("CVI", "I", 2, a)),
                 Let("b", Cast("CVI", "I", 4, In)),
                 Give("lmore", Two("BAND", b, lin))>>]
  IN  [functions |-> <<main>>, globals |-> globals,
       inputs |-> {("lin" :> l @@ "one" :> <<1, 0, 0, 0>> @@ "low" :> <<0, 0, 144, 0>> @@ "cin" :> <<c>>
                     @@ StartsWith("in", i)) @@ Zero(globals) :
                     l \in {<<255, 255, 0, 0>>, <<255, 255, 143, 0>>, <<1, 2, 3, 254>>}, c \in {127, 200}, i \in {300, -300}}]

-------------------------------------------------------------------------------
\* The step of a sort: exchange two numbers of the table of the test sort.c (lcc/tst) that
\* are not in order.
\* if (in > aux) { out = aux; more = in; } else { out = in; more = aux; }
Sorting ==
  LET table == {10, 32, -1, 567, 3, 18, 1, -51, 789, 0}
  IN  UnitOf(<<Func("main", <<>>, <<>>,
               <<Else(Test("GT", In, Aux), <<Give("out", Aux), Give("more", In)>>,
                                           <<Give("out", In), Give("more", Aux)>>)>>)>>,
             table, table)

\* After it the two are in increasing order, as the test says of its sort ("sort
\* a[0..n-1] into increasing order"): signed words are compared as numbers (cond_br).
IncreasingOrder == m.status = "halted" => S!Signed(Global("out")) <= S!Signed(Global("more"))

MCSorting == {Sorting}
-------------------------------------------------------------------------------
MCUnit == {Aliases, Common, Decisions, Loops, Switches, Recursion, Blocks, Widths}

MCRomAddr == 0 .. 799
MCRamAddr == 65400 .. 65535
===============================================================================
