-------------------------------- MODULE FrontEnd --------------------------------
(***************************************************************************)
(* The front end of lcc reading one source file: program() of decl.c and   *)
(* the statements of a function body (stmt.c). One action reads one        *)
(* declaration, the beginning or the end of a function or block, or one    *)
(* statement; finalize() follows the end of the file.                      *)
(*                                                                         *)
(* cc is the state of Symbols, fn the function whose body is read,         *)
(* functions those that have been. Not modelled here: statements that      *)
(* decide and loop (Statements has them), goto, labels.                    *)
(***************************************************************************)
EXTENDS Parser

CONSTANTS
  Files,        \* the source files, by name
  Begins(_),      \* the tokens a file begins with
  Ends(_),      \* the ends it may have
  TokensOf(_)    \* the tokens of an end

VARIABLES file, cc, fn, functions, done

vars == <<file, cc, fn, functions, done>>

NoFunction == [name |-> "", k |-> 0]
InFunction == fn # NoFunction
AtFileLevel == ~InFunction /\ ~done
InBody == InFunction /\ cc.level >= LOCALS

Init ==
  \E name \in Files :
    /\ file = [name |-> name, whole |-> FALSE, end |-> <<>>]
    /\ cc = Start(Begins(name))
    /\ fn = NoFunction
    /\ functions = <<>>
    /\ done = FALSE

\* The rest of the file: what was taken for its end is its next token.
Continue(name) ==
  /\ file.name = name
  /\ AtFileLevel /\ T(cc) = "EOI" /\ ~file.whole
  /\ \E end \in Ends(file.name) :
       /\ cc' = gettok([cc EXCEPT !.toks = SubSeq(@, 1, cc.i - 1) \o TokensOf(end) \o <<EOI, EOI>>, !.i = @ - 1])
       /\ file' = [file EXCEPT !.whole = TRUE, !.end = end]
  /\ UNCHANGED <<fn, functions, done>>

\* A declaration at file level; whether it defines a function is seen at its first declarator.
Declares(name) ==
  /\ file.name = name
  /\ AtFileLevel /\ T(cc) \notin {"EOI", ";"}
  /\ ~IsDefinition(FirstDeclarator(cc))
  /\ cc' = Declaration(cc)
  /\ UNCHANGED <<file, fn, functions, done>>

EmptyDeclaration(name) ==
  /\ file.name = name
  /\ AtFileLevel /\ T(cc) = ";"
  /\ cc' = gettok(cc)
  /\ UNCHANGED <<file, fn, functions, done>>

BeginsWith(d) ==
  LET k == Globally(d.s, d.id)
  IN  /\ cc' = OpenBlock(d.s)
      /\ fn' = [name |-> d.id, k |-> k, type |-> d.s.ids[k].type, params |-> d.params]
BeginFunction(name) ==
  /\ file.name = name
  /\ AtFileLevel /\ T(cc) \notin {"EOI", ";"}
  /\ IsDefinition(FirstDeclarator(cc))
  /\ BeginsWith(Definition(cc))
  /\ UNCHANGED <<file, functions, done>>

\* Declarations come first in a block; the code does not look for them after a statement.
StartsDeclaration(s) == istypename(s) \/ T(s) \in StaticKind
DeclareLocal(name) ==
  /\ file.name = name
  /\ InBody /\ StartsDeclaration(cc)
  /\ cc' = LocalDeclaration(cc)
  /\ UNCHANGED <<file, fn, functions, done>>

BeginBlock(name) ==
  /\ file.name = name
  /\ InBody /\ T(cc) = "{"
  /\ cc' = OpenBlock(cc)
  /\ UNCHANGED <<file, fn, functions, done>>

EndBlock(name) ==
  /\ file.name = name
  /\ InBody /\ T(cc) = "}" /\ cc.level > LOCALS
  /\ cc' = CloseBlock(cc)
  /\ UNCHANGED <<file, fn, functions, done>>

ReturnValue(name) ==
  /\ file.name = name
  /\ InBody /\ T(cc) = "return"
  /\ cc' = ReturnStatement(gettok(cc), freturn(fn.type))
  /\ UNCHANGED <<file, fn, functions, done>>

EmptyStatement(name) ==
  /\ file.name = name
  /\ InBody /\ T(cc) = ";"
  /\ cc' = gettok(cc)
  /\ UNCHANGED <<file, fn, functions, done>>

Expression(name) ==
  /\ file.name = name
  /\ InBody /\ ~StartsDeclaration(cc) /\ T(cc) \notin {"{", "}", ";", "return"}
  /\ cc' = ExpressionStatement(cc)
  /\ UNCHANGED <<file, fn, functions, done>>

Body(s) == [name |-> s.ids[fn.k].x, params |-> fn.params, locals |-> s.locals, code |-> s.code]
EndsAs(s) ==
  /\ functions' = Append(functions, Body(s))
  /\ cc' = CloseFunction(s, fn.k)
EndFunction(name) ==
  /\ file.name = name
  /\ InBody /\ T(cc) = "}" /\ cc.level = LOCALS
  /\ EndsAs(EndOfBody(cc, freturn(fn.type)))
  /\ fn' = NoFunction
  /\ UNCHANGED <<file, done>>

Finalize(name) ==
  /\ file.name = name
  /\ AtFileLevel /\ T(cc) = "EOI" /\ file.whole
  /\ cc' = finalize(cc)
  /\ done' = TRUE
  /\ UNCHANGED <<file, fn, functions>>

Next(name) ==
  \/ Continue(name)    \/ Declares(name) \/ EmptyDeclaration(name) \/ BeginFunction(name)
  \/ DeclareLocal(name) \/ BeginBlock(name)  \/ EndBlock(name)         \/ ReturnValue(name)
  \/ EmptyStatement(name) \/ Expression(name) \/ EndFunction(name)      \/ Finalize(name)

Spec == Init /\ [][\E name \in Files : Next(name)]_vars
===============================================================================
