-------------------------------- MODULE Compiler --------------------------------
(***************************************************************************)
(* The compiler at work on a unit, function by function: the body becomes  *)
(* a code list (funcdefn), every forest of it gets registers and slots     *)
(* (gencode), then text (emitcode). The texts are linked behind crt0 with  *)
(* the routines of the library they need, and the processor runs them.     *)
(*                                                                         *)
(* Trees and statements come as the parser builds them (FrontEnd).         *)
(***************************************************************************)
EXTENDS CpuProgram, RuntimeLibrary, Statements, Emission

S == INSTANCE CSemantics

\* Units [functions, globals, inputs]: main and the others, the globals as [name, size], and
\* the values [name |-> bytes] these may start with.
CONSTANT Unit

VARIABLES
  unit,      \* the unit compiled
  stage,     \* "parse", "gen", "emit", "run" or "failed"
  dag,       \* the front end: code list, nodes, labels
  gs,        \* the code generator
  pos,       \* the entry of the code list and the root in it that come next
  texts,     \* the functions compiled so far
  image,     \* what is linked: the code and the address of every label
  input      \* the values the globals start with

compilerVars == <<unit, stage, dag, gs, pos, texts, image, input>>
allVars == <<m, starts, frames, unit, stage, dag, gs, pos, texts, image, input>>

Function == unit.functions[Len(texts) + 1]

\* Through the code list, root by root.
Forest == dag.code[pos.entry].forest
AtRoot == pos.entry <= Len(dag.code) /\ pos.root <= Len(Forest)
AtEntry == pos.entry <= Len(dag.code) /\ pos.root > Len(Forest)
AtEnd == pos.entry > Len(dag.code)
First == [entry |-> 1, root |-> 1]
NextRoot == [pos EXCEPT !.root = @ + 1]
NextEntry == [entry |-> pos.entry + 1, root |-> 1]

Blank == PowerOn([adr \in RomAddr |-> 0], 0, FALSE)

CompilerInit ==
  /\ unit \in Unit
  /\ stage = "parse" /\ pos = First /\ texts = <<>> /\ image = <<>> /\ input = <<>>
  /\ dag = NoCode /\ gs = Generator(<<>>, 1)
  /\ m = Blank /\ starts = {} /\ frames = <<>>

Machine0 == UNCHANGED <<image, input, m, starts, frames>>

\* funcdefn(): the body of a function, statement by statement.
BeginFunction ==
  /\ stage = "parse" /\ Len(texts) < Len(unit.functions)
  /\ dag' = funcbegin(dag, Function)
  /\ stage' = "body" /\ pos' = First
  /\ UNCHANGED <<unit, gs, texts>> /\ Machine0

ParseStatement ==
  /\ stage = "body" /\ pos.entry <= Len(Function.body)
  /\ dag' = statement(dag, Function.body[pos.entry], 0)
  /\ pos' = NextEntry
  /\ UNCHANGED <<unit, stage, gs, texts>> /\ Machine0

EndBody ==
  /\ stage = "body" /\ pos.entry > Len(Function.body)
  /\ dag' = funcend(dag, Function)
  /\ gs' = [place |-> LocalPlaces(dag'.code).place, maxoffset |-> LocalPlaces(dag'.code).maxoffset,
            param |-> PlacesFrom(Function.params, 0).place, retsize |-> Function.size]
             @@ Generator(dag'.nodes, dag'.label)
  /\ stage' = "gen" /\ pos' = First
  /\ UNCHANGED <<unit, texts>> /\ Machine0

\* gencode(): every forest is fixed up and given its places.
GenRoot ==
  /\ stage = "gen" /\ AtRoot
  /\ gs' = gen(IF pos.root = 1 THEN [gs EXCEPT !.nodes = fixup(dag, @, Forest)] ELSE gs, Forest, pos.root)
  /\ pos' = NextRoot
  /\ stage' = IF gs'.failed THEN "failed" ELSE stage
  /\ UNCHANGED <<unit, dag, texts>> /\ Machine0

\* function(), between gencode and emitcode: the frame.
EmitFrame ==
  /\ stage = "gen" /\ AtEnd
  /\ gs' = [gs EXCEPT !.text = <<<<"label", Function.name>>>> \o Prologue(gs)]
  /\ stage' = IF 2 * gs.n_spill + gs.maxoffset > 255 THEN "failed" ELSE "emit"
  /\ pos' = First
  /\ UNCHANGED <<unit, dag, texts>> /\ Machine0

\* emitcode(): the text of every root.
EmitRoot ==
  /\ stage = "emit" /\ AtRoot
  /\ gs' = emit(gs, Forest[pos.root])
  /\ pos' = NextRoot
  /\ stage' = IF gs'.failed THEN "failed" ELSE stage
  /\ UNCHANGED <<unit, dag, texts>> /\ Machine0

\* Both go through the code list.
PassEntry ==
  /\ stage \in {"gen", "emit"} /\ AtEntry
  /\ pos' = NextEntry
  /\ UNCHANGED <<unit, stage, dag, gs, texts>> /\ Machine0

\* The end of function(); labels are numbered on in the next one.
EndFunction ==
  /\ stage = "emit" /\ AtEnd
  /\ texts' = Append(texts, gs.text \o Epilogue(gs))
  /\ dag' = [genlabel(dag, gs.label - dag.label) EXCEPT !.code = <<>>]
  /\ stage' = "parse" /\ pos' = First
  /\ UNCHANGED <<unit, gs>> /\ Machine0

\* crt0.s. main() has no room for its result there.
crt0 == <<<<"litw", "s", 65535>>, <<"call", "main">>, <<"halt">>>>

Text == Linked(crt0, Library \union ToSet(texts))

\* The globals lie behind the text (.skip).
Link ==
  /\ stage = "parse" /\ Len(texts) = Len(unit.functions)
  /\ stage' = "linked"
  /\ LET at == LabelAddress(Text, 0) @@ PlacesFrom(unit.globals, Size(Text)).place
         program == Resolved(Text, at)
     IN  /\ image' = [code |-> CodeOf(program), address |-> at]
         /\ starts' = StartsFrom(program, 0)
  /\ dag' = NoCode /\ gs' = Generator(<<>>, 1)
  /\ UNCHANGED <<unit, pos, texts, input, m, frames>>

\* The image is loaded with the globals set.
Start ==
  /\ stage = "linked" /\ stage' = "run"
  /\ \E given \in unit.inputs :
       LET Given(adr) == {name \in DOMAIN given : adr - image.address[name] \in 0 .. Len(given[name]) - 1}
           rom == [adr \in RomAddr |->
                     IF Given(adr) = {} THEN Loaded(image.code)[adr]
                     ELSE LET name == CHOOSE name \in Given(adr) : TRUE
                          IN  given[name][adr - image.address[name] + 1]]
       IN  input' = given /\ m' = PowerOn(rom, 0, FALSE)
  /\ UNCHANGED <<unit, dag, gs, pos, texts, image, starts, frames>>

Run == stage = "run" /\ ProgramNext /\ UNCHANGED compilerVars

CompilerNext ==
  \/ BeginFunction \/ ParseStatement \/ EndBody \/ GenRoot \/ EmitFrame \/ EmitRoot \/ PassEntry \/ EndFunction \/ Link \/ Start \/ Run

\* The compiler is one process that is run, and the simulator's loop goes on (weak fairness of
\* CompilerNext, spelled out as in Runtime).
Goes == \/ []<>(m.status # "running" \/ stage = "failed")
        \/ []<><<CompilerNext>>_allVars

CompilerSpec == CompilerInit /\ [][CompilerNext]_allVars /\ Goes
-------------------------------------------------------------------------------
Global(name) == LET v == input[name] IN [k \in DOMAIN v |-> m.mem[image.address[name] + k - 1]]

\* What the compiled program leaves in its globals is what C gives them: common
\* subexpressions, jumps, slots, calls and library routines together change nothing.
MeansC ==
  m.status = "halted" =>
    [name \in DOMAIN input |-> Global(name)] = S!Meaning(unit.functions, unit.globals, input)

\* Whenever the text of an operation is written, its operands are still where the generator
\* put them: no slot is given away while somebody will read it.
OperandsInPlace == gs.misread = {}

\* Between two forests the compiler's own count of what it pushed is back to zero: else every
\* place in the rest of the function is off.
StackCounted == stage = "emit" => gs.sp = 0

\* Every slot lies in the frame the prologue makes, and outside the locals.
FrameHoldsSlots ==
  stage = "emit" =>
    \A p \in gs.generated : \A s \in SlotsOf(gs.target[p], gs.nodes[p].size) : s < gs.n_spill

\* What a finished function jumps to it defines, once, however labels were equated and
\* dropped.
JumpsLand ==
  \A k \in DOMAIN texts :
    \A i \in DOMAIN texts[k] : texts[k][i][1] = "jmp" =>
      Cardinality({j \in DOMAIN texts[k] : texts[k][j] = <<"label", texts[k][i][3]>>}) = 1

\* The program never writes to its own text: only to globals and the stack, and main's
\* result, for which crt0 makes no room, to the first two bytes.
TextUntouched ==
  m.status = "halted" =>
    /\ \A adr \in 2 .. Len(image.code) - 1 : m.mem[adr] = image.code[adr + 1]
    /\ m.s = 65535

Terminates == <>(m.status = "halted")
===============================================================================
