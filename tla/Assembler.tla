------------------------------- MODULE Assembler -------------------------------
(***************************************************************************)
(* The assembler, binutils/asm.c with labels.c, token.c and sections.c.    *)
(* One step is one turn of the loop of assemble(): a word of the source    *)
(* and the words the handler of that word takes after it.  The source is   *)
(* chosen word by word as it is read.                                      *)
(***************************************************************************)
EXTENDS Encoding, ObjectFormat, FiniteSets

CONSTANTS
  Vocabulary,     \* set of words a source is made of
  Texts,          \* set of quoted texts, each a sequence of characters
  Alphabet,       \* the names of sections as they are kept, in the order of strcmp
  Truncated,      \* what create_section keeps of each name of a section
  ExecutableName, \* the names of sections that begin with "text", and start_section
  MaxSectionSize, \* 65534: more bytes are an overflow
  MaxTurns        \* bound: turns of the loop before the source ends

VARIABLES
  phase,
  ungot,           \* the word given back with unget_token, if any
  eof_hit,
  expect_arg_n,
  expect_arg_size,
  sections,        \* as in the array sections
  current_section, \* 0 for NULL
  current_label_id,
  file,            \* the object file
  turns,
  items,           \* history: what each word that begins an item takes up
  meant            \* history: the words written for the uses of labels

\* The values of a uint16_t: positions, ids, offsets.
WordSize == 65536

ASSUME SourceAssumption ==
  /\ \A t \in Vocabulary :
       /\ t.kind = "number" => t.value \in Int
       /\ t.kind = "use" => t.terms \in Seq([sign : {"+", "-"}, value : Int])
  /\ \A text \in Texts : DOMAIN text = 1 .. Len(text) /\ Len(text) \in Nat

ASSUME SizeAssumption == MaxSectionSize \in 0 .. WordSize - 2

ASSUME SectionAssumption ==
  /\ "" \in DOMAIN Truncated
  /\ \A name \in DOMAIN Truncated : Truncated[name] \in DOMAIN Alphabet

vars == <<phase, ungot, eof_hit, expect_arg_n, expect_arg_size, sections, current_section,
          current_label_id, file, turns, items, meant>>

operands == <<expect_arg_n, expect_arg_size>>
history == <<items, meant>>

\* The empty word get_next_token returns at the end of the file.
End == [kind |-> "end"]

Label(name, id) ==
  [name |-> name, id |-> id, position |-> 0, present |-> FALSE, export |-> FALSE,
   import |-> FALSE]

Init ==
  /\ phase = "assemble" /\ ungot = {} /\ eof_hit = FALSE
  /\ expect_arg_n = 0 /\ expect_arg_size = 0
  /\ sections = <<>> /\ current_section = 0 /\ current_label_id = 0
  /\ file = <<>> /\ turns = 0 /\ items = <<>> /\ meant = <<>>
-------------------------------------------------------------------------------
\* Words.

\* get_next_token, when the words before it ended the file or did not.
get_next_token(ended) ==
  IF ended \/ turns >= MaxTurns THEN {End} ELSE Vocabulary \union {End}

\* A turn takes the word that was given back, else the next one.
Word(t) ==
  /\ phase = "assemble"
  /\ t \in IF ungot # {} THEN ungot ELSE get_next_token(eof_hit)
  /\ turns' = turns + 1

\* The turn takes no other word.
Alone(t) == eof_hit' = (eof_hit \/ t = End) /\ ungot' = {}

\* The turn takes word a as well.
Argument == get_next_token(eof_hit)
With(a) == eof_hit' = (eof_hit \/ a = End)

\* strtol: what does not begin with a number is 0.
Number(a) == IF a.kind = "number" THEN a.value ELSE 0

\* panic, a failed assertion or a dereferenced NULL: no object file is written.
Panic ==
  /\ phase' = "failed"
  /\ UNCHANGED <<operands, sections, current_section, current_label_id, file, history>>

gen_jmp_code(w) ==
  IF w.kind = "name" /\ w.name \in DOMAIN Conditions THEN Conditions[w.name] ELSE 0

Known(op) == op \in ToSet(opcodes_0) \union ToSet(opcodes_2) \union ToSet(opcodes_3)
-------------------------------------------------------------------------------
\* Sections and labels.

Current == sections[current_section]

\* The section after some bytes were emitted.
Emitted(sect, bytes) ==
  LET from == sect.data_pos
  IN  [sect EXCEPT !.data_pos = from + Len(bytes),
                   !.bytes = [k \in DOMAIN @ \union (from .. from + Len(bytes) - 1) |->
                                IF k >= from /\ k < from + Len(bytes)
                                THEN bytes[k - from + 1] ELSE @[k]]]

\* Without a section, or with one that is full, emit panics.
Emits(bytes) ==
  bytes = <<>> \/ (current_section # 0 /\ Current.data_pos + Len(bytes) <= MaxSectionSize)

emit(bytes, then) ==
  IF ~Emits(bytes) THEN Panic
  ELSE /\ sections' = IF bytes = <<>> THEN sections
                      ELSE [sections EXCEPT ![current_section] = Emitted(@, bytes)]
       /\ then

\* The item that begins at the current position takes up so many bytes.
Begins(length) ==
  items' = IF current_section = 0 THEN items
           ELSE Append(items, [sect |-> current_section, at |-> Current.data_pos, length |-> length])

\* Mutant: only the newest entry is compared.
find_label_Newest(name, sect) ==
  {i \in DOMAIN sect.labels : sect.labels[i].name = name /\ i = Len(sect.labels)}

find_label(name, sect) == {i \in DOMAIN sect.labels : sect.labels[i].name = name}

\* The section in which the label has an entry: find_label, else create_new_label.
Registered(name, sect) ==
  IF find_label(name, sect) # {} THEN sect
  ELSE [sect EXCEPT !.labels = Append(@, Label(name, current_label_id))]

\* A name is written with no sign in it.
Plain(name) == <<name, <<>>>>

\* The entry of a name that has one: names are met once.
Entry(name, sect) == CHOOSE i \in find_label(name, sect) : TRUE

NextLabelId(name, sect) ==
  IF find_label(name, sect) = {} THEN (current_label_id + 1) % WordSize ELSE current_label_id

NewSection(name) ==
  [name |-> Truncated[name], executable |-> name \in ExecutableName,
   bytes |-> <<>>, data_pos |-> 0, labels |-> <<>>, mask |-> <<>>]

\* Mutant: only the section made last is compared.
select_section_LastOnly(name) ==
  LET same == {i \in DOMAIN sections : sections[i].name = name /\ i = Len(sections)}
  IN  IF same # {}
      THEN /\ current_section' = CHOOSE i \in same : \A j \in same : i <= j
           /\ UNCHANGED <<sections>>
      ELSE /\ current_section' = Len(sections) + 1
           /\ sections' = Append(sections, NewSection(name))

\* select_section: the whole name is compared with what was kept of the others.
select_section(name) ==
  LET same == {i \in DOMAIN sections : sections[i].name = name}
  IN  IF same # {}
      THEN /\ current_section' = CHOOSE i \in same : \A j \in same : i <= j
           /\ UNCHANGED <<sections>>
      ELSE /\ current_section' = Len(sections) + 1
           /\ sections' = Append(sections, NewSection(name))
-------------------------------------------------------------------------------
\* Comments and labels.

\* skip_comment: the rest of the line is gone.
Comment ==
  \E t \in Vocabulary \union ungot :
    /\ Word(t) /\ Alone(t) /\ t.kind = "comment"
    /\ UNCHANGED <<phase, operands, sections, current_section, current_label_id, file, history>>

\* mark_label_position
PositionLabel ==
  \E t \in Vocabulary \union ungot :
    /\ Word(t) /\ Alone(t) /\ t.kind = "label"
    /\ IF current_section = 0 THEN Panic
       ELSE /\ LET sect == Registered(Plain(t.name), Current)
                   i == Entry(Plain(t.name), sect)
               IN  sections' = [sections EXCEPT ![current_section] =
                     [sect EXCEPT !.labels[i].position = Current.data_pos % WordSize,
                                  !.labels[i].present = TRUE]]
            /\ current_label_id' = NextLabelId(Plain(t.name), Current)
            /\ UNCHANGED <<phase, operands, current_section, file, history>>

\* Mutant: every term counts as an addition.
Term_Added(term) == term.value

Term(term) == IF term.sign = "-" THEN -term.value ELSE term.value

\* The first sign looked for is +, and - only where there is no + any more: a
\* subtraction before an addition is not seen.
Seen(terms, i) == terms[i].sign = "+" \/ \A j \in i + 1 .. Len(terms) : terms[j].sign = "-"

Cut(terms) == {i \in DOMAIN terms : \A j \in DOMAIN terms : Seen(terms, j) => i < j}

\* calculate_offset_sum
calculate_offset_sum(terms) ==
  LET sum[i \in 0 .. Len(terms)] ==
        IF i = 0 THEN 0 ELSE sum[i - 1] + (IF Seen(terms, i) THEN Term(terms[i]) ELSE 0)
  IN  sum[Len(terms)]

\* The name ends where the first sign was found: what stands before it is taken for a
\* part of the name.
UsedName(t) == <<t.name, SubSeq(t.terms, 1, Cardinality(Cut(t.terms)))>>

\* Mutant: the address is noted after the id was emitted.
mark_label_use_Late(t, sect) ==
  LET used == Registered(UsedName(t), sect)
  IN  [used EXCEPT !.mask = Append(@, [addr |-> (sect.data_pos + 2) % WordSize,
                                       offset |-> calculate_offset_sum(t.terms) % WordSize])]

mark_label_use(t, sect) ==
  LET used == Registered(UsedName(t), sect)
  IN  [used EXCEPT !.mask = Append(@, [addr |-> sect.data_pos % WordSize,
                                       offset |-> calculate_offset_sum(t.terms) % WordSize])]

\* char: eight bits with a sign.
Decremented(n) == IF n = -128 THEN 127 ELSE n - 1

\* A label as an operand: the place is marked first, the size is tested after that and
\* forgotten in the end.
UseLabel ==
  \E t \in Vocabulary \union ungot :
    /\ Word(t) /\ Alone(t) /\ t.kind = "use"
    /\ IF current_section = 0 \/ expect_arg_size # 2 THEN Panic
       ELSE LET sect == mark_label_use(t, Current)
                id == sect.labels[Entry(UsedName(t), sect)].id
            IN  IF sect.data_pos + 2 > MaxSectionSize THEN Panic
                ELSE /\ sections' = [sections EXCEPT ![current_section] =
                                       Emitted(sect, <<id % 256, id \div 256>>)]
                     /\ current_label_id' = NextLabelId(UsedName(t), Current)
                     /\ expect_arg_size' = 0 /\ expect_arg_n' = Decremented(expect_arg_n)
                     /\ meant' = Append(meant, [sect |-> current_section,
                                                use |-> Len(sect.mask), word |-> t])
                     /\ UNCHANGED <<phase, current_section, file, items>>
-------------------------------------------------------------------------------
\* Literals.

\* Mutant: a literal does not count down.
TakeOperand_Keep(bytes) ==
  IF expect_arg_size = 0 THEN Panic
  ELSE emit(bytes, /\ expect_arg_n' = expect_arg_n
                   /\ UNCHANGED <<phase, expect_arg_size, current_section, current_label_id,
                                  file, history>>)

\* A literal where operands are expected, more of them than were asked for included.
TakeOperand(bytes) ==
  IF expect_arg_size = 0 THEN Panic
  ELSE emit(bytes, /\ expect_arg_n' = Decremented(expect_arg_n)
                   /\ UNCHANGED <<phase, expect_arg_size, current_section, current_label_id,
                                  file, history>>)

CharLiteral ==
  \E t \in Vocabulary \union ungot :
    /\ Word(t) /\ Alone(t) /\ t.kind = "char"
    /\ TakeOperand(IF expect_arg_size > 1 THEN <<t.value, 0>> ELSE <<t.value>>)

\* The result of strtol in a uint16_t.
ToWord(value) == value % WordSize

NumberLiteral ==
  \E t \in Vocabulary \union ungot :
    /\ Word(t) /\ Alone(t) /\ t.kind = "number"
    /\ LET word_literal == ToWord(t.value)
       IN  TakeOperand(IF expect_arg_size = 2 THEN WordOperand(word_literal)
                       ELSE <<word_literal % 256>>)
-------------------------------------------------------------------------------
\* Directives.

Directive(t, name) ==
  /\ Word(t) /\ t.kind = "directive" /\ t.name = name

\* Arguments must have come; the directives that act on a section need one.
Ready(needsSection) == expect_arg_n = 0 /\ (needsSection => current_section # 0)

\* .byte and .word
Expect ==
  \E t \in Vocabulary \union ungot : \E n \in {1, 2} :
    /\ Directive(t, IF n = 1 THEN "byte" ELSE "word") /\ Alone(t)
    /\ IF Ready(FALSE)
       THEN /\ expect_arg_size' = n /\ expect_arg_n' = 1
            /\ Begins(n)
            /\ UNCHANGED <<phase, sections, current_section, current_label_id, file, meant>>
       ELSE Panic

\* .skip, and .org with the position itself. Positions before the data are left out.
Move ==
  \E t \in Vocabulary \union ungot :
    /\ Directive(t, "org") \/ Directive(t, "skip")
    /\ ungot' = {}
    /\ \E a \in Argument :
         /\ With(a)
         /\ IF Ready(TRUE)
            THEN LET to == IF t.name = "org" THEN Number(a) ELSE Current.data_pos + Number(a)
                 IN  /\ to >= 0
                     /\ sections' = [sections EXCEPT ![current_section].data_pos = to]
                     /\ Begins(to - Current.data_pos)
                     /\ UNCHANGED <<phase, operands, current_section, current_label_id, file, meant>>
            ELSE Panic

\* get_quoted_text, for a character of the text.
Escapes == [n |-> 10, t |-> 9, a |-> 7, b |-> 8, r |-> 13, zero |-> 0]

get_quoted_text(c) == IF c.escaped /\ c.as \in DOMAIN Escapes THEN Escapes[c.as] ELSE c.char

\* .ascii: a text that the end of the file cuts off is an error.
Ascii ==
  \E t \in Vocabulary \union ungot :
    /\ Directive(t, "ascii") /\ Alone(t)
    /\ \/ Panic
       \/ \E text \in Texts :
            /\ expect_arg_n = 0
            /\ emit([i \in DOMAIN text |-> get_quoted_text(text[i])],
                    /\ Begins(Len(text))
                    /\ UNCHANGED <<phase, operands, current_section, current_label_id, file,
                                   meant>>)

\* The word behind .section; at the end of the file it is empty. Other words than names
\* of sections are left out.
SectionName(a) == IF a = End THEN "" ELSE a.name

\* .section
Section ==
  \E t \in Vocabulary \union ungot :
    /\ Directive(t, "section") /\ ungot' = {}
    /\ \E a \in Argument :
         /\ With(a)
         /\ a = End \/ (a.kind = "name" /\ a.name \in DOMAIN Truncated)
         /\ IF Ready(FALSE)
            THEN /\ select_section(SectionName(a))
                 /\ UNCHANGED <<phase, operands, current_label_id, file, history>>
            ELSE Panic

\* .export: the label must have been met in the section.
Export ==
  \E t \in Vocabulary \union ungot :
    /\ Directive(t, "export") /\ ungot' = {}
    /\ \E a \in Argument :
         /\ With(a)
         /\ IF Ready(TRUE) /\ a.kind = "name" /\ find_label(Plain(a.name), Current) # {}
            THEN /\ sections' = [sections EXCEPT ![current_section] =
                      [@ EXCEPT !.labels[Entry(Plain(a.name), Current)].export = TRUE]]
                 /\ UNCHANGED <<phase, operands, current_section, current_label_id, file, history>>
            ELSE Panic

\* mark_label_import
mark_label_import(a, sect) ==
  [sect EXCEPT !.labels = [i \in DOMAIN @ |->
     IF a.kind = "name" /\ @[i].name = Plain(a.name) THEN [@[i] EXCEPT !.import = TRUE] ELSE @[i]]]

\* .import: every section that knows the label.
Import ==
  \E t \in Vocabulary \union ungot :
    /\ Directive(t, "import") /\ ungot' = {}
    /\ \E a \in Argument :
         /\ With(a)
         /\ IF Ready(FALSE)
            THEN /\ sections' = [s \in DOMAIN sections |-> mark_label_import(a, sections[s])]
                 /\ UNCHANGED <<phase, operands, current_section, current_label_id, file, history>>
            ELSE Panic
-------------------------------------------------------------------------------
\* Instructions.

\* Mutant: the second operand of cmps2 is not waited for.
Expected_Cmps2Once(op) ==
  CASE op \in {"lit", "put_rel_sp", "get_rel_sp", "adjust_sp", "put_rel_sp_w",
               "get_rel_sp_w", "info", "alus1"} -> <<1, 1>>
    [] op \in {"litw", "jmp", "call"} -> <<1, 2>>
    [] op = "alus2" -> <<2, 1>>
    [] op = "cmps2" -> <<1, 1>>
    [] op = "alus3" -> <<3, 1>>
    [] OTHER -> <<0, 0>>

\* expect_arg_n and expect_arg_size after an instruction.
Expected(op) ==
  CASE op \in {"lit", "put_rel_sp", "get_rel_sp", "adjust_sp", "put_rel_sp_w",
               "get_rel_sp_w", "info", "alus1"} -> <<1, 1>>
    [] op \in {"litw", "jmp", "call"} -> <<1, 2>>
    [] op \in {"alus2", "cmps2"} -> <<2, 1>>
    [] op = "alus3" -> <<3, 1>>
    [] OTHER -> <<0, 0>>

Encoded(op, arg) ==
  emit(gen_instruction(op, arg),
       /\ expect_arg_n' = Expected(op)[1] /\ expect_arg_size' = Expected(op)[2]
       /\ Begins(Len(gen_instruction(op, arg)) + expect_arg(op))
       /\ UNCHANGED <<phase, current_section, current_label_id, file, meant>>)

Mnemonic(t) == t.kind = "name" /\ expect_arg_n = 0 /\ Known(t.name)

\* No such mnemonic, or one where operands are missing.
Refuse ==
  \E t \in Vocabulary \union ungot :
    /\ Word(t) /\ Alone(t)
    /\ \/ t.kind = "name" /\ ~Mnemonic(t)
       \/ t.kind = "directive" /\ t.name \notin {"byte", "word", "org", "skip", "ascii",
                                                 "section", "export", "import"}
    /\ Panic

PlainInstruction ==
  \E t \in Vocabulary \union ungot :
    /\ Word(t) /\ Alone(t) /\ Mnemonic(t)
    /\ ArgumentTable(t.name) = <<>> /\ ~TakesCondition(t.name)
    /\ Encoded(t.name, 0)

InstructionWithArgument ==
  \E t \in Vocabulary \union ungot :
    /\ Word(t) /\ ungot' = {} /\ Mnemonic(t)
    /\ ArgumentTable(t.name) # <<>>
    /\ \E a \in Argument :
         /\ With(a)
         /\ IF a.kind = "name" /\ Contains(ArgumentTable(t.name), a.name)
            THEN Encoded(t.name, find_keyword(ArgumentTable(t.name), a.name))
            ELSE Panic

\* A word that is no condition is given back.
Jump ==
  \E t \in Vocabulary \union ungot :
    /\ Word(t) /\ Mnemonic(t) /\ TakesCondition(t.name)
    /\ \E a \in Argument :
         /\ With(a)
         /\ ungot' = IF gen_jmp_code(a) = 0 THEN {a} ELSE {}
         /\ Encoded(t.name, gen_jmp_code(a))
-------------------------------------------------------------------------------
EndOfSource ==
  /\ Word(End) /\ Alone(End)
  /\ phase' = IF expect_arg_n = 0 THEN "write" ELSE "failed"
  /\ UNCHANGED <<operands, sections, current_section, current_label_id, file, history>>

\* The parts of a section as they are written: bytes never emitted are what malloc found.
Written(sect) ==
  [name |-> sect.name, executable |-> sect.executable, labels |-> sect.labels, mask |-> sect.mask,
   data |-> [k \in 1 .. sect.data_pos |->
               IF k - 1 \in DOMAIN sect.bytes THEN sect.bytes[k - 1] ELSE "unset"]]

\* The end of main()
WriteFile ==
  /\ phase = "write"
  /\ file' = Serialized([s \in DOMAIN sections |-> Written(sections[s])])
  /\ phase' = "done"
  /\ UNCHANGED <<ungot, eof_hit, operands, sections, current_section, current_label_id, turns,
                 history>>

Finished == phase \in {"done", "failed"} /\ UNCHANGED vars

Next ==
  \/ Comment \/ PositionLabel \/ UseLabel \/ CharLiteral \/ NumberLiteral
  \/ Expect \/ Move \/ Ascii \/ Section \/ Export \/ Import
  \/ Refuse \/ PlainInstruction \/ InstructionWithArgument \/ Jump
  \/ EndOfSource \/ WriteFile \/ Finished

Spec == Init /\ [][Next]_vars
-------------------------------------------------------------------------------
\* The last item of section s before item k, if there is one, and where it ends.
Previous(s, k) ==
  {j \in 1 .. k - 1 : items[j].sect = s /\ \A i \in j + 1 .. k - 1 : items[i].sect # s}

EndBefore(s, k) ==
  LET last == items[CHOOSE j \in Previous(s, k) : TRUE]
  IN  IF Previous(s, k) = {} THEN 0 ELSE last.at + last.length

\* An item begins, or the section ends, where the last item ends: expect_arg_n is a char
\* (asm.c:82), and only when it has counted 256 literals too many does it say that
\* none is missing or too many.
Meets(position, s, k) ==
  position = EndBefore(s, k) \/ position >= EndBefore(s, k) + 256

\* A source that is accepted gives every instruction and every .byte and .word exactly
\* the operand bytes the encoding wants: the items of a section lie one behind the other
\* and fill it (asm.c:401, 483, 490 against the counter that surplus literals drive
\* below zero), unless 256 literals stand where none belongs.
AcceptedIsExact ==
  phase \in {"write", "done"} =>
    /\ \A k \in DOMAIN items : Meets(items[k].at, items[k].sect, k)
    /\ \A s \in DOMAIN sections : Meets(sections[s].data_pos, s, Len(items) + 1)

\* Nothing was moved back over what had been emitted.
NeverBack == \A k \in DOMAIN items : items[k].length >= 0

\* The ids of labels are numbers of 16 bits.
LabelEntries == UNION {{s} \X DOMAIN sections[s].labels : s \in DOMAIN sections}

IdsSuffice == Cardinality(LabelEntries) <= WordSize

NoneAfterMinus(terms) ==
  \A i, j \in DOMAIN terms : i < j /\ terms[i].sign = "-" => terms[j].sign = "-"

Signed(term) == IF term.sign = "-" THEN -term.value ELSE term.value

SumOf(terms) ==
  LET sum[i \in 0 .. Len(terms)] == IF i = 0 THEN 0 ELSE sum[i - 1] + Signed(terms[i])
  IN  sum[Len(terms)]

\* Every label operand can be resolved the way the linker does it: at the place the mask
\* names lies the id of the one entry of that section for the name that was written, and
\* the mask has the offset that was written, unless it adds after it subtracted.  (Ids are
\* told apart as long as there are no more labels than ids.)
UsesResolve ==
  phase # "failed" /\ NeverBack /\ IdsSuffice =>
    \A k \in DOMAIN meant :
      LET sect == sections[meant[k].sect]
          mask == sect.mask[meant[k].use]
          id == sect.bytes[mask.addr] + 256 * sect.bytes[mask.addr + 1]
          named == {i \in DOMAIN sect.labels : sect.labels[i].id = id}
      IN  NoneAfterMinus(meant[k].word.terms) =>
            /\ \E i \in named : named = {i} /\ sect.labels[i].name = Plain(meant[k].word.name)
            /\ mask.offset = SumOf(meant[k].word.terms) % WordSize

\* A section is found again under its name, unless the name is longer than what is kept
\* of it (asm.c:41, 61).
OneSectionPerName ==
  \A i, j \in DOMAIN sections :
    /\ sections[i].name = sections[j].name
    /\ \A name \in DOMAIN Truncated : Truncated[name] = sections[i].name => Truncated[name] = name
    => i = j

\* The section as the linker knows it: the uses of labels with the entry they mean.
ObjectSection(sect) ==
  [name |-> sect.name, executable |-> sect.executable, size |-> sect.data_pos,
   labels |-> [i \in DOMAIN sect.labels |->
                 [name |-> sect.labels[i].name, present |-> sect.labels[i].present,
                  export |-> sect.labels[i].export, position |-> sect.labels[i].position]],
   uses |-> [k \in DOMAIN sect.mask |->
               LET id == sect.bytes[sect.mask[k].addr] + 256 * sect.bytes[sect.mask[k].addr + 1]
               IN  [label |-> CHOOSE i \in DOMAIN sect.labels : sect.labels[i].id = id,
                    offset |-> sect.mask[k].offset]]]

LabelNames(sect) == {sect.labels[i].name : i \in DOMAIN sect.labels}

Linked(names) == INSTANCE ObjectFiles WITH Input <- {}, LabelName <- names

\* .org and .skip stay below 64 KiB.
InRange == \A s \in DOMAIN sections : sections[s].data_pos < WordSize

\* What the assembler writes is what the linker takes for granted of an object file: one
\* entry for a name, uses of entries that are there, positions and sizes of 16 bits
\* (ObjectFiles).
FitForLinker ==
  phase = "write" /\ NeverBack /\ InRange =>
    LET names == UNION {LabelNames(sections[s]) : s \in DOMAIN sections}
    IN  Linked(names)!IsObjectFile([s \in DOMAIN sections |-> ObjectSection(sections[s])])

\* The linker reads back what was written, as long as the three sizes fit in 16 bits
\* (sections.c:16-21): from 911 labels in a section on they do not.
SizesFit(sect) ==
  /\ sect.data_pos < ByteSize * ByteSize
  /\ Len(sect.labels) * EntrySize < ByteSize * ByteSize
  /\ Len(sect.mask) * MaskEntrySize < ByteSize * ByteSize

ReadBack ==
  phase = "done" /\ (\A s \in DOMAIN sections : SizesFit(sections[s])) =>
    Deserialized(file, Len(sections)) = InMemory([s \in DOMAIN sections |-> Written(sections[s])])
===============================================================================
