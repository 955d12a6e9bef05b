------------------------------- MODULE Microcode -------------------------------
(***************************************************************************)
(* The microcode compiler, microcode/mc_compiler.cpp: from the lines of a  *)
(* source to the images of the chips that hold the microcode.  A line is   *)
(* the sequence of its words, comments and empty lines gone.  One step of  *)
(* the parser is a line of the source, one of process_dashes and compile a *)
(* line of microcode.  A word of microcode is the set of its bits that are *)
(* 1.                                                                      *)
(***************************************************************************)
EXTENDS Integers, FiniteSets, SequencesExt

CONSTANTS
  Sources,   \* set of sequences of lines
  CharsOf,   \* the characters of each word
  NumberOf,  \* what std::stoi makes of a word, for the words it does not throw on
  NoSection, \* the empty name of current_section
  Nul        \* the character behind the last one of a string

\* A line has a word and a word a character.  Shifts by 64 places or more, and by negative
\* ones, are undefined and left out.
ASSUME WordAssumption ==
  /\ Sources \subseteq Seq(Seq(DOMAIN CharsOf) \ {<<>>})
  /\ \A word \in DOMAIN CharsOf :
       CharsOf[word] \in Seq(Range(CharsOf[word])) /\ CharsOf[word] # <<>>
  /\ \A word \in DOMAIN NumberOf : NumberOf[word] \in 0 .. 63

VARIABLES
  source,
  phase,           \* "undefined" is a read or write outside an array, or a shift too far
  row,             \* the line the current walk is at
  current_section,
  config,          \* the std::maps of these names
  control_lines,
  alias,
  m_instr_lines,
  image,           \* the word at each address
  visited_mask,
  chips            \* the bytes of each chip, as sets of bits

vars == <<source, phase, row, current_section, config, control_lines, alias, m_instr_lines,
          image, visited_mask, chips>>

tables == <<config, control_lines, alias>>
results == <<image, visited_mask, chips>>

Empty == [x \in {} |-> x]
\* map[key] = value
Insert(map, key, value) ==
  [k \in DOMAIN map \union {key} |-> IF k = key THEN value ELSE map[k]]
\* config[key], which is 0 for a new key.
Config(key) == IF key \in DOMAIN config THEN config[key] ELSE 0

Digit(char) == IF char = "1" THEN 1 ELSE 0
\* str_to_bin: the number the leading 0s and 1s spell.
str_to_bin(chars) ==
  LET val[k \in 0 .. Len(chars)] ==
        IF k = 0 THEN 0
        ELSE IF \A pos \in 1 .. k : chars[pos] \in {"0", "1"}
        THEN 2 * val[k - 1] + Digit(chars[k])
        ELSE val[k - 1]
  IN  val[Len(chars)]

\* 1 << places
Shifted(places) ==
  LET val[k \in 0 .. places] == IF k = 0 THEN 1 ELSE 2 * val[k - 1]
  IN  val[places]

Stars(mask) == {pos \in DOMAIN mask : mask[pos] = "*"}
Expansions(mask) ==
  {[pos \in DOMAIN mask |-> IF pos \in Stars(mask) THEN choice[pos] ELSE mask[pos]] :
     choice \in [Stars(mask) -> {"0", "1"}]}
\* The addresses of get_address_vector; it lists them in increasing order.
get_address_vector(mask) == {str_to_bin(chars) : chars \in Expansions(mask)}
\* An address stands twice in the vector when a character ends the number before a star.
ListedTwice(mask) ==
  {adr \in get_address_vector(mask) :
     Cardinality({chars \in Expansions(mask) : str_to_bin(chars) = adr}) > 1}

-------------------------------------------------------------------------------
Init ==
  /\ source \in Sources
  /\ phase = "parse" /\ row = 1
  /\ current_section = NoSection
  /\ config = Empty /\ control_lines = Empty /\ alias = Empty
  /\ m_instr_lines = <<>>
  /\ image = <<>> /\ visited_mask = {} /\ chips = <<>>

\* exit(1), or the end of the program by an exception nobody catches
Refuse ==
  /\ phase' = "refused"
  /\ UNCHANGED <<source, row, current_section, tables, m_instr_lines, results>>

Undefined ==
  /\ phase' = "undefined"
  /\ UNCHANGED <<source, row, current_section, tables, m_instr_lines, results>>

words == source[row]
Reading == phase = "parse" /\ row <= Len(source)
NextLine == row' = row + 1 /\ UNCHANGED <<source, phase, results>>

SectionLine ==
  /\ Reading /\ words[1] = "section"
  /\ IF current_section # NoSection \/ Len(words) < 2
     THEN Refuse
     ELSE /\ current_section' = words[2]
          /\ NextLine /\ UNCHANGED <<tables, m_instr_lines>>

EndLine ==
  /\ Reading /\ words[1] = "end"
  /\ IF current_section = NoSection
     THEN Refuse
     ELSE /\ current_section' = NoSection
          /\ NextLine /\ UNCHANGED <<tables, m_instr_lines>>

InSection(name) ==
  Reading /\ words[1] \notin {"section", "end"} /\ current_section = name

ConfigLine ==
  /\ InSection("config")
  /\ IF Len(words) < 2 \/ words[2] \notin DOMAIN NumberOf
     THEN Refuse
     ELSE /\ config' = Insert(config, words[1], NumberOf[words[2]])
          /\ NextLine /\ UNCHANGED <<current_section, control_lines, alias, m_instr_lines>>

ControlLine ==
  /\ InSection("control_word")
  /\ IF Len(words) < 3 \/ words[1] \notin DOMAIN NumberOf
     THEN Refuse
     ELSE /\ control_lines' = Insert(control_lines, words[3],
                                [position |-> NumberOf[words[1]], active_level |-> words[2] = "H"])
          /\ NextLine /\ UNCHANGED <<current_section, config, alias, m_instr_lines>>

AliasLine ==
  /\ InSection("alias")
  /\ IF Len(words) < 2
     THEN Refuse
     ELSE /\ alias' = Insert(alias, words[1], Tail(words))
          /\ NextLine /\ UNCHANGED <<current_section, config, control_lines, m_instr_lines>>

-------------------------------------------------------------------------------
(***************************************************************************)
(* parse_microinstruction: words are strung together until they are as     *)
(* long as an address, and the rest are the control lines.                 *)
(***************************************************************************)
Strung(cnt) == FlattenSeq([k \in 1 .. cnt |-> CharsOf[words[k]]])
LongEnough == {cnt \in DOMAIN words : Len(Strung(cnt)) >= Config("address_width")}
AddressWords == Min(LongEnough)
Rest == SubSeq(words, AddressWords + 1, Len(words))
Meaning(id) == IF id \in DOMAIN alias THEN alias[id] ELSE <<id>>

CodeLine ==
  /\ InSection("code")
  /\ \/ /\ Config("address_width") = 0
        /\ Refuse
     \/ /\ Config("address_width") > 0 /\ LongEnough = {}
        /\ Undefined
     \/ /\ Config("address_width") > 0 /\ LongEnough # {}
        /\ IF \/ Len(Strung(AddressWords)) # Config("address_width")
              \/ Range(Rest) \ (DOMAIN alias \union DOMAIN control_lines) # {}
           THEN Refuse
           ELSE /\ m_instr_lines' = Append(m_instr_lines,
                      [first |-> Strung(AddressWords),
                       second |-> FlattenSeq([k \in DOMAIN Rest |-> Meaning(Rest[k])])])
                /\ NextLine /\ UNCHANGED <<current_section, tables>>

IgnoredLine ==
  /\ Reading /\ words[1] \notin {"section", "end"}
  /\ current_section \notin {"config", "control_word", "alias", "code"}
  /\ NextLine /\ UNCHANGED <<current_section, tables, m_instr_lines>>

EndOfFile ==
  /\ phase = "parse" /\ row > Len(source)
  /\ phase' = "dashes" /\ row' = 1
  /\ UNCHANGED <<source, current_section, tables, m_instr_lines, results>>

-------------------------------------------------------------------------------
(***************************************************************************)
(* process_dashes: a - is the character above it.  The line above may be   *)
(* shorter when the width has been changed between them.                   *)
(***************************************************************************)
Mask == m_instr_lines[row].first
Above == m_instr_lines[row - 1].first
Dashes == {pos \in DOMAIN Mask : Mask[pos] = "-"}
NothingAbove == {pos \in Dashes : row = 1 \/ (pos <= Len(Above) /\ Above[pos] = "*")}
CharAbove(pos) == IF pos <= Len(Above) THEN Above[pos] ELSE Nul

ProcessDashes ==
  /\ phase = "dashes" /\ row <= Len(m_instr_lines)
  /\ \/ NothingAbove # {} /\ Refuse
     \/ /\ NothingAbove = {} /\ \E pos \in Dashes : pos > Len(Above) + 1
        /\ Undefined
     \/ /\ NothingAbove = {} /\ \A pos \in Dashes : pos <= Len(Above) + 1
        /\ m_instr_lines' = [m_instr_lines EXCEPT ![row].first =
                               [pos \in DOMAIN Mask |-> IF pos \in Dashes THEN CharAbove(pos) ELSE Mask[pos]]]
        /\ row' = row + 1
        /\ UNCHANGED <<source, phase, current_section, tables, results>>

get_default_word ==
  {control_lines[name].position : name \in {n \in DOMAIN control_lines : ~control_lines[n].active_level}}

\* The width up to which 1 << width is an int.
IntWidth == 30

StartCompile ==
  /\ phase = "dashes" /\ row > Len(m_instr_lines)
  /\ IF Config("address_width") > IntWidth
     THEN Undefined
     ELSE /\ phase' = "compile" /\ row' = 1
          /\ image' = [adr \in 0 .. Shifted(Config("address_width")) - 1 |-> get_default_word]
          /\ visited_mask' = {}
          /\ UNCHANGED <<source, current_section, tables, m_instr_lines, chips>>

Drive(word, name) ==
  IF control_lines[name].active_level
  THEN word \union {control_lines[name].position}
  ELSE word \ {control_lines[name].position}

CompiledWord(names) ==
  LET word[k \in 0 .. Len(names)] ==
        IF k = 0 THEN get_default_word ELSE Drive(word[k - 1], names[k])
  IN  word[Len(names)]

\* A mutant: lines may take an address from one another.
Doubled_Overwrites == ListedTwice(Mask) \intersect DOMAIN image
\* The addresses at which the line at hand finds the mask set.
Doubled == (visited_mask \union ListedTwice(Mask)) \intersect get_address_vector(Mask) \intersect DOMAIN image

CompileLine ==
  LET names == m_instr_lines[row].second
      addresses == get_address_vector(Mask)
  IN /\ phase = "compile" /\ row <= Len(m_instr_lines)
     /\ IF ~(Range(names) \subseteq DOMAIN control_lines) \/ Doubled # {}
        THEN Refuse
        ELSE IF ~(addresses \subseteq DOMAIN image)
        THEN Undefined
        ELSE /\ image' = [adr \in DOMAIN image |->
                           IF adr \in addresses THEN CompiledWord(names) ELSE image[adr]]
             /\ visited_mask' = visited_mask \union addresses
             /\ row' = row + 1
             /\ UNCHANGED <<source, phase, current_section, tables, m_instr_lines, chips>>

-------------------------------------------------------------------------------
NChips == (Config("control_width") + 7) \div 8
BitsOf(word, chunk) == {bit \in 0 .. 7 : 8 * chunk + bit \in word}
split_8bit == [chunk \in 0 .. NChips - 1 |-> [adr \in DOMAIN image |-> BitsOf(image[adr], chunk)]]

Write ==
  /\ phase = "compile" /\ row > Len(m_instr_lines)
  /\ phase' = "written"
  /\ chips' = split_8bit
  /\ UNCHANGED <<source, row, current_section, tables, m_instr_lines, image, visited_mask>>

Done == phase \in {"written", "refused", "undefined"} /\ UNCHANGED vars

Next ==
  \/ SectionLine \/ EndLine \/ ConfigLine \/ ControlLine \/ AliasLine \/ CodeLine \/ IgnoredLine
  \/ EndOfFile \/ ProcessDashes \/ StartCompile \/ CompileLine \/ Write \/ Done

Spec == Init /\ [][Next]_vars
-------------------------------------------------------------------------------
(***************************************************************************)
(* What a source of microcode means, read off its lines without the order  *)
(* in which the compiler walks them: a line belongs to the section opened  *)
(* last, a name has its last definition, a dash is the character nearest   *)
(* above that is none, and an address holds the line whose pattern covers  *)
(* it.                                                                     *)
(***************************************************************************)
Bracket(i) == source[i][1] \in {"section", "end"}
SectionOf(i) ==
  LET brackets == {j \in 1 .. i - 1 : Bracket(j)}
  IN IF brackets = {} \/ source[Max(brackets)][1] = "end" THEN NoSection ELSE source[Max(brackets)][2]

LinesIn(name, i) == {j \in 1 .. i - 1 : ~Bracket(j) /\ SectionOf(j) = name}
End == Len(source) + 1
\* The last line of a section before line i that defines a name at place k.
Definitions(name, k, word, i) == {j \in LinesIn(name, i) : source[j][k] = word}

Setting(key, i) ==
  LET lines == Definitions("config", 1, key, i)
  IN IF lines = {} THEN 0 ELSE NumberOf[source[Max(lines)][2]]

Names(i) == {source[j][3] : j \in LinesIn("control_word", i)}
Definition(name) == source[Max(Definitions("control_word", 3, name, End))]
Position(name) == NumberOf[Definition(name)[1]]
ActiveHigh(name) == Definition(name)[2] = "H"

Aliases(i) == {source[j][1] : j \in LinesIn("alias", i)}
Stands(word, i) ==
  IF word \in Aliases(i)
  THEN Range(Tail(source[Max(Definitions("alias", 1, word, i))]))
  ELSE {word}

-------------------------------------------------------------------------------
Code == LinesIn("code", End)
Chars(i, cnt) == FlattenSeq([k \in 1 .. cnt |-> CharsOf[source[i][k]]])
AddressEnds(i) == {cnt \in DOMAIN source[i] : Len(Chars(i, cnt)) = Setting("address_width", i)}
Signals(i) ==
  {source[i][k] : k \in {l \in DOMAIN source[i] : \A cnt \in AddressEnds(i) : l > cnt}}
Named(i) == UNION {Stands(word, i) : word \in Signals(i)}

Pattern(i) == Chars(i, Min(AddressEnds(i)))
\* The line a character of a pattern is taken from.
Giver(i, pos) == {j \in Code : j <= i /\ Pattern(j)[pos] # "-"}
CharAt(i, pos) == Pattern(Max(Giver(i, pos)))[pos]

Width == Setting("address_width", End)
Addresses == 0 .. Shifted(Width) - 1
\* The binary digits of an address, the first the highest: by halving from the last one on.
Half(adr, n) ==
  LET half[k \in 0 .. n] == IF k = 0 THEN adr ELSE half[k - 1] \div 2
  IN  half[n]
BitAt(adr, pos) == IF Half(adr, Width - pos) % 2 = 1 THEN "1" ELSE "0"
Covers(i, adr) == \A pos \in 1 .. Width : CharAt(i, pos) \in {"*", BitAt(adr, pos)}

\* Sections opened and closed in turn, and as many words as a line of its section needs.
WellShapedLine(i) ==
  /\ source[i][1] = "section" => SectionOf(i) = NoSection /\ Len(source[i]) >= 2
  /\ source[i][1] = "end" => SectionOf(i) # NoSection
  /\ ~Bracket(i) =>
       /\ SectionOf(i) = "config" => Len(source[i]) >= 2 /\ source[i][2] \in DOMAIN NumberOf
       /\ SectionOf(i) = "control_word" => Len(source[i]) >= 3 /\ source[i][1] \in DOMAIN NumberOf
       /\ SectionOf(i) = "alias" => Len(source[i]) >= 2

WellShaped == \A i \in DOMAIN source : WellShapedLine(i)

WellFormedCode(i) ==
  /\ Setting("address_width", i) > 0 /\ AddressEnds(i) # {}
  /\ Signals(i) \subseteq Aliases(i) \union Names(i)
  /\ Named(i) \subseteq Names(End)
  /\ \A pos \in 1 .. Width :
       Giver(i, pos) # {} /\ (CharAt(i, pos) = "*" => Max(Giver(i, pos)) = i)

WellFormed ==
  /\ Width <= IntWidth
  /\ \A i \in Code : WellFormedCode(i)
  /\ \A adr \in Addresses : Cardinality({i \in Code : Covers(i, adr)}) <= 1

\* The sources the meaning is given for: one width throughout, patterns of 0, 1, * and -, and
\* no bit of the word that is active high under one name and low under another.
Plain ==
  /\ \A i \in Code : AddressEnds(i) # {} =>
       /\ Setting("address_width", i) = Width
       /\ Range(Pattern(i)) \subseteq {"0", "1", "*", "-"}
  /\ \A n, m \in Names(End) : Position(n) = Position(m) => ActiveHigh(n) = ActiveHigh(m)

\* Whether the bit of a signal is 1 in the chips at an address.
High(bit, adr) == (bit % 8) \in chips[bit \div 8][adr]
Asserted(bit, adr) == \E i \in Code : Covers(i, adr) /\ \E n \in Named(i) : Position(n) = bit

\* What is written is what was meant, and nothing else is written: the compiler writes an image
\* exactly when the source is well formed, in it every signal is active at the addresses whose line
\* names it and inactive at all others, and bits no signal has are 0.
ImageIsMicrocode ==
  /\ phase = "written" => WellShaped
  /\ phase = "written" /\ Plain =>
       /\ WellFormed
       /\ DOMAIN chips = 0 .. (Setting("control_width", End) + 7) \div 8 - 1
       /\ \A chip \in DOMAIN chips : DOMAIN chips[chip] = Addresses
       /\ \A bit \in 0 .. 8 * Cardinality(DOMAIN chips) - 1 : \A adr \in Addresses :
            High(bit, adr) <=> \E n \in Names(End) :
                                  Position(n) = bit /\ (ActiveHigh(n) <=> Asserted(bit, adr))
  /\ phase \in {"refused", "undefined"} /\ WellShaped => ~(Plain /\ WellFormed)
===============================================================================
