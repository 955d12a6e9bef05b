------------------------------ MODULE ObjectFiles ------------------------------
(***************************************************************************)
(* The object files the linker reads: sections.h, labels.h, and the        *)
(* lookups of labels.c.  An input is a sequence of files, a file a         *)
(* sequence of sections.  The bytes of a section are abstracted to their   *)
(* number and to its uses of labels, which occupy different bytes.         *)
(***************************************************************************)
EXTENDS Integers, Sequences

CONSTANTS
  Input,      \* set of inputs to link
  LabelName,  \* set of names of labels
  Alphabet    \* the names of sections, each with its place in the order of strcmp

\* uint16_t
WordSize == 65536
Word == 0 .. WordSize - 1

LabelEntry == [name : LabelName, present : BOOLEAN, export : BOOLEAN, position : Word]

\* A pair of the label mask, with the label whose id is found at its address.
Use == [label : Nat, offset : Word]

Section == [name : DOMAIN Alphabet, executable : BOOLEAN, size : Word,
            labels : Seq(LabelEntry), uses : Seq(Use)]

\* What create_new_label and mark_label_use leave in a section: one entry for a
\* name, and uses of entries that are there.
WellFormed(sect) ==
  /\ \A i, j \in DOMAIN sect.labels :
       sect.labels[i].name = sect.labels[j].name => i = j
  /\ \A k \in DOMAIN sect.uses : sect.uses[k].label \in DOMAIN sect.labels

IsObjectFile(file) ==
  /\ file \in Seq(Section)
  /\ \A j \in DOMAIN file : WellFormed(file[j])

\* is_section_executable looks at the name alone, and says yes to start_section.
ExecutableByName(files) ==
  \A f, g \in DOMAIN files : \A i \in DOMAIN files[f], j \in DOMAIN files[g] :
    /\ files[f][i].name = files[g][j].name => files[f][i].executable = files[g][j].executable
    /\ files[f][i].name = "start_section" => files[f][i].executable

ASSUME InputAssumption ==
  /\ Alphabet \in [DOMAIN Alphabet -> Nat]
  /\ \A s, t \in DOMAIN Alphabet : Alphabet[s] = Alphabet[t] => s = t
  /\ \A files \in Input :
       /\ files \in Seq(Seq(Section))
       /\ \A f \in DOMAIN files : IsObjectFile(files[f])
       /\ ExecutableByName(files)
-------------------------------------------------------------------------------
\* A section of an input is named by its file and its place in the file.
Nodes(files) == UNION {{f} \X DOMAIN files[f] : f \in DOMAIN files}

SectionAt(files, n) == files[n[1]][n[2]]

\* The entry of a section that has a name, if any (find_label).
find_label(files, n, name) ==
  {i \in DOMAIN SectionAt(files, n).labels : SectionAt(files, n).labels[i].name = name}

Defines(files, n, name) ==
  \E i \in find_label(files, n, name) : SectionAt(files, n).labels[i].present

Exports(files, n, name) ==
  \E i \in find_label(files, n, name) :
    SectionAt(files, n).labels[i].present /\ SectionAt(files, n).labels[i].export

\* The sections of file f that define a name, and those of any file that export it.
DefinersIn(files, f, name) == {n \in Nodes(files) : n[1] = f /\ Defines(files, n, name)}

Exporters(files, name) == {n \in Nodes(files) : Exports(files, n, name)}

\* Where a reference from file f to a name may lead: its own file comes first.
Candidates(files, f, name) ==
  IF DefinersIn(files, f, name) # {} THEN DefinersIn(files, f, name)
  ELSE Exporters(files, name)

\* The names a section refers to and does not define.
Needs(files, n) ==
  {SectionAt(files, n).labels[i].name :
     i \in {j \in DOMAIN SectionAt(files, n).labels :
              ~SectionAt(files, n).labels[j].present}}
===============================================================================
