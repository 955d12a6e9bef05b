-------------------------------- MODULE Linker ---------------------------------
(***************************************************************************)
(* The linker, binutils/link.c: list the sections by name, mark those the  *)
(* entry point needs, sort the lists, give every kept section its address, *)
(* patch the uses of labels, write the image.                              *)
(***************************************************************************)
EXTENDS ObjectFiles, FiniteSets

VARIABLES
  input,      \* the object files as loaded
  phase,      \* what main() is doing
  sects,      \* the index of each section list, by name, in the array sects
  used,       \* the sections marked as used
  stack,      \* the calls of require_section in progress: section and next label
  visited,    \* the sections the loop in progress has passed
  start,      \* the addresses of the sections
  c_off,      \* the running offset, a uint16_t
  position,   \* the positions of the labels of each section
  linked,     \* the words patched into each section so far
  written,    \* where in the image each section was written
  total_size  \* bytes written

vars == <<input, phase, sects, used, stack, visited, start, c_off, position,
          linked, written, total_size>>

Node == Nodes(input)
At(n) == SectionAt(input, n)
Names == {At(n).name : n \in Node}

Phase == {"build", "mark", "require", "offset", "link", "write", "done", "failed"}

MarkingTyped ==
  /\ phase \in Phase
  /\ sects \in [Names -> Nat]
  /\ used \subseteq Node /\ visited \subseteq used
  /\ stack \in Seq([node : used, next : Nat \ {0}])

OutputTyped ==
  /\ start \in [Node -> Word] /\ c_off \in Word
  /\ DOMAIN position = Node
  /\ \A n \in Node : position[n] \in [DOMAIN At(n).labels -> Word]
  /\ linked \in [Node -> Seq(Word)]
  /\ written \in [Node -> Nat] /\ total_size \in Nat

TypeOK == MarkingTyped /\ OutputTyped

Init ==
  /\ input \in Input
  /\ phase = "build"
  /\ sects = [name \in Names |-> 0]
  /\ used = {} /\ stack = <<>> /\ visited = {}
  /\ start = [n \in Node |-> 0] /\ c_off = 0
  /\ position = [n \in Node |-> [i \in DOMAIN At(n).labels |-> At(n).labels[i].position]]
  /\ linked = [n \in Node |-> <<>>]
  /\ written = [n \in Node |-> 0] /\ total_size = 0
-------------------------------------------------------------------------------
\* Orders of sections and of their names.

\* The order in which files are searched.
FileOrder(n, k) == n[1] < k[1] \/ (n[1] = k[1] /\ n[2] < k[2])

\* The order in which the lists are walked: by name, as sects has them, then by file.
ListOrder(n, k) ==
  \/ sects[At(n).name] < sects[At(k).name]
  \/ sects[At(n).name] = sects[At(k).name] /\ FileOrder(n, k)

\* Addition in a uint16_t; mutant: in something wider.
Add16_Wide(i, j) == i + j

Add16(i, j) == (i + j) % WordSize

IsFirst(n, S, Before(_, _)) == n \in S /\ \A k \in S \ {n} : Before(n, k)

\* The index of each name when the names are put in an order.
Arranged(Before(_, _)) ==
  [name \in Names |-> Cardinality({other \in Names : Before(other, name)})]

Executable(name) == \E n \in Node : At(n).name = name /\ At(n).executable

\* Mutant: data goes before code.
sect_comparator_DataFirst(a, b) ==
  \/ a = "start_section" /\ b # "start_section"
  \/ /\ b # "start_section"
     /\ \/ ~Executable(a) /\ Executable(b)
        \/ (Executable(a) <=> Executable(b)) /\ Alphabet[a] < Alphabet[b]

\* sect_comparator(a, b) < 0
sect_comparator(a, b) ==
  \/ a = "start_section" /\ b # "start_section"
  \/ /\ b # "start_section"
     /\ \/ Executable(a) /\ ~Executable(b)
        \/ (Executable(a) <=> Executable(b)) /\ Alphabet[a] < Alphabet[b]

\* A name gets its list when the first section of that name is met.
MetBefore(a, b) ==
  \E n \in Node : At(n).name = a /\ \A k \in Node : At(k).name = b => FileOrder(n, k)
-------------------------------------------------------------------------------
\* build_section_lists
BuildLists ==
  /\ phase = "build"
  /\ sects' = Arranged(MetBefore)
  /\ phase' = "mark"
  /\ UNCHANGED <<input, used, stack, visited, start, c_off, position, linked, written,
                 total_size>>

\* Mutant: a label found in another file need not be exported.
Provides_Unexported(n, f, name) ==
  IF DefinersIn(input, f, name) # {} THEN IsFirst(n, DefinersIn(input, f, name), FileOrder)
  ELSE IsFirst(n, {k \in Node : Defines(input, k, name)}, ListOrder)

\* The section require_label settles on for a reference from file f.
Provides(n, f, name) ==
  IF DefinersIn(input, f, name) # {} THEN IsFirst(n, DefinersIn(input, f, name), FileOrder)
  ELSE IsFirst(n, Exporters(input, name), ListOrder)

\* Mutant: the mark is not set before the section is looked into.
require_label_MarksLate(f, name, frames) ==
  \/ /\ Candidates(input, f, name) = {}
     /\ phase' = "failed"
     /\ UNCHANGED <<used, stack>>
  \/ \E n \in Node :
       /\ Provides(n, f, name)
       /\ used' = used
       /\ stack' = Append(frames, [node |-> n, next |-> 1])
       /\ phase' = "require"

\* require_label, called with the frames of its callers: a section not marked yet is
\* marked and looked into.
require_label(f, name, frames) ==
  \/ /\ Candidates(input, f, name) = {}
     /\ phase' = "failed"
     /\ UNCHANGED <<used, stack>>
  \/ \E n \in Node :
       /\ Provides(n, f, name)
       /\ used' = used \union {n}
       /\ stack' = IF n \in used THEN frames ELSE Append(frames, [node |-> n, next |-> 1])
       /\ phase' = "require"

\* mark_used_sects: the entry point is required from outside every file.
MarkEntry ==
  /\ phase = "mark"
  /\ require_label(0, "__entry", <<>>)
  /\ UNCHANGED <<input, sects, visited, start, c_off, position, linked, written, total_size>>

Top == stack[Len(stack)]

\* Mutant: the loop of require_section steps over every second label.
Advanced_Twice == [stack EXCEPT ![Len(stack)] = [node |-> @.node, next |-> @.next + 2]]

Advanced == [stack EXCEPT ![Len(stack)] = [node |-> @.node, next |-> @.next + 1]]

\* One turn of the loop of require_section.
RequireNext ==
  /\ phase = "require" /\ stack # <<>>
  /\ Top.next <= Len(At(Top.node).labels)
  /\ LET label == At(Top.node).labels[Top.next]
     IN  \/ /\ label.present
            /\ stack' = Advanced
            /\ UNCHANGED <<phase, used>>
         \/ /\ ~label.present
            /\ require_label(Top.node[1], label.name, Advanced)
  /\ UNCHANGED <<input, sects, visited, start, c_off, position, linked, written, total_size>>

RequireReturn ==
  /\ phase = "require" /\ stack # <<>>
  /\ Top.next > Len(At(Top.node).labels)
  /\ stack' = SubSeq(stack, 1, Len(stack) - 1)
  /\ UNCHANGED <<input, phase, sects, used, visited, start, c_off, position, linked, written,
                 total_size>>

\* sort_sects: qsort with the comparator.
Sort ==
  /\ phase = "require" /\ stack = <<>>
  /\ sects' = Arranged(sect_comparator)
  /\ phase' = "offset"
  /\ UNCHANGED <<input, used, stack, visited, start, c_off, position, linked, written,
                 total_size>>
-------------------------------------------------------------------------------
\* The loops over the lists skip the sections that are not used.
Following(n) == IsFirst(n, used \ visited, ListOrder)

\* linker_offset_labels, for one section: its labels move with it.
OffsetSection ==
  /\ phase = "offset"
  /\ \E n \in used \ visited :
       /\ Following(n)
       /\ start' = [start EXCEPT ![n] = c_off]
       /\ position' = [position EXCEPT ![n] =
            [i \in DOMAIN @ |-> IF At(n).labels[i].present THEN Add16(@[i], c_off)
                                ELSE @[i]]]
       /\ c_off' = Add16(c_off, At(n).size)
       /\ visited' = visited \union {n}
  /\ UNCHANGED <<input, phase, sects, used, stack, linked, written, total_size>>

\* A loop over the lists ends and the next one begins.
EndOfLists(from, to) ==
  /\ phase = from /\ visited = used
  /\ phase' = to /\ visited' = {}
  /\ UNCHANGED <<input, sects, used, stack, start, c_off, position, linked, written,
                 total_size>>

OffsetDone == EndOfLists("offset", "link")

\* Mutant: the other sections of the same file are not searched.
find_located_label_NotInFile(n, i) ==
  LET label == At(n).labels[i]
      homes == IF label.present THEN {n} ELSE Exporters(input, label.name)
  IN  UNION {{k} \X find_label(input, k, label.name) :
               k \in {h \in homes : IsFirst(h, homes, FileOrder)}}

\* find_located_label for label i of section n: the section and the place of the entry
\* it returns, none when there is none to return.
find_located_label(n, i) ==
  LET label == At(n).labels[i]
      homes == IF label.present THEN {n} ELSE Candidates(input, n[1], label.name)
  IN  UNION {{k} \X find_label(input, k, label.name) :
               k \in {h \in homes : IsFirst(h, homes, FileOrder)}}

\* linker_link, for one entry of a section's mask.
LinkUse ==
  /\ phase = "link"
  /\ \E n \in used \ visited :
       /\ Following(n)
       /\ Len(linked[n]) < Len(At(n).uses)
       /\ LET use   == At(n).uses[Len(linked[n]) + 1]
              found == find_located_label(n, use.label)
              word(e) == Add16(position[e[1]][e[2]], use.offset)
          IN  /\ phase' = IF found = {} THEN "failed" ELSE "link"
              /\ linked' \in IF found = {} THEN {linked}
                             ELSE {[linked EXCEPT ![n] = Append(@, word(e))] : e \in found}
  /\ UNCHANGED <<input, sects, used, stack, visited, start, c_off, position, written, total_size>>

LinkSectionDone ==
  /\ phase = "link"
  /\ \E n \in used \ visited :
       /\ Following(n)
       /\ Len(linked[n]) = Len(At(n).uses)
       /\ visited' = visited \union {n}
  /\ UNCHANGED <<input, phase, sects, used, stack, start, c_off, position, linked, written,
                 total_size>>

LinkDone == EndOfLists("link", "write")

\* The loop of main() that writes the image.
WriteSection ==
  /\ phase = "write"
  /\ \E n \in used \ visited :
       /\ Following(n)
       /\ written' = [written EXCEPT ![n] = total_size]
       /\ total_size' = total_size + At(n).size
       /\ visited' = visited \union {n}
  /\ UNCHANGED <<input, phase, sects, used, stack, start, c_off, position, linked>>

WriteDone == EndOfLists("write", "done")

Done == phase \in {"done", "failed"} /\ UNCHANGED vars

Next ==
  \/ BuildLists \/ MarkEntry \/ RequireNext \/ RequireReturn \/ Sort
  \/ OffsetSection \/ OffsetDone \/ LinkUse \/ LinkSectionDone \/ LinkDone
  \/ WriteSection \/ WriteDone \/ Done

Spec == Init /\ [][Next]_vars
-------------------------------------------------------------------------------
\* What LinkedImage sees of the linker.
Outcome ==
  CASE phase = "done" ->
         [status |-> "linked", kept |-> used,
          at |-> [n \in used |-> written[n]], word |-> [n \in used |-> linked[n]]]
    [] phase = "failed" -> [status |-> "failed"]
    [] OTHER -> [status |-> "pending"]

Promise == INSTANCE LinkedImage WITH result <- Outcome

(***************************************************************************)
(* require_section and require_label call each other (link.c:316), and     *)
(* sections refer to each other in circles.  The mark stands before the    *)
(* call, so no section is entered twice and the recursion is never deeper  *)
(* than there are sections.                                                *)
(***************************************************************************)
RecursionBounded ==
  \A i, j \in DOMAIN stack : stack[i].node = stack[j].node => i = j

(***************************************************************************)
(* When marking is over, every name a kept section refers to without       *)
(* defining it is defined by another kept section: in the same file if one *)
(* there defines it, else by an export.  (require_label returns at the     *)
(* first hit of two different searches, and is called back from itself.)   *)
(***************************************************************************)
NeedsMet ==
  phase \in {"offset", "link", "write", "done"} =>
    /\ used \intersect Exporters(input, "__entry") # {}
    /\ \A n \in used : \A name \in Needs(input, n) :
         used \intersect Candidates(input, n[1], name) # {}

(***************************************************************************)
(* No section is kept that the entry point does not lead to: unused        *)
(* sections are removed (fl_remove_unused_sections, link.c:381), even those*)
(* whose names are referred to by other unused sections.                   *)
(***************************************************************************)
OnlyNeeded == used \subseteq Promise!Reachable

(***************************************************************************)
(* What marking has found, linking finds again, although it searches in    *)
(* another order: "Symbol %s not found!" (link.c:227) is never printed.    *)
(***************************************************************************)
LinkingNeverFails == [][phase = "link" => phase' # "failed"]_vars

(***************************************************************************)
(* The linker keeps the promise of LinkedImage.  Marking, placing, patching*)
(* and writing are four walks over lists that are sorted after the first;  *)
(* the image is right when the address each use holds is the place in the  *)
(* file, modulo 64 KiB, where the label it names was written.              *)
(***************************************************************************)
ImageSpec == Promise!Spec
===============================================================================
