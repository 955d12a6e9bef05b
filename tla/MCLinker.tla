------------------------------- MODULE MCLinker --------------------------------
(***************************************************************************)
(* A crt0 that calls main and two files of one or two sections each, taken *)
(* from a list of sections that refer to each other across, and within,    *)
(* the files.                                                              *)
(***************************************************************************)
EXTENDS Linker

MCLabelName == {"__entry", "main", "f", "g", "v"}

\* The places of the names in the order of strcmp.
MCAlphabet ==
  [name \in {"data_v", "lit_v", "start_section", "text_f", "text_main"} |->
     CASE name = "data_v" -> 0 [] name = "lit_v" -> 1 [] name = "start_section" -> 2
       [] name = "text_f" -> 3 [] OTHER -> 4]

Local(name, pos)  == [name |-> name, present |-> TRUE, export |-> FALSE, position |-> pos]
Public(name, pos) == [name |-> name, present |-> TRUE, export |-> TRUE, position |-> pos]
Used(name)        == [name |-> name, present |-> FALSE, export |-> FALSE, position |-> 0]

UseOf(label, off) == [label |-> label, offset |-> off]

Code(name, size, labels, uses) ==
  [name |-> name, executable |-> TRUE, size |-> size, labels |-> labels, uses |-> uses]
Data(name, size, labels, uses) ==
  [name |-> name, executable |-> FALSE, size |-> size, labels |-> labels, uses |-> uses]

Crt0 == <<Code("start_section", 8, <<Public("__entry", 0), Used("main")>>, <<UseOf(2, 0)>>)>>

MainCallsF   == Code("text_main", 10, <<Public("main", 0), Used("f")>>, <<UseOf(2, 0)>>)
MainReadsV   == Code("text_main", 12, <<Public("main", 0), Used("v"), Local("g", 6)>>,
                     <<UseOf(2, 3), UseOf(3, 0)>>)
MainCallsBoth == Code("text_main", 16, <<Local("v", 2), Public("main", 1), Used("f"), Used("g")>>,
                      <<UseOf(4, 0), UseOf(3, 65535), UseOf(1, 0)>>)
FCallsG      == Code("text_f", 5, <<Public("f", 1), Used("g")>>, <<UseOf(2, 0), UseOf(1, 0)>>)
FIsLocal     == Code("text_f", 4, <<Local("f", 0), Used("v")>>, <<UseOf(2, 1)>>)
FCallsMain   == Code("text_f", 65535, <<Public("f", 65530), Used("main"), Public("g", 3)>>,
                     <<UseOf(2, 0)>>)
FIsEmpty     == Code("text_f", 0, <<Public("f", 0)>>, <<>>)
VIsPublic    == Data("data_v", 2, <<Public("v", 0)>>, <<>>)
VPointsToF   == Data("data_v", 4, <<Local("v", 2), Used("f"), Public("g", 0)>>, <<UseOf(2, 0)>>)
VIsConstant  == Data("lit_v", 3, <<Public("v", 1), Public("f", 0)>>, <<>>)
StartsToo    == Code("start_section", 2, <<Public("g", 1)>>, <<>>)

Mains  == {MainCallsF, MainReadsV, MainCallsBoth}
Others == {FCallsG, FIsLocal, FCallsMain, FIsEmpty, VIsPublic, VPointsToF, VIsConstant, StartsToo}

OneOrTwo == {<<s, t>> \in (Mains \union Others) \X (Mains \union Others) : s = t \/ s.name # t.name}

File(st) == IF st[1] = st[2] THEN <<st[1]>> ELSE st

HasMain(st) == st[1] \in Mains \/ st[2] \in Mains

\* main is in the second file, or in the third when the second has one section.
Pairs ==
  {p \in OneOrTwo \X OneOrTwo :
     /\ HasMain(p[1]) # HasMain(p[2])
     /\ HasMain(p[2]) => p[1][1] = p[1][2]}

\* Now and then crt0 is forgotten.
MCInput == {SubSeq(<<Crt0, File(p[1]), File(p[2])>>, k, 3) : p \in Pairs, k \in {1, 2}}
===============================================================================
