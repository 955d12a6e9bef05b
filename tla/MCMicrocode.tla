------------------------------ MODULE MCMicrocode ------------------------------
(***************************************************************************)
(* Sources with addresses of three characters: the declarations a source   *)
(* needs, with every fault of a line, and up to three lines of microcode.  *)
(***************************************************************************)
EXTENDS Microcode

Seg(name, lines) == <<<<"section", name>>>> \o lines \o <<<<"end">>>>

Widths == <<<<"address_width", "3">>, <<"control_width", "9">>>>
Lines == <<<<"0", "H", "p_read">>, <<"1", "L", "sel_read">>, <<"8", "L", "seq_rst">>>>
Shorthand == <<<<"a_read", "p_read", "sel_read">>>>

Declared == Seg("config", Widths) \o Seg("control_word", Lines) \o Seg("alias", Shorthand)

Declarations ==
  {Declared,
   \* names defined twice, an alias of an alias, one with the name of a control line, a bit beyond the
   \* chips, two signals on one bit, and a section nobody reads
   Seg("config", <<<<"address_width", "2">>, <<"address_width", "3">>, <<"control_width", "8">>>>)
     \o Seg("notes", <<<<"a_read">>>>)
     \o Seg("control_word", <<<<"1", "H", "p_read">>, <<"8", "L", "seq_rst">>>> \o Lines
                              \o <<<<"1", "L", "x++">>>>)
     \o Seg("alias", <<<<"b", "p_read", "x">>, <<"b", "seq_rst">>, <<"x", "b", "x++">>,
                       <<"sel_read", "x++", "p_read">>>>),
   \* no width, no control lines
   Seg("alias", Shorthand)}

CodeLines ==
  {<<"000", "p_read">>, <<"0", "01", "a_read", "seq_rst">>, <<"1**">>, <<"-*0", "sel_read">>,
   <<"--1", "seq_rst">>, <<"-", "1-", "b">>, <<"*-0", "p_read", "x">>, <<"01", "1*">>, <<"**", "0">>,
   <<"1x*", "p_read">>, <<"00", "unknown">>, <<"000">>, <<"0", "1-", "p_read", "seq_rst">>}

Programs == {Seg("code", lines) : lines \in BoundedSeq(CodeLines, 3)}

Faults ==
  {<<<<"end">>>>, <<<<"section">>>>, <<<<"section", "alias">>, <<"section", "code">>>>,
   <<<<"section", "config">>, <<"address_width">>>>, <<<<"section", "config">>, <<"address_width", "p_read">>>>,
   <<<<"section", "control_word">>, <<"0", "H">>>>, <<<<"section", "control_word">>, <<"H", "0", "a">>>>,
   <<<<"section", "alias">>, <<"b">>>>, Seg("config", <<<<"address_width", "31">>>>)}

\* The width changed between two lines, and a definition after its use.
Reopened ==
  {Declared \o Seg("code", <<first>>) \o again \o Seg("code", <<second>>) :
     first \in {<<"000", "p_read">>, <<"00*", "a_read">>, <<"1", "01">>},
     again \in {Seg("config", <<<<"address_width", "2">>>>), Seg("config", <<<<"address_width", "8">>>>),
                Seg("control_word", <<<<"2", "H", "p_read">>>>), Seg("alias", <<<<"a_read", "seq_rst">>>>),
                Seg("config", <<<<"address_width", "2">>>>) \o Seg("code", <<<<"-0">>>>)
                  \o Seg("config", <<<<"address_width", "3">>>>)},
     second \in {<<"01">>, <<"--1", "a_read">>, <<"00", "--1", "---">>}}

MCSources ==
  {d \o p : d \in Declarations, p \in Programs} \union {Declared \o f : f \in Faults} \union Reopened

MCChars ==
  [w \in {"0", "1", "2", "3", "31", "8", "9", "H", "L", "000", "01", "1**", "-*0", "--1", "-", "1-", "*-0", "1*", "**",
          "1x*", "00", "---", "-0", "00*", "p_read", "sel_read", "seq_rst", "a_read", "b", "x", "x++", "unknown",
          "a", "section", "end", "config", "control_word", "alias", "code", "notes", "address_width",
          "control_width"} |->
     CASE w = "000" -> <<"0", "0", "0">> [] w = "01" -> <<"0", "1">> [] w = "1**" -> <<"1", "*", "*">>
       [] w = "-*0" -> <<"-", "*", "0">> [] w = "--1" -> <<"-", "-", "1">> [] w = "1-" -> <<"1", "-">>
       [] w = "*-0" -> <<"*", "-", "0">> [] w = "1*" -> <<"1", "*">> [] w = "**" -> <<"*", "*">>
       [] w = "1x*" -> <<"1", "x", "*">> [] w = "00" -> <<"0", "0">> [] w = "---" -> <<"-", "-", "-">>
       [] w = "31" -> <<"3", "1">> [] w = "-0" -> <<"-", "0">> [] w = "00*" -> <<"0", "0", "*">>
       [] w \in {"0", "1", "2", "3", "8", "9", "H", "L", "-", "b", "x", "a"} -> <<w>>
       [] OTHER -> <<"l", "o", "n", "g", "e", "r", " ", "w", "o", "r", "d">>]
MCNumbers ==
  [w \in {"0", "1", "2", "3", "31", "8", "9"} |->
     CASE w = "0" -> 0 [] w = "1" -> 1 [] w = "2" -> 2 [] w = "3" -> 3 [] w = "8" -> 8 [] w = "31" -> 31 [] w = "9" -> 9]
===============================================================================
