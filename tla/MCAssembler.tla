------------------------------ MODULE MCAssembler ------------------------------
(***************************************************************************)
(* Sources over a few words of every kind.                                 *)
(***************************************************************************)
EXTENDS Assembler

Name(name) == [kind |-> "name", name |-> name]
Dot(name) == [kind |-> "directive", name |-> name]
Plus(n)  == [sign |-> "+", value |-> n]
Minus(n) == [sign |-> "-", value |-> n]
Use(name, terms) == [kind |-> "use", name |-> name, terms |-> terms]

MCVocabulary ==
  {Dot(d) : d \in {"byte", "word", "skip", "org", "section", "export", "import", "ascii"}}
    \union {Name(n) : n \in {"litw", "x", "cmps2", "add", "jmp", "jmps", "ne", "halt",
                             "text", "data", "long_name"}}
    \union {[kind |-> "label", name |-> "a"], [kind |-> "label", name |-> "b"],
            Use("a", <<>>), Use("b", <<Minus(1)>>), Use("a", <<Minus(1), Plus(2)>>),
            [kind |-> "number", value |-> 2], [kind |-> "number", value |-> -2],
            [kind |-> "char", value |-> 65], [kind |-> "comment"]}

MCTexts == {<<>>, <<[escaped |-> TRUE, as |-> "n", char |-> 110], [escaped |-> TRUE, as |-> "quote", char |-> 34]>>}

MCTruncated == [name \in {"", "text", "data", "long_name"} |-> IF name = "long_name" THEN "long_" ELSE name]
MCAlphabet == [name \in {"", "text", "data", "long_"} |->
                CASE name = "" -> 0 [] name = "data" -> 1 [] name = "text" -> 3 [] OTHER -> 2]
MCExecutable == {"text"}
===============================================================================
