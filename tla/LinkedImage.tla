------------------------------ MODULE LinkedImage ------------------------------
(***************************************************************************)
(* What the linker promises.  It either refuses its input, because some    *)
(* label that is needed is nowhere to be found, or it writes an image: the *)
(* sections the entry point needs and no others, one after the other, with *)
(* every use of a label holding the address at which the label ended up.   *)
(***************************************************************************)
EXTENDS ObjectFiles, FiniteSets

VARIABLES
  input,   \* the object files
  result   \* what the linker made of them

vars == <<input, result>>

Pending == [status |-> "pending"]
Failed  == [status |-> "failed"]
Image(kept, at, word) == [status |-> "linked", kept |-> kept, at |-> at, word |-> word]

\* Everything the entry point can lead to, whichever definition is chosen where a
\* name has several.
Leads(S) ==
  /\ Exporters(input, "__entry") \subseteq S
  /\ \A n \in S : \A name \in Needs(input, n) : Candidates(input, n[1], name) \subseteq S

Reachable == {n \in Nodes(input) : \A S \in SUBSET Nodes(input) : Leads(S) => n \in S}

\* A set of sections in which every need is met.
SelfContained(S) ==
  /\ S \intersect Exporters(input, "__entry") # {}
  /\ \A n \in S : \A name \in Needs(input, n) : S \intersect Candidates(input, n[1], name) # {}

\* The sections lie one after the other from 0 on; the start section comes first,
\* code comes before data.
Contiguous(kept, at) ==
  LET end(n) == at[n] + SectionAt(input, n).size
  IN  /\ \A n \in kept : at[n] = 0 \/ \E k \in kept \ {n} : at[n] = end(k)
      /\ \A n, k \in kept : n # k => end(n) <= at[k] \/ end(k) <= at[n]

InOrder(kept, at) ==
  \A n, k \in kept :
    LET s == SectionAt(input, n)
        t == SectionAt(input, k)
    IN  /\ s.name = "start_section" /\ t.name # "start_section" => at[n] <= at[k]
        /\ s.executable /\ ~t.executable => at[n] <= at[k]

\* The addresses a use may hold: that of the label in its own section, else in its
\* file, else where it is exported.  With two definitions to choose from nothing is
\* promised.
Resolved(kept, at, n, u, w) ==
  LET label == SectionAt(input, n).labels[u.label]
      homes == IF label.present THEN {n} ELSE Candidates(input, n[1], label.name)
  IN  Cardinality(homes) = 1 =>
        \E home \in homes \intersect kept :
          \E i \in find_label(input, home, label.name) :
            w = (at[home] + SectionAt(input, home).labels[i].position + u.offset) % WordSize

AllResolved(kept, at, word) ==
  \A n \in kept :
    LET uses == SectionAt(input, n).uses
    IN  /\ DOMAIN word[n] = DOMAIN uses
        /\ \A k \in DOMAIN uses : Resolved(kept, at, n, uses[k], word[n][k])

\* Any object files may be given.
Init == result = Pending

Link ==
  /\ result = Pending
  /\ result'.status = "linked"
  /\ LET kept == result'.kept
         at   == result'.at
         word == result'.word
     IN  /\ result' = Image(kept, at, word)
         /\ kept \subseteq Reachable /\ SelfContained(kept)
         /\ Contiguous(kept, at) /\ InOrder(kept, at)
         /\ AllResolved(kept, at, word)
  /\ UNCHANGED input

\* The input is refused only when a need cannot be met.
Refuse ==
  /\ result = Pending /\ result' = Failed
  /\ \/ Exporters(input, "__entry") = {}
     \/ \E n \in Reachable : \E name \in Needs(input, n) : Candidates(input, n[1], name) = {}
  /\ UNCHANGED input

Next == Link \/ Refuse

Spec == Init /\ [][Next]_vars
===============================================================================
