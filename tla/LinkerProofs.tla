----------------------------- MODULE LinkerProofs ------------------------------
(***************************************************************************)
(* Theorems about module Linker, for all object files.                     *)
(***************************************************************************)
EXTENDS Linker, SequenceLemmas, FiniteSetTheorems

\* A node of an input is a pair, and stands for a section of it.
LEMMA NodeIsSection ==
  ASSUME input \in Input, NEW n \in Node
  PROVE  /\ At(n) \in Section /\ WellFormed(At(n))
         /\ n[1] \in DOMAIN input /\ n[2] \in DOMAIN input[n[1]] /\ n = <<n[1], n[2]>>
<1>1. PICK f \in DOMAIN input : n \in {f} \X DOMAIN input[f]
  BY DEF Node, Nodes
<1>2. n = <<n[1], n[2]>> /\ n[1] = f /\ n[2] \in DOMAIN input[f]
  BY <1>1
<1>3. IsObjectFile(input[f])
  BY InputAssumption
<1>4. input[f] \in Seq(Section) /\ WellFormed(input[f][n[2]])
  BY <1>2, <1>3 DEF IsObjectFile
<1>5. QED BY <1>2, <1>4 DEF At, SectionAt

\* The parts of a section.
LEMMA SectionParts ==
  ASSUME NEW s \in Section
  PROVE  /\ s.labels \in Seq(LabelEntry) /\ s.uses \in Seq(Use)
         /\ s.size \in Word /\ s.name \in DOMAIN Alphabet
BY DEF Section

\* An input has finitely many sections and names of sections.
LEMMA NodesFinite ==
  ASSUME input \in Input
  PROVE  IsFiniteSet(Node) /\ IsFiniteSet(Names)
<1> DEFINE family == [f \in DOMAIN input |-> {f} \X DOMAIN input[f]]
           nameOf == [n \in Node |-> At(n).name]
<1>1. input \in Seq(Seq(Section))
  BY InputAssumption
<1>2. IsFiniteSet(DOMAIN input)
  BY <1>1, FS_Interval, DOMAIN input = 1 .. Len(input), Len(input) \in Nat, 1 \in Int
<1>3. ASSUME NEW f \in DOMAIN input PROVE IsFiniteSet(family[f])
  <2>1. input[f] \in Seq(Section)
    BY <1>1
  <2>2. DOMAIN input[f] = 1 .. Len(input[f]) /\ Len(input[f]) \in Int
    BY <2>1
  <2>3. IsFiniteSet(DOMAIN input[f])
    BY <2>2, FS_Interval
  <2>4. IsFiniteSet({f})
    BY FS_Singleton
  <2>5. QED BY <2>3, <2>4, FS_Product
<1>4. Node = UNION {family[f] : f \in DOMAIN input}
  BY DEF Node, Nodes
<1>5. family \in Surjection(DOMAIN input, {family[f] : f \in DOMAIN input})
  BY DEF Surjection
<1>6. IsFiniteSet({family[f] : f \in DOMAIN input})
  BY <1>2, <1>5, FS_Surjection DEF ExistsSurjection
<1>7. IsFiniteSet(Node)
  BY <1>3, <1>4, <1>6, FS_UNION
<1>8. nameOf \in Surjection(Node, Names)
  BY DEF Surjection, Names
<1>9. IsFiniteSet(Names)
  BY <1>7, <1>8, FS_Surjection DEF ExistsSurjection
<1>10. QED BY <1>7, <1>9

\* The searches stay among the sections and the labels.
LEMMA SearchesStayInside ==
  ASSUME NEW f, NEW name, NEW n \in Node, NEW i
  PROVE  /\ Candidates(input, f, name) \subseteq Node
         /\ Exporters(input, name) \subseteq Node
         /\ \A k : find_label(input, k, name) \subseteq DOMAIN At(k).labels
         /\ \A e \in find_located_label(n, i) : e[1] \in Node /\ e[2] \in DOMAIN At(e[1]).labels
<1>1. /\ \A g, m : Candidates(input, g, m) \subseteq Node
      /\ \A m : Exporters(input, m) \subseteq Node
      /\ \A k, m : find_label(input, k, m) \subseteq DOMAIN At(k).labels
  BY DEF Candidates, DefinersIn, Exporters, Node, find_label, At
<1>2. ASSUME NEW e \in find_located_label(n, i)
      PROVE  e[1] \in Node /\ e[2] \in DOMAIN At(e[1]).labels
  <2> DEFINE name_ == At(n).labels[i].name
             homes == IF At(n).labels[i].present THEN {n} ELSE Candidates(input, n[1], name_)
  <2>1. PICK k \in homes : e \in {k} \X find_label(input, k, name_)
    BY <1>2 DEF find_located_label
  <2>2. homes \subseteq Node
    BY <1>1
  <2>3. e[1] = k /\ e[2] \in find_label(input, k, name_)
    BY <2>1
  <2>4. QED BY <1>1, <2>2, <2>3
<1>3. QED BY <1>1, <1>2

\* What require_label settles on is one of the candidates.
LEMMA ProvidedIsCandidate ==
  ASSUME NEW f, NEW name, NEW n, Provides(n, f, name)
  PROVE  n \in Candidates(input, f, name)
BY DEF Provides, IsFirst, Candidates

LEMMA Add16Type ==
  ASSUME NEW i \in Nat, NEW j \in Nat
  PROVE  Add16(i, j) \in Word
<1>1. ASSUME NEW n \in Nat \ {0} PROVE (i + j) % n \in 0 .. n - 1
  OBVIOUS
<1>2. WordSize \in Nat \ {0}
  BY DEF WordSize
<1>3. QED BY <1>1, <1>2 DEF Add16, Word

\* The object files do not change, and with them all that is computed from them alone.
LEMMA InputConstant ==
  ASSUME [Next]_vars
  PROVE  /\ input' = input /\ Node' = Node /\ Names' = Names
         /\ \A n : At(n)' = At(n)
<1>1. input' = input
  BY DEF Next, vars, BuildLists, MarkEntry, RequireNext, RequireReturn, Sort, OffsetSection,
         OffsetDone, LinkUse, LinkSectionDone, LinkDone, WriteSection, WriteDone, EndOfLists, Done
<1>2. Node' = Node /\ \A n : At(n)' = At(n)
  BY <1>1 DEF Node, At
<1>3. QED BY <1>1, <1>2 DEF Names
\* What Add16 of two words, and a word to start with, come to.
LEMMA Words ==
  /\ 0 \in Word
  /\ \A i, j \in Word : Add16(i, j) \in Word
  /\ Word \subseteq Nat
<1>1. ASSUME NEW n \in Nat \ {0} PROVE 0 \in 0 .. n - 1 /\ 0 .. n - 1 \subseteq Nat
  OBVIOUS
<1>2. WordSize \in Nat \ {0}
  BY DEF WordSize
<1>3. 0 \in Word /\ Word \subseteq Nat
  BY <1>1, <1>2 DEF Word
<1>4. QED BY <1>3, Add16Type

LEMMA InitTyped == Init => TypeOK
<1> SUFFICES ASSUME Init PROVE TypeOK
  OBVIOUS
<1>1. phase \in Phase /\ sects \in [Names -> Nat] /\ used \subseteq Node /\ visited \subseteq used
  BY DEF Init, Phase
<1>2. stack \in Seq([node : used, next : Nat \ {0}])
  BY DEF Init
<1>3. start \in [Node -> Word] /\ c_off \in Word
  BY Words DEF Init
<1>4. ASSUME NEW n \in Node PROVE position[n] \in [DOMAIN At(n).labels -> Word]
  <2>1. At(n).labels \in Seq(LabelEntry)
    BY NodeIsSection, SectionParts DEF Init
  <2>2. \A i \in DOMAIN At(n).labels : At(n).labels[i] \in LabelEntry
    BY <2>1
  <2>3. \A e \in LabelEntry : e.position \in Word
    BY DEF LabelEntry
  <2>4. position[n] = [i \in DOMAIN At(n).labels |-> At(n).labels[i].position]
    BY DEF Init
  <2>5. QED BY <2>2, <2>3, <2>4
<1>5. DOMAIN position = Node /\ linked \in [Node -> Seq(Word)]
  BY DEF Init
<1>6. written \in [Node -> Nat] /\ total_size \in Nat
  BY DEF Init
<1>7. QED BY <1>1, <1>2, <1>3, <1>4, <1>5, <1>6 DEF TypeOK, MarkingTyped, OutputTyped

\* The stack stays well formed as it grows, shrinks and moves on.
LEMMA StackTyped ==
  ASSUME NEW S, NEW T, S \subseteq T, NEW s \in Seq([node : S, next : Nat \ {0}])
  PROVE  /\ s \in Seq([node : T, next : Nat \ {0}])
         /\ \A n \in T : Append(s, [node |-> n, next |-> 1]) \in Seq([node : T, next : Nat \ {0}])
         /\ s # <<>> =>
              /\ SubSeq(s, 1, Len(s) - 1) \in Seq([node : S, next : Nat \ {0}])
              /\ [s EXCEPT ![Len(s)] = [node |-> @.node, next |-> @.next + 1]]
                   \in Seq([node : S, next : Nat \ {0}])
              /\ s[Len(s)] \in [node : S, next : Nat \ {0}]
<1> DEFINE F == [node : S, next : Nat \ {0}]
           G == [node : T, next : Nat \ {0}]
<1>1. F \subseteq G
  OBVIOUS
<1>2. \A n \in T : [node |-> n, next |-> 1] \in G
  OBVIOUS
<1>3. \A e \in F : [node |-> e.node, next |-> e.next + 1] \in F
  OBVIOUS
<1>4. s \in Seq(F)
  OBVIOUS
<1> HIDE DEF F, G
<1>5. s \in Seq(G)
  BY <1>1, <1>4
<1>6. \A n \in T : Append(s, [node |-> n, next |-> 1]) \in Seq(G)
  BY <1>2, <1>5, AppendProperties
<1>7. ASSUME s # <<>>
      PROVE  /\ SubSeq(s, 1, Len(s) - 1) \in Seq(F)
             /\ [s EXCEPT ![Len(s)] = [node |-> @.node, next |-> @.next + 1]] \in Seq(F)
             /\ s[Len(s)] \in F
  <2>1. Len(s) \in 1 .. Len(s) /\ Len(s) \in Nat /\ Len(s) - 1 \in Int
    BY <1>4, <1>7
  <2>2. \A i \in 1 .. Len(s) : s[i] \in F
    BY <1>4
  <2>3. s[Len(s)] \in F
    BY <2>1, <2>2
  <2>4. [s EXCEPT ![Len(s)] = [node |-> @.node, next |-> @.next + 1]] \in Seq(F)
    BY <1>3, <1>4, <2>1, <2>3, ExceptSeq
  <2>5. \A i \in 1 .. Len(s) - 1 : s[i] \in F
    BY <2>1, <2>2
  <2>6. SubSeq(s, 1, Len(s) - 1) \in Seq(F)
    BY <2>1, <2>5, SubSeqProperties
  <2>7. QED BY <2>3, <2>4, <2>6
<1>8. QED BY <1>5, <1>6, <1>7 DEF F, G
\* Putting names in an order gives each an index.
LEMMA ArrangedTyped ==
  ASSUME input \in Input
  PROVE  /\ Arranged(MetBefore) \in [Names -> Nat]
         /\ Arranged(sect_comparator) \in [Names -> Nat]
<1>1. IsFiniteSet(Names)
  BY NodesFinite
<1>2. \A S \in SUBSET Names : Cardinality(S) \in Nat
  BY <1>1, FS_Subset, FS_CardinalityType
<1>3. \A name \in Names : Cardinality({other \in Names : MetBefore(other, name)}) \in Nat
  BY <1>2
<1>4. \A name \in Names : Cardinality({other \in Names : sect_comparator(other, name)}) \in Nat
  BY <1>2
<1>5. QED BY <1>3, <1>4 DEF Arranged

\* A call of require_label, whoever makes it, keeps used and stack well formed.
LEMMA RequireTyped ==
  ASSUME MarkingTyped, NEW f, NEW name,
         NEW frames \in Seq([node : used, next : Nat \ {0}]),
         require_label(f, name, frames)
  PROVE  /\ phase' \in {"require", "failed"}
         /\ used' \subseteq Node /\ used \subseteq used'
         /\ stack' \in Seq([node : used', next : Nat \ {0}])
<1>1. CASE phase' = "failed" /\ UNCHANGED <<used, stack>>
  BY <1>1 DEF MarkingTyped
<1>2. ASSUME NEW n \in Node,
             used' = used \union {n},
             stack' = IF n \in used THEN frames ELSE Append(frames, [node |-> n, next |-> 1]),
             phase' = "require"
      PROVE  /\ phase' \in {"require", "failed"}
             /\ used' \subseteq Node /\ used \subseteq used'
             /\ stack' \in Seq([node : used', next : Nat \ {0}])
  <2>1. used \subseteq used' /\ n \in used' /\ used' \subseteq Node
    BY <1>2 DEF MarkingTyped
  <2>2. /\ frames \in Seq([node : used', next : Nat \ {0}])
        /\ Append(frames, [node |-> n, next |-> 1]) \in Seq([node : used', next : Nat \ {0}])
    BY <2>1, StackTyped
  <2>3. stack' = frames \/ stack' = Append(frames, [node |-> n, next |-> 1])
    BY <1>2
  <2>4. QED BY <1>2, <2>1, <2>2, <2>3
<1>3. QED BY <1>1, <1>2 DEF require_label
\* The variables a step of marking leaves alone.
outputVars == <<start, c_off, position, linked, written, total_size>>

LEMMA OutputUnchanged ==
  ASSUME OutputTyped, [Next]_vars, UNCHANGED outputVars
  PROVE  OutputTyped'
<1>1. Node' = Node /\ \A n : At(n)' = At(n)
  BY InputConstant
<1>2. UNCHANGED <<start, c_off, position, linked, written, total_size>>
  BY DEF outputVars
<1>3. QED BY <1>1, <1>2 DEF OutputTyped

\* A loop over the lists passes one more section.
LEMMA VisitTyped ==
  ASSUME MarkingTyped, [Next]_vars, NEW n \in used \ visited,
         visited' = visited \union {n}, phase' \in Phase, UNCHANGED <<sects, used, stack>>
  PROVE  MarkingTyped'
<1>1. Node' = Node /\ Names' = Names
  BY InputConstant
<1>2. QED BY <1>1 DEF MarkingTyped

LEMMA TypeStep ==
  ASSUME input \in Input, TypeOK, [Next]_vars
  PROVE  TypeOK'
<1>1. input' = input /\ Node' = Node /\ Names' = Names /\ \A n : At(n)' = At(n)
  BY InputConstant
<1>2. MarkingTyped /\ OutputTyped
  BY DEF TypeOK
<1>3. CASE BuildLists \/ Sort
  <2>1. sects' \in [Names -> Nat] /\ phase' \in Phase
    BY <1>3, ArrangedTyped DEF BuildLists, Sort, Phase
  <2>2. UNCHANGED <<used, visited, stack>> /\ UNCHANGED outputVars
    BY <1>3 DEF BuildLists, Sort, outputVars
  <2>3. MarkingTyped'
    BY <1>1, <1>2, <2>1, <2>2 DEF MarkingTyped
  <2>4. QED BY <1>2, <2>2, <2>3, OutputUnchanged DEF TypeOK
<1>4. ASSUME NEW f, NEW name, NEW frames \in Seq([node : used, next : Nat \ {0}]),
             require_label(f, name, frames), UNCHANGED <<sects, visited>>
      PROVE  MarkingTyped'
  <2>1. /\ phase' \in Phase /\ used' \subseteq Node /\ used \subseteq used'
        /\ stack' \in Seq([node : used', next : Nat \ {0}])
    BY <1>2, <1>4, RequireTyped DEF Phase
  <2>2. visited' \subseteq used'
    BY <1>2, <1>4, <2>1 DEF MarkingTyped
  <2>3. QED BY <1>1, <1>2, <1>4, <2>1, <2>2 DEF MarkingTyped
<1>5. CASE MarkEntry
  <2>1. UNCHANGED <<sects, visited>> /\ UNCHANGED outputVars
    BY <1>5 DEF MarkEntry, outputVars
  <2>2. <<>> \in Seq([node : used, next : Nat \ {0}])
    OBVIOUS
  <2>3. MarkingTyped'
    BY <1>4, <1>5, <2>1, <2>2 DEF MarkEntry
  <2>4. QED BY <1>2, <2>1, <2>3, OutputUnchanged DEF TypeOK
<1>6. CASE RequireNext
  <2>1. UNCHANGED <<sects, visited>> /\ UNCHANGED outputVars
    BY <1>6 DEF RequireNext, outputVars
  <2>2. Advanced \in Seq([node : used, next : Nat \ {0}])
    BY <1>2, <1>6, StackTyped DEF RequireNext, Advanced, MarkingTyped
  <2>3. ASSUME stack' = Advanced, UNCHANGED <<phase, used>> PROVE MarkingTyped'
    BY <1>1, <1>2, <2>1, <2>2, <2>3 DEF MarkingTyped
  <2>4. ASSUME require_label(Top.node[1], At(Top.node).labels[Top.next].name, Advanced)
        PROVE  MarkingTyped'
    BY <1>4, <2>1, <2>2, <2>4
  <2>5. MarkingTyped'
    BY <1>6, <2>3, <2>4 DEF RequireNext
  <2>6. QED BY <1>2, <2>1, <2>5, OutputUnchanged DEF TypeOK
<1>7. CASE RequireReturn
  <2>1. UNCHANGED <<phase, sects, used, visited>> /\ UNCHANGED outputVars
    BY <1>7 DEF RequireReturn, outputVars
  <2>2. stack' \in Seq([node : used, next : Nat \ {0}])
    BY <1>2, <1>7, StackTyped DEF RequireReturn, MarkingTyped
  <2>3. MarkingTyped'
    BY <1>1, <1>2, <2>1, <2>2 DEF MarkingTyped
  <2>4. QED BY <1>2, <2>1, <2>3, OutputUnchanged DEF TypeOK
<1>8. CASE OffsetSection
  <2>1. PICK n \in used \ visited :
          /\ start' = [start EXCEPT ![n] = c_off]
          /\ position' = [position EXCEPT ![n] =
               [i \in DOMAIN @ |-> IF At(n).labels[i].present THEN Add16(@[i], c_off)
                                   ELSE @[i]]]
          /\ c_off' = Add16(c_off, At(n).size)
          /\ visited' = visited \union {n}
    BY <1>8 DEF OffsetSection
  <2>2. UNCHANGED <<phase, sects, used, stack, linked, written, total_size>>
    BY <1>8 DEF OffsetSection
  <2>3. n \in Node /\ phase' \in Phase
    BY <1>2, <2>2 DEF MarkingTyped
  <2>4. MarkingTyped'
    BY <1>2, <2>1, <2>2, <2>3, VisitTyped
  <2>5. c_off \in Word /\ At(n).size \in Word /\ position[n] \in [DOMAIN At(n).labels -> Word]
    BY <1>2, <2>3, NodeIsSection, SectionParts DEF OutputTyped
  <2>6. c_off' \in Word /\ start' \in [Node -> Word]
    BY <1>2, <2>1, <2>5, Words DEF OutputTyped
  <2> DEFINE moved == [i \in DOMAIN position[n] |->
                         IF At(n).labels[i].present THEN Add16(position[n][i], c_off)
                         ELSE position[n][i]]
  <2>7. moved \in [DOMAIN At(n).labels -> Word]
    BY <2>5, Words
  <2>8. position' = [position EXCEPT ![n] = moved]
    BY <2>1
  <2>9. DOMAIN position' = Node /\ \A k \in Node : position'[k] \in [DOMAIN At(k).labels -> Word]
    <3> HIDE DEF moved
    <3>1. QED BY <1>2, <2>3, <2>7, <2>8 DEF OutputTyped
  <2>10. OutputTyped'
    BY <1>1, <1>2, <2>2, <2>6, <2>9 DEF OutputTyped
  <2>11. QED BY <2>4, <2>10 DEF TypeOK
<1>9. CASE OffsetDone \/ LinkDone \/ WriteDone
  <2>1. /\ phase' \in Phase /\ visited' = {}
        /\ UNCHANGED <<sects, used, stack>> /\ UNCHANGED outputVars
    BY <1>9 DEF OffsetDone, LinkDone, WriteDone, EndOfLists, Phase, outputVars
  <2>2. MarkingTyped'
    BY <1>1, <1>2, <2>1 DEF MarkingTyped
  <2>3. QED BY <1>2, <2>1, <2>2, OutputUnchanged DEF TypeOK
<1>10. CASE LinkUse
  <2>1. PICK n \in used \ visited :
          LET use   == At(n).uses[Len(linked[n]) + 1]
              found == find_located_label(n, use.label)
              word(e) == Add16(position[e[1]][e[2]], use.offset)
          IN  /\ Len(linked[n]) < Len(At(n).uses)
              /\ phase' = IF found = {} THEN "failed" ELSE "link"
              /\ linked' \in IF found = {} THEN {linked}
                             ELSE {[linked EXCEPT ![n] = Append(@, word(e))] : e \in found}
    BY <1>10 DEF LinkUse
  <2>2. UNCHANGED <<sects, used, stack, visited, start, c_off, position, written, total_size>>
    BY <1>10 DEF LinkUse
  <2> DEFINE use   == At(n).uses[Len(linked[n]) + 1]
             found == find_located_label(n, use.label)
             word(e) == Add16(position[e[1]][e[2]], use.offset)
  <2>3. n \in Node /\ phase' \in Phase
    BY <1>2, <2>1 DEF MarkingTyped, Phase
  <2>4. MarkingTyped'
    BY <1>1, <1>2, <2>2, <2>3 DEF MarkingTyped
  <2>5. use.offset \in Word
    <3>1. linked[n] \in Seq(Word) /\ At(n).uses \in Seq(Use)
      BY <1>2, <2>3, NodeIsSection, SectionParts DEF OutputTyped
    <3>2. use \in Use
      BY <2>1, <3>1
    <3>3. QED BY <3>2 DEF Use
  <2>6. \A e \in found : word(e) \in Word
    <3>1. \A e \in found : e[1] \in Node /\ e[2] \in DOMAIN At(e[1]).labels
      BY <2>3, SearchesStayInside
    <3>2. \A e \in found : position[e[1]][e[2]] \in Word
      BY <1>2, <3>1 DEF OutputTyped
    <3>3. QED BY <2>5, <3>2, Words
  <2>7. linked' = linked \/ \E e \in found : linked' = [linked EXCEPT ![n] = Append(@, word(e))]
    BY <2>1
  <2>8. linked' \in [Node -> Seq(Word)]
    <3>1. ASSUME NEW w \in Word PROVE [linked EXCEPT ![n] = Append(@, w)] \in [Node -> Seq(Word)]
      <4>1. linked \in [Node -> Seq(Word)] /\ linked[n] \in Seq(Word)
        BY <1>2, <2>3 DEF OutputTyped
      <4>2. Append(linked[n], w) \in Seq(Word)
        BY <4>1, AppendProperties
      <4>3. QED BY <4>1, <4>2
    <3> HIDE DEF word, found
    <3>2. QED BY <1>2, <2>6, <2>7, <3>1 DEF OutputTyped
  <2>9. OutputTyped'
    BY <1>1, <1>2, <2>2, <2>8 DEF OutputTyped
  <2>10. QED BY <2>4, <2>9 DEF TypeOK
<1>11. CASE LinkSectionDone
  <2>1. /\ \E n \in used \ visited : visited' = visited \union {n}
        /\ UNCHANGED <<phase, sects, used, stack>> /\ UNCHANGED outputVars
    BY <1>11 DEF LinkSectionDone, outputVars
  <2>2. MarkingTyped'
    BY <1>2, <2>1, VisitTyped DEF MarkingTyped
  <2>3. QED BY <1>2, <2>1, <2>2, OutputUnchanged DEF TypeOK
<1>12. CASE WriteSection
  <2>1. PICK n \in used \ visited :
          /\ written' = [written EXCEPT ![n] = total_size]
          /\ total_size' = total_size + At(n).size
          /\ visited' = visited \union {n}
    BY <1>12 DEF WriteSection
  <2>2. UNCHANGED <<phase, sects, used, stack, start, c_off, position, linked>>
    BY <1>12 DEF WriteSection
  <2>3. n \in Node /\ phase' \in Phase
    BY <1>2, <2>2 DEF MarkingTyped
  <2>4. MarkingTyped'
    BY <1>2, <2>1, <2>2, <2>3, VisitTyped
  <2>5. At(n).size \in Nat
    BY <2>3, NodeIsSection, SectionParts, Words
  <2>6. OutputTyped'
    BY <1>1, <1>2, <2>1, <2>2, <2>3, <2>5 DEF OutputTyped
  <2>7. QED BY <2>4, <2>6 DEF TypeOK
<1>13. CASE UNCHANGED vars
  <2>1. UNCHANGED <<phase, sects, used, stack, visited>> /\ UNCHANGED outputVars
    BY <1>13 DEF vars, outputVars
  <2>2. MarkingTyped'
    BY <1>1, <1>2, <2>1 DEF MarkingTyped
  <2>3. QED BY <1>2, <2>1, <2>2, OutputUnchanged DEF TypeOK
<1>14. CASE Done
  BY <1>13, <1>14 DEF Done
<1>15. QED
  BY <1>3, <1>5, <1>6, <1>7, <1>8, <1>9, <1>10, <1>11, <1>12, <1>13, <1>14 DEF Next
-------------------------------------------------------------------------------
\* Marking.  Every name a marked section lacks is either defined by a marked section,
\* or some call of require_section in progress has still to come to it.
MetBy(S, n, i) == S \intersect Candidates(input, n[1], At(n).labels[i].name) # {}

OpenIn(s, n, i) == \E k \in DOMAIN s : s[k].node = n /\ s[k].next <= i

MetOrOpen(S, s) ==
  \A n \in S : \A i \in DOMAIN At(n).labels :
    ~At(n).labels[i].present => MetBy(S, n, i) \/ OpenIn(s, n, i)

NoNodeTwice(s) == \A i, j \in DOMAIN s : s[i].node = s[j].node => i = j

Marking ==
  /\ phase \in {"build", "mark"} => used = {} /\ stack = <<>>
  /\ phase \in {"require", "offset", "link", "write", "done"} =>
       used \intersect Exporters(input, "__entry") # {}
  /\ phase \in {"offset", "link", "write", "done"} => stack = <<>>
  /\ MetOrOpen(used, stack) /\ NoNodeTwice(stack)

IInv == input \in Input /\ TypeOK /\ Marking

\* A successful call of require_label: the section it settles on is marked, and if it
\* was not before, it is put on top of the calls in progress.
Enters(frames, n) ==
  /\ used' = used \union {n}
  /\ stack' = IF n \in used THEN frames ELSE Append(frames, [node |-> n, next |-> 1])
  /\ phase' = "require"

LEMMA FrameParts ==
  ASSUME NEW S, NEW s \in Seq([node : S, next : Nat \ {0}]), NEW k \in DOMAIN s
  PROVE  s[k].node \in S /\ s[k].next \in Nat \ {0}
<1> DEFINE F == [node : S, next : Nat \ {0}]
<1>1. \A e \in F : e.node \in S /\ e.next \in Nat \ {0}
  OBVIOUS
<1>2. s \in Seq(F)
  OBVIOUS
<1> HIDE DEF F
<1>3. s[k] \in F
  BY <1>2
<1>4. QED BY <1>1, <1>3

LEMMA RequireOutcomes ==
  ASSUME NEW f, NEW name, NEW frames, require_label(f, name, frames)
  PROVE  \/ phase' = "failed" /\ UNCHANGED <<used, stack>>
         \/ \E n \in Node : n \in Candidates(input, f, name) /\ Enters(frames, n)
BY ProvidedIsCandidate DEF require_label, Enters

\* Entering a section keeps the account, if the frames of the callers account for
\* everything but what the section itself meets.
LEMMA EnterMarks ==
  ASSUME input \in Input,
         NEW n \in Node, NEW frames \in Seq([node : used, next : Nat \ {0}]),
         Enters(frames, n), NoNodeTwice(frames),
         \A m \in used : \A i \in DOMAIN At(m).labels :
           ~At(m).labels[i].present =>
             MetBy(used, m, i) \/ OpenIn(frames, m, i) \/ MetBy({n}, m, i)
  PROVE  MetOrOpen(used', stack') /\ NoNodeTwice(stack')
<1> DEFINE frame == [node |-> n, next |-> 1]
           F == [node : used \union {n}, next : Nat \ {0}]
<1>1. used' = used \union {n}
  BY DEF Enters
<1>2. ASSUME NEW m \in used, NEW i \in DOMAIN At(m).labels, MetBy(used, m, i)
      PROVE  MetBy(used', m, i)
  BY <1>1, <1>2 DEF MetBy
<1>3. ASSUME NEW m \in used, NEW i \in DOMAIN At(m).labels, MetBy({n}, m, i)
      PROVE  MetBy(used', m, i)
  BY <1>1, <1>3 DEF MetBy
<1>4. frame \in F /\ frames \in Seq(F)
  <2>1. used \subseteq used \union {n}
    OBVIOUS
  <2>2. frames \in Seq(F)
    BY <2>1, StackTyped
  <2>3. QED BY <2>2
<1>5. CASE n \in used
  <2>1. stack' = frames /\ used' = used
    BY <1>1, <1>5 DEF Enters
  <2>2. QED BY <1>2, <1>3, <2>1 DEF MetOrOpen
<1>6. CASE n \notin used
  <2>1. stack' = Append(frames, frame)
    BY <1>6 DEF Enters
  <2> HIDE DEF F
  <2>2. /\ Len(frames) \in Nat /\ DOMAIN frames = 1 .. Len(frames)
        /\ DOMAIN stack' = 1 .. Len(frames) + 1
        /\ \A k \in 1 .. Len(frames) : stack'[k] = frames[k]
        /\ stack'[Len(frames) + 1] = frame
    BY <1>4, <2>1, AppendProperties
  <2>3. \A k \in DOMAIN frames : frames[k].node \in used
    BY FrameParts
  <2>4. NoNodeTwice(stack')
    <3>1. \A k \in 1 .. Len(frames) : stack'[k].node # n
      BY <1>6, <2>2, <2>3
    <3>2. stack'[Len(frames) + 1].node = n
      BY <2>2
    <3>3. QED BY <2>2, <3>1, <3>2 DEF NoNodeTwice
  <2>5. ASSUME NEW m \in used, NEW i \in DOMAIN At(m).labels, OpenIn(frames, m, i)
        PROVE  OpenIn(stack', m, i)
    BY <2>2, <2>5 DEF OpenIn
  <2>6. ASSUME NEW i \in DOMAIN At(n).labels PROVE OpenIn(stack', n, i)
    <3>1. At(n).labels \in Seq(LabelEntry)
      BY NodeIsSection, SectionParts
    <3>2. i \in Nat /\ 1 <= i
      BY <3>1
    <3>3. frame.node = n /\ frame.next = 1 /\ Len(frames) + 1 \in DOMAIN stack'
      BY <2>2
    <3>4. QED BY <2>2, <3>2, <3>3 DEF OpenIn
  <2>7. QED BY <1>1, <1>2, <1>3, <2>4, <2>5, <2>6 DEF MetOrOpen
<1>7. QED BY <1>5, <1>6
\* The account is about the object files, which do not change.
LEMMA AccountPrimed ==
  ASSUME [Next]_vars, MetOrOpen(used', stack'), NoNodeTwice(stack')
  PROVE  (MetOrOpen(used, stack) /\ NoNodeTwice(stack))'
<1>1. input' = input /\ \A n : At(n)' = At(n)
  BY InputConstant
<1>2. QED BY <1>1 DEF MetOrOpen, MetBy, NoNodeTwice, OpenIn
\* RequireNext passes a label that is there, or enters the section that has it.
LEMMA RequireNextMarks ==
  ASSUME IInv, [Next]_vars, RequireNext
  PROVE  Marking'
<1> DEFINE top == Len(stack)
           m == Top.node
           j == Top.next
           label == At(m).labels[j]
<1>1. input' = input /\ \A k : At(k)' = At(k)
  BY InputConstant
<1>2. /\ stack \in Seq([node : used, next : Nat \ {0}]) /\ used \subseteq Node
      /\ MetOrOpen(used, stack) /\ NoNodeTwice(stack)
      /\ phase = "require" /\ stack # <<>> /\ j <= Len(At(m).labels)
      /\ used \intersect Exporters(input, "__entry") # {}
  BY DEF IInv, TypeOK, MarkingTyped, Marking, RequireNext
<1>3. /\ top \in Nat /\ top \in 1 .. top /\ DOMAIN stack = 1 .. top
      /\ Top = stack[top]
  BY <1>2 DEF Top
<1>4. m \in used /\ j \in Nat \ {0}
  BY <1>2, <1>3, FrameParts
<1>5. Advanced \in Seq([node : used, next : Nat \ {0}])
  BY <1>2, StackTyped DEF Advanced
<1>6. /\ DOMAIN Advanced = 1 .. top
      /\ Advanced[top].node = m /\ Advanced[top].next = j + 1
      /\ \A k \in 1 .. top : k # top => Advanced[k] = stack[k]
  BY <1>3 DEF Advanced
<1>7. NoNodeTwice(Advanced)
  <2>1. \A k \in 1 .. top : Advanced[k].node = stack[k].node
    BY <1>3, <1>6
  <2>2. QED BY <1>2, <1>3, <1>6, <2>1, Zenon DEF NoNodeTwice
\* Only the label at hand is no longer ahead.
<1>8. ASSUME NEW n \in used, NEW i \in DOMAIN At(n).labels, OpenIn(stack, n, i)
      PROVE  OpenIn(Advanced, n, i) \/ (n = m /\ i = j)
  <2>1. i \in Nat
    <3>1. At(n).labels \in Seq(LabelEntry)
      BY <1>2, NodeIsSection, SectionParts DEF IInv
    <3>2. QED BY <3>1
  <2>2. PICK k \in 1 .. top : stack[k].node = n /\ stack[k].next <= i
    BY <1>3, <1>8 DEF OpenIn
  <2>3. CASE k # top
    BY <1>6, <2>2, <2>3 DEF OpenIn
  <2>4. CASE k = top
    <3>1. n = m /\ j <= i
      BY <1>3, <2>2, <2>4
    <3>2. CASE i = j
      BY <3>1, <3>2
    <3>3. CASE i # j
      <4>1. j + 1 <= i
        BY <1>4, <2>1, <3>1, <3>3
      <4>2. top \in DOMAIN Advanced /\ Advanced[top].node = n /\ Advanced[top].next <= i
        <5> HIDE DEF top
        <5>1. QED BY <1>3, <1>6, <3>1, <4>1
      <4>3. QED BY <4>2 DEF OpenIn
    <3>4. QED BY <3>2, <3>3
  <2>5. QED BY <2>3, <2>4
<1>9. ASSUME MetOrOpen(used', stack'), NoNodeTwice(stack'), phase' \in {"require", "failed"},
             used \subseteq used'
      PROVE  Marking'
  <2>1. (MetOrOpen(used, stack) /\ NoNodeTwice(stack))'
    BY <1>9, AccountPrimed
  <2>2. used' \intersect Exporters(input', "__entry") # {}
    BY <1>1, <1>2, <1>9
  <2>3. QED BY <1>9, <2>1, <2>2 DEF Marking
<1>10. ASSUME label.present, stack' = Advanced, UNCHANGED <<phase, used>>
       PROVE  Marking'
  <2>1. MetOrOpen(used, Advanced)
    BY <1>2, <1>8, <1>10 DEF MetOrOpen
  <2>2. QED BY <1>2, <1>7, <1>9, <1>10, <2>1
<1>11. ASSUME ~label.present, require_label(m[1], label.name, Advanced)
       PROVE  Marking'
  <2>1. CASE phase' = "failed" /\ UNCHANGED <<used, stack>>
    BY <1>2, <1>9, <2>1
  <2>2. ASSUME NEW n \in Node, n \in Candidates(input, m[1], label.name), Enters(Advanced, n)
        PROVE  Marking'
    <3>1. ASSUME NEW k \in used, NEW i \in DOMAIN At(k).labels, ~At(k).labels[i].present
          PROVE  MetBy(used, k, i) \/ OpenIn(Advanced, k, i) \/ MetBy({n}, k, i)
      <4>1. MetBy({n}, m, j)
        BY <2>2 DEF MetBy
      <4>2. QED BY <1>2, <1>8, <3>1, <4>1 DEF MetOrOpen
    <3>2. MetOrOpen(used', stack') /\ NoNodeTwice(stack')
      <4>1. input \in Input
        BY DEF IInv
      <4>2. QED BY <1>5, <1>7, <2>2, <3>1, <4>1, EnterMarks
    <3>3. used \subseteq used' /\ phase' = "require"
      BY <2>2 DEF Enters
    <3>4. QED BY <1>9, <3>2, <3>3
  <2>3. QED BY <1>11, <2>1, <2>2, RequireOutcomes
<1>12. QED
  BY <1>10, <1>11 DEF RequireNext
\* The entry point is required from no file, so it can only be an export.
LEMMA MarkEntryMarks ==
  ASSUME IInv, [Next]_vars, MarkEntry
  PROVE  Marking'
<1>1. input' = input /\ \A k : At(k)' = At(k)
  BY InputConstant
<1>2. input \in Input /\ used = {} /\ stack = <<>> /\ require_label(0, "__entry", <<>>)
  BY DEF IInv, Marking, MarkEntry
<1>3. CASE phase' = "failed" /\ UNCHANGED <<used, stack>>
  <2>1. MetOrOpen(used', stack') /\ NoNodeTwice(stack')
    BY <1>2, <1>3 DEF MetOrOpen, NoNodeTwice
  <2>2. QED BY <1>3, <2>1, AccountPrimed DEF Marking
<1>4. ASSUME NEW n \in Node, n \in Candidates(input, 0, "__entry"), Enters(<<>>, n)
      PROVE  Marking'
  <2>1. <<>> \in Seq([node : used, next : Nat \ {0}]) /\ NoNodeTwice(<<>>)
    BY DEF NoNodeTwice
  <2>2. MetOrOpen(used', stack') /\ NoNodeTwice(stack')
    BY <1>2, <1>4, <2>1, EnterMarks
  <2>3. n \in Exporters(input, "__entry")
    <3>1. DefinersIn(input, 0, "__entry") = {}
      <4>1. \A k \in Node : k[1] \in DOMAIN input
        BY <1>2, NodeIsSection
      <4>2. input \in Seq(Seq(Section))
        BY <1>2, InputAssumption
      <4>3. 0 \notin DOMAIN input
        BY <4>2
      <4>4. QED BY <4>1, <4>3 DEF DefinersIn, Node
    <3>2. QED BY <1>4, <3>1 DEF Candidates
  <2>4. n \in used' /\ phase' = "require"
    BY <1>4 DEF Enters
  <2>5. used' \intersect Exporters(input', "__entry") # {}
    BY <1>1, <2>3, <2>4
  <2>6. QED BY <2>2, <2>4, <2>5, AccountPrimed DEF Marking
<1>5. QED BY <1>2, <1>3, <1>4, RequireOutcomes

LEMMA MarkingStep ==
  ASSUME IInv, [Next]_vars
  PROVE  Marking'
<1>1. input' = input
  BY InputConstant
<1>2. Marking /\ MarkingTyped
  BY DEF IInv, TypeOK
<1>3. ASSUME UNCHANGED <<used, stack>>,
             \/ phase' = phase
             \/ phase' = "failed"
             \/ phase = "build" /\ phase' = "mark"
             \/ phase = "require" /\ stack = <<>> /\ phase' = "offset"
             \/ /\ phase \in {"offset", "link", "write"}
                /\ phase' \in {"link", "write", "done"}
      PROVE  Marking'
  <2>1. MetOrOpen(used', stack') /\ NoNodeTwice(stack')
    BY <1>2, <1>3 DEF Marking
  <2>2. (MetOrOpen(used, stack) /\ NoNodeTwice(stack))'
    BY <2>1, AccountPrimed
  <2>3. QED BY <1>1, <1>2, <1>3, <2>2 DEF Marking
<1>4. CASE RequireReturn
  <2> DEFINE F == [node : used, next : Nat \ {0}]
  <2>1. /\ stack \in Seq(F) /\ stack # <<>> /\ Top.next > Len(At(Top.node).labels)
        /\ stack' = SubSeq(stack, 1, Len(stack) - 1) /\ UNCHANGED <<phase, used>>
        /\ phase = "require" /\ used \subseteq Node
    BY <1>2, <1>4 DEF RequireReturn, MarkingTyped
  <2> HIDE DEF F
  <2>2. /\ Len(stack) \in Nat /\ Len(stack) \in 1 .. Len(stack) /\ DOMAIN stack = 1 .. Len(stack)
        /\ \A k \in 1 .. Len(stack) - 1 : k \in 1 .. Len(stack)
    BY <2>1
  <2>3. /\ DOMAIN stack' = 1 .. Len(stack) - 1
        /\ \A k \in 1 .. Len(stack) - 1 : stack'[k] = stack[k]
    BY <2>1, <2>2
  <2>4. NoNodeTwice(stack')
    BY <1>2, <2>2, <2>3 DEF Marking, NoNodeTwice
  <2>5. ASSUME NEW n \in used, NEW i \in DOMAIN At(n).labels, OpenIn(stack, n, i)
        PROVE  OpenIn(stack', n, i)
    <3>1. PICK k \in 1 .. Len(stack) : stack[k].node = n /\ stack[k].next <= i
      BY <2>2, <2>5 DEF OpenIn
    <3>2. At(n).labels \in Seq(LabelEntry) /\ i \in 1 .. Len(At(n).labels)
      BY <2>1, NodeIsSection, SectionParts DEF IInv
    <3>3. stack[k].next \in Nat
      BY <2>1, <2>2, FrameParts DEF F
    <3>4. k # Len(stack)
      BY <2>1, <3>1, <3>2, <3>3 DEF Top
    <3>5. k \in 1 .. Len(stack) - 1
      <4>1. \A l \in Nat : \A c \in 1 .. l : c # l => c \in 1 .. l - 1
        OBVIOUS
      <4>2. QED BY <2>2, <3>4, <4>1, Zenon
    <3>6. QED BY <2>3, <3>1, <3>5 DEF OpenIn
  <2>6. MetOrOpen(used', stack')
    BY <1>2, <2>1, <2>5 DEF Marking, MetOrOpen
  <2>7. (MetOrOpen(used, stack) /\ NoNodeTwice(stack))'
    BY <2>4, <2>6, AccountPrimed
  <2>8. QED BY <1>1, <1>2, <2>1, <2>7 DEF Marking
<1>5. CASE BuildLists \/ Sort
  BY <1>3, <1>5 DEF BuildLists, Sort
<1>6. CASE OffsetSection \/ LinkSectionDone \/ WriteSection
  BY <1>3, <1>6 DEF OffsetSection, LinkSectionDone, WriteSection
<1>7. CASE OffsetDone \/ LinkDone \/ WriteDone
  BY <1>3, <1>7 DEF OffsetDone, LinkDone, WriteDone, EndOfLists
<1>8. CASE LinkUse
  <2>1. phase' \in {"link", "failed"} /\ phase = "link" /\ UNCHANGED <<used, stack>>
    BY <1>8 DEF LinkUse
  <2>2. QED BY <1>3, <2>1
<1>9. CASE UNCHANGED vars \/ Done
  BY <1>3, <1>9 DEF Done, vars
<1>10. QED
  BY <1>4, <1>5, <1>6, <1>7, <1>8, <1>9, MarkEntryMarks, RequireNextMarks DEF Next

\* The inductive invariant.
LEMMA Inductive == Spec => []IInv
<1>1. Init => IInv
  <2> SUFFICES ASSUME Init PROVE IInv
    OBVIOUS
  <2>1. input \in Input /\ used = {} /\ stack = <<>> /\ phase = "build"
    BY DEF Init
  <2>2. Marking
    BY <2>1 DEF Marking, MetOrOpen, NoNodeTwice
  <2>3. QED BY <2>1, <2>2, InitTyped DEF IInv
<1>2. IInv /\ [Next]_vars => IInv'
  <2> SUFFICES ASSUME IInv, [Next]_vars PROVE IInv'
    OBVIOUS
  <2>1. input' \in Input
    BY InputConstant DEF IInv
  <2>2. TypeOK'
    BY TypeStep DEF IInv
  <2>3. QED BY <2>1, <2>2, MarkingStep DEF IInv
<1>3. QED BY <1>1, <1>2, PTL DEF Spec

\* The linker's variables keep their types, for all object files: offsets and linked
\* words stay words, and only marked sections are worked on.
THEOREM LinkerTypeCorrect == Spec => []TypeOK
BY Inductive, PTL DEF IInv

\* No section is entered twice by the recursion, however the sections refer to each
\* other.
THEOREM RecursionIsBounded == Spec => []RecursionBounded
<1>1. IInv => RecursionBounded
  BY DEF IInv, Marking, NoNodeTwice, RecursionBounded
<1>2. QED BY <1>1, Inductive, PTL

\* When marking is over the marked sections need nothing outside themselves.
LEMMA MarkedNeedsMet == IInv => NeedsMet
<1> SUFFICES ASSUME IInv, phase \in {"offset", "link", "write", "done"}
             PROVE  /\ used \intersect Exporters(input, "__entry") # {}
                    /\ \A n \in used : \A name \in Needs(input, n) :
                         used \intersect Candidates(input, n[1], name) # {}
  BY DEF NeedsMet
<1>1. stack = <<>> /\ MetOrOpen(used, stack) /\ used \intersect Exporters(input, "__entry") # {}
  BY DEF IInv, Marking
<1>2. ASSUME NEW n \in used, NEW name \in Needs(input, n)
      PROVE  used \intersect Candidates(input, n[1], name) # {}
  <2>1. PICK i \in DOMAIN At(n).labels : ~At(n).labels[i].present /\ name = At(n).labels[i].name
    BY <1>2 DEF Needs, At
  <2>2. ~OpenIn(stack, n, i)
    BY <1>1 DEF OpenIn
  <2>3. MetBy(used, n, i)
    BY <1>1, <2>1, <2>2 DEF MetOrOpen
  <2>4. QED BY <2>1, <2>3 DEF MetBy
<1>3. QED BY <1>1, <1>2

THEOREM NeedsAreMet == Spec => []NeedsMet
BY MarkedNeedsMet, Inductive, PTL
-------------------------------------------------------------------------------
\* LinkedImage reads the object files as the linker does.
LEMMA SameObjects ==
  /\ Promise!Nodes(input) = Node
  /\ \A name : Promise!Exporters(input, name) = Exporters(input, name)
  /\ \A f, name : Promise!Candidates(input, f, name) = Candidates(input, f, name)
  /\ \A n : Promise!Needs(input, n) = Needs(input, n)
<1>1. Promise!Nodes(input) = Node
  BY DEF Promise!Nodes, Node, Nodes
<1>2. \A k, name : /\ Promise!Defines(input, k, name) <=> Defines(input, k, name)
                   /\ Promise!Exports(input, k, name) <=> Exports(input, k, name)
  BY DEF Promise!Defines, Promise!Exports, Promise!find_label, Promise!SectionAt,
         Defines, Exports, find_label, SectionAt
<1>3. \A name : Promise!Exporters(input, name) = Exporters(input, name)
  BY <1>1, <1>2 DEF Promise!Exporters, Exporters, Node
<1>4. \A f, name : Promise!DefinersIn(input, f, name) = DefinersIn(input, f, name)
  BY <1>1, <1>2 DEF Promise!DefinersIn, DefinersIn, Node
<1>5. \A f, name : Promise!Candidates(input, f, name) = Candidates(input, f, name)
  BY <1>3, <1>4 DEF Promise!Candidates, Candidates
<1>6. \A n : Promise!Needs(input, n) = Needs(input, n)
  BY DEF Promise!Needs, Needs, Promise!SectionAt, SectionAt
<1>7. QED BY <1>1, <1>3, <1>5, <1>6

\* Whatever holds of the entry point and is passed on from a section to what it needs
\* holds of the sections the entry point leads to.
LEMMA LedTo ==
  /\ Exporters(input, "__entry") \subseteq Promise!Reachable
  /\ \A m \in Promise!Reachable : \A name \in Needs(input, m) :
       Candidates(input, m[1], name) \subseteq Promise!Reachable
<1>1. /\ \A m : Exporters(input, m) \subseteq Node
      /\ \A f, m : Candidates(input, f, m) \subseteq Node
  BY DEF Exporters, Candidates, DefinersIn, Node
<1>2. Exporters(input, "__entry") \subseteq Promise!Reachable
  BY <1>1, SameObjects DEF Promise!Reachable, Promise!Leads
<1>3. ASSUME NEW m \in Promise!Reachable, NEW name \in Needs(input, m),
             NEW n \in Candidates(input, m[1], name)
      PROVE  n \in Promise!Reachable
  <2>1. ASSUME NEW S \in SUBSET Node, Promise!Leads(S) PROVE n \in S
    <3>1. m \in S
      BY <1>3, <2>1, SameObjects DEF Promise!Reachable
    <3>2. QED BY <1>3, <2>1, <3>1, SameObjects DEF Promise!Leads
  <2>2. QED BY <1>1, <1>3, <2>1, SameObjects DEF Promise!Reachable
<1>4. QED BY <1>2, <1>3

\* A section the recursion is in, and the label it is at.
LEMMA TopIsUsed ==
  ASSUME IInv, RequireNext
  PROVE  Top.node \in used /\ Top.next \in DOMAIN At(Top.node).labels
<1>1. /\ stack \in Seq([node : used, next : Nat \ {0}]) /\ stack # <<>>
      /\ used \subseteq Node /\ input \in Input
  BY DEF IInv, TypeOK, MarkingTyped, RequireNext
<1>2. Len(stack) \in DOMAIN stack
  BY <1>1
<1>3. Top.node \in used /\ Top.next \in Nat \ {0}
  BY <1>1, <1>2, FrameParts DEF Top
<1>4. At(Top.node).labels \in Seq(LabelEntry)
  BY <1>1, <1>3, NodeIsSection, SectionParts
<1>5. Top.next <= Len(At(Top.node).labels)
  BY DEF RequireNext
<1>6. QED BY <1>3, <1>4, <1>5

\* No file is file 0.
LEMMA EntryIsExported ==
  ASSUME input \in Input
  PROVE  Candidates(input, 0, "__entry") = Exporters(input, "__entry")
<1>1. \A n \in Node : n[1] \in DOMAIN input
  BY NodeIsSection
<1>2. input \in Seq(Seq(Section))
  BY InputAssumption
<1>3. 0 \notin DOMAIN input
  BY <1>2
<1>4. DefinersIn(input, 0, "__entry") = {}
  BY <1>1, <1>3 DEF DefinersIn, Node
<1>5. QED BY <1>4 DEF Candidates

LEMMA OnlyNeededStep ==
  ASSUME IInv, OnlyNeeded, [Next]_vars
  PROVE  OnlyNeeded'
<1>1. input' = input /\ Promise!Reachable' = Promise!Reachable
  BY InputConstant DEF Promise!Reachable, Promise!Leads
<1>2. used \subseteq Promise!Reachable
  BY DEF OnlyNeeded
<1>3. ASSUME NEW f, NEW name, NEW frames, require_label(f, name, frames),
             Candidates(input, f, name) \subseteq Promise!Reachable
      PROVE  used' \subseteq Promise!Reachable
  <2>1. CASE UNCHANGED used
    BY <1>2, <2>1
  <2>2. CASE \E n \in Node : n \in Candidates(input, f, name) /\ used' = used \union {n}
    BY <1>2, <1>3, <2>2
  <2>3. QED BY <1>3, <2>1, <2>2, RequireOutcomes DEF Enters
<1>4. CASE MarkEntry
  <2>1. require_label(0, "__entry", <<>>)
    BY <1>4 DEF MarkEntry
  <2>2. Candidates(input, 0, "__entry") = Exporters(input, "__entry")
    BY EntryIsExported DEF IInv
  <2>3. QED BY <1>1, <1>3, <2>1, <2>2, LedTo DEF OnlyNeeded
<1>5. CASE RequireNext
  <2>1. Top.node \in used /\ Top.next \in DOMAIN At(Top.node).labels
    BY <1>5, TopIsUsed
  <2>2. CASE UNCHANGED used
    BY <1>1, <1>2, <2>2 DEF OnlyNeeded
  <2> DEFINE label == At(Top.node).labels[Top.next]
  <2>3. ASSUME ~label.present, require_label(Top.node[1], label.name, Advanced)
        PROVE  OnlyNeeded'
    <3>1. label.name \in Needs(input, Top.node)
      BY <2>1, <2>3 DEF Needs, At
    <3>2. Candidates(input, Top.node[1], label.name) \subseteq Promise!Reachable
      BY <1>2, <2>1, <3>1, LedTo
    <3>3. QED BY <1>1, <1>3, <2>3, <3>2 DEF OnlyNeeded
  <2>4. QED BY <1>5, <2>2, <2>3 DEF RequireNext
<1>6. CASE UNCHANGED used
  BY <1>1, <1>2, <1>6 DEF OnlyNeeded
<1>7. QED
  BY <1>4, <1>5, <1>6 DEF Next, vars, BuildLists, RequireReturn, Sort, OffsetSection,
     OffsetDone, LinkUse, LinkSectionDone, LinkDone, WriteSection, WriteDone, EndOfLists, Done

\* Nothing is kept but what the entry point leads to, however the sections refer to
\* each other.
THEOREM NothingUnneededKept == Spec => []OnlyNeeded
<1>1. Init => OnlyNeeded
  BY DEF Init, OnlyNeeded
<1>2. IInv /\ OnlyNeeded /\ [Next]_vars => OnlyNeeded'
  BY OnlyNeededStep
<1>3. QED BY <1>1, <1>2, Inductive, PTL DEF Spec
-------------------------------------------------------------------------------
\* Linking.

\* Of any sections there is one that a search through the files meets first.
LEMMA SearchHasFirst ==
  ASSUME input \in Input, NEW S, S \subseteq Node, S # {}
  PROVE  \E n \in S : IsFirst(n, S, FileOrder)
<1>1. \A n \in S : n[1] \in Nat /\ n[2] \in Nat /\ n = <<n[1], n[2]>>
  <2>1. input \in Seq(Seq(Section))
    BY InputAssumption
  <2>2. \A f \in DOMAIN input : f \in Nat /\ DOMAIN input[f] \subseteq Nat
    BY <2>1
  <2>3. QED BY <2>2, NodeIsSection
<1>2. PICK f \in {n[1] : n \in S} : \A g \in {n[1] : n \in S} : f <= g
  <2>1. {n[1] : n \in S} # {} /\ {n[1] : n \in S} \subseteq Nat
    BY <1>1
  <2>2. QED BY <2>1, LeastNatural
<1> DEFINE here == {n \in S : n[1] = f}
<1>3. PICK p \in {n[2] : n \in here} : \A q \in {n[2] : n \in here} : p <= q
  <2>1. {n[2] : n \in here} # {} /\ {n[2] : n \in here} \subseteq Nat
    BY <1>1, <1>2
  <2>2. QED BY <2>1, LeastNatural
<1>4. PICK n \in here : n[2] = p
  BY <1>3
<1>5. ASSUME NEW k \in S \ {n} PROVE FileOrder(n, k)
  <2>1. n[1] \in Nat /\ n[2] \in Nat /\ k[1] \in Nat /\ k[2] \in Nat /\ n[1] = f
    BY <1>1, <1>4
  <2>2. f <= k[1]
    BY <1>2
  <2>3. CASE f < k[1]
    BY <2>1, <2>3 DEF FileOrder
  <2>4. CASE f = k[1]
    <3>1. p <= k[2]
      BY <1>3, <2>4
    <3>2. n[2] # k[2]
      BY <1>1, <1>4, <2>4
    <3>3. QED BY <1>4, <2>1, <2>4, <3>1, <3>2 DEF FileOrder
  <2>5. QED BY <2>1, <2>2, <2>3, <2>4
<1>6. QED BY <1>4, <1>5 DEF IsFirst

\* A candidate has an entry of the name.
LEMMA CandidateHasEntry ==
  ASSUME NEW f, NEW name, NEW k \in Candidates(input, f, name)
  PROVE  find_label(input, k, name) # {}
BY DEF Candidates, DefinersIn, Exporters, Defines, Exports

\* A label whose needs are met is found.
LEMMA FoundAgain ==
  ASSUME IInv, phase = "link", NEW n \in used, NEW i \in DOMAIN At(n).labels
  PROVE  find_located_label(n, i) # {}
<1> DEFINE label == At(n).labels[i]
           homes == IF label.present THEN {n} ELSE Candidates(input, n[1], label.name)
<1>1. input \in Input /\ used \subseteq Node /\ n \in Node
  BY DEF IInv, TypeOK, MarkingTyped
<1>2. homes \subseteq Node
  BY <1>1, SearchesStayInside
<1>3. homes # {} /\ \A k \in homes : find_label(input, k, label.name) # {}
  <2>1. CASE label.present
    <3>1. i \in find_label(input, n, label.name)
      BY DEF find_label, At
    <3>2. QED BY <2>1, <3>1
  <2>2. CASE ~label.present
    <3>1. label.name \in Needs(input, n)
      BY <2>2 DEF Needs, At
    <3>2. used \intersect Candidates(input, n[1], label.name) # {}
      BY <3>1, MarkedNeedsMet DEF NeedsMet
    <3>3. QED BY <2>2, <3>2, CandidateHasEntry
  <2>3. QED BY <2>1, <2>2
<1>4. PICK k \in homes : IsFirst(k, homes, FileOrder)
  BY <1>1, <1>2, <1>3, SearchHasFirst
<1>5. PICK e \in find_label(input, k, label.name) : TRUE
  BY <1>3
<1>6. <<k, e>> \in find_located_label(n, i)
  <2>1. find_located_label(n, i) =
          UNION {{h} \X find_label(input, h, label.name) :
                   h \in {g \in homes : IsFirst(g, homes, FileOrder)}}
    BY DEF find_located_label
  <2>2. k \in {g \in homes : IsFirst(g, homes, FileOrder)}
    BY <1>4
  <2>3. <<k, e>> \in {k} \X find_label(input, k, label.name)
    BY <1>5
  <2> HIDE DEF homes, label
  <2>4. QED BY <2>1, <2>2, <2>3
<1>7. QED BY <1>6

LEMMA LinkUseSucceeds ==
  ASSUME IInv, LinkUse
  PROVE  phase' = "link"
<1>1. PICK n \in used \ visited :
        LET use   == At(n).uses[Len(linked[n]) + 1]
        IN  /\ Len(linked[n]) < Len(At(n).uses)
            /\ phase' = IF find_located_label(n, use.label) = {} THEN "failed" ELSE "link"
  BY DEF LinkUse
<1> DEFINE k == Len(linked[n]) + 1
<1>2. n \in Node /\ input \in Input /\ linked[n] \in Seq(Word) /\ phase = "link"
  BY DEF IInv, TypeOK, MarkingTyped, OutputTyped, LinkUse
<1>3. k \in DOMAIN At(n).uses
  <2>1. At(n).uses \in Seq(Use)
    BY <1>2, NodeIsSection, SectionParts
  <2>2. Len(linked[n]) \in Nat
    BY <1>2
  <2>3. QED BY <1>1, <2>1, <2>2
<1>4. At(n).uses[k].label \in DOMAIN At(n).labels
  BY <1>2, <1>3, NodeIsSection DEF WellFormed
<1>5. find_located_label(n, At(n).uses[k].label) # {}
  BY <1>2, <1>4, FoundAgain
<1>6. QED BY <1>1, <1>5

\* Once marking has succeeded linking cannot fail.
THEOREM LinkingFindsAgain == Spec => LinkingNeverFails
<1>1. IInv /\ [Next]_vars => [phase = "link" => phase' # "failed"]_vars
  <2> SUFFICES ASSUME IInv, Next, phase = "link"
               PROVE  phase' # "failed" \/ UNCHANGED vars
    OBVIOUS
  <2>1. CASE LinkUse
    BY <2>1, LinkUseSucceeds
  <2>2. QED
    BY <2>1 DEF Next, BuildLists, MarkEntry, RequireNext, RequireReturn, Sort, OffsetSection,
       OffsetDone, LinkSectionDone, LinkDone, WriteSection, WriteDone, EndOfLists, Done
<1>2. QED BY <1>1, Inductive, PTL DEF Spec, LinkingNeverFails

-------------------------------------------------------------------------------
\* Placing, patching and writing.  All three walks pass the sections in the order of the
\* lists, so what one of them knows of a section are the sections before it.
Before(n) == {k \in used : ListOrder(k, n)}

IsLast(k, S) == k \in S /\ \A j \in S \ {k} : ListOrder(j, k)

\* The labels of a section as its file has them, and moved with it.
Given(n) == [i \in DOMAIN At(n).labels |-> At(n).labels[i].position]

Moved(n) ==
  [i \in DOMAIN At(n).labels |->
     IF At(n).labels[i].present THEN Add16(At(n).labels[i].position, start[n])
     ELSE At(n).labels[i].position]

\* The sections whose addresses are final, that are patched, that are in the image.
Placed == IF phase = "offset" THEN visited ELSE used
Patched == IF phase = "link" THEN visited ELSE used
Laid == IF phase = "write" THEN visited ELSE used

\* Nothing is done before its turn.
Untouched ==
  /\ phase \in {"build", "mark", "require"} =>
       visited = {} /\ c_off = 0 /\ \A n \in Node : position[n] = Given(n)
  /\ phase \in {"build", "mark", "require", "offset"} => \A n \in Node : linked[n] = <<>>
  /\ phase \in {"build", "mark", "require", "offset", "link"} => total_size = 0

\* The lists are sorted, and what has been passed comes before what has not.
Walking ==
  phase \in {"offset", "link", "write", "done"} =>
    /\ sects = Arranged(sect_comparator)
    /\ \A n \in visited, k \in used \ visited : ListOrder(n, k)

\* A section starts where the one before it ends, in 16 bits, and its labels went with it.
Starts(n) ==
  \/ Before(n) = {} /\ start[n] = 0
  \/ \E k \in Before(n) : IsLast(k, Before(n)) /\ start[n] = Add16(start[k], At(k).size)

OffsetFollows ==
  \/ visited = {} /\ c_off = 0
  \/ \E k \in visited : IsLast(k, visited) /\ c_off = Add16(start[k], At(k).size)

Placing ==
  /\ phase \in {"offset", "link", "write", "done"} =>
       \A n \in Placed : Starts(n) /\ position[n] = Moved(n)
  /\ phase = "offset" =>
       OffsetFollows /\ \A n \in used \ visited : position[n] = Given(n)

\* The words patched so far are addresses of labels the uses name.
PatchedWith(n, i) ==
  \E e \in find_located_label(n, At(n).uses[i].label) :
    linked[n][i] = Add16(position[e[1]][e[2]], At(n).uses[i].offset)

Patching ==
  phase \in {"link", "write", "done"} =>
    /\ \A n \in used : /\ Len(linked[n]) <= Len(At(n).uses)
                       /\ \A i \in DOMAIN linked[n] : PatchedWith(n, i)
    /\ \A n \in Patched : Len(linked[n]) = Len(At(n).uses)

\* A section is written where the one before it ends, which is where it was placed.
End(n) == written[n] + At(n).size

WrittenAfter(n) ==
  \/ Before(n) = {} /\ written[n] = 0
  \/ \E k \in Before(n) : IsLast(k, Before(n)) /\ written[n] = End(k)

SizeFollows ==
  \/ visited = {} /\ total_size = 0
  \/ \E k \in visited : IsLast(k, visited) /\ total_size = End(k)

Laying ==
  /\ phase \in {"write", "done"} =>
       /\ \A n \in Laid : WrittenAfter(n) /\ start[n] = written[n] % WordSize
       /\ \A n, k \in Laid : ListOrder(n, k) => End(n) <= written[k]
  /\ phase = "write" => SizeFollows /\ \A n \in visited : End(n) <= total_size

ImageInv == Untouched /\ Walking /\ Placing /\ Patching /\ Laying

\* A section's place in its file, and its file's place in the input, are numbers.
LEMMA NodeNumbers ==
  ASSUME input \in Input, NEW n \in Node
  PROVE  n[1] \in Nat /\ n[2] \in Nat /\ n = <<n[1], n[2]>> /\ At(n).name \in Names
<1>1. input \in Seq(Seq(Section))
  BY InputAssumption
<1>2. \A f \in DOMAIN input : f \in Nat /\ DOMAIN input[f] \subseteq Nat
  BY <1>1
<1>3. QED BY <1>2, NodeIsSection DEF Names

\* The order of the lists is a strict total order, however the names are sorted.
LEMMA ListsAreOrdered ==
  ASSUME input \in Input, sects \in [Names -> Nat]
  PROVE  /\ \A n \in Node : ~ListOrder(n, n)
         /\ \A n, k, m \in Node : ListOrder(n, k) /\ ListOrder(k, m) => ListOrder(n, m)
         /\ \A n, k \in Node : n # k => ListOrder(n, k) \/ ListOrder(k, n)
<1>1. \A n \in Node : sects[At(n).name] \in Nat /\ n[1] \in Nat /\ n[2] \in Nat
  BY NodeNumbers
<1>2. \A n \in Node : ~ListOrder(n, n)
  BY <1>1 DEF ListOrder, FileOrder
<1>3. ASSUME NEW n \in Node, NEW k \in Node, NEW m \in Node, ListOrder(n, k), ListOrder(k, m)
      PROVE  ListOrder(n, m)
  <2>1. \A x, y, z \in Nat : /\ x < y /\ y < z => x < z
                             /\ x = y /\ y < z => x < z
                             /\ x < y /\ y = z => x < z
    OBVIOUS
  <2>2. FileOrder(n, k) /\ FileOrder(k, m) => FileOrder(n, m)
    BY <1>1, <2>1 DEF FileOrder
  <2>3. QED BY <1>1, <1>3, <2>1, <2>2 DEF ListOrder
<1>4. ASSUME NEW n \in Node, NEW k \in Node, n # k
      PROVE  ListOrder(n, k) \/ ListOrder(k, n)
  <2>1. n[1] # k[1] \/ n[2] # k[2]
    BY <1>4, NodeNumbers
  <2>2. \A x, y \in Nat : x < y \/ x = y \/ y < x
    OBVIOUS
  <2>3. FileOrder(n, k) \/ FileOrder(k, n)
    BY <1>1, <2>1, <2>2 DEF FileOrder
  <2>4. QED BY <1>1, <2>2, <2>3 DEF ListOrder
<1>5. QED BY <1>2, <1>3, <1>4

\* Of some sections at most one is the last.
LEMMA OneIsLast ==
  ASSUME input \in Input, sects \in [Names -> Nat], NEW S \in SUBSET Node,
         NEW k, NEW j, IsLast(k, S), IsLast(j, S)
  PROVE  k = j
BY ListsAreOrdered DEF IsLast

\* The section a walk comes to has exactly the sections passed so far before it, and they
\* are still the sections passed when it is passed too.
LEMMA WalkGoesOn ==
  ASSUME IInv, Walking, phase \in {"offset", "link", "write"}, NEW n \in used \ visited,
         Following(n)
  PROVE  /\ Before(n) = visited
         /\ IsLast(n, visited \union {n})
         /\ \A m \in visited \union {n}, k \in used \ (visited \union {n}) : ListOrder(m, k)
<1>1. /\ input \in Input /\ sects \in [Names -> Nat] /\ used \subseteq Node
      /\ visited \subseteq used
  BY DEF IInv, TypeOK, MarkingTyped
<1>2. \A m \in visited, k \in used \ visited : ListOrder(m, k)
  BY DEF Walking
<1>3. \A k \in used \ visited : k # n => ListOrder(n, k)
  BY DEF Following, IsFirst
<1>4. Before(n) = visited
  <2>1. \A k \in used \ visited : ~ListOrder(k, n)
    BY <1>1, <1>3, ListsAreOrdered
  <2>2. QED BY <1>1, <1>2, <2>1 DEF Before
<1>5. QED BY <1>2, <1>3, <1>4 DEF IsLast

\* The comparator puts the lists in its order: a smaller name has a smaller index.
LEMMA ComparatorSorts ==
  ASSUME input \in Input, sects = Arranged(sect_comparator),
         NEW a \in Names, NEW b \in Names, sect_comparator(a, b)
  PROVE  sects[a] < sects[b]
<1> DEFINE before(c) == {other \in Names : sect_comparator(other, c)}
<1>1. \A c \in Names : Alphabet[c] \in Nat
  BY NodeIsSection, SectionParts, InputAssumption DEF Names
<1>2. ASSUME NEW c \in Names, NEW d \in Names, NEW e \in Names,
             sect_comparator(c, d), sect_comparator(d, e)
      PROVE  sect_comparator(c, e)
  <2>1. \A x, y, z \in Nat : x < y /\ y < z => x < z
    OBVIOUS
  <2>2. Alphabet[c] < Alphabet[d] /\ Alphabet[d] < Alphabet[e] => Alphabet[c] < Alphabet[e]
    BY <1>1, <2>1
  <2>3. QED BY <1>2, <2>2, Zenon DEF sect_comparator
<1>3. ~sect_comparator(a, a)
  <2>1. \A x \in Nat : ~(x < x)
    OBVIOUS
  <2>2. ~(Alphabet[a] < Alphabet[a])
    BY <1>1, <2>1
  <2>3. QED BY <2>2, Zenon DEF sect_comparator
<1>4. before(a) \subseteq before(b) /\ a \in before(b) /\ a \notin before(a)
  BY <1>2, <1>3
<1>5. IsFiniteSet(before(b))
  BY NodesFinite, FS_Subset
<1>6. sects[a] = Cardinality(before(a)) /\ sects[b] = Cardinality(before(b))
  BY DEF Arranged
<1> HIDE DEF before
<1>7. /\ Cardinality(before(a)) <= Cardinality(before(b)) /\ IsFiniteSet(before(a))
      /\ Cardinality(before(a)) # Cardinality(before(b))
  BY <1>4, <1>5, FS_Subset
<1>8. Cardinality(before(a)) \in Nat /\ Cardinality(before(b)) \in Nat
  BY <1>5, <1>7, FS_CardinalityType
<1>9. QED BY <1>6, <1>7, <1>8

\* What a step that leaves the lists and the marks alone cannot change.
LEMMA ListsFixed ==
  ASSUME [Next]_vars, UNCHANGED <<sects, used>>
  PROVE  /\ Node' = Node /\ \A n : At(n)' = At(n)
         /\ \A n, k : ListOrder(n, k)' <=> ListOrder(n, k)
         /\ \A n : Before(n)' = Before(n) /\ Given(n)' = Given(n)
         /\ \A n, i : find_located_label(n, i)' = find_located_label(n, i)
         /\ Arranged(sect_comparator)' = Arranged(sect_comparator)
<1>1. input' = input /\ Node' = Node /\ Names' = Names /\ \A n : At(n)' = At(n)
  BY InputConstant
<1>2. \A n, k : ListOrder(n, k)' <=> ListOrder(n, k)
  BY <1>1 DEF ListOrder, FileOrder
<1>3. \A n : Before(n)' = Before(n) /\ Given(n)' = Given(n)
  BY <1>1, <1>2 DEF Before, Given
<1>4. \A n, i : find_located_label(n, i)' = find_located_label(n, i)
  BY <1>1 DEF find_located_label, IsFirst, FileOrder
<1>5. Arranged(sect_comparator)' = Arranged(sect_comparator)
  BY <1>1 DEF Arranged, sect_comparator, Executable
<1>6. QED BY <1>1, <1>2, <1>3, <1>4, <1>5

\* A step of a walk keeps Walking if it keeps what has been passed before the rest.
LEMMA WalkingKept ==
  ASSUME [Next]_vars, UNCHANGED <<sects, used>>, Walking,
         phase \in {"offset", "link", "write", "done"},
         \A n \in visited', k \in used \ visited' : ListOrder(n, k)
  PROVE  Walking'
BY ListsFixed DEF Walking

\* Once a section is placed it stays where it is.
LEMMA PlacingKept ==
  ASSUME [Next]_vars, UNCHANGED <<sects, used, start, position>>, Placing,
         phase \in {"offset", "link", "write"}, phase' \in {"link", "write", "done"},
         phase = "offset" => visited = used
  PROVE  Placing'
<1>1. \A n \in used : Starts(n) /\ position[n] = Moved(n)
  BY DEF Placing, Placed
<1>2. \A n : Moved(n)' = Moved(n)
  BY ListsFixed DEF Moved
<1>3. \A n : Starts(n) => Starts(n)'
  BY ListsFixed DEF Starts, IsLast
<1>4. QED BY <1>1, <1>2, <1>3 DEF Placing, Placed

\* Once a section is patched its words stay.
LEMMA PatchingKept ==
  ASSUME [Next]_vars, UNCHANGED <<sects, used, position, linked>>, Patching,
         phase \in {"link", "write"}, phase' \in {"link", "write", "done"},
         \A n \in Patched' : Len(linked[n]) = Len(At(n).uses)
  PROVE  Patching'
<1>1. \A n, i : PatchedWith(n, i) => PatchedWith(n, i)'
  BY ListsFixed DEF PatchedWith
<1>2. QED BY <1>1, ListsFixed DEF Patching

\* Before the lists are sorted nothing is placed, patched or written.
LEMMA ImageMarking ==
  ASSUME IInv, ImageInv, [Next]_vars,
         BuildLists \/ MarkEntry \/ RequireNext \/ RequireReturn
  PROVE  ImageInv'
<1>1. /\ phase \in {"build", "mark", "require"} /\ phase' \in {"mark", "require", "failed"}
      /\ UNCHANGED <<visited, start, c_off, position, linked, total_size>>
  BY DEF BuildLists, MarkEntry, RequireNext, RequireReturn, require_label
<1>2. Node' = Node /\ \A n : Given(n)' = Given(n)
  BY InputConstant DEF Given
<1>3. Untouched'
  BY <1>1, <1>2 DEF ImageInv, Untouched
<1>4. Walking' /\ Placing' /\ Patching' /\ Laying'
  BY <1>1 DEF Walking, Placing, Patching, Laying
<1>5. QED BY <1>3, <1>4 DEF ImageInv

\* Then the lists have their order.
LEMMA ImageSort ==
  ASSUME IInv, ImageInv, [Next]_vars, Sort
  PROVE  ImageInv'
<1>1. /\ phase = "require" /\ phase' = "offset" /\ sects' = Arranged(sect_comparator)
      /\ UNCHANGED <<used, visited, start, c_off, position, linked, total_size>>
  BY DEF Sort
<1>2. input' = input /\ Node' = Node /\ Names' = Names /\ \A n : At(n)' = At(n)
  BY InputConstant
<1>3. Arranged(sect_comparator)' = Arranged(sect_comparator) /\ \A n : Given(n)' = Given(n)
  BY <1>2 DEF Arranged, sect_comparator, Executable, Given
<1>4. visited = {} /\ c_off = 0 /\ \A n \in Node : position[n] = Given(n)
  BY <1>1 DEF ImageInv, Untouched
<1>5. Untouched'
  BY <1>1, <1>2 DEF ImageInv, Untouched
<1>6. Walking'
  BY <1>1, <1>3, <1>4 DEF Walking
<1>7. Placing'
  <2>1. used \subseteq Node
    BY DEF IInv, TypeOK, MarkingTyped
  <2>2. QED BY <1>1, <1>3, <1>4, <2>1 DEF Placing, Placed, OffsetFollows
<1>8. Patching' /\ Laying'
  BY <1>1 DEF Patching, Laying
<1>9. QED BY <1>5, <1>6, <1>7, <1>8 DEF ImageInv

\* A section is placed at the running offset, which is where the last one ends.
LEMMA ImageOffset ==
  ASSUME IInv, ImageInv, [Next]_vars, OffsetSection
  PROVE  ImageInv'
<1>1. PICK n \in used \ visited :
        /\ Following(n)
        /\ start' = [start EXCEPT ![n] = c_off]
        /\ position' = [position EXCEPT ![n] =
             [i \in DOMAIN @ |-> IF At(n).labels[i].present THEN Add16(@[i], c_off)
                                 ELSE @[i]]]
        /\ c_off' = Add16(c_off, At(n).size)
        /\ visited' = visited \union {n}
  BY DEF OffsetSection
<1>2. phase = "offset" /\ UNCHANGED <<phase, sects, used, linked, total_size>>
  BY DEF OffsetSection
<1>3. /\ input \in Input /\ used \subseteq Node /\ visited \subseteq used /\ n \in Node
      /\ start \in [Node -> Word] /\ DOMAIN position = Node
  BY <1>1 DEF IInv, TypeOK, MarkingTyped, OutputTyped
<1>4. Walking /\ Placing /\ Untouched
  BY DEF ImageInv
<1>5. /\ Before(n) = visited /\ IsLast(n, visited \union {n})
      /\ \A m \in visited \union {n}, k \in used \ (visited \union {n}) : ListOrder(m, k)
  BY <1>1, <1>2, <1>4, WalkGoesOn
<1>6. start'[n] = c_off /\ \A k \in Node : k # n => start'[k] = start[k] /\ position'[k] = position[k]
  BY <1>1, <1>3
<1>7. Starts(n)'
  <2>1. \A k \in visited : start'[k] = start[k]
    BY <1>1, <1>3, <1>6
  <2>2. \/ visited = {} /\ c_off = 0
        \/ \E k \in visited : IsLast(k, visited) /\ c_off = Add16(start[k], At(k).size)
    BY <1>2, <1>4 DEF Placing, OffsetFollows
  <2>3. Before(n)' = visited /\ start'[n] = c_off
    BY <1>2, <1>5, <1>6, ListsFixed
  <2>4. \A k : IsLast(k, visited) => IsLast(k, Before(n))'
    BY <1>2, <2>3, ListsFixed DEF IsLast
  <2>5. QED BY <1>2, <2>1, <2>2, <2>3, <2>4, ListsFixed DEF Starts
<1>8. ASSUME NEW m \in visited PROVE Starts(m)'
  <2>1. Starts(m) /\ m # n /\ m \in Node
    BY <1>1, <1>2, <1>3, <1>4 DEF Placing, Placed
  <2>2. start'[m] = start[m] /\ \A k \in Before(m) : start'[k] = start[k]
    <3>1. n \notin Before(m)
      <4>1. ListOrder(m, n)
        BY <1>1, <1>2, <1>4 DEF Walking
      <4>2. ~ListOrder(n, m)
        BY <1>3, <2>1, <4>1, ListsAreOrdered DEF IInv, TypeOK, MarkingTyped
      <4>3. QED BY <4>2 DEF Before
    <3>2. Before(m) \subseteq Node
      BY <1>3 DEF Before
    <3>3. QED BY <1>6, <2>1, <3>1, <3>2
  <2>3. QED BY <1>2, <2>1, <2>2, ListsFixed DEF Starts, IsLast
<1>9. position'[n] = Moved(n)'
  <2>1. position[n] = Given(n)
    BY <1>1, <1>2, <1>4 DEF Placing
  <2>2. position'[n] = [i \in DOMAIN position[n] |->
                          IF At(n).labels[i].present THEN Add16(position[n][i], c_off)
                          ELSE position[n][i]]
    BY <1>1, <1>3
  <2>3. Moved(n)' = [i \in DOMAIN At(n).labels |->
                       IF At(n).labels[i].present THEN Add16(At(n).labels[i].position, c_off)
                       ELSE At(n).labels[i].position]
    BY <1>2, <1>6, ListsFixed DEF Moved
  <2>4. QED BY <2>1, <2>2, <2>3 DEF Given
<1>10. ASSUME NEW m \in visited PROVE position'[m] = Moved(m)'
  <2>1. position[m] = Moved(m) /\ m # n /\ m \in Node
    BY <1>1, <1>2, <1>3, <1>4 DEF Placing, Placed
  <2>2. start'[m] = start[m] /\ position'[m] = position[m]
    BY <1>6, <2>1
  <2>3. QED BY <1>2, <2>1, <2>2, ListsFixed DEF Moved
<1>11. OffsetFollows'
  <2>1. \A j \in visited' \ {n} : ListOrder(j, n)'
    BY <1>1, <1>2, <1>5, ListsFixed DEF IsLast
  <2>2. c_off' = Add16(start'[n], At(n)'.size) /\ n \in visited'
    BY <1>1, <1>2, <1>6, ListsFixed
  <2>3. IsLast(n, visited)'
    BY <2>1, <2>2 DEF IsLast
  <2>4. QED BY <2>2, <2>3 DEF OffsetFollows
<1>12. Placing'
  <2>1. \A m \in used \ visited' : position'[m] = Given(m)
    BY <1>1, <1>2, <1>3, <1>4, <1>6 DEF Placing
  <2>2. Placed' = visited \union {n}
    BY <1>1, <1>2 DEF Placed
  <2>3. QED
    BY <1>2, <1>7, <1>8, <1>9, <1>10, <1>11, <2>1, <2>2, ListsFixed DEF Placing
<1>13. Walking'
  BY <1>1, <1>2, <1>4, <1>5, WalkingKept
<1>14. Untouched' /\ Patching' /\ Laying'
  BY <1>2, <1>4, ListsFixed DEF Untouched, Patching, Laying
<1>15. QED BY <1>12, <1>13, <1>14 DEF ImageInv

\* A use is patched with the address its label has by now.
LEMMA ImageLinkUse ==
  ASSUME IInv, ImageInv, [Next]_vars, LinkUse
  PROVE  ImageInv'
<1>1. PICK n \in used \ visited :
        LET use   == At(n).uses[Len(linked[n]) + 1]
            found == find_located_label(n, use.label)
            word(e) == Add16(position[e[1]][e[2]], use.offset)
        IN  /\ Len(linked[n]) < Len(At(n).uses)
            /\ phase' = IF found = {} THEN "failed" ELSE "link"
            /\ linked' \in IF found = {} THEN {linked}
                           ELSE {[linked EXCEPT ![n] = Append(@, word(e))] : e \in found}
  BY DEF LinkUse
<1> DEFINE top == Len(linked[n]) + 1
           use == At(n).uses[top]
           word(e) == Add16(position[e[1]][e[2]], use.offset)
<1>2. /\ phase = "link" /\ phase' = "link"
      /\ UNCHANGED <<sects, used, visited, start, position, written, total_size>>
  BY LinkUseSucceeds DEF LinkUse
<1>3. PICK e \in find_located_label(n, use.label) :
        linked' = [linked EXCEPT ![n] = Append(@, word(e))]
  BY <1>1, <1>2
<1>4. /\ used \subseteq Node /\ n \in Node /\ linked \in [Node -> Seq(Word)]
      /\ At(n).uses \in Seq(Use)
  BY NodeIsSection, SectionParts DEF IInv, TypeOK, MarkingTyped, OutputTyped
<1>5. Walking /\ Placing /\ Patching /\ Untouched
  BY DEF ImageInv
<1> HIDE DEF word
<1>6. /\ linked'[n] = Append(linked[n], word(e)) /\ Len(linked[n]) \in Nat
      /\ \A m \in Node : m # n => linked'[m] = linked[m]
  BY <1>3, <1>4
<1>7. /\ Len(linked'[n]) = top /\ linked'[n][top] = word(e)
      /\ \A i \in 1 .. Len(linked[n]) : linked'[n][i] = linked[n][i]
      /\ DOMAIN linked'[n] = 1 .. top /\ DOMAIN linked[n] = 1 .. Len(linked[n])
  <2>1. linked[n] \in Seq(Word)
    BY <1>4
  <2>2. QED BY <1>6, <2>1
<1>8. Len(linked'[n]) <= Len(At(n).uses)
  BY <1>1, <1>4, <1>6, <1>7
<1>9. ASSUME NEW i \in DOMAIN linked'[n] PROVE PatchedWith(n, i)'
  <2>1. CASE i = top
    <3>1. linked'[n][i] = Add16(position[e[1]][e[2]], At(n).uses[i].offset)
      BY <1>7, <2>1 DEF word
    <3>2. e \in find_located_label(n, At(n).uses[i].label)
      BY <1>3, <2>1
    <3>3. QED BY <1>2, <3>1, <3>2, ListsFixed DEF PatchedWith
  <2>2. CASE i # top
    <3>1. i \in DOMAIN linked[n] /\ linked'[n][i] = linked[n][i]
      BY <1>6, <1>7, <2>2
    <3>2. PatchedWith(n, i)
      BY <1>2, <1>5, <3>1 DEF Patching
    <3>3. QED BY <1>2, <3>1, <3>2, ListsFixed DEF PatchedWith
  <2>3. QED BY <2>1, <2>2
<1>10. ASSUME NEW m \in used, m # n
       PROVE  /\ Len(linked'[m]) <= Len(At(m).uses)
              /\ \A i \in DOMAIN linked'[m] : PatchedWith(m, i)'
  <2>1. /\ linked'[m] = linked[m] /\ Len(linked[m]) <= Len(At(m).uses)
        /\ \A i \in DOMAIN linked[m] : PatchedWith(m, i)
    BY <1>2, <1>4, <1>5, <1>6, <1>10 DEF Patching
  <2>2. QED BY <1>2, <2>1, ListsFixed DEF PatchedWith
<1>11. Patching'
  <2>1. Patched' = visited /\ n \notin visited /\ visited \subseteq used
    BY <1>2 DEF Patched, IInv, TypeOK, MarkingTyped
  <2>2. \A m \in visited : Len(linked'[m]) = Len(At(m).uses)
    BY <1>2, <1>4, <1>5, <1>6, <2>1 DEF Patching, Patched
  <2>3. QED BY <1>2, <1>8, <1>9, <1>10, <2>1, <2>2, ListsFixed DEF Patching
<1>12. Walking'
  BY <1>2, <1>5, WalkingKept DEF Walking
<1>13. Placing'
  BY <1>2, <1>5, PlacingKept
<1>14. Untouched' /\ Laying'
  BY <1>2, <1>5 DEF Untouched, Laying
<1>15. QED BY <1>11, <1>12, <1>13, <1>14 DEF ImageInv

\* The ends of the walks: what was true of the sections passed is true of all.
LEMMA ImageTurns ==
  ASSUME IInv, ImageInv, [Next]_vars, OffsetDone \/ LinkDone \/ WriteDone
  PROVE  ImageInv'
<1>1. /\ \/ phase = "offset" /\ phase' = "link"
         \/ phase = "link" /\ phase' = "write"
         \/ phase = "write" /\ phase' = "done"
      /\ visited = used /\ visited' = {}
      /\ UNCHANGED <<input, sects, used, start, position, linked, written, total_size>>
  BY DEF OffsetDone, LinkDone, WriteDone, EndOfLists
<1>2. Walking /\ Placing /\ Patching /\ Untouched /\ Laying
  BY DEF ImageInv
<1>3. Untouched'
  BY <1>1, <1>2, ListsFixed DEF Untouched
<1>4. Walking'
  BY <1>1, <1>2, WalkingKept
<1>5. Placing'
  BY <1>1, <1>2, PlacingKept
<1>6. Patching'
  <2>1. CASE phase = "offset"
    <3>1. \A n \in used : linked[n] = <<>> /\ Len(At(n).uses) \in Nat
      <4>1. \A n \in used : n \in Node /\ At(n).uses \in Seq(Use)
        BY NodeIsSection, SectionParts DEF IInv, TypeOK, MarkingTyped
      <4>2. QED BY <1>2, <2>1, <4>1 DEF Untouched
    <3>2. Patched' = {}
      BY <1>1, <2>1 DEF Patched
    <3>3. QED BY <1>1, <3>1, <3>2, ListsFixed DEF Patching
  <2>2. CASE phase # "offset"
    <3>1. \A n \in used : Len(linked[n]) = Len(At(n).uses)
      BY <1>1, <1>2, <2>2 DEF Patching, Patched
    <3>2. Patched' = used
      BY <1>1, <2>2 DEF Patched
    <3>3. QED BY <1>1, <1>2, <2>2, <3>1, <3>2, PatchingKept
  <2>3. QED BY <2>1, <2>2
<1>7. Laying'
  <2>1. CASE phase = "offset"
    BY <1>1, <2>1 DEF Laying
  <2>2. CASE phase = "link"
    <3>1. total_size = 0
      BY <1>2, <2>2 DEF Untouched
    <3>2. phase' = "write" /\ Laid' = {} /\ visited' = {} /\ total_size' = 0
      BY <1>1, <2>2, <3>1 DEF Laid
    <3>3. QED BY <3>2 DEF Laying, SizeFollows
  <2>3. CASE phase = "write"
    <3>1. phase' = "done" /\ Laid' = used /\ Laid = used
      BY <1>1, <2>3 DEF Laid
    <3>2. \A n : WrittenAfter(n) => WrittenAfter(n)'
      BY <1>1, ListsFixed DEF WrittenAfter, IsLast, End
    <3>3. \A n : End(n)' = End(n)
      BY <1>1, ListsFixed DEF End
    <3>4. \A n, k : ListOrder(n, k)' <=> ListOrder(n, k)
      BY <1>1, ListsFixed
    <3>5. /\ \A n \in used : WrittenAfter(n) /\ start[n] = written[n] % WordSize
          /\ \A n, k \in used : ListOrder(n, k) => End(n) <= written[k]
      BY <1>2, <2>3, <3>1 DEF Laying
    <3>6. QED BY <1>1, <3>1, <3>2, <3>3, <3>4, <3>5 DEF Laying
  <2>4. QED BY <1>1, <2>1, <2>2, <2>3
<1>8. QED BY <1>3, <1>4, <1>5, <1>6, <1>7 DEF ImageInv

\* A section is done when its uses are.
LEMMA ImageLinkSection ==
  ASSUME IInv, ImageInv, [Next]_vars, LinkSectionDone
  PROVE  ImageInv'
<1>1. PICK n \in used \ visited :
        /\ Following(n)
        /\ Len(linked[n]) = Len(At(n).uses)
        /\ visited' = visited \union {n}
  BY DEF LinkSectionDone
<1>2. /\ phase = "link" /\ phase' = "link"
      /\ UNCHANGED <<sects, used, start, c_off, position, linked, written, total_size>>
  BY DEF LinkSectionDone
<1>3. Walking /\ Placing /\ Patching /\ Untouched /\ Laying
  BY DEF ImageInv
<1>4. Walking'
  <2>1. \A m \in visited', k \in used \ visited' : ListOrder(m, k)
    BY <1>1, <1>2, <1>3, WalkGoesOn
  <2>2. QED BY <1>2, <1>3, <2>1, WalkingKept
<1>5. Patching'
  <2>1. \A m \in Patched' : Len(linked[m]) = Len(At(m).uses)
    BY <1>1, <1>2, <1>3 DEF Patching, Patched
  <2>2. QED BY <1>2, <1>3, <2>1, PatchingKept
<1>6. Placing'
  BY <1>2, <1>3, PlacingKept
<1>7. Untouched' /\ Laying'
  BY <1>2, <1>3 DEF Untouched, Laying
<1>8. QED BY <1>4, <1>5, <1>6, <1>7 DEF ImageInv

\* Numbers modulo another can be reduced before they are added.
LEMMA AddReduced ==
  ASSUME NEW x \in Nat, NEW y \in Nat
  PROVE  Add16(x % WordSize, y) = (x + y) % WordSize
BY DEF Add16, WordSize

\* A section is written where the one before it ends, and that is where it was placed.
LEMMA ImageWrite ==
  ASSUME IInv, ImageInv, [Next]_vars, WriteSection
  PROVE  ImageInv'
<1>1. PICK n \in used \ visited :
        /\ Following(n)
        /\ written' = [written EXCEPT ![n] = total_size]
        /\ total_size' = total_size + At(n).size
        /\ visited' = visited \union {n}
  BY DEF WriteSection
<1>2. /\ phase = "write" /\ phase' = "write"
      /\ UNCHANGED <<sects, used, start, position, linked>>
  BY DEF WriteSection
<1>3. /\ input \in Input /\ sects \in [Names -> Nat] /\ used \subseteq Node
      /\ visited \subseteq used /\ n \in Node
      /\ written \in [Node -> Nat] /\ total_size \in Nat
      /\ \A k \in Node : At(k).size \in Nat /\ written[k] \in Nat
  BY NodeIsSection, SectionParts, Words DEF IInv, TypeOK, MarkingTyped, OutputTyped
<1>4. Walking /\ Placing /\ Patching /\ Untouched /\ Laying
  BY DEF ImageInv
<1>5. /\ Before(n) = visited /\ IsLast(n, visited \union {n})
      /\ \A m \in visited \union {n}, k \in used \ (visited \union {n}) : ListOrder(m, k)
  BY <1>1, <1>2, <1>4, WalkGoesOn
<1>6. /\ written'[n] = total_size /\ \A k \in Node : k # n => written'[k] = written[k]
      /\ \A k \in visited : k # n /\ written'[k] = written[k] /\ ListOrder(k, n)
  BY <1>1, <1>3, <1>5 DEF Before
<1>7. /\ SizeFollows /\ \A k \in visited : End(k) <= total_size
      /\ \A k \in visited : WrittenAfter(k) /\ start[k] = written[k] % WordSize
      /\ \A m, k \in visited : ListOrder(m, k) => End(m) <= written[k]
  BY <1>2, <1>4 DEF Laying, Laid
<1>8. WrittenAfter(n)'
  <2>1. \A k \in visited : End(k)' = End(k)
    BY <1>2, <1>6, ListsFixed DEF End
  <2>2. Before(n)' = visited /\ written'[n] = total_size
    BY <1>2, <1>5, <1>6, ListsFixed
  <2>3. \A k : IsLast(k, visited) => IsLast(k, Before(n))'
    BY <1>2, <2>2, ListsFixed DEF IsLast
  <2>4. QED BY <1>7, <2>1, <2>2, <2>3 DEF SizeFollows, WrittenAfter
<1>9. start[n] = total_size % WordSize
  <2>1. Starts(n)
    BY <1>2, <1>4 DEF Placing, Placed
  <2>2. CASE visited = {}
    <3>1. start[n] = 0 /\ total_size = 0
      BY <1>5, <1>7, <2>1, <2>2 DEF Starts, SizeFollows
    <3>2. 0 % WordSize = 0
      BY DEF WordSize
    <3>3. QED BY <3>1, <3>2
  <2>3. CASE visited # {}
    <3>1. PICK k \in visited : IsLast(k, visited) /\ start[n] = Add16(start[k], At(k).size)
      BY <1>5, <2>1, <2>3 DEF Starts
    <3>2. PICK j \in visited : IsLast(j, visited) /\ total_size = End(j)
      BY <1>7, <2>3 DEF SizeFollows
    <3>3. k = j
      BY <1>3, <3>1, <3>2, OneIsLast
    <3>4. start[n] = Add16(written[k] % WordSize, At(k).size)
      BY <1>7, <3>1
    <3>5. QED BY <1>3, <3>2, <3>3, <3>4, AddReduced DEF End
  <2>4. QED BY <2>2, <2>3
<1>10. ASSUME NEW m \in visited
       PROVE  WrittenAfter(m)'
  <2>1. WrittenAfter(m) /\ m # n /\ m \in Node
    BY <1>3, <1>6, <1>7
  <2>2. written'[m] = written[m] /\ \A k \in Before(m) : End(k)' = End(k)
    <3>1. n \notin Before(m)
      <4>1. ~ListOrder(n, m)
        BY <1>3, <1>6, <2>1, ListsAreOrdered
      <4>2. QED BY <4>1 DEF Before
    <3>2. Before(m) \subseteq Node
      BY <1>3 DEF Before
    <3>3. \A k \in Before(m) : written'[k] = written[k]
      BY <1>6, <3>1, <3>2
    <3>4. QED BY <1>2, <1>6, <2>1, <3>3, ListsFixed DEF End
  <2>3. QED BY <1>2, <2>1, <2>2, ListsFixed DEF WrittenAfter, IsLast
<1>11. /\ End(n)' = total_size + At(n).size
       /\ \A k \in visited : End(k)' = End(k)
  BY <1>2, <1>6, ListsFixed DEF End
<1>12. ASSUME NEW m \in visited', NEW k \in visited', ListOrder(m, k)
       PROVE  End(m)' <= written'[k]
  <2>1. m \in visited \/ m = n
    BY <1>1
  <2>2. k \in visited \/ k = n
    BY <1>1
  <2>3. CASE m = n
    <3>1. ~ListOrder(n, n) /\ \A j \in visited : ~ListOrder(n, j)
      BY <1>3, <1>6, ListsAreOrdered
    <3>2. QED BY <1>12, <2>2, <2>3, <3>1
  <2>4. CASE m \in visited /\ k = n
    BY <1>6, <1>7, <1>11, <2>4
  <2>5. CASE m \in visited /\ k \in visited
    BY <1>6, <1>7, <1>11, <1>12, <2>5
  <2>6. QED BY <2>1, <2>2, <2>3, <2>4, <2>5
<1>13. SizeFollows'
  <2>1. \A j \in visited' \ {n} : ListOrder(j, n)'
    BY <1>1, <1>2, <1>6, ListsFixed
  <2>2. total_size' = End(n)' /\ n \in visited'
    BY <1>1, <1>11
  <2>3. IsLast(n, visited)'
    BY <2>1, <2>2 DEF IsLast
  <2>4. QED BY <2>2, <2>3 DEF SizeFollows
<1>14. \A k \in visited' : End(k)' <= total_size'
  <2>1. total_size' \in Nat /\ total_size <= total_size' /\ End(n)' = total_size'
    BY <1>1, <1>3, <1>11
  <2>2. \A k \in visited : End(k) \in Nat /\ End(k) <= total_size
    BY <1>3, <1>7 DEF End
  <2>3. QED BY <1>1, <1>3, <1>11, <2>1, <2>2
<1>15. Laying'
  <2>1. Laid' = visited \union {n} /\ visited' = visited \union {n}
    BY <1>1, <1>2 DEF Laid
  <2>2. \A m \in visited \union {n} :
          WrittenAfter(m)' /\ start'[m] = written'[m] % WordSize
    BY <1>2, <1>6, <1>7, <1>8, <1>9, <1>10
  <2>3. \A m, k : ListOrder(m, k)' <=> ListOrder(m, k)
    BY <1>2, ListsFixed
  <2>4. QED BY <1>2, <1>12, <1>13, <1>14, <2>1, <2>2, <2>3 DEF Laying
<1>16. Walking'
  BY <1>1, <1>2, <1>4, <1>5, WalkingKept
<1>17. Placing'
  BY <1>2, <1>4, PlacingKept
<1>18. Patching'
  <2>1. \A m \in Patched' : Len(linked[m]) = Len(At(m).uses)
    BY <1>2, <1>4 DEF Patching, Patched
  <2>2. QED BY <1>2, <1>4, <2>1, PatchingKept
<1>19. Untouched'
  BY <1>2 DEF Untouched
<1>20. QED BY <1>15, <1>16, <1>17, <1>18, <1>19 DEF ImageInv

LEMMA ImageInductive == Spec => []ImageInv
<1>1. Init => ImageInv
  <2> SUFFICES ASSUME Init PROVE ImageInv
    OBVIOUS
  <2>1. /\ phase = "build" /\ visited = {} /\ c_off = 0 /\ total_size = 0
        /\ \A n \in Node : linked[n] = <<>> /\ position[n] = Given(n)
    BY DEF Init, Given
  <2>2. QED BY <2>1 DEF ImageInv, Untouched, Walking, Placing, Patching, Laying
<1>2. IInv /\ ImageInv /\ [Next]_vars => ImageInv'
  <2> SUFFICES ASSUME IInv, ImageInv, [Next]_vars PROVE ImageInv'
    OBVIOUS
  <2>1. CASE UNCHANGED vars \/ Done
    <3>1. UNCHANGED vars
      BY <2>1 DEF Done
    <3>2. /\ UNCHANGED <<phase, sects, used, visited, start, c_off, position, linked, written,
                         total_size>>
          /\ Untouched /\ Walking /\ Placing /\ Patching /\ Laying
      BY <3>1 DEF vars, ImageInv
    <3>3. Untouched' /\ Walking'
      BY <3>2, ListsFixed DEF Untouched, Walking
    <3>4. Placing'
      BY <3>2, ListsFixed DEF Placing, Placed, Starts, IsLast, Moved, OffsetFollows
    <3>5. Patching'
      BY <3>2, ListsFixed DEF Patching, Patched, PatchedWith
    <3>6. Laying'
      BY <3>2, ListsFixed DEF Laying, Laid, WrittenAfter, SizeFollows, IsLast, End
    <3>7. QED BY <3>3, <3>4, <3>5, <3>6 DEF ImageInv
  <2>2. QED
    BY <2>1, ImageMarking, ImageSort, ImageOffset, ImageTurns, ImageLinkUse, ImageLinkSection,
       ImageWrite DEF Next
<1>3. QED BY <1>1, <1>2, Inductive, PTL DEF Spec
-------------------------------------------------------------------------------
\* What has been written keeps the promise.
At0 == [n \in used |-> written[n]]
Word0 == [n \in used |-> linked[n]]

\* All the sections are written.
Complete == IInv /\ OnlyNeeded /\ ImageInv /\ phase = "write" /\ visited = used

LEMMA CompleteFacts ==
  ASSUME Complete
  PROVE  /\ input \in Input /\ sects \in [Names -> Nat] /\ used \subseteq Node
         /\ \A n \in Node : At(n).size \in Nat /\ written[n] \in Nat
         /\ \A n \in used : WrittenAfter(n) /\ start[n] = written[n] % WordSize
         /\ \A n, k \in used : ListOrder(n, k) => End(n) <= written[k]
         /\ sects = Arranged(sect_comparator)
         /\ \A n : Promise!SectionAt(input, n) = At(n)
         /\ \A n, name : Promise!find_label(input, n, name) = find_label(input, n, name)
<1>1. /\ input \in Input /\ sects \in [Names -> Nat] /\ used \subseteq Node
      /\ \A n \in Node : At(n).size \in Nat /\ written[n] \in Nat
  BY NodeIsSection, SectionParts, Words DEF Complete, IInv, TypeOK, MarkingTyped, OutputTyped
<1>2. /\ \A n \in used : WrittenAfter(n) /\ start[n] = written[n] % WordSize
      /\ \A n, k \in used : ListOrder(n, k) => End(n) <= written[k]
      /\ sects = Arranged(sect_comparator)
  BY DEF Complete, ImageInv, Laying, Laid, Walking
<1>3. /\ \A n : Promise!SectionAt(input, n) = At(n)
      /\ \A n, name : Promise!find_label(input, n, name) = find_label(input, n, name)
  BY DEF Promise!SectionAt, Promise!find_label, At, SectionAt, find_label
<1>4. QED BY <1>1, <1>2, <1>3

\* The sections lie one after the other.
LEMMA ImageContiguous ==
  ASSUME Complete
  PROVE  Promise!Contiguous(used, At0)
<1> DEFINE end(n) == At0[n] + At(n).size
<1>1. \A n \in used : At0[n] = written[n] /\ end(n) = End(n)
  BY DEF At0, End
<1>2. ASSUME NEW n \in used
      PROVE  At0[n] = 0 \/ \E k \in used \ {n} : At0[n] = end(k)
  <2>1. Before(n) \subseteq used \ {n}
    BY CompleteFacts, ListsAreOrdered DEF Before
  <2>2. WrittenAfter(n)
    BY CompleteFacts
  <2>3. QED BY <1>1, <2>1, <2>2 DEF WrittenAfter
<1>3. ASSUME NEW n \in used, NEW k \in used, n # k
      PROVE  end(n) <= At0[k] \/ end(k) <= At0[n]
  <2>1. ListOrder(n, k) \/ ListOrder(k, n)
    BY <1>3, CompleteFacts, ListsAreOrdered
  <2>2. QED BY <1>1, <2>1, CompleteFacts
<1> HIDE DEF end
<1>4. QED
  <2>1. \A n : end(n) = At0[n] + Promise!SectionAt(input, n).size
    BY CompleteFacts DEF end
  <2>2. QED BY <1>2, <1>3, <2>1 DEF Promise!Contiguous

\* The start section comes first, and code before data.
LEMMA ImageInOrder ==
  ASSUME Complete
  PROVE  Promise!InOrder(used, At0)
<1> SUFFICES ASSUME NEW n \in used, NEW k \in used,
                    \/ At(n).name = "start_section" /\ At(k).name # "start_section"
                    \/ At(n).executable /\ ~At(k).executable
             PROVE  At0[n] <= At0[k]
  BY CompleteFacts DEF Promise!InOrder
<1>1. n \in Node /\ k \in Node /\ input \in Input
  BY CompleteFacts
<1>2. /\ \A m \in Node : At(m).name = At(n).name => At(m).executable = At(n).executable
      /\ \A m \in Node : At(m).name = At(k).name => At(m).executable = At(k).executable
      /\ At(k).name = "start_section" => At(k).executable
  <2>1. ExecutableByName(input)
    BY <1>1, InputAssumption
  <2>2. \A m \in Node : m[1] \in DOMAIN input /\ m[2] \in DOMAIN input[m[1]]
    BY <1>1, NodeIsSection
  <2>3. QED BY <1>1, <2>1, <2>2 DEF ExecutableByName, At, SectionAt
<1>3. /\ Executable(At(n).name) <=> At(n).executable
      /\ Executable(At(k).name) <=> At(k).executable
  BY <1>1, <1>2 DEF Executable
<1>4. sect_comparator(At(n).name, At(k).name)
  BY <1>2, <1>3 DEF sect_comparator
<1>5. sects[At(n).name] < sects[At(k).name]
  BY <1>1, <1>4, CompleteFacts, NodeNumbers, ComparatorSorts
<1>6. written[n] + At(n).size <= written[k]
  BY <1>5, CompleteFacts DEF ListOrder, End
<1>7. At0[n] = written[n] /\ At0[k] = written[k]
  BY DEF At0
<1>8. QED BY <1>1, <1>6, <1>7, CompleteFacts

LEMMA AddTwice ==
  ASSUME NEW x \in Nat, NEW y \in Nat, NEW z \in Nat
  PROVE  Add16(Add16(x, y % WordSize), z) = (y + x + z) % WordSize
BY DEF Add16, WordSize

\* LinkedImage counts as the linker does.
LEMMA SameCount == \A S : Promise!Cardinality(S) = Cardinality(S)
BY SMT DEF Promise!Cardinality, Cardinality

\* Where a use can only mean one label, that label is patched in, at its place in the image.
LEMMA ImageUseResolved ==
  ASSUME Complete, NEW n \in used, NEW j \in DOMAIN At(n).uses
  PROVE  Promise!Resolved(used, At0, n, At(n).uses[j], linked[n][j])
<1> DEFINE u == At(n).uses[j]
           label == At(n).labels[u.label]
           homes == IF label.present THEN {n} ELSE Candidates(input, n[1], label.name)
<1>1. /\ input \in Input /\ used \subseteq Node /\ n \in Node /\ IInv /\ phase = "write"
      /\ linked[n] \in Seq(Word)
  BY DEF Complete, IInv, TypeOK, MarkingTyped, OutputTyped
<1>2. /\ At(n) \in Section /\ WellFormed(At(n)) /\ At(n).labels \in Seq(LabelEntry)
      /\ At(n).uses \in Seq(Use)
  BY <1>1, NodeIsSection, SectionParts
<1>3. u.label \in DOMAIN At(n).labels /\ u.offset \in Nat
  <2>1. u \in Use
    BY <1>2
  <2>2. QED BY <1>2, <2>1, Words DEF WellFormed, Use
<1>4. PICK e \in find_located_label(n, u.label) :
        linked[n][j] = Add16(position[e[1]][e[2]], u.offset)
  <2>1. Patching /\ Patched = used
    BY <1>1 DEF Complete, ImageInv, Patched
  <2>2. Len(linked[n]) = Len(At(n).uses)
    BY <1>1, <2>1 DEF Patching
  <2>3. j \in DOMAIN linked[n]
    BY <1>1, <1>2, <2>2
  <2>4. PatchedWith(n, j)
    BY <1>1, <2>1, <2>3 DEF Patching
  <2>5. QED BY <2>4 DEF PatchedWith
<1>5. e[1] \in homes /\ e[2] \in find_label(input, e[1], label.name)
  <2>1. PICK h \in homes : e \in {h} \X find_label(input, h, label.name)
    BY <1>4 DEF find_located_label
  <2>2. QED BY <2>1
<1>6. SUFFICES ASSUME Cardinality(homes) = 1
               PROVE  \E home \in homes \intersect used :
                        \E i \in find_label(input, home, label.name) :
                          linked[n][j] = (At0[home] + At(home).labels[i].position + u.offset)
                                           % WordSize
  <2>1. \A f, name : Promise!Candidates(input, f, name) = Candidates(input, f, name)
    BY SameObjects
  <2>2. Promise!WordSize = WordSize
    BY DEF Promise!WordSize, WordSize
  <2>3. /\ Promise!SectionAt(input, n) = At(n) /\ \A m : Promise!SectionAt(input, m) = At(m)
        /\ \A m, name : Promise!find_label(input, m, name) = find_label(input, m, name)
    BY CompleteFacts
  <2>4. ASSUME Promise!Cardinality(homes) = 1 PROVE Cardinality(homes) = 1
    BY <2>4, SameCount, Zenon
  <2> HIDE DEF homes
  <2>5. QED BY <1>6, <2>1, <2>2, <2>3, <2>4, Zenon DEF Promise!Resolved, homes
<1>7. homes = {e[1]}
  <2>1. homes \subseteq Node
    BY <1>1, SearchesStayInside
  <2>2. IsFiniteSet(homes)
    BY <1>1, <2>1, NodesFinite, FS_Subset
  <2>3. \E x : homes = {x}
    BY <1>6, <2>2, FS_Singleton, Zenon
  <2>4. QED BY <1>5, <2>3, Zenon
<1>8. e[1] \in used
  <2>1. CASE label.present
    BY <1>5, <2>1
  <2>2. CASE ~label.present
    <3>1. label.name \in Needs(input, n)
      BY <1>3, <2>2 DEF Needs, At
    <3>2. used \intersect Candidates(input, n[1], label.name) # {}
      BY <1>1, <3>1, MarkedNeedsMet DEF NeedsMet
    <3>3. QED BY <1>7, <2>2, <3>2
  <2>3. QED BY <2>1, <2>2
<1>9. At(e[1]).labels[e[2]].present /\ e[2] \in DOMAIN At(e[1]).labels
  <2>1. WellFormed(At(e[1]))
    BY <1>1, <1>8, NodeIsSection
  <2>2. \E i \in find_label(input, e[1], label.name) : At(e[1]).labels[i].present
    <3>1. CASE label.present
      <4>1. e[1] = n
        BY <1>5, <3>1
      <4>2. u.label \in find_label(input, n, label.name)
        BY <1>3 DEF find_label, At
      <4>3. QED BY <3>1, <4>1, <4>2
    <3>2. CASE ~label.present
      BY <1>5, <3>2, Zenon DEF Candidates, DefinersIn, Exporters, Defines, Exports, At
    <3>3. QED BY <3>1, <3>2
  <2>3. \A i, k \in find_label(input, e[1], label.name) : i = k
    BY <2>1 DEF WellFormed, find_label, At
  <2>4. QED BY <1>5, <2>2, <2>3, Zenon DEF find_label, At
<1> DEFINE h == e[1]
           i == e[2]
           pos == At(h).labels[i].position
<1>10. pos \in Nat /\ written[h] \in Nat /\ At0[h] = written[h]
  <2>1. At(h).labels \in Seq(LabelEntry)
    BY <1>1, <1>8, NodeIsSection, SectionParts
  <2>2. At(h).labels[i] \in LabelEntry
    BY <1>9, <2>1
  <2>3. QED BY <1>1, <1>8, <2>2, Words, CompleteFacts DEF LabelEntry, At0
<1>11. position[h][i] = Add16(pos, written[h] % WordSize)
  <2>1. Placing /\ Placed = used
    BY <1>1 DEF Complete, ImageInv, Placed
  <2>2. position[h] = Moved(h)
    BY <1>1, <1>8, <2>1 DEF Placing
  <2>3. start[h] = written[h] % WordSize
    BY <1>8, CompleteFacts
  <2>4. QED BY <1>9, <2>2, <2>3 DEF Moved
<1>12. linked[n][j] = (At0[h] + pos + u.offset) % WordSize
  <2> HIDE DEF pos, h, i, u
  <2>1. linked[n][j] = Add16(position[h][i], u.offset)
    BY <1>4 DEF h, i
  <2>2. Add16(Add16(pos, written[h] % WordSize), u.offset)
          = (written[h] + pos + u.offset) % WordSize
    BY <1>3, <1>10, AddTwice DEF u
  <2>3. QED BY <1>10, <1>11, <2>1, <2>2
<1>13. QED BY <1>5, <1>8, <1>12, Zenon

LEMMA ImageResolved ==
  ASSUME Complete
  PROVE  Promise!AllResolved(used, At0, Word0)
<1>1. ASSUME NEW n \in used
      PROVE  /\ Word0[n] = linked[n]
             /\ DOMAIN linked[n] = DOMAIN At(n).uses
  <2>1. linked[n] \in Seq(Word) /\ At(n).uses \in Seq(Use)
    BY NodeIsSection, SectionParts DEF Complete, IInv, TypeOK, MarkingTyped, OutputTyped
  <2>2. Len(linked[n]) = Len(At(n).uses)
    BY DEF Complete, ImageInv, Patching, Patched
  <2>3. QED BY <2>1, <2>2 DEF Word0
<1>2. \A n : Promise!SectionAt(input, n) = At(n)
  BY CompleteFacts
<1>3. QED BY <1>1, <1>2, ImageUseResolved DEF Promise!AllResolved

-------------------------------------------------------------------------------
\* The linker keeps the promise, step by step.

\* What LinkedImage sees is decided by the phase.
LEMMA Outcomes ==
  /\ phase = "done" => Outcome = Promise!Image(used, At0, Word0)
  /\ phase = "failed" => Outcome = Promise!Failed
  /\ phase \notin {"done", "failed"} => Outcome = Promise!Pending
BY DEF Outcome, Promise!Image, Promise!Failed, Promise!Pending, At0, Word0

\* The linker refuses only what it must.
LEMMA RefusesRightly ==
  ASSUME IInv, OnlyNeeded, MarkEntry \/ RequireNext, phase' = "failed"
  PROVE  \/ Promise!Exporters(input, "__entry") = {}
         \/ \E n \in Promise!Reachable : \E name \in Promise!Needs(input, n) :
              Promise!Candidates(input, n[1], name) = {}
<1>1. ASSUME NEW f, NEW name, NEW frames, require_label(f, name, frames)
      PROVE  Candidates(input, f, name) = {}
  BY <1>1 DEF require_label
<1>2. CASE MarkEntry
  <2>1. Candidates(input, 0, "__entry") = {}
    BY <1>1, <1>2 DEF MarkEntry
  <2>2. QED BY <2>1, EntryIsExported, SameObjects DEF IInv
<1>3. CASE RequireNext
  <2> DEFINE n == Top.node
             label == At(n).labels[Top.next]
  <2>1. phase = "require" /\ n \in used /\ Top.next \in DOMAIN At(n).labels
    BY <1>3, TopIsUsed DEF RequireNext
  <2>2. ~label.present /\ require_label(n[1], label.name, Advanced)
    BY <1>3, <2>1 DEF RequireNext
  <2>3. label.name \in Needs(input, n) /\ Candidates(input, n[1], label.name) = {}
    BY <1>1, <2>1, <2>2 DEF Needs, At
  <2>4. n \in Promise!Reachable
    BY <2>1 DEF OnlyNeeded
  <2> HIDE DEF n, label
  <2>5. QED BY <2>3, <2>4, SameObjects
<1>4. QED BY <1>2, <1>3

LEMMA LinkerStep ==
  ASSUME IInv, OnlyNeeded, ImageInv, [Next]_vars
  PROVE  [Promise!Next]_(Promise!vars)
<1>1. input' = input
  BY InputConstant
<1>2. CASE WriteDone
  <2>1. /\ phase = "write" /\ visited = used /\ phase' = "done"
        /\ UNCHANGED <<used, linked, written>>
    BY <1>2 DEF WriteDone, EndOfLists
  <2>2. Complete
    BY <2>1 DEF Complete
  <2>3. Outcome = Promise!Pending /\ Outcome' = Promise!Image(used, At0, Word0)
    <3>1. At0' = At0 /\ Word0' = Word0
      BY <2>1 DEF At0, Word0
    <3>2. Outcome' = Promise!Image(used, At0, Word0)
      BY <2>1, <3>1 DEF Outcome, Promise!Image, At0, Word0
    <3>3. QED BY <2>1, <3>2, Outcomes
  <2>4. /\ Outcome'.status = "linked" /\ Outcome'.kept = used
        /\ Outcome'.at = At0 /\ Outcome'.word = Word0
    BY <2>3 DEF Promise!Image
  <2>5. used \subseteq Promise!Reachable
    BY DEF OnlyNeeded
  <2>6. Promise!SelfContained(used)
    BY <2>1, MarkedNeedsMet, SameObjects DEF NeedsMet, Promise!SelfContained
  <2>7. /\ Promise!Contiguous(used, At0) /\ Promise!InOrder(used, At0)
        /\ Promise!AllResolved(used, At0, Word0)
    BY <2>2, ImageContiguous, ImageInOrder, ImageResolved
  <2>8. Promise!Link
    BY <1>1, <2>3, <2>4, <2>5, <2>6, <2>7 DEF Promise!Link
  <2>9. QED BY <2>8 DEF Promise!Next
<1>3. CASE (MarkEntry \/ RequireNext) /\ phase' = "failed"
  <2>1. phase \in {"mark", "require"}
    BY <1>3 DEF MarkEntry, RequireNext
  <2>2. Outcome = Promise!Pending /\ Outcome' = Promise!Failed
    <3>1. Outcome' = Promise!Failed
      BY <1>3 DEF Outcome, Promise!Failed
    <3>2. QED BY <2>1, <3>1, Outcomes
  <2>3. Promise!Refuse
    BY <1>1, <1>3, <2>2, RefusesRightly DEF Promise!Refuse
  <2>4. QED BY <2>3 DEF Promise!Next
<1>4. CASE UNCHANGED vars \/ Done
  <2>1. UNCHANGED <<input, phase, used, linked, written>>
    BY <1>4 DEF Done, vars
  <2>2. Outcome' = Outcome
    BY <2>1 DEF Outcome
  <2>3. QED BY <1>1, <2>2 DEF Promise!vars
<1>5. CASE phase \notin {"done", "failed"} /\ phase' \notin {"done", "failed"}
  <2>1. Outcome' = Outcome
    BY <1>5 DEF Outcome
  <2>2. QED BY <1>1, <2>1 DEF Promise!vars
<1>6. QED
  <2>1. CASE LinkUse
    BY <1>5, <2>1, LinkUseSucceeds DEF LinkUse
  <2>2. CASE MarkEntry \/ RequireNext
    <3>1. phase' = "failed" \/ phase' = "require"
      BY <2>2 DEF MarkEntry, RequireNext, require_label
    <3>2. phase \in {"mark", "require"}
      BY <2>2 DEF MarkEntry, RequireNext
    <3>3. QED BY <1>3, <1>5, <2>2, <3>1, <3>2
  <2>3. CASE BuildLists \/ RequireReturn \/ Sort \/ OffsetSection \/ OffsetDone
               \/ LinkSectionDone \/ LinkDone \/ WriteSection
    BY <1>5, <2>3 DEF BuildLists, RequireReturn, Sort, OffsetSection, OffsetDone,
       LinkSectionDone, LinkDone, WriteSection, EndOfLists
  <2>4. QED BY <1>2, <1>4, <2>1, <2>2, <2>3 DEF Next

\* For all object files the linker keeps the promise of LinkedImage: it refuses only what
\* has an unmet need, and the image it writes consists of the needed sections, in order,
\* one after the other, with every use holding the place of its label in the image.
THEOREM LinkerKeepsPromise == Spec => ImageSpec
<1>1. Init => Promise!Init
  <2> SUFFICES ASSUME Init PROVE Promise!Init
    OBVIOUS
  <2>1. phase = "build"
    BY DEF Init
  <2>2. QED BY <2>1, Outcomes DEF Promise!Init
<1>2. QED
  BY <1>1, LinkerStep, Inductive, NothingUnneededKept, ImageInductive, PTL
     DEF Spec, ImageSpec, Promise!Spec
===============================================================================
