---------------------------- MODULE AssemblerProofs ----------------------------
(***************************************************************************)
(* Theorems about module Assembler, for all sources.                       *)
(***************************************************************************)
EXTENDS Assembler, SequenceLemmas, FiniteSetTheorems

Word16 == 0 .. WordSize - 1

\* A word has more than one value.
LEMMA WordSizeIsPositive == WordSize \in Nat /\ WordSize > 1
BY DEF WordSize

\* What is reduced modulo 64 KiB is a word.
LEMMA ReducedIsWord ==
  ASSUME NEW x \in Int
  PROVE  x % WordSize \in Word16
<1>1. PICK w \in Nat : w = WordSize /\ w > 0
  BY WordSizeIsPositive
<1>2. x % w \in 0 .. w - 1
  BY <1>1
<1>3. QED BY <1>1, <1>2 DEF Word16

\* 0 is a word.
LEMMA ZeroIsWord == 0 \in Word16
BY WordSizeIsPositive DEF Word16

-------------------------------------------------------------------------------
\* Sections.

IsLabel(l) ==
  /\ l = [name |-> l.name, id |-> l.id, position |-> l.position, present |-> l.present,
          export |-> l.export, import |-> l.import]
  /\ l.id \in Word16 /\ l.position \in Word16 /\ l.present \in BOOLEAN /\ l.export \in BOOLEAN

IsMask(m) ==
  /\ m = [addr |-> m.addr, offset |-> m.offset]
  /\ m.addr \in Word16 /\ m.offset \in Word16

IsSection(s) ==
  /\ s = [name |-> s.name, executable |-> s.executable, bytes |-> s.bytes,
          data_pos |-> s.data_pos, labels |-> s.labels, mask |-> s.mask]
  /\ s.name \in DOMAIN Alphabet /\ s.executable \in BOOLEAN
  /\ s.data_pos \in Nat
  /\ IsSequence(s.labels) /\ \A i \in DOMAIN s.labels : IsLabel(s.labels[i])
  /\ IsSequence(s.mask) /\ \A i \in DOMAIN s.mask : IsMask(s.mask[i])

\* What is in a section stays there: bytes before the position, labels with their names
\* and ids, places in the mask.
Grows(s, t) ==
  /\ t.name = s.name /\ t.executable = s.executable
  /\ \A k \in Nat : k \in DOMAIN s.bytes /\ k < s.data_pos =>
       k \in DOMAIN t.bytes /\ t.bytes[k] = s.bytes[k]
  /\ \A i \in DOMAIN s.labels :
       /\ i \in DOMAIN t.labels
       /\ t.labels[i].name = s.labels[i].name /\ t.labels[i].id = s.labels[i].id
  /\ \A k \in DOMAIN s.mask : k \in DOMAIN t.mask /\ t.mask[k] = s.mask[k]

\* The same labels, whatever else is said of them.
LabelsStay(s, t) == Len(t.labels) = Len(s.labels)

\* A section is put together from its parts.
LEMMA SectionBuilt ==
  ASSUME NEW name \in DOMAIN Alphabet, NEW executable \in BOOLEAN, NEW bytes,
         NEW data_pos \in Nat,
         NEW labels, IsSequence(labels), \A i \in DOMAIN labels : IsLabel(labels[i]),
         NEW mask, IsSequence(mask), \A k \in DOMAIN mask : IsMask(mask[k])
  PROVE  IsSection([name |-> name, executable |-> executable, bytes |-> bytes,
                    data_pos |-> data_pos, labels |-> labels, mask |-> mask])
BY DEF IsSection

\* Parts of a section are replaced one by one.
LEMMA PartsReplaced ==
  ASSUME NEW s, IsSection(s)
  PROVE  /\ \A p, b : [[s EXCEPT !.data_pos = p] EXCEPT !.bytes = b] =
              [name |-> s.name, executable |-> s.executable, bytes |-> b, data_pos |-> p,
               labels |-> s.labels, mask |-> s.mask]
         /\ \A p : [s EXCEPT !.data_pos = p] =
              [name |-> s.name, executable |-> s.executable, bytes |-> s.bytes, data_pos |-> p,
               labels |-> s.labels, mask |-> s.mask]
         /\ \A l : [s EXCEPT !.labels = l] =
              [name |-> s.name, executable |-> s.executable, bytes |-> s.bytes,
               data_pos |-> s.data_pos, labels |-> l, mask |-> s.mask]
         /\ \A m : [s EXCEPT !.mask = m] =
              [name |-> s.name, executable |-> s.executable, bytes |-> s.bytes,
               data_pos |-> s.data_pos, labels |-> s.labels, mask |-> m]
<1>1. PICK n, x, b, d, l, m :
        s = [name |-> n, executable |-> x, bytes |-> b, data_pos |-> d, labels |-> l, mask |-> m]
  BY DEF IsSection
<1> DEFINE lit(b1, d1, l1, m1) ==
             [name |-> n, executable |-> x, bytes |-> b1, data_pos |-> d1, labels |-> l1,
              mask |-> m1]
<1>2. s.name = n /\ s.executable = x /\ s.bytes = b /\ s.data_pos = d /\ s.labels = l /\ s.mask = m
  BY <1>1
<1>3. ASSUME NEW p, NEW c PROVE [[s EXCEPT !.data_pos = p] EXCEPT !.bytes = c] = lit(c, p, l, m)
  <2>1. [s EXCEPT !.data_pos = p] = lit(b, p, l, m)
    BY <1>1
  <2>2. [lit(b, p, l, m) EXCEPT !.bytes = c] = lit(c, p, l, m)
    OBVIOUS
  <2> HIDE DEF lit
  <2>3. QED BY <2>1, <2>2, Zenon
<1>4. ASSUME NEW p PROVE [s EXCEPT !.data_pos = p] = lit(b, p, l, m)
  BY <1>1
<1>5. ASSUME NEW e PROVE [s EXCEPT !.labels = e] = lit(b, d, e, m)
  BY <1>1
<1>6. ASSUME NEW e PROVE [s EXCEPT !.mask = e] = lit(b, d, l, e)
  BY <1>1
<1>7. QED BY <1>2, <1>3, <1>4, <1>5, <1>6, Zenon

\* Emitting moves the position and writes behind it.
LEMMA EmittedFields ==
  ASSUME NEW s, IsSection(s), NEW bytes, Len(bytes) \in Nat
  PROVE  LET e == Emitted(s, bytes)
         IN  /\ IsSection(e) /\ e.data_pos = s.data_pos + Len(bytes)
             /\ Grows(s, e) /\ e.labels = s.labels /\ e.mask = s.mask
             /\ \A k \in 1 .. Len(bytes) :
                  /\ s.data_pos + k - 1 \in DOMAIN e.bytes
                  /\ e.bytes[s.data_pos + k - 1] = bytes[k]
<1> DEFINE from == s.data_pos
           n == Len(bytes)
           D == DOMAIN s.bytes \union (from .. from + n - 1)
           new == [k \in D |-> IF k >= from /\ k < from + n
                               THEN bytes[k - from + 1] ELSE s.bytes[k]]
<1>1. Emitted(s, bytes) = [[s EXCEPT !.data_pos = from + n] EXCEPT !.bytes = new]
  BY Zenon DEF Emitted
<1>2. from \in Nat /\ n \in Nat /\ from = s.data_pos /\ n = Len(bytes)
  BY DEF IsSection
<1> HIDE DEF from, n
<1>3. Emitted(s, bytes) =
        [name |-> s.name, executable |-> s.executable, bytes |-> new,
         data_pos |-> from + n, labels |-> s.labels, mask |-> s.mask]
  BY <1>1, PartsReplaced
<1>4. \A k \in Nat : k \in DOMAIN s.bytes /\ k < from => k \in D /\ new[k] = s.bytes[k]
  BY <1>2
<1>5. ASSUME NEW k \in 1 .. n
      PROVE  from + k - 1 \in D /\ new[from + k - 1] = bytes[k]
  <2>1. from + k - 1 \in from .. from + n - 1
    BY <1>2
  <2>2. /\ from + k - 1 >= from /\ from + k - 1 < from + n
        /\ (from + k - 1) - from + 1 = k
    BY <1>2
  <2>3. QED BY <2>1, <2>2
<1> HIDE DEF new
<1>6. DOMAIN new = D
  BY DEF new
<1> HIDE DEF D
<1>7. IsSection(Emitted(s, bytes))
  <2>1. /\ s.name \in DOMAIN Alphabet /\ s.executable \in BOOLEAN
        /\ IsSequence(s.labels) /\ \A i \in DOMAIN s.labels : IsLabel(s.labels[i])
        /\ IsSequence(s.mask) /\ \A i \in DOMAIN s.mask : IsMask(s.mask[i])
    BY DEF IsSection
  <2>2. from + n \in Nat
    BY <1>2
  <2>3. QED BY <1>3, <2>1, <2>2, SectionBuilt, Zenon
<1>8. Grows(s, Emitted(s, bytes))
  BY <1>2, <1>3, <1>4, <1>6 DEF Grows
<1>9. QED BY <1>2, <1>3, <1>5, <1>6, <1>7, <1>8

-------------------------------------------------------------------------------
\* Labels.

\* A name has one entry.
NoTwice(s) ==
  \A i, j \in DOMAIN s.labels : s.labels[i].name = s.labels[j].name => i = j

\* Nothing but the labels is touched.
OnlyLabels(s, t) ==
  /\ t.data_pos = s.data_pos /\ t.bytes = s.bytes /\ t.mask = s.mask

\* With the same labels, no name comes to have two entries.
LEMMA SameNames ==
  ASSUME NEW s, IsSection(s), NEW t, IsSection(t), Grows(s, t), LabelsStay(s, t), NoTwice(s)
  PROVE  NoTwice(t)
<1>1. DOMAIN t.labels = DOMAIN s.labels
  BY SequenceParts DEF IsSection, LabelsStay
<1>2. QED BY <1>1 DEF NoTwice, Grows

\* The labels of a section are replaced by others of the same names and ids, and maybe more.
LEMMA LabelsReplaced ==
  ASSUME NEW s, IsSection(s), NEW labels, IsSequence(labels),
         \A i \in DOMAIN labels : IsLabel(labels[i]),
         \A i \in DOMAIN s.labels :
           /\ i \in DOMAIN labels
           /\ labels[i].name = s.labels[i].name /\ labels[i].id = s.labels[i].id
  PROVE  LET t == [s EXCEPT !.labels = labels]
         IN  IsSection(t) /\ Grows(s, t) /\ OnlyLabels(s, t) /\ t.labels = labels
<1>1. /\ s.name \in DOMAIN Alphabet /\ s.executable \in BOOLEAN /\ s.data_pos \in Nat
      /\ IsSequence(s.mask) /\ \A i \in DOMAIN s.mask : IsMask(s.mask[i])
  BY DEF IsSection
<1>2. PICK t : t = [s EXCEPT !.labels = labels]
  OBVIOUS
<1>3. t = [name |-> s.name, executable |-> s.executable, bytes |-> s.bytes,
           data_pos |-> s.data_pos, labels |-> labels, mask |-> s.mask]
  BY <1>2, PartsReplaced
<1>4. IsSection(t)
  BY <1>1, <1>3, SectionBuilt, Zenon
<1>5. Grows(s, t) /\ OnlyLabels(s, t) /\ t.labels = labels
  BY <1>3 DEF Grows, OnlyLabels
<1>6. QED BY <1>2, <1>4, <1>5, Zenon

\* create_new_label adds one entry with the next id, or finds the name where it is.
LEMMA RegisteredFields ==
  ASSUME NEW s, IsSection(s), NEW name, current_label_id \in Word16
  PROVE  LET r == Registered(name, s)
         IN  /\ IsSection(r) /\ Grows(s, r) /\ OnlyLabels(s, r)
             /\ NoTwice(s) => NoTwice(r)
             /\ Entry(name, r) \in DOMAIN r.labels /\ r.labels[Entry(name, r)].name = name
             /\ IF find_label(name, s) = {}
                THEN /\ Len(r.labels) = Len(s.labels) + 1
                     /\ r.labels[Len(s.labels) + 1].id = current_label_id
                ELSE r = s
<1>1. PICK r : r = Registered(name, s)
  OBVIOUS
<1>2. CASE find_label(name, s) # {}
  <2>1. r = s
    BY <1>1, <1>2 DEF Registered
  <2>2. Grows(s, s) /\ OnlyLabels(s, s)
    BY DEF Grows, OnlyLabels
  <2>3. Entry(name, s) \in DOMAIN s.labels /\ s.labels[Entry(name, s)].name = name
    BY <1>2 DEF Entry, find_label
  <2>4. QED BY <1>1, <1>2, <2>1, <2>2, <2>3, Zenon
<1>3. CASE find_label(name, s) = {}
  <2> DEFINE label == Label(name, current_label_id)
             labels == Append(s.labels, label)
  <2>1. IsLabel(label) /\ label.name = name /\ label.id = current_label_id
    <3>1. label = [name |-> name, id |-> current_label_id, position |-> 0, present |-> FALSE,
                   export |-> FALSE, import |-> FALSE]
      BY DEF Label
    <3>2. 0 \in Word16
      BY ZeroIsWord
    <3> HIDE DEF label
    <3>3. QED BY <3>1, <3>2 DEF IsLabel
  <2>2. IsSequence(s.labels) /\ \A i \in DOMAIN s.labels : IsLabel(s.labels[i])
    BY DEF IsSection
  <2>3. /\ IsSequence(labels) /\ DOMAIN labels = 1 .. Len(s.labels) + 1
        /\ Len(labels) = Len(s.labels) + 1 /\ labels[Len(s.labels) + 1] = label
        /\ \A j \in DOMAIN s.labels : labels[j] = s.labels[j]
        /\ Len(s.labels) \in Nat /\ DOMAIN s.labels = 1 .. Len(s.labels)
    BY <2>2, SequenceExtended, SequenceParts
  <2> HIDE DEF label
  <2>4. r = [s EXCEPT !.labels = labels]
    BY <1>1, <1>3 DEF Registered, label
  <2> HIDE DEF labels
  <2>5. \A i \in DOMAIN labels : IsLabel(labels[i]) /\ (i \in DOMAIN s.labels \/ i = Len(s.labels) + 1)
    BY <2>1, <2>2, <2>3
  <2>6. \A i \in DOMAIN s.labels :
          /\ i \in DOMAIN labels
          /\ labels[i].name = s.labels[i].name /\ labels[i].id = s.labels[i].id
    BY <2>3
  <2>7. IsSection(r) /\ Grows(s, r) /\ OnlyLabels(s, r) /\ r.labels = labels
    BY <2>3, <2>4, <2>5, <2>6, LabelsReplaced
  <2>8. ASSUME NoTwice(s) PROVE NoTwice(r)
    <3>1. \A i \in DOMAIN s.labels : s.labels[i].name # name
      BY <1>3 DEF find_label
    <3>2. \A i, j \in DOMAIN labels : labels[i].name = labels[j].name => i = j
      BY <2>1, <2>3, <2>5, <2>8, <3>1 DEF NoTwice
    <3>3. QED BY <2>7, <3>2 DEF NoTwice
  <2>9. Entry(name, r) \in DOMAIN r.labels /\ r.labels[Entry(name, r)].name = name
    <3>1. Len(s.labels) + 1 \in find_label(name, r)
      BY <2>1, <2>3, <2>7 DEF find_label
    <3>2. QED BY <3>1 DEF Entry, find_label
  <2>10. Len(r.labels) = Len(s.labels) + 1 /\ r.labels[Len(s.labels) + 1].id = current_label_id
    BY <2>1, <2>3, <2>7
  <2>11. QED BY <1>1, <1>3, <2>7, <2>8, <2>9, <2>10, Zenon
<1>4. QED BY <1>2, <1>3, Zenon

\* One label is replaced by one of the same name and id.
LEMMA LabelReplaced ==
  ASSUME NEW s, IsSection(s), NEW i \in DOMAIN s.labels, NEW l, IsLabel(l),
         l.name = s.labels[i].name, l.id = s.labels[i].id
  PROVE  LET t == [s EXCEPT !.labels = [s.labels EXCEPT ![i] = l]]
         IN  /\ IsSection(t) /\ Grows(s, t) /\ OnlyLabels(s, t) /\ LabelsStay(s, t)
             /\ t.labels = [s.labels EXCEPT ![i] = l]
<1> DEFINE labels == [s.labels EXCEPT ![i] = l]
<1>1. IsSequence(s.labels) /\ \A j \in DOMAIN s.labels : IsLabel(s.labels[j])
  BY DEF IsSection
<1>2. /\ IsSequence(labels) /\ Len(labels) = Len(s.labels) /\ DOMAIN labels = DOMAIN s.labels
      /\ labels[i] = l /\ \A j \in DOMAIN s.labels : j # i => labels[j] = s.labels[j]
  BY <1>1, SequenceReplaced
<1> HIDE DEF labels
<1>3. /\ \A j \in DOMAIN labels : IsLabel(labels[j])
      /\ \A j \in DOMAIN s.labels :
           /\ j \in DOMAIN labels
           /\ labels[j].name = s.labels[j].name /\ labels[j].id = s.labels[j].id
  BY <1>1, <1>2
<1>4. PICK t : t = [s EXCEPT !.labels = labels]
  OBVIOUS
<1>5. IsSection(t) /\ Grows(s, t) /\ OnlyLabels(s, t) /\ t.labels = labels
  BY <1>2, <1>3, <1>4, LabelsReplaced
<1>6. LabelsStay(s, t)
  BY <1>2, <1>5 DEF LabelsStay
<1>7. QED BY <1>4, <1>5, <1>6 DEF labels

\* A section that grows twice has grown.
LEMMA GrowsOn ==
  ASSUME NEW s, NEW t, NEW u, Grows(s, t), Grows(t, u),
         s.data_pos \in Nat, t.data_pos \in Nat, s.data_pos <= t.data_pos
  PROVE  Grows(s, u)
<1>1. \A k \in Nat : k < s.data_pos => k < t.data_pos
  OBVIOUS
<1>2. QED BY <1>1 DEF Grows

\* mark_label_position, when the label has its entry.
LEMMA PositionedFields ==
  ASSUME NEW s, IsSection(s), NEW i \in DOMAIN s.labels, NEW p \in Word16
  PROVE  LET t == [s EXCEPT !.labels[i].position = p, !.labels[i].present = TRUE]
         IN  IsSection(t) /\ Grows(s, t) /\ OnlyLabels(s, t) /\ LabelsStay(s, t)
<1>1. PICK l : l = s.labels[i]
  OBVIOUS
<1>2. IsLabel(l)
  BY <1>1 DEF IsSection
<1> DEFINE m == [name |-> l.name, id |-> l.id, position |-> p, present |-> TRUE,
                 export |-> l.export, import |-> l.import]
<1>3. [[l EXCEPT !.position = p] EXCEPT !.present = TRUE] = m
  <2>0. PICK yes : yes = TRUE
    OBVIOUS
  <2>1. PICK n, d, q, r, e, f :
          l = [name |-> n, id |-> d, position |-> q, present |-> r, export |-> e, import |-> f]
    BY <1>2 DEF IsLabel
  <2>2. [l EXCEPT !.position = p] =
          [name |-> n, id |-> d, position |-> p, present |-> r, export |-> e, import |-> f]
    BY <2>1
  <2>3. [[name |-> n, id |-> d, position |-> p, present |-> r, export |-> e, import |-> f]
           EXCEPT !.present = yes] =
          [name |-> n, id |-> d, position |-> p, present |-> yes, export |-> e, import |-> f]
    OBVIOUS
  <2>4. m = [name |-> n, id |-> d, position |-> p, present |-> yes, export |-> e, import |-> f]
    BY <2>0, <2>1
  <2> HIDE DEF m
  <2>5. QED BY <2>0, <2>2, <2>3, <2>4, Zenon
<1>4. IsLabel(m) /\ m.name = l.name /\ m.id = l.id
  BY <1>2 DEF IsLabel
<1> HIDE DEF m
<1>5. PICK t : t = [s EXCEPT !.labels[i].position = p, !.labels[i].present = TRUE]
  OBVIOUS
<1>6. PICK u : u = [s EXCEPT !.labels[i].position = p]
  OBVIOUS
<1>7. t = [s EXCEPT !.labels = [s.labels EXCEPT ![i] = m]]
  <2>1. t = [u EXCEPT !.labels = [u.labels EXCEPT ![i] = [u.labels[i] EXCEPT !.present = TRUE]]]
    BY <1>5, <1>6, Zenon
  <2>2. u = [s EXCEPT !.labels = [s.labels EXCEPT ![i] = [l EXCEPT !.position = p]]]
    BY <1>1, <1>6, Zenon
  <2>3. PICK k : k = [l EXCEPT !.position = p]
    OBVIOUS
  <2>4. PICK v : v = [s.labels EXCEPT ![i] = k]
    OBVIOUS
  <2>5. u = [name |-> s.name, executable |-> s.executable, bytes |-> s.bytes,
             data_pos |-> s.data_pos, labels |-> v, mask |-> s.mask]
    BY <2>2, <2>3, <2>4, PartsReplaced
  <2>6. v[i] = k
    BY <2>4
  <2>7. [u.labels[i] EXCEPT !.present = TRUE] = m
    BY <1>3, <2>3, <2>5, <2>6
  <2>8. [v EXCEPT ![i] = m] = [s.labels EXCEPT ![i] = m]
    BY <2>4
  <2>9. u.labels = v
    BY <2>5
  <2>10. [u EXCEPT !.labels = [s.labels EXCEPT ![i] = m]] =
           [s EXCEPT !.labels = [s.labels EXCEPT ![i] = m]]
    <3>1. PICK w : w = [s.labels EXCEPT ![i] = m]
      OBVIOUS
    <3>2. [u EXCEPT !.labels = w] =
            [name |-> s.name, executable |-> s.executable, bytes |-> s.bytes,
             data_pos |-> s.data_pos, labels |-> w, mask |-> s.mask]
      BY <2>5
    <3>3. QED BY <3>1, <3>2, PartsReplaced, Zenon
  <2>11. QED BY <2>1, <2>7, <2>8, <2>9, <2>10, Zenon
<1>8. m.name = s.labels[i].name /\ m.id = s.labels[i].id
  BY <1>1, <1>4
<1>9. IsSection(t) /\ Grows(s, t) /\ OnlyLabels(s, t) /\ LabelsStay(s, t)
  BY <1>4, <1>7, <1>8, LabelReplaced, Zenon
<1>10. QED BY <1>5, <1>9, Zenon

\* .export
LEMMA ExportedFields ==
  ASSUME NEW s, IsSection(s), NEW i \in DOMAIN s.labels
  PROVE  LET t == [s EXCEPT !.labels[i].export = TRUE]
         IN  IsSection(t) /\ Grows(s, t) /\ OnlyLabels(s, t) /\ LabelsStay(s, t)
<1>1. PICK l : l = s.labels[i]
  OBVIOUS
<1>2. IsLabel(l)
  BY <1>1 DEF IsSection
<1>3. PICK m : m = [l EXCEPT !.export = TRUE]
  OBVIOUS
<1>4. IsLabel(m) /\ m.name = l.name /\ m.id = l.id
  BY <1>2, <1>3 DEF IsLabel
<1>5. PICK t : t = [s EXCEPT !.labels[i].export = TRUE]
  OBVIOUS
<1>6. t = [s EXCEPT !.labels = [s.labels EXCEPT ![i] = m]]
  BY <1>1, <1>3, <1>5, Zenon
<1>7. m.name = s.labels[i].name /\ m.id = s.labels[i].id
  BY <1>1, <1>4
<1>8. IsSection(t) /\ Grows(s, t) /\ OnlyLabels(s, t) /\ LabelsStay(s, t)
  BY <1>4, <1>6, <1>7, LabelReplaced, Zenon
<1>9. QED BY <1>5, <1>8, Zenon

\* mark_label_import
LEMMA ImportedFields ==
  ASSUME NEW s, IsSection(s), NEW a
  PROVE  LET t == mark_label_import(a, s)
         IN  IsSection(t) /\ Grows(s, t) /\ OnlyLabels(s, t) /\ LabelsStay(s, t)
<1> DEFINE imported(i) == IF a.kind = "name" /\ s.labels[i].name = Plain(a.name)
                          THEN [s.labels[i] EXCEPT !.import = TRUE] ELSE s.labels[i]
           labels == [i \in DOMAIN s.labels |-> imported(i)]
<1>1. mark_label_import(a, s) = [s EXCEPT !.labels = labels]
  BY Zenon DEF mark_label_import
<1>2. IsSequence(s.labels) /\ \A i \in DOMAIN s.labels : IsLabel(s.labels[i])
  BY DEF IsSection
<1>3. ASSUME NEW i \in DOMAIN s.labels
      PROVE  /\ IsLabel(imported(i)) /\ imported(i).name = s.labels[i].name
             /\ imported(i).id = s.labels[i].id
  <2>1. PICK l : l = s.labels[i]
    OBVIOUS
  <2>2. IsLabel(l)
    BY <1>2, <2>1
  <2>3. PICK m : m = [l EXCEPT !.import = TRUE]
    OBVIOUS
  <2>4. IsLabel(m) /\ m.name = l.name /\ m.id = l.id
    BY <2>2, <2>3 DEF IsLabel
  <2>5. imported(i) \in {m, l}
    BY <2>1, <2>3
  <2> HIDE DEF imported
  <2>6. QED BY <2>1, <2>2, <2>4, <2>5
<1> HIDE DEF imported
<1>4. DOMAIN labels = DOMAIN s.labels /\ \A i \in DOMAIN labels : labels[i] = imported(i)
  OBVIOUS
<1>5. labels = [i \in DOMAIN labels |-> labels[i]]
  OBVIOUS
<1> HIDE DEF labels
<1>6. IsSequence(labels) /\ Len(labels) = Len(s.labels)
  BY <1>2, <1>4, <1>5, SequenceMapped
<1>7. PICK t : t = [s EXCEPT !.labels = labels]
  OBVIOUS
<1>8. /\ \A i \in DOMAIN labels : IsLabel(labels[i])
      /\ \A i \in DOMAIN s.labels :
           /\ i \in DOMAIN labels
           /\ labels[i].name = s.labels[i].name /\ labels[i].id = s.labels[i].id
  BY <1>3, <1>4
<1>9. IsSection(t) /\ Grows(s, t) /\ OnlyLabels(s, t) /\ t.labels = labels
  BY <1>6, <1>7, <1>8, LabelsReplaced
<1>10. QED BY <1>1, <1>6, <1>7, <1>9 DEF LabelsStay

\* mark_label_use, when the label has its entry.
LEMMA MaskedFields ==
  ASSUME NEW s, IsSection(s), NEW m, IsMask(m)
  PROVE  LET t == [s EXCEPT !.mask = Append(s.mask, m)]
         IN  /\ IsSection(t) /\ Grows(s, t)
             /\ t.labels = s.labels /\ t.data_pos = s.data_pos /\ t.bytes = s.bytes
             /\ Len(t.mask) = Len(s.mask) + 1 /\ t.mask[Len(s.mask) + 1] = m
             /\ DOMAIN t.mask = 1 .. Len(s.mask) + 1
<1>1. /\ s.name \in DOMAIN Alphabet /\ s.executable \in BOOLEAN /\ s.data_pos \in Nat
      /\ IsSequence(s.labels) /\ \A i \in DOMAIN s.labels : IsLabel(s.labels[i])
      /\ IsSequence(s.mask) /\ \A i \in DOMAIN s.mask : IsMask(s.mask[i])
  BY DEF IsSection
<1>2. PICK mask : mask = Append(s.mask, m)
  OBVIOUS
<1>3. /\ IsSequence(mask) /\ Len(mask) = Len(s.mask) + 1 /\ DOMAIN mask = 1 .. Len(s.mask) + 1
      /\ mask[Len(s.mask) + 1] = m /\ \A j \in DOMAIN s.mask : mask[j] = s.mask[j]
      /\ Len(s.mask) \in Nat /\ DOMAIN s.mask = 1 .. Len(s.mask)
  BY <1>1, <1>2, SequenceExtended, SequenceParts
<1>4. PICK t : t = [s EXCEPT !.mask = mask]
  OBVIOUS
<1>5. t = [name |-> s.name, executable |-> s.executable, bytes |-> s.bytes,
           data_pos |-> s.data_pos, labels |-> s.labels, mask |-> mask]
  BY <1>4, PartsReplaced
<1>6. \A k \in DOMAIN mask : IsMask(mask[k])
  <2>1. ASSUME NEW k \in DOMAIN mask PROVE IsMask(mask[k])
    <3>1. k \in DOMAIN s.mask \/ k = Len(s.mask) + 1
      BY <1>3
    <3>2. QED BY <1>1, <1>3, <3>1
  <2>2. QED BY <2>1
<1>7. IsSection(t)
  BY <1>1, <1>3, <1>5, <1>6, SectionBuilt, Zenon
<1>8. Grows(s, t)
  BY <1>3, <1>5 DEF Grows
<1>9. QED BY <1>2, <1>3, <1>4, <1>5, <1>7, <1>8

\* .org and .skip
LEMMA MovedFields ==
  ASSUME NEW s, IsSection(s), NEW to \in Nat
  PROVE  LET t == [s EXCEPT !.data_pos = to]
         IN  /\ IsSection(t) /\ Grows(s, t) /\ t.labels = s.labels /\ t.mask = s.mask
             /\ t.bytes = s.bytes /\ t.data_pos = to
<1>1. /\ s.name \in DOMAIN Alphabet /\ s.executable \in BOOLEAN
      /\ IsSequence(s.labels) /\ \A i \in DOMAIN s.labels : IsLabel(s.labels[i])
      /\ IsSequence(s.mask) /\ \A i \in DOMAIN s.mask : IsMask(s.mask[i])
  BY DEF IsSection
<1>2. PICK t : t = [s EXCEPT !.data_pos = to]
  OBVIOUS
<1>3. t = [name |-> s.name, executable |-> s.executable, bytes |-> s.bytes,
           data_pos |-> to, labels |-> s.labels, mask |-> s.mask]
  BY <1>2, PartsReplaced
<1>4. IsSection(t)
  BY <1>1, <1>3, SectionBuilt, Zenon
<1>5. Grows(s, t)
  BY <1>3 DEF Grows
<1>6. QED BY <1>2, <1>3, <1>4, <1>5

-------------------------------------------------------------------------------
\* Steps.

\* The sections, the current one and the next id are what they should be.
Shape ==
  /\ IsSequence(sections) /\ \A i \in DOMAIN sections : IsSection(sections[i])
  /\ current_section \in 0 .. Len(sections)
  /\ current_label_id \in Word16

\* The current section becomes t.
Put(t) ==
  /\ current_section # 0 /\ current_section' = current_section
  /\ sections' = [sections EXCEPT ![current_section] = t]

\* The current section is one, once there is one.
LEMMA CurrentIsSection ==
  ASSUME Shape, current_section # 0
  PROVE  current_section \in DOMAIN sections /\ IsSection(Current)
<1>1. Len(sections) \in Nat /\ DOMAIN sections = 1 .. Len(sections)
  BY SequenceParts DEF Shape
<1>2. current_section \in DOMAIN sections
  BY <1>1 DEF Shape
<1>3. QED BY <1>2 DEF Shape, Current

\* Put changes the current section and no other.
LEMMA PutSections ==
  ASSUME Shape, NEW t, Put(t)
  PROVE  /\ current_section \in DOMAIN sections
         /\ IsSequence(sections') /\ Len(sections') = Len(sections)
         /\ DOMAIN sections' = DOMAIN sections
         /\ sections'[current_section] = t
         /\ \A s \in DOMAIN sections : s # current_section => sections'[s] = sections[s]
<1>1. current_section \in DOMAIN sections /\ IsSequence(sections)
  BY CurrentIsSection DEF Shape, Put
<1>2. sections' = [sections EXCEPT ![current_section] = t]
  BY DEF Put
<1>3. QED BY <1>1, <1>2, SequenceReplaced, Zenon

\* Put of a section keeps the shape of the sections.
LEMMA PutShape ==
  ASSUME Shape, NEW t, Put(t), IsSection(t), current_label_id' \in Word16
  PROVE  Shape'
<1>1. /\ current_section \in DOMAIN sections
      /\ IsSequence(sections') /\ Len(sections') = Len(sections)
      /\ DOMAIN sections' = DOMAIN sections
      /\ sections'[current_section] = t
      /\ \A s \in DOMAIN sections : s # current_section => sections'[s] = sections[s]
  BY PutSections
<1>2. \A s \in DOMAIN sections' : IsSection(sections'[s])
  BY <1>1 DEF Shape
<1>3. current_section' \in 0 .. Len(sections')
  BY <1>1 DEF Shape, Put
<1>4. QED BY <1>1, <1>2, <1>3 DEF Shape

\* A new section comes last.
LEMMA SelectedSections ==
  ASSUME Shape, NEW name \in DOMAIN Truncated, select_section(name), current_label_id' = current_label_id
  PROVE  /\ Shape' /\ current_section' # 0
         /\ \/ sections' = sections /\ current_section' \in DOMAIN sections
            \/ /\ \A s \in DOMAIN sections : sections[s].name # name
               /\ sections' = Append(sections, NewSection(name))
               /\ current_section' = Len(sections) + 1
               /\ DOMAIN sections' = 1 .. Len(sections) + 1
               /\ \A s \in DOMAIN sections : sections'[s] = sections[s]
               /\ sections'[Len(sections) + 1] = NewSection(name)
<1> DEFINE same == {i \in DOMAIN sections : sections[i].name = name}
<1>1. IsSequence(sections) /\ \A i \in DOMAIN sections : IsSection(sections[i])
  BY DEF Shape
<1>2. Len(sections) \in Nat /\ DOMAIN sections = 1 .. Len(sections)
  BY <1>1, SequenceParts
<1>3. IF same # {}
       THEN /\ current_section' = CHOOSE i \in same : \A j \in same : i <= j
            /\ UNCHANGED <<sections>>
       ELSE /\ current_section' = Len(sections) + 1
            /\ sections' = Append(sections, NewSection(name))
  BY DEF select_section
<1>4. CASE same # {}
  <2>1. /\ current_section' = CHOOSE i \in same : \A j \in same : i <= j
        /\ sections' = sections
    <3> HIDE DEF same
    <3>1. QED BY <1>4, <1>3
  <2>2. \E i \in same : \A j \in same : i <= j
    <3>1. same \subseteq Nat
      BY <1>2
    <3> HIDE DEF same
    <3>2. QED BY <1>4, <3>1, LeastNatural
  <2>3. current_section' \in same
    BY <2>1, <2>2
  <2>4. sections' = sections /\ current_section' \in DOMAIN sections
    BY <2>1, <2>3
  <2>5. current_section' \in 0 .. Len(sections) /\ current_section' # 0
    BY <1>2, <2>4
  <2>6. Shape'
    BY <1>1, <2>4, <2>5 DEF Shape
  <2>7. QED BY <2>4, <2>5, <2>6
<1>5. CASE same = {}
  <2>1. /\ current_section' = Len(sections) + 1
        /\ sections' = Append(sections, NewSection(name))
    <3> HIDE DEF same
    <3>1. QED BY <1>5, <1>3
  <2>2. /\ IsSequence(sections') /\ Len(sections') = Len(sections) + 1
        /\ DOMAIN sections' = 1 .. Len(sections) + 1
        /\ sections'[Len(sections) + 1] = NewSection(name)
        /\ \A j \in DOMAIN sections : sections'[j] = sections[j]
    <3>1. PICK e : e = NewSection(name)
      OBVIOUS
    <3>2. PICK u : u = Append(sections, e)
      OBVIOUS
    <3>3. /\ IsSequence(u) /\ Len(u) = Len(sections) + 1 /\ DOMAIN u = 1 .. Len(sections) + 1
          /\ u[Len(sections) + 1] = e /\ \A j \in DOMAIN sections : u[j] = sections[j]
      <4>1. IsSequence(sections)
        BY <1>1
      <4>2. QED BY <4>1, <3>2, SequenceExtended
    <3>4. u = sections'
      BY <2>1, <3>1, <3>2
    <3>5. QED BY <3>1, <3>3, <3>4, Zenon
  <2>3. IsSection(NewSection(name))
    <3>1. PICK empty : empty = <<>>
      OBVIOUS
    <3>2. IsSequence(empty) /\ DOMAIN empty = {}
      BY <3>1 DEF IsSequence
    <3>3. Truncated[name] \in DOMAIN Alphabet
      BY SectionAssumption, Zenon DEF SectionAssumption
    <3>4. (name \in ExecutableName) \in BOOLEAN
      BY SMT
    <3>5. IsSection([name |-> Truncated[name], executable |-> name \in ExecutableName,
                     bytes |-> empty, data_pos |-> 0, labels |-> empty, mask |-> empty])
      <4>1. 0 \in Nat /\ (\A i \in DOMAIN empty : IsLabel(empty[i]))
                     /\ (\A i \in DOMAIN empty : IsMask(empty[i]))
        BY <3>2
      <4>2. QED BY <3>2, <3>3, <3>4, <4>1, SectionBuilt, Zenon
    <3>6. QED BY <3>1, <3>4, <3>5, Zenon DEF NewSection
  <2>4. \A i \in DOMAIN sections' : i \in DOMAIN sections \/ i = Len(sections) + 1
    BY <1>2, <2>2
  <2>5. \A i \in DOMAIN sections' : IsSection(sections'[i])
    BY <1>1, <2>2, <2>3, <2>4
  <2>6. current_section' \in 0 .. Len(sections') /\ current_section' # 0
    BY <1>2, <2>1, <2>2
  <2>7. Shape'
    BY <2>2, <2>5, <2>6 DEF Shape
  <2>8. \A s \in DOMAIN sections : sections[s].name # name
    BY <1>5
  <2>9. QED BY <2>1, <2>2, <2>6, <2>7, <2>8
<1>6. QED BY <1>4, <1>5, Zenon

\* The sections grow and keep their labels and masks.
SectionsKept ==
  \A s \in DOMAIN sections :
    /\ Grows(sections[s], sections'[s]) /\ LabelsStay(sections[s], sections'[s])
    /\ sections'[s].mask = sections[s].mask

\* The position of the current section moves, those of the others stay.
MovedBy(d) ==
  /\ DOMAIN sections' = DOMAIN sections
  /\ \A s \in DOMAIN sections :
       sections'[s].data_pos = sections[s].data_pos + (IF s = current_section THEN d ELSE 0)

\* Put moves the current position by what the positions differ.
LEMMA PutMoves ==
  ASSUME Shape, NEW t, Put(t), NEW d \in Int, t.data_pos = Current.data_pos + d
  PROVE  MovedBy(d)
<1>1. /\ current_section \in DOMAIN sections /\ DOMAIN sections' = DOMAIN sections
      /\ sections'[current_section] = t
      /\ \A s \in DOMAIN sections : s # current_section => sections'[s] = sections[s]
  BY PutSections
<1>2. \A s \in DOMAIN sections : sections[s].data_pos \in Nat
  BY DEF Shape, IsSection
<1>3. QED BY <1>1, <1>2 DEF MovedBy, Current

\* Put of a section with the same labels and uses keeps those of all sections.
LEMMA PutKeeps ==
  ASSUME Shape, NEW t, Put(t), Grows(Current, t), LabelsStay(Current, t), t.mask = Current.mask
  PROVE  SectionsKept
<1>1. /\ current_section \in DOMAIN sections
      /\ sections'[current_section] = t
      /\ \A s \in DOMAIN sections : s # current_section => sections'[s] = sections[s]
  BY PutSections
<1>2. ASSUME NEW s \in DOMAIN sections
      PROVE  /\ Grows(sections[s], sections'[s]) /\ LabelsStay(sections[s], sections'[s])
             /\ sections'[s].mask = sections[s].mask
  <2>1. CASE s = current_section
    BY <1>1, <2>1 DEF Current
  <2>2. CASE s # current_section
    BY <1>1, <2>2 DEF Grows, LabelsStay
  <2>3. QED BY <2>1, <2>2
<1>3. QED BY <1>2 DEF SectionsKept

\* A step that leaves the sections alone keeps everything.
LEMMA StillKeeps ==
  ASSUME Shape, UNCHANGED <<sections, current_section, current_label_id>>
  PROVE  Shape' /\ SectionsKept /\ MovedBy(0)
<1>1. Shape'
  BY DEF Shape
<1>2. \A s \in DOMAIN sections : sections[s].data_pos \in Nat
  BY DEF Shape, IsSection
<1>3. SectionsKept /\ MovedBy(0)
  BY <1>2 DEF SectionsKept, MovedBy, Grows, LabelsStay
<1>4. QED BY <1>1, <1>3

\* Bytes are laid into the current section.
Laid(bytes) ==
  /\ Emits(bytes)
  /\ sections' = IF bytes = <<>> THEN sections
                 ELSE [sections EXCEPT ![current_section] = Emitted(@, bytes)]
  /\ UNCHANGED <<current_section, current_label_id>>

\* Laying bytes keeps labels and uses and moves by as many bytes.
LEMMA LaidKeeps ==
  ASSUME Shape, NEW bytes, Len(bytes) \in Nat, bytes = <<>> <=> Len(bytes) = 0, Laid(bytes)
  PROVE  Shape' /\ SectionsKept /\ MovedBy(Len(bytes))
<1>1. CASE bytes = <<>>
  <2>1. UNCHANGED <<sections, current_section, current_label_id>> /\ Len(bytes) = 0
    BY <1>1 DEF Laid
  <2>2. QED BY <2>1, StillKeeps
<1>2. CASE bytes # <<>>
  <2>1. current_section # 0
    BY <1>2 DEF Laid, Emits
  <2>2. IsSection(Current)
    BY <2>1, CurrentIsSection
  <2>3. PICK t : t = Emitted(Current, bytes)
    OBVIOUS
  <2>4. /\ IsSection(t) /\ Grows(Current, t) /\ t.data_pos = Current.data_pos + Len(bytes)
        /\ t.labels = Current.labels /\ t.mask = Current.mask
    BY <2>2, <2>3, EmittedFields, Zenon
  <2>5. Put(t)
    BY <1>2, <2>1, <2>3 DEF Laid, Put, Current
  <2>6. current_label_id' \in Word16
    BY DEF Laid, Shape
  <2>7. LabelsStay(Current, t)
    BY <2>4 DEF LabelsStay
  <2>8. Shape' /\ SectionsKept
    BY <2>4, <2>5, <2>6, <2>7, PutShape, PutKeeps
  <2>9. MovedBy(Len(bytes))
    BY <2>4, <2>5, PutMoves
  <2>10. QED BY <2>8, <2>9
<1>3. QED BY <1>1, <1>2

-------------------------------------------------------------------------------
\* What the actions do to the counter of operands and to the items.

\* Nothing that counts happens.
Quiet ==
  /\ MovedBy(0) /\ UNCHANGED <<items, current_section, expect_arg_n, expect_arg_size>>
  /\ phase' \in {"write", "done"} => expect_arg_n = 0 \/ phase \in {"write", "done"}

\* An operand of n bytes is taken.
Counted(n) ==
  /\ current_section # 0 /\ expect_arg_size = n
  /\ MovedBy(n) /\ UNCHANGED <<items, current_section>> /\ phase' = "assemble"
  /\ expect_arg_n' = Decremented(expect_arg_n)
  /\ expect_arg_size' = n \/ (n = 2 /\ expect_arg_size' = 0)

\* An item begins that takes so many bytes, the operands that are still to come included.
BegunWith(n, z, length) ==
  /\ expect_arg_n' = n /\ expect_arg_size' = z /\ (z = 2 => n <= 1)
  /\ MovedBy(length - n * z)
  /\ items' = IF current_section = 0 THEN items
              ELSE Append(items, [sect |-> current_section, at |-> Current.data_pos,
                                  length |-> length])

Begun ==
  /\ expect_arg_n = 0 /\ phase' = "assemble" /\ current_section' = current_section
  /\ \E n \in 0 .. 3, z \in 0 .. 2, length \in Int : BegunWith(n, z, length)

\* Another section becomes the current one.
Selected ==
  /\ expect_arg_n = 0 /\ phase' = "assemble"
  /\ UNCHANGED <<items, meant, expect_arg_n, expect_arg_size, current_label_id>>
  /\ \E name \in DOMAIN Truncated : select_section(name)

Counter == expect_arg_n \in -128 .. 127 /\ expect_arg_size \in 0 .. 2

\* As long as nothing is moved back, no position falls.
Onward ==
  NeverBack' => \A s \in DOMAIN sections : sections[s].data_pos <= sections'[s].data_pos

\* Labels, their uses and the next id are as before.
Kept == Shape' /\ SectionsKept /\ UNCHANGED <<meant, current_label_id>> /\ Onward

\* A move by a natural number is onward.
LEMMA MovesOnward ==
  ASSUME Shape, NEW d \in Nat, MovedBy(d)
  PROVE  Onward
<1>1. \A s \in DOMAIN sections : sections[s].data_pos \in Nat
  BY DEF Shape, IsSection
<1>2. QED BY <1>1 DEF Onward, MovedBy

\* What leaves everything alone that counts.
LEMMA RestKeeps ==
  ASSUME Shape, UNCHANGED <<operands, sections, current_section, current_label_id, history>>,
         phase' \in {"write", "done"} => expect_arg_n = 0 \/ phase \in {"write", "done"}
  PROVE  Kept /\ Quiet
<1>1. /\ UNCHANGED <<sections, current_section, current_label_id>>
      /\ UNCHANGED <<items, current_section, expect_arg_n, expect_arg_size>>
      /\ UNCHANGED <<meant, current_label_id>>
  BY DEF operands, history
<1>2. Shape' /\ SectionsKept /\ MovedBy(0)
  BY <1>1, StillKeeps
<1>3. Onward
  BY <1>2, MovesOnward
<1>4. QED BY <1>1, <1>2, <1>3 DEF Kept, Quiet

\* Panic stops without a trace in the sections.
LEMMA PanicKeeps ==
  ASSUME Shape, Panic
  PROVE  Kept /\ Quiet
BY RestKeeps DEF Panic

\* Comments, refused words, the end of the source and of the run are quiet.
LEMMA RestStep ==
  ASSUME Shape, Comment \/ Refuse \/ EndOfSource \/ WriteFile \/ Finished
  PROVE  Kept /\ Quiet
<1>1. CASE Comment
  BY <1>1, RestKeeps DEF Comment, Word
<1>2. CASE Refuse
  BY <1>2, PanicKeeps DEF Refuse
<1>3. CASE EndOfSource
  BY <1>3, RestKeeps DEF EndOfSource, Word
<1>4. CASE WriteFile
  BY <1>4, RestKeeps DEF WriteFile
<1>5. CASE Finished
  BY <1>5, RestKeeps DEF Finished, vars, operands, history
<1>6. QED BY <1>1, <1>2, <1>3, <1>4, <1>5

\* expect_byte and expect_word begin an item, all of which is still to come.
LEMMA ExpectStep ==
  ASSUME Shape, Expect
  PROVE  Kept /\ (Quiet \/ Begun)
<1>1. PICK t \in Vocabulary \union ungot, n \in {1, 2} :
        /\ phase = "assemble"
        /\ IF Ready(FALSE)
           THEN /\ expect_arg_size' = n /\ expect_arg_n' = 1
                /\ Begins(n)
                /\ UNCHANGED <<phase, sections, current_section, current_label_id, file, meant>>
           ELSE Panic
  BY DEF Expect, Directive, Word
<1>2. CASE ~Ready(FALSE)
  BY <1>1, <1>2, PanicKeeps
<1>3. CASE Ready(FALSE)
  <2>1. UNCHANGED <<sections, current_section, current_label_id>> /\ UNCHANGED meant
    BY <1>1, <1>3
  <2>2. Shape' /\ SectionsKept /\ MovedBy(0)
    BY <2>1, StillKeeps
  <2>3. Onward
    BY <2>2, MovesOnward
  <2>4. n - 1 * n = 0 /\ n \in 0 .. 2 /\ 1 \in 0 .. 3 /\ n \in Int
    OBVIOUS
  <2>5. BegunWith(1, n, n)
    BY <1>1, <1>3, <2>2, <2>4 DEF BegunWith, Begins
  <2>6. Begun
    BY <1>1, <1>3, <2>1, <2>4, <2>5 DEF Begun, Ready
  <2>7. QED BY <2>1, <2>2, <2>3, <2>6 DEF Kept
<1>4. QED BY <1>2, <1>3

\* .org and .skip begin an item as long as the distance they move.
LEMMA MoveStep ==
  ASSUME Shape, Counter, items \in Seq([sect : Nat, at : Nat, length : Int]), Move
  PROVE  Kept /\ (Quiet \/ Begun)
<1>1. PICK t \in Vocabulary \union ungot, a \in Vocabulary \union {End} :
        /\ phase = "assemble"
        /\ IF Ready(TRUE)
           THEN LET to == IF t.name = "org" THEN Number(a) ELSE Current.data_pos + Number(a)
                IN  /\ to >= 0
                    /\ sections' = [sections EXCEPT ![current_section].data_pos = to]
                    /\ Begins(to - Current.data_pos)
                    /\ UNCHANGED <<phase, operands, current_section, current_label_id, file, meant>>
           ELSE Panic
  BY DEF Move, Directive, Word, Argument, get_next_token
<1>2. CASE ~Ready(TRUE)
  BY <1>1, <1>2, PanicKeeps
<1>3. CASE Ready(TRUE)
  <2>1. current_section # 0 /\ expect_arg_n = 0
    BY <1>3 DEF Ready
  <2>2. IsSection(Current)
    BY <2>1, CurrentIsSection
  <2>3. PICK from \in Nat : from = Current.data_pos
    BY <2>2 DEF IsSection
  <2>4. Number(a) \in Int
    <3>1. CASE a \in Vocabulary
      BY <3>1, SourceAssumption DEF Number
    <3>2. CASE a = End
      BY <3>2 DEF Number, End
    <3>3. QED BY <1>1, <3>1, <3>2
  <2>5. PICK to \in Int : to = IF t.name = "org" THEN Number(a) ELSE Current.data_pos + Number(a)
    BY <2>3, <2>4
  <2>6. /\ to \in Nat
        /\ sections' = [sections EXCEPT ![current_section].data_pos = to]
        /\ Begins(to - from)
        /\ UNCHANGED <<phase, operands, current_section, current_label_id, file, meant>>
    BY <1>1, <1>3, <2>3, <2>5
  <2>7. PICK u : u = [Current EXCEPT !.data_pos = to]
    OBVIOUS
  <2>8. /\ IsSection(u) /\ Grows(Current, u) /\ u.labels = Current.labels
        /\ u.mask = Current.mask /\ u.data_pos = to
    BY <2>2, <2>6, <2>7, MovedFields, Zenon
  <2>9. Put(u)
    <3>1. sections' = [sections EXCEPT ![current_section] = [@ EXCEPT !.data_pos = to]]
      BY <2>6, Zenon
    <3>2. QED BY <2>1, <2>6, <2>7, <3>1, Zenon DEF Put, Current
  <2>10. LabelsStay(Current, u)
    BY <2>8 DEF LabelsStay
  <2>11. current_label_id' \in Word16
    BY <2>6 DEF Shape
  <2>12. Shape' /\ SectionsKept
    BY <2>8, <2>9, <2>10, <2>11, PutShape, PutKeeps
  <2>13. MovedBy(to - from)
    <3>1. to - from \in Int /\ u.data_pos = Current.data_pos + (to - from)
      BY <2>3, <2>6, <2>8
    <3>2. QED BY <2>9, <3>1, PutMoves
  <2>14. items' = Append(items, [sect |-> current_section, at |-> Current.data_pos,
                                 length |-> to - from])
    BY <2>1, <2>6 DEF Begins
  <2>15. Onward
    <3> SUFFICES ASSUME NeverBack'
                 PROVE  \A s \in DOMAIN sections : sections[s].data_pos <= sections'[s].data_pos
      BY DEF Onward
    <3>1. PICK e : e = [sect |-> current_section, at |-> Current.data_pos, length |-> to - from]
      OBVIOUS
    <3>2. /\ Len(items) \in Nat /\ Len(items) + 1 \in DOMAIN items'
          /\ items'[Len(items) + 1] = e
      <4>1. IsSequence(items)
        BY DEF IsSequence
      <4>2. Len(items) \in Nat
        BY <4>1, SequenceParts
      <4>3. QED BY <2>14, <3>1, <4>1, <4>2, SequenceExtended
    <3>3. items'[Len(items) + 1].length >= 0
      BY <3>2 DEF NeverBack
    <3>4. to - from >= 0
      BY <3>1, <3>2, <3>3
    <3>5. \A s \in DOMAIN sections : sections[s].data_pos \in Nat
      BY DEF Shape, IsSection
    <3>6. QED BY <2>3, <2>6, <2>13, <3>4, <3>5 DEF MovedBy
  <2>16. BegunWith(0, expect_arg_size, to - from)
    <3>1. (to - from) - 0 * expect_arg_size = to - from
      BY <2>3, <2>6 DEF Counter
    <3>2. expect_arg_n' = 0 /\ expect_arg_size' = expect_arg_size
      BY <2>1, <2>6 DEF operands
    <3>3. MovedBy((to - from) - 0 * expect_arg_size)
      BY <2>13, <3>1
    <3>4. QED BY <2>1, <2>14, <3>2, <3>3 DEF BegunWith
  <2>17. Begun
    <3>1. 0 \in 0 .. 3 /\ expect_arg_size \in 0 .. 2 /\ to - from \in Int
      BY <2>3 DEF Counter
    <3>2. QED BY <1>1, <2>1, <2>6, <2>16, <3>1 DEF Begun
  <2>18. QED BY <2>6, <2>12, <2>15, <2>17 DEF Kept
<1>4. QED BY <1>2, <1>3


\* .ascii begins an item of its bytes.
LEMMA AsciiStep ==
  ASSUME Shape, Counter, Ascii
  PROVE  Kept /\ (Quiet \/ Begun)
<1>1. CASE Panic
  BY <1>1, PanicKeeps
<1>2. CASE ~Panic
  <2>1. PICK text \in Texts :
          /\ phase = "assemble" /\ expect_arg_n = 0
          /\ emit([i \in DOMAIN text |-> get_quoted_text(text[i])],
                  /\ Begins(Len(text))
                  /\ UNCHANGED <<phase, operands, current_section, current_label_id, file, meant>>)
    BY <1>2 DEF Ascii, Directive, Word
  <2>2. PICK bytes : bytes = [i \in DOMAIN text |-> get_quoted_text(text[i])]
    OBVIOUS
  <2>3. /\ Emits(bytes)
        /\ sections' = IF bytes = <<>> THEN sections
                       ELSE [sections EXCEPT ![current_section] = Emitted(@, bytes)]
        /\ Begins(Len(text))
        /\ UNCHANGED <<phase, operands, current_section, current_label_id, file, meant>>
    BY <1>2, <2>1, <2>2, Zenon DEF emit
  <2>4. PICK n \in Nat : n = Len(text) /\ DOMAIN text = 1 .. n
    BY SourceAssumption
  <2>5. Len(bytes) = n /\ (bytes = <<>> <=> n = 0)
    <3>1. IsSequence(bytes) /\ DOMAIN bytes = 1 .. n
      <4>1. DOMAIN bytes = 1 .. n /\ bytes = [i \in 1 .. n |-> bytes[i]]
        BY <2>2, <2>4
      <4>2. bytes \in Seq({bytes[i] : i \in 1 .. n})
        BY <4>1
      <4>3. QED BY <4>1, <4>2 DEF IsSequence
    <3>2. Len(bytes) = n
      <4>1. Len(bytes) \in Nat /\ DOMAIN bytes = 1 .. Len(bytes)
        BY <3>1, SequenceParts
      <4>2. QED BY <3>1, <4>1
    <3>3. bytes = <<>> <=> n = 0
      BY <3>1, <3>2, EmptySeq DEF IsSequence
    <3>4. QED BY <3>2, <3>3
  <2>6. Laid(bytes)
    BY <2>3 DEF Laid
  <2>7. Shape' /\ SectionsKept /\ MovedBy(n)
    BY <2>4, <2>5, <2>6, LaidKeeps
  <2>8. Onward
    BY <2>4, <2>7, MovesOnward
  <2>9. BegunWith(0, expect_arg_size, n)
    <3>1. n - 0 * expect_arg_size = n
      BY DEF Counter
    <3>2. expect_arg_n' = 0 /\ expect_arg_size' = expect_arg_size
      BY <2>1, <2>3 DEF operands
    <3>3. MovedBy(n - 0 * expect_arg_size)
      BY <2>7, <3>1
    <3>4. QED BY <2>3, <2>4, <3>2, <3>3 DEF BegunWith, Begins
  <2>10. Begun
    <3>1. 0 \in 0 .. 3 /\ expect_arg_size \in 0 .. 2 /\ n \in Int
      BY DEF Counter
    <3>2. QED BY <2>1, <2>3, <2>9, <3>1 DEF Begun
  <2>11. QED BY <2>3, <2>7, <2>8, <2>10 DEF Kept
<1>3. QED BY <1>1, <1>2

\* The bytes of an instruction, and the operands expected after it.
LEMMA InstructionBytes ==
  ASSUME NEW op, NEW arg
  PROVE  LET bytes == gen_instruction(op, arg)
         IN  Len(bytes) \in Nat /\ (bytes = <<>> <=> Len(bytes) = 0)
BY DEF gen_instruction

\* What an instruction waits for: up to three bytes or one word.
LEMMA ExpectedOperands ==
  ASSUME NEW op
  PROVE  /\ Expected(op)[1] \in 0 .. 3 /\ Expected(op)[2] \in 0 .. 2
         /\ Expected(op)[2] = 2 => Expected(op)[1] <= 1
         /\ expect_arg(op) = Expected(op)[1] * Expected(op)[2]
BY DEF Expected, expect_arg

\* An instruction begins an item of its bytes and the operands to come.
LEMMA EncodedStep ==
  ASSUME Shape, phase = "assemble", expect_arg_n = 0, NEW op, NEW arg, Encoded(op, arg)
  PROVE  Kept /\ (Quiet \/ Begun)
<1>1. CASE Panic
  BY <1>1, PanicKeeps
<1>2. CASE ~Panic
  <2>1. PICK bytes : bytes = gen_instruction(op, arg)
    OBVIOUS
  <2>2. /\ Emits(bytes)
        /\ sections' = IF bytes = <<>> THEN sections
                       ELSE [sections EXCEPT ![current_section] = Emitted(@, bytes)]
        /\ expect_arg_n' = Expected(op)[1] /\ expect_arg_size' = Expected(op)[2]
        /\ Begins(Len(bytes) + expect_arg(op))
        /\ UNCHANGED <<phase, current_section, current_label_id, file, meant>>
    BY <1>2, <2>1, Zenon DEF Encoded, emit
  <2>3. PICK l \in Nat : l = Len(bytes) /\ (bytes = <<>> <=> l = 0)
    BY <2>1, InstructionBytes
  <2>4. PICK n \in 0 .. 3, z \in 0 .. 2 :
          /\ n = Expected(op)[1] /\ z = Expected(op)[2]
          /\ z = 2 => n <= 1
          /\ expect_arg(op) = n * z
    BY ExpectedOperands
  <2>5. Laid(bytes)
    BY <2>2 DEF Laid
  <2>6. Shape' /\ SectionsKept /\ MovedBy(l)
    BY <2>3, <2>5, LaidKeeps
  <2>7. Onward
    BY <2>3, <2>6, MovesOnward
  <2>8. n * z \in Int /\ (l + n * z) - n * z = l /\ l + n * z \in Int
    <3>1. n * z \in Int
      OBVIOUS
    <3>2. \A p \in Int : (l + p) - p = l /\ l + p \in Int
      BY <2>3
    <3>3. QED BY <3>1, <3>2
  <2>9. BegunWith(n, z, l + n * z)
    BY <2>2, <2>3, <2>4, <2>6, <2>8 DEF BegunWith, Begins
  <2>10. Begun
    BY <2>2, <2>8, <2>9 DEF Begun
  <2>11. QED BY <2>2, <2>6, <2>7, <2>10 DEF Kept
<1>3. QED BY <1>1, <1>2

\* So do all three actions of gen_instruction.
LEMMA InstructionStep ==
  ASSUME Shape, PlainInstruction \/ InstructionWithArgument \/ Jump
  PROVE  Kept /\ (Quiet \/ Begun)
<1>1. CASE PlainInstruction
  <2>1. PICK t \in Vocabulary \union ungot :
          phase = "assemble" /\ expect_arg_n = 0 /\ Encoded(t.name, 0)
    BY <1>1 DEF PlainInstruction, Word, Mnemonic
  <2>2. QED BY <2>1, EncodedStep
<1>2. CASE InstructionWithArgument
  <2>1. PICK t \in Vocabulary \union ungot, a \in Argument :
          /\ phase = "assemble" /\ expect_arg_n = 0
          /\ Panic \/ Encoded(t.name, find_keyword(ArgumentTable(t.name), a.name))
    BY <1>2, Zenon DEF InstructionWithArgument, Word, Mnemonic
  <2>2. QED BY <2>1, EncodedStep, PanicKeeps
<1>3. CASE Jump
  <2>1. PICK t \in Vocabulary \union ungot, a \in Argument :
          phase = "assemble" /\ expect_arg_n = 0 /\ Encoded(t.name, gen_jmp_code(a))
    BY <1>3, Zenon DEF Jump, Word, Mnemonic
  <2>2. QED BY <2>1, EncodedStep
<1>4. QED BY <1>1, <1>2, <1>3

\* A literal of the expected size is counted, of another size refused.
LEMMA OperandStep ==
  ASSUME Shape, phase = "assemble", NEW bytes, NEW n \in {1, 2}, Len(bytes) = n,
         expect_arg_size # 0 => expect_arg_size = n, TakeOperand(bytes)
  PROVE  Kept /\ (Quiet \/ Counted(n))
<1>1. CASE Panic
  BY <1>1, PanicKeeps
<1>2. CASE ~Panic
  <2>1. /\ expect_arg_size # 0 /\ Emits(bytes)
        /\ sections' = IF bytes = <<>> THEN sections
                       ELSE [sections EXCEPT ![current_section] = Emitted(@, bytes)]
        /\ expect_arg_n' = Decremented(expect_arg_n)
        /\ UNCHANGED <<phase, expect_arg_size, current_section, current_label_id, file, history>>
    BY <1>2, Zenon DEF TakeOperand, emit
  <2>2. Len(bytes) \in Nat /\ Len(bytes) # 0 /\ bytes # <<>>
    OBVIOUS
  <2>3. Laid(bytes)
    BY <2>1 DEF Laid
  <2>4. Shape' /\ SectionsKept /\ MovedBy(n)
    BY <2>2, <2>3, LaidKeeps
  <2>5. Onward
    BY <2>4, MovesOnward
  <2>6. current_section # 0
    BY <2>1, <2>2 DEF Emits
  <2>7. Counted(n)
    BY <2>1, <2>4, <2>6 DEF Counted, history
  <2>8. QED BY <2>1, <2>4, <2>5, <2>7 DEF Kept, history
<1>3. QED BY <1>1, <1>2

\* So are characters and numbers.
LEMMA LiteralStep ==
  ASSUME Shape, Counter, CharLiteral \/ NumberLiteral
  PROVE  Kept /\ (Quiet \/ Counted(1) \/ Counted(2))
<1>1. CASE CharLiteral
  <2>1. PICK t \in Vocabulary \union ungot :
          /\ phase = "assemble"
          /\ TakeOperand(IF expect_arg_size > 1 THEN <<t.value, 0>> ELSE <<t.value>>)
    BY <1>1 DEF CharLiteral, Word
  <2>2. CASE expect_arg_size = 2
    <3>1. TakeOperand(<<t.value, 0>>) /\ Len(<<t.value, 0>>) = 2
      BY <2>1, <2>2
    <3>2. QED BY <2>1, <2>2, <3>1, OperandStep
  <2>3. CASE expect_arg_size # 2
    <3>1. TakeOperand(<<t.value>>) /\ Len(<<t.value>>) = 1
      BY <2>1, <2>3 DEF Counter
    <3>2. expect_arg_size # 0 => expect_arg_size = 1
      BY <2>3 DEF Counter
    <3>3. QED BY <2>1, <3>1, <3>2, OperandStep
  <2>4. QED BY <2>2, <2>3
<1>2. CASE NumberLiteral
  <2>1. PICK t \in Vocabulary \union ungot :
          /\ phase = "assemble"
          /\ TakeOperand(IF expect_arg_size = 2 THEN WordOperand(ToWord(t.value))
                         ELSE <<ToWord(t.value) % 256>>)
    BY <1>2 DEF NumberLiteral, Word
  <2>2. PICK w : w = ToWord(t.value)
    OBVIOUS
  <2>3. CASE expect_arg_size = 2
    <3>1. TakeOperand(WordOperand(w)) /\ Len(WordOperand(w)) = 2
      BY <2>1, <2>2, <2>3 DEF WordOperand
    <3>2. QED BY <2>1, <2>3, <3>1, OperandStep
  <2>4. CASE expect_arg_size # 2
    <3>1. TakeOperand(<<w % 256>>) /\ Len(<<w % 256>>) = 1
      BY <2>1, <2>2, <2>4
    <3>2. expect_arg_size # 0 => expect_arg_size = 1
      BY <2>4 DEF Counter
    <3>3. QED BY <2>1, <3>1, <3>2, OperandStep
  <2>5. QED BY <2>3, <2>4
<1>3. QED BY <1>1, <1>2


\* .export changes flags of a label.
LEMMA ExportStep ==
  ASSUME Shape, Export
  PROVE  Kept /\ Quiet
<1>1. CASE Panic
  BY <1>1, PanicKeeps
<1>2. CASE ~Panic
  <2>1. PICK t \in Vocabulary \union ungot, a \in Argument :
          /\ phase = "assemble" /\ current_section # 0
          /\ find_label(Plain(a.name), Current) # {}
          /\ sections' = [sections EXCEPT ![current_section] =
                [@ EXCEPT !.labels[Entry(Plain(a.name), Current)].export = TRUE]]
          /\ UNCHANGED <<phase, operands, current_section, current_label_id, file, history>>
    BY <1>2, Zenon DEF Export, Directive, Word, Ready
  <2>2. IsSection(Current)
    BY <2>1, CurrentIsSection
  <2>3. PICK i \in DOMAIN Current.labels : i = Entry(Plain(a.name), Current)
    BY <2>1 DEF Entry, find_label
  <2>4. PICK u : u = [Current EXCEPT !.labels[i].export = TRUE]
    OBVIOUS
  <2>5. IsSection(u) /\ Grows(Current, u) /\ OnlyLabels(Current, u) /\ LabelsStay(Current, u)
    BY <2>2, <2>4, ExportedFields, Zenon
  <2>6. Put(u)
    BY <2>1, <2>3, <2>4, Zenon DEF Put, Current
  <2>7. current_label_id' \in Word16
    BY <2>1 DEF Shape
  <2>8. u.data_pos = Current.data_pos + 0 /\ u.mask = Current.mask
    BY <2>2, <2>5 DEF IsSection, OnlyLabels
  <2>9. Shape' /\ SectionsKept
    BY <2>5, <2>6, <2>7, <2>8, PutShape, PutKeeps
  <2>10. MovedBy(0)
    BY <2>6, <2>8, PutMoves
  <2>11. Onward
    BY <2>10, MovesOnward
  <2>12. QED BY <2>1, <2>9, <2>10, <2>11 DEF Kept, Quiet, operands, history
<1>3. QED BY <1>1, <1>2

\* .import changes flags of labels.
LEMMA ImportStep ==
  ASSUME Shape, Import
  PROVE  Kept /\ Quiet
<1>1. CASE Panic
  BY <1>1, PanicKeeps
<1>2. CASE ~Panic
  <2>1. PICK t \in Vocabulary \union ungot, a \in Argument :
          /\ phase = "assemble"
          /\ sections' = [s \in DOMAIN sections |-> mark_label_import(a, sections[s])]
          /\ UNCHANGED <<phase, operands, current_section, current_label_id, file, history>>
    BY <1>2, Zenon DEF Import, Directive, Word
  <2>2. IsSequence(sections) /\ \A s \in DOMAIN sections : IsSection(sections[s])
    BY DEF Shape
  <2>3. ASSUME NEW s \in DOMAIN sections
        PROVE  /\ IsSection(sections'[s]) /\ Grows(sections[s], sections'[s])
               /\ OnlyLabels(sections[s], sections'[s]) /\ LabelsStay(sections[s], sections'[s])
    <3>1. sections'[s] = mark_label_import(a, sections[s])
      BY <2>1
    <3>2. IsSection(sections[s])
      BY <2>2
    <3>3. QED BY <3>1, <3>2, ImportedFields, Zenon
  <2>4. DOMAIN sections' = DOMAIN sections /\ sections' = [s \in DOMAIN sections' |-> sections'[s]]
    BY <2>1
  <2>5. IsSequence(sections') /\ Len(sections') = Len(sections)
    BY <2>2, <2>4, SequenceMapped, Zenon
  <2>6. Shape'
    BY <2>1, <2>3, <2>4, <2>5 DEF Shape
  <2>7. SectionsKept
    BY <2>3 DEF SectionsKept, OnlyLabels
  <2>8. MovedBy(0)
    BY <2>2, <2>3, <2>4 DEF MovedBy, OnlyLabels, IsSection
  <2>9. Onward
    BY <2>8, MovesOnward
  <2>10. QED BY <2>1, <2>6, <2>7, <2>8, <2>9 DEF Kept, Quiet, operands, history
<1>3. QED BY <1>1, <1>2

\* .section selects, or panics.
LEMMA SectionStep ==
  ASSUME Shape, Section
  PROVE  (Kept /\ Quiet) \/ Selected
<1>1. CASE Panic
  BY <1>1, PanicKeeps
<1>2. CASE ~Panic
  <2>1. PICK t \in Vocabulary \union ungot, a \in Argument :
          /\ phase = "assemble" /\ expect_arg_n = 0
          /\ a = End \/ (a.kind = "name" /\ a.name \in DOMAIN Truncated)
          /\ select_section(SectionName(a))
          /\ UNCHANGED <<phase, operands, current_label_id, file, history>>
    BY <1>2, Zenon DEF Section, Directive, Word, Ready
  <2>2. SectionName(a) \in DOMAIN Truncated
    BY <2>1, SectionAssumption, Zenon DEF SectionName, SectionAssumption
  <2>3. QED BY <2>1, <2>2 DEF Selected, operands, history
<1>3. QED BY <1>1, <1>2

\* The current section has the labels it had, or one more with the next id.
Labelled(t) ==
  /\ IsSection(t) /\ Grows(Current, t) /\ (NoTwice(Current) => NoTwice(t))
  /\ \/ LabelsStay(Current, t) /\ current_label_id' = current_label_id
     \/ /\ Len(t.labels) = Len(Current.labels) + 1
        /\ t.labels[Len(Current.labels) + 1].id = current_label_id
        /\ current_label_id' = (current_label_id + 1) % WordSize

\* A section with one more registered label is what Labelled says.
LEMMA RegisteredIsLabelled ==
  ASSUME IsSection(Current), current_label_id \in Word16, NEW name,
         current_label_id' = NextLabelId(name, Current)
  PROVE  Labelled(Registered(name, Current)) /\ current_label_id' \in Word16
<1>1. PICK r : r = Registered(name, Current)
  OBVIOUS
<1>2. /\ IsSection(r) /\ Grows(Current, r)
      /\ NoTwice(Current) => NoTwice(r)
      /\ IF find_label(name, Current) = {}
         THEN /\ Len(r.labels) = Len(Current.labels) + 1
              /\ r.labels[Len(Current.labels) + 1].id = current_label_id
         ELSE r = Current
  BY <1>1, RegisteredFields, Zenon
<1>3. current_label_id' \in Word16
  <2>1. current_label_id + 1 \in Int
    BY WordSizeIsPositive DEF Word16
  <2>2. (current_label_id + 1) % WordSize \in Word16
    BY <2>1, ReducedIsWord
  <2>3. QED BY <2>2 DEF NextLabelId
<1>4. CASE find_label(name, Current) = {}
  <2>1. current_label_id' = (current_label_id + 1) % WordSize
    BY <1>4, Zenon DEF NextLabelId
  <2>2. /\ Len(r.labels) = Len(Current.labels) + 1
        /\ r.labels[Len(Current.labels) + 1].id = current_label_id
    BY <1>2, <1>4
  <2>3. Labelled(r)
    BY <1>2, <2>1, <2>2, Zenon DEF Labelled
  <2>4. QED BY <1>1, <1>3, <2>3, Zenon
<1>5. CASE find_label(name, Current) # {}
  BY <1>1, <1>2, <1>5 DEF Labelled, NextLabelId, LabelsStay
<1>6. QED BY <1>3, <1>4, <1>5

\* What is done after that to a section with the label leaves its labels in place.
LEMMA StaysLabelled ==
  ASSUME IsSection(Current), NEW r, Labelled(r), NEW t, IsSection(t), Grows(r, t),
         LabelsStay(r, t), r.data_pos = Current.data_pos
  PROVE  Labelled(t)
<1>1. IsSection(r) /\ Grows(Current, r) /\ (NoTwice(Current) => NoTwice(r))
  BY DEF Labelled
<1>2. Current.data_pos \in Nat /\ r.data_pos \in Nat
  BY <1>1 DEF IsSection
<1>3. Grows(Current, t)
  <2>1. Current.data_pos <= r.data_pos
    BY <1>2
  <2>2. QED BY <1>1, <1>2, <2>1, GrowsOn
<1>4. NoTwice(Current) => NoTwice(t)
  BY <1>1, SameNames
<1>5. CASE LabelsStay(Current, r) /\ current_label_id' = current_label_id
  BY <1>3, <1>4, <1>5 DEF Labelled, LabelsStay
<1>6. CASE /\ Len(r.labels) = Len(Current.labels) + 1
           /\ r.labels[Len(Current.labels) + 1].id = current_label_id
           /\ current_label_id' = (current_label_id + 1) % WordSize
  <2>1. Len(Current.labels) + 1 \in DOMAIN r.labels
    <3>1. IsSequence(Current.labels) /\ IsSequence(r.labels)
      BY <1>1 DEF IsSection
    <3>2. Len(Current.labels) \in Nat /\ DOMAIN r.labels = 1 .. Len(r.labels)
      BY <3>1, SequenceParts
    <3>3. QED BY <1>6, <3>2
  <2>2. t.labels[Len(Current.labels) + 1].id = current_label_id
    BY <1>6, <2>1 DEF Grows
  <2>3. QED BY <1>3, <1>4, <1>6, <2>2 DEF Labelled, LabelsStay
<1>7. QED BY <1>5, <1>6 DEF Labelled

\* The current section becomes one where the label has its entry and its position.
LabelPut ==
  /\ Shape' /\ meant' = meant
  /\ \E t : Put(t) /\ Labelled(t) /\ t.mask = Current.mask /\ t.data_pos = Current.data_pos

\* A label gets an entry and its position, and nothing is counted.
LEMMA PositionStep ==
  ASSUME Shape, PositionLabel
  PROVE  Quiet /\ (Kept \/ LabelPut)
<1>1. CASE Panic
  BY <1>1, PanicKeeps
<1>2. CASE ~Panic
  <2>1. PICK w \in Vocabulary \union ungot :
          /\ phase = "assemble" /\ current_section # 0
          /\ LET sect == Registered(Plain(w.name), Current)
                 i == Entry(Plain(w.name), sect)
             IN  sections' = [sections EXCEPT ![current_section] =
                   [sect EXCEPT !.labels[i].position = Current.data_pos % WordSize,
                                !.labels[i].present = TRUE]]
          /\ current_label_id' = NextLabelId(Plain(w.name), Current)
          /\ UNCHANGED <<phase, operands, current_section, file, history>>
    BY <1>2, Zenon DEF PositionLabel, Word
  <2>2. IsSection(Current)
    BY <2>1, CurrentIsSection
  <2>3. PICK name : name = Plain(w.name)
    OBVIOUS
  <2>4. PICK r : r = Registered(name, Current)
    OBVIOUS
  <2>5. current_label_id \in Word16
    BY DEF Shape
  <2>6. Labelled(r) /\ current_label_id' \in Word16
    BY <2>1, <2>2, <2>3, <2>4, <2>5, RegisteredIsLabelled, Zenon
  <2>7. /\ IsSection(r) /\ OnlyLabels(Current, r)
        /\ Entry(name, r) \in DOMAIN r.labels
    BY <2>2, <2>4, <2>5, RegisteredFields, Zenon
  <2>8. PICK i \in DOMAIN r.labels : i = Entry(name, r)
    BY <2>7
  <2>9. PICK p \in Word16 : p = Current.data_pos % WordSize
    <3>1. Current.data_pos \in Int
      BY <2>2 DEF IsSection
    <3>2. QED BY <3>1, ReducedIsWord, Zenon
  <2>10. PICK t : t = [r EXCEPT !.labels[i].position = p, !.labels[i].present = TRUE]
    OBVIOUS
  <2>11. IsSection(t) /\ Grows(r, t) /\ OnlyLabels(r, t) /\ LabelsStay(r, t)
    BY <2>7, <2>10, PositionedFields, Zenon
  <2>12. sections' = [sections EXCEPT ![current_section] = t]
    BY <2>1, <2>3, <2>4, <2>8, <2>9, <2>10, Zenon
  <2>13. Put(t)
    BY <2>1, <2>12 DEF Put
  <2>14. Labelled(t)
    BY <2>2, <2>6, <2>7, <2>11, StaysLabelled DEF OnlyLabels
  <2>15. t.mask = Current.mask /\ t.data_pos = Current.data_pos
    BY <2>7, <2>11 DEF OnlyLabels
  <2>16. Shape'
    BY <2>6, <2>11, <2>13, PutShape
  <2>17. MovedBy(0)
    <3>1. t.data_pos = Current.data_pos + 0
      BY <2>2, <2>15 DEF IsSection
    <3>2. QED BY <2>13, <3>1, PutMoves
  <2>18. LabelPut
    BY <2>1, <2>13, <2>14, <2>15, <2>16 DEF LabelPut, history
  <2>19. Quiet
    BY <2>1, <2>17 DEF Quiet, operands, history
  <2>20. QED BY <2>18, <2>19
<1>3. QED BY <1>1, <1>2


\* A sum that is formed term by term has a value, and it is a number.
LEMMA PartialSums ==
  ASSUME NEW n \in Nat, NEW g, \A i \in 1 .. n : g[i] \in Int
  PROVE  (LET sum[i \in 0 .. n] == IF i = 0 THEN 0 ELSE sum[i - 1] + g[i] IN sum[n]) \in Int
<1> DEFINE IsSum(f, m) == f = [i \in 0 .. m |-> IF i = 0 THEN 0 ELSE f[i - 1] + g[i]]
           T == {m \in 0 .. n : ~ \E f : IsSum(f, m)}
<1>1. T = {}
  <2> SUFFICES ASSUME T # {} PROVE FALSE
    OBVIOUS
  <2>1. T \subseteq Nat
    OBVIOUS
  <2>2. PICK m \in T : \A k \in T : m <= k
    <3> HIDE DEF T
    <3>1. QED BY <2>1, LeastNatural
  <2>3. m \in 0 .. n /\ ~ \E f : IsSum(f, m)
    OBVIOUS
  <2>4. m # 0
    <3>1. IsSum([i \in 0 .. 0 |-> 0], 0)
      OBVIOUS
    <3>2. QED BY <2>3, <3>1
  <2>5. PICK f : IsSum(f, m - 1)
    <3>1. m - 1 \in 0 .. n /\ m - 1 \notin T
      BY <2>2, <2>3, <2>4
    <3>2. QED BY <3>1
  <2> DEFINE h == [i \in 0 .. m |-> IF i = m THEN f[m - 1] + g[m] ELSE f[i]]
  <2>6. IsSum(h, m)
    <3>1. ASSUME NEW i \in 0 .. m
          PROVE  h[i] = IF i = 0 THEN 0 ELSE h[i - 1] + g[i]
      <4>1. CASE i = 0
        BY <2>3, <2>4, <2>5, <4>1
      <4>2. CASE i # 0 /\ i = m
        BY <2>3, <4>2
      <4>3. CASE i # 0 /\ i # m
        <5>1. i \in 0 .. m - 1 /\ i - 1 \in 0 .. m /\ i - 1 # m
          BY <2>3, <4>3
        <5>2. f[i] = f[i - 1] + g[i]
          BY <2>5, <4>3, <5>1
        <5>3. QED BY <4>3, <5>1, <5>2
      <4>4. QED BY <4>1, <4>2, <4>3
    <3> HIDE DEF h
    <3>2. DOMAIN h = 0 .. m /\ h = [i \in DOMAIN h |-> h[i]]
      BY DEF h
    <3>3. QED BY <3>1, <3>2
  <2>7. QED BY <2>3, <2>6
<1>2. \E f : IsSum(f, n)
  <2>1. n \in 0 .. n /\ n \notin T
    BY <1>1
  <2>2. QED BY <2>1
<1> DEFINE sum == CHOOSE f : IsSum(f, n)
<1>3. IsSum(sum, n)
  <2> HIDE DEF IsSum
  <2>1. QED BY <1>2
<1>4. PICK s : s = sum
  OBVIOUS
<1>5. \A i \in 0 .. n : s[i] = IF i = 0 THEN 0 ELSE s[i - 1] + g[i]
  <2>1. IsSum(s, n)
    BY <1>3, <1>4
  <2>2. QED BY <2>1
<1> DEFINE U == {i \in 0 .. n : s[i] \notin Int}
<1>6. U = {}
  <2> SUFFICES ASSUME U # {} PROVE FALSE
    OBVIOUS
  <2>1. U \subseteq Nat
    OBVIOUS
  <2>2. PICK m \in U : \A k \in U : m <= k
    <3> HIDE DEF U
    <3>1. QED BY <2>1, LeastNatural
  <2>3. m \in 0 .. n /\ s[m] \notin Int
    OBVIOUS
  <2>4. m # 0
    BY <1>5, <2>3
  <2>5. m - 1 \in 0 .. n /\ m - 1 \notin U
    BY <2>2, <2>3, <2>4
  <2>6. s[m - 1] \in Int /\ g[m] \in Int
    BY <2>3, <2>4, <2>5
  <2>7. s[m] = s[m - 1] + g[m]
    BY <1>5, <2>3, <2>4
  <2>8. QED BY <2>3, <2>6, <2>7
<1>7. s[n] \in Int
  BY <1>6
<1>8. QED BY <1>4, <1>7, Zenon


IsTerms(terms) == terms \in Seq([sign : {"+", "-"}, value : Int])

\* calculate_offset_sum returns a number.
LEMMA SumIsInteger ==
  ASSUME NEW terms, IsTerms(terms)
  PROVE  calculate_offset_sum(terms) \in Int
<1> DEFINE n == Len(terms)
           e(i) == IF Seen(terms, i) THEN Term(terms[i]) ELSE 0
           g == [i \in 1 .. n |-> e(i)]
<1>1. n \in Nat
  BY DEF IsTerms
<1>2. \A i \in 1 .. n : e(i) \in Int
  <2>1. ASSUME NEW i \in 1 .. n PROVE Term(terms[i]) \in Int
    <3>1. terms[i] \in [sign : {"+", "-"}, value : Int]
      BY ElementOfSeq, Zenon DEF IsTerms
    <3>2. PICK v \in Int : v = terms[i].value
      BY <3>1
    <3>3. -v \in Int
      OBVIOUS
    <3>4. QED BY <3>2, <3>3 DEF Term
  <2>2. QED BY <2>1
<1> DEFINE byFunction == LET sum[i \in 0 .. n] == IF i = 0 THEN 0 ELSE sum[i - 1] + g[i] IN sum[n]
           byTerm == LET sum[i \in 0 .. n] == IF i = 0 THEN 0 ELSE sum[i - 1] + e(i) IN sum[n]
<1>3. byTerm = byFunction
  <2> HIDE DEF e
  <2>1. ASSUME NEW f
        PROVE  [i \in 0 .. n |-> IF i = 0 THEN 0 ELSE f[i - 1] + g[i]] =
                 [i \in 0 .. n |-> IF i = 0 THEN 0 ELSE f[i - 1] + e(i)]
    <3>1. \A i \in 0 .. n : i # 0 => g[i] = e(i)
      BY <1>1
    <3> HIDE DEF g
    <3>2. QED BY <3>1
  <2> HIDE DEF g, n
  <2>2. (CHOOSE f : f = [i \in 0 .. n |-> IF i = 0 THEN 0 ELSE f[i - 1] + g[i]]) =
          CHOOSE f : f = [i \in 0 .. n |-> IF i = 0 THEN 0 ELSE f[i - 1] + e(i)]
    BY <2>1, Zenon
  <2>3. QED BY <2>2, Zenon
<1>4. byFunction \in Int
  <2>1. \A i \in 1 .. n : g[i] \in Int
    BY <1>2
  <2> HIDE DEF g, n
  <2>2. QED BY <1>1, <2>1, PartialSums
<1>5. calculate_offset_sum(terms) = byTerm
  BY Zenon DEF calculate_offset_sum
<1> HIDE DEF byTerm, byFunction
<1>6. QED BY <1>3, <1>4, <1>5

\* Without an addition behind a subtraction the name and the sum are those written.
LEMMA WrittenAsMeant ==
  ASSUME NEW w, IsTerms(w.terms), NoneAfterMinus(w.terms)
  PROVE  /\ UsedName(w) = Plain(w.name)
         /\ calculate_offset_sum(w.terms) = SumOf(w.terms)
<1>1. PICK terms : terms = w.terms
  OBVIOUS
<1>2. PICK n \in Nat : n = Len(terms) /\ DOMAIN terms = 1 .. n
  <2>1. IsSequence(terms)
    BY <1>1 DEF IsTerms, IsSequence
  <2>2. QED BY <2>1, SequenceParts
<1>3. \A i \in 1 .. n : terms[i].sign \in {"+", "-"}
  <2>1. ASSUME NEW i \in 1 .. n PROVE terms[i] \in [sign : {"+", "-"}, value : Int]
    BY <1>1, <1>2, ElementOfSeq, Zenon DEF IsTerms
  <2>2. QED BY <2>1
<1>4. \A i \in 1 .. n : Seen(terms, i)
  BY <1>1, <1>2, <1>3 DEF Seen, NoneAfterMinus
<1>5. UsedName(w) = Plain(w.name)
  <2>1. Cut(terms) = {}
    <3> SUFFICES ASSUME NEW i \in Cut(terms) PROVE FALSE
      OBVIOUS
    <3>1. i \in 1 .. n /\ \A j \in 1 .. n : Seen(terms, j) => i < j
      BY <1>2 DEF Cut
    <3>2. QED BY <1>4, <3>1
  <2>2. Cardinality(Cut(terms)) = 0
    BY <2>1, FS_EmptySet
  <2>3. SubSeq(terms, 1, 0) = <<>>
    BY <1>1 DEF IsTerms
  <2>4. QED BY <1>1, <2>2, <2>3 DEF UsedName, Plain
<1>6. calculate_offset_sum(terms) = SumOf(terms)
  <2> DEFINE e(i) == IF Seen(terms, i) THEN Term(terms[i]) ELSE 0
             s(i) == Signed(terms[i])
             m == Len(terms)
  <2>1. \A i \in 0 .. m : i # 0 => e(i) = s(i)
    BY <1>2, <1>4 DEF Term, Signed
  <2>2. calculate_offset_sum(terms) =
          LET sum[i \in 0 .. m] == IF i = 0 THEN 0 ELSE sum[i - 1] + e(i) IN sum[m]
    BY Zenon DEF calculate_offset_sum
  <2>3. SumOf(terms) =
          LET sum[i \in 0 .. m] == IF i = 0 THEN 0 ELSE sum[i - 1] + s(i) IN sum[m]
    BY Zenon DEF SumOf
  <2> HIDE DEF e, s, m
  <2>4. ASSUME NEW f
        PROVE  [i \in 0 .. m |-> IF i = 0 THEN 0 ELSE f[i - 1] + e(i)] =
                 [i \in 0 .. m |-> IF i = 0 THEN 0 ELSE f[i - 1] + s(i)]
    BY <2>1
  <2>5. (CHOOSE f : f = [i \in 0 .. m |-> IF i = 0 THEN 0 ELSE f[i - 1] + e(i)]) =
          CHOOSE f : f = [i \in 0 .. m |-> IF i = 0 THEN 0 ELSE f[i - 1] + s(i)]
    BY <2>4, Zenon
  <2>6. QED BY <2>2, <2>3, <2>5, Zenon
<1>7. QED BY <1>1, <1>5, <1>6

\* The word for the use of a label comes from the source, its terms are terms.
Words == ungot \subseteq Vocabulary \union {End}

\* The current section becomes one where the use w has its entry, its place in the mask
\* and the id at that place.
UsePut(w) ==
  /\ Shape' /\ w.kind = "use" /\ IsTerms(w.terms)
  /\ \E t :
       LET k == Len(Current.mask) + 1
           at == Current.data_pos
       IN  /\ Put(t) /\ Labelled(t) /\ t.data_pos = at + 2
           /\ DOMAIN t.mask = 1 .. k
           /\ t.mask[k] = [addr |-> at, offset |-> calculate_offset_sum(w.terms) % WordSize]
           /\ at \in DOMAIN t.bytes /\ at + 1 \in DOMAIN t.bytes
           /\ \E i \in DOMAIN t.labels :
                /\ t.labels[i].name = UsedName(w)
                /\ t.labels[i].id = t.bytes[at] + 256 * t.bytes[at + 1]
           /\ meant' = Append(meant, [sect |-> current_section, use |-> k, word |-> w])

\* A word is its low byte and its high byte.
LEMMA BytesOfWord ==
  ASSUME NEW x \in Nat
  PROVE  x = (x % 256) + 256 * (x \div 256)
OBVIOUS

\* The use of a label is refused, or is an operand of two bytes with its entry in labels and mask.
LEMMA UseStep ==
  ASSUME Shape, Words, UseLabel
  PROVE  (Kept /\ Quiet) \/ (Counted(2) /\ \E w : UsePut(w))
<1>1. CASE Panic
  BY <1>1, PanicKeeps
<1>2. CASE ~Panic
  <2>1. PICK w \in Vocabulary \union ungot :
          /\ phase = "assemble" /\ w.kind = "use"
          /\ current_section # 0 /\ expect_arg_size = 2
          /\ LET sect == mark_label_use(w, Current)
                 id == sect.labels[Entry(UsedName(w), sect)].id
             IN  /\ ~(sect.data_pos + 2 > MaxSectionSize)
                 /\ sections' = [sections EXCEPT ![current_section] =
                                   Emitted(sect, <<id % 256, id \div 256>>)]
                 /\ meant' = Append(meant, [sect |-> current_section,
                                            use |-> Len(sect.mask), word |-> w])
          /\ current_label_id' = NextLabelId(UsedName(w), Current)
          /\ expect_arg_size' = 0 /\ expect_arg_n' = Decremented(expect_arg_n)
          /\ UNCHANGED <<phase, current_section, file, items>>
    BY <1>2, Zenon DEF UseLabel, Word
  <2>2. IsSection(Current)
    BY <2>1, CurrentIsSection
  <2>3. PICK name : name = UsedName(w)
    OBVIOUS
  <2>4. PICK r : r = Registered(name, Current)
    OBVIOUS
  <2>5. current_label_id \in Word16
    BY DEF Shape
  <2>6. Labelled(r) /\ current_label_id' \in Word16
    BY <2>1, <2>2, <2>3, <2>4, <2>5, RegisteredIsLabelled, Zenon
  <2>7. /\ IsSection(r) /\ OnlyLabels(Current, r)
        /\ Entry(name, r) \in DOMAIN r.labels /\ r.labels[Entry(name, r)].name = name
    BY <2>2, <2>4, <2>5, RegisteredFields, Zenon
  <2>8. IsTerms(w.terms)
    <3>1. w \in Vocabulary
      BY <2>1 DEF Words, End
    <3>2. QED BY <2>1, <3>1, SourceAssumption DEF IsTerms
  <2>9. PICK offset \in Word16 : offset = calculate_offset_sum(w.terms) % WordSize
    BY <2>8, SumIsInteger, ReducedIsWord, Zenon
  <2>10. PICK at \in Nat : at = Current.data_pos
    BY <2>2 DEF IsSection
  <2>11. PICK m : m = [addr |-> at % WordSize, offset |-> offset]
    OBVIOUS
  <2>12. IsMask(m)
    <3>1. PICK addr \in Word16 : addr = at % WordSize
      BY <2>10, ReducedIsWord
    <3>2. m = [addr |-> addr, offset |-> offset]
      BY <2>11, <3>1
    <3>3. QED BY <3>2 DEF IsMask
  <2>13. PICK u : u = [r EXCEPT !.mask = Append(r.mask, m)]
    OBVIOUS
  <2>14. u = mark_label_use(w, Current)
    <3>1. u = [r EXCEPT !.mask = Append(@, [addr |-> Current.data_pos % WordSize,
                                    offset |-> calculate_offset_sum(w.terms) % WordSize])]
      BY <2>9, <2>10, <2>11, <2>13, Zenon
    <3>2. QED BY <2>3, <2>4, <3>1, Zenon DEF mark_label_use
  <2>15. /\ IsSection(u) /\ Grows(r, u) /\ u.labels = r.labels /\ u.data_pos = r.data_pos
         /\ Len(u.mask) = Len(r.mask) + 1 /\ u.mask[Len(r.mask) + 1] = m
         /\ DOMAIN u.mask = 1 .. Len(r.mask) + 1
    BY <2>7, <2>12, <2>13, MaskedFields, Zenon
  <2>16. r.mask = Current.mask /\ u.data_pos = at
    BY <2>7, <2>10, <2>15 DEF OnlyLabels
  <2>17. PICK i \in DOMAIN u.labels : i = Entry(name, u) /\ u.labels[i].name = name
    <3>1. Entry(name, u) = Entry(name, r)
      BY <2>15 DEF Entry, find_label
    <3>2. QED BY <2>7, <2>15, <3>1
  <2>18. PICK id \in Nat : id = u.labels[i].id
    <3>1. IsLabel(u.labels[i])
      BY <2>15, <2>17 DEF IsSection
    <3>2. u.labels[i].id \in Word16
      BY <3>1 DEF IsLabel
    <3>3. QED BY <3>2, WordSizeIsPositive DEF Word16
  <2>19. PICK bytes : bytes = <<id % 256, id \div 256>>
    OBVIOUS
  <2>20. PICK t : t = Emitted(u, bytes)
    OBVIOUS
  <2>21. /\ ~(u.data_pos + 2 > MaxSectionSize)
         /\ sections' = [sections EXCEPT ![current_section] = t]
         /\ meant' = Append(meant, [sect |-> current_section, use |-> Len(u.mask), word |-> w])
    BY <2>1, <2>3, <2>14, <2>17, <2>18, <2>19, <2>20, Zenon
  <2>22. Len(bytes) = 2 /\ bytes[1] = id % 256 /\ bytes[2] = id \div 256
    BY <2>19
  <2>23. /\ IsSection(t) /\ Grows(u, t) /\ t.data_pos = at + 2
         /\ t.labels = u.labels /\ t.mask = u.mask
         /\ \A k \in 1 .. 2 : at + k - 1 \in DOMAIN t.bytes /\ t.bytes[at + k - 1] = bytes[k]
    <3>1. Len(bytes) \in Nat
      BY <2>22
    <3>2. /\ IsSection(t) /\ Grows(u, t) /\ t.data_pos = u.data_pos + Len(bytes)
          /\ t.labels = u.labels /\ t.mask = u.mask
          /\ \A k \in 1 .. Len(bytes) :
               u.data_pos + k - 1 \in DOMAIN t.bytes /\ t.bytes[u.data_pos + k - 1] = bytes[k]
      <4>1. IsSection(u)
        BY <2>15
      <4>2. QED BY <2>20, <3>1, <4>1, EmittedFields
    <3>3. QED BY <2>16, <2>22, <3>2
  <2>24. /\ at \in DOMAIN t.bytes /\ at + 1 \in DOMAIN t.bytes
         /\ t.bytes[at] = id % 256 /\ t.bytes[at + 1] = id \div 256
    <3>1. at + 1 - 1 = at /\ at + 2 - 1 = at + 1
      BY <2>10
    <3>2. QED BY <2>22, <2>23, <3>1
  <2>25. Put(t)
    BY <2>1, <2>21 DEF Put
  <2>26. Labelled(t)
    <3>1. Grows(r, t)
      <4>1. r.data_pos = at /\ u.data_pos = at /\ r.data_pos <= u.data_pos
        BY <2>10, <2>15, <2>16
      <4>2. QED BY <2>10, <2>15, <2>23, <4>1, GrowsOn
    <3>2. LabelsStay(r, t) /\ r.data_pos = Current.data_pos
      BY <2>7, <2>15, <2>23 DEF LabelsStay, OnlyLabels
    <3>3. QED BY <2>2, <2>6, <2>23, <3>1, <3>2, StaysLabelled
  <2>27. at % WordSize = at
    <3>1. PICK size \in Nat : size = WordSize /\ size > 1
      BY WordSizeIsPositive
    <3>2. at < size
      BY <2>10, <2>16, <2>21, <3>1, SizeAssumption
    <3>3. at % size = at
      BY <3>1, <3>2
    <3>4. QED BY <3>1, <3>3
  <2>28. id = t.bytes[at] + 256 * t.bytes[at + 1]
    BY <2>24, BytesOfWord
  <2>29. Shape'
    BY <2>6, <2>23, <2>25, PutShape
  <2>30. UsePut(w)
    <3>1. i \in DOMAIN t.labels /\ t.labels[i].name = UsedName(w)
          /\ t.labels[i].id = t.bytes[at] + 256 * t.bytes[at + 1]
      BY <2>3, <2>17, <2>18, <2>23, <2>28
    <3>2. t.mask[Len(Current.mask) + 1] =
            [addr |-> at, offset |-> calculate_offset_sum(w.terms) % WordSize]
      BY <2>9, <2>11, <2>15, <2>16, <2>23, <2>27, Zenon
    <3>3. DOMAIN t.mask = 1 .. Len(Current.mask) + 1 /\ Len(u.mask) = Len(Current.mask) + 1
      BY <2>15, <2>16, <2>23
    <3>4. meant' = Append(meant, [sect |-> current_section, use |-> Len(Current.mask) + 1, word |-> w])
      BY <2>21, <3>3
    <3>5. QED BY <2>1, <2>8, <2>10, <2>23, <2>24, <2>25, <2>26, <2>29, <3>1, <3>2, <3>3, <3>4,
                 Zenon DEF UsePut
  <2>31. MovedBy(2)
    BY <2>10, <2>23, <2>25, PutMoves
  <2>32. Counted(2)
    BY <2>1, <2>31 DEF Counted
  <2>33. QED BY <2>30, <2>32
<1>3. QED BY <1>1, <1>2

-------------------------------------------------------------------------------
\* The invariant every theorem needs.

Item == [sect : Nat, at : Nat, length : Int]

Items == items \in Seq(Item) /\ \A k \in DOMAIN items : items[k].sect \in DOMAIN sections

TypeInv == Shape /\ Words /\ Counter /\ Items

\* What a step may be.
Step ==
  \/ Kept /\ (Quiet \/ Begun \/ Counted(1) \/ Counted(2))
  \/ Selected
  \/ Quiet /\ LabelPut
  \/ Counted(2) /\ \E w : UsePut(w)

\* Every step of the assembler is of one of the kinds.
LEMMA StepKinds ==
  ASSUME TypeInv, [Next]_vars
  PROVE  Step
<1>1. Shape /\ Words /\ Counter /\ items \in Seq([sect : Nat, at : Nat, length : Int])
  BY DEF TypeInv, Items, Item
<1>2. CASE Comment \/ Refuse \/ EndOfSource \/ WriteFile \/ Finished
  BY <1>1, <1>2, RestStep DEF Step
<1>3. CASE PositionLabel
  BY <1>1, <1>3, PositionStep DEF Step
<1>4. CASE UseLabel
  BY <1>1, <1>4, UseStep DEF Step
<1>5. CASE CharLiteral \/ NumberLiteral
  BY <1>1, <1>5, LiteralStep DEF Step
<1>6. CASE Expect
  BY <1>1, <1>6, ExpectStep DEF Step
<1>7. CASE Move
  BY <1>1, <1>7, MoveStep DEF Step
<1>8. CASE Ascii
  BY <1>1, <1>8, AsciiStep DEF Step
<1>9. CASE Section
  BY <1>1, <1>9, SectionStep DEF Step
<1>10. CASE Export
  BY <1>1, <1>10, ExportStep DEF Step
<1>11. CASE Import
  BY <1>1, <1>11, ImportStep DEF Step
<1>12. CASE PlainInstruction \/ InstructionWithArgument \/ Jump
  BY <1>1, <1>12, InstructionStep DEF Step
<1>13. CASE UNCHANGED vars
  BY <1>1, <1>13, RestKeeps DEF Step, vars, operands, history
<1>14. QED
  BY <1>2, <1>3, <1>4, <1>5, <1>6, <1>7, <1>8, <1>9, <1>10, <1>11, <1>12, <1>13 DEF Next

\* Selecting keeps the shape, and every section that was there.
LEMMA SelectedShape ==
  ASSUME Shape, Selected
  PROVE  Shape' /\ DOMAIN sections \subseteq DOMAIN sections'
<1>1. PICK name \in DOMAIN Truncated : select_section(name)
  BY DEF Selected
<1>2. current_label_id' = current_label_id
  BY DEF Selected
<1>3. Len(sections) \in Nat /\ DOMAIN sections = 1 .. Len(sections)
  BY SequenceParts DEF Shape
<1>4. QED BY <1>1, <1>2, <1>3, SelectedSections

\* So does every step.
LEMMA StepShape ==
  ASSUME TypeInv, Step
  PROVE  Shape' /\ DOMAIN sections \subseteq DOMAIN sections'
<1>1. Shape
  BY DEF TypeInv
<1>2. CASE Kept /\ (Quiet \/ Begun \/ Counted(1) \/ Counted(2))
  BY <1>2 DEF Kept, Quiet, Begun, BegunWith, Counted, MovedBy
<1>3. CASE Selected
  BY <1>1, <1>3, SelectedShape
<1>4. CASE Quiet /\ LabelPut
  BY <1>4 DEF Quiet, LabelPut, MovedBy
<1>5. CASE Counted(2) /\ \E w : UsePut(w)
  BY <1>5 DEF Counted, UsePut, MovedBy
<1>6. QED BY <1>2, <1>3, <1>4, <1>5 DEF Step

\* An item that begins.
LEMMA BegunItem ==
  ASSUME TypeInv, Begun, current_section # 0
  PROVE  \E e \in Item :
           /\ e.sect = current_section /\ e.at = Current.data_pos
           /\ items' = Append(items, e)
           /\ \E n \in 0 .. 3, z \in 0 .. 2 :
                /\ expect_arg_n' = n /\ expect_arg_size' = z /\ (z = 2 => n <= 1)
                /\ MovedBy(e.length - n * z)
<1>1. PICK n \in 0 .. 3, z \in 0 .. 2, length \in Int : BegunWith(n, z, length)
  BY DEF Begun
<1>2. current_section \in Nat /\ Current.data_pos \in Nat
  <2>1. Shape
    BY DEF TypeInv
  <2>2. IsSection(Current) /\ Len(sections) \in Nat
    BY <2>1, CurrentIsSection, SequenceParts DEF Shape
  <2>3. QED BY <2>1, <2>2 DEF IsSection, Shape
<1>3. PICK e : e = [sect |-> current_section, at |-> Current.data_pos, length |-> length]
  OBVIOUS
<1>4. e \in Item /\ e.sect = current_section /\ e.at = Current.data_pos /\ e.length = length
  BY <1>2, <1>3 DEF Item
<1>5. items' = Append(items, e)
  BY <1>1, <1>3 DEF BegunWith
<1>6. /\ expect_arg_n' = n /\ expect_arg_size' = z /\ (z = 2 => n <= 1)
      /\ MovedBy(e.length - n * z)
  BY <1>1, <1>4 DEF BegunWith
<1>7. QED BY <1>4, <1>5, <1>6

\* The items are always sections, places and lengths.
LEMMA StepItems ==
  ASSUME TypeInv, Step
  PROVE  Items'
<1>1. items \in Seq(Item) /\ \A k \in DOMAIN items : items[k].sect \in DOMAIN sections
  BY DEF TypeInv, Items
<1>2. DOMAIN sections \subseteq DOMAIN sections'
  BY StepShape
<1>3. CASE items' = items
  BY <1>1, <1>2, <1>3 DEF Items
<1>4. CASE Begun /\ current_section # 0
  <2>1. PICK e \in Item : e.sect = current_section /\ items' = Append(items, e)
    BY <1>4, BegunItem
  <2>2. items' \in Seq(Item)
    BY <1>1, <2>1
  <2>3. current_section \in DOMAIN sections
    BY <1>4, CurrentIsSection DEF TypeInv
  <2>4. ASSUME NEW k \in DOMAIN items' PROVE items'[k].sect \in DOMAIN sections'
    <3>1. IsSequence(items)
      BY <1>1 DEF IsSequence
    <3>2. /\ Len(items) \in Nat /\ DOMAIN items = 1 .. Len(items)
          /\ DOMAIN items' = 1 .. Len(items) + 1
          /\ items'[Len(items) + 1] = e /\ \A j \in DOMAIN items : items'[j] = items[j]
      BY <2>1, <3>1, SequenceParts, SequenceExtended
    <3>3. k \in DOMAIN items \/ k = Len(items) + 1
      BY <3>2
    <3>4. QED BY <1>1, <1>2, <2>1, <2>3, <3>2, <3>3
  <2>5. QED BY <2>2, <2>4 DEF Items
<1>5. QED
  <2>1. Step => items' = items \/ Begun
    BY DEF Step, Quiet, Counted, Selected
  <2>2. Begun /\ current_section = 0 => items' = items
    BY DEF Begun, BegunWith
  <2>3. QED BY <1>3, <1>4, <2>1, <2>2

\* The counter of operands stays in its byte, their size up to 2.
LEMMA StepCounter ==
  ASSUME TypeInv, Step
  PROVE  Counter'
<1>1. expect_arg_n \in -128 .. 127 /\ expect_arg_size \in 0 .. 2
  BY DEF TypeInv, Counter
<1>2. CASE Quiet \/ Selected
  BY <1>1, <1>2 DEF Quiet, Selected, Counter
<1>3. CASE Begun
  BY <1>3 DEF Begun, BegunWith, Counter
<1>4. CASE Counted(1) \/ Counted(2)
  BY <1>1, <1>4 DEF Counted, Decremented, Counter
<1>5. QED BY <1>2, <1>3, <1>4 DEF Step

\* A word that is put back is one of the vocabulary.
LEMMA StepWords ==
  ASSUME Words, [Next]_vars
  PROVE  Words'
<1>1. Argument \subseteq Vocabulary \union {End}
  BY DEF Argument, get_next_token
<1>2. CASE Jump
  <2>1. PICK a \in Argument : ungot' = IF gen_jmp_code(a) = 0 THEN {a} ELSE {}
    BY <1>2, Zenon DEF Jump
  <2>2. QED BY <1>1, <2>1 DEF Words
<1>3. CASE UNCHANGED ungot
  BY <1>3 DEF Words
<1>4. CASE ungot' = {}
  BY <1>4 DEF Words
<1>5. WriteFile \/ Finished \/ UNCHANGED vars => UNCHANGED ungot
  BY DEF WriteFile, Finished, vars
<1>6. /\ Comment \/ PositionLabel \/ UseLabel \/ CharLiteral \/ NumberLiteral => ungot' = {}
      /\ Expect \/ Ascii \/ Refuse \/ PlainInstruction \/ EndOfSource => ungot' = {}
  BY DEF Comment, PositionLabel, UseLabel, CharLiteral, NumberLiteral, Expect, Ascii, Refuse,
         PlainInstruction, EndOfSource, Alone
<1>7. Move \/ Section \/ Export \/ Import \/ InstructionWithArgument => ungot' = {}
  BY DEF Move, Section, Export, Import, InstructionWithArgument
<1>8. QED BY <1>2, <1>3, <1>4, <1>5, <1>6, <1>7 DEF Next

\* The type invariant is inductive.
LEMMA TypeStep ==
  ASSUME TypeInv, [Next]_vars
  PROVE  TypeInv'
<1>1. Step
  BY StepKinds
<1>2. Words
  BY DEF TypeInv
<1>3. QED BY <1>1, <1>2, StepShape, StepItems, StepCounter, StepWords DEF TypeInv

\* It holds at the start.
LEMMA TypeInit ==
  ASSUME Init
  PROVE  TypeInv
<1>1. IsSequence(sections) /\ DOMAIN sections = {} /\ Len(sections) = 0
  BY DEF Init, IsSequence
<1>2. Shape
  BY <1>1, ZeroIsWord DEF Init, Shape
<1>3. QED BY <1>2 DEF Init, TypeInv, Words, Counter, Items

\* The variables have their types.
THEOREM TypesKept == Spec => []TypeInv
<1>1. Init => TypeInv
  BY TypeInit
<1>2. TypeInv /\ [Next]_vars => TypeInv'
  BY TypeStep
<1>3. QED BY <1>1, <1>2, PTL DEF Spec


\* Put of a grown section lets all sections grow.
LEMMA PutGrows ==
  ASSUME Shape, NEW t, Put(t), Grows(Current, t)
  PROVE  \A s \in DOMAIN sections : Grows(sections[s], sections'[s])
<1>1. /\ current_section \in DOMAIN sections
      /\ sections'[current_section] = t
      /\ \A s \in DOMAIN sections : s # current_section => sections'[s] = sections[s]
  BY PutSections
<1>2. ASSUME NEW s \in DOMAIN sections PROVE Grows(sections[s], sections'[s])
  <2>1. CASE s = current_section
    BY <1>1, <2>1 DEF Current
  <2>2. CASE s # current_section
    BY <1>1, <2>2 DEF Grows
  <2>3. QED BY <2>1, <2>2
<1>3. QED BY <1>2

\* A section that is selected was there, or it is new, empty and the last one.
NewLast ==
  \E name \in DOMAIN Truncated :
    /\ \A s \in DOMAIN sections : sections[s].name # name
    /\ current_section' = Len(sections) + 1
    /\ DOMAIN sections' = 1 .. Len(sections) + 1
    /\ \A s \in DOMAIN sections : sections'[s] = sections[s]
    /\ sections'[Len(sections) + 1] = NewSection(name)

\* Selecting changes no section that is there.
LEMMA SelectedKinds ==
  ASSUME Shape, Selected
  PROVE  /\ current_section' # 0
         /\ \/ sections' = sections /\ current_section' \in DOMAIN sections
            \/ NewLast
<1>1. PICK name \in DOMAIN Truncated : select_section(name)
  BY DEF Selected
<1>2. current_label_id' = current_label_id
  BY DEF Selected
<1>3. /\ current_section' # 0
      /\ \/ sections' = sections /\ current_section' \in DOMAIN sections
         \/ /\ \A s \in DOMAIN sections : sections[s].name # name
            /\ current_section' = Len(sections) + 1
            /\ DOMAIN sections' = 1 .. Len(sections) + 1
            /\ \A s \in DOMAIN sections : sections'[s] = sections[s]
            /\ sections'[Len(sections) + 1] = NewSection(name)
  BY <1>1, <1>2, SelectedSections
<1>4. QED BY <1>3, Zenon DEF NewLast

\* Whatever the step, the sections grow.
LEMMA StepGrows ==
  ASSUME TypeInv, Step
  PROVE  \A s \in DOMAIN sections : s \in DOMAIN sections' /\ Grows(sections[s], sections'[s])
<1>1. Shape
  BY DEF TypeInv
<1>2. DOMAIN sections \subseteq DOMAIN sections'
  BY StepShape
<1>3. CASE Kept
  BY <1>2, <1>3 DEF Kept, SectionsKept
<1>4. CASE Selected
  <2>1. \A s \in DOMAIN sections : sections'[s] = sections[s]
    BY <1>1, <1>4, SelectedKinds DEF NewLast
  <2>2. QED BY <1>2, <2>1 DEF Grows
<1>5. CASE LabelPut
  BY <1>1, <1>2, <1>5, PutGrows DEF LabelPut, Labelled
<1>6. CASE \E w : UsePut(w)
  BY <1>1, <1>2, <1>6, PutGrows DEF UsePut, Labelled
<1>7. QED BY <1>3, <1>4, <1>5, <1>6 DEF Step
-------------------------------------------------------------------------------
\* Sections are found again.

\* A new section is empty and has the truncated name.
LEMMA NewSectionParts ==
  ASSUME NEW name
  PROVE  /\ NewSection(name).name = Truncated[name] /\ NewSection(name).data_pos = 0
         /\ NewSection(name).labels = <<>> /\ NewSection(name).mask = <<>>
BY DEF NewSection

\* A section is made under a name only if none has it.
LEMMA NamesStep ==
  ASSUME TypeInv, OneSectionPerName, [Next]_vars
  PROVE  OneSectionPerName'
<1>1. Step /\ Shape
  BY StepKinds DEF TypeInv
<1>2. \A s \in DOMAIN sections : s \in DOMAIN sections' /\ sections'[s].name = sections[s].name
  BY <1>1, StepGrows DEF Grows
<1>3. CASE DOMAIN sections' = DOMAIN sections
  BY <1>2, <1>3 DEF OneSectionPerName
<1>4. CASE NewLast
  <2>1. PICK name \in DOMAIN Truncated :
          /\ \A s \in DOMAIN sections : sections[s].name # name
          /\ DOMAIN sections' = 1 .. Len(sections) + 1
          /\ sections'[Len(sections) + 1] = NewSection(name)
    BY <1>4 DEF NewLast
  <2>2. sections'[Len(sections) + 1].name = Truncated[name]
    BY <2>1, NewSectionParts
  <2>3. \A s \in DOMAIN sections' : s \in DOMAIN sections \/ s = Len(sections) + 1
    <3>1. Len(sections) \in Nat /\ DOMAIN sections = 1 .. Len(sections)
      BY <1>1, SequenceParts DEF Shape
    <3>2. QED BY <2>1, <3>1
  <2>4. \A s \in DOMAIN sections :
          sections[s].name = Truncated[name] =>
            ~ \A other \in DOMAIN Truncated :
                Truncated[other] = sections[s].name => Truncated[other] = other
    BY <2>1
  <2>5. QED BY <1>2, <2>2, <2>3, <2>4 DEF OneSectionPerName
<1>5. DOMAIN sections' = DOMAIN sections \/ NewLast
  <2>1. Selected => DOMAIN sections' = DOMAIN sections \/ NewLast
    BY <1>1, SelectedKinds
  <2>2. QED BY <1>1, <2>1 DEF Step, Quiet, Begun, BegunWith, Counted, MovedBy
<1>6. QED BY <1>3, <1>4, <1>5

\* A .section directive finds the section of that name when there is one: no two
\* sections come to have a name that is kept as it was written.
THEOREM SectionsFoundAgain == Spec => []OneSectionPerName
<1>1. Init => OneSectionPerName
  BY DEF Init, OneSectionPerName
<1>2. TypeInv /\ OneSectionPerName /\ [Next]_vars => OneSectionPerName'
  BY NamesStep
<1>3. QED BY <1>1, <1>2, TypesKept, PTL DEF Spec
-------------------------------------------------------------------------------
\* Every item gets the bytes it takes.

\* The end of the items before one is an integer.
LEMMA EndIsInteger ==
  ASSUME items \in Seq(Item), NEW s, NEW k \in 1 .. Len(items) + 1
  PROVE  EndBefore(s, k) \in Int
<1>1. CASE Previous(s, k) = {}
  BY <1>1 DEF EndBefore
<1>2. CASE Previous(s, k) # {}
  <2>1. PICK j : j = (CHOOSE i \in Previous(s, k) : TRUE) /\ j \in Previous(s, k)
    BY <1>2
  <2>2. j \in 1 .. Len(items)
    BY <2>1 DEF Previous
  <2>3. items[j] \in Item
    BY <2>2, ElementOfSeq
  <2>4. EndBefore(s, k) = items[j].at + items[j].length
    BY <1>2, <2>1, Zenon DEF EndBefore
  <2>5. QED BY <2>3, <2>4 DEF Item
<1>3. QED BY <1>1, <1>2

\* The same of any items, to compare those before a step with those after it.
PreviousIn(q, s, k) ==
  {j \in 1 .. k - 1 : q[j].sect = s /\ \A i \in j + 1 .. k - 1 : q[i].sect # s}

LastEnd(q, P) ==
  LET last == q[CHOOSE j \in P : TRUE]
  IN  IF P = {} THEN 0 ELSE last.at + last.length

EndIn(q, s, k) == LastEnd(q, PreviousIn(q, s, k))

SameUpTo(u, q, n) == \A j \in 1 .. n : u[j] = q[j]

\* What stands before an item does not depend on what is appended; the appended item is
\* then the last of its section and of no other.
LEMMA PreviousExtended ==
  ASSUME NEW q, NEW u, NEW n \in Nat, NEW s, SameUpTo(u, q, n)
  PROVE  /\ \A k \in 1 .. n + 1 : PreviousIn(u, s, k) = PreviousIn(q, s, k)
         /\ u[n + 1].sect = s => PreviousIn(u, s, n + 2) = {n + 1}
         /\ u[n + 1].sect # s => PreviousIn(u, s, n + 2) = PreviousIn(u, s, n + 1)
<1>1. ASSUME NEW k \in 1 .. n + 1 PROVE PreviousIn(u, s, k) = PreviousIn(q, s, k)
  <2>1. \A j \in 1 .. k - 1 : u[j] = q[j]
    BY DEF SameUpTo
  <2>2. QED BY <2>1 DEF PreviousIn
<1>2. (n + 2) - 1 = n + 1 /\ (n + 1) - 1 = n
  OBVIOUS
<1>3. ASSUME u[n + 1].sect = s PROVE PreviousIn(u, s, n + 2) = {n + 1}
  <2>1. ASSUME NEW j \in PreviousIn(u, s, n + 2) PROVE j = n + 1
    <3>1. j \in 1 .. n + 1 /\ \A i \in j + 1 .. n + 1 : u[i].sect # s
      BY <1>2 DEF PreviousIn
    <3>2. n + 1 \notin j + 1 .. n + 1
      BY <1>3, <3>1
    <3>3. QED BY <3>1, <3>2
  <2>2. n + 1 \in PreviousIn(u, s, n + 2)
    <3>1. n + 1 \in 1 .. n + 1 /\ (n + 1) + 1 .. n + 1 = {}
      OBVIOUS
    <3>2. QED BY <1>2, <1>3, <3>1 DEF PreviousIn
  <2>3. QED BY <2>1, <2>2
<1>4. ASSUME u[n + 1].sect # s PROVE PreviousIn(u, s, n + 2) = PreviousIn(u, s, n + 1)
  <2>1. ASSUME NEW j \in PreviousIn(u, s, n + 2) PROVE j \in PreviousIn(u, s, n + 1)
    <3>1. j \in 1 .. n + 1 /\ u[j].sect = s /\ \A i \in j + 1 .. n + 1 : u[i].sect # s
      BY <1>2 DEF PreviousIn
    <3>2. j \in 1 .. n
      BY <1>4, <3>1
    <3>3. \A i \in j + 1 .. n : u[i].sect # s
      BY <3>1
    <3>4. QED BY <1>2, <3>1, <3>2, <3>3 DEF PreviousIn
  <2>2. ASSUME NEW j \in PreviousIn(u, s, n + 1) PROVE j \in PreviousIn(u, s, n + 2)
    <3>1. j \in 1 .. n /\ u[j].sect = s /\ \A i \in j + 1 .. n : u[i].sect # s
      BY <1>2 DEF PreviousIn
    <3>2. ASSUME NEW i \in j + 1 .. n + 1 PROVE u[i].sect # s
      <4>1. i \in j + 1 .. n \/ i = n + 1
        BY <3>1
      <4>2. QED BY <1>4, <3>1, <4>1
    <3>3. j \in 1 .. n + 1
      BY <3>1
    <3>4. QED BY <1>2, <3>1, <3>2, <3>3 DEF PreviousIn
  <2>3. QED BY <2>1, <2>2
<1>5. QED BY <1>1, <1>3, <1>4

\* Ends of items under appending, from what stands before them.
LEMMA EndExtended ==
  ASSUME NEW q, NEW u, NEW n \in Nat, SameUpTo(u, q, n)
  PROVE  /\ \A s : \A k \in 1 .. n + 1 : EndIn(u, s, k) = EndIn(q, s, k)
         /\ EndIn(u, u[n + 1].sect, n + 2) = u[n + 1].at + u[n + 1].length
         /\ \A s : s # u[n + 1].sect => EndIn(u, s, n + 2) = EndIn(q, s, n + 1)
<1>1. ASSUME NEW s, NEW k \in 1 .. n + 1 PROVE EndIn(u, s, k) = EndIn(q, s, k)
  <2>0. PreviousIn(u, s, k) = PreviousIn(q, s, k)
    BY PreviousExtended
  <2>1. PICK P : P = PreviousIn(q, s, k) /\ PreviousIn(u, s, k) = P
    BY <2>0
  <2>2. CASE P = {}
    BY <2>1, <2>2 DEF EndIn, LastEnd
  <2>3. CASE P # {}
    <3>1. PICK j \in P : j = CHOOSE i \in P : TRUE
      BY <2>3
    <3>2. u[j] = q[j]
      BY <2>1 DEF PreviousIn, SameUpTo
    <3>3. EndIn(u, s, k) = u[j].at + u[j].length /\ EndIn(q, s, k) = q[j].at + q[j].length
      BY <2>1, <2>3, <3>1, Zenon DEF EndIn, LastEnd
    <3>4. QED BY <3>2, <3>3
  <2>4. QED BY <2>2, <2>3
<1>2. EndIn(u, u[n + 1].sect, n + 2) = u[n + 1].at + u[n + 1].length
  <2>0. PICK s : s = u[n + 1].sect
    OBVIOUS
  <2>1. PICK P : P = PreviousIn(u, s, n + 2) /\ P = {n + 1}
    BY <2>0, PreviousExtended
  <2>2. (CHOOSE i \in P : TRUE) = n + 1 /\ P # {}
    BY <2>1
  <2>3. EndIn(u, s, n + 2) = u[n + 1].at + u[n + 1].length
    BY <2>1, <2>2, Zenon DEF EndIn, LastEnd
  <2>4. QED BY <2>0, <2>3
<1>3. ASSUME NEW s, s # u[n + 1].sect PROVE EndIn(u, s, n + 2) = EndIn(q, s, n + 1)
  <2>1. PreviousIn(u, s, n + 2) = PreviousIn(u, s, n + 1)
    BY <1>3, PreviousExtended
  <2>2. EndIn(u, s, n + 2) = EndIn(u, s, n + 1)
    <3>1. PICK a, b : a = n + 2 /\ b = n + 1
      OBVIOUS
    <3>2. PreviousIn(u, s, a) = PreviousIn(u, s, b)
      BY <2>1, <3>1
    <3>3. EndIn(u, s, a) = EndIn(u, s, b)
      BY <3>2, Zenon DEF EndIn
    <3>4. QED BY <3>1, <3>3
  <2>3. n + 1 \in 1 .. n + 1
    OBVIOUS
  <2>4. QED BY <1>1, <2>2, <2>3
<1>4. QED BY <1>1, <1>2, <1>3

\* EndBefore is EndIn of the items, now and after the step.
LEMMA EndIs ==
  /\ \A s, k : EndBefore(s, k) = EndIn(items, s, k)
  /\ \A s, k : EndBefore(s, k)' = EndIn(items', s, k)
<1>1. \A s, k : EndBefore(s, k) = EndIn(items, s, k)
  BY Zenon DEF EndBefore, EndIn, LastEnd, Previous, PreviousIn
<1>2. \A s, k : EndBefore(s, k)' = EndIn(items', s, k)
  BY Zenon DEF EndBefore, EndIn, LastEnd, Previous, PreviousIn
<1>3. QED BY <1>1, <1>2

\* What an item more is before and after the step that begins it.
LEMMA EndAfter ==
  ASSUME items \in Seq(Item), NEW e \in Item, items' = Append(items, e),
         NEW n \in Nat, n = Len(items)
  PROVE  /\ \A s : \A k \in 1 .. n + 1 : EndBefore(s, k)' = EndBefore(s, k)
         /\ EndBefore(e.sect, n + 2)' = e.at + e.length
         /\ \A s : s # e.sect => EndBefore(s, n + 2)' = EndBefore(s, n + 1)
         /\ DOMAIN items' = 1 .. n + 1 /\ Len(items') = n + 1
         /\ items'[n + 1] = e /\ \A k \in 1 .. n : items'[k] = items[k]
<1>1. IsSequence(items)
  BY DEF IsSequence
<1>2. PICK u : u = items'
  OBVIOUS
<1>3. /\ u[n + 1] = e /\ \A j \in 1 .. n : u[j] = items[j]
      /\ DOMAIN u = 1 .. n + 1 /\ Len(u) = n + 1
  BY <1>1, <1>2, SequenceParts, SequenceExtended
<1>4. /\ \A s : \A k \in 1 .. n + 1 : EndIn(u, s, k) = EndIn(items, s, k)
      /\ \A s : s # u[n + 1].sect => EndIn(u, s, n + 2) = EndIn(items, s, n + 1)
      /\ EndIn(u, u[n + 1].sect, n + 2) = u[n + 1].at + u[n + 1].length
  <2>1. PICK q : q = items
    OBVIOUS
  <2>2. SameUpTo(u, q, n)
    BY <1>3, <2>1 DEF SameUpTo
  <2>3. /\ \A s : \A k \in 1 .. n + 1 : EndIn(u, s, k) = EndIn(q, s, k)
        /\ EndIn(u, u[n + 1].sect, n + 2) = u[n + 1].at + u[n + 1].length
        /\ \A s : s # u[n + 1].sect => EndIn(u, s, n + 2) = EndIn(q, s, n + 1)
    BY <2>2, EndExtended
  <2>4. QED BY <2>1, <2>3
<1>5. \A s, k : EndBefore(s, k) = EndIn(items, s, k) /\ EndBefore(s, k)' = EndIn(u, s, k)
  BY <1>2, EndIs
<1>6. EndIn(u, e.sect, n + 2) = e.at + e.length
  BY <1>3, <1>4
<1>7. PICK k1, k2 : k1 = n + 1 /\ k2 = n + 2
  OBVIOUS
<1>8. /\ \A s : \A k \in 1 .. n + 1 : EndBefore(s, k)' = EndBefore(s, k)
      /\ EndBefore(e.sect, n + 2)' = e.at + e.length
      /\ \A s : s # e.sect => EndBefore(s, n + 2)' = EndBefore(s, n + 1)
  BY <1>3, <1>4, <1>5, <1>6
<1>9. QED BY <1>2, <1>3, <1>8


\* How far the end of a section is from where its last item ends.
Gap(s) == sections[s].data_pos - EndBefore(s, Len(items) + 1)

Closed(d) == d = 0 \/ d >= 256

\* The counter of operands is n, for operands of that size, d bytes behind the end of the
\* last item: r operands are missing or, below zero, there are so many too many, and the
\* counter keeps r modulo 256.
Owes(n, size, d) ==
  \E r \in Int :
    /\ r <= 3 /\ (n - r) % 256 = 0
    /\ r >= 0 => d = -(r * size)
    /\ r < 0 => d >= -r
    /\ size = 2 => r <= 1

AllCame == phase \in {"write", "done"} => expect_arg_n = 0

ItemsClosed == \A k \in DOMAIN items : Closed(items[k].at - EndBefore(items[k].sect, k))

OthersClosed == \A s \in DOMAIN sections : s # current_section => Closed(Gap(s))

CurrentOwes ==
  current_section # 0 => Owes(expect_arg_n, expect_arg_size, Gap(current_section))

ExactInv == AllCame /\ ItemsClosed /\ OthersClosed /\ CurrentOwes

\* The counter says that nothing is missing.
LEMMA NothingOwed ==
  ASSUME NEW size \in 0 .. 2, NEW d \in Int
  PROVE  Owes(0, size, d) <=> Closed(d)
<1>1. ASSUME Owes(0, size, d) PROVE Closed(d)
  <2>1. PICK r \in Int : /\ r <= 3 /\ (0 - r) % 256 = 0
                         /\ r >= 0 => d = -(r * size)
                         /\ r < 0 => d >= -r
    BY <1>1 DEF Owes
  <2>2. r = 0 \/ r <= -256
    BY <2>1
  <2>3. CASE r = 0
    <3>1. r * size = 0
      BY <2>3
    <3>2. QED BY <2>1, <2>3, <3>1 DEF Closed
  <2>4. CASE r <= -256
    BY <2>1, <2>4 DEF Closed
  <2>5. QED BY <2>2, <2>3, <2>4
<1>2. ASSUME Closed(d) PROVE Owes(0, size, d)
  <2>1. CASE d = 0
    <3>1. PICK r \in Int : r = 0
      OBVIOUS
    <3>2. r * size = 0
      BY <3>1
    <3>3. r <= 3 /\ (0 - r) % 256 = 0 /\ (r >= 0 => d = -(r * size)) /\ (r < 0 => d >= -r)
          /\ (size = 2 => r <= 1)
      BY <2>1, <3>1, <3>2
    <3>4. QED BY <3>3 DEF Owes
  <2>2. CASE d >= 256
    <3>1. PICK r \in Int : r = -256
      OBVIOUS
    <3>3. r <= 3 /\ (0 - r) % 256 = 0 /\ (r >= 0 => d = -(r * size)) /\ (r < 0 => d >= -r)
          /\ (size = 2 => r <= 1)
      BY <2>2, <3>1
    <3>4. QED BY <3>3 DEF Owes
  <2>3. QED BY <1>2, <2>1, <2>2 DEF Closed
<1>3. QED BY <1>1, <1>2

\* An item has begun, and none of its operands is there.
LEMMA OwesAll ==
  ASSUME NEW n \in 0 .. 3, NEW size \in 0 .. 2, size = 2 => n <= 1
  PROVE  Owes(n, size, -(n * size))
<1>1. n \in Int /\ n <= 3 /\ (n - n) % 256 = 0 /\ ~(n < 0)
  OBVIOUS
<1>2. QED BY <1>1 DEF Owes

\* One operand more is there; the size may be forgotten after a word.
LEMMA OwesCounted ==
  ASSUME NEW n \in -128 .. 127, NEW size \in {1, 2}, NEW after \in 0 .. 2, NEW d \in Int,
         after = size \/ (size = 2 /\ after = 0), Owes(n, size, d)
  PROVE  Owes(Decremented(n), after, d + size)
<1>1. PICK r \in Int : /\ r <= 3 /\ (n - r) % 256 = 0
                       /\ r >= 0 => d = -(r * size)
                       /\ r < 0 => d >= -r
                       /\ size = 2 => r <= 1
  BY DEF Owes
<1>2. PICK m \in Int : m = r - 1
  OBVIOUS
<1>3. m <= 3 /\ (size = 2 => m <= 0)
  BY <1>1, <1>2
<1>4. (Decremented(n) - m) % 256 = 0
  BY <1>1, <1>2 DEF Decremented
<1>5. m >= 0 => d + size = -(m * after)
  <2>1. CASE size = 1
    BY <1>1, <1>2, <2>1
  <2>2. CASE size = 2
    BY <1>1, <1>2, <2>2
  <2>3. QED BY <2>1, <2>2
<1>6. m < 0 => d + size >= -m
  <2>1. CASE r < 0
    BY <1>1, <1>2, <2>1
  <2>2. CASE r >= 0
    <3>1. m < 0 => r = 0
      BY <1>2, <2>2
    <3>2. r = 0 => r * size = 0
      OBVIOUS
    <3>3. QED BY <1>1, <1>2, <2>2, <3>1, <3>2
  <2>3. QED BY <2>1, <2>2
<1>7. QED BY <1>3, <1>4, <1>5, <1>6 DEF Owes

\* A gap is an integer.
LEMMA GapIsInteger ==
  ASSUME TypeInv, NEW s \in DOMAIN sections
  PROVE  Gap(s) \in Int
<1>1. items \in Seq(Item) /\ sections[s].data_pos \in Nat
  BY DEF TypeInv, Items, Shape, IsSection
<1>2. Len(items) + 1 \in 1 .. Len(items) + 1
  <2>1. Len(items) \in Nat
    BY <1>1, SequenceParts DEF IsSequence
  <2>2. QED BY <2>1
<1>3. EndBefore(s, Len(items) + 1) \in Int
  BY <1>1, <1>2, EndIsInteger
<1>4. QED BY <1>1, <1>3 DEF Gap

\* While no item begins, the gap is what the section moves.
LEMMA GapMoves ==
  ASSUME TypeInv, items' = items, NEW d \in Int, MovedBy(d), NEW s \in DOMAIN sections
  PROVE  Gap(s)' = Gap(s) + (IF s = current_section THEN d ELSE 0)
<1>1. PICK e \in Int : e = EndBefore(s, Len(items) + 1)
  <2>1. Len(items) \in Nat /\ items \in Seq(Item)
    BY SequenceParts DEF IsSequence, TypeInv, Items
  <2>2. QED BY <2>1, EndIsInteger
<1>2. EndBefore(s, Len(items) + 1)' = e
  BY <1>1 DEF EndBefore, Previous
<1>3. sections[s].data_pos \in Nat
  BY DEF TypeInv, Shape, IsSection
<1>4. sections'[s].data_pos = sections[s].data_pos + (IF s = current_section THEN d ELSE 0)
  BY DEF MovedBy
<1>5. Gap(s) = sections[s].data_pos - e /\ Gap(s)' = sections'[s].data_pos - e
  BY <1>1, <1>2 DEF Gap
<1>6. QED BY <1>3, <1>4, <1>5

\* The items are where the ones before them end, when none begins.
LEMMA ItemsStay ==
  ASSUME ExactInv, items' = items
  PROVE  ItemsClosed'
<1>1. \A s, k : EndBefore(s, k)' = EndBefore(s, k)
  BY DEF EndBefore, Previous
<1>2. ASSUME NEW k \in DOMAIN items'
      PROVE  Closed(items'[k].at - EndBefore(items[k].sect, k)')
  BY <1>1 DEF ExactInv, ItemsClosed
<1>3. QED BY <1>2 DEF ItemsClosed

\* A quiet step leaves items, gaps and counter alone.
LEMMA ExactQuiet ==
  ASSUME TypeInv, ExactInv, Quiet
  PROVE  ExactInv'
<1>1. \A s \in DOMAIN sections : Gap(s)' = Gap(s)
  <2>1. items' = items /\ MovedBy(0)
    BY DEF Quiet
  <2>2. QED BY <2>1, GapMoves, GapIsInteger
<1>2. DOMAIN sections' = DOMAIN sections /\ items' = items
  BY DEF Quiet, MovedBy
<1>3. /\ current_section' = current_section /\ expect_arg_n' = expect_arg_n
      /\ expect_arg_size' = expect_arg_size
      /\ phase' \in {"write", "done"} => expect_arg_n' = 0
  BY DEF Quiet, ExactInv, AllCame
<1>4. current_section' # 0 => Owes(expect_arg_n', expect_arg_size', Gap(current_section)')
  <2>1. current_section # 0 => current_section \in DOMAIN sections
    BY CurrentIsSection DEF TypeInv
  <2>2. QED BY <1>1, <1>3, <2>1 DEF ExactInv, CurrentOwes
<1>5. \A s \in DOMAIN sections' : s # current_section' => Closed(Gap(s)')
  BY <1>1, <1>2, <1>3 DEF ExactInv, OthersClosed
<1>6. AllCame' /\ OthersClosed' /\ CurrentOwes'
  BY <1>3, <1>4, <1>5 DEF AllCame, OthersClosed, CurrentOwes
<1>7. QED BY <1>2, <1>6, ItemsStay DEF ExactInv

\* A counted operand takes from the counter what it adds to the gap.
LEMMA ExactCounted ==
  ASSUME TypeInv, ExactInv, NEW size \in {1, 2}, Counted(size)
  PROVE  ExactInv'
<1>1. \A s \in DOMAIN sections : Gap(s)' = Gap(s) + (IF s = current_section THEN size ELSE 0)
  <2>1. items' = items /\ MovedBy(size)
    BY DEF Counted
  <2>2. QED BY <2>1, GapMoves
<1>2. DOMAIN sections' = DOMAIN sections /\ items' = items /\ phase' = "assemble"
  BY DEF Counted, MovedBy
<1>3. current_section \in DOMAIN sections /\ current_section' = current_section
  BY CurrentIsSection DEF Counted, TypeInv
<1>4. PICK d \in Int : d = Gap(current_section)
  BY <1>3, GapIsInteger
<1>5. Owes(expect_arg_n', expect_arg_size', d + size)
  <2>1. /\ expect_arg_size = size /\ expect_arg_n' = Decremented(expect_arg_n)
        /\ expect_arg_size' = size \/ (size = 2 /\ expect_arg_size' = 0)
    BY DEF Counted
  <2>2. expect_arg_n \in -128 .. 127 /\ expect_arg_size' \in 0 .. 2
    BY <2>1 DEF TypeInv, Counter
  <2>3. Owes(expect_arg_n, size, d)
    BY <1>3, <1>4, <2>1 DEF ExactInv, CurrentOwes, Counted
  <2>4. QED BY <2>1, <2>2, <2>3, OwesCounted
<1>6. Gap(current_section)' = d + size
  BY <1>1, <1>3, <1>4
<1>7. \A s \in DOMAIN sections' : s # current_section' => Closed(Gap(s)')
  <2>1. ASSUME NEW s \in DOMAIN sections, s # current_section PROVE Closed(Gap(s)')
    <3>1. Gap(s) \in Int /\ Closed(Gap(s))
      BY <2>1, GapIsInteger DEF ExactInv, OthersClosed
    <3>2. QED BY <1>1, <2>1, <3>1
  <2>2. QED BY <1>2, <1>3, <2>1
<1>8. current_section' # 0 => Owes(expect_arg_n', expect_arg_size', Gap(current_section)')
  BY <1>5, <1>6
<1>9. AllCame' /\ OthersClosed' /\ CurrentOwes'
  BY <1>2, <1>7, <1>8 DEF AllCame, OthersClosed, CurrentOwes
<1>10. QED BY <1>2, <1>9, ItemsStay DEF ExactInv

\* Gap in terms of EndIn, now and after the step.
LEMMA GapIs ==
  /\ \A s : Gap(s) = sections[s].data_pos - EndIn(items, s, Len(items) + 1)
  /\ \A s : Gap(s)' = sections'[s].data_pos - EndIn(items', s, Len(items') + 1)
  /\ Gap(current_section)' =
       sections'[current_section'].data_pos - EndIn(items', current_section', Len(items') + 1)
<1>1. \A s : Gap(s) = sections[s].data_pos - EndIn(items, s, Len(items) + 1)
  BY Zenon DEF Gap, EndBefore, EndIn, LastEnd, Previous, PreviousIn
<1>2. \A s : Gap(s)' = sections'[s].data_pos - EndIn(items', s, Len(items') + 1)
  BY Zenon DEF Gap, EndBefore, EndIn, LastEnd, Previous, PreviousIn
<1>3. Gap(current_section)' =
        sections'[current_section'].data_pos - EndIn(items', current_section', Len(items') + 1)
  BY Zenon DEF Gap, EndBefore, EndIn, LastEnd, Previous, PreviousIn
<1>4. QED BY <1>1, <1>2, <1>3

\* No item lies in a section that is not there yet.
LEMMA NothingBefore ==
  ASSUME TypeInv, NEW s, s \notin DOMAIN sections
  PROVE  EndBefore(s, Len(items) + 1) = 0
<1>1. Len(items) \in Nat /\ DOMAIN items = 1 .. Len(items)
  BY SequenceParts DEF IsSequence, TypeInv, Items
<1>2. \A j \in 1 .. Len(items) : items[j].sect # s
  BY <1>1 DEF TypeInv, Items
<1>3. Previous(s, Len(items) + 1) = {}
  BY <1>1, <1>2 DEF Previous
<1>4. QED BY <1>3 DEF EndBefore

\* Selecting leaves one section with nothing owed for another with a closed gap.
LEMMA ExactSelected ==
  ASSUME TypeInv, ExactInv, Selected
  PROVE  ExactInv'
<1>1. Shape /\ items' = items /\ expect_arg_n = 0 /\ expect_arg_n' = 0
      /\ expect_arg_size' = expect_arg_size /\ expect_arg_size \in 0 .. 2
      /\ phase' = "assemble"
  BY DEF TypeInv, Selected, Counter
<1>2. \A s : EndBefore(s, Len(items) + 1)' = EndBefore(s, Len(items) + 1)
  BY <1>1 DEF EndBefore, Previous
<1>3. \A s \in DOMAIN sections : Closed(Gap(s))
  <2>1. ASSUME NEW s \in DOMAIN sections, s = current_section PROVE Closed(Gap(s))
    <3>1. 0 \notin DOMAIN sections
      BY <1>1, SequenceParts DEF Shape
    <3>2. Owes(0, expect_arg_size, Gap(s)) /\ Gap(s) \in Int
      BY <1>1, <2>1, <3>1, GapIsInteger DEF ExactInv, CurrentOwes
    <3>3. QED BY <1>1, <3>2, NothingOwed
  <2>2. QED BY <2>1 DEF ExactInv, OthersClosed
<1>4. /\ current_section' # 0
      /\ \/ sections' = sections /\ current_section' \in DOMAIN sections
         \/ NewLast
  BY <1>1, SelectedKinds
<1>5. current_section' \in DOMAIN sections'
      /\ \A s \in DOMAIN sections' : Gap(s)' \in Int /\ Closed(Gap(s)')
  <2>1. CASE sections' = sections /\ current_section' \in DOMAIN sections
    <3>1. \A s \in DOMAIN sections : Gap(s)' = Gap(s)
      BY <1>2, <2>1 DEF Gap
    <3>2. QED BY <1>3, <2>1, <3>1, GapIsInteger
  <2>2. CASE NewLast
    <3>1. PICK name \in DOMAIN Truncated :
            /\ current_section' = Len(sections) + 1
            /\ DOMAIN sections' = 1 .. Len(sections) + 1
            /\ \A s \in DOMAIN sections : sections'[s] = sections[s]
            /\ sections'[Len(sections) + 1] = NewSection(name)
      BY <2>2 DEF NewLast
    <3>2. Len(sections) \in Nat /\ DOMAIN sections = 1 .. Len(sections)
      BY <1>1, SequenceParts DEF Shape
    <3>3. ASSUME NEW s \in DOMAIN sections PROVE Gap(s)' \in Int /\ Closed(Gap(s)')
      <4>1. Gap(s)' = Gap(s)
        BY <1>2, <3>1 DEF Gap
      <4>2. QED BY <1>3, <4>1, GapIsInteger
    <3>4. ASSUME NEW s, s = Len(sections) + 1 PROVE Gap(s)' = 0
      <4>1. EndBefore(s, Len(items) + 1) = 0
        BY <3>2, <3>4, NothingBefore
      <4>2. sections'[s].data_pos = 0
        BY <3>1, <3>4, NewSectionParts
      <4>3. QED BY <1>2, <4>1, <4>2 DEF Gap
    <3>5. \A s \in DOMAIN sections' : s \in DOMAIN sections \/ s = Len(sections) + 1
      BY <3>1, <3>2
    <3>6. Closed(0)
      BY DEF Closed
    <3>7. QED BY <3>1, <3>2, <3>3, <3>4, <3>5, <3>6
  <2>3. QED BY <1>4, <2>1, <2>2
<1>6. Owes(expect_arg_n', expect_arg_size', Gap(current_section)')
  <2>1. PICK s \in DOMAIN sections' : s = current_section'
    BY <1>5
  <2>2. PICK d \in Int : d = Gap(current_section)' /\ Closed(d)
    BY <1>5, <2>1, GapIs
  <2>3. QED BY <1>1, <2>2, NothingOwed
<1>7. AllCame' /\ OthersClosed' /\ CurrentOwes'
  BY <1>1, <1>5, <1>6 DEF AllCame, OthersClosed, CurrentOwes
<1>8. QED BY <1>1, <1>7, ItemsStay DEF ExactInv

\* A new item begins where the last one of its section ends, for nothing is owed.
LEMMA ExactBegun ==
  ASSUME TypeInv, ExactInv, Begun
  PROVE  ExactInv'
<1>1. /\ expect_arg_n = 0 /\ phase' = "assemble" /\ current_section' = current_section
      /\ DOMAIN sections' = DOMAIN sections
  BY DEF Begun, BegunWith, MovedBy
<1>2. CASE current_section = 0
  <2>1. items' = items
    BY <1>2 DEF Begun, BegunWith
  <2>2. PICK d \in Int : MovedBy(d)
    BY DEF Begun, BegunWith
  <2>3. 0 \notin DOMAIN sections
    BY SequenceParts DEF TypeInv, Shape
  <2>4. \A s \in DOMAIN sections : Gap(s)' = Gap(s)
    BY <1>2, <2>1, <2>2, <2>3, GapMoves, GapIsInteger
  <2>5. AllCame' /\ OthersClosed' /\ CurrentOwes'
    BY <1>1, <1>2, <2>4 DEF ExactInv, AllCame, OthersClosed, CurrentOwes
  <2>6. QED BY <2>1, <2>5, ItemsStay DEF ExactInv
<1>3. CASE current_section # 0
  <2>1. PICK e \in Item :
          /\ e.sect = current_section /\ e.at = Current.data_pos
          /\ items' = Append(items, e)
          /\ \E n \in 0 .. 3, z \in 0 .. 2 :
               /\ expect_arg_n' = n /\ expect_arg_size' = z /\ (z = 2 => n <= 1)
               /\ MovedBy(e.length - n * z)
    BY <1>3, BegunItem
  <2>2. PICK n \in 0 .. 3, z \in 0 .. 2 :
          /\ expect_arg_n' = n /\ expect_arg_size' = z /\ (z = 2 => n <= 1)
          /\ MovedBy(e.length - n * z)
    BY <2>1
  <2>3. items \in Seq(Item) /\ Shape
    BY DEF TypeInv, Items
  <2>4. PICK m \in Nat : m = Len(items) /\ DOMAIN items = 1 .. m
    BY <2>3, SequenceParts DEF IsSequence
  <2>5. /\ \A s : \A k \in 1 .. m + 1 : EndBefore(s, k)' = EndBefore(s, k)
        /\ EndBefore(e.sect, m + 2)' = e.at + e.length
        /\ \A s : s # e.sect => EndBefore(s, m + 2)' = EndBefore(s, m + 1)
        /\ DOMAIN items' = 1 .. m + 1 /\ Len(items') = m + 1
        /\ items'[m + 1] = e /\ \A k \in 1 .. m : items'[k] = items[k]
    BY <2>1, <2>3, <2>4, EndAfter
  <2>6. /\ \A s : Gap(s)' = sections'[s].data_pos - EndBefore(s, m + 2)'
        /\ \A s : Gap(s) = sections[s].data_pos - EndBefore(s, m + 1)
    <3>1. Len(items') + 1 = m + 2
      BY <2>5
    <3>2. \A s : Gap(s)' = sections'[s].data_pos - EndIn(items', s, m + 2)
      BY <3>1, GapIs
    <3>3. \A s : Gap(s) = sections[s].data_pos - EndIn(items, s, m + 1)
      BY <2>4, GapIs
    <3>4. QED BY <3>2, <3>3, EndIs
  <2>7. current_section \in DOMAIN sections /\ Current.data_pos \in Nat
    BY <1>3, <2>3, CurrentIsSection DEF IsSection
  <2>8. \A s \in DOMAIN sections : s # current_section => Gap(s)' = Gap(s)
    <3>1. ASSUME NEW s \in DOMAIN sections, s # current_section PROVE Gap(s)' = Gap(s)
      <4>1. sections'[s].data_pos = sections[s].data_pos
        <5>1. sections[s].data_pos \in Nat
          BY <2>3 DEF Shape, IsSection
        <5>2. QED BY <2>2, <3>1, <5>1 DEF MovedBy
      <4>2. EndBefore(s, m + 2)' = EndBefore(s, m + 1)
        BY <2>1, <2>5, <3>1
      <4>3. QED BY <2>6, <4>1, <4>2
    <3>2. QED BY <3>1
  <2>9. Gap(current_section)' = -(n * z)
    <3>1. sections'[current_section].data_pos = Current.data_pos + (e.length - n * z)
      BY <2>2, <2>7 DEF MovedBy, Current
    <3>2. EndBefore(current_section, m + 2)' = Current.data_pos + e.length
      BY <1>1, <2>1, <2>5
    <3>3. n * z \in Int /\ e.length \in Int
      BY DEF Item
    <3>4. Gap(current_section)' = sections'[current_section].data_pos - EndBefore(current_section, m + 2)'
      BY <1>1, <2>6
    <3>5. QED BY <2>7, <3>1, <3>2, <3>3, <3>4
  <2>10. CurrentOwes'
    BY <2>2, <2>9, OwesAll DEF CurrentOwes
  <2>11. OthersClosed' /\ AllCame'
    BY <1>1, <2>8 DEF ExactInv, OthersClosed, AllCame
  <2>12. ItemsClosed'
    <3>1. ASSUME NEW k \in 1 .. m PROVE Closed(items'[k].at - EndBefore(items[k].sect, k)')
      BY <2>4, <2>5 DEF ExactInv, ItemsClosed
    <3>2. Closed(e.at - EndBefore(e.sect, m + 1)')
      <4>1. Owes(0, expect_arg_size, Gap(current_section)) /\ expect_arg_size \in 0 .. 2
        BY <1>1, <1>3 DEF ExactInv, CurrentOwes, TypeInv, Counter
      <4>2. Closed(Gap(current_section))
        BY <2>7, <4>1, GapIsInteger, NothingOwed
      <4>3. Gap(current_section) = e.at - EndBefore(e.sect, m + 1)
        BY <2>1, <2>6 DEF Current
      <4>4. EndBefore(e.sect, m + 1)' = EndBefore(e.sect, m + 1)
        BY <2>5
      <4>5. QED BY <4>2, <4>3, <4>4
    <3>3. \A k \in DOMAIN items' : k \in 1 .. m \/ k = m + 1
      BY <2>5
    <3>4. \A k \in 1 .. m : items'[k].sect = items[k].sect
      BY <2>5
    <3>5. ASSUME NEW k \in DOMAIN items' PROVE Closed(items'[k].at - EndBefore(items[k].sect, k)')
      <4>1. CASE k \in 1 .. m
        BY <3>1, <3>4, <4>1
      <4>2. CASE k = m + 1
        BY <2>5, <3>2, <4>2
      <4>3. QED BY <3>3, <4>1, <4>2
    <3>6. QED BY <3>5 DEF ItemsClosed
  <2>13. QED BY <2>10, <2>11, <2>12 DEF ExactInv
<1>4. QED BY <1>2, <1>3

\* The items lie one behind the other and fill their sections, for any source.
THEOREM AcceptedSourcesAreExact == Spec => []AcceptedIsExact
<1>1. Init => ExactInv
  <2>1. Init => DOMAIN items = {} /\ DOMAIN sections = {}
    BY DEF Init
  <2>2. QED BY <2>1 DEF Init, ExactInv, AllCame, ItemsClosed, OthersClosed, CurrentOwes
<1>2. TypeInv /\ ExactInv /\ [Next]_vars => ExactInv'
  <2> SUFFICES ASSUME TypeInv, ExactInv, [Next]_vars PROVE ExactInv'
    OBVIOUS
  <2>1. Step
    BY StepKinds
  <2>2. Quiet \/ Begun \/ Counted(1) \/ Counted(2) \/ Selected
    BY <2>1 DEF Step
  <2>3. QED BY <2>2, ExactQuiet, ExactBegun, ExactCounted, ExactSelected
<1>3. TypeInv /\ ExactInv => AcceptedIsExact
  <2> SUFFICES ASSUME TypeInv, ExactInv, phase \in {"write", "done"} PROVE AcceptedIsExact
    BY DEF AcceptedIsExact
  <2>1. ASSUME NEW k \in DOMAIN items PROVE Meets(items[k].at, items[k].sect, k)
    <3>1. items \in Seq(Item) /\ items[k] \in Item /\ k \in 1 .. Len(items) + 1
      <4>1. items \in Seq(Item) /\ DOMAIN items = 1 .. Len(items) /\ Len(items) \in Nat
        BY SequenceParts DEF IsSequence, TypeInv, Items
      <4>2. QED BY <4>1, ElementOfSeq
    <3>2. EndBefore(items[k].sect, k) \in Int /\ items[k].at \in Int
      BY <3>1, EndIsInteger DEF Item
    <3>3. Closed(items[k].at - EndBefore(items[k].sect, k))
      BY DEF ExactInv, ItemsClosed
    <3>4. QED BY <3>2, <3>3 DEF Meets, Closed
  <2>2. ASSUME NEW s \in DOMAIN sections PROVE Meets(sections[s].data_pos, s, Len(items) + 1)
    <3>1. Closed(Gap(s))
      <4>1. CASE s # current_section
        BY <4>1 DEF ExactInv, OthersClosed
      <4>2. CASE s = current_section
        <5>1. s # 0
          BY SequenceParts DEF TypeInv, Shape
        <5>2. Owes(0, expect_arg_size, Gap(s)) /\ expect_arg_size \in 0 .. 2
          BY <4>2, <5>1 DEF ExactInv, AllCame, CurrentOwes, TypeInv, Counter
        <5>3. QED BY <5>2, GapIsInteger, NothingOwed
      <4>3. QED BY <4>1, <4>2
    <3>2. EndBefore(s, Len(items) + 1) \in Int /\ sections[s].data_pos \in Int
      <4>1. items \in Seq(Item) /\ Len(items) \in Nat
        BY SequenceParts DEF IsSequence, TypeInv, Items
      <4>2. QED BY <4>1, EndIsInteger DEF TypeInv, Shape, IsSection
    <3>3. QED BY <3>1, <3>2 DEF Meets, Closed, Gap
  <2>3. QED BY <2>1, <2>2 DEF AcceptedIsExact
<1>4. QED BY <1>1, <1>2, <1>3, TypesKept, PTL DEF Spec

-------------------------------------------------------------------------------
\* Uses of labels are resolved.

\* The bytes at the place of a use are there, and they stay.
Placed(s, m) ==
  /\ m.addr \in Nat /\ m.addr + 1 < s.data_pos
  /\ m.addr \in DOMAIN s.bytes /\ m.addr + 1 \in DOMAIN s.bytes

\* A label of the section has the id that lies there.
IdAt(s, m) == s.bytes[m.addr] + 256 * s.bytes[m.addr + 1]

Resolves(s, m) == \E i \in DOMAIN s.labels : s.labels[i].id = IdAt(s, m)

\* It is the label of the word w.
Means(s, m, w) ==
  /\ IsTerms(w.terms) /\ m.offset = calculate_offset_sum(w.terms) % WordSize
  /\ \E i \in DOMAIN s.labels :
       s.labels[i].name = UsedName(w) /\ s.labels[i].id = IdAt(s, m)

\* What grows keeps what a use means.
LEMMA UseStays ==
  ASSUME NEW s, NEW t, Grows(s, t), s.data_pos \in Nat, t.data_pos \in Nat,
         s.data_pos <= t.data_pos, NEW m, Placed(s, m)
  PROVE  /\ Placed(t, m) /\ IdAt(t, m) = IdAt(s, m)
         /\ Resolves(s, m) => Resolves(t, m)
         /\ \A w : Means(s, m, w) => Means(t, m, w)
<1>1. m.addr \in Nat /\ m.addr + 1 \in Nat /\ m.addr < s.data_pos /\ m.addr + 1 < s.data_pos
  BY DEF Placed
<1>2. /\ m.addr \in DOMAIN t.bytes /\ t.bytes[m.addr] = s.bytes[m.addr]
      /\ m.addr + 1 \in DOMAIN t.bytes /\ t.bytes[m.addr + 1] = s.bytes[m.addr + 1]
  BY <1>1 DEF Placed, Grows
<1>3. Placed(t, m) /\ IdAt(t, m) = IdAt(s, m)
  BY <1>1, <1>2 DEF Placed, IdAt
<1>4. \A i \in DOMAIN s.labels :
        /\ i \in DOMAIN t.labels
        /\ t.labels[i].name = s.labels[i].name /\ t.labels[i].id = s.labels[i].id
  BY DEF Grows
<1>5. QED BY <1>3, <1>4 DEF Resolves, Means

\* Whatever the step, no position falls as long as nothing is moved back.
LEMMA StepOnward ==
  ASSUME TypeInv, Step
  PROVE  Onward /\ (NeverBack' => NeverBack)
<1>1. Shape /\ \A s \in DOMAIN sections : sections[s].data_pos \in Nat
  BY DEF TypeInv, Shape, IsSection
<1>2. Onward
  <2>1. CASE Kept
    BY <2>1 DEF Kept
  <2>2. CASE Selected
    <3>1. \A s \in DOMAIN sections : sections'[s] = sections[s]
      BY <1>1, <2>2, SelectedKinds DEF NewLast
    <3>2. QED BY <1>1, <3>1 DEF Onward
  <2>3. CASE Quiet
    BY <1>1, <2>3, MovesOnward DEF Quiet
  <2>4. CASE Counted(2)
    BY <1>1, <2>4, MovesOnward DEF Counted
  <2>5. QED BY <2>1, <2>2, <2>3, <2>4 DEF Step
<1>3. NeverBack' => NeverBack
  <2>1. CASE items' = items
    BY <2>1 DEF NeverBack
  <2>2. CASE Begun /\ current_section # 0
    <3>1. PICK e \in Item : items' = Append(items, e)
      BY <2>2, BegunItem
    <3>2. IsSequence(items)
      BY DEF TypeInv, Items, IsSequence
    <3>3. DOMAIN items \subseteq DOMAIN items' /\ \A k \in DOMAIN items : items'[k] = items[k]
      BY <3>1, <3>2, SequenceParts, SequenceExtended
    <3>4. QED BY <3>3 DEF NeverBack
  <2>3. Step => items' = items \/ Begun
    BY DEF Step, Quiet, Counted, Selected
  <2>4. Begun /\ current_section = 0 => items' = items
    BY DEF Begun, BegunWith
  <2>5. QED BY <2>1, <2>2, <2>3, <2>4
<1>4. QED BY <1>2, <1>3

\* At every use lies the id of a label.
MasksInv ==
  NeverBack => \A s \in DOMAIN sections : \A k \in DOMAIN sections[s].mask :
                 Placed(sections[s], sections[s].mask[k]) /\ Resolves(sections[s], sections[s].mask[k])

\* It is the label that was written there.
MeantInv ==
  /\ IsSequence(meant)
  /\ \A k \in DOMAIN meant :
       /\ meant[k].sect \in DOMAIN sections
       /\ meant[k].use \in DOMAIN sections[meant[k].sect].mask
       /\ NeverBack =>
            Means(sections[meant[k].sect], sections[meant[k].sect].mask[meant[k].use], meant[k].word)

\* What is known of a use that was there before a step.
LEMMA UsesStay ==
  ASSUME TypeInv, Step, MasksInv, NEW s \in DOMAIN sections, NEW k \in DOMAIN sections[s].mask
  PROVE  /\ s \in DOMAIN sections' /\ k \in DOMAIN sections'[s].mask
         /\ sections'[s].mask[k] = sections[s].mask[k]
         /\ NeverBack' =>
              /\ NeverBack
              /\ Placed(sections'[s], sections'[s].mask[k])
              /\ Resolves(sections'[s], sections'[s].mask[k])
              /\ \A w : Means(sections[s], sections[s].mask[k], w) =>
                        Means(sections'[s], sections'[s].mask[k], w)
<1>1. s \in DOMAIN sections' /\ Grows(sections[s], sections'[s])
  BY StepGrows
<1>2. k \in DOMAIN sections'[s].mask /\ sections'[s].mask[k] = sections[s].mask[k]
  BY <1>1 DEF Grows
<1>3. ASSUME NeverBack'
      PROVE  /\ NeverBack
             /\ Placed(sections'[s], sections'[s].mask[k])
             /\ Resolves(sections'[s], sections'[s].mask[k])
             /\ \A w : Means(sections[s], sections[s].mask[k], w) =>
                       Means(sections'[s], sections'[s].mask[k], w)
  <2>1. NeverBack /\ sections[s].data_pos <= sections'[s].data_pos
    BY <1>3, StepOnward DEF Onward
  <2>2. PICK m : m = sections[s].mask[k]
    OBVIOUS
  <2>3. Placed(sections[s], m) /\ Resolves(sections[s], m)
    BY <2>1, <2>2 DEF MasksInv
  <2>4. sections[s].data_pos \in Nat /\ sections'[s].data_pos \in Nat
    BY <1>1, StepShape DEF TypeInv, Shape, IsSection
  <2>5. /\ Placed(sections'[s], m) /\ Resolves(sections'[s], m)
        /\ \A w : Means(sections[s], m, w) => Means(sections'[s], m, w)
    BY <1>1, <2>1, <2>3, <2>4, UseStays
  <2>6. QED BY <1>2, <2>1, <2>2, <2>5
<1>4. QED BY <1>1, <1>2, <1>3

\* A new use has its place, its id and its label.
LEMMA NewUse ==
  ASSUME Shape, NEW w, UsePut(w), NEW k, k = Len(Current.mask) + 1
  PROVE  /\ current_section \in DOMAIN sections /\ DOMAIN sections' = DOMAIN sections
         /\ DOMAIN sections'[current_section].mask = 1 .. k
         /\ \A s \in DOMAIN sections : s # current_section => sections'[s] = sections[s]
         /\ Placed(sections'[current_section], sections'[current_section].mask[k])
         /\ Resolves(sections'[current_section], sections'[current_section].mask[k])
         /\ Means(sections'[current_section], sections'[current_section].mask[k], w)
         /\ meant' = Append(meant, [sect |-> current_section, use |-> k, word |-> w])
<1>1. PICK t, at, n :
        /\ at = Current.data_pos /\ n = Len(Current.mask) + 1
        /\ Put(t) /\ t.data_pos = at + 2
        /\ DOMAIN t.mask = 1 .. n
        /\ t.mask[n] = [addr |-> at, offset |-> calculate_offset_sum(w.terms) % WordSize]
        /\ at \in DOMAIN t.bytes /\ at + 1 \in DOMAIN t.bytes
        /\ \E i \in DOMAIN t.labels :
             /\ t.labels[i].name = UsedName(w)
             /\ t.labels[i].id = t.bytes[at] + 256 * t.bytes[at + 1]
        /\ meant' = Append(meant, [sect |-> current_section, use |-> n, word |-> w])
  BY Zenon DEF UsePut
<1>2. n = k /\ IsTerms(w.terms)
  BY <1>1, Zenon DEF UsePut
<1>3. /\ current_section \in DOMAIN sections /\ DOMAIN sections' = DOMAIN sections
      /\ sections'[current_section] = t
      /\ \A s \in DOMAIN sections : s # current_section => sections'[s] = sections[s]
  BY <1>1, PutSections
<1>4. at \in Nat
  BY <1>1, <1>3 DEF Shape, IsSection, Current
<1>5. PICK offset : offset = calculate_offset_sum(w.terms) % WordSize
  OBVIOUS
<1>6. PICK m : m = t.mask[k] /\ m.addr = at /\ m.offset = offset
  BY <1>1, <1>2, <1>5
<1>7. Placed(t, m)
  BY <1>1, <1>4, <1>6 DEF Placed
<1>8. IdAt(t, m) = t.bytes[at] + 256 * t.bytes[at + 1]
  BY <1>6 DEF IdAt
<1>9. Means(t, m, w) /\ Resolves(t, m)
  BY <1>1, <1>2, <1>5, <1>6, <1>8, Zenon DEF Means, Resolves
<1>10. QED BY <1>1, <1>2, <1>3, <1>6, <1>7, <1>9

\* A use after a step was there before, or it is the one the step adds.
LEMMA MaskKinds ==
  ASSUME TypeInv, Step, NEW s \in DOMAIN sections', NEW k \in DOMAIN sections'[s].mask
  PROVE  \/ s \in DOMAIN sections /\ k \in DOMAIN sections[s].mask
         \/ \E w : UsePut(w) /\ s = current_section /\ k = Len(Current.mask) + 1
<1>1. Shape /\ Shape' /\ Len(sections) \in Nat /\ DOMAIN sections = 1 .. Len(sections)
  BY StepShape, SequenceParts DEF TypeInv, Shape
<1>2. CASE Kept /\ (Quiet \/ Begun \/ Counted(1) \/ Counted(2))
  <2>1. DOMAIN sections' = DOMAIN sections
    BY <1>2 DEF Quiet, Begun, BegunWith, Counted, MovedBy
  <2>2. QED BY <1>2, <2>1 DEF Kept, SectionsKept
<1>3. CASE Selected
  <2>1. CASE sections' = sections
    BY <2>1
  <2>2. CASE NewLast
    <3>1. PICK name \in DOMAIN Truncated :
            /\ DOMAIN sections' = 1 .. Len(sections) + 1
            /\ \A j \in DOMAIN sections : sections'[j] = sections[j]
            /\ sections'[Len(sections) + 1] = NewSection(name)
      BY <2>2 DEF NewLast
    <3>2. CASE s = Len(sections) + 1
      <4>1. sections'[s].mask = <<>>
        BY <3>1, <3>2, NewSectionParts
      <4>2. DOMAIN <<>> = {}
        OBVIOUS
      <4>3. QED BY <4>1, <4>2
    <3>3. s \in DOMAIN sections \/ s = Len(sections) + 1
      BY <1>1, <3>1
    <3>4. QED BY <3>1, <3>2, <3>3
  <2>3. QED BY <1>1, <1>3, <2>1, <2>2, SelectedKinds
<1>4. CASE LabelPut
  <2>1. PICK t : Put(t) /\ t.mask = Current.mask
    BY <1>4 DEF LabelPut
  <2>2. /\ current_section \in DOMAIN sections /\ DOMAIN sections' = DOMAIN sections
        /\ sections'[current_section] = t
        /\ \A j \in DOMAIN sections : j # current_section => sections'[j] = sections[j]
    BY <1>1, <2>1, PutSections
  <2>3. QED BY <2>1, <2>2 DEF Current
<1>5. CASE \E w : UsePut(w)
  <2>1. PICK w : UsePut(w)
    BY <1>5
  <2>2. PICK n : n = Len(Current.mask) + 1
    OBVIOUS
  <2>3. /\ current_section \in DOMAIN sections /\ DOMAIN sections' = DOMAIN sections
        /\ DOMAIN sections'[current_section].mask = 1 .. n
        /\ \A j \in DOMAIN sections : j # current_section => sections'[j] = sections[j]
    BY <1>1, <2>1, <2>2, NewUse
  <2>4. Len(Current.mask) \in Nat /\ DOMAIN Current.mask = 1 .. Len(Current.mask)
    <3>1. IsSequence(Current.mask)
      BY <1>1, <2>3 DEF Shape, IsSection, Current
    <3>2. QED BY <3>1, SequenceParts
  <2>5. CASE s # current_section
    BY <2>3, <2>5
  <2>6. CASE s = current_section
    <3>1. k \in 1 .. n
      BY <2>3, <2>6
    <3>2. k \in DOMAIN Current.mask \/ k = n
      BY <2>2, <2>4, <3>1
    <3>3. QED BY <2>1, <2>2, <2>3, <2>6, <3>2 DEF Current
  <2>7. QED BY <2>5, <2>6
<1>6. QED BY <1>2, <1>3, <1>4, <1>5 DEF Step

\* As long as nothing is moved back, every use stays where it was put and finds its
\* label.
LEMMA MasksStep ==
  ASSUME TypeInv, Step, MasksInv
  PROVE  MasksInv'
<1>1. ASSUME NeverBack', NEW s \in DOMAIN sections', NEW k \in DOMAIN sections'[s].mask
      PROVE  /\ Placed(sections'[s], sections'[s].mask[k])
             /\ Resolves(sections'[s], sections'[s].mask[k])
  <2>1. CASE s \in DOMAIN sections /\ k \in DOMAIN sections[s].mask
    BY <1>1, <2>1, UsesStay
  <2>2. CASE \E w : UsePut(w) /\ s = current_section /\ k = Len(Current.mask) + 1
    <3>1. Shape
      BY DEF TypeInv
    <3>2. QED BY <2>2, <3>1, NewUse
  <2>3. QED BY <2>1, <2>2, MaskKinds
<1>2. QED BY <1>1 DEF MasksInv

\* A use that is remembered keeps the meaning of its word.
LEMMA MeantStep ==
  ASSUME TypeInv, Step, MasksInv, MeantInv
  PROVE  MeantInv'
<1>1. ASSUME NEW k \in DOMAIN meant
      PROVE  /\ meant[k].sect \in DOMAIN sections'
             /\ meant[k].use \in DOMAIN sections'[meant[k].sect].mask
             /\ NeverBack' => Means(sections'[meant[k].sect],
                                    sections'[meant[k].sect].mask[meant[k].use], meant[k].word)
  <2>1. PICK s \in DOMAIN sections : s = meant[k].sect
    BY DEF MeantInv
  <2>2. PICK j \in DOMAIN sections[s].mask : j = meant[k].use
    BY <2>1 DEF MeantInv
  <2>3. NeverBack => Means(sections[s], sections[s].mask[j], meant[k].word)
    BY <2>1, <2>2 DEF MeantInv
  <2>4. QED BY <2>1, <2>2, <2>3, UsesStay
<1>2. CASE meant' = meant
  BY <1>1, <1>2 DEF MeantInv
<1>3. CASE \E w : UsePut(w)
  <2>1. PICK w : UsePut(w)
    BY <1>3
  <2>2. PICK n : n = Len(Current.mask) + 1
    OBVIOUS
  <2>3. PICK e : e = [sect |-> current_section, use |-> n, word |-> w]
    OBVIOUS
  <2>4. Shape
    BY DEF TypeInv
  <2>5. /\ current_section \in DOMAIN sections'
        /\ DOMAIN sections'[current_section].mask = 1 .. n
        /\ Means(sections'[current_section], sections'[current_section].mask[n], w)
        /\ meant' = Append(meant, e)
    BY <2>1, <2>2, <2>3, <2>4, NewUse
  <2>6. n \in DOMAIN sections'[current_section].mask
    <3>1. IsSequence(Current.mask)
      BY <2>1, <2>4, NewUse DEF Shape, IsSection, Current
    <3>2. Len(Current.mask) \in Nat
      BY <3>1, SequenceParts
    <3>3. QED BY <2>2, <2>5, <3>2
  <2>7. e.sect = current_section /\ e.use = n /\ e.word = w
    BY <2>3
  <2>8. /\ IsSequence(meant') /\ DOMAIN meant' = 1 .. Len(meant) + 1
        /\ meant'[Len(meant) + 1] = e /\ \A j \in DOMAIN meant : meant'[j] = meant[j]
        /\ Len(meant) \in Nat /\ DOMAIN meant = 1 .. Len(meant)
    BY <2>5, SequenceExtended, SequenceParts DEF MeantInv
  <2>9. \A k \in DOMAIN meant' : k \in DOMAIN meant \/ k = Len(meant) + 1
    BY <2>8
  <2>10. ASSUME NEW k \in DOMAIN meant'
         PROVE  /\ meant'[k].sect \in DOMAIN sections'
                /\ meant'[k].use \in DOMAIN sections'[meant'[k].sect].mask
                /\ NeverBack' => Means(sections'[meant'[k].sect],
                                       sections'[meant'[k].sect].mask[meant'[k].use], meant'[k].word)
    <3>1. CASE k \in DOMAIN meant
      BY <1>1, <2>8, <3>1
    <3>2. CASE k = Len(meant) + 1
      BY <2>5, <2>6, <2>7, <2>8, <3>2
    <3>3. QED BY <2>9, <3>1, <3>2
  <2>11. QED BY <2>8, <2>10 DEF MeantInv
<1>4. Step => meant' = meant \/ \E w : UsePut(w)
  BY DEF Step, Kept, Selected, LabelPut
<1>5. QED BY <1>2, <1>3, <1>4

\* No label is added, and the next id stays.
LabelsUntouched ==
  /\ current_label_id' = current_label_id
  /\ \A s \in DOMAIN sections : s \in DOMAIN sections' /\ LabelsStay(sections[s], sections'[s])
  /\ \A s \in DOMAIN sections' : s \in DOMAIN sections \/ sections'[s].labels = <<>>

\* One label is added to the current section, and it gets the next id.
LabelAdded ==
  /\ current_section \in DOMAIN sections /\ DOMAIN sections' = DOMAIN sections
  /\ \A s \in DOMAIN sections : s # current_section => sections'[s] = sections[s]
  /\ Len(sections'[current_section].labels) = Len(Current.labels) + 1
  /\ sections'[current_section].labels[Len(Current.labels) + 1].id = current_label_id
  /\ current_label_id' = (current_label_id + 1) % WordSize

\* A section that is Labelled has one label more, or none.
LEMMA PutLabels ==
  ASSUME Shape, NEW t, Put(t), Labelled(t)
  PROVE  LabelsUntouched \/ LabelAdded
<1>1. /\ current_section \in DOMAIN sections /\ DOMAIN sections' = DOMAIN sections
      /\ sections'[current_section] = t
      /\ \A s \in DOMAIN sections : s # current_section => sections'[s] = sections[s]
  BY PutSections
<1>2. CASE LabelsStay(Current, t) /\ current_label_id' = current_label_id
  <2>1. \A s \in DOMAIN sections : LabelsStay(sections[s], sections'[s])
    BY <1>1, <1>2 DEF LabelsStay, Current
  <2>2. QED BY <1>1, <1>2, <2>1 DEF LabelsUntouched
<1>3. CASE /\ Len(t.labels) = Len(Current.labels) + 1
           /\ t.labels[Len(Current.labels) + 1].id = current_label_id
           /\ current_label_id' = (current_label_id + 1) % WordSize
  BY <1>1, <1>3 DEF LabelAdded
<1>4. QED BY <1>2, <1>3 DEF Labelled

\* A step adds one label to one section, or none.
LEMMA LabelKinds ==
  ASSUME TypeInv, Step
  PROVE  LabelsUntouched \/ \E t : Put(t) /\ Labelled(t)
<1>1. Shape /\ Len(sections) \in Nat /\ DOMAIN sections = 1 .. Len(sections)
  BY SequenceParts DEF TypeInv, Shape
<1>2. CASE Kept /\ (Quiet \/ Begun \/ Counted(1) \/ Counted(2))
  <2>1. DOMAIN sections' = DOMAIN sections
    BY <1>2 DEF Quiet, Begun, BegunWith, Counted, MovedBy
  <2>2. QED BY <1>2, <2>1 DEF Kept, SectionsKept, LabelsUntouched
<1>3. CASE Selected
  <2>1. current_label_id' = current_label_id
    BY <1>3 DEF Selected
  <2>2. CASE sections' = sections
    BY <2>1, <2>2 DEF LabelsUntouched, LabelsStay
  <2>3. CASE NewLast
    <3>1. PICK name \in DOMAIN Truncated :
            /\ DOMAIN sections' = 1 .. Len(sections) + 1
            /\ \A j \in DOMAIN sections : sections'[j] = sections[j]
            /\ sections'[Len(sections) + 1] = NewSection(name)
      BY <2>3 DEF NewLast
    <3>2. sections'[Len(sections) + 1].labels = <<>>
      BY <3>1, NewSectionParts
    <3>3. /\ \A s \in DOMAIN sections' : s \in DOMAIN sections \/ s = Len(sections) + 1
          /\ \A s \in DOMAIN sections : s \in DOMAIN sections'
      BY <1>1, <3>1
    <3>4. QED BY <2>1, <3>1, <3>2, <3>3 DEF LabelsUntouched, LabelsStay
  <2>4. QED BY <1>1, <1>3, <2>2, <2>3, SelectedKinds
<1>4. CASE LabelPut
  BY <1>4 DEF LabelPut
<1>5. CASE \E w : UsePut(w)
  BY <1>5 DEF UsePut
<1>6. QED BY <1>2, <1>3, <1>4, <1>5 DEF Step

\* No section has two entries for a name.
NamesOnce == \A s \in DOMAIN sections : NoTwice(sections[s])

\* No section comes to have two entries of a name.
LEMMA NamesOnceStep ==
  ASSUME TypeInv, Step, NamesOnce
  PROVE  NamesOnce'
<1>1. Shape /\ Shape' /\ \A s \in DOMAIN sections : NoTwice(sections[s])
  BY StepShape DEF TypeInv, NamesOnce
<1>2. CASE LabelsUntouched
  <2>1. ASSUME NEW s \in DOMAIN sections' PROVE NoTwice(sections'[s])
    <3>1. CASE s \in DOMAIN sections
      <4>1. IsSection(sections[s]) /\ IsSection(sections'[s])
        BY <1>1, <3>1 DEF Shape
      <4>2. Grows(sections[s], sections'[s]) /\ LabelsStay(sections[s], sections'[s])
        BY <1>2, <3>1, StepGrows DEF LabelsUntouched
      <4>3. QED BY <1>1, <3>1, <4>1, <4>2, SameNames
    <3>2. CASE sections'[s].labels = <<>>
      <4>1. DOMAIN <<>> = {}
        OBVIOUS
      <4>2. QED BY <3>2, <4>1 DEF NoTwice
    <3>3. QED BY <1>2, <3>1, <3>2 DEF LabelsUntouched
  <2>2. QED BY <2>1 DEF NamesOnce
<1>3. CASE \E t : Put(t) /\ Labelled(t)
  <2>1. PICK t : Put(t) /\ Labelled(t)
    BY <1>3
  <2>2. /\ current_section \in DOMAIN sections /\ DOMAIN sections' = DOMAIN sections
        /\ sections'[current_section] = t
        /\ \A s \in DOMAIN sections : s # current_section => sections'[s] = sections[s]
    BY <1>1, <2>1, PutSections
  <2>3. NoTwice(t)
    BY <1>1, <2>1, <2>2 DEF Labelled, Current
  <2>4. QED BY <1>1, <2>2, <2>3 DEF NamesOnce
<1>4. QED BY <1>2, <1>3, LabelKinds

\* The id of an entry.
IdOf(e) == sections[e[1]].labels[e[2]].id

\* Ids are given in turn, and as long as they suffice no two labels have the same.
IdsInv ==
  /\ IsFiniteSet(LabelEntries)
  /\ IdsSuffice =>
       /\ current_label_id = Cardinality(LabelEntries) % WordSize
       /\ \A e \in LabelEntries : IdOf(e) < Cardinality(LabelEntries)
       /\ \A e, f \in LabelEntries : IdOf(e) = IdOf(f) => e = f

\* Membership in LabelEntries.
LEMMA EntriesAre ==
  /\ \A e : e \in LabelEntries <=>
              e[1] \in DOMAIN sections /\ e[2] \in DOMAIN sections[e[1]].labels /\ e = <<e[1], e[2]>>
  /\ \A s, i : <<s, i>> \in LabelEntries <=> s \in DOMAIN sections /\ i \in DOMAIN sections[s].labels
BY DEF LabelEntries

\* The same after the step.
LEMMA EntriesAfter ==
  /\ \A e : e \in LabelEntries' <=>
              e[1] \in DOMAIN sections' /\ e[2] \in DOMAIN sections'[e[1]].labels /\ e = <<e[1], e[2]>>
  /\ \A s, i : <<s, i>> \in LabelEntries' <=> s \in DOMAIN sections' /\ i \in DOMAIN sections'[s].labels
BY DEF LabelEntries

\* An entry keeps its id.
LEMMA IdsStay ==
  ASSUME TypeInv, Step, NEW e \in LabelEntries
  PROVE  e \in LabelEntries' /\ IdOf(e)' = IdOf(e) /\ IdOf(e) \in Nat
<1>1. /\ e[1] \in DOMAIN sections /\ e[2] \in DOMAIN sections[e[1]].labels
      /\ e = <<e[1], e[2]>>
  BY EntriesAre
<1>2. e[1] \in DOMAIN sections' /\ Grows(sections[e[1]], sections'[e[1]])
  BY <1>1, StepGrows
<1>3. e[2] \in DOMAIN sections'[e[1]].labels /\ IdOf(e)' = IdOf(e)
  BY <1>1, <1>2 DEF Grows, IdOf
<1>4. e \in LabelEntries'
  BY <1>1, <1>2, <1>3, EntriesAfter
<1>5. IdOf(e) \in Nat
  <2>1. IsLabel(sections[e[1]].labels[e[2]])
    BY <1>1 DEF TypeInv, Shape, IsSection
  <2>2. QED BY <2>1, WordSizeIsPositive DEF IsLabel, Word16, IdOf
<1>6. QED BY <1>3, <1>4, <1>5

\* When no label is added the entries are the same.
LEMMA EntriesUntouched ==
  ASSUME TypeInv, Step, LabelsUntouched
  PROVE  LabelEntries' = LabelEntries
<1>1. ASSUME NEW e \in LabelEntries' PROVE e \in LabelEntries
  <2>1. /\ e[1] \in DOMAIN sections' /\ e[2] \in DOMAIN sections'[e[1]].labels
        /\ e = <<e[1], e[2]>>
    BY EntriesAfter
  <2>2. sections'[e[1]].labels # <<>>
    BY <2>1
  <2>3. e[1] \in DOMAIN sections
    BY <2>1, <2>2 DEF LabelsUntouched
  <2>4. LabelsStay(sections[e[1]], sections'[e[1]])
    BY <2>3 DEF LabelsUntouched
  <2>5. IsSequence(sections[e[1]].labels) /\ IsSequence(sections'[e[1]].labels)
    BY <2>1, <2>3, StepShape DEF TypeInv, Shape, IsSection
  <2>6. DOMAIN sections'[e[1]].labels = DOMAIN sections[e[1]].labels
    BY <2>4, <2>5, SequenceParts DEF LabelsStay
  <2>7. QED BY <2>1, <2>3, <2>6, EntriesAre
<1>2. QED BY <1>1, IdsStay

\* A label that is added is one more entry, with the next id.
LEMMA EntryAdded ==
  ASSUME TypeInv, Step, LabelAdded
  PROVE  \E new : /\ new \notin LabelEntries
                  /\ LabelEntries' = LabelEntries \union {new}
                  /\ IdOf(new)' = current_label_id
<1>1. /\ current_section \in DOMAIN sections /\ DOMAIN sections' = DOMAIN sections
      /\ \A s \in DOMAIN sections : s # current_section => sections'[s] = sections[s]
      /\ Len(sections'[current_section].labels) = Len(Current.labels) + 1
      /\ sections'[current_section].labels[Len(Current.labels) + 1].id = current_label_id
  BY DEF LabelAdded
<1>2. IsSequence(Current.labels) /\ IsSequence(sections'[current_section].labels)
  BY <1>1, StepShape DEF TypeInv, Shape, IsSection, Current
<1>3. PICK n \in Nat : n = Len(Current.labels) /\ DOMAIN Current.labels = 1 .. n
  BY <1>2, SequenceParts
<1>4. DOMAIN sections'[current_section].labels = 1 .. n + 1
  BY <1>1, <1>2, <1>3, SequenceParts
<1>5. PICK new : new = <<current_section, n + 1>>
  OBVIOUS
<1>6. new \notin LabelEntries
  <2>1. n + 1 \notin DOMAIN sections[current_section].labels
    BY <1>3 DEF Current
  <2>2. QED BY <1>5, <2>1, EntriesAre
<1>7. new \in LabelEntries'
  <2>1. n + 1 \in DOMAIN sections'[current_section].labels
    BY <1>4
  <2>2. QED BY <1>1, <1>5, <2>1, EntriesAfter
<1>8. ASSUME NEW e \in LabelEntries', e # new PROVE e \in LabelEntries
  <2>1. /\ e[1] \in DOMAIN sections' /\ e[2] \in DOMAIN sections'[e[1]].labels
        /\ e = <<e[1], e[2]>>
    BY EntriesAfter
  <2>2. CASE e[1] # current_section
    BY <1>1, <2>1, <2>2, EntriesAre
  <2>3. CASE e[1] = current_section
    <3>1. e[2] \in 1 .. n + 1 /\ e[2] # n + 1
      BY <1>4, <1>5, <1>8, <2>1, <2>3
    <3>2. e[2] \in DOMAIN sections[e[1]].labels
      BY <1>3, <2>3, <3>1 DEF Current
    <3>3. QED BY <1>1, <2>1, <2>3, <3>2, EntriesAre
  <2>4. QED BY <2>2, <2>3
<1>9. IdOf(new)' = current_label_id
  BY <1>1, <1>3, <1>5 DEF IdOf
<1>10. LabelEntries' = LabelEntries \union {new}
  BY <1>7, <1>8, IdsStay
<1>11. QED BY <1>6, <1>9, <1>10

\* Ids are given in turn, so that two entries share one only after 64 Ki entries.
LEMMA IdsStep ==
  ASSUME TypeInv, Step, IdsInv
  PROVE  IdsInv' /\ (IdsSuffice' => IdsSuffice)
<1>1. IsFiniteSet(LabelEntries)
  BY DEF IdsInv
<1>2. PICK c \in Nat : c = Cardinality(LabelEntries)
  BY <1>1, FS_CardinalityType
<1>3. PICK size \in Nat : size = WordSize /\ size > 1
  BY WordSizeIsPositive
<1>4. IdsSuffice <=> c <= size
  BY <1>2, <1>3 DEF IdsSuffice
<1>5. PICK E : E = LabelEntries'
  OBVIOUS
<1>6. CASE LabelsUntouched
  <2>1. E = LabelEntries /\ current_label_id' = current_label_id
    BY <1>5, <1>6, EntriesUntouched DEF LabelsUntouched
  <2>2. IdsSuffice' <=> c <= size
    BY <1>2, <1>3, <1>5, <2>1 DEF IdsSuffice
  <2>3. ASSUME IdsSuffice'
        PROVE  /\ current_label_id' = Cardinality(E) % WordSize
               /\ \A e \in E : IdOf(e)' < Cardinality(E)
               /\ \A e, f \in E : IdOf(e)' = IdOf(f)' => e = f
    <3>1. IdsSuffice
      BY <1>4, <2>2, <2>3
    <3>2. \A e \in E : IdOf(e)' = IdOf(e)
      BY <2>1, IdsStay
    <3>3. QED BY <2>1, <3>1, <3>2 DEF IdsInv
  <2>4. IdsInv'
    BY <1>1, <1>5, <2>1, <2>3 DEF IdsInv
  <2>5. QED BY <1>4, <2>2, <2>4
<1>7. CASE LabelAdded
  <2>1. PICK new : /\ new \notin LabelEntries /\ E = LabelEntries \union {new}
                   /\ IdOf(new)' = current_label_id
    BY <1>5, <1>7, EntryAdded
  <2>2. IsFiniteSet(E) /\ Cardinality(E) = c + 1
    BY <1>1, <1>2, <2>1, FS_AddElement
  <2>3. IdsSuffice' <=> c + 1 <= size
    BY <1>3, <1>5, <2>2 DEF IdsSuffice
  <2>4. ASSUME IdsSuffice'
        PROVE  /\ current_label_id' = Cardinality(E) % WordSize
               /\ \A e \in E : IdOf(e)' < Cardinality(E)
               /\ \A e, f \in E : IdOf(e)' = IdOf(f)' => e = f
    <3>1. c < size /\ c % size = c
      BY <1>3, <2>3, <2>4
    <3>2. IdsSuffice
      BY <1>4, <3>1
    <3>3. current_label_id = c
      BY <1>2, <1>3, <3>1, <3>2 DEF IdsInv
    <3>4. current_label_id' = (c + 1) % WordSize
      BY <1>7, <3>3 DEF LabelAdded
    <3>5. \A e \in LabelEntries : IdOf(e)' = IdOf(e) /\ IdOf(e) \in Nat /\ IdOf(e) < c
      BY <1>2, <3>2, IdsStay DEF IdsInv
    <3>6. ASSUME NEW e \in E PROVE IdOf(e)' < c + 1
      BY <2>1, <3>3, <3>5
    <3>7. ASSUME NEW e \in E, NEW f \in E, IdOf(e)' = IdOf(f)' PROVE e = f
      <4>1. CASE e \in LabelEntries /\ f \in LabelEntries
        BY <3>2, <3>5, <3>7, <4>1 DEF IdsInv
      <4>2. CASE e = new /\ f \in LabelEntries
        BY <2>1, <3>3, <3>5, <3>7, <4>2
      <4>3. CASE f = new /\ e \in LabelEntries
        BY <2>1, <3>3, <3>5, <3>7, <4>3
      <4>4. QED BY <2>1, <4>1, <4>2, <4>3
    <3>8. QED BY <2>2, <3>4, <3>6, <3>7
  <2>5. IdsInv'
    BY <1>5, <2>2, <2>4 DEF IdsInv
  <2>6. IdsSuffice' => IdsSuffice
    BY <1>4, <2>3
  <2>7. QED BY <2>5, <2>6
<1>8. LabelsUntouched \/ LabelAdded
  BY LabelKinds, PutLabels DEF TypeInv
<1>9. QED BY <1>6, <1>7, <1>8

UsesInv == MasksInv /\ MeantInv /\ NamesOnce /\ IdsInv

\* UsesInv holds at the start.
LEMMA UsesInit ==
  ASSUME Init
  PROVE  UsesInv
<1>1. DOMAIN sections = {} /\ DOMAIN meant = {} /\ IsSequence(meant) /\ current_label_id = 0
  BY DEF Init, IsSequence
<1>2. LabelEntries = {}
  BY <1>1, EntriesAre
<1>3. IsFiniteSet(LabelEntries) /\ Cardinality(LabelEntries) = 0
  BY <1>2, FS_EmptySet
<1>4. 0 = 0 % WordSize
  BY WordSizeIsPositive
<1>5. IdsInv
  BY <1>1, <1>2, <1>3, <1>4 DEF IdsInv
<1>6. QED BY <1>1, <1>5 DEF UsesInv, MasksInv, MeantInv, NamesOnce

\* UsesInv is inductive, given the types.
LEMMA UsesInvStep ==
  ASSUME TypeInv, UsesInv, [Next]_vars
  PROVE  UsesInv'
<1>1. Step
  BY StepKinds
<1>2. QED BY <1>1, MasksStep, MeantStep, NamesOnceStep, IdsStep DEF UsesInv

\* That is what the linker needs of a use.
LEMMA UseIsResolved ==
  ASSUME UsesInv, NeverBack, IdsSuffice, NEW k \in DOMAIN meant,
         NEW sect, sect = sections[meant[k].sect],
         NEW mask, mask = sect.mask[meant[k].use],
         NEW w, w = meant[k].word, NoneAfterMinus(w.terms),
         NEW named, named = {i \in DOMAIN sect.labels : sect.labels[i].id = IdAt(sect, mask)}
  PROVE  /\ \E i \in named : named = {i} /\ sect.labels[i].name = Plain(w.name)
         /\ mask.offset = SumOf(w.terms) % WordSize
<1>1. meant[k].sect \in DOMAIN sections /\ Means(sect, mask, w)
  BY DEF UsesInv, MeantInv
<1>2. IsTerms(w.terms) /\ mask.offset = calculate_offset_sum(w.terms) % WordSize
  BY <1>1 DEF Means
<1>3. UsedName(w) = Plain(w.name) /\ calculate_offset_sum(w.terms) = SumOf(w.terms)
  BY <1>2, WrittenAsMeant
<1>4. PICK i \in DOMAIN sect.labels :
        sect.labels[i].name = UsedName(w) /\ sect.labels[i].id = IdAt(sect, mask)
  BY <1>1 DEF Means
<1>5. i \in named
  BY <1>4
<1>6. ASSUME NEW j \in named PROVE j = i
  <2>1. j \in DOMAIN sect.labels /\ sect.labels[j].id = sect.labels[i].id
    BY <1>4
  <2>2. PICK s \in DOMAIN sections : s = meant[k].sect
    BY <1>1
  <2>3. <<s, i>> \in LabelEntries /\ <<s, j>> \in LabelEntries
    BY <1>4, <2>1, <2>2, EntriesAre
  <2>4. PICK e, f : e = <<s, i>> /\ f = <<s, j>>
    OBVIOUS
  <2>5. IdOf(e) = IdOf(f)
    BY <2>1, <2>2, <2>4 DEF IdOf
  <2>6. e = f
    BY <2>3, <2>4, <2>5 DEF UsesInv, IdsInv
  <2>7. QED BY <2>4, <2>6
<1>7. named = {i}
  BY <1>5, <1>6
<1>8. QED BY <1>2, <1>3, <1>4, <1>5, <1>7

\* For any source, the linker finds under the id at each use the one label that was
\* written there, and the offset that was written.
THEOREM UsesAreResolved == Spec => []UsesResolve
<1>1. Init => UsesInv
  BY UsesInit
<1>2. TypeInv /\ UsesInv /\ [Next]_vars => UsesInv'
  BY UsesInvStep
<1>3. UsesInv => UsesResolve
  <2> SUFFICES ASSUME UsesInv, NeverBack, IdsSuffice, NEW k \in DOMAIN meant,
                      NoneAfterMinus(meant[k].word.terms)
               PROVE  LET sect == sections[meant[k].sect]
                          mask == sect.mask[meant[k].use]
                          id == sect.bytes[mask.addr] + 256 * sect.bytes[mask.addr + 1]
                          named == {i \in DOMAIN sect.labels : sect.labels[i].id = id}
                      IN  /\ \E i \in named :
                               named = {i} /\ sect.labels[i].name = Plain(meant[k].word.name)
                          /\ mask.offset = SumOf(meant[k].word.terms) % WordSize
    BY Zenon DEF UsesResolve
  <2> DEFINE sect == sections[meant[k].sect]
             mask == sect.mask[meant[k].use]
             id == sect.bytes[mask.addr] + 256 * sect.bytes[mask.addr + 1]
             named == {i \in DOMAIN sect.labels : sect.labels[i].id = id}
  <2>1. PICK s, m, w : s = sect /\ m = s.mask[meant[k].use] /\ w = meant[k].word
    OBVIOUS
  <2>2. PICK n : n = {i \in DOMAIN s.labels : s.labels[i].id = IdAt(s, m)}
    OBVIOUS
  <2>3. NoneAfterMinus(w.terms)
    BY <2>1
  <2>4. /\ \E i \in n : n = {i} /\ s.labels[i].name = Plain(w.name)
        /\ m.offset = SumOf(w.terms) % WordSize
    BY <2>1, <2>2, <2>3, UseIsResolved
  <2>5. mask = m
    BY <2>1
  <2> HIDE DEF sect, mask
  <2>6. id = IdAt(s, m)
    BY <2>1, <2>5 DEF IdAt
  <2> HIDE DEF id
  <2>7. named = n
    BY <2>1, <2>2, <2>6
  <2> HIDE DEF named
  <2>8. /\ \E i \in named : named = {i} /\ sect.labels[i].name = Plain(meant[k].word.name)
        /\ mask.offset = SumOf(meant[k].word.terms) % WordSize
    BY <2>1, <2>4, <2>5, <2>7
  <2>9. QED BY <2>8, Zenon DEF named, id, mask, sect
<1>4. QED BY <1>1, <1>2, <1>3, TypesKept, PTL DEF Spec

-------------------------------------------------------------------------------
\* The linker can use what is written.

\* The linker's words are the assembler's.
LEMMA Word16Linked ==
  ASSUME NEW names
  PROVE  Linked(names)!Word = Word16
BY DEF Linked!Word, Linked!WordSize, Word16, WordSize

\* The labels of a section as the linker knows them.
LEMMA LabelsFit ==
  ASSUME NEW s, IsSection(s), NEW names, LabelNames(s) \subseteq names,
         NEW labels,
         labels = [i \in DOMAIN s.labels |->
                     [name |-> s.labels[i].name, present |-> s.labels[i].present,
                      export |-> s.labels[i].export, position |-> s.labels[i].position]]
  PROVE  /\ labels \in Seq(Linked(names)!LabelEntry)
         /\ DOMAIN labels = DOMAIN s.labels
         /\ \A i \in DOMAIN labels : labels[i].name = s.labels[i].name
<1>1. DOMAIN labels = DOMAIN s.labels /\ \A i \in DOMAIN labels : labels[i].name = s.labels[i].name
  OBVIOUS
<1>2. PICK n \in Nat : DOMAIN s.labels = 1 .. n
  BY SequenceParts DEF IsSection
<1>3. ASSUME NEW i \in 1 .. n PROVE labels[i] \in Linked(names)!LabelEntry
  <2>1. PICK l : l = s.labels[i] /\ IsLabel(l)
    BY <1>2 DEF IsSection
  <2>2. l.name \in names
    BY <1>2, <2>1 DEF LabelNames
  <2>3. l.present \in BOOLEAN /\ l.export \in BOOLEAN /\ l.position \in Linked(names)!Word
    BY <2>1, Word16Linked DEF IsLabel
  <2>4. labels[i] = [name |-> l.name, present |-> l.present, export |-> l.export,
                     position |-> l.position]
    BY <1>2, <2>1
  <2>5. QED BY <2>2, <2>3, <2>4 DEF Linked!LabelEntry
<1>4. labels \in Seq(Linked(names)!LabelEntry)
  <2>1. DOMAIN labels = 1 .. n /\ labels = [i \in DOMAIN labels |-> labels[i]]
    BY <1>2
  <2>2. PICK S : S = Linked(names)!LabelEntry
    OBVIOUS
  <2>3. labels \in Seq(S)
    BY <1>3, <2>1, <2>2, MadeSequence
  <2>4. QED BY <2>2, <2>3
<1>5. QED BY <1>1, <1>4

\* The uses of labels as the linker knows them.
LEMMA UsesFit ==
  ASSUME NEW s, IsSection(s), \A k \in DOMAIN s.mask : Resolves(s, s.mask[k]), NEW names,
         NEW uses,
         uses = [k \in DOMAIN s.mask |->
                   [label |-> CHOOSE i \in DOMAIN s.labels : s.labels[i].id = IdAt(s, s.mask[k]),
                    offset |-> s.mask[k].offset]]
  PROVE  /\ uses \in Seq(Linked(names)!Use)
         /\ \A k \in DOMAIN uses : uses[k].label \in DOMAIN s.labels
<1>1. PICK n \in Nat : DOMAIN s.mask = 1 .. n
  BY SequenceParts DEF IsSection
<1>2. ASSUME NEW k \in 1 .. n
      PROVE  uses[k] \in Linked(names)!Use /\ uses[k].label \in DOMAIN s.labels
  <2>1. PICK m : m = s.mask[k] /\ IsMask(m) /\ Resolves(s, m)
    BY <1>1 DEF IsSection
  <2>2. PICK i : i = CHOOSE j \in DOMAIN s.labels : s.labels[j].id = IdAt(s, m)
    OBVIOUS
  <2>3. i \in DOMAIN s.labels
    BY <2>1, <2>2, Zenon DEF Resolves
  <2>4. i \in Nat
    BY <2>3, SequenceParts DEF IsSection
  <2>5. PICK offset : offset = m.offset /\ offset \in Linked(names)!Word
    BY <2>1, Word16Linked DEF IsMask
  <2>6. uses[k] = [label |-> i, offset |-> offset]
    BY <1>1, <2>1, <2>2, <2>5
  <2>7. [label |-> i, offset |-> offset] \in Linked(names)!Use
    BY <2>4, <2>5 DEF Linked!Use
  <2>8. uses[k].label = i
    BY <2>6
  <2>9. QED BY <2>3, <2>6, <2>7, <2>8
<1>3. DOMAIN uses = 1 .. n
  BY <1>1
<1>4. uses \in Seq(Linked(names)!Use)
  <2>1. uses = [k \in DOMAIN uses |-> uses[k]]
    OBVIOUS
  <2>2. PICK S : S = Linked(names)!Use
    OBVIOUS
  <2>3. uses \in Seq(S)
    BY <1>2, <1>3, <2>1, <2>2, MadeSequence
  <2>4. QED BY <2>2, <2>3
<1>5. QED BY <1>2, <1>3, <1>4

\* A section whose uses resolve is one the linker understands.
LEMMA SectionFits ==
  ASSUME NEW s, IsSection(s), NoTwice(s), s.data_pos < WordSize,
         \A k \in DOMAIN s.mask : Resolves(s, s.mask[k]),
         NEW names, LabelNames(s) \subseteq names
  PROVE  /\ ObjectSection(s) \in Linked(names)!Section
         /\ Linked(names)!WellFormed(ObjectSection(s))
<1>1. PICK labels :
        labels = [i \in DOMAIN s.labels |->
                    [name |-> s.labels[i].name, present |-> s.labels[i].present,
                     export |-> s.labels[i].export, position |-> s.labels[i].position]]
  OBVIOUS
<1>2. PICK uses :
        uses = [k \in DOMAIN s.mask |->
                  [label |-> CHOOSE i \in DOMAIN s.labels : s.labels[i].id = IdAt(s, s.mask[k]),
                   offset |-> s.mask[k].offset]]
  OBVIOUS
<1>3. ObjectSection(s) = [name |-> s.name, executable |-> s.executable, size |-> s.data_pos,
                          labels |-> labels, uses |-> uses]
  BY <1>1, <1>2, Zenon DEF ObjectSection, IdAt
<1>4. /\ labels \in Seq(Linked(names)!LabelEntry) /\ DOMAIN labels = DOMAIN s.labels
      /\ \A i \in DOMAIN labels : labels[i].name = s.labels[i].name
  BY <1>1, LabelsFit
<1>5. /\ uses \in Seq(Linked(names)!Use)
      /\ \A k \in DOMAIN uses : uses[k].label \in DOMAIN s.labels
  BY <1>2, UsesFit
<1>6. s.data_pos \in Linked(names)!Word
  BY Word16Linked, WordSizeIsPositive DEF IsSection, Word16
<1>7. PICK o : o = ObjectSection(s)
  OBVIOUS
<1>8. o \in Linked(names)!Section
  BY <1>3, <1>4, <1>5, <1>6, <1>7 DEF IsSection, Linked!Section
<1>9. o.labels = labels /\ o.uses = uses
  BY <1>3, <1>7
<1>10. Linked(names)!WellFormed(o)
  <2>1. \A i, j \in DOMAIN labels : labels[i].name = labels[j].name => i = j
    BY <1>4 DEF NoTwice
  <2>2. QED BY <1>4, <1>5, <1>9, <2>1 DEF Linked!WellFormed
<1>11. QED BY <1>7, <1>8, <1>10

\* For any source, what is written is what the linker takes for granted.
THEOREM WrittenFilesFit == Spec => []FitForLinker
<1>1. Init => UsesInv
  BY UsesInit
<1>2. TypeInv /\ UsesInv /\ [Next]_vars => UsesInv'
  BY UsesInvStep
<1>3. TypeInv /\ UsesInv => FitForLinker
  <2> SUFFICES ASSUME TypeInv, UsesInv, NeverBack, InRange,
                      NEW names, names = UNION {LabelNames(sections[s]) : s \in DOMAIN sections}
               PROVE  Linked(names)!IsObjectFile([s \in DOMAIN sections |-> ObjectSection(sections[s])])
    BY Zenon DEF FitForLinker
  <2>1. PICK n \in Nat : DOMAIN sections = 1 .. n
    BY SequenceParts DEF TypeInv, Shape
  <2>2. PICK written : written = [s \in DOMAIN sections |-> ObjectSection(sections[s])]
    OBVIOUS
  <2>3. ASSUME NEW s \in 1 .. n
        PROVE  written[s] \in Linked(names)!Section /\ Linked(names)!WellFormed(written[s])
    <3>1. PICK t : t = sections[s]
      OBVIOUS
    <3>2. IsSection(t) /\ NoTwice(t) /\ t.data_pos < WordSize
      BY <2>1, <3>1 DEF TypeInv, Shape, UsesInv, NamesOnce, InRange
    <3>3. \A k \in DOMAIN t.mask : Resolves(t, t.mask[k])
      BY <2>1, <3>1 DEF UsesInv, MasksInv
    <3>4. LabelNames(t) \subseteq names
      BY <2>1, <3>1
    <3>5. ObjectSection(t) \in Linked(names)!Section /\ Linked(names)!WellFormed(ObjectSection(t))
      BY <3>2, <3>3, <3>4, SectionFits
    <3>6. written[s] = ObjectSection(t)
      BY <2>1, <2>2, <3>1
    <3>7. QED BY <3>5, <3>6
  <2>4. written = [s \in 1 .. n |-> written[s]]
    BY <2>1, <2>2
  <2>5. written \in Seq(Linked(names)!Section)
    BY <2>3, <2>4, SeqDef
  <2>6. DOMAIN written = 1 .. n
    BY <2>4
  <2>7. Linked(names)!IsObjectFile(written)
    BY <2>3, <2>5, <2>6 DEF Linked!IsObjectFile
  <2>8. QED BY <2>2, <2>7
<1>4. QED BY <1>1, <1>2, <1>3, TypesKept, PTL DEF Spec

-------------------------------------------------------------------------------
\* The object file and what is read back from it.

\* A word is put together again from its two bytes.
LEMMA WordOfBytes ==
  ASSUME NEW n \in Nat, n < ByteSize * ByteSize
  PROVE  low(n) + ByteSize * high(n) = n
<1>1. ByteSize \in Nat /\ ByteSize > 0
  BY ByteAssumption
<1>2. PICK b \in Nat : b = ByteSize /\ b > 0
  BY <1>1
<1>3. PICK q \in Int : q = n \div b /\ n = (b * q) + (n % b) /\ n % b >= 0
  BY <1>2, Z3
<1>4. q >= 0 /\ q < b
  <2>1. b * q < b * b
    BY <1>2, <1>3
  <2>2. q < b
    BY <1>2, <1>3, <2>1, Z3
  <2>3. QED BY <1>2, <1>3, <2>2, Z3
<1>5. q % b = q
  BY <1>2, <1>4
<1>6. QED BY <1>2, <1>3, <1>5 DEF low, high

\* The eight bytes of a header.
IsHeader(h, name, executable, d, l, m) ==
  /\ IsSequence(h) /\ Len(h) = 8
  /\ \A k \in 1 .. 8 : h[k].part = "header"
  /\ h[1].of = name /\ h[2].of = executable
  /\ h[3].of = low(d) /\ h[4].of = high(d)
  /\ h[5].of = low(l) /\ h[6].of = high(l)
  /\ h[7].of = low(m) /\ h[8].of = high(m)

LEMMA HeaderParts ==
  ASSUME NEW name, NEW executable, NEW d, NEW l, NEW m
  PROVE  IsHeader(<<Header(name), Header(executable)>> \o SizeBytes(d) \o SizeBytes(l) \o SizeBytes(m),
                  name, executable, d, l, m)
<1>1. PICK h : h = <<Header(name), Header(executable)>> \o SizeBytes(d) \o SizeBytes(l) \o SizeBytes(m)
  OBVIOUS
<1>2. PICK a, b, c, e : /\ a = <<Header(name), Header(executable)>> /\ b = SizeBytes(d)
                        /\ c = SizeBytes(l) /\ e = SizeBytes(m)
  OBVIOUS
<1>3. /\ IsSequence(a) /\ Len(a) = 2 /\ a[1] = Header(name) /\ a[2] = Header(executable)
      /\ IsSequence(b) /\ Len(b) = 2 /\ b[1] = Header(low(d)) /\ b[2] = Header(high(d))
      /\ IsSequence(c) /\ Len(c) = 2 /\ c[1] = Header(low(l)) /\ c[2] = Header(high(l))
      /\ IsSequence(e) /\ Len(e) = 2 /\ e[1] = Header(low(m)) /\ e[2] = Header(high(m))
  BY <1>2, PairParts DEF SizeBytes
<1>4. /\ IsSequence(h) /\ Len(h) = 8
      /\ h[1] = Header(name) /\ h[2] = Header(executable) /\ h[3] = Header(low(d))
      /\ h[4] = Header(high(d)) /\ h[5] = Header(low(l)) /\ h[6] = Header(high(l))
      /\ h[7] = Header(low(m)) /\ h[8] = Header(high(m))
  <2>1. PICK u, v : u = a \o b /\ v = u \o c
    OBVIOUS
  <2>2. h = v \o e
    BY <1>1, <1>2, <2>1
  <2>3. IsSequence(u) /\ Len(u) = 4 /\ u[1] = a[1] /\ u[2] = a[2] /\ u[3] = b[1] /\ u[4] = b[2]
    <3>1. IsSequence(a) /\ IsSequence(b) /\ Len(a) = 2 /\ Len(b) = 2
      BY <1>3
    <3>2. IsJoined(u, a, b)
      BY <2>1, <2>2, <3>1, JoinedParts
    <3>3. /\ IsSequence(u) /\ Len(u) = Len(a) + Len(b)
          /\ \A k \in 1 .. Len(a) : u[k] = a[k]
          /\ \A k \in 1 .. Len(b) : u[Len(a) + k] = b[k]
      BY <3>2 DEF IsJoined
    <3>4. /\ IsSequence(u) /\ Len(u) = 2 + 2
          /\ \A k \in 1 .. 2 : u[k] = a[k]
          /\ \A k \in 1 .. 2 : u[2 + k] = b[k]
      BY <3>1, <3>3
    <3>5. QED BY <3>4
  <2>4. /\ IsSequence(v) /\ Len(v) = 6 /\ v[5] = c[1] /\ v[6] = c[2]
        /\ \A k \in 1 .. 4 : v[k] = u[k]
    <3>1. IsSequence(u) /\ IsSequence(c) /\ Len(u) = 4 /\ Len(c) = 2
      BY <1>3, <2>3
    <3>2. IsJoined(v, u, c)
      BY <2>1, <2>2, <3>1, JoinedParts
    <3>3. /\ IsSequence(v) /\ Len(v) = Len(u) + Len(c)
          /\ \A k \in 1 .. Len(u) : v[k] = u[k]
          /\ \A k \in 1 .. Len(c) : v[Len(u) + k] = c[k]
      BY <3>2 DEF IsJoined
    <3>4. /\ IsSequence(v) /\ Len(v) = 4 + 2
          /\ \A k \in 1 .. 4 : v[k] = u[k]
          /\ \A k \in 1 .. 2 : v[4 + k] = c[k]
      BY <3>1, <3>3
    <3>5. QED BY <3>4
  <2>5. /\ IsSequence(h) /\ Len(h) = 8 /\ h[7] = e[1] /\ h[8] = e[2]
        /\ \A k \in 1 .. 6 : h[k] = v[k]
    <3>1. IsSequence(v) /\ IsSequence(e) /\ Len(v) = 6 /\ Len(e) = 2
      BY <1>3, <2>4
    <3>2. IsJoined(h, v, e)
      BY <2>1, <2>2, <3>1, JoinedParts
    <3>3. /\ IsSequence(h) /\ Len(h) = Len(v) + Len(e)
          /\ \A k \in 1 .. Len(v) : h[k] = v[k]
          /\ \A k \in 1 .. Len(e) : h[Len(v) + k] = e[k]
      BY <3>2 DEF IsJoined
    <3>4. /\ IsSequence(h) /\ Len(h) = 6 + 2
          /\ \A k \in 1 .. 6 : h[k] = v[k]
          /\ \A k \in 1 .. 2 : h[6 + k] = e[k]
      BY <3>1, <3>3
    <3>5. QED BY <3>4
  <2>6. /\ v[1] = u[1] /\ v[2] = u[2] /\ v[3] = u[3] /\ v[4] = u[4]
        /\ h[1] = v[1] /\ h[2] = v[2] /\ h[3] = v[3] /\ h[4] = v[4] /\ h[5] = v[5] /\ h[6] = v[6]
    BY <2>4, <2>5
  <2>7. QED BY <1>3, <2>3, <2>4, <2>5, <2>6
<1>5. \A x : Header(x).part = "header" /\ Header(x).of = x
  BY DEF Header
<1>6. \A k \in 1 .. 8 : k = 1 \/ k = 2 \/ k = 3 \/ k = 4 \/ k = 5 \/ k = 6 \/ k = 7 \/ k = 8
  OBVIOUS
<1>7. \A k \in 1 .. 8 : h[k].part = "header"
  BY <1>4, <1>5, <1>6
<1>8. IsHeader(h, name, executable, d, l, m)
  BY <1>4, <1>5, <1>7 DEF IsHeader
<1>9. QED BY <1>1, <1>8

\* Records of size bytes take up as many times size bytes.
LEMMA SpreadSize ==
  ASSUME NEW part, NEW records, IsSequence(records), NEW size \in Nat
  PROVE  IsSequence(Spread(part, records, size)) /\ Len(Spread(part, records, size)) = Len(records) * size
<1>1. PICK n \in Nat : n = Len(records) * size
  BY SequenceParts
<1>2. PICK u : u = Spread(part, records, size)
  OBVIOUS
<1>3. DOMAIN u = 1 .. n /\ u = [k \in DOMAIN u |-> u[k]]
  BY <1>1, <1>2 DEF Spread
<1>4. PICK S : S = {u[k] : k \in 1 .. n}
  OBVIOUS
<1>5. u \in Seq(S)
  BY <1>3, <1>4, MadeSequence, Zenon
<1>6. Len(u) = n
  BY <1>3, <1>5
<1>7. QED BY <1>1, <1>2, <1>5, <1>6 DEF IsSequence

\* What can be written of a section: its three sizes fit in two bytes each.
Writable(sect) ==
  /\ IsSequence(sect.data) /\ IsSequence(sect.labels) /\ IsSequence(sect.mask)
  /\ Len(sect.data) < ByteSize * ByteSize
  /\ Len(sect.labels) * EntrySize < ByteSize * ByteSize
  /\ Len(sect.mask) * MaskEntrySize < ByteSize * ByteSize

\* A section as it lies in memory.
Read1(sect) ==
  [name |-> sect.name, executable |-> sect.executable, data |-> DataBytes(sect),
   label_vec |-> LabelBytes(sect), label_mask |-> MaskBytes(sect)]

\* deserialize_section reads a section where serialize_section has written it.
LEMMA SectionReadBack ==
  ASSUME NEW p, IsSequence(p), NEW r, IsSequence(r), NEW sect, Writable(sect)
  PROVE  /\ IsSequence(serialize_section(sect))
         /\ deserialize_section((p \o serialize_section(sect)) \o r, Len(p)) =
              <<Read1(sect), Len(p) + Len(serialize_section(sect))>>
<1>1. PICK d, l, m : d = DataBytes(sect) /\ l = LabelBytes(sect) /\ m = MaskBytes(sect)
  OBVIOUS
<1>2. /\ IsSequence(d) /\ IsSequence(l) /\ IsSequence(m)
      /\ Len(d) < ByteSize * ByteSize /\ Len(l) < ByteSize * ByteSize /\ Len(m) < ByteSize * ByteSize
  <2>1. EntrySize \in Nat /\ MaskEntrySize \in Nat /\ Len(sect.data) * 1 = Len(sect.data)
    BY ByteAssumption, SequenceParts DEF MaskEntrySize, Writable
  <2>2. IsSequence(sect.data) /\ IsSequence(sect.labels) /\ IsSequence(sect.mask)
    BY DEF Writable
  <2>3. IsSequence(d) /\ Len(d) = Len(sect.data)
    BY <1>1, <2>1, <2>2, SpreadSize DEF DataBytes
  <2>4. IsSequence(l) /\ Len(l) = Len(sect.labels) * EntrySize
    BY <1>1, <2>1, <2>2, SpreadSize DEF LabelBytes
  <2>5. IsSequence(m) /\ Len(m) = Len(sect.mask) * MaskEntrySize
    BY <1>1, <2>1, <2>2, SpreadSize DEF MaskBytes
  <2>6. QED BY <2>3, <2>4, <2>5 DEF Writable
<1>3. PICK dn \in Nat, ln \in Nat, mn \in Nat, a \in Nat :
        dn = Len(d) /\ ln = Len(l) /\ mn = Len(m) /\ a = Len(p)
  BY <1>2, SequenceParts
<1>4. PICK h : h = <<Header(sect.name), Header(sect.executable)>>
                     \o SizeBytes(dn) \o SizeBytes(ln) \o SizeBytes(mn)
  OBVIOUS
<1>5. /\ IsSequence(h) /\ Len(h) = 8
      /\ \A k \in 1 .. 8 : h[k].part = "header"
      /\ h[1].of = sect.name /\ h[2].of = sect.executable
      /\ h[3].of = low(dn) /\ h[4].of = high(dn)
      /\ h[5].of = low(ln) /\ h[6].of = high(ln)
      /\ h[7].of = low(mn) /\ h[8].of = high(mn)
  <2>1. IsHeader(h, sect.name, sect.executable, dn, ln, mn)
    BY <1>4, HeaderParts
  <2>2. QED BY <2>1 DEF IsHeader
<1>6. PICK s : s = serialize_section(sect)
  OBVIOUS
<1>7. s = ((h \o d) \o l) \o m
  BY <1>1, <1>3, <1>4, <1>6 DEF serialize_section
<1>8. PICK hd, hdl : hd = h \o d /\ hdl = hd \o l
  OBVIOUS
<1>9. /\ IsSequence(hd) /\ Len(hd) = 8 + dn
      /\ IsSequence(hdl) /\ Len(hdl) = 8 + dn + ln
      /\ IsSequence(s) /\ Len(s) = 8 + dn + ln + mn
  <2>1. IsSequence(hd) /\ Len(hd) = 8 + dn
    <3>1. IsSequence(h) /\ Len(h) = 8 /\ IsSequence(d) /\ Len(d) = dn
      BY <1>2, <1>3, <1>5
    <3>2. IsSequence(h \o d) /\ Len(h \o d) = Len(h) + Len(d)
      BY <3>1, Joined
    <3>3. QED BY <1>8, <3>1, <3>2
  <2>2. IsSequence(hdl) /\ Len(hdl) = 8 + dn + ln
    <3>1. IsSequence(hd) /\ IsSequence(l)
      BY <1>2, <2>1
    <3>2. IsJoined(hdl, hd, l)
      BY <1>8, <3>1, JoinedParts
    <3>3. QED BY <1>3, <2>1, <3>2 DEF IsJoined
  <2>3. IsSequence(s) /\ Len(s) = 8 + dn + ln + mn
    <3>1. IsSequence(hdl) /\ IsSequence(m)
      BY <1>2, <2>2
    <3>2. IsJoined(s, hdl, m)
      BY <1>7, <1>8, <3>1, JoinedParts
    <3>3. QED BY <1>3, <2>2, <3>2 DEF IsJoined
  <2>4. QED BY <2>1, <2>2, <2>3
<1>17. /\ IsSequence(h) /\ IsSequence(d) /\ IsSequence(l) /\ IsSequence(m)
       /\ IsSequence(hd) /\ IsSequence(hdl)
  BY <1>2, <1>5, <1>9
<1>10. PICK f : f = (p \o s) \o r
  OBVIOUS
<1>11. /\ f = (p \o h) \o (d \o (l \o (m \o r)))
       /\ f = ((p \o h) \o d) \o (l \o (m \o r))
       /\ f = (((p \o h) \o d) \o l) \o (m \o r)
       /\ f = ((((p \o h) \o d) \o l) \o m) \o r
  <2>1. PICK mr, lmr, dlmr : mr = m \o r /\ lmr = l \o mr /\ dlmr = d \o lmr
    OBVIOUS
  <2>2. IsSequence(mr) /\ IsSequence(lmr) /\ IsSequence(dlmr)
    <3>1. IsSequence(mr)
      BY <1>2, <2>1, Joined
    <3>2. IsSequence(lmr)
      BY <1>2, <2>1, <3>1, Joined
    <3>3. QED BY <1>2, <2>1, <3>1, <3>2, Joined
  <2>3. PICK ph, phd, phdl, phdlm :
          ph = p \o h /\ phd = ph \o d /\ phdl = phd \o l /\ phdlm = phdl \o m
    OBVIOUS
  <2>4. IsSequence(ph) /\ IsSequence(phd) /\ IsSequence(phdl) /\ IsSequence(phdlm)
    <3>1. IsSequence(ph)
      BY <1>5, <2>3, Joined
    <3>2. IsSequence(phd)
      BY <1>2, <2>3, <3>1, Joined
    <3>3. IsSequence(phdl)
      BY <1>2, <2>3, <3>2, Joined
    <3>4. QED BY <1>2, <2>3, <3>1, <3>2, <3>3, Joined
  <2>5. p \o s = phdlm
    <3>1. Associative(p, h, d)
      BY <1>17, JoinedOn
    <3>2. Associative(p, hd, l)
      BY <1>17, JoinedOn
    <3>3. Associative(p, hdl, m)
      BY <1>17, JoinedOn
    <3>4. QED BY <1>7, <1>8, <2>3, <3>1, <3>2, <3>3 DEF Associative
  <2>6. f = phdlm \o r
    BY <1>10, <2>5
  <2>7. f = phdl \o mr
    <3>1. Associative(phdl, m, r)
      BY <1>17, <2>4, JoinedOn
    <3>2. QED BY <2>1, <2>3, <2>6, <3>1 DEF Associative
  <2>8. f = phd \o lmr
    <3>1. Associative(phd, l, mr)
      BY <1>17, <2>2, <2>4, JoinedOn
    <3>2. QED BY <2>1, <2>3, <2>7, <3>1 DEF Associative
  <2>9. f = ph \o dlmr
    <3>1. Associative(ph, d, lmr)
      BY <1>17, <2>2, <2>4, JoinedOn
    <3>2. QED BY <2>1, <2>3, <2>8, <3>1 DEF Associative
  <2>10. QED BY <2>1, <2>3, <2>6, <2>7, <2>8, <2>9
<1>12. /\ SubSeq(f, a + 1, a + 8) = h
       /\ SubSeq(f, a + 8 + 1, a + 8 + dn) = d
       /\ SubSeq(f, a + 8 + dn + 1, a + 8 + dn + ln) = l
       /\ SubSeq(f, a + 8 + dn + ln + 1, a + 8 + dn + ln + mn) = m
  <2>1. IsSequence(m \o r)
    BY <1>2, Joined
  <2>2. IsSequence(l \o (m \o r))
    BY <1>2, <2>1, Joined
  <2>3. IsSequence(d \o (l \o (m \o r)))
    BY <1>2, <2>2, Joined
  <2>4. IsSequence(p \o h) /\ Len(p \o h) = a + 8
    <3>1. IsSequence(h) /\ Len(h) = 8 /\ Len(p) = a
      BY <1>3, <1>5
    <3>2. IsSequence(p \o h) /\ Len(p \o h) = Len(p) + Len(h)
      BY <3>1, Joined
    <3>3. QED BY <3>1, <3>2
  <2>5. IsSequence((p \o h) \o d) /\ Len((p \o h) \o d) = a + 8 + dn
    <3>1. PICK b : b = p \o h
      OBVIOUS
    <3>2. IsSequence(b) /\ IsSequence(d)
      BY <1>2, <2>4, <3>1
    <3>3. IsJoined(b \o d, b, d)
      BY <3>2, JoinedParts
    <3>4. QED BY <1>3, <2>4, <3>1, <3>3 DEF IsJoined
  <2>6. IsSequence(((p \o h) \o d) \o l) /\ Len(((p \o h) \o d) \o l) = a + 8 + dn + ln
    <3>1. PICK b : b = (p \o h) \o d
      OBVIOUS
    <3>2. IsSequence(b) /\ IsSequence(l)
      BY <1>2, <2>5, <3>1
    <3>3. IsJoined(b \o l, b, l)
      BY <3>2, JoinedParts
    <3>4. QED BY <1>3, <2>5, <3>1, <3>3 DEF IsJoined
  <2>7. SubSeq(f, a + 1, a + 8) = h
    <3>1. SubSeq((p \o h) \o (d \o (l \o (m \o r))), Len(p) + 1, Len(p) + Len(h)) = h
      BY <1>5, <2>3, CutOut
    <3>2. QED BY <1>3, <1>5, <1>11, <3>1
  <2>8. SubSeq(f, a + 8 + 1, a + 8 + dn) = d
    <3>1. PICK b : b = p \o h
      OBVIOUS
    <3>2. SubSeq((b \o d) \o (l \o (m \o r)), Len(b) + 1, Len(b) + Len(d)) = d
      BY <1>2, <2>2, <2>4, <3>1, CutOut
    <3>3. QED BY <1>3, <1>11, <2>4, <3>1, <3>2
  <2>9. SubSeq(f, a + 8 + dn + 1, a + 8 + dn + ln) = l
    <3>1. PICK b : b = (p \o h) \o d
      OBVIOUS
    <3>2. SubSeq((b \o l) \o (m \o r), Len(b) + 1, Len(b) + Len(l)) = l
      BY <1>2, <2>1, <2>5, <3>1, CutOut
    <3>3. QED BY <1>3, <1>11, <2>5, <3>1, <3>2
  <2>10. SubSeq(f, a + 8 + dn + ln + 1, a + 8 + dn + ln + mn) = m
    <3>1. PICK b : b = ((p \o h) \o d) \o l
      OBVIOUS
    <3>2. SubSeq((b \o m) \o r, Len(b) + 1, Len(b) + Len(m)) = m
      BY <1>2, <2>6, <3>1, CutOut
    <3>3. QED BY <1>3, <1>11, <2>6, <3>1, <3>2
  <2>11. QED BY <2>7, <2>8, <2>9, <2>10
<1>13. /\ h[3].of + ByteSize * h[4].of = dn
       /\ h[5].of + ByteSize * h[6].of = ln
       /\ h[7].of + ByteSize * h[8].of = mn
  BY <1>2, <1>3, <1>5, WordOfBytes
<1>14. /\ a + 8 + 1 = (a + 8) + 1
       /\ ((a + 8 + 1) + dn) - 1 = a + 8 + dn /\ (a + 8 + 1) + dn = a + 8 + dn + 1
       /\ ((a + 8 + 1 + dn) + ln) - 1 = a + 8 + dn + ln /\ (a + 8 + 1 + dn) + ln = a + 8 + dn + ln + 1
       /\ ((a + 8 + 1 + dn + ln) + mn) - 1 = a + 8 + dn + ln + mn
       /\ a + 8 + dn + ln + mn = a + Len(s)
  BY <1>3, <1>9
<1>15. deserialize_section(f, a) =
         <<[name |-> sect.name, executable |-> sect.executable, data |-> d, label_vec |-> l,
            label_mask |-> m], a + Len(s)>>
  <2> DEFINE header == SubSeq(f, a + 1, a + 8)
             size(k) == header[k].of + ByteSize * header[k + 1].of
             data == a + 8 + 1
             label_vec == data + size(3)
             label_mask == label_vec + size(5)
  <2>1. header = h
    BY <1>12
  <2>2. size(3) = dn /\ size(5) = ln /\ size(7) = mn
    BY <1>13, <2>1
  <2>3. ~(Len(header) < 8 \/ \E k \in 1 .. 8 : header[k].part # "header")
    BY <1>5, <2>1
  <2>4. data = a + 8 + 1 /\ label_vec = a + 8 + dn + 1 /\ label_mask = a + 8 + dn + ln + 1
    BY <1>14, <2>2
  <2>5. /\ label_vec - 1 = a + 8 + dn /\ label_mask - 1 = a + 8 + dn + ln
        /\ label_mask + size(7) - 1 = a + Len(s)
    <3>1. (a + 8 + dn + 1) - 1 = a + 8 + dn /\ (a + 8 + dn + ln + 1) - 1 = a + 8 + dn + ln
      BY <1>3
    <3>2. PICK x, y, z : x = label_vec /\ y = label_mask /\ z = size(7)
      OBVIOUS
    <3>3. x = a + 8 + dn + 1 /\ y = a + 8 + dn + ln + 1 /\ z = mn
      BY <2>2, <2>4, <3>2
    <3>4. (a + 8 + dn + ln + 1) + mn - 1 = a + Len(s)
      BY <1>3, <1>9
    <3>5. x - 1 = a + 8 + dn /\ y - 1 = a + 8 + dn + ln /\ y + z - 1 = a + Len(s)
      BY <3>1, <3>3, <3>4
    <3> HIDE DEF label_vec, label_mask, size
    <3>6. QED BY <3>2, <3>5
  <2>6. /\ header[1].of = sect.name /\ header[2].of = sect.executable
        /\ SubSeq(f, data, label_vec - 1) = d
        /\ SubSeq(f, label_vec, label_mask - 1) = l
        /\ SubSeq(f, label_mask, label_mask + size(7) - 1) = m
    BY <1>5, <1>12, <1>14, <2>1, <2>4, <2>5
  <2>7. deserialize_section(f, a) =
          IF Len(header) < 8 \/ \E k \in 1 .. 8 : header[k].part # "header"
          THEN Unreadable
          ELSE <<[name |-> header[1].of, executable |-> header[2].of,
                  data |-> SubSeq(f, data, label_vec - 1),
                  label_vec |-> SubSeq(f, label_vec, label_mask - 1),
                  label_mask |-> SubSeq(f, label_mask, label_mask + size(7) - 1)],
                 label_mask + size(7) - 1>>
    BY DEF deserialize_section, HeaderSize
  <2> HIDE DEF header, size, data, label_vec, label_mask
  <2>8. QED BY <2>3, <2>5, <2>6, <2>7
<1>16. QED BY <1>1, <1>3, <1>6, <1>9, <1>10, <1>15 DEF Read1

\* What is written is read back.
LEMMA FileReadBack ==
  ASSUME NEW parts, NEW n \in Nat, DOMAIN parts = 1 .. n, \A i \in 1 .. n : Writable(parts[i])
  PROVE  Deserialized(Serialized(parts), n) = InMemory(parts)
<1>1. PICK bytes : bytes = Serialized(parts)
  OBVIOUS
<1>2. PICK mem : mem = InMemory(parts)
  OBVIOUS
<1>3. mem = [i \in 1 .. n |-> Read1(parts[i])]
  BY <1>2 DEF InMemory, Read1
<1>4. PICK reach \in [0 .. n -> Nat] :
        /\ reach[0] = 0
        /\ \A k \in 1 .. n : deserialize_section(bytes, reach[k - 1]) = <<mem[k], reach[k]>>
  <2>1. CASE n = 0
    <3>1. [k \in 0 .. n |-> 0] \in [0 .. n -> Nat] /\ [k \in 0 .. n |-> 0][0] = 0 /\ 1 .. n = {}
      BY <2>1
    <3>2. QED BY <3>1
  <2>2. CASE n # 0
    <3> DEFINE g == [i \in DOMAIN parts |-> serialize_section(parts[i])]
    <3>1. \A i \in 1 .. n : g[i] = serialize_section(parts[i]) /\ IsSequence(g[i])
      <4>1. IsSequence(<<>>)
        BY DEF IsSequence
      <4>2. QED BY <4>1, SectionReadBack
    <3>2. Len(g) = n
      <4> DEFINE S == {g[i] : i \in 1 .. n}
      <4>1. DOMAIN g = 1 .. n /\ g = [i \in DOMAIN g |-> g[i]] /\ \A i \in 1 .. n : g[i] \in S
        OBVIOUS
      <4> HIDE DEF g, S
      <4>2. g \in Seq(S)
        BY <4>1, MadeSequence, Zenon
      <4>3. QED BY <4>1, <4>2
    <3>3. bytes = FlattenSeq(g)
      BY <1>1 DEF Serialized
    <3> HIDE DEF g
    <3>4. PICK flat : IsFlat(flat, g, n) /\ bytes = flat[n]
      BY <2>2, <3>2, <3>3, Flattened
    <3>5. /\ \A k \in 0 .. n : IsSequence(Ahead(flat, k))
          /\ \A k \in 1 .. n : Ahead(flat, k) = Ahead(flat, k - 1) \o g[k]
          /\ \A k \in 1 .. n : \E r : IsSequence(r) /\ flat[n] = Ahead(flat, k) \o r
      <4>1. \A i \in 1 .. n : IsSequence(g[i])
        BY <3>1
      <4>2. IsFlat(flat, g, n)
        BY <3>4
      <4>3. InOrder(flat, g, n)
        BY <2>2, <4>1, <4>2, PiecesLie
      <4>4. QED BY <4>3 DEF InOrder
    <3> DEFINE reach == [k \in 0 .. n |-> Len(Ahead(flat, k))]
    <3>6. reach \in [0 .. n -> Nat]
      BY <3>5, SequenceParts
    <3>7. reach[0] = 0
      BY DEF Ahead
    <3>8. ASSUME NEW k \in 1 .. n
          PROVE  deserialize_section(bytes, reach[k - 1]) = <<mem[k], reach[k]>>
      <4>1. PICK p, s : p = Ahead(flat, k - 1) /\ s = serialize_section(parts[k])
        OBVIOUS
      <4>2. IsSequence(p) /\ Ahead(flat, k) = p \o s /\ IsSequence(s) /\ Writable(parts[k])
        <5>1. k - 1 \in 0 .. n
          OBVIOUS
        <5>2. IsSequence(p)
          BY <3>5, <4>1, <5>1
        <5>3. g[k] = s /\ IsSequence(s)
          BY <3>1, <4>1
        <5>4. Ahead(flat, k) = p \o s
          BY <3>5, <4>1, <5>3
        <5>5. QED BY <5>2, <5>3, <5>4
      <4>3. PICK r : IsSequence(r) /\ bytes = (p \o s) \o r
        BY <3>4, <3>5, <4>2
      <4>4. deserialize_section(bytes, Len(p)) = <<Read1(parts[k]), Len(p) + Len(s)>>
        BY <4>1, <4>2, <4>3, SectionReadBack
      <4>5. reach[k - 1] = Len(p) /\ reach[k] = Len(p) + Len(s)
        <5>1. k - 1 \in 0 .. n /\ k \in 0 .. n
          OBVIOUS
        <5>2. IsJoined(p \o s, p, s)
          BY <4>2, JoinedParts
        <5>3. Len(p \o s) = Len(p) + Len(s)
          BY <5>2 DEF IsJoined
        <5>4. QED BY <4>1, <4>2, <5>1, <5>3
      <4>6. QED BY <1>3, <4>4, <4>5
    <3> HIDE DEF reach
    <3>9. QED BY <3>6, <3>7, <3>8
  <2>3. QED BY <2>1, <2>2
<1> DEFINE After(before) ==
             LET next == deserialize_section(bytes, before[2])
             IN  IF before = Unreadable \/ next = Unreadable THEN Unreadable
                 ELSE <<Append(before[1], next[1]), next[2]>>
           IsRead(f) == f = [k \in 0 .. n |-> IF k = 0 THEN <<<<>>, 0>> ELSE After(f[k - 1])]
           Upto(k) == [i \in 1 .. k |-> Read1(parts[i])]
           solution == [k \in 0 .. n |-> <<Upto(k), reach[k]>>]
<1>5. ASSUME NEW k \in 1 .. n PROVE After(<<Upto(k - 1), reach[k - 1]>>) = <<Upto(k), reach[k]>>
  <2>1. Append(Upto(k - 1), mem[k]) = Upto(k)
    <3>1. PICK j \in 0 .. n : j = k - 1 /\ k = j + 1
      OBVIOUS
    <3>2. PICK u, v : u = Upto(j) /\ v = Upto(k)
      OBVIOUS
    <3>3. /\ DOMAIN u = 1 .. j /\ u = [i \in DOMAIN u |-> u[i]]
          /\ DOMAIN v = 1 .. k /\ v = [i \in DOMAIN v |-> v[i]]
          /\ \A i \in 1 .. j : u[i] = v[i]
          /\ v[k] = mem[k]
      BY <1>3, <3>1, <3>2
    <3>4. IsSequence(u) /\ Len(u) = j /\ IsSequence(v) /\ Len(v) = k
      <4>1. PICK S, U : S = {u[i] : i \in 1 .. j} /\ U = {v[i] : i \in 1 .. k}
        OBVIOUS
      <4>2. u \in Seq(S) /\ v \in Seq(U)
        <5>1. \A i \in 1 .. j : u[i] \in S
          BY <4>1
        <5>2. \A i \in 1 .. k : v[i] \in U
          BY <4>1
        <5>7. j \in Nat
          BY <3>1
        <5>3. u \in Seq(S)
          BY <3>3, <5>1, <5>7, MadeSequence, Zenon
        <5>4. k \in Nat
          OBVIOUS
        <5>5. v \in Seq(U)
          BY <3>3, <5>2, <5>4, MadeSequence, Zenon
        <5>6. QED BY <5>3, <5>5
      <4>3. QED BY <3>1, <3>3, <4>2 DEF IsSequence
    <3>5. PICK w : w = Append(u, mem[k])
      OBVIOUS
    <3>6. IsSequence(w) /\ Len(w) = k /\ w[k] = mem[k] /\ \A i \in 1 .. j : w[i] = u[i]
      BY <3>1, <3>3, <3>4, <3>5, SequenceExtended
    <3>7. \A i \in 1 .. k : w[i] = v[i]
      BY <3>1, <3>3, <3>6
    <3>8. w = v
      BY <3>4, <3>6, <3>7, SameSequence
    <3>9. QED BY <3>1, <3>2, <3>5, <3>8
  <2>2. deserialize_section(bytes, reach[k - 1]) = <<mem[k], reach[k]>>
    BY <1>4
  <2>3. \A a, b : <<a, b>> # Unreadable
    BY DEF Unreadable
  <2>4. PICK before, next : /\ before = <<Upto(k - 1), reach[k - 1]>>
                            /\ next = deserialize_section(bytes, reach[k - 1])
    OBVIOUS
  <2> HIDE DEF Upto
  <2>5. before[1] = Upto(k - 1) /\ before[2] = reach[k - 1]
    BY <2>4
  <2>6. next = <<mem[k], reach[k]>>
    BY <2>2, <2>4
  <2>7. next[1] = mem[k] /\ next[2] = reach[k] /\ before # Unreadable /\ next # Unreadable
    BY <2>3, <2>4, <2>6
  <2>8. After(before) = <<Append(before[1], next[1]), next[2]>>
    BY <2>4, <2>5, <2>7
  <2>9. After(before) = <<Upto(k), reach[k]>>
    BY <2>1, <2>5, <2>7, <2>8
  <2> HIDE DEF After
  <2>10. QED BY <2>4, <2>9
<1>6. Upto(0) = <<>>
  OBVIOUS
<1>7. \A k \in 0 .. n : solution[k] = <<Upto(k), reach[k]>>
  OBVIOUS
<1>8. IsRead(solution)
  <2> HIDE DEF Upto, After
  <2>1. \A k \in 0 .. n : solution[k] = IF k = 0 THEN <<<<>>, 0>> ELSE After(solution[k - 1])
    <3>1. ASSUME NEW k \in 0 .. n, k = 0 PROVE solution[k] = <<<<>>, 0>>
      BY <1>4, <1>6, <1>7, <3>1
    <3>2. ASSUME NEW k \in 0 .. n, k # 0 PROVE solution[k] = After(solution[k - 1])
      <4>1. k \in 1 .. n /\ k - 1 \in 0 .. n
        BY <3>2
      <4>2. solution[k - 1] = <<Upto(k - 1), reach[k - 1]>> /\ solution[k] = <<Upto(k), reach[k]>>
        BY <1>7, <4>1
      <4> HIDE DEF solution
      <4>3. QED BY <1>5, <4>1, <4>2
    <3> HIDE DEF solution
    <3>3. QED BY <3>1, <3>2
  <2>2. DOMAIN solution = 0 .. n /\ solution = [k \in DOMAIN solution |-> solution[k]]
    OBVIOUS
  <2> HIDE DEF solution
  <2>3. QED BY <2>1, <2>2
<1> DEFINE Read == CHOOSE f : IsRead(f)
<1>9. IsRead(Read)
  <2> HIDE DEF IsRead, solution
  <2>1. QED BY <1>8
<1>10. PICK read : read = Read
  OBVIOUS
<1>11. IsRead(read)
  <2> HIDE DEF IsRead, Read
  <2>1. QED BY <1>9, <1>10
<1>12. \A k \in 0 .. n : read[k] = IF k = 0 THEN <<<<>>, 0>> ELSE After(read[k - 1])
  <2> HIDE DEF After
  <2>1. QED BY <1>11
<1> DEFINE T == {k \in 0 .. n : read[k] # <<Upto(k), reach[k]>>}
<1>13. T = {}
  <2> HIDE DEF After, Upto
  <2> SUFFICES ASSUME T # {} PROVE FALSE
    OBVIOUS
  <2>1. T \subseteq Nat
    OBVIOUS
  <2>2. PICK m \in T : \A k \in T : m <= k
    <3> HIDE DEF T
    <3>1. QED BY <2>1, LeastNatural
  <2>3. m \in 0 .. n /\ read[m] # <<Upto(m), reach[m]>>
    OBVIOUS
  <2>4. m # 0
    BY <1>4, <1>6, <1>12, <2>3
  <2>5. m \in 1 .. n /\ m - 1 \in 0 .. n /\ m - 1 \notin T
    BY <2>2, <2>3, <2>4
  <2>6. read[m - 1] = <<Upto(m - 1), reach[m - 1]>>
    BY <2>5
  <2>7. read[m] = <<Upto(m), reach[m]>>
    <3>1. read[m] = After(read[m - 1])
      BY <1>12, <2>4, <2>5
    <3>2. After(<<Upto(m - 1), reach[m - 1]>>) = <<Upto(m), reach[m]>>
      BY <1>5, <2>5
    <3>3. QED BY <2>6, <3>1, <3>2
  <2>8. QED BY <2>3, <2>7
<1>14. read[n] = <<mem, reach[n]>>
  BY <1>3, <1>13
<1>15. Deserialized(bytes, n) = IF Read[n] = Unreadable THEN Unreadable ELSE Read[n][1]
  BY DEF Deserialized
<1>16. QED
  <2> HIDE DEF Read
  <2>1. <<mem, reach[n]>> # Unreadable /\ <<mem, reach[n]>>[1] = mem
    BY DEF Unreadable
  <2>2. QED BY <1>1, <1>2, <1>10, <1>14, <1>15, <2>1

\* The file that has been written is that of the sections.
FileWritten ==
  phase = "done" => file = Serialized([s \in DOMAIN sections |-> Written(sections[s])])

LEMMA FileStep ==
  ASSUME FileWritten, [Next]_vars
  PROVE  FileWritten'
<1>1. CASE WriteFile
  BY <1>1 DEF WriteFile, FileWritten
<1>2. CASE UNCHANGED vars \/ Finished
  BY <1>2 DEF Finished, FileWritten, vars, Written
<1>3. CASE Next /\ ~WriteFile /\ ~Finished
  <2> DEFINE Open == phase = "assemble" /\ phase' \in {"assemble", "write", "failed"}
  <2> SUFFICES Open
    BY DEF FileWritten
  <2>1. CASE Comment \/ EndOfSource \/ Refuse
    BY <2>1 DEF Comment, EndOfSource, Refuse, Panic, Word
  <2>2. CASE PositionLabel \/ UseLabel
    BY <2>2 DEF PositionLabel, UseLabel, Panic, Word
  <2>3. CASE CharLiteral
    BY <2>3 DEF CharLiteral, TakeOperand, emit, Panic, Word
  <2>4. CASE NumberLiteral
    BY <2>4 DEF NumberLiteral, TakeOperand, emit, Panic, Word
  <2>5. CASE Expect \/ Section
    BY <2>5 DEF Expect, Section, Directive, Panic, Word
  <2>6. CASE Move
    BY <2>6 DEF Move, Directive, Panic, Word
  <2>7. CASE Ascii
    BY <2>7 DEF Ascii, emit, Directive, Panic, Word
  <2>8. CASE Export \/ Import
    BY <2>8 DEF Export, Import, Directive, Panic, Word
  <2>9. CASE PlainInstruction \/ InstructionWithArgument \/ Jump
    BY <2>9 DEF PlainInstruction, InstructionWithArgument, Jump, Encoded, emit, Panic, Word
  <2>10. QED
    BY <1>3, <2>1, <2>2, <2>3, <2>4, <2>5, <2>6, <2>7, <2>8, <2>9 DEF Next
<1>4. QED BY <1>1, <1>2, <1>3

\* The linker reads back every object file whose sizes fit in their two bytes.
THEOREM FilesReadBack == Spec => []ReadBack
<1>1. Init => FileWritten
  BY DEF Init, FileWritten
<1>2. FileWritten /\ [Next]_vars => FileWritten'
  BY FileStep
<1>3. TypeInv /\ FileWritten => ReadBack
  <2> SUFFICES ASSUME TypeInv, FileWritten, phase = "done",
                      \A s \in DOMAIN sections : SizesFit(sections[s])
               PROVE  Deserialized(file, Len(sections)) =
                        InMemory([s \in DOMAIN sections |-> Written(sections[s])])
    BY DEF ReadBack
  <2> DEFINE parts == [s \in DOMAIN sections |-> Written(sections[s])]
  <2>1. PICK n \in Nat : n = Len(sections) /\ DOMAIN sections = 1 .. n
    BY SequenceParts DEF TypeInv, Shape
  <2>2. ASSUME NEW i \in 1 .. n PROVE Writable(parts[i])
    <3>1. PICK s : s = sections[i] /\ IsSection(s) /\ SizesFit(s)
      BY <2>1 DEF TypeInv, Shape
    <3>2. PICK w : w = Written(s) /\ parts[i] = w
      BY <2>1, <3>1
    <3>3. w.labels = s.labels /\ w.mask = s.mask
      BY <3>2 DEF Written
    <3>4. DOMAIN w.data = 1 .. s.data_pos /\ w.data = [k \in DOMAIN w.data |-> w.data[k]]
      BY <3>2 DEF Written
    <3>5. PICK S : S = {w.data[k] : k \in 1 .. s.data_pos}
      OBVIOUS
    <3>6. s.data_pos \in Nat /\ IsSequence(s.labels) /\ IsSequence(s.mask)
      BY <3>1 DEF IsSection
    <3>7. w.data \in Seq(S)
      BY <3>4, <3>5, <3>6, MadeSequence, Zenon
    <3>8. IsSequence(w.data) /\ Len(w.data) = s.data_pos
      BY <3>4, <3>6, <3>7 DEF IsSequence
    <3>9. QED BY <3>1, <3>2, <3>3, <3>6, <3>8 DEF Writable, SizesFit
  <2> HIDE DEF parts
  <2>3. DOMAIN parts = 1 .. n
    BY <2>1 DEF parts
  <2>4. Deserialized(Serialized(parts), n) = InMemory(parts)
    BY <2>2, <2>3, FileReadBack
  <2>5. file = Serialized(parts)
    BY DEF FileWritten, parts
  <2>6. QED BY <2>1, <2>4, <2>5 DEF parts
<1>4. QED BY <1>1, <1>2, <1>3, TypesKept, PTL DEF Spec
===============================================================================
