----------------------------- MODULE ObjectFormat ------------------------------
(***************************************************************************)
(* The bytes of an object file, binutils/sections.c: what                  *)
(* serialize_section writes of a section and what deserialize_section      *)
(* makes of them.  The name is one unit here; everything else is written   *)
(* byte by byte, the three sizes as two bytes each.                        *)
(***************************************************************************)
EXTENDS Integers, Sequences, SequencesExt

CONSTANTS
  ByteSize,   \* 256: the values of a byte
  EntrySize   \* 72: sizeof(struct label_entry)

ASSUME ByteAssumption == ByteSize \in Nat \ {0} /\ EntrySize \in Nat

\* Two bytes of the label mask for the address, two for the offset.
MaskEntrySize == 4

low(x)  == x % ByteSize
high(x) == (x \div ByteSize) % ByteSize

Header(x) == [part |-> "header", of |-> x]
SizeBytes(n) == <<Header(low(n)), Header(high(n))>>

\* A record of so many bytes, each marked with the record and its place in it.
Spread(part, records, size) ==
  [k \in 1 .. Len(records) * size |->
     [part |-> part, of |-> records[((k - 1) \div size) + 1], byte |-> (k - 1) % size]]

DataBytes(sect) == Spread("data", sect.data, 1)
LabelBytes(sect) == Spread("label", sect.labels, EntrySize)
MaskBytes(sect) == Spread("mask", sect.mask, MaskEntrySize)

\* Mutant: the size of the mask is taken for that of the labels.
serialize_section_MaskForLabels(sect) ==
  <<Header(sect.name), Header(sect.executable)>>
    \o SizeBytes(Len(DataBytes(sect)))
    \o SizeBytes(Len(MaskBytes(sect)))
    \o SizeBytes(Len(MaskBytes(sect)))
    \o DataBytes(sect) \o LabelBytes(sect) \o MaskBytes(sect)

serialize_section(sect) ==
  <<Header(sect.name), Header(sect.executable)>>
    \o SizeBytes(Len(DataBytes(sect)))
    \o SizeBytes(Len(LabelBytes(sect)))
    \o SizeBytes(Len(MaskBytes(sect)))
    \o DataBytes(sect) \o LabelBytes(sect) \o MaskBytes(sect)

HeaderSize == 8

Unreadable == <<>>

\* deserialize_section on what is left of the file: the parts of the section and where
\* the next one begins.  A header that is something else, or behind the end of the
\* file, is read as what happens to be there: the section is lost.
deserialize_section(file, at) ==
  LET header == SubSeq(file, at + 1, at + HeaderSize)
      size(k) == header[k].of + ByteSize * header[k + 1].of
      data == at + HeaderSize + 1
      label_vec == data + size(3)
      label_mask == label_vec + size(5)
  IN  IF Len(header) < HeaderSize \/ \E k \in 1 .. HeaderSize : header[k].part # "header"
      THEN Unreadable
      ELSE <<[name |-> header[1].of, executable |-> header[2].of,
              data |-> SubSeq(file, data, label_vec - 1),
              label_vec |-> SubSeq(file, label_vec, label_mask - 1),
              label_mask |-> SubSeq(file, label_mask, label_mask + size(7) - 1)],
             label_mask + size(7) - 1>>

\* The sections of a file, as many as its header says.
Deserialized(file, n_sections) ==
  LET Read[n \in 0 .. n_sections] ==
        IF n = 0 THEN <<<<>>, 0>>
        ELSE LET before == Read[n - 1]
                 next == deserialize_section(file, before[2])
             IN  IF before = Unreadable \/ next = Unreadable THEN Unreadable
                 ELSE <<Append(before[1], next[1]), next[2]>>
  IN  IF Read[n_sections] = Unreadable THEN Unreadable ELSE Read[n_sections][1]

Serialized(sections) ==
  FlattenSeq([i \in DOMAIN sections |-> serialize_section(sections[i])])

\* The same sections, as their parts lie in memory.
InMemory(sections) ==
  [i \in DOMAIN sections |->
     [name |-> sections[i].name, executable |-> sections[i].executable,
      data |-> DataBytes(sections[i]), label_vec |-> LabelBytes(sections[i]),
      label_mask |-> MaskBytes(sections[i])]]
===============================================================================
