------------------------------- MODULE MCRuntime -------------------------------
(***************************************************************************)
(* Calls of every routine at the edges of its width, of both signs.        *)
(***************************************************************************)
EXTENDS Runtime

Word2(n) == <<n % 256, (n \div 256) % 256>>

\* High and low half: 32 bits are too wide for the model checker's integers.
Word4(h, l) == Word2(l) \o Word2(h)

Multiplications(fns, xs, ys) == {Multiplication(f, x, y) : f \in fns, x \in xs, y \in ys}

\* The least and the greatest remainder, for every sign the routine knows.
Divisions(fns, signs, qs, ds) ==
  {Division(f, q, d, r, n, e) :
     f \in fns, q \in qs, <<d, r>> \in UNION {{<<p[1], C!Zeros(Len(p[1]))>>, p} : p \in ds},
     n \in signs, e \in signs}

MCTask ==
  Multiplications({"MULU1"}, {<<0>>, <<19>>, <<255>>}, {<<1>>, <<19>>, <<255>>})
    \union Multiplications({"MULI2", "MULU2"}, {Word2(n) : n \in {0, 300, -300, 65535}},
                           {Word2(n) : n \in {1, 255, 258, -7}})
    \union Multiplications({"MULI4"}, {Word4(1, 2), Word4(-1, -300)}, {Word4(0, 258), Word4(-1, -7)})
    \union Divisions({"DIVU2", "MODU2"}, {FALSE}, {Word2(0), Word2(254)},
                     {<<Word2(1), Word2(0)>>, <<Word2(257), Word2(256)>>})
    \union Divisions({"DIVU2", "MODU2"}, {FALSE}, {Word2(1)},
                     {<<Word2(32767), Word2(32766)>>, <<Word2(65534), Word2(1)>>})
    \union Divisions({"DIVI2", "MODI2"}, BOOLEAN, {Word2(1), Word2(126)},
                     {<<Word2(7), Word2(6)>>, <<Word2(257), Word2(256)>>})
    \union Divisions({"DIVU4", "MODU4"}, {FALSE}, {Word4(0, 65534), Word4(0, 1)},
                     {<<Word4(1, 1), Word4(1, 0)>>})
    \union Divisions({"DIVI4", "MODI4"}, BOOLEAN, {Word4(0, 300)}, {<<Word4(1, 5), Word4(1, 4)>>})
    \union {DivisionByZero(f, Word2(1000)) : f \in {"DIVU2", "MODI2"}}
    \union {DivisionByZero("DIVI4", Word4(1, 2))}

MCRomAddr == 0 .. 447
MCRamAddr == 65488 .. 65535
===============================================================================
