--------------------------- MODULE MCDistroTypes ---------------------------
EXTENDS DistroTypes, SequencesExt

\* Lengths and values at the edges, and the tags of a known and an unknown
\* field of every wire type.
Alphabet == {0, 1, 3, \h08, \h0a, \h12, \h20, \h3a, \h3b, \h3c, \h3d, \h7f, \h80, \hff}

\* Longer ones: an embedded message that occurs twice, a group in it that is
\* closed outside of it, and a field number that is 1 only as an int32.
Longer ==
    {<<\h12, 2, \h20, 1, \h12, 3, \h0a, 1, 7>>,
     <<\h12, 4, \h20, 1, \h20, \h00>>,
     <<\h12, 3, \h3b, \h20, 1, \h3c>>,
     <<\h3b, \h39, 1, 2, 3, 4, 5, 6, 7, 8, \h3c, \h0a, 1, 7>>,
     <<\h8a, \h04, 1, 7>>,
     <<\h8a, \h02, 1, 7>>,
     <<\h3e, 1>>}

MCInputs == SeqOf(Alphabet, 4) \cup Longer

MCRoots == {"MsgUpdateParams", "MsgMint"}

Long == [i \in 1 .. 130 |-> 7]

\* A message with every field set to one of two values or to zero.
Filled(type, s1, s2, n1, n2) ==
    [f \in ScalarFields |->
        IF f[1] = type \/ \E n \in DOMAIN Schema[type] : Schema[type][n] = f[1]
        THEN IF Schema[f[1]][f[2]] = "varint"
             THEN IF f[2] = 6 THEN n2 ELSE n1
             ELSE IF f[2] % 2 = 1 THEN s1 ELSE s2
        ELSE Zero[f]]

MCMessages ==
    {<<type, Filled(type, s1, s2, n1, n2)>> :
        type \in DOMAIN Schema,
        s1 \in {<<>>, <<7>>, Long}, s2 \in {<<>>, <<7>>},
        n1 \in {0, 127, 128, 32767}, n2 \in {0, 1, 16384}}

=============================================================================
