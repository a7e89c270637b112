----------------------------- MODULE MCRawEvent -----------------------------
EXTENDS RawEvent

CONSTANTS a, b, c, t, u

Symmetry == Permutations(UserTypes)

\* 512, 2048, 4096 words and so on, scaled to fragments of a few words.
Steps == {6, 11, 17}

OldAndCurrent == <<"old", "current">>
BothCurrent == <<"current", "current">>
FirstWords == <<a, b>>
NoneOrBoth == {<<>>, <<1, 2>>}
=============================================================================
