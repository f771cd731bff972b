----------------------------- MODULE MCErrQueue -----------------------------
EXTENDS ErrQueue, TLC

CONSTANTS s1, s2

Strs2 == {s1, s2}

\* Addresses of strings are interchangeable.
Sym2 == Permutations(Strs2)
=============================================================================
