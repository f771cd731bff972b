----------------------------- MODULE MCTreeDrbg -----------------------------
EXTENDS TreeDrbg, TLC

CONSTANTS t1, t2

Threads == {t1, t2}

Sym == Permutations(Threads)
=============================================================================
