---------------------------- MODULE MCRsaBlinding ----------------------------
EXTENDS RsaBlinding, TLC

CONSTANTS t1, t2, t3, b1, b2, b3

Threads3 == {t1, t2, t3}
Blindings3 == {b1, b2, b3}

\* Threads and BN_BLINDING objects are interchangeable.
Sym3 == Permutations(Threads3) \cup Permutations(Blindings3)
=============================================================================
