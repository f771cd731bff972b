------------------------------- MODULE MCRand -------------------------------
EXTENDS Rand, TLC

\* Keys are not permuted: Init picks one of them.
Symm == Permutations(Threads)
=============================================================================
