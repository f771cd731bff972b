------------------------------ MODULE MCBioPair ------------------------------
EXTENDS BioPair, TLC

CONSTANTS s1, s2, b1, b2

\* one ring of one byte and one that can wrap with bytes on both sides
MCSize == [s \in Side |-> IF s = s1 THEN 3 ELSE 1]

\* nothing depends on the value of a byte
Bytes == Permutations({b1, b2})
=============================================================================
