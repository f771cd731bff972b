--------------------------- MODULE MCSessionCache ---------------------------
EXTENDS SessionCache, TLC

CONSTANTS c1, c2, s1, s2, s3, i1, i2, i3

Conns == {c1, c2}
Sessions == {s1, s2, s3}
Ids3 == {i1, i2, i3}

\* Connections, addresses of sessions and session IDs are interchangeable.
Sym3 == Permutations(Conns) \cup Permutations(Sessions) \cup Permutations(Ids3)
=============================================================================
