----------------------------- MODULE MCBufferPool -----------------------------
(* Model-checking instances of BufferPool.                                   *)
EXTENDS BufferPool, TLC

\* Threads, addresses and contents are interchangeable.
Symm == Permutations(Threads) \cup Permutations(Bufs) \cup Permutations(Data)
===============================================================================
