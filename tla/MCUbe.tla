-------------------------------- MODULE MCUbe ---------------------------------
(* Model-checking instances of Ube.                                          *)
EXTENDS Ube, TLC

Symm == Permutations(Threads)
===============================================================================
