---------------------------- MODULE MCSharedQueue ----------------------------
(* Small instances of SharedQueue for TLC.                                       *)
EXTENDS SharedQueue, TLC

Symmetry == Permutations(Guests) \cup Permutations(Names)
===============================================================================
