----------------------------- MODULE MCSharedData -----------------------------
(* Small instances of SharedData for TLC.                                        *)
EXTENDS SharedData, TLC

Symmetry == Permutations(Guests) \cup Permutations(Keys \ {EmptyKey})
              \cup Permutations(Values)
===============================================================================
