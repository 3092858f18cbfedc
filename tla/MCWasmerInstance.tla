--------------------------- MODULE MCWasmerInstance ---------------------------
(* Small instances of WasmerInstance for TLC.                                    *)
EXTENDS WasmerInstance, TLC

\* The goroutines of one kind are interchangeable.
Symmetry == Permutations(Users) \cup Permutations(Starters) \cup Permutations(Stoppers)
===============================================================================
