--------------------------- MODULE MCWazeroInstance ---------------------------
(* Small instances of WazeroInstance for TLC.                                    *)
EXTENDS WazeroInstance, TLC

\* The goroutines of one kind are interchangeable (safety runs only).
Symmetry == Permutations(Users) \cup Permutations(Starters) \cup Permutations(Stoppers)
===============================================================================
