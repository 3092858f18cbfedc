---------------------------- MODULE MCRequestFlow ----------------------------
(* Small instances of RequestFlow for TLC.                                       *)
EXTENDS RequestFlow, TLC

\* Requests are interchangeable (safety runs only).
Symmetry == Permutations(Requests)
===============================================================================
