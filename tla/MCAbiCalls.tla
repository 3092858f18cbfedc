------------------------------ MODULE MCAbiCalls ------------------------------
(* AbiCalls with an int32 of 7 bits: a memory below and one above "2 GiB".       *)
EXTENDS AbiCalls

\* Around 0, the end of the smaller memory, the end of the larger one (-50 is 78
\* unsigned), the least and the largest int32; a block at 12 holds all that is sent.
SampleValues == {-64, -50, -1, 0, 1, 12, 38, 40, 63}
StartValues == {-1, 0, 1, 2, 3}
LengthValues == {-1, 0, 1, 2, 63}
===============================================================================
