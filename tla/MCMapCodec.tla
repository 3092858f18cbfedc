------------------------------ MODULE MCMapCodec ------------------------------
(* Small instances of MapCodec for TLC.                                          *)
EXTENDS MapCodec

CONSTANTS a, b

\* Keys and values of every length from 0 to 3, with each other's prefixes among
\* them, so that a cursor that is off by one cuts out another string.
MCKeys == {<<>>, <<a>>, <<a, b>>, <<b, a, a>>}
MCValues == {<<>>, <<b>>, <<a, b>>, <<b, a, a>>}
MCChars == {a, b, Zero}

\* Nothing, as on wazero; too little for the values that are cut; and enough for any.
MCForeign == {<<>>, <<b>>, <<a, a, Zero, b>>}
===============================================================================
