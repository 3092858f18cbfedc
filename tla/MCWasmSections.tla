---------------------------- MODULE MCWasmSections ----------------------------
(* Small instances of WasmSections for TLC.                                      *)
EXTENDS WasmSections

\* The number of bytes that n needs.
Least(n) == Min({g \in 1..MaxGroups : Fits(n, g)})

\* Numbers of the least length, of the greatest and between, the two of a section not
\* alike. Names that are prefixes of each other, with bytes that look like a continuation, and
\* bodies that look like a section.
CustomSecs ==
  {[type |-> SecCustom, name |-> n, body |-> b, nameBytes |-> l[1], sizeBytes |-> l[2]] :
     n \in {<<>>, <<3>>, <<3, 1>>}, b \in {<<>>, <<0, 1, 0>>},
     l \in {<<2, 3>>, <<MaxGroups, MaxGroups - 1>>}}
  \cup
  {[type |-> SecCustom, name |-> n, body |-> b, nameBytes |-> Least(Len(n)),
    sizeBytes |-> Least(Least(Len(n)) + Len(n) + Len(b))] :
     n \in {<<>>, <<3>>, <<3, 1>>}, b \in {<<>>, <<0, 1, 0>>}}

\* A section that the format requires to have contents.
OtherSecs ==
  [type : {1, SecCode, SecDataCount}, body : {<<3>>, <<2, 0, 1>>}, sizeBytes : {2, MaxGroups}]

Secs == CustomSecs \cup OtherSecs

\* At most one section of each type other than custom.
Distinct(m) ==
  \A k, l \in DOMAIN m : m[k].type = m[l].type => k = l \/ m[k].type = SecCustom

MCModules == {m \in UNION {[1..n -> Secs] : n \in 0..3} : Distinct(m)}

\* Shorter than the preamble, as long, and longer.
MCTexts == {<<40>>, <<40, 41>>, <<40, 97, 41>>}
===============================================================================
