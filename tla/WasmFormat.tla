------------------------------ MODULE WasmFormat ------------------------------
(* The WebAssembly binary format, as far as loadCustomSections (wasmer/debug.go)  *)
(* reads it: how a compiler has written the module that NewModule gets.          *)
EXTENDS Integers, Sequences

CONSTANTS Base,       \* 128: a byte of Base or more has the continuation bit
          MaxGroups,  \* 5: bytes of the longest LEB128
          Word,       \* 2^32
          Modules,    \* modules: sequences of sections, see Contents
          Texts       \* what NewModule may get instead, the text form

SecCustom == 0
SecCode == 10

Preamble == <<0, 97>>  \* its length only matters

\* n without its last k groups of bits.
Shifted(n) ==
  LET q[k \in 0..MaxGroups] == IF k = 0 THEN n ELSE q[k - 1] \div Base IN q

\* n in LEB128 of that many bytes: of as few as it needs, or of more when a compiler
\* left room for it and filled it in afterwards.
Number(n, groups) ==
  [k \in 1..groups |-> (Shifted(n)[k - 1] % Base) + IF k < groups THEN Base ELSE 0]
Fits(n, groups) == groups \in 1..MaxGroups /\ Shifted(n)[groups] = 0

\* A section has a type and a body; a custom one has a name as well. How many bytes its
\* size and the length of its name take, is the choice of the compiler.
Contents(s) ==
  IF s.type = SecCustom THEN Number(Len(s.name), s.nameBytes) \o s.name \o s.body
                        ELSE s.body
Section(s) == <<s.type>> \o Number(Len(Contents(s)), s.sizeBytes) \o Contents(s)

\* The bytes up to the end of the k-th section.
UpTo(mod) ==
  LET q[k \in 0..Len(mod)] == IF k = 0 THEN Preamble ELSE q[k - 1] \o Section(mod[k])
  IN  q
Binary(mod) == UpTo(mod)[Len(mod)]

-------------------------------------------------------------------------------
ASSUME WordAssumption ==
  Base \in Nat /\ Base >= 2 /\ MaxGroups \in Nat \ {0} /\ Word \in Nat \ {0}

ValidSection(s) ==
  /\ s.type \in Nat /\ s.body \in Seq(Nat)
  /\ IF s.type = SecCustom
       THEN s.name \in Seq(Nat) /\ Len(s.name) < Word /\ Fits(Len(s.name), s.nameBytes)
       ELSE s.body # <<>>
  /\ Len(Contents(s)) < Word /\ Fits(Len(Contents(s)), s.sizeBytes)

\* Sizes are uint32, a section other than a custom one has at least a count of what
\* is in it, and there is one code section at the most.
ASSUME ModulesAssumption ==
  \A mod \in Modules :
    /\ Len(mod) \in Nat /\ DOMAIN mod = 1..Len(mod)
    /\ \A k \in DOMAIN mod : ValidSection(mod[k])
    /\ \A k, l \in DOMAIN mod : mod[k].type = SecCode /\ mod[l].type = SecCode => k = l

\* A text begins with a parenthesis, a comment or a space, not like a module. It may be
\* shorter than the preamble: (func) is a text.
ASSUME TextsAssumption ==
  \A t \in Texts : t \in Seq(Nat) /\ t # <<>> /\ t[1] # Preamble[1]
===============================================================================
