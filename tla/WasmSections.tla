----------------------------- MODULE WasmSections -----------------------------
(* loadCustomSections (wasmer/debug.go): the walk over the sections of a module  *)
(* in search of those with debug information, and of the offset of the code that *)
(* program counters are relative to. NewModule calls it for every module that    *)
(* wasmer has compiled: the bytes are those of a valid module, or its text form. *)
(*                                                                               *)
(* Offsets count from 0, as in Go; data[i] is bytes[at + 1] here.                *)
EXTENDS WasmFormat, FiniteSetsExt

CONSTANT Spares  \* how far the capacity of the slice may go beyond its length

ASSUME SparesAssumption == Spares \subseteq Nat

SecDataCount == 12  \* not in secTypeNames
secTypeNames == 0..11

VARIABLES
  module,    \* the module, or <<>> if the bytes are text
  bytes,     \* its bytes: data in the code
  spare,     \* the capacity of the slice beyond its length
  walk,      \* "preamble", "sections", "done", "error" or "panic"
  at,        \* the offset the walk is at: i in the code
  customSections,    \* name to data of the custom sections
  codeSectionOffset

wsVars == <<module, bytes, spare, walk, at, customSections, codeSectionOffset>>

\* Files are read into a slice with room to spare; other callers may leave little or none.
WSInit ==
  /\ \/ module \in Modules /\ bytes = Binary(module)
     \/ module = <<>> /\ bytes \in Texts
  /\ spare \in Spares
  /\ walk = "preamble" /\ at = 0
  /\ customSections = [name \in {} |-> <<>>]
  /\ codeSectionOffset = 0

\* bytes[from:to], of which to may lie in the capacity.
Part(from, to) == SubSeq(bytes, from + 1, to)

\* The bytes of readULEB128 from an offset on: up to the first without continuation bit.
Length(from) == Min({l \in 1..(Len(bytes) - from) : bytes[from + l] < Base})

\* It hands DecodeULeb128 one byte more, which is never looked at but must be there: a
\* slice may reach into the capacity, its end is exclusive. The mutant takes it for the
\* last byte.
Readable_Inclusive(from) == from + Length(from) + 1 < Len(bytes) + spare
Readable(from) == from + Length(from) + 1 <= Len(bytes) + spare

\* DecodeULeb128, wrapped to uint32 and of five bytes at the most: n[k] is the number that
\* the last k groups make. The mutant takes the groups in the order in which they come.
Decoded_BigEndian(from) ==
  LET groups == Min({Length(from), MaxGroups})
      n[k \in 0..groups] == IF k = 0 THEN 0 ELSE (bytes[from + k] % Base) + Base * n[k - 1]
  IN  n[groups] % Word
Decoded(from) ==
  LET groups == Min({Length(from), MaxGroups})
      n[k \in 0..groups] ==
        IF k = 0 THEN 0 ELSE (bytes[from + groups - k + 1] % Base) + Base * n[k - 1]
  IN  n[groups] % Word

-------------------------------------------------------------------------------
Stopped(outcome) ==
  /\ walk' = outcome
  /\ UNCHANGED <<module, bytes, spare, at, customSections, codeSectionOffset>>

\* The first bytes tell a module from its text.
HasPreamble == Len(bytes) >= Len(Preamble) /\ SubSeq(bytes, 1, Len(Preamble)) = Preamble

ReadPreamble ==
  /\ walk = "preamble" /\ HasPreamble
  /\ walk' = "sections" /\ at' = Len(Preamble)
  /\ UNCHANGED <<module, bytes, spare, customSections, codeSectionOffset>>

InvalidPreamble ==
  /\ walk = "preamble" /\ ~HasPreamble
  /\ Len(bytes) + spare >= Len(Preamble)
  /\ Stopped("error")

\* They are sliced before they are compared: a text that is too short is out of bounds.
PreamblePanics ==
  /\ walk = "preamble"
  /\ Len(bytes) + spare < Len(Preamble)
  /\ Stopped("panic")

AtSection == walk = "sections" /\ at < Len(bytes)
sectionType == bytes[at + 1]
sizeAt == at + 1                   \* i++
start == sizeAt + Length(sizeAt)   \* i += n

\* Section types that the table does not have, such as the count of data segments.
UnsupportedSection ==
  /\ AtSection
  /\ sectionType \notin secTypeNames
  /\ Stopped("error")

\* A section that is not a custom one is passed over; the code section leaves its offset.
\* The mutant takes the offset of its size.
SkipSection_OffsetOfSize ==
  /\ AtSection
  /\ sectionType \in secTypeNames \ {SecCustom} /\ Readable(sizeAt)
  /\ codeSectionOffset' = IF sectionType = SecCode THEN sizeAt ELSE codeSectionOffset
  /\ at' = start + Decoded(sizeAt)
  /\ UNCHANGED <<module, bytes, spare, walk, customSections>>

SkipSection ==
  /\ AtSection
  /\ sectionType \in secTypeNames \ {SecCustom} /\ Readable(sizeAt)
  /\ codeSectionOffset' = IF sectionType = SecCode THEN start ELSE codeSectionOffset
  /\ at' = start + Decoded(sizeAt)
  /\ UNCHANGED <<module, bytes, spare, walk, customSections>>

\* NewCustomSection of the bytes from start to end: the length of the name, the name,
\* the data.
nameAt == start + Length(start)
nameEnd == nameAt + Decoded(start)
NewCustomSection(end) == [name |-> Part(nameAt, nameEnd), data |-> Part(nameEnd, end)]

\* A later section of the same name takes the place of the earlier one.
CustomSection ==
  /\ AtSection
  /\ sectionType = SecCustom /\ Readable(sizeAt) /\ Readable(start)
  /\ LET end == start + Decoded(sizeAt)
         section == NewCustomSection(end)
     IN  /\ customSections' =
              [name \in DOMAIN customSections \cup {section.name} |->
                 IF name = section.name THEN section.data ELSE customSections[name]]
         /\ at' = end
  /\ UNCHANGED <<module, bytes, spare, walk, codeSectionOffset>>

\* One of the slices of readULEB128 is out of bounds.
ReadPanics ==
  /\ AtSection
  /\ sectionType \in secTypeNames
  /\ \/ ~Readable(sizeAt)
     \/ sectionType = SecCustom /\ ~Readable(start)
  /\ Stopped("panic")

WSReturn ==
  /\ walk = "sections" /\ at >= Len(bytes)
  /\ Stopped("done")

WSNext == ReadPreamble \/ InvalidPreamble \/ PreamblePanics \/ UnsupportedSection
          \/ SkipSection \/ CustomSection \/ ReadPanics \/ WSReturn

WSSpec == WSInit /\ [][WSNext]_wsVars

-------------------------------------------------------------------------------
(* Properties                                                                    *)

\* The walk never leaves the bytes.
WSTypeOK ==
  /\ walk \in {"preamble", "sections", "done", "error", "panic"}
  /\ at \in 0..Len(bytes)
  /\ codeSectionOffset \in 0..Len(bytes)
  /\ \A name \in DOMAIN customSections : Len(name) + Len(customSections[name]) < Len(bytes)

Customs == {k \in DOMAIN module : module[k].type = SecCustom}

\* The offset of the contents of the k-th section.
OffsetOf(k) ==
  Len(UpTo(module)[k]) - Len(Contents(module[k]))

\* Every custom section is found under its name with its data, the last one of a name
\* standing for all, and program counters are relative to the contents of the code
\* section: whatever the other sections are and however their sizes are written.
FoundAsWritten ==
  walk = "done" =>
    /\ DOMAIN customSections = {module[k].name : k \in Customs}
    /\ \A k \in Customs :
         \/ customSections[module[k].name] = module[k].body
         \/ \E l \in Customs : l > k /\ module[l].name = module[k].name
    /\ \A k \in DOMAIN module :
         module[k].type = SecCode => codeSectionOffset = OffsetOf(k)

\* A valid module is walked to its end unless it has a section that the table lacks or
\* ends with the length of the name of a custom section that has nothing else; a text is
\* refused unless not even the capacity has room for the preamble.
WalkedToTheEnd ==
  /\ walk = "error" /\ module # <<>> =>
       \E k \in DOMAIN module : module[k].type \notin secTypeNames
  /\ walk = "panic" =>
       IF module = <<>>
         THEN Len(bytes) + spare < Len(Preamble)
         ELSE /\ spare = 0
              /\ LET s == module[Len(module)]
                 IN  s.type = SecCustom /\ s.name = <<>> /\ s.body = <<>>
===============================================================================
