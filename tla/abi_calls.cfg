\* A guest with any export called makes any host call, on both engines and ABIs.
CONSTANTS
  Word = 128
  Memories = {40, 64, 80}
  Samples <- SampleValues
  Starts <- StartValues
  Lengths <- LengthValues
  MaxLen = 2
SPECIFICATION Spec
INVARIANTS
  TypeOK
  ResultTellsEffect
  AnswerWhole
  BufferAsAsked
  SoundIsServed
  AccessorsAgree
