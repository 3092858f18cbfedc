------------------------------- MODULE MapCodec -------------------------------
(* EncodeMap and DecodeMap (proxywasm/common/codec.go): the layout in which      *)
(* header maps cross the memory of the guest.                                    *)
(*                                                                               *)
(* An encoding is a header, the count and the two sizes of each entry, followed  *)
(* by the bytes of keys and values, each with a terminator. The header is kept as*)
(* a sequence of pairs, offsets count from the end of it, and a character is a   *)
(* model value. One action is one iteration of a loop.                           *)
(*                                                                               *)
(* What DecodeMap is given is a slice of the memory of a guest. wazero caps its  *)
(* capacity; wasmer's GetMemory leaves it open up to the end of the memory, and a*)
(* slice expression panics past the capacity, not past the length.               *)
EXTENDS Integers, Sequences, FiniteSets

CONSTANTS Chars,         \* the bytes that strings are made of
          Keys, Values,  \* the strings that are keys and values: sequences
          Foreign,       \* what may lie between the slice and its capacity: <<>>
                         \* when it is capped, else whatever the memory holds
          Zero           \* the terminator, '0' in EncodeMap and 0 in the guests

ASSUME StringsAssumption ==
  /\ Keys \subseteq Seq(Chars) /\ Values \subseteq Seq(Chars)
  /\ Foreign \subseteq Seq(Chars) /\ Zero \in Chars

Maps == UNION {[D -> Values] : D \in SUBSET Keys}
EmptyMap == [k \in {} |-> Zero]

VARIABLES
  m,        \* the map to encode
  pc,       \* "encode", "decode", "done" or "panic"
  todo,     \* the keys that range has not come to yet
  sizes,    \* the header: pairs of sizes, in the order of the entries
  data,     \* the bytes after the header
  behind,   \* the bytes between the length and the capacity of the slice
  whole,    \* the decoder is given all of the encoding
  i,        \* the entry DecodeMap is at
  dataPtr,  \* where it is in data, from 0
  res       \* what it has decoded

vars == <<m, pc, todo, sizes, data, behind, whole, i, dataPtr, res>>

Init ==
  /\ m \in Maps
  /\ pc = "encode"
  /\ todo = DOMAIN m
  /\ sizes = <<>> /\ data = <<>> /\ behind = <<>> /\ whole = TRUE
  /\ i = 1 /\ dataPtr = 0 /\ res = EmptyMap

-------------------------------------------------------------------------------
\* EncodeMap, one entry: range takes the keys in any order. The mutant writes the
\* two sizes the wrong way round.
SizesOf_Swapped(k) == <<Len(m[k]), Len(k)>>
SizesOf(k) == <<Len(k), Len(m[k])>>

EncodeEntry(k) ==
  /\ pc = "encode" /\ k \in todo
  /\ todo' = todo \ {k}
  /\ sizes' = Append(sizes, SizesOf(k))
  /\ data' = data \o k \o <<Zero>> \o m[k] \o <<Zero>>
  /\ UNCHANGED <<m, pc, behind, whole, i, dataPtr, res>>

\* DecodeMap is called with the first n bytes of the data: all of them, or what is
\* left when the caller passes a size that is too small; then the rest of the encoding
\* or something else follows. It returns nil if no data follows the header; no map at
\* all is encoded as nil.
Rest(n) == SubSeq(data, n + 1, Len(data))

DecodeMap(n, b) ==
  /\ pc = "encode" /\ todo = {}
  /\ data' = SubSeq(data, 1, n)
  /\ behind' = b
  /\ whole' = (n = Len(data))
  /\ pc' = IF n = 0 THEN "done" ELSE "decode"
  /\ UNCHANGED <<m, todo, sizes, i, dataPtr, res>>

\* The check before a key or a value is cut out: size is the size of the key in
\* both places. The mutants stop at the last byte, and do not stop.
InRange_Short(ptr, size) == ptr < Len(data) /\ ptr + size < Len(data)
InRange_Any(ptr, size) == TRUE
InRange(ptr, size) == ptr < Len(data) /\ ptr + size <= Len(data)

\* The terminator after a key or a value is skipped. The mutants take it for one of
\* the bytes, and skip two.
After_NoZero(ptr, size) == ptr + size
After_Twice(ptr, size) == ptr + size + 2
After(ptr, size) == ptr + size + 1

\* rawData[ptr : ptr+size], which Go allows up to the capacity.
capacity == Len(data) + Len(behind)
Slice(ptr, size) == SubSeq(data \o behind, ptr + 1, ptr + size)

keySize == sizes[i][1]
valueSize == sizes[i][2]
valuePtr == After(dataPtr, keySize)

\* DecodeMap, one entry. The value is not checked with its own size: if it passes the
\* length then it ends with bytes from behind.
DecodeEntry ==
  /\ pc = "decode" /\ i <= Len(sizes)
  /\ InRange(dataPtr, keySize) /\ InRange(valuePtr, keySize)
  /\ valuePtr + valueSize <= capacity
  /\ res' = [k \in DOMAIN res \cup {Slice(dataPtr, keySize)} |->
               IF k = Slice(dataPtr, keySize) THEN Slice(valuePtr, valueSize) ELSE res[k]]
  /\ dataPtr' = After(valuePtr, valueSize)
  /\ i' = i + 1
  /\ UNCHANGED <<m, pc, todo, sizes, data, behind, whole>>

\* DecodeMap leaves the loop at a key or a value that is out of range.
Break ==
  /\ pc = "decode" /\ i <= Len(sizes)
  /\ ~InRange(dataPtr, keySize) \/ ~InRange(valuePtr, keySize)
  /\ pc' = "done"
  /\ UNCHANGED <<m, todo, sizes, data, behind, whole, i, dataPtr, res>>

\* The value passes the capacity too.
SlicePanics ==
  /\ pc = "decode" /\ i <= Len(sizes)
  /\ InRange(dataPtr, keySize) /\ InRange(valuePtr, keySize)
  /\ valuePtr + valueSize > capacity
  /\ pc' = "panic"
  /\ UNCHANGED <<m, todo, sizes, data, behind, whole, i, dataPtr, res>>

\* DecodeMap returns after the last entry.
DecodeReturns ==
  /\ pc = "decode" /\ i > Len(sizes)
  /\ pc' = "done"
  /\ UNCHANGED <<m, todo, sizes, data, behind, whole, i, dataPtr, res>>

Next == \/ \E k \in Keys : EncodeEntry(k)
        \/ \E n \in 0..Len(data) : \E b \in Foreign \cup {Rest(n)} : DecodeMap(n, b)
        \/ DecodeEntry \/ Break \/ SlicePanics \/ DecodeReturns

Spec == Init /\ [][Next]_vars

-------------------------------------------------------------------------------
(* Properties                                                                    *)

\* The cursor of DecodeMap stays in a whole encoding, however much lies behind it, and
\* passes the capacity by no more than a terminator when it is cut.
TypeOK ==
  /\ m \in Maps
  /\ pc \in {"encode", "decode", "done", "panic"}
  /\ todo \subseteq DOMAIN m
  /\ Len(sizes) = Cardinality(DOMAIN m \ todo)
  /\ i \in 1..(Len(sizes) + 1)
  /\ dataPtr \in 0..(capacity + 1)
  /\ whole => dataPtr <= Len(data)

\* How many bytes of the value decoded last came from behind the slice, if positive.
past == dataPtr - 1 - Len(data)

\* The value of k has its own bytes up to the length of the slice, and ends with the
\* first bytes behind it.
RunsOver(k) ==
  /\ Len(res[k]) = Len(m[k]) /\ past \in 1..Len(m[k])
  /\ \A c \in 1..(Len(m[k]) - past) : res[k][c] = m[k][c]
  /\ \A c \in 1..past : res[k][Len(m[k]) - past + c] = behind[c]

\* Whatever the order of the entries, wherever the bytes were cut off and whatever lies
\* behind them, DecodeMap returns no key that was not encoded, and the value that was
\* encoded with it. Only the value that the cut goes through may run over, and does not
\* if nothing was cut or the capacity ends with the slice.
NothingInvented ==
  /\ DOMAIN res \subseteq DOMAIN m
  /\ \A k \in DOMAIN res : res[k] = m[k] \/ RunsOver(k)
  /\ \A k, l \in DOMAIN res : res[k] # m[k] /\ res[l] # m[l] => k = l
  /\ whole \/ behind = <<>> => \A k \in DOMAIN res : res[k] = m[k]

\* DecodeMap never panics on what EncodeMap made. The check of the value with the size
\* of the key loses entries; if it does then also one whose key is longer than its
\* value and terminator. Maps without such an entry survive in every order.
OnlyShortValuesLost ==
  whole =>
    /\ pc # "panic"
    /\ pc = "done" /\ res # m => \E k \in DOMAIN m \ DOMAIN res : Len(k) > Len(m[k]) + 1

\* The assertion of TestEncodeDecodeMap: what was encoded is decoded as it was.
RoundTrip == pc = "done" /\ whole => res = m
===============================================================================
