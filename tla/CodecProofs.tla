------------------------------ MODULE CodecProofs -----------------------------
(* Theorems about the two codecs: MapCodec, for any keys and values, in every    *)
(* order and cut off anywhere, and WasmSections, for modules of any sections and *)
(* of any length.                                                                *)
EXTENDS MapCodec, WasmSections, SequenceTheorems, FiniteSetTheorems, TLAPS

-------------------------------------------------------------------------------
(* The inductive invariant                                                       *)

CodecTypes ==
  /\ m \in Maps /\ pc \in {"encode", "decode", "done", "panic"} /\ whole \in BOOLEAN
  /\ sizes \in Seq(Nat \X Nat) /\ data \in Seq(Chars) /\ behind \in Seq(Chars)
  /\ i \in 1..(Len(sizes) + 1)

\* The j-th entry is that of key ks[j]: its sizes, and its bytes between off[j] and
\* off[j + 1] of all that was encoded.
Entry(ks, off, full, j) ==
  /\ sizes[j] = SizesOf(ks[j])
  /\ off[j + 1] = off[j] + Len(ks[j]) + Len(m[ks[j]]) + 2
  /\ \A c \in 1..Len(ks[j]) : full[off[j] + c] = ks[j][c]
  /\ \A c \in 1..Len(m[ks[j]]) : full[off[j] + Len(ks[j]) + 1 + c] = m[ks[j]][c]

\* The entries follow each other in the order in which range took the keys.
Laid(ks, off, full) ==
  /\ full \in Seq(Chars)
  /\ ks \in [1..Len(sizes) -> DOMAIN m]
  /\ off \in [1..(Len(sizes) + 1) -> 0..Len(full)]
  /\ off[1] = 0 /\ off[Len(sizes) + 1] = Len(full)
  /\ \A j \in 1..Len(sizes) : Entry(ks, off, full, j)
  /\ \A j, l \in 1..Len(sizes) : ks[j] = ks[l] => j = l
  /\ todo = DOMAIN m \ {ks[j] : j \in 1..Len(sizes)}

\* The value of k, which begins at from: the bytes are its own up to the length of the
\* slice, and those behind it from there.
Got(k, from) ==
  /\ from < Len(data) /\ from + Len(m[k]) <= capacity
  /\ res[k] \in Seq(Chars) /\ Len(res[k]) = Len(m[k])
  /\ \A c \in 1..Len(m[k]) :
       res[k][c] = IF from + c <= Len(data) THEN m[k][c] ELSE behind[from + c - Len(data)]

\* DecodeMap has the beginning of the bytes, or all; it stands at the start of an entry
\* and has got the entries before.
Read(ks, off, full) ==
  /\ pc = "encode" => data = full /\ behind = <<>> /\ whole /\ i = 1
  /\ pc # "encode" => todo = {}
  /\ Len(data) <= Len(full) /\ \A c \in 1..Len(data) : data[c] = full[c]
  /\ whole => Len(data) = Len(full)
  /\ dataPtr = off[i]
  /\ DOMAIN res = {ks[j] : j \in 1..(i - 1)}
  /\ \A j \in 1..(i - 1) : Got(ks[j], off[j] + Len(ks[j]) + 1)
  /\ whole => pc # "panic"
  /\ whole /\ pc = "done" =>
       i = Len(sizes) + 1 \/ (i <= Len(sizes) /\ Len(ks[i]) > Len(m[ks[i]]) + 1)

CodecInv == CodecTypes /\ \E ks, off, full : Laid(ks, off, full) /\ Read(ks, off, full)

-------------------------------------------------------------------------------
(* Strings                                                                       *)

LEMMA MapTypes ==
  ASSUME m \in Maps
  PROVE  /\ DOMAIN m \subseteq Keys /\ m = [k \in DOMAIN m |-> m[k]]
         /\ \A k \in DOMAIN m : /\ k \in Seq(Chars) /\ Len(k) \in Nat
                                /\ m[k] \in Seq(Chars) /\ Len(m[k]) \in Nat
<1>1. PICK D \in SUBSET Keys : m \in [D -> Values]
  BY DEF Maps
<1>2. /\ DOMAIN m \subseteq Keys /\ m = [k \in DOMAIN m |-> m[k]]
      /\ \A k \in DOMAIN m : k \in Keys /\ m[k] \in Values
  BY <1>1
<1>3. \A k \in DOMAIN m : k \in Seq(Chars) /\ m[k] \in Seq(Chars)
  BY <1>2, StringsAssumption DEF StringsAssumption
<1> QED BY <1>2, <1>3

LEMMA Concat ==
  ASSUME NEW a \in Seq(Chars), NEW b \in Seq(Chars)
  PROVE  /\ a \o b \in Seq(Chars) /\ Len(a \o b) = Len(a) + Len(b)
         /\ \A c \in 1..Len(a) : (a \o b)[c] = a[c]
         /\ \A c \in 1..Len(b) : (a \o b)[Len(a) + c] = b[c]
<1>1. /\ a \o b \in Seq(Chars) /\ Len(a \o b) = Len(a) + Len(b)
      /\ \A c \in 1..(Len(a) + Len(b)) : (a \o b)[c] = IF c <= Len(a) THEN a[c] ELSE b[c - Len(a)]
  BY ConcatProperties
<1>2. Len(a) \in Nat /\ Len(b) \in Nat
  OBVIOUS
<1> QED BY <1>1, <1>2

\* What EncodeMap puts behind the data of the entries before.
Encoded(d, k, v) == d \o k \o <<Zero>> \o v \o <<Zero>>

Extends(d, k, v, e) ==
  /\ e \in Seq(Chars) /\ Len(e) = Len(d) + Len(k) + Len(v) + 2
  /\ \A c \in 1..Len(d) : e[c] = d[c]
  /\ \A c \in 1..Len(k) : e[Len(d) + c] = k[c]
  /\ \A c \in 1..Len(v) : e[Len(d) + Len(k) + 1 + c] = v[c]

LEMMA Block ==
  ASSUME NEW d \in Seq(Chars), NEW k \in Seq(Chars), NEW v \in Seq(Chars), NEW e,
         e = Encoded(d, k, v)
  PROVE  Extends(d, k, v, e)
<1>1. PICK z : z = <<Zero>>
  OBVIOUS
<1>2. z \in Seq(Chars) /\ Len(z) = 1
  BY <1>1, StringsAssumption DEF StringsAssumption
<1>3. PICK p : p = d \o k
  OBVIOUS
<1>4. PICK q : q = p \o z
  OBVIOUS
<1>5. PICK r : r = q \o v
  OBVIOUS
<1>6. e = r \o z
  BY <1>1, <1>3, <1>4, <1>5 DEF Encoded
<1>7. /\ p \in Seq(Chars) /\ Len(p) = Len(d) + Len(k)
      /\ \A c \in 1..Len(d) : p[c] = d[c]
      /\ \A c \in 1..Len(k) : p[Len(d) + c] = k[c]
  BY <1>3, Concat
<1>8. /\ q \in Seq(Chars) /\ Len(q) = Len(p) + Len(z)
      /\ \A c \in 1..Len(p) : q[c] = p[c]
  BY ZenonT(40), <1>2, <1>4, <1>7, Concat
<1>9. /\ r \in Seq(Chars) /\ Len(r) = Len(q) + Len(v)
      /\ \A c \in 1..Len(q) : r[c] = q[c]
      /\ \A c \in 1..Len(v) : r[Len(q) + c] = v[c]
  BY ZenonT(40), <1>5, <1>8, Concat
<1>10. /\ e \in Seq(Chars) /\ Len(e) = Len(r) + Len(z)
       /\ \A c \in 1..Len(r) : e[c] = r[c]
  <2>1. /\ r \o z \in Seq(Chars) /\ Len(r \o z) = Len(r) + Len(z)
        /\ \A c \in 1..Len(r) : (r \o z)[c] = r[c]
    BY <1>2, <1>9, Concat
  <2> QED BY <1>6, <2>1
<1>11. /\ Len(d) \in Nat /\ Len(k) \in Nat /\ Len(v) \in Nat
       /\ Len(q) = Len(d) + Len(k) + 1 /\ Len(e) = Len(d) + Len(k) + Len(v) + 2
  BY <1>2, <1>7, <1>8, <1>9, <1>10
<1>12. \A c \in 1..Len(p) : e[c] = p[c]
  BY <1>7, <1>8, <1>9, <1>10, <1>11
<1>13. \A c \in 1..Len(d) : e[c] = d[c]
  BY <1>7, <1>11, <1>12
<1>14. \A c \in 1..Len(k) : e[Len(d) + c] = k[c]
  BY <1>7, <1>11, <1>12
<1>15. \A c \in 1..Len(v) : e[Len(d) + Len(k) + 1 + c] = v[c]
  BY <1>9, <1>10, <1>11
<1> QED BY <1>10, <1>11, <1>13, <1>14, <1>15 DEF Extends

\* A slice up to the capacity: what passes the length comes from behind.
LEMMA SliceIs ==
  ASSUME data \in Seq(Chars), behind \in Seq(Chars), NEW ptr \in Nat, NEW size \in Nat,
         ptr + size <= capacity
  PROVE  /\ Slice(ptr, size) \in Seq(Chars) /\ Len(Slice(ptr, size)) = size
         /\ \A c \in 1..size :
              Slice(ptr, size)[c] = IF ptr + c <= Len(data) THEN data[ptr + c]
                                    ELSE behind[ptr + c - Len(data)]
<1>1. PICK all : all = data \o behind
  OBVIOUS
<1>2. PICK x, y : x = Len(data) /\ y = Len(behind)
  OBVIOUS
<1>3. x \in Nat /\ y \in Nat /\ ptr + size <= x + y
  BY <1>2 DEF capacity
<1>4. /\ all \in Seq(Chars) /\ Len(all) = x + y
      /\ \A c \in 1..x : all[c] = data[c]
      /\ \A c \in 1..y : all[x + c] = behind[c]
  BY <1>1, <1>2, Concat
<1>5. \A c \in (ptr + 1)..(ptr + size) : all[c] \in Chars
  BY <1>3, <1>4
<1>6. /\ Slice(ptr, size) \in Seq(Chars) /\ Len(Slice(ptr, size)) = size
      /\ \A c \in 1..size : Slice(ptr, size)[c] = all[ptr + c]
  <2>1. Slice(ptr, size) = SubSeq(all, ptr + 1, ptr + size)
    BY <1>1 DEF Slice
  <2>2. \A c \in 1..size : (ptr + 1) + c - 1 = ptr + c
    OBVIOUS
  <2>3. ptr + 1 \in Int /\ ptr + size \in Int /\ (ptr + size) - (ptr + 1) + 1 = size
    OBVIOUS
  <2> QED BY <1>5, <2>1, <2>2, <2>3, SubSeqProperties
<1>7. ASSUME NEW c \in 1..size
      PROVE  all[ptr + c] = IF ptr + c <= x THEN data[ptr + c] ELSE behind[ptr + c - x]
  <2>1. CASE ptr + c <= x
    <3>1. ptr + c \in 1..x
      BY <1>3, <2>1
    <3> QED BY <1>4, <2>1, <3>1
  <2>2. CASE ~(ptr + c <= x)
    <3>1. PICK d : d = ptr + c - x
      OBVIOUS
    <3>2. d \in 1..y /\ ptr + c = x + d
      BY <1>3, <2>2, <3>1
    <3> QED BY <1>4, <2>2, <3>1, <3>2
  <2> QED BY <2>1, <2>2
<1> QED BY <1>2, <1>6, <1>7

-------------------------------------------------------------------------------
(* The inductive invariant holds                                                 *)

LEMMA CodecInit == Init => CodecInv
<1> SUFFICES ASSUME Init PROVE CodecInv
  OBVIOUS
<1> DEFINE ks == [j \in 1..0 |-> 0]
           off == [j \in 1..1 |-> 0]
<1>1. CodecTypes
  BY DEF Init, CodecTypes
<1>2. Len(sizes) = 0 /\ Len(data) = 0 /\ Len(<<>>) = 0 /\ <<>> \in Seq(Chars) /\ 1..0 = {}
  BY DEF Init
<1>3. /\ ks \in [1..0 -> DOMAIN m] /\ {ks[j] : j \in 1..0} = {}
      /\ off \in [1..1 -> 0..0] /\ off[1] = 0
  BY <1>2
<1> HIDE DEF ks, off
<1>4. Laid(ks, off, <<>>)
  <2>1. todo = DOMAIN m \ {ks[j] : j \in 1..0}
    BY <1>3 DEF Init
  <2> QED BY <1>2, <1>3, <2>1 DEF Laid
<1>5. Read(ks, off, <<>>)
  <2>1. i - 1 = 0 /\ DOMAIN res = {}
    BY DEF Init, EmptyMap
  <2>2. DOMAIN res = {ks[j] : j \in 1..(i - 1)}
    BY <1>3, <2>1
  <2>3. \A j \in 1..(i - 1) : FALSE
    BY <2>1
  <2> QED BY <1>2, <1>3, <2>2, <2>3 DEF Init, Read
<1> QED BY <1>1, <1>4, <1>5 DEF CodecInv

\* Range comes to one more key.
LEMMA EncodeKeeps ==
  ASSUME CodecInv, NEW k \in Keys, EncodeEntry(k)
  PROVE  CodecInv'
<1>1. PICK ks, off, full : Laid(ks, off, full) /\ Read(ks, off, full)
  BY DEF CodecInv
<1>2. PICK n : n = Len(sizes)
  OBVIOUS
<1>3. PICK e : e = data'
  OBVIOUS
<1>4. /\ n \in Nat /\ m \in Maps /\ sizes \in Seq(Nat \X Nat) /\ data \in Seq(Chars)
      /\ pc = "encode" /\ whole \in BOOLEAN
  BY <1>2 DEF CodecInv, CodecTypes, EncodeEntry
<1>5. data = full /\ behind = <<>> /\ whole /\ i = 1 /\ dataPtr = off[1]
  BY <1>1, <1>4 DEF Read
<1>6. /\ ks \in [1..n -> DOMAIN m] /\ off \in [1..(n + 1) -> 0..Len(full)]
      /\ off[1] = 0 /\ off[n + 1] = Len(full) /\ full \in Seq(Chars)
      /\ todo = DOMAIN m \ {ks[j] : j \in 1..n}
      /\ \A j, l \in 1..n : ks[j] = ks[l] => j = l
      /\ \A j \in 1..n : Entry(ks, off, full, j)
  BY <1>1, <1>2 DEF Laid
<1>7. k \in DOMAIN m /\ \A j \in 1..n : ks[j] # k
  BY <1>6 DEF EncodeEntry
<1>8. \A x \in DOMAIN m : /\ x \in Seq(Chars) /\ Len(x) \in Nat
                          /\ m[x] \in Seq(Chars) /\ Len(m[x]) \in Nat
  BY <1>4, MapTypes
<1>9. /\ e \in Seq(Chars) /\ Len(e) = Len(full) + Len(k) + Len(m[k]) + 2
      /\ \A c \in 1..Len(full) : e[c] = full[c]
      /\ \A c \in 1..Len(k) : e[Len(full) + c] = k[c]
      /\ \A c \in 1..Len(m[k]) : e[Len(full) + Len(k) + 1 + c] = m[k][c]
  <2>1. PICK v : v = m[k]
    OBVIOUS
  <2>2. k \in Seq(Chars) /\ v \in Seq(Chars) /\ full \in Seq(Chars)
    BY <1>6, <1>7, <1>8, <2>1
  <2>3. e = Encoded(full, k, v)
    BY <1>3, <1>5, <2>1 DEF EncodeEntry, Encoded
  <2>4. Extends(full, k, v, e)
    BY <2>2, <2>3, Block
  <2> QED BY <2>1, <2>4 DEF Extends
<1>10. /\ sizes' = Append(sizes, SizesOf(k)) /\ m' = m /\ pc' = pc /\ whole' = whole
       /\ behind' = behind
       /\ i' = i /\ dataPtr' = dataPtr /\ res' = res /\ todo' = todo \ {k} /\ data' = e
  BY <1>3 DEF EncodeEntry
<1>11. SizesOf(k) \in Nat \X Nat
  BY <1>7, <1>8 DEF SizesOf
<1>12. /\ sizes' \in Seq(Nat \X Nat) /\ Len(sizes') = n + 1 /\ sizes'[n + 1] = SizesOf(k)
       /\ \A j \in 1..n : sizes'[j] = sizes[j]
  BY <1>2, <1>4, <1>10, <1>11, AppendProperties
<1>13. CodecTypes'
  BY <1>4, <1>5, <1>9, <1>10, <1>12 DEF CodecTypes
<1>14. Len(full) \in Nat /\ Len(k) \in Nat /\ Len(m[k]) \in Nat /\ Len(e) \in Nat
  BY <1>6, <1>7, <1>8, <1>9
<1>15. /\ 1..n \subseteq 1..(n + 1) /\ n + 1 \in 1..(n + 1) /\ 1..(n + 1) \subseteq 1..(n + 2)
       /\ \A j \in 1..(n + 1) : j \in 1..n \/ j = n + 1
       /\ \A j \in 1..n : j # n + 1
       /\ n + 2 \in 1..(n + 2) /\ \A j \in 1..(n + 1) : j # n + 2
       /\ \A j \in 1..(n + 2) : j \in 1..(n + 1) \/ j = n + 2
  BY <1>4
<1>151. /\ 0..Len(full) \subseteq 0..Len(e) /\ Len(e) \in 0..Len(e)
  <2>1. Len(e) = Len(full) + Len(k) + Len(m[k]) + 2
    BY <1>9
  <2>2. PICK w, x, y, z : w = Len(e) /\ x = Len(full) /\ y = Len(k) /\ z = Len(m[k])
    OBVIOUS
  <2>3. w \in Nat /\ x \in Nat /\ y \in Nat /\ z \in Nat /\ w = x + y + z + 2
    BY <1>14, <2>1, <2>2
  <2>4. 0..x \subseteq 0..w /\ w \in 0..w
    BY <2>3
  <2> QED BY <2>2, <2>4
<1> DEFINE ks2 == [j \in 1..(n + 1) |-> IF j = n + 1 THEN k ELSE ks[j]]
           off2 == [j \in 1..(n + 2) |-> IF j = n + 2 THEN Len(e) ELSE off[j]]
<1>152. /\ ks2 \in [1..(n + 1) -> DOMAIN m] /\ ks2[n + 1] = k
       /\ \A j \in 1..n : ks2[j] = ks[j]
  BY <1>6, <1>7, <1>15
<1>16. /\ off2 \in [1..(n + 2) -> 0..Len(e)] /\ off2[n + 2] = Len(e)
       /\ \A j \in 1..(n + 1) : off2[j] = off[j]
  BY <1>6, <1>15, <1>151
<1> HIDE DEF ks2, off2
<1>17. \A j, l \in 1..(n + 1) : ks2[j] = ks2[l] => j = l
  BY <1>6, <1>7, <1>15, <1>152
<1>18. {ks2[j] : j \in 1..(n + 1)} = {ks[j] : j \in 1..n} \cup {k}
  BY <1>15, <1>152
<1>19. ASSUME NEW j \in 1..(n + 1) PROVE Entry(ks2, off2, e, j)'
  <2>1. CASE j = n + 1
    <3>1. sizes'[j] = SizesOf(k)' /\ ks2[j] = k /\ off2[j] = Len(full) /\ off2[j + 1] = Len(e)
      BY <1>4, <1>6, <1>10, <1>12, <1>152, <1>16, <2>1 DEF SizesOf
    <3> QED BY <1>9, <1>10, <3>1 DEF Entry
  <2>2. CASE j # n + 1
    <3>1. j \in 1..n /\ j + 1 \in 1..(n + 1)
      BY <1>4, <2>2
    <3>2. /\ sizes'[j] = sizes[j] /\ ks2[j] = ks[j] /\ off2[j] = off[j] /\ off2[j + 1] = off[j + 1]
          /\ off[j] \in 0..Len(full) /\ off[j + 1] \in 0..Len(full) /\ ks[j] \in DOMAIN m
      BY <1>6, <1>12, <1>152, <1>16, <3>1
    <3>3. /\ sizes[j] = SizesOf(ks[j])
          /\ off[j + 1] = off[j] + Len(ks[j]) + Len(m[ks[j]]) + 2
          /\ \A c \in 1..Len(ks[j]) : full[off[j] + c] = ks[j][c]
          /\ \A c \in 1..Len(m[ks[j]]) : full[off[j] + Len(ks[j]) + 1 + c] = m[ks[j]][c]
      BY <1>6, <3>1 DEF Entry
    <3>4. Len(ks[j]) \in Nat /\ Len(m[ks[j]]) \in Nat
      BY <1>8, <3>2
    <3>5. \A c \in 1..Len(ks[j]) : e[off[j] + c] = ks[j][c]
      <4>1. PICK a, b, x, y : a = Len(ks[j]) /\ b = Len(m[ks[j]]) /\ x = off[j] /\ y = off[j + 1]
        OBVIOUS
      <4>2. a \in Nat /\ b \in Nat /\ x \in Nat /\ y \in 0..Len(full) /\ y = x + a + b + 2
        BY <1>14, <3>2, <3>3, <3>4, <4>1
      <4>3. \A c \in 1..a : x + c \in 1..Len(full)
        BY <1>14, <4>2
      <4> QED BY <1>9, <3>3, <4>1, <4>3
    <3>6. \A c \in 1..Len(m[ks[j]]) : e[off[j] + Len(ks[j]) + 1 + c] = m[ks[j]][c]
      <4>1. PICK a, b, x, y : a = Len(ks[j]) /\ b = Len(m[ks[j]]) /\ x = off[j] /\ y = off[j + 1]
        OBVIOUS
      <4>2. a \in Nat /\ b \in Nat /\ x \in Nat /\ y \in 0..Len(full) /\ y = x + a + b + 2
        BY <1>14, <3>2, <3>3, <3>4, <4>1
      <4>3. \A c \in 1..b : x + a + 1 + c \in 1..Len(full)
        BY <1>14, <4>2
      <4> QED BY <1>9, <3>3, <4>1, <4>3
    <3>7. SizesOf(ks[j])' = SizesOf(ks[j])
      BY <1>10 DEF SizesOf
    <3> QED BY <1>10, <3>2, <3>3, <3>5, <3>6, <3>7 DEF Entry
  <2> QED BY <2>1, <2>2
<1>20. Laid(ks2, off2, e)'
  <2>1. todo' = DOMAIN m' \ {ks2[j] : j \in 1..Len(sizes')}
    BY <1>6, <1>10, <1>12, <1>18
  <2>2. \A j \in 1..Len(sizes') : Entry(ks2, off2, e, j)'
    BY <1>12, <1>19
  <2>3. /\ off2 \in [1..(Len(sizes') + 1) -> 0..Len(e)]
        /\ off2[1] = 0 /\ off2[Len(sizes') + 1] = Len(e)
    BY <1>4, <1>6, <1>12, <1>16
  <2>4. /\ ks2 \in [1..Len(sizes') -> DOMAIN m']
        /\ \A j, l \in 1..Len(sizes') : ks2[j] = ks2[l] => j = l
    BY <1>10, <1>12, <1>152, <1>17
  <2> QED BY <1>9, <2>1, <2>2, <2>3, <2>4 DEF Laid
<1>21. Read(ks2, off2, e)'
  <2>1. dataPtr' = off2[i']
    BY <1>4, <1>5, <1>10, <1>16
  <2>2. {ks2[j] : j \in 1..(i' - 1)} = {} /\ {ks[j] : j \in 1..(i - 1)} = {}
    BY <1>5, <1>10
  <2>3. /\ DOMAIN res' = {ks2[j] : j \in 1..(i' - 1)}
        /\ \A j \in 1..(i' - 1) : FALSE
    BY <1>1, <1>5, <1>10, <2>2 DEF Read
  <2> QED BY <1>4, <1>5, <1>10, <1>14, <2>1, <2>3 DEF Read
<1> QED BY <1>13, <1>20, <1>21 DEF CodecInv

LEMMA LaidStays ==
  ASSUME NEW ks, NEW off, NEW full, Laid(ks, off, full), UNCHANGED <<m, todo, sizes>>
  PROVE  Laid(ks, off, full)'
<1>1. \A j \in 1..Len(sizes) : Entry(ks, off, full, j)'
  BY DEF Laid, Entry, SizesOf
<1> QED BY <1>1 DEF Laid

\* DecodeMap is called; if nothing follows the header then there is no entry.
LEMMA DecodeKeeps ==
  ASSUME CodecInv, NEW n \in 0..Len(data), NEW b \in Foreign \cup {Rest(n)}, DecodeMap(n, b)
  PROVE  CodecInv'
<1>1. PICK ks, off, full : Laid(ks, off, full) /\ Read(ks, off, full)
  BY DEF CodecInv
<1>2. /\ CodecTypes /\ pc = "encode" /\ todo = {} /\ UNCHANGED <<m, todo, sizes, i, dataPtr, res>>
      /\ data' = SubSeq(data, 1, n) /\ behind' = b /\ whole' = (n = Len(data))
      /\ pc' = IF n = 0 THEN "done" ELSE "decode"
  BY DEF CodecInv, DecodeMap
<1>3. data = full /\ i = 1 /\ full \in Seq(Chars) /\ Len(full) \in Nat /\ n \in 0..Len(full)
  <2>1. full \in Seq(Chars)
    BY <1>1 DEF Laid
  <2>2. data = full /\ i = 1
    BY <1>1, <1>2 DEF Read
  <2>3. Len(full) \in Nat
    BY <2>1
  <2> QED BY <2>1, <2>2, <2>3
<1>4. /\ data' \in Seq(Chars) /\ Len(data') = n
      /\ \A c \in 1..n : data'[c] = full[c]
  <2>1. \A c \in 1..n : full[c] \in Chars
    BY <1>3
  <2> QED BY <1>2, <1>3, <2>1, SubSeqProperties
<1>5. whole' \in BOOLEAN /\ pc' \in {"done", "decode"} /\ pc' # "encode" /\ pc' # "panic"
  BY <1>2
<1>51. b \in Seq(Chars)
  <2>1. \A c \in (n + 1)..Len(full) : full[c] \in Chars
    BY <1>3
  <2>2. SubSeq(full, n + 1, Len(full)) \in Seq(Chars)
    BY <1>3, <2>1, SubSeqProperties
  <2> QED BY <1>3, <2>2, StringsAssumption DEF Rest, StringsAssumption
<1>6. CodecTypes'
  BY <1>2, <1>4, <1>5, <1>51 DEF CodecTypes
<1>7. Laid(ks, off, full)'
  BY <1>1, <1>2, LaidStays
<1>8. ASSUME whole', pc' = "done" PROVE i' = Len(sizes') + 1
  <2>0. n = 0 /\ n = Len(full)
    BY <1>2, <1>3, <1>8
  <2>1. Len(full) = 0 /\ Len(sizes) \in Nat
    BY <1>2, <2>0 DEF CodecTypes
  <2>2. CASE Len(sizes) = 0
    BY <1>2, <1>3, <2>2
  <2>3. CASE Len(sizes) # 0
    <3>1. 1 \in 1..Len(sizes) /\ 2 \in 1..(Len(sizes) + 1)
      BY <2>1, <2>3
    <3>2. /\ off[1] = 0 /\ off[2] \in 0..0 /\ ks[1] \in DOMAIN m
          /\ off[1 + 1] = off[1] + Len(ks[1]) + Len(m[ks[1]]) + 2
      BY <1>1, <2>1, <3>1 DEF Laid, Entry
    <3>3. Len(ks[1]) \in Nat /\ Len(m[ks[1]]) \in Nat
      BY <1>2, <3>2, MapTypes DEF CodecTypes
    <3>4. PICK x, y : x = Len(ks[1]) /\ y = Len(m[ks[1]])
      OBVIOUS
    <3>5. x \in Nat /\ y \in Nat /\ off[2] = 0 /\ off[2] = 0 + x + y + 2
      BY <3>2, <3>3, <3>4
    <3> QED BY <3>5
  <2> QED BY <2>2, <2>3
<1>9. Read(ks, off, full)'
  <2>1. Len(data') <= Len(full) /\ \A c \in 1..Len(data') : data'[c] = full[c]
    BY <1>3, <1>4
  <2>2. whole' => Len(data') = Len(full)
    BY <1>2, <1>3, <1>4
  <2>3. /\ dataPtr' = off[i'] /\ DOMAIN res' = {ks[j] : j \in 1..(i' - 1)}
        /\ \A j \in 1..(i' - 1) : FALSE
    BY <1>1, <1>2, <1>3 DEF Read
  <2> QED BY <1>2, <1>5, <1>8, <2>1, <2>2, <2>3 DEF Read
<1> QED BY <1>6, <1>7, <1>9 DEF CodecInv

\* What DecodeMap finds at an entry.
Stands(k, v, end, all) ==
  /\ k \in Seq(Chars) /\ v \in Seq(Chars) /\ Len(k) \in Nat /\ Len(v) \in Nat
  /\ keySize = Len(k) /\ valueSize = Len(v)
  /\ dataPtr \in Nat /\ valuePtr = dataPtr + Len(k) + 1
  /\ end = dataPtr + Len(k) + Len(v) + 2
  /\ end \in Nat /\ all \in Nat /\ end <= all
  /\ Len(data) \in Nat /\ Len(data) <= all /\ (whole => Len(data) = all)
  /\ \A c \in 1..Len(k) : dataPtr + c <= Len(data) => data[dataPtr + c] = k[c]
  /\ \A c \in 1..Len(v) : valuePtr + c <= Len(data) => data[valuePtr + c] = v[c]

LEMMA AtEntry ==
  ASSUME CodecTypes, i <= Len(sizes),
         NEW ks, NEW off, NEW full, Laid(ks, off, full), Read(ks, off, full)
  PROVE  /\ i \in 1..Len(sizes) /\ ks[i] \in DOMAIN m
         /\ Stands(ks[i], m[ks[i]], off[i + 1], Len(full))
<1>1. /\ i \in 1..Len(sizes) /\ i + 1 \in 1..(Len(sizes) + 1) /\ i \in 1..(Len(sizes) + 1)
      /\ data \in Seq(Chars) /\ Len(data) \in Nat
  BY DEF CodecTypes
<1>2. PICK k, v, x, y : k = ks[i] /\ v = m[ks[i]] /\ x = off[i] /\ y = off[i + 1]
  OBVIOUS
<1>3. /\ k \in DOMAIN m /\ x \in 0..Len(full) /\ y \in 0..Len(full)
      /\ full \in Seq(Chars) /\ Len(full) \in Nat
  <2>1. full \in Seq(Chars) /\ k \in DOMAIN m
    BY <1>1, <1>2 DEF Laid
  <2>2. off \in [1..(Len(sizes) + 1) -> 0..Len(full)]
    BY DEF Laid
  <2>3. x \in 0..Len(full) /\ y \in 0..Len(full)
    BY <1>1, <1>2, <2>2
  <2> QED BY <2>1, <2>3
<1>4. k \in Seq(Chars) /\ v \in Seq(Chars) /\ Len(k) \in Nat /\ Len(v) \in Nat
  BY <1>2, <1>3, MapTypes DEF CodecTypes
<1>5. /\ sizes[i] = SizesOf(k) /\ y = x + Len(k) + Len(v) + 2
      /\ \A c \in 1..Len(k) : full[x + c] = k[c]
      /\ \A c \in 1..Len(v) : full[x + Len(k) + 1 + c] = v[c]
  BY <1>1, <1>2 DEF Laid, Entry
<1>6. /\ Len(data) <= Len(full) /\ \A c \in 1..Len(data) : data[c] = full[c]
      /\ (whole => Len(data) = Len(full)) /\ dataPtr = x
  BY <1>2 DEF Read
<1>7. keySize = Len(k) /\ valueSize = Len(v)
  BY <1>2, <1>5 DEF SizesOf, keySize, valueSize
<1>8. x \in Nat /\ y \in Nat /\ y <= Len(full) /\ valuePtr = x + Len(k) + 1
  BY <1>3, <1>6, <1>7 DEF valuePtr, After
<1>9. \A c \in 1..Len(k) : x + c <= Len(data) => data[x + c] = k[c]
  <2>1. \A c \in 1..Len(k) : x + c <= Len(data) => x + c \in 1..Len(data)
    BY <1>1, <1>4, <1>8
  <2> QED BY <1>5, <1>6, <2>1
<1>10. \A c \in 1..Len(v) : valuePtr + c <= Len(data) => data[valuePtr + c] = v[c]
  <2>1. \A c \in 1..Len(v) : valuePtr + c <= Len(data) => valuePtr + c \in 1..Len(data)
    BY <1>1, <1>4, <1>8
  <2> QED BY <1>5, <1>6, <1>8, <2>1
<1>11. Stands(k, v, y, Len(full))
  BY <1>1, <1>3, <1>4, <1>5, <1>6, <1>7, <1>8, <1>9, <1>10 DEF Stands
<1> QED BY <1>1, <1>2, <1>3, <1>11

\* A value that was got stays.
LEMMA GotStays ==
  ASSUME NEW k, NEW from, Got(k, from), UNCHANGED <<m, data, behind>>, res'[k] = res[k]
  PROVE  Got(k, from)'
  BY DEF Got, capacity

\* One entry is cut out of the bytes.
LEMMA EntryKeeps ==
  ASSUME CodecInv, DecodeEntry
  PROVE  CodecInv'
<1>1. PICK ks, off, full : Laid(ks, off, full) /\ Read(ks, off, full)
  BY DEF CodecInv
<1>2. /\ CodecTypes /\ pc = "decode" /\ i <= Len(sizes)
      /\ UNCHANGED <<m, pc, todo, sizes, data, behind, whole>>
      /\ InRange(dataPtr, keySize) /\ InRange(valuePtr, keySize)
      /\ valuePtr + valueSize <= capacity
      /\ dataPtr' = After(valuePtr, valueSize) /\ i' = i + 1
  BY DEF CodecInv, DecodeEntry
<1>3. PICK k, v, end, all : k = ks[i] /\ v = m[ks[i]] /\ end = off[i + 1] /\ all = Len(full)
  OBVIOUS
<1>4. i \in 1..Len(sizes) /\ k \in DOMAIN m /\ Stands(k, v, end, all)
  BY <1>1, <1>2, <1>3, AtEntry
<1>5. data \in Seq(Chars) /\ behind \in Seq(Chars) /\ Len(sizes) \in Nat
  BY <1>2 DEF CodecTypes
<1>6. /\ dataPtr \in Nat /\ valuePtr \in Nat /\ Len(data) \in Nat
      /\ k \in Seq(Chars) /\ v \in Seq(Chars) /\ Len(k) \in Nat /\ Len(v) \in Nat
      /\ keySize = Len(k) /\ valueSize = Len(v)
      /\ valuePtr = dataPtr + Len(k) + 1 /\ end = dataPtr + Len(k) + Len(v) + 2
  BY <1>4 DEF Stands
<1>7. Slice(dataPtr, keySize) = k
  <2>1. dataPtr + Len(k) <= Len(data) /\ Len(behind) \in Nat
    BY <1>2, <1>5, <1>6 DEF InRange
  <2>2. \A c \in 1..Len(k) : dataPtr + c <= Len(data)
    BY <1>6, <2>1
  <2>3. \A c \in 1..Len(k) : data[dataPtr + c] = k[c]
    BY <1>4, <2>2 DEF Stands
  <2>4. dataPtr + Len(k) <= capacity
    BY <1>6, <2>1 DEF capacity
  <2>5. /\ Slice(dataPtr, Len(k)) \in Seq(Chars) /\ Len(Slice(dataPtr, Len(k))) = Len(k)
        /\ \A c \in 1..Len(k) : Slice(dataPtr, Len(k))[c] = k[c]
    BY <1>5, <1>6, <2>2, <2>3, <2>4, SliceIs
  <2> QED BY <1>6, <2>5, SeqEqual
<1>8. PICK w : w = Slice(valuePtr, valueSize)
  OBVIOUS
<1>9. /\ w \in Seq(Chars) /\ Len(w) = Len(v)
      /\ \A c \in 1..Len(v) :
           w[c] = IF valuePtr + c <= Len(data) THEN v[c] ELSE behind[valuePtr + c - Len(data)]
  <2>1. /\ w \in Seq(Chars) /\ Len(w) = Len(v)
        /\ \A c \in 1..Len(v) :
             w[c] = IF valuePtr + c <= Len(data) THEN data[valuePtr + c]
                    ELSE behind[valuePtr + c - Len(data)]
    BY <1>2, <1>5, <1>6, <1>8, SliceIs
  <2>2. \A c \in 1..Len(v) : valuePtr + c <= Len(data) => data[valuePtr + c] = v[c]
    BY <1>4 DEF Stands
  <2> QED BY <2>1, <2>2
<1>10. dataPtr' = off[i']
  <2>1. PICK p, a, b : p = dataPtr /\ a = Len(k) /\ b = Len(v)
    OBVIOUS
  <2>2. /\ p \in Nat /\ a \in Nat /\ b \in Nat /\ end = p + a + b + 2
        /\ valuePtr = p + a + 1 /\ valueSize = b
    BY <1>6, <2>1
  <2>3. After(valuePtr, valueSize) = p + a + 1 + b + 1
    BY <2>2 DEF After
  <2>4. p + a + 1 + b + 1 = end
    BY <2>2
  <2> QED BY <1>2, <1>3, <2>3, <2>4
<1>11. i' \in 1..(Len(sizes') + 1) /\ i' - 1 = i
  BY <1>2, <1>4, <1>5
<1>12. CodecTypes'
  BY <1>2, <1>11 DEF CodecTypes
<1>13. PICK D : D = {ks[j] : j \in 1..(i - 1)}
  OBVIOUS
<1>131. i \in Nat /\ i >= 1 /\ 1..(i' - 1) = 1..i
  <2>1. i \in Nat /\ i >= 1
    BY <1>2 DEF CodecTypes
  <2>2. i' - 1 = i
    BY <1>11
  <2> QED BY <2>1, <2>2
<1>14. \A j \in 1..(i' - 1) : j \in 1..(i - 1) \/ j = i
  <2>1. \A j \in 1..i : j \in 1..(i - 1) \/ j = i
    BY <1>131
  <2> QED BY <1>131, <2>1
<1>15. i \in 1..(i' - 1) /\ 1..(i - 1) \subseteq 1..(i' - 1)
  <2>1. i \in 1..i /\ 1..(i - 1) \subseteq 1..i
    BY <1>131
  <2> QED BY <1>131, <2>1
<1>16. /\ res' = [x \in D \cup {k} |-> IF x = k THEN w ELSE res[x]]
       /\ DOMAIN res = D
  <2>1. DOMAIN res = D
    BY <1>1, <1>13 DEF Read
  <2> QED BY <1>7, <1>8, <2>1 DEF DecodeEntry
<1>17. DOMAIN res' = {ks[j] : j \in 1..(i' - 1)}
  BY <1>3, <1>13, <1>14, <1>15, <1>16
<1>18. ASSUME NEW j \in 1..(i' - 1) PROVE Got(ks[j], off[j] + Len(ks[j]) + 1)'
  <2>1. CASE j = i
    <3>1. res'[k] = w
      BY <1>16
    <3>2. dataPtr = off[i]
      BY <1>1 DEF Read
    <3>3. off[j] + Len(ks[j]) + 1 = valuePtr
      BY <1>3, <1>6, <2>1, <3>2
    <3>4. valuePtr < Len(data) /\ valuePtr + Len(v) <= capacity
      BY <1>2, <1>6 DEF InRange
    <3>5. PICK x : x = valuePtr
      OBVIOUS
    <3>6. Got(k, x)'
      BY <1>2, <1>3, <1>9, <3>1, <3>4, <3>5 DEF Got, capacity
    <3> QED BY <1>3, <2>1, <3>3, <3>5, <3>6
  <2>2. CASE j # i
    <3>1. j \in 1..(i - 1)
      BY <1>14, <2>2
    <3>2. ks[j] # k
      <4>1. \A x, y \in 1..Len(sizes) : ks[x] = ks[y] => x = y
        BY <1>1 DEF Laid
      <4>2. j \in 1..Len(sizes)
        BY <1>4, <1>5, <3>1
      <4> QED BY <1>3, <1>4, <2>2, <4>1, <4>2
    <3>3. res'[ks[j]] = res[ks[j]]
      BY <1>13, <1>16, <3>1, <3>2
    <3>4. Got(ks[j], off[j] + Len(ks[j]) + 1)
      BY <1>1, <3>1 DEF Read
    <3> QED BY <1>2, <3>3, <3>4, GotStays
  <2> QED BY <2>1, <2>2
<1>19. Laid(ks, off, full)'
  BY <1>1, <1>2, LaidStays
<1>20. Read(ks, off, full)'
  BY <1>1, <1>2, <1>10, <1>17, <1>18 DEF Read
<1> QED BY <1>12, <1>19, <1>20 DEF CodecInv

\* The value was checked with the size of the key: all the bytes are there, so the
\* key is longer than the value and its terminator.
LEMMA BreakKeeps ==
  ASSUME CodecInv, Break
  PROVE  CodecInv'
<1>1. PICK ks, off, full : Laid(ks, off, full) /\ Read(ks, off, full)
  BY DEF CodecInv
<1>2. /\ CodecTypes /\ pc = "decode" /\ i <= Len(sizes) /\ pc' = "done"
      /\ UNCHANGED <<m, todo, sizes, data, behind, whole, i, dataPtr, res>>
      /\ ~InRange(dataPtr, keySize) \/ ~InRange(valuePtr, keySize)
  BY DEF CodecInv, Break
<1>3. PICK k, v, end, all : k = ks[i] /\ v = m[ks[i]] /\ end = off[i + 1] /\ all = Len(full)
  OBVIOUS
<1>4. Stands(k, v, end, all)
  BY <1>1, <1>2, <1>3, AtEntry
<1>5. ASSUME whole PROVE Len(k) > Len(v) + 1
  <2>1. PICK p, a, b, l : p = dataPtr /\ a = Len(k) /\ b = Len(v) /\ l = Len(data)
    OBVIOUS
  <2>2. /\ p \in Nat /\ a \in Nat /\ b \in Nat /\ l \in Nat
        /\ p + a + b + 2 <= l /\ keySize = a /\ valuePtr = p + a + 1
    BY <1>4, <1>5, <2>1 DEF Stands
  <2>3. InRange(p, a)
    BY <2>1, <2>2 DEF InRange
  <2>4. ~InRange(p + a + 1, a)
    BY <1>2, <2>1, <2>2, <2>3
  <2>5. ~(p + a + 1 < l /\ p + a + 1 + a <= l)
    BY <2>1, <2>4 DEF InRange
  <2>6. a > b + 1
    BY <2>2, <2>5
  <2> QED BY <2>1, <2>6
<1>6. CodecTypes'
  BY <1>2 DEF CodecTypes
<1>7. Laid(ks, off, full)'
  BY <1>1, <1>2, LaidStays
<1>8. Read(ks, off, full)'
  <2>1. whole' => i' <= Len(sizes') /\ Len(ks[i']) > Len(m'[ks[i']]) + 1
    BY <1>2, <1>3, <1>5
  <2>2. \A j \in 1..(i - 1) : Got(ks[j], off[j] + Len(ks[j]) + 1)'
    BY <1>1, <1>2, GotStays DEF Read
  <2> QED BY <1>1, <1>2, <2>1, <2>2 DEF Read
<1> QED BY <1>6, <1>7, <1>8 DEF CodecInv

\* A value that passes the capacity: not all of the bytes are there.
LEMMA PanicKeeps ==
  ASSUME CodecInv, SlicePanics
  PROVE  CodecInv'
<1>1. PICK ks, off, full : Laid(ks, off, full) /\ Read(ks, off, full)
  BY DEF CodecInv
<1>2. /\ CodecTypes /\ pc = "decode" /\ i <= Len(sizes) /\ pc' = "panic"
      /\ UNCHANGED <<m, todo, sizes, data, behind, whole, i, dataPtr, res>>
      /\ valuePtr + valueSize > capacity
  BY DEF CodecInv, SlicePanics
<1>3. PICK k, v, end, all : k = ks[i] /\ v = m[ks[i]] /\ end = off[i + 1] /\ all = Len(full)
  OBVIOUS
<1>4. Stands(k, v, end, all)
  BY <1>1, <1>2, <1>3, AtEntry
<1>5. ~whole
  <2>1. PICK p, a, b, l : p = dataPtr /\ a = Len(k) /\ b = Len(v) /\ l = Len(data)
    OBVIOUS
  <2>2. /\ p \in Nat /\ a \in Nat /\ b \in Nat /\ l \in Nat
        /\ valuePtr = p + a + 1 /\ valueSize = b /\ p + a + 1 + b > l
    <3>1. capacity >= Len(data) /\ capacity \in Nat
      BY <1>2 DEF CodecTypes, capacity
    <3> QED BY <1>2, <1>4, <2>1, <3>1 DEF Stands
  <2>3. whole => p + a + b + 2 <= l
    BY <1>4, <2>1 DEF Stands
  <2>4. ~(p + a + b + 2 <= l)
    BY <2>2
  <2> QED BY <2>3, <2>4
<1>6. CodecTypes'
  BY <1>2 DEF CodecTypes
<1>7. Laid(ks, off, full)'
  BY <1>1, <1>2, LaidStays
<1>8. Read(ks, off, full)'
  <2>1. \A j \in 1..(i - 1) : Got(ks[j], off[j] + Len(ks[j]) + 1)'
    BY <1>1, <1>2, GotStays DEF Read
  <2> QED BY <1>1, <1>2, <1>5, <2>1 DEF Read
<1> QED BY <1>6, <1>7, <1>8 DEF CodecInv

LEMMA ReturnKeeps ==
  ASSUME CodecInv, DecodeReturns
  PROVE  CodecInv'
<1>1. PICK ks, off, full : Laid(ks, off, full) /\ Read(ks, off, full)
  BY DEF CodecInv
<1>2. /\ CodecTypes /\ pc = "decode" /\ i > Len(sizes) /\ pc' = "done"
      /\ UNCHANGED <<m, todo, sizes, data, behind, whole, i, dataPtr, res>>
  BY DEF CodecInv, DecodeReturns
<1>3. i = Len(sizes) + 1
  BY <1>2 DEF CodecTypes
<1>4. CodecTypes'
  BY <1>2 DEF CodecTypes
<1>5. Laid(ks, off, full)'
  BY <1>1, <1>2, LaidStays
<1>6. Read(ks, off, full)'
  <2>1. \A j \in 1..(i - 1) : Got(ks[j], off[j] + Len(ks[j]) + 1)'
    BY <1>1, <1>2, GotStays DEF Read
  <2> QED BY <1>1, <1>2, <1>3, <2>1 DEF Read
<1> QED BY <1>4, <1>5, <1>6 DEF CodecInv

LEMMA CodecStep == CodecInv /\ [Next]_vars => CodecInv'
<1> SUFFICES ASSUME CodecInv, [Next]_vars PROVE CodecInv'
  OBVIOUS
<1>1. ASSUME NEW k \in Keys, EncodeEntry(k) PROVE CodecInv'
  BY <1>1, EncodeKeeps
<1>2. ASSUME NEW n \in 0..Len(data), NEW b \in Foreign \cup {Rest(n)}, DecodeMap(n, b)
      PROVE  CodecInv'
  BY <1>2, DecodeKeeps
<1>3. CASE DecodeEntry
  BY <1>3, EntryKeeps
<1>4. CASE Break
  BY <1>4, BreakKeeps
<1>5. CASE SlicePanics
  BY <1>5, PanicKeeps
<1>6. CASE DecodeReturns
  BY <1>6, ReturnKeeps
<1>7. CASE UNCHANGED vars
  <2>1. PICK ks, off, full : Laid(ks, off, full) /\ Read(ks, off, full)
    BY DEF CodecInv
  <2>2. Laid(ks, off, full)'
    BY <1>7, <2>1, LaidStays DEF vars
  <2>3. CodecTypes'
    BY <1>7 DEF vars, CodecInv, CodecTypes
  <2>4. \A j \in 1..(i - 1) : Got(ks[j], off[j] + Len(ks[j]) + 1)'
    BY <1>7, <2>1, GotStays DEF vars, Read
  <2>5. Read(ks, off, full)'
    BY <1>7, <2>1, <2>4 DEF vars, Read
  <2> QED BY <2>2, <2>3, <2>5 DEF CodecInv
<1> QED BY <1>1, <1>2, <1>3, <1>4, <1>5, <1>6, <1>7 DEF Next

\* At every step some order of the keys explains the header, the bytes, the entry that
\* DecodeMap stands at and those it has got.
THEOREM CodecInductive == Spec => []CodecInv
<1> QED BY CodecInit, CodecStep, PTL DEF Spec

-------------------------------------------------------------------------------
(* Types: one pair of sizes for each key that range has come to, and the cursor   *)

Sized ==
  /\ todo \subseteq DOMAIN m
  /\ IsFiniteSet(DOMAIN m \ todo) /\ Len(sizes) = Cardinality(DOMAIN m \ todo)
  /\ dataPtr \in 0..(capacity + 1) /\ (pc = "encode" => dataPtr = 0)

LEMMA SizedInit == Init => Sized
<1> SUFFICES ASSUME Init PROVE Sized
  OBVIOUS
<1>1. DOMAIN m \ todo = {}
  BY DEF Init
<1>2. IsFiniteSet({}) /\ Cardinality({}) = 0
  BY FS_EmptySet
<1>3. Len(sizes) = 0 /\ dataPtr = 0 /\ capacity = 0 /\ todo \subseteq DOMAIN m
  BY DEF Init, capacity
<1>4. dataPtr \in 0..(capacity + 1)
  BY <1>3
<1>5. Len(sizes) = Cardinality(DOMAIN m \ todo) /\ IsFiniteSet(DOMAIN m \ todo)
  BY <1>1, <1>2, <1>3
<1> QED BY <1>3, <1>4, <1>5 DEF Sized

LEMMA SizedStep == CodecInv /\ Sized /\ [Next]_vars => Sized'
<1> SUFFICES ASSUME CodecInv, Sized, [Next]_vars PROVE Sized'
  OBVIOUS
<1>1. /\ sizes \in Seq(Nat \X Nat) /\ data \in Seq(Chars) /\ i \in 1..(Len(sizes) + 1)
      /\ Len(sizes) \in Nat /\ capacity \in Nat
  BY DEF CodecInv, CodecTypes, capacity
<1>2. ASSUME NEW k \in Keys, EncodeEntry(k) PROVE Sized'
  <2>1. /\ k \in todo /\ todo' = todo \ {k} /\ m' = m /\ dataPtr' = 0
        /\ sizes' = Append(sizes, SizesOf(k)) /\ todo \subseteq DOMAIN m
    BY <1>2 DEF EncodeEntry, Sized
  <2>2. DOMAIN m' \ todo' = (DOMAIN m \ todo) \cup {k} /\ k \notin DOMAIN m \ todo
    BY <2>1
  <2>3. /\ IsFiniteSet(DOMAIN m' \ todo')
        /\ Cardinality(DOMAIN m' \ todo') = Cardinality(DOMAIN m \ todo) + 1
    BY <2>2, FS_AddElement DEF Sized
  <2>4. Len(sizes') = Len(sizes) + 1
    BY <1>1, <2>1
  <2>5. CodecInv'
    BY <1>2, EncodeKeeps
  <2>6. Len(data') \in Nat /\ Len(behind') \in Nat
    BY <2>5 DEF CodecInv, CodecTypes
  <2>7. Len(sizes') = Cardinality(DOMAIN m' \ todo')
    BY <2>3, <2>4 DEF Sized
  <2>8. dataPtr' \in 0..(capacity' + 1) /\ todo' \subseteq DOMAIN m'
    BY <2>1, <2>6 DEF capacity
  <2> QED BY <2>1, <2>3, <2>7, <2>8 DEF Sized
<1>3. ASSUME NEW n \in 0..Len(data), NEW b \in Foreign \cup {Rest(n)}, DecodeMap(n, b)
      PROVE  Sized'
  <2>1. /\ UNCHANGED <<m, todo, sizes, dataPtr>> /\ dataPtr = 0
        /\ pc' = IF n = 0 THEN "done" ELSE "decode"
    BY <1>3 DEF DecodeMap, Sized
  <2>2. CodecInv'
    BY <1>3, DecodeKeeps
  <2>3. Len(data') \in Nat /\ Len(behind') \in Nat
    BY <2>2 DEF CodecInv, CodecTypes
  <2>4. dataPtr' \in 0..(capacity' + 1)
    BY <2>1, <2>3 DEF capacity
  <2> QED BY <2>1, <2>4 DEF Sized
<1>4. CASE DecodeEntry
  <2>1. /\ UNCHANGED <<m, pc, todo, sizes>> /\ pc = "decode" /\ i \in 1..Len(sizes)
        /\ dataPtr' = After(valuePtr, valueSize) /\ valuePtr + valueSize <= capacity
        /\ capacity' = capacity
    BY <1>1, <1>4 DEF DecodeEntry, capacity
  <2>2. sizes[i][1] \in Nat /\ sizes[i][2] \in Nat
    BY <1>1, <2>1
  <2>3. dataPtr \in Nat
    BY <1>1 DEF Sized
  <2>4. valuePtr \in Nat /\ valueSize \in Nat
    BY <2>2, <2>3 DEF valuePtr, valueSize, keySize, After
  <2>5. dataPtr' \in 0..(capacity' + 1)
    BY <1>1, <2>1, <2>4 DEF After
  <2> QED BY <2>1, <2>5 DEF Sized
<1>5. CASE Break
  BY <1>5 DEF Break, Sized, capacity
<1>6. CASE SlicePanics
  BY <1>6 DEF SlicePanics, Sized, capacity
<1>7. CASE DecodeReturns
  BY <1>7 DEF DecodeReturns, Sized, capacity
<1>8. CASE UNCHANGED vars
  BY <1>8 DEF vars, Sized, capacity
<1> QED BY <1>2, <1>3, <1>4, <1>5, <1>6, <1>7, <1>8 DEF Next

-------------------------------------------------------------------------------
(* What the properties claim                                                     *)

\* The types of the codec, with one pair of sizes for each key that was encoded; the
\* cursor of DecodeMap stays in an encoding that is whole, and no further than a
\* terminator behind the capacity when it is cut.
THEOREM TypeCorrect == Spec => []TypeOK
<1>1. CodecInv /\ Sized => TypeOK
  <2> SUFFICES ASSUME CodecInv, Sized PROVE TypeOK
    OBVIOUS
  <2>1. ASSUME whole PROVE dataPtr <= Len(data)
    <3>1. PICK ks, off, full : Laid(ks, off, full) /\ Read(ks, off, full)
      BY DEF CodecInv
    <3>2. /\ off \in [1..(Len(sizes) + 1) -> 0..Len(full)] /\ Len(full) \in Nat
          /\ i \in 1..(Len(sizes) + 1)
      BY <3>1 DEF Laid, CodecInv, CodecTypes
    <3>3. off[i] \in 0..Len(full)
      BY <3>2
    <3> QED BY <2>1, <3>1, <3>2, <3>3 DEF Read
  <2> QED BY <2>1 DEF CodecInv, CodecTypes, Sized, TypeOK
<1>2. Spec => []Sized
  BY SizedInit, SizedStep, CodecInductive, PTL DEF Spec
<1> QED BY <1>1, <1>2, CodecInductive, PTL

\* A value that was got is that of the map, or the cut goes through it and DecodeMap
\* came no further.
LEMMA GotIs ==
  ASSUME CodecInv, NEW ks, NEW off, NEW full, Laid(ks, off, full), Read(ks, off, full),
         NEW j \in 1..(i - 1)
  PROVE  /\ ks[j] \in DOMAIN m
         /\ \/ res[ks[j]] = m[ks[j]]
            \/ RunsOver(ks[j]) /\ j = i - 1 /\ past \in 1..Len(behind) /\ ~whole
<1>1. /\ j \in 1..Len(sizes) /\ j \in 1..(Len(sizes) + 1) /\ j + 1 \in 1..(Len(sizes) + 1)
      /\ i \in Nat /\ Len(data) \in Nat /\ Len(behind) \in Nat
      /\ (j # i - 1 => j + 1 \in 1..(i - 1) /\ j + 1 \in 1..Len(sizes))
  BY DEF CodecInv, CodecTypes
<1>2. PICK k, v, w, x, z : /\ k = ks[j] /\ v = m[k] /\ w = res[k]
                           /\ x = off[j] + Len(k) + 1 /\ z = off[j + 1]
  OBVIOUS
<1>3. k \in DOMAIN m /\ \A l \in 1..Len(sizes) : ks[l] \in DOMAIN m
  BY <1>1, <1>2 DEF Laid
<1>4. /\ k \in Seq(Chars) /\ Len(k) \in Nat /\ v \in Seq(Chars) /\ Len(v) \in Nat
      /\ \A l \in 1..Len(sizes) : Len(ks[l]) \in Nat
  BY <1>2, <1>3, MapTypes DEF CodecInv, CodecTypes
<1>5. /\ off \in [1..(Len(sizes) + 1) -> 0..Len(full)] /\ full \in Seq(Chars)
      /\ off[j + 1] = off[j] + Len(k) + Len(v) + 2
  BY <1>1, <1>2 DEF Laid, Entry
<1>6. off[j] \in Nat /\ Len(full) \in Nat /\ z \in 0..Len(full)
  BY <1>1, <1>2, <1>5
<1>7. x \in Nat /\ z = x + Len(v) + 1
  <2>1. PICK o, a, b : o = off[j] /\ a = Len(k) /\ b = Len(v)
    OBVIOUS
  <2>2. o \in Nat /\ a \in Nat /\ b \in Nat /\ x = o + a + 1 /\ z = o + a + b + 2
    BY <1>2, <1>4, <1>5, <1>6, <2>1
  <2>3. x \in Nat /\ z = x + b + 1
    BY <2>2
  <2> QED BY <2>1, <2>3
<1>8. /\ x < Len(data) /\ x + Len(v) <= Len(data) + Len(behind)
      /\ w \in Seq(Chars) /\ Len(w) = Len(v)
      /\ \A c \in 1..Len(v) :
           w[c] = IF x + c <= Len(data) THEN v[c] ELSE behind[x + c - Len(data)]
  BY <1>2 DEF Read, Got, capacity
<1>9. CASE x + Len(v) <= Len(data)
  <2>1. \A c \in 1..Len(v) : x + c <= Len(data)
    BY <1>1, <1>4, <1>7, <1>9
  <2>2. \A c \in 1..Len(v) : w[c] = v[c]
    BY <1>8, <2>1
  <2>3. w = v
    BY <1>4, <1>8, <2>2, SeqEqual
  <2> QED BY <1>2, <1>3, <2>3
<1>10. CASE ~(x + Len(v) <= Len(data))
  <2>1. j = i - 1
    <3> SUFFICES ASSUME j # i - 1 PROVE FALSE
      OBVIOUS
    <3>1. off[j + 1] + Len(ks[j + 1]) + 1 < Len(data)
      BY <1>1 DEF Read, Got
    <3>2. Len(ks[j + 1]) \in Nat
      BY <1>1, <1>4
    <3>3. z < Len(data)
      BY <1>1, <1>2, <1>6, <3>1, <3>2
    <3> QED BY <1>1, <1>4, <1>7, <1>10, <3>3
  <2>2. dataPtr = z
    BY <1>1, <1>2, <2>1 DEF Read
  <2>3. past = x + Len(v) - Len(data)
    BY <1>1, <1>4, <1>7, <2>2 DEF past
  <2>4. past \in 1..Len(v) /\ past \in 1..Len(behind)
    BY <1>1, <1>4, <1>7, <1>8, <1>10, <2>3
  <2>5. ~whole
    BY <1>1, <1>4, <1>6, <1>7, <1>10 DEF Read
  <2>6. \A c \in 1..(Len(v) - past) : w[c] = v[c]
    <3>1. \A c \in 1..(Len(v) - past) : c \in 1..Len(v) /\ x + c <= Len(data)
      BY <1>1, <1>4, <1>7, <2>3, <2>4
    <3> QED BY <1>8, <3>1
  <2>7. \A c \in 1..past : w[Len(v) - past + c] = behind[c]
    <3> SUFFICES ASSUME NEW c \in 1..past PROVE w[Len(v) - past + c] = behind[c]
      OBVIOUS
    <3>1. PICK d : d = Len(v) - past + c
      OBVIOUS
    <3>2. d \in 1..Len(v) /\ ~(x + d <= Len(data)) /\ x + d - Len(data) = c
      BY <1>1, <1>4, <1>7, <2>3, <2>4, <3>1
    <3> QED BY <1>8, <3>1, <3>2
  <2>8. RunsOver(k)
    BY <1>2, <1>8, <2>4, <2>6, <2>7 DEF RunsOver
  <2> QED BY <1>2, <1>3, <2>1, <2>4, <2>5, <2>8
<1> QED BY <1>9, <1>10

\* Whatever the keys and values are made of, in whatever order range took them, wherever
\* the bytes were cut off and whatever the memory holds behind them, DecodeMap returns
\* keys of the map only, and their values but for the one that the cut goes through;
\* that one too if the capacity of the slice ends with it.
THEOREM DecodedWasEncoded == Spec => []NothingInvented
<1>1. CodecInv => NothingInvented
  <2> SUFFICES ASSUME CodecInv PROVE NothingInvented
    OBVIOUS
  <2>1. PICK ks, off, full : Laid(ks, off, full) /\ Read(ks, off, full)
    BY DEF CodecInv
  <2>2. DOMAIN res = {ks[j] : j \in 1..(i - 1)}
    BY <2>1 DEF Read
  <2>3. DOMAIN res \subseteq DOMAIN m
    BY <2>1, <2>2, GotIs
  <2>4. \A k \in DOMAIN res : res[k] = m[k] \/ RunsOver(k)
    BY <2>1, <2>2, GotIs
  <2>5. \A k \in DOMAIN res : res[k] # m[k] => k = ks[i - 1]
    BY <2>1, <2>2, GotIs
  <2>6. ASSUME whole \/ behind = <<>>, NEW k \in DOMAIN res PROVE res[k] = m[k]
    <3>1. whole \/ ~(past \in 1..Len(behind))
      BY <2>6
    <3> QED BY <2>1, <2>2, <3>1, GotIs
  <2> QED BY <2>3, <2>4, <2>5, <2>6 DEF NothingInvented
<1> QED BY <1>1, CodecInductive, PTL

\* What has been decoded is a map.
IsMap == res = [k \in DOMAIN res |-> res[k]]

LEMMA ResIsMap == Spec => []IsMap
<1>1. Init => IsMap
  BY DEF Init, EmptyMap, IsMap
<1>2. IsMap /\ [Next]_vars => IsMap'
  BY DEF IsMap, Next, vars, EncodeEntry, DecodeMap, DecodeEntry, Break, SlicePanics,
         DecodeReturns
<1> QED BY <1>1, <1>2, PTL DEF Spec

\* Of all the bytes DecodeMap loses nothing but what follows a key that is longer than
\* its value and terminator, and it never panics on them.
THEOREM LostToTheKeySize == Spec => []OnlyShortValuesLost
<1>1. CodecInv /\ IsMap => OnlyShortValuesLost
  <2> SUFFICES ASSUME CodecInv, IsMap, whole
               PROVE  /\ pc # "panic"
                      /\ pc = "done" /\ res # m =>
                           \E k \in DOMAIN m \ DOMAIN res : Len(k) > Len(m[k]) + 1
    BY DEF OnlyShortValuesLost
  <2>1. PICK ks, off, full : Laid(ks, off, full) /\ Read(ks, off, full)
    BY DEF CodecInv
  <2>2. /\ DOMAIN res = {ks[j] : j \in 1..(i - 1)} /\ pc # "panic"
        /\ ks \in [1..Len(sizes) -> DOMAIN m]
        /\ \A j, l \in 1..Len(sizes) : ks[j] = ks[l] => j = l
        /\ todo = DOMAIN m \ {ks[j] : j \in 1..Len(sizes)}
    BY <2>1 DEF Laid, Read
  <2>3. /\ 1..(i - 1) \subseteq 1..Len(sizes) /\ i \notin 1..(i - 1)
        /\ (i <= Len(sizes) => i \in 1..Len(sizes))
        /\ (i = Len(sizes) + 1 => i - 1 = Len(sizes))
    BY DEF CodecInv, CodecTypes
  <2>4. ASSUME pc = "done", res # m
        PROVE  \E k \in DOMAIN m \ DOMAIN res : Len(k) > Len(m[k]) + 1
    <3>1. todo = {} /\ (i = Len(sizes) + 1 \/ (i <= Len(sizes) /\ Len(ks[i]) > Len(m[ks[i]]) + 1))
      BY <2>1, <2>4 DEF Read
    <3>2. i # Len(sizes) + 1
      <4> SUFFICES ASSUME i = Len(sizes) + 1 PROVE FALSE
        OBVIOUS
      <4>1. {ks[j] : j \in 1..(i - 1)} = {ks[j] : j \in 1..Len(sizes)}
        BY <2>3
      <4>2. {ks[j] : j \in 1..Len(sizes)} = DOMAIN m
        <5>1. \A j \in 1..Len(sizes) : ks[j] \in DOMAIN m
          BY <2>2
        <5>2. \A x \in DOMAIN m : x \in {ks[j] : j \in 1..Len(sizes)}
          BY <2>2, <3>1
        <5> QED BY <5>1, <5>2
      <4>3. \A x \in DOMAIN m : res[x] = m[x]
        BY <2>1, <2>2, <4>1, <4>2, GotIs
      <4>4. m = [x \in DOMAIN m |-> m[x]]
        BY MapTypes DEF CodecInv, CodecTypes
      <4>5. DOMAIN res = DOMAIN m
        BY <2>2, <4>1, <4>2
      <4> QED BY <2>4, <4>3, <4>4, <4>5 DEF IsMap
    <3>3. i \in 1..Len(sizes) /\ Len(ks[i]) > Len(m[ks[i]]) + 1
      BY <2>3, <3>1, <3>2
    <3>4. ks[i] \in DOMAIN m /\ \A j \in 1..(i - 1) : ks[j] # ks[i]
      BY <2>2, <2>3, <3>3
    <3>5. ks[i] \notin DOMAIN res
      BY <2>2, <3>4
    <3> QED BY <3>3, <3>4, <3>5
  <2> QED BY <2>2, <2>4
<1> QED BY <1>1, CodecInductive, ResIsMap, PTL

-------------------------------------------------------------------------------
(* Induction                                                                     *)

\* Natural numbers are reached from 0 one by one: the numbers of S below one that is not
\* in S would be as many as their successors, which leave out 0.
LEMMA Induction ==
  ASSUME NEW S, 0 \in S, \A n \in Nat : n \in S => n + 1 \in S
  PROVE  Nat \subseteq S
<1> SUFFICES ASSUME NEW top \in Nat, top \notin S PROVE FALSE
  OBVIOUS
<1> DEFINE below == {n \in 0..top : n \in S}
           next == [n \in below |-> n + 1]
<1>1. IsFiniteSet(below)
  <2>1. IsFiniteSet(0..top)
    BY FS_Interval
  <2>2. below \in SUBSET (0..top)
    OBVIOUS
  <2> QED BY <2>1, <2>2, FS_Subset
<1>2. next \in Injection(below, below)
  <2>1. \A n \in below : n + 1 \in below
    OBVIOUS
  <2>2. next \in [below -> below]
    BY <2>1
  <2>3. \A x, y \in below : next[x] = next[y] => x = y
    OBVIOUS
  <2> QED BY <2>2, <2>3 DEF Injection, IsInjective
<1>3. next \in Surjection(below, below)
  <2> HIDE DEF below, next
  <2> QED BY <1>1, <1>2, FS_Injection
<1>4. PICK n \in below : next[n] = 0
  BY <1>3, 0 \in below DEF Surjection
<1> QED BY <1>4

\* Up to a bound.
LEMMA InductionUpTo ==
  ASSUME NEW n \in Nat, NEW S, 0 \in S, \A k \in 0..(n - 1) : k \in S => k + 1 \in S
  PROVE  0..n \subseteq S
<1> DEFINE T == {k \in Nat : k <= n => k \in S}
<1>1. 0 \in T
  OBVIOUS
<1>2. \A k \in Nat : k \in T => k + 1 \in T
  OBVIOUS
<1>3. Nat \subseteq T
  <2> HIDE DEF T
  <2> QED BY <1>1, <1>2, Induction
<1> QED BY <1>3

\* A set of natural numbers has a least one.
LEMMA LeastNumber ==
  ASSUME NEW T \in SUBSET Nat, T # {}
  PROVE  /\ Min(T) \in T
         /\ \A y \in T : Min(T) <= y
<1>1. \E x \in T : \A y \in T : x <= y
  <2> SUFFICES ASSUME \A x \in T : \E y \in T : y < x PROVE FALSE
    OBVIOUS
  <2> DEFINE S == {n \in Nat : \A y \in T : n < y}
  <2>1. 0 \in S
    OBVIOUS
  <2>2. ASSUME NEW n \in Nat, n \in S PROVE n + 1 \in S
    <3>1. \A y \in T : n + 1 <= y
      BY <2>2
    <3>2. n + 1 \notin T
      BY <3>1
    <3> QED BY <3>1, <3>2
  <2>3. Nat \subseteq S
    <3> HIDE DEF S
    <3> QED BY <2>1, <2>2, Induction
  <2>4. PICK x \in T : TRUE
    OBVIOUS
  <2>5. \A y \in T : x < y
    BY <2>3, <2>4
  <2> QED BY <2>4, <2>5
<1> QED BY <1>1 DEF Min

\* What is defined from one number to the next is defined up to any bound.
StepsUpTo(n, V) == [(1..n) \X V -> V]
Follows(f, n, V, a, next) ==
  f \in [0..n -> V] /\ f[0] = a /\ \A k \in 1..n : f[k] = next[<<k, f[k - 1]>>]

LEMMA Recursion ==
  ASSUME NEW n \in Nat, NEW V, NEW a \in V, NEW next \in StepsUpTo(n, V)
  PROVE  \E f : Follows(f, n, V, a, next)
<1>0. next \in [(1..n) \X V -> V]
  BY DEF StepsUpTo
<1> DEFINE Built(j, f) == f[0] = a /\ \A k \in 1..j : f[k] = next[<<k, f[k - 1]>>]
           S == {j \in 0..n : \E f \in [0..j -> V] : Built(j, f)}
<1>1. 0 \in S
  <2> DEFINE f == [k \in 0..0 |-> a]
  <2>1. f \in [0..0 -> V] /\ Built(0, f)
    OBVIOUS
  <2>2. 0 \in 0..n
    OBVIOUS
  <2> HIDE DEF f, Built
  <2> QED BY <2>1, <2>2
<1>2. ASSUME NEW j \in 0..(n - 1), j \in S PROVE j + 1 \in S
  <2>1. PICK f \in [0..j -> V] : Built(j, f)
    BY <1>2
  <2> DEFINE g == [k \in 0..(j + 1) |-> IF k <= j THEN f[k] ELSE next[<<j + 1, f[j]>>]]
  <2>2. f[j] \in V /\ <<j + 1, f[j]>> \in (1..n) \X V
    OBVIOUS
  <2>3. next[<<j + 1, f[j]>>] \in V
    BY <1>0, <2>2
  <2>4. g \in [0..(j + 1) -> V]
    BY <2>3
  <2>5. \A k \in 1..(j + 1) : g[k] = next[<<k, g[k - 1]>>]
    <3> TAKE k \in 1..(j + 1)
    <3>1. CASE k <= j
      BY <2>1, <3>1
    <3>2. CASE k = j + 1
      <4>1. g[j + 1] = next[<<j + 1, f[j]>>] /\ g[j] = f[j]
        OBVIOUS
      <4>2. k - 1 = j
        BY <3>2
      <4> HIDE DEF g
      <4> QED BY <3>2, <4>1, <4>2
    <3> QED BY <3>1, <3>2
  <2>6. Built(j + 1, g)
    <3>1. g[0] = f[0]
      OBVIOUS
    <3> QED BY <2>1, <2>5, <3>1
  <2> HIDE DEF g, Built
  <2> QED BY <2>4, <2>6
<1>3. n \in S
  <2> HIDE DEF S
  <2> QED BY <1>1, <1>2, InductionUpTo
<1> QED BY <1>3 DEF Follows

-------------------------------------------------------------------------------
(* Numbers in LEB128                                                             *)

\* Quotient and remainder.
LEMMA Divided ==
  ASSUME NEW x \in Nat
  PROVE  /\ x \div Base \in Nat /\ x % Base \in 0..(Base - 1)
         /\ x = Base * (x \div Base) + (x % Base)
  BY WordAssumption

\* The continuation bit does not count.
LEMMA Group ==
  ASSUME NEW d \in 0..(Base - 1)
  PROVE  d % Base = d /\ (d + Base) % Base = d
  BY WordAssumption

\* Each group taken away divides.
LEMMA ShiftedOnce ==
  ASSUME NEW n \in Nat
  PROVE  /\ Shifted(n) \in [0..MaxGroups -> Nat]
         /\ Shifted(n)[0] = n
         /\ \A k \in 1..MaxGroups : Shifted(n)[k] = Shifted(n)[k - 1] \div Base
<1> DEFINE next == [p \in (1..MaxGroups) \X Nat |-> p[2] \div Base]
<1>1. next \in [(1..MaxGroups) \X Nat -> Nat]
  BY Divided
<1>2. MaxGroups \in Nat
  BY WordAssumption
<1>3. PICK f \in [0..MaxGroups -> Nat] :
         f[0] = n /\ \A k \in 1..MaxGroups : f[k] = next[<<k, f[k - 1]>>]
  <2> HIDE DEF next
  <2>1. next \in StepsUpTo(MaxGroups, Nat)
    BY <1>1 DEF StepsUpTo
  <2>2. \E f : Follows(f, MaxGroups, Nat, n, next)
    BY <1>2, <2>1, Recursion
  <2> QED BY <2>2 DEF Follows
<1>4. ASSUME NEW k \in 1..MaxGroups
      PROVE  next[<<k, f[k - 1]>>] = f[k - 1] \div Base
  <2>1. f[k - 1] \in Nat
    BY <1>2
  <2> QED BY <2>1
<1> HIDE DEF next
<1>5. f = [k \in 0..MaxGroups |-> IF k = 0 THEN n ELSE f[k - 1] \div Base]
  <2>1. \A k \in 1..MaxGroups : f[k] = f[k - 1] \div Base
    BY <1>3, <1>4
  <2>2. \A k \in 0..MaxGroups : f[k] = IF k = 0 THEN n ELSE f[k - 1] \div Base
    BY <1>2, <1>3, <2>1
  <2> QED BY <2>2
<1>6. Shifted(n) = [k \in 0..MaxGroups |-> IF k = 0 THEN n ELSE Shifted(n)[k - 1] \div Base]
  BY <1>5 DEF Shifted
<1> HIDE DEF next
<1>7. Shifted(n) \in [0..MaxGroups -> Nat]
  <2> DEFINE S == {k \in 0..MaxGroups : Shifted(n)[k] \in Nat}
  <2>1. 0 \in S
    BY <1>2, <1>6
  <2>2. ASSUME NEW k \in 0..(MaxGroups - 1), k \in S PROVE k + 1 \in S
    <3>1. k + 1 \in 0..MaxGroups /\ k + 1 # 0 /\ k + 1 - 1 = k
      BY <1>2
    <3>2. \A j \in 1..MaxGroups : Shifted(n)[j] = Shifted(n)[j - 1] \div Base
      BY <1>2, <1>6
    <3>3. Shifted(n)[k + 1] = Shifted(n)[k] \div Base
      BY <1>2, <3>1, <3>2
    <3> QED BY <2>2, <3>1, <3>3, Divided
  <2>3. 0..MaxGroups \subseteq S
    <3> HIDE DEF S
    <3> QED BY <1>2, <2>1, <2>2, InductionUpTo
  <2> QED BY <1>6, <2>3
<1> QED BY <1>2, <1>6, <1>7

\* The bytes of a number: the last one only is without continuation bit.
LEMMA NumberBytes ==
  ASSUME NEW n \in 0..(Word - 1), NEW g, Fits(n, g)
  PROVE  /\ Number(n, g) \in Seq(Nat) /\ Len(Number(n, g)) = g /\ g \in 1..MaxGroups
         /\ \A k \in 1..g :
              /\ Number(n, g)[k] < Base <=> k = g
              /\ Number(n, g)[k] % Base = Shifted(n)[k - 1] % Base
<1>1. g \in Nat /\ g \in 1..MaxGroups /\ MaxGroups \in Nat /\ Base \in Nat /\ n \in Nat
  BY WordAssumption DEF Fits
<1>2. Number(n, g) =
        [k \in 1..g |-> (Shifted(n)[k - 1] % Base) + IF k < g THEN Base ELSE 0]
  BY DEF Number
<1>3. \A k \in 1..g : Shifted(n)[k - 1] \in Nat
  <2> TAKE k \in 1..g
  <2>1. k - 1 \in 0..MaxGroups
    BY <1>1
  <2> QED BY <1>1, <2>1, ShiftedOnce
<1>4. \A k \in 1..g : Shifted(n)[k - 1] % Base \in 0..(Base - 1)
  BY <1>3, Divided
<1>5. Number(n, g) \in [1..g -> Nat]
  BY <1>1, <1>2, <1>4
<1>6. Number(n, g) \in Seq(Nat) /\ Len(Number(n, g)) = g
  BY <1>1, <1>5
<1>7. ASSUME NEW k \in 1..g
      PROVE  /\ Number(n, g)[k] < Base <=> k = g
             /\ Number(n, g)[k] % Base = Shifted(n)[k - 1] % Base
  <2>1. PICK d \in 0..(Base - 1) : d = Shifted(n)[k - 1] % Base
    BY <1>4
  <2>2. Number(n, g)[k] = d + IF k < g THEN Base ELSE 0
    BY <1>2, <2>1
  <2>3. d % Base = d /\ (d + Base) % Base = d
    BY Group
  <2>4. CASE k < g
    BY <1>1, <2>1, <2>2, <2>3, <2>4
  <2>5. CASE k = g
    BY <1>1, <2>1, <2>2, <2>3, <2>5
  <2> QED BY <1>1, <2>4, <2>5
<1> QED BY <1>1, <1>6, <1>7

-------------------------------------------------------------------------------
(* Bytes in bytes                                                                *)

\* The bytes of all from an offset on are those of part.
Holds(all, from, part) ==
  from + Len(part) <= Len(all) /\ \A c \in 1..Len(part) : all[from + c] = part[c]

LEMMA Within ==
  ASSUME NEW all \in Seq(Nat), NEW from \in Nat, NEW part \in Seq(Nat), NEW off \in Nat,
         NEW piece \in Seq(Nat), Holds(all, from, part), Holds(part, off, piece)
  PROVE  Holds(all, from + off, piece)
<1>1. Len(all) \in Nat /\ Len(part) \in Nat /\ Len(piece) \in Nat
  OBVIOUS
<1>2. from + off + Len(piece) <= Len(all)
  BY <1>1 DEF Holds
<1>3. ASSUME NEW c \in 1..Len(piece)
      PROVE  all[from + off + c] = piece[c]
  <2>1. off + c \in 1..Len(part) /\ from + (off + c) = from + off + c
    BY <1>1 DEF Holds
  <2>2. all[from + (off + c)] = part[off + c]
    BY <2>1 DEF Holds
  <2> QED BY <2>1, <2>2 DEF Holds
<1> QED BY <1>2, <1>3 DEF Holds

LEMMA Joined ==
  ASSUME NEW a \in Seq(Nat), NEW b \in Seq(Nat)
  PROVE  /\ a \o b \in Seq(Nat) /\ Len(a \o b) = Len(a) + Len(b)
         /\ Holds(a \o b, 0, a) /\ Holds(a \o b, Len(a), b)
<1>1. PICK s : s = a \o b
  OBVIOUS
<1>2. /\ s \in Seq(Nat) /\ Len(s) = Len(a) + Len(b)
      /\ \A c \in 1..(Len(a) + Len(b)) : s[c] = IF c <= Len(a) THEN a[c] ELSE b[c - Len(a)]
  BY <1>1, ConcatProperties
<1>3. Len(a) \in Nat /\ Len(b) \in Nat
  OBVIOUS
<1>4. \A c \in 1..Len(b) : Len(a) + c \in 1..(Len(a) + Len(b)) /\ Len(a) + c - Len(a) = c
                           /\ ~(Len(a) + c <= Len(a))
  BY <1>3
<1>5. \A c \in 1..Len(b) : s[Len(a) + c] = b[c]
  BY <1>2, <1>4
<1>6. \A c \in 1..Len(a) : s[0 + c] = a[c]
  BY <1>2, <1>3
<1> QED BY <1>1, <1>2, <1>3, <1>5, <1>6 DEF Holds

LEMMA Cut ==
  ASSUME NEW all \in Seq(Nat), NEW from \in Nat, NEW part \in Seq(Nat), Holds(all, from, part)
  PROVE  SubSeq(all, from + 1, from + Len(part)) = part
<1>1. Len(all) \in Nat /\ Len(part) \in Nat /\ from + Len(part) <= Len(all)
  BY DEF Holds
<1>2. \A c \in (from + 1)..(from + Len(part)) : all[c] \in Nat
  BY <1>1
<1>3. PICK s : s = SubSeq(all, from + 1, from + Len(part))
  OBVIOUS
<1>4. /\ s \in Seq(Nat) /\ Len(s) = Len(part)
      /\ \A c \in 1..Len(part) : s[c] = all[from + c]
  BY <1>1, <1>2, <1>3, SubSeqProperties
<1>5. \A c \in 1..Len(part) : s[c] = part[c]
  BY <1>4 DEF Holds
<1> QED BY <1>3, <1>4, <1>5, SeqEqual

\* readULEB128 reads what was written.
LEMMA LengthRead ==
  ASSUME bytes \in Seq(Nat), NEW from \in Nat, NEW n \in 0..(Word - 1), NEW g,
         Fits(n, g), Holds(bytes, from, Number(n, g))
  PROVE  Length(from) = g
<1> DEFINE T == {l \in 1..(Len(bytes) - from) : bytes[from + l] < Base}
<1>1. g \in 1..MaxGroups
  BY DEF Fits
<1>2. g \in Nat /\ g >= 1 /\ Len(bytes) \in Nat
  BY <1>1, WordAssumption
<1>3. \A c \in 1..g : bytes[from + c] < Base <=> c = g
  BY ZenonT(40), <1>1, NumberBytes DEF Holds
<1>4. g \in T
  <2>1. from + g <= Len(bytes)
    BY <1>1, NumberBytes DEF Holds
  <2> QED BY <1>2, <1>3, <2>1
<1>5. \A l \in T : g <= l
  BY <1>2, <1>3
<1>6. T \in SUBSET Nat
  BY <1>2
<1>7. Length(from) = Min(T)
  BY DEF Length, Min
<1> HIDE DEF T
<1>8. Min(T) \in T /\ Min(T) <= g
  BY <1>4, <1>6, LeastNumber
<1>9. Min(T) \in Nat
  BY <1>6, <1>8
<1> QED BY <1>1, <1>2, <1>5, <1>7, <1>8, <1>9

LEMMA NumberRead ==
  ASSUME bytes \in Seq(Nat), NEW from \in Nat, NEW n \in 0..(Word - 1), NEW g,
         Fits(n, g), Holds(bytes, from, Number(n, g))
  PROVE  Decoded(from) = n
<1>1. g \in 1..MaxGroups
  BY DEF Fits
<1>2. g \in Nat /\ MaxGroups \in Nat /\ n \in Nat /\ n < Word /\ Word \in Nat
  BY <1>1, WordAssumption
<1> DEFINE byte(k) == bytes[from + g - k + 1]
           next == [p \in (1..g) \X Nat |-> (byte(p[1]) % Base) + Base * p[2]]
<1>3. \A k \in 1..g : byte(k) \in Nat /\ byte(k) % Base = Shifted(n)[g - k] % Base
  <2> TAKE k \in 1..g
  <2>1. g - k + 1 \in 1..g /\ from + g - k + 1 = from + (g - k + 1)
    BY <1>2
  <2>2. bytes[from + (g - k + 1)] \in Nat
    <3>1. Len(bytes) \in Nat /\ from + g <= Len(bytes)
      BY <1>1, NumberBytes DEF Holds
    <3>2. from + (g - k + 1) \in 1..Len(bytes)
      BY <1>2, <2>1, <3>1
    <3> QED BY <3>2
  <2>3. byte(k) = Number(n, g)[g - k + 1]
    BY <1>1, <2>1, NumberBytes DEF Holds
  <2>4. g - k + 1 - 1 = g - k
    BY <1>2
  <2>5. Number(n, g)[g - k + 1] % Base = Shifted(n)[g - k] % Base
    BY <1>1, <2>1, <2>4, NumberBytes
  <2>6. byte(k) \in Nat
    BY <2>1, <2>2
  <2> HIDE DEF byte
  <2> QED BY <2>3, <2>5, <2>6
<1> HIDE DEF byte
<1>4. \A k \in 1..g : byte(k) % Base \in Nat
  <2> TAKE k \in 1..g
  <2>1. byte(k) \in Nat
    BY <1>3
  <2> QED BY <2>1, Divided
<1>5. next \in StepsUpTo(g, Nat)
  BY SMTT(20), <1>4, WordAssumption DEF StepsUpTo
<1>6. \E f : Follows(f, g, Nat, 0, next)
  <2> HIDE DEF next
  <2> QED BY <1>2, <1>5, Recursion
<1>7. PICK f \in [0..g -> Nat] :
        f[0] = 0 /\ \A k \in 1..g : f[k] = (byte(k) % Base) + Base * f[k - 1]
  <2>1. PICK f : Follows(f, g, Nat, 0, next)
    BY <1>6
  <2>2. ASSUME NEW k \in 1..g
        PROVE  f[k] = (byte(k) % Base) + Base * f[k - 1]
    <3>1. f[k - 1] \in Nat
      BY <1>2, <2>1 DEF Follows
    <3>2. f[k] = next[<<k, f[k - 1]>>]
      BY <2>1 DEF Follows
    <3> QED BY <3>1, <3>2
  <2> QED BY <2>1, <2>2 DEF Follows
<1>8. f = [k \in 0..g |-> IF k = 0 THEN 0 ELSE (byte(k) % Base) + Base * f[k - 1]]
  <2> HIDE DEF next
  <2>1. \A k \in 0..g : f[k] = IF k = 0 THEN 0 ELSE (byte(k) % Base) + Base * f[k - 1]
    BY <1>2, <1>7
  <2> QED BY <2>1
<1> DEFINE value == CHOOSE q : q = [k \in 0..g |->
                      IF k = 0 THEN 0 ELSE (byte(k) % Base) + Base * q[k - 1]]
<1>9. value = [k \in 0..g |-> IF k = 0 THEN 0 ELSE (byte(k) % Base) + Base * value[k - 1]]
  BY <1>8
<1>10. Decoded(from) = value[g] % Word
  <2>1. Length(from) = g
    BY <1>1, LengthRead
  <2>2. Min({g, MaxGroups}) = g
    BY <1>2 DEF Min
  <2> HIDE DEF next
  <2> QED BY <2>1, <2>2 DEF Decoded, byte
<1> HIDE DEF value, next
<1>11. 0..g \subseteq {k \in 0..g : value[k] = Shifted(n)[g - k]}
  <2> DEFINE S == {k \in 0..g : value[k] = Shifted(n)[g - k]}
  <2>1. 0 \in S
    BY <1>1, <1>2, <1>9 DEF Fits
  <2>2. ASSUME NEW k \in 0..(g - 1), k \in S PROVE k + 1 \in S
    <3>1. k + 1 \in 1..g /\ k + 1 \in 0..g /\ k + 1 # 0 /\ k + 1 - 1 = k
      BY <1>2
    <3>2. \A j \in 1..g : value[j] = (byte(j) % Base) + Base * value[j - 1]
      BY <1>2, <1>9
    <3>3. value[k + 1] = (byte(k + 1) % Base) + Base * value[k]
      BY <3>1, <3>2
    <3>4. PICK j \in 1..MaxGroups : j = g - k /\ j - 1 = g - (k + 1) /\ j - 1 \in 0..MaxGroups
      BY <1>2
    <3>5. Shifted(n)[j] = Shifted(n)[j - 1] \div Base /\ Shifted(n)[j - 1] \in Nat
      BY <1>2, <3>4, ShiftedOnce
    <3>6. value[k + 1] = (Shifted(n)[j - 1] % Base) + Base * (Shifted(n)[j - 1] \div Base)
      BY <1>3, <2>2, <3>1, <3>3, <3>4, <3>5
    <3>7. Shifted(n)[j - 1] = Base * (Shifted(n)[j - 1] \div Base) + (Shifted(n)[j - 1] % Base)
      BY <3>5, Divided
    <3>8. value[k + 1] = Shifted(n)[j - 1]
      <4>1. PICK r \in 0..(Base - 1), q \in Nat :
              r = Shifted(n)[j - 1] % Base /\ q = Shifted(n)[j - 1] \div Base
        BY <3>5, Divided
      <4>2. value[k + 1] = r + Base * q /\ Shifted(n)[j - 1] = Base * q + r
        BY <3>6, <3>7, <4>1
      <4>3. Base * q \in Nat /\ r \in Nat
        BY WordAssumption
      <4> QED BY <4>2, <4>3
    <3> QED BY <3>1, <3>4, <3>8
  <2> HIDE DEF S
  <2>3. 0..g \subseteq S
    BY <1>2, <2>1, <2>2, InductionUpTo
  <2> QED BY <2>3 DEF S
<1>12. value[g] = n
  <2>1. g \in 0..g /\ g - g = 0
    BY <1>2
  <2>2. value[g] = Shifted(n)[g - g]
    BY <1>11, <2>1
  <2> QED BY <1>2, <2>1, <2>2, ShiftedOnce
<1>13. n % Word = n
  <2>1. \A x, w \in Nat : x < w => x % w = x
    OBVIOUS
  <2> QED BY <1>2, <2>1
<1> HIDE DEF value, next
<1> QED BY <1>10, <1>12, <1>13

-------------------------------------------------------------------------------
(* Sections                                                                      *)

\* The parts of a custom section.
LEMMA CustomContents ==
  ASSUME NEW s, ValidSection(s), s.type = SecCustom,
         NEW number, number = Number(Len(s.name), s.nameBytes)
  PROVE  /\ s.name \in Seq(Nat) /\ s.body \in Seq(Nat)
         /\ Fits(Len(s.name), s.nameBytes) /\ Len(number) = s.nameBytes
         /\ Len(s.name) \in 0..(Word - 1)
         /\ number \in Seq(Nat) /\ Len(number) >= 1
         /\ Contents(s) \in Seq(Nat)
         /\ Len(Contents(s)) = Len(number) + Len(s.name) + Len(s.body)
         /\ Holds(Contents(s), 0, number)
         /\ Holds(Contents(s), Len(number), s.name)
         /\ Holds(Contents(s), Len(number) + Len(s.name), s.body)
<1>1. s.name \in Seq(Nat) /\ s.body \in Seq(Nat) /\ Fits(Len(s.name), s.nameBytes)
  BY DEF ValidSection
<1>2. Len(s.name) \in 0..(Word - 1)
  BY <1>1, WordAssumption DEF ValidSection
<1>3. number \in Seq(Nat) /\ Len(number) >= 1 /\ Len(number) = s.nameBytes
  BY <1>1, <1>2, NumberBytes, WordAssumption
<1>4. Contents(s) = (number \o s.name) \o s.body
  BY DEF Contents
<1>5. PICK front : front = number \o s.name
  OBVIOUS
<1>6. /\ front \in Seq(Nat) /\ Len(front) = Len(number) + Len(s.name)
      /\ Holds(front, 0, number) /\ Holds(front, Len(number), s.name)
  BY <1>1, <1>3, <1>5, Joined
<1>7. /\ Contents(s) \in Seq(Nat) /\ Len(Contents(s)) = Len(front) + Len(s.body)
      /\ Holds(Contents(s), 0, front) /\ Holds(Contents(s), Len(front), s.body)
  <2>1. Contents(s) = front \o s.body
    BY <1>4, <1>5
  <2>2. PICK all : all = front \o s.body
    OBVIOUS
  <2>3. /\ all \in Seq(Nat) /\ Len(all) = Len(front) + Len(s.body)
        /\ Holds(all, 0, front) /\ Holds(all, Len(front), s.body)
    BY <1>1, <1>6, <2>2, Joined
  <2> QED BY <2>1, <2>2, <2>3
<1>8. Holds(Contents(s), 0 + 0, number)
  BY <1>3, <1>6, <1>7, Within
<1>9. Len(number) \in Nat
  BY <1>3
<1>10. Holds(Contents(s), 0 + Len(number), s.name)
  BY <1>1, <1>6, <1>7, <1>9, Within
<1>11. 0 + 0 = 0 /\ 0 + Len(number) = Len(number)
  BY <1>9
<1>12. Holds(Contents(s), 0, number)
  BY <1>8, <1>11
<1>13. Holds(Contents(s), Len(number), s.name)
  BY <1>10, <1>11
<1> QED BY <1>1, <1>2, <1>3, <1>6, <1>7, <1>12, <1>13

\* What a section holds, and how long it is.
LEMMA SectionParts ==
  ASSUME NEW s, ValidSection(s), NEW number, number = Number(Len(Contents(s)), s.sizeBytes)
  PROVE  /\ Contents(s) \in Seq(Nat) /\ Len(Contents(s)) \in 1..(Word - 1)
         /\ Fits(Len(Contents(s)), s.sizeBytes) /\ Len(number) = s.sizeBytes
         /\ s.type \in Nat
         /\ number \in Seq(Nat) /\ Len(number) >= 1
         /\ Section(s) \in Seq(Nat)
         /\ Len(Section(s)) = 1 + Len(number) + Len(Contents(s))
         /\ Section(s)[1] = s.type
         /\ Holds(Section(s), 1, number)
         /\ Holds(Section(s), 1 + Len(number), Contents(s))
<1>1. Contents(s) \in Seq(Nat) /\ Len(Contents(s)) \in 1..(Word - 1)
  <2>1. CASE s.type = SecCustom
    <3>1. PICK name : name = Number(Len(s.name), s.nameBytes)
      OBVIOUS
    <3>2. /\ Contents(s) \in Seq(Nat) /\ name \in Seq(Nat) /\ Len(name) >= 1
          /\ s.name \in Seq(Nat) /\ s.body \in Seq(Nat)
          /\ Len(Contents(s)) = Len(name) + Len(s.name) + Len(s.body)
      BY <2>1, <3>1, CustomContents
    <3>3. Len(Contents(s)) < Word /\ Word \in Nat
      BY WordAssumption DEF ValidSection
    <3>4. Len(name) \in Nat /\ Len(s.name) \in Nat /\ Len(s.body) \in Nat
      BY <3>2
    <3>5. PICK a \in Nat, b \in Nat, c \in Nat :
            a = Len(name) /\ b = Len(s.name) /\ c = Len(s.body)
      BY <3>4
    <3>6. Len(Contents(s)) = a + b + c /\ a >= 1
      BY <3>2, <3>5
    <3>7. Len(Contents(s)) \in 1..(Word - 1)
      BY <3>3, <3>6
    <3> QED BY <3>2, <3>7
  <2>2. CASE s.type # SecCustom
    <3>1. Contents(s) = s.body
      BY <2>2 DEF Contents
    <3>2. s.body \in Seq(Nat) /\ s.body # <<>> /\ Len(s.body) < Word
      BY <2>2, <3>1 DEF ValidSection
    <3>3. Len(s.body) >= 1
      BY <3>2, EmptySeq
    <3> QED BY <3>1, <3>2, <3>3, WordAssumption
  <2> QED BY <2>1, <2>2
<1>2. Fits(Len(Contents(s)), s.sizeBytes) /\ s.type \in Nat
  BY DEF ValidSection
<1>3. Len(Contents(s)) \in 0..(Word - 1)
  BY <1>1
<1>4. number \in Seq(Nat) /\ Len(number) >= 1 /\ Len(number) = s.sizeBytes
  BY <1>2, <1>3, NumberBytes, WordAssumption
<1>5. Section(s) = (<<s.type>> \o number) \o Contents(s)
  BY DEF Section
<1>6. PICK type : type = <<s.type>>
  OBVIOUS
<1>7. type \in Seq(Nat) /\ Len(type) = 1 /\ type[1] = s.type
  BY <1>2, <1>6
<1>8. PICK front : front = type \o number
  OBVIOUS
<1>9. /\ front \in Seq(Nat) /\ Len(front) = 1 + Len(number)
      /\ Holds(front, 0, type) /\ Holds(front, 1, number)
  BY <1>4, <1>7, <1>8, Joined
<1>10. /\ Section(s) \in Seq(Nat) /\ Len(Section(s)) = Len(front) + Len(Contents(s))
       /\ Holds(Section(s), 0, front) /\ Holds(Section(s), Len(front), Contents(s))
  <2>1. Section(s) = front \o Contents(s)
    BY <1>5, <1>6, <1>8
  <2>2. PICK all : all = front \o Contents(s)
    OBVIOUS
  <2>3. /\ all \in Seq(Nat) /\ Len(all) = Len(front) + Len(Contents(s))
        /\ Holds(all, 0, front) /\ Holds(all, Len(front), Contents(s))
    BY <1>1, <1>9, <2>2, Joined
  <2> QED BY <2>1, <2>2, <2>3
<1>11. Holds(Section(s), 0 + 1, number) /\ 0 + 1 = 1
  BY <1>4, <1>9, <1>10, Within
<1>12. Section(s)[1] = s.type
  <2>1. 1 \in 1..Len(front) /\ 1 \in 1..Len(type) /\ 0 + 1 = 1
    BY <1>4, <1>7, <1>9
  <2>2. Section(s)[0 + 1] = front[1] /\ front[0 + 1] = type[1]
    BY <1>9, <1>10, <2>1 DEF Holds
  <2> QED BY <1>7, <2>1, <2>2
<1> QED BY <1>1, <1>2, <1>4, <1>9, <1>10, <1>11, <1>12

-------------------------------------------------------------------------------
(* Modules                                                                       *)

\* Each section follows the bytes up to the one before.
LEMMA UpToOnce ==
  ASSUME NEW mod \in Modules
  PROVE  /\ UpTo(mod) \in [0..Len(mod) -> Seq(Nat)]
         /\ UpTo(mod)[0] = Preamble
         /\ \A k \in 1..Len(mod) : UpTo(mod)[k] = UpTo(mod)[k - 1] \o Section(mod[k])
<1>1. PICK n \in Nat : n = Len(mod)
  BY ModulesAssumption
<1>2. \A k \in 1..n : ValidSection(mod[k])
  BY <1>1, ModulesAssumption
<1>3. \A k \in 1..n : Section(mod[k]) \in Seq(Nat)
  BY <1>2, SectionParts
<1> DEFINE next == [p \in (1..n) \X Seq(Nat) |-> p[2] \o Section(mod[p[1]])]
<1>4. next \in StepsUpTo(n, Seq(Nat))
  <2>1. \A p \in (1..n) \X Seq(Nat) : p[2] \o Section(mod[p[1]]) \in Seq(Nat)
    BY <1>3, ConcatProperties
  <2> QED BY <2>1 DEF StepsUpTo
<1>5. Preamble \in Seq(Nat)
  BY DEF Preamble
<1>6. PICK f \in [0..n -> Seq(Nat)] :
        f[0] = Preamble /\ \A k \in 1..n : f[k] = f[k - 1] \o Section(mod[k])
  <2>1. \E f : Follows(f, n, Seq(Nat), Preamble, next)
    <3> HIDE DEF next
    <3> QED BY <1>4, <1>5, Recursion
  <2>2. PICK f : Follows(f, n, Seq(Nat), Preamble, next)
    BY <2>1
  <2>3. ASSUME NEW k \in 1..n PROVE f[k] = f[k - 1] \o Section(mod[k])
    <3>1. f[k - 1] \in Seq(Nat)
      BY <2>2 DEF Follows
    <3>2. f[k] = next[<<k, f[k - 1]>>]
      BY <2>2 DEF Follows
    <3> QED BY <3>1, <3>2
  <2> HIDE DEF next
  <2> QED BY <2>2, <2>3 DEF Follows
<1> HIDE DEF next
<1>7. f = [k \in 0..n |-> IF k = 0 THEN Preamble ELSE f[k - 1] \o Section(mod[k])]
  <2>1. ASSUME NEW k \in 0..n
        PROVE  f[k] = IF k = 0 THEN Preamble ELSE f[k - 1] \o Section(mod[k])
    <3>1. CASE k = 0
      BY <1>6, <3>1
    <3>2. CASE k # 0
      <4>1. k \in 1..n
        BY <3>2
      <4> QED BY <1>6, <3>2, <4>1
    <3> QED BY <3>1, <3>2
  <2> QED BY <2>1
<1> DEFINE Right(q) ==
             q = [k \in 0..n |-> IF k = 0 THEN Preamble ELSE q[k - 1] \o Section(mod[k])]
<1>8. UpTo(mod) = CHOOSE q : Right(q)
  BY <1>1 DEF UpTo
<1>9. Right(UpTo(mod))
  <2>1. Right(f)
    BY <1>7
  <2> HIDE DEF Right
  <2> QED BY <1>8, <2>1
<1>10. UpTo(mod)[0] = Preamble
  BY <1>9
<1>11. ASSUME NEW k \in 1..n
       PROVE  UpTo(mod)[k] = UpTo(mod)[k - 1] \o Section(mod[k])
  <2>1. k \in 0..n /\ k # 0
    OBVIOUS
  <2> QED BY <1>9, <2>1
<1>12. 0..n \subseteq {k \in 0..n : UpTo(mod)[k] \in Seq(Nat)}
  <2> DEFINE S == {k \in 0..n : UpTo(mod)[k] \in Seq(Nat)}
  <2>1. 0 \in S
    BY <1>5, <1>10
  <2>2. ASSUME NEW k \in 0..(n - 1), k \in S PROVE k + 1 \in S
    <3>1. k + 1 \in 1..n /\ k + 1 \in 0..n /\ k + 1 - 1 = k
      OBVIOUS
    <3>2. UpTo(mod)[k + 1] = UpTo(mod)[k] \o Section(mod[k + 1])
      <4>1. PICK j \in 1..n : j = k + 1 /\ j - 1 = k
        BY <3>1
      <4>2. UpTo(mod)[j] = UpTo(mod)[j - 1] \o Section(mod[j])
        BY <1>11
      <4> QED BY <4>1, <4>2
    <3>3. UpTo(mod)[k] \in Seq(Nat) /\ Section(mod[k + 1]) \in Seq(Nat)
      BY <1>3, <2>2, <3>1
    <3>4. UpTo(mod)[k + 1] \in Seq(Nat)
      BY <3>2, <3>3, ConcatProperties
    <3> QED BY <3>1, <3>4
  <2> HIDE DEF S
  <2>3. 0..n \subseteq S
    BY <2>1, <2>2, InductionUpTo
  <2> QED BY <2>3 DEF S
<1>13. UpTo(mod) \in [0..n -> Seq(Nat)]
  <2>1. \A k \in 0..n : UpTo(mod)[k] \in Seq(Nat)
    BY <1>12
  <2>2. DOMAIN UpTo(mod) = 0..n /\ UpTo(mod) = [k \in DOMAIN UpTo(mod) |-> UpTo(mod)[k]]
    BY <1>9
  <2> QED BY <2>1, <2>2
<1> QED BY <1>1, <1>10, <1>11, <1>13

\* Where the bytes up to a section are in those up to the next.
LEMMA UpToGrows ==
  ASSUME NEW mod \in Modules, NEW k \in 1..Len(mod)
  PROVE  /\ UpTo(mod)[k - 1] \in Seq(Nat) /\ UpTo(mod)[k] \in Seq(Nat)
         /\ Section(mod[k]) \in Seq(Nat)
         /\ Len(UpTo(mod)[k]) = Len(UpTo(mod)[k - 1]) + Len(Section(mod[k]))
         /\ Holds(UpTo(mod)[k], 0, UpTo(mod)[k - 1])
         /\ Holds(UpTo(mod)[k], Len(UpTo(mod)[k - 1]), Section(mod[k]))
<1>1. k \in 0..Len(mod) /\ k - 1 \in 0..Len(mod)
  BY ModulesAssumption
<1>2. PICK before \in Seq(Nat) : before = UpTo(mod)[k - 1]
  BY <1>1, UpToOnce
<1>3. ValidSection(mod[k])
  BY ModulesAssumption
<1>4. PICK section \in Seq(Nat) : section = Section(mod[k])
  BY <1>3, SectionParts
<1>5. UpTo(mod)[k] = before \o section
  BY <1>2, <1>4, UpToOnce
<1>6. PICK all : all = before \o section
  OBVIOUS
<1>7. /\ all \in Seq(Nat) /\ Len(all) = Len(before) + Len(section)
      /\ Holds(all, 0, before) /\ Holds(all, Len(before), section)
  BY <1>6, Joined
<1> QED BY <1>2, <1>4, <1>5, <1>6, <1>7

\* The bytes up to a section begin the module.
LEMMA Prefix ==
  ASSUME NEW mod \in Modules
  PROVE  \A k \in 0..Len(mod) : Holds(Binary(mod), 0, UpTo(mod)[k])
<1>1. PICK n \in Nat : n = Len(mod)
  BY ModulesAssumption
<1>2. \A k \in 0..n : UpTo(mod)[k] \in Seq(Nat)
  BY <1>1, UpToOnce
<1>3. Binary(mod) = UpTo(mod)[n] /\ Binary(mod) \in Seq(Nat)
  BY <1>1, <1>2 DEF Binary
<1> DEFINE S == {j \in 0..n : Holds(Binary(mod), 0, UpTo(mod)[n - j])}
<1>4. 0 \in S
  <2>1. Len(Binary(mod)) \in Nat
    BY <1>3
  <2>2. \A c \in 1..Len(Binary(mod)) : 0 + c = c
    OBVIOUS
  <2>3. Holds(Binary(mod), 0, Binary(mod))
    BY <2>1, <2>2 DEF Holds
  <2>4. n - 0 = n /\ 0 \in 0..n
    OBVIOUS
  <2> QED BY <1>3, <2>3, <2>4
<1>5. ASSUME NEW j \in 0..(n - 1), j \in S PROVE j + 1 \in S
  <2>1. PICK k \in 1..n : k = n - j /\ k - 1 = n - (j + 1) /\ k - 1 \in 0..n /\ k \in 0..n
    OBVIOUS
  <2>2. Holds(UpTo(mod)[k], 0, UpTo(mod)[k - 1])
    BY <1>1, UpToGrows
  <2>3. Holds(Binary(mod), 0, UpTo(mod)[k])
    BY <1>5, <2>1
  <2>4. Holds(Binary(mod), 0 + 0, UpTo(mod)[k - 1])
    BY <1>2, <1>3, <2>1, <2>2, <2>3, Within
  <2>5. 0 + 0 = 0 /\ j + 1 \in 0..n
    OBVIOUS
  <2> QED BY <2>1, <2>4, <2>5
<1>6. 0..n \subseteq S
  <2> HIDE DEF S
  <2> QED BY <1>4, <1>5, InductionUpTo
<1>7. ASSUME NEW k \in 0..n PROVE Holds(Binary(mod), 0, UpTo(mod)[k])
  <2>1. n - k \in 0..n /\ n - (n - k) = k
    OBVIOUS
  <2> QED BY <1>6, <2>1
<1> QED BY <1>1, <1>7

\* Where a section is in the module.
LEMMA SectionPlace ==
  ASSUME NEW mod \in Modules, NEW k \in 1..Len(mod)
  PROVE  /\ Binary(mod) \in Seq(Nat)
         /\ Holds(Binary(mod), Len(UpTo(mod)[k - 1]), Section(mod[k]))
         /\ Len(UpTo(mod)[k]) <= Len(Binary(mod))
<1>1. Len(mod) \in Nat /\ Len(mod) \in 0..Len(mod) /\ k \in 0..Len(mod)
  BY ModulesAssumption
<1>2. Binary(mod) \in Seq(Nat)
  BY <1>1, UpToOnce DEF Binary
<1>3. Holds(Binary(mod), 0, UpTo(mod)[k])
  BY <1>1, Prefix
<1>4. PICK before \in Seq(Nat), section \in Seq(Nat), all \in Seq(Nat) :
        /\ before = UpTo(mod)[k - 1] /\ section = Section(mod[k]) /\ all = UpTo(mod)[k]
        /\ Holds(all, Len(before), section)
  BY UpToGrows
<1>5. Len(before) \in Nat
  OBVIOUS
<1>6. Holds(Binary(mod), 0 + Len(before), section)
  BY <1>2, <1>3, <1>4, <1>5, Within
<1>7. 0 + Len(before) = Len(before)
  BY <1>5
<1>8. 0 + Len(all) <= Len(Binary(mod)) /\ Len(all) \in Nat
  BY <1>3, <1>4 DEF Holds
<1>9. Len(all) <= Len(Binary(mod))
  BY <1>8
<1> QED BY <1>2, <1>4, <1>6, <1>7, <1>9

-------------------------------------------------------------------------------
(* The walk over the sections                                                    *)

\* The walk is at the k-th section of a module, s.
AtNth(k, s) ==
  /\ module \in Modules /\ bytes = Binary(module) /\ spare \in Nat
  /\ k \in 1..Len(module) /\ s = module[k]
  /\ at = Len(UpTo(module)[k - 1])

\* It reads the section and finds the end of it.
LEMMA SectionRead ==
  ASSUME NEW k, NEW s, AtNth(k, s)
  PROVE  /\ bytes \in Seq(Nat) /\ at \in Nat /\ at < Len(bytes)
         /\ sectionType = s.type
         /\ Decoded(sizeAt) = Len(Contents(s))
         /\ start \in Nat
         /\ start + Len(Contents(s)) = Len(UpTo(module)[k])
         /\ Len(UpTo(module)[k]) <= Len(bytes)
         /\ Readable(sizeAt)
         /\ Holds(bytes, start, Contents(s))
<1>1. /\ bytes \in Seq(Nat) /\ Holds(bytes, at, Section(s))
      /\ Len(UpTo(module)[k]) <= Len(bytes)
  BY SectionPlace DEF AtNth
<1>2. /\ at \in Nat /\ Section(s) \in Seq(Nat)
      /\ Len(UpTo(module)[k]) = at + Len(Section(s))
  <2>1. PICK before \in Seq(Nat) : before = UpTo(module)[k - 1]
    BY UpToGrows DEF AtNth
  <2>2. at = Len(before) /\ at \in Nat
    BY <2>1 DEF AtNth
  <2> QED BY <2>2, UpToGrows DEF AtNth
<1>3. ValidSection(s)
  BY ModulesAssumption DEF AtNth
<1>4. PICK number : number = Number(Len(Contents(s)), s.sizeBytes)
  OBVIOUS
<1>5. PICK contents, len : contents = Contents(s) /\ len = Len(contents)
  OBVIOUS
<1>6. /\ contents \in Seq(Nat) /\ len \in 1..(Word - 1)
      /\ Fits(len, s.sizeBytes) /\ Len(number) = s.sizeBytes
      /\ number \in Seq(Nat) /\ Len(number) >= 1 /\ Section(s) \in Seq(Nat)
      /\ Len(Section(s)) = 1 + Len(number) + len /\ Section(s)[1] = s.type
      /\ Holds(Section(s), 1, number) /\ Holds(Section(s), 1 + Len(number), contents)
  BY <1>3, <1>4, <1>5, SectionParts
<1>7. Len(number) \in Nat /\ len \in Nat /\ Len(bytes) \in Nat
  BY <1>1, <1>6, WordAssumption
<1>8. PICK g \in Nat : g = Len(number) /\ g >= 1
  BY <1>6, <1>7
<1>9. at + 1 + g + len = Len(UpTo(module)[k]) /\ at + 1 + g + len <= Len(bytes)
  <2>1. PICK total, own : total = Len(UpTo(module)[k]) /\ own = Len(Section(s))
    OBVIOUS
  <2>2. total = at + own /\ own = 1 + g + len /\ total <= Len(bytes)
    BY <1>1, <1>2, <1>6, <1>8, <2>1
  <2>3. at \in Nat /\ len \in Nat
    BY <1>2, <1>7
  <2>4. at + own = at + 1 + g + len
    BY <1>8, <2>2, <2>3
  <2> QED BY <2>1, <2>2, <2>4
<1>10. Holds(bytes, at + 1, number)
  BY <1>1, <1>2, <1>6, Within
<1>11. Holds(bytes, at + (1 + g), contents)
  <2>1. 1 + g \in Nat
    BY <1>8
  <2>2. Holds(Section(s), 1 + g, contents)
    <3> HIDE DEF Holds
    <3>1. 1 + g = 1 + Len(number)
      BY <1>8
    <3>2. Holds(Section(s), 1 + Len(number), contents)
      BY <1>6
    <3> QED BY <3>1, <3>2
  <2> QED BY <1>1, <1>2, <1>6, <2>1, <2>2, Within
<1>12. at + (1 + g) = at + 1 + g /\ at + 1 \in Nat /\ len \in 0..(Word - 1)
  <2>1. len \in 0..(Word - 1)
    BY <1>6, WordAssumption
  <2>2. at \in Nat
    BY <1>2
  <2>3. at + 1 \in Nat /\ at + (1 + g) = at + 1 + g
    BY <1>8, <2>2
  <2> QED BY <2>1, <2>3
<1>13. Length(at + 1) = g /\ Decoded(at + 1) = len
  <2>1. number = Number(len, g) /\ Fits(len, g)
    BY <1>4, <1>5, <1>6, <1>8
  <2>2. Length(at + 1) = g
    BY <1>1, <1>10, <1>12, <2>1, LengthRead
  <2>3. Decoded(at + 1) = len
    BY <1>1, <1>10, <1>12, <2>1, NumberRead
  <2> QED BY <2>2, <2>3
<1>14. start = at + 1 + g
  BY <1>13 DEF start, sizeAt
<1>15. Decoded(sizeAt) = len
  BY <1>13 DEF sizeAt
<1>16. sectionType = s.type
  <2>1. 1 \in 1..Len(Section(s))
    BY <1>6, <1>7
  <2>2. bytes[at + 1] = Section(s)[1]
    BY <1>1, <2>1 DEF Holds
  <2> QED BY <1>6, <2>2 DEF sectionType
<1>17. at < Len(bytes) /\ at + 1 + g + 1 <= Len(bytes)
  <2>1. at \in Nat /\ len \in Nat /\ len >= 1 /\ Len(bytes) \in Nat
    BY <1>2, <1>6, <1>7
  <2> QED BY <1>8, <1>9, <2>1
<1>18. Readable(sizeAt)
  <2>1. at + 1 + g + 1 <= Len(bytes) + spare
    BY <1>2, <1>7, <1>8, <1>17 DEF AtNth
  <2> QED BY <1>13, <2>1 DEF Readable, sizeAt
<1>19. start \in Nat /\ start + Len(Contents(s)) = Len(UpTo(module)[k])
  <2>1. at + 1 + g \in Nat
    BY <1>12
  <2> QED BY <1>5, <1>9, <1>14, <2>1
<1>20. Holds(bytes, start, Contents(s))
  <2>1. Holds(bytes, at + 1 + g, contents)
    BY <1>11, <1>12
  <2> QED BY <1>5, <1>14, <2>1
<1> QED BY <1>1, <1>2, <1>5, <1>15, <1>16, <1>17, <1>18, <1>19, <1>20

\* It reads a custom section as it was written, and fails to only if nothing follows.
LEMMA CustomRead ==
  ASSUME NEW k, NEW s, AtNth(k, s), s.type = SecCustom
  PROVE  /\ NewCustomSection(start + Decoded(sizeAt)) =
              [name |-> s.name, data |-> s.body]
         /\ Len(s.name) + Len(s.body) < Len(bytes)
         /\ ~Readable(start) =>
              spare = 0 /\ s.name = <<>> /\ s.body = <<>> /\ k = Len(module)
<1>1. PICK number : number = Number(Len(s.name), s.nameBytes)
  OBVIOUS
<1>2. PICK contents, name, body :
        /\ contents = Contents(s)
        /\ name = s.name /\ body = s.body
  OBVIOUS
<1>3. ValidSection(s)
  BY ModulesAssumption DEF AtNth
<1>4. /\ name \in Seq(Nat) /\ body \in Seq(Nat)
      /\ Fits(Len(name), s.nameBytes) /\ Len(number) = s.nameBytes
      /\ Len(name) \in 0..(Word - 1) /\ number \in Seq(Nat) /\ Len(number) >= 1
      /\ contents \in Seq(Nat) /\ Len(contents) = Len(number) + Len(name) + Len(body)
      /\ Holds(contents, 0, number) /\ Holds(contents, Len(number), name)
      /\ Holds(contents, Len(number) + Len(name), body)
  BY <1>1, <1>2, <1>3, CustomContents
<1>5. /\ bytes \in Seq(Nat) /\ start \in Nat
      /\ Decoded(sizeAt) = Len(contents)
      /\ start + Len(contents) = Len(UpTo(module)[k])
      /\ Len(UpTo(module)[k]) <= Len(bytes)
      /\ Holds(bytes, start, contents)
  BY <1>2, SectionRead
<1>6. PICK g \in Nat, a \in Nat, b \in Nat, all \in Nat :
        /\ g = Len(number) /\ a = Len(name) /\ b = Len(body) /\ all = Len(bytes)
        /\ g >= 1 /\ Len(contents) = g + a + b
  BY <1>4, <1>5
<1>7. start + g + a + b = Len(UpTo(module)[k]) /\ start + g + a + b <= all
  <2>1. start + (g + a + b) = Len(UpTo(module)[k]) /\ start + (g + a + b) <= all
    BY <1>5, <1>6
  <2> QED BY <1>5, <1>6, <2>1
<1>8. Holds(bytes, start, number) /\ Holds(bytes, start + g, name)
      /\ Holds(bytes, start + g + a, body)
  <2>1. Holds(bytes, start + 0, number) /\ start + 0 = start
    BY <1>4, <1>5, Within
  <2>2. Holds(bytes, start + g, name)
    BY <1>4, <1>5, <1>6, Within
  <2>3. g + a \in Nat /\ Holds(contents, g + a, body)
    BY <1>4, <1>6
  <2>4. Holds(bytes, start + (g + a), body)
    BY <1>4, <1>5, <2>3, Within
  <2>5. start + (g + a) = start + g + a
    BY <1>5
  <2> QED BY <2>1, <2>2, <2>4, <2>5
<1>9. Length(start) = g /\ Decoded(start) = a
  <2>1. number = Number(a, g) /\ Fits(a, g) /\ a \in 0..(Word - 1)
    BY <1>1, <1>2, <1>4, <1>6
  <2>2. Length(start) = g
    BY <1>5, <1>8, <2>1, LengthRead
  <2>3. Decoded(start) = a
    BY <1>5, <1>8, <2>1, NumberRead
  <2> QED BY <2>2, <2>3
<1>10. nameAt = start + g /\ nameEnd = start + g + a
  BY <1>2, <1>9 DEF nameAt, nameEnd
<1>11. Part(start + g, start + g + a) = name
  <2>1. start + g \in Nat
    BY <1>5
  <2>2. SubSeq(bytes, start + g + 1, start + g + Len(name)) = name
    BY <1>4, <1>5, <1>8, <2>1, Cut
  <2> QED BY <1>6, <2>2 DEF Part
<1>12. Part(start + g + a, start + g + a + b) = body
  <2>1. start + g + a \in Nat
    BY <1>5
  <2>2. SubSeq(bytes, start + g + a + 1, start + g + a + Len(body)) = body
    BY <1>4, <1>5, <1>8, <2>1, Cut
  <2> QED BY <1>6, <2>2 DEF Part
<1>13. start + Decoded(sizeAt) = start + g + a + b
  <2>1. start + Decoded(sizeAt) = start + (g + a + b)
    BY <1>2, <1>5, <1>6
  <2> QED BY <1>5, <2>1
<1>14. NewCustomSection(start + g + a + b) = [name |-> s.name, data |-> s.body]
  BY <1>2, <1>10, <1>11, <1>12 DEF NewCustomSection
<1>15. a + b < all
  BY <1>5, <1>6, <1>7
<1>16. ASSUME ~Readable(start)
       PROVE  spare = 0 /\ s.name = <<>> /\ s.body = <<>> /\ k = Len(module)
  <2>1. spare \in Nat
    BY DEF AtNth
  <2>2. ~(start + g + 1 <= all + spare)
    BY <1>2, <1>6, <1>9, <1>16 DEF Readable
  <2>3. spare = 0 /\ a = 0 /\ b = 0 /\ start + g + a + b = all
    BY <1>5, <1>7, <2>1, <2>2
  <2>4. s.name = <<>> /\ s.body = <<>>
    BY <1>2, <1>4, <1>6, <2>3, EmptySeq
  <2>5. k = Len(module)
    <3>1. k \in Nat /\ Len(module) \in Nat /\ k <= Len(module)
      BY ModulesAssumption DEF AtNth
    <3>2. CASE k < Len(module)
      <4>1. PICK l \in 1..Len(module) : l = k + 1 /\ l - 1 = k
        BY <3>1, <3>2
      <4>2. module \in Modules /\ bytes = Binary(module)
        BY DEF AtNth
      <4>3. Holds(bytes, Len(UpTo(module)[k]), Section(module[l]))
        BY <4>1, <4>2, SectionPlace
      <4>4. ValidSection(module[l])
        BY <4>2, ModulesAssumption
      <4>5. Section(module[l]) \in Seq(Nat) /\ Len(Section(module[l])) >= 1
        <5>1. PICK size : size = Number(Len(Contents(module[l])), module[l].sizeBytes)
          OBVIOUS
        <5>2. PICK c \in Nat, d \in Nat : c = Len(size) /\ d = Len(Contents(module[l]))
          BY SMTT(20), <4>4, <5>1, SectionParts
        <5>3. Section(module[l]) \in Seq(Nat) /\ Len(Section(module[l])) = 1 + c + d
          BY <4>4, <5>1, <5>2, SectionParts
        <5> QED BY <5>2, <5>3
      <4>6. Len(UpTo(module)[k]) = all
        BY <1>7, <2>3
      <4>7. all + Len(Section(module[l])) <= all
        BY <1>6, <4>3, <4>6 DEF Holds
      <4> QED BY <4>5, <4>7
    <3> QED BY <3>1, <3>2
  <2> QED BY <2>3, <2>4, <2>5
<1> QED BY <1>2, <1>6, <1>13, <1>14, <1>15, <1>16

\* What has been found in the first k sections.
CustomsUpTo(k) == {j \in 1..k : module[j].type = SecCustom}
Found(k) ==
  /\ DOMAIN customSections = {module[j].name : j \in CustomsUpTo(k)}
  /\ \A j \in CustomsUpTo(k) :
       \/ customSections[module[j].name] = module[j].body
       \/ \E l \in CustomsUpTo(k) : l > j /\ module[l].name = module[j].name
  /\ \A j \in 1..k : module[j].type = SecCode => codeSectionOffset = OffsetOf(j)

\* The walk is behind the k-th section.
Walked(k) ==
  /\ module \in Modules /\ bytes = Binary(module)
  /\ k \in 0..Len(module) /\ at = Len(UpTo(module)[k])
  /\ Found(k)

Given ==
  \/ module \in Modules /\ bytes = Binary(module)
  \/ module = <<>> /\ bytes \in Texts

\* The inductive invariant: between two sections, what has been found is what the
\* sections so far have.
WalkInv ==
  /\ WSTypeOK /\ spare \in Nat
  /\ \/ walk = "preamble" /\ Given /\ at = 0 /\ customSections = [name \in {} |-> <<>>]
     \/ walk = "sections" /\ \E k : Walked(k)
     \/ walk = "done" /\ Walked(Len(module))
     \/ walk \in {"error", "panic"} /\ WalkedToTheEnd

\* A module or a text is a sequence of bytes.
LEMMA BytesGiven ==
  ASSUME Given
  PROVE  bytes \in Seq(Nat) /\ Len(bytes) \in Nat
<1>1. ASSUME module \in Modules PROVE Binary(module) \in Seq(Nat)
  <2>1. Len(module) \in Nat
    BY <1>1, ModulesAssumption
  <2>2. Len(module) \in 0..Len(module)
    BY <2>1
  <2> QED BY <1>1, <2>2, UpToOnce DEF Binary
<1>2. bytes \in Seq(Nat)
  BY <1>1, TextsAssumption DEF Given
<1> QED BY <1>2

\* A module begins with the preamble.
LEMMA BeginsLikeModule ==
  ASSUME module \in Modules, bytes = Binary(module)
  PROVE  HasPreamble /\ Len(Preamble) \in 0..Len(bytes)
<1>1. bytes \in Seq(Nat) /\ Len(bytes) \in Nat
  BY BytesGiven DEF Given
<1>2. Preamble \in Seq(Nat) /\ Len(Preamble) \in Nat
  BY DEF Preamble
<1>3. 0 \in 0..Len(module) /\ UpTo(module)[0] = Preamble
  <2>1. Len(module) \in Nat
    BY ModulesAssumption
  <2>2. 0 \in 0..Len(module)
    BY <2>1
  <2> QED BY <2>2, UpToOnce
<1>4. Holds(bytes, 0, Preamble)
  BY <1>3, Prefix
<1>5. SubSeq(bytes, 0 + 1, 0 + Len(Preamble)) = Preamble
  BY <1>1, <1>2, <1>4, Cut
<1>6. 0 + 1 = 1 /\ 0 + Len(Preamble) = Len(Preamble)
  BY <1>2
<1>7. Len(Preamble) <= Len(bytes)
  BY <1>4, <1>6 DEF Holds
<1>8. SubSeq(bytes, 1, Len(Preamble)) = Preamble
  BY <1>5, <1>6
<1> QED BY <1>1, <1>2, <1>7, <1>8 DEF HasPreamble

\* A text does not.
LEMMA TextsDiffer ==
  ASSUME bytes \in Texts
  PROVE  ~HasPreamble
<1> SUFFICES ASSUME HasPreamble PROVE FALSE
  OBVIOUS
<1>1. bytes \in Seq(Nat) /\ bytes[1] # Preamble[1]
  BY TextsAssumption
<1>2. Len(Preamble) = 2 /\ Len(bytes) \in Nat /\ Len(bytes) >= 2
  BY <1>1 DEF HasPreamble, Preamble
<1>3. SubSeq(bytes, 1, 2)[1] = bytes[1]
  BY <1>1, <1>2
<1> QED BY <1>1, <1>2, <1>3 DEF HasPreamble

\* Before the end of the bytes there is another section.
LEMMA NextSection ==
  ASSUME NEW k, Walked(k), spare \in Nat
  PROVE  /\ k \in Nat /\ k + 1 - 1 = k
         /\ at < Len(bytes) => AtNth(k + 1, module[k + 1])
         /\ at >= Len(bytes) => k = Len(module)
<1>1. Len(module) \in Nat /\ k \in 0..Len(module) /\ module \in Modules
      /\ bytes = Binary(module) /\ at = Len(UpTo(module)[k])
  BY ModulesAssumption DEF Walked
<1>2. k \in Nat /\ k + 1 - 1 = k /\ k <= Len(module)
  BY <1>1
<1>3. Len(bytes) \in Nat
  BY <1>1, BytesGiven DEF Given
<1>4. at < Len(bytes) => k # Len(module)
  <2>1. k = Len(module) => at = Len(bytes)
    BY <1>1 DEF Binary
  <2> QED BY <1>3, <2>1
<1>5. k # Len(module) => k + 1 \in 1..Len(module)
  BY <1>1, <1>2
<1>6. k # Len(module) => AtNth(k + 1, module[k + 1])
  BY <1>1, <1>2, <1>5 DEF AtNth
<1>7. AtNth(k + 1, module[k + 1]) => at < Len(bytes) /\ at \in Nat
  BY SectionRead
<1>8. at >= Len(bytes) => k = Len(module)
  BY <1>3, <1>6, <1>7
<1> QED BY <1>2, <1>4, <1>6, <1>8

\* The walk starts with nothing found.
LEMMA WalkInit == WSInit => WalkInv
<1> SUFFICES ASSUME WSInit PROVE WalkInv
  OBVIOUS
<1>1. /\ walk = "preamble" /\ at = 0 /\ codeSectionOffset = 0 /\ spare \in Nat
      /\ customSections = [name \in {} |-> <<>>]
  BY SparesAssumption DEF WSInit
<1>2. Given
  BY DEF WSInit, Given
<1>3. Len(bytes) \in Nat
  BY <1>2, BytesGiven
<1>4. WSTypeOK
  BY <1>1, <1>3 DEF WSTypeOK
<1> QED BY <1>1, <1>2, <1>4 DEF WalkInv

\* Behind the preamble of a module, no section has been walked.
LEMMA PreambleKeeps ==
  ASSUME WalkInv, ReadPreamble
  PROVE  WalkInv'
<1>1. /\ walk = "preamble" /\ walk' = "sections" /\ at' = Len(Preamble)
      /\ module' = module /\ bytes' = bytes /\ spare' = spare
      /\ customSections' = customSections /\ codeSectionOffset' = codeSectionOffset
      /\ HasPreamble
  BY DEF ReadPreamble
<1>2. Given /\ customSections = [name \in {} |-> <<>>] /\ WSTypeOK /\ spare \in Nat
  BY <1>1 DEF WalkInv
<1>3. module \in Modules /\ bytes = Binary(module)
  BY <1>1, <1>2, TextsDiffer DEF Given
<1>4. Len(Preamble) \in 0..Len(bytes)
  BY <1>3, BeginsLikeModule
<1>5. UpTo(module)[0] = Preamble /\ 0 \in 0..Len(module)
  <2>1. Len(module) \in Nat
    BY <1>3, ModulesAssumption
  <2>2. 0 \in 0..Len(module)
    BY <2>1
  <2> QED BY <1>3, <2>2, UpToOnce
<1>6. Found(0)'
  <2>1. CustomsUpTo(0)' = {}
    BY DEF CustomsUpTo
  <2>2. DOMAIN customSections' = {}
    BY <1>1, <1>2
  <2> QED BY <2>1, <2>2 DEF Found
<1>7. Walked(0)'
  BY <1>1, <1>3, <1>5, <1>6 DEF Walked
<1>8. WSTypeOK'
  BY <1>1, <1>2, <1>4 DEF WSTypeOK
<1> QED BY <1>1, <1>2, <1>7, <1>8 DEF WalkInv

\* What stops the walk leaves what was found.
LEMMA StopKeeps ==
  ASSUME WalkInv, NEW outcome \in {"done", "error", "panic"}, Stopped(outcome)
  PROVE  WSTypeOK' /\ spare' \in Nat /\ walk' = outcome
  BY DEF WalkInv, WSTypeOK, Stopped

\* Only a text does not begin like a module.
LEMMA InvalidKeeps ==
  ASSUME WalkInv, InvalidPreamble
  PROVE  WalkInv'
<1>1. /\ walk = "preamble" /\ Stopped("error")
      /\ ~HasPreamble
  BY DEF InvalidPreamble
<1>2. module = <<>>
  BY <1>1, BeginsLikeModule DEF WalkInv, Given
<1>3. module' = <<>> /\ walk' = "error"
  BY <1>1, <1>2 DEF Stopped
<1>4. WalkedToTheEnd'
  BY <1>3 DEF WalkedToTheEnd
<1> QED BY <1>1, <1>3, <1>4, StopKeeps DEF WalkInv

\* Only a text may be too short for it.
LEMMA PreamblePanicKeeps ==
  ASSUME WalkInv, PreamblePanics
  PROVE  WalkInv'
<1>1. walk = "preamble" /\ Stopped("panic") /\ Len(bytes) + spare < Len(Preamble)
  BY DEF PreamblePanics
<1>2. spare \in Nat /\ Len(bytes) \in Nat /\ Len(Preamble) \in Nat
  BY <1>1, BytesGiven DEF WalkInv, Preamble
<1>3. ~(Len(Preamble) \in 0..Len(bytes))
  BY <1>1, <1>2
<1>4. module = <<>>
  BY <1>1, <1>3, BeginsLikeModule DEF WalkInv, Given
<1>5. module' = <<>> /\ bytes' = bytes /\ spare' = spare /\ walk' = "panic"
  BY <1>1, <1>4 DEF Stopped
<1>6. WalkedToTheEnd'
  BY <1>1, <1>5 DEF WalkedToTheEnd, Preamble
<1> QED BY <1>1, <1>5, <1>6, StopKeeps DEF WalkInv

\* A type that the table lacks is the type of a section of the module.
LEMMA UnsupportedKeeps ==
  ASSUME WalkInv, UnsupportedSection
  PROVE  WalkInv'
<1>1. /\ walk = "sections" /\ at < Len(bytes) /\ Stopped("error")
      /\ sectionType \notin secTypeNames
  BY DEF UnsupportedSection, AtSection
<1>2. PICK k : Walked(k)
  BY <1>1 DEF WalkInv
<1>3. PICK l, s : AtNth(l, s)
  BY <1>1, <1>2, NextSection DEF WalkInv
<1>4. sectionType = s.type /\ l \in DOMAIN module /\ s = module[l]
  BY <1>3, SectionRead, ModulesAssumption DEF AtNth
<1>5. \E j \in DOMAIN module : module[j].type \notin secTypeNames
  BY <1>1, <1>4
<1>6. module' = module /\ walk' = "error"
  BY <1>1 DEF Stopped
<1>7. WalkedToTheEnd'
  BY <1>5, <1>6 DEF WalkedToTheEnd, secTypeNames
<1> QED BY <1>1, <1>6, <1>7, StopKeeps DEF WalkInv

\* The bytes of a size are always there: only the length of an empty name may lack the
\* byte behind it.
LEMMA PanicsKeeps ==
  ASSUME WalkInv, ReadPanics
  PROVE  WalkInv'
<1>1. /\ walk = "sections" /\ at < Len(bytes) /\ Stopped("panic")
      /\ \/ ~Readable(sizeAt)
         \/ sectionType = SecCustom /\ ~Readable(start)
  BY DEF ReadPanics, AtSection
<1>2. PICK k : Walked(k)
  BY <1>1 DEF WalkInv
<1>3. PICK l, s : AtNth(l, s)
  BY <1>1, <1>2, NextSection DEF WalkInv
<1>4. Readable(sizeAt) /\ sectionType = s.type
  BY <1>3, SectionRead
<1>5. spare = 0 /\ s.name = <<>> /\ s.body = <<>> /\ l = Len(module) /\ s.type = SecCustom
  BY <1>1, <1>3, <1>4, CustomRead
<1>6. s = module[Len(module)] /\ module # <<>>
  <2>1. module \in Modules /\ l \in 1..Len(module) /\ s = module[Len(module)]
    BY <1>3, <1>5 DEF AtNth
  <2>2. Len(module) # 0
    BY <2>1
  <2> QED BY <2>1, <2>2
<1>7. module' = module /\ walk' = "panic" /\ spare' = spare
  BY <1>1 DEF Stopped
<1>8. WalkedToTheEnd'
  BY <1>5, <1>6, <1>7 DEF WalkedToTheEnd
<1> QED BY <1>1, <1>7, <1>8, StopKeeps DEF WalkInv

\* At the end of the bytes all sections have been walked.
LEMMA WalkReturns ==
  ASSUME WalkInv, WSReturn
  PROVE  WalkInv'
<1>1. walk = "sections" /\ at >= Len(bytes) /\ Stopped("done")
  BY DEF WSReturn
<1>2. PICK k : Walked(k)
  BY <1>1 DEF WalkInv
<1>3. Walked(Len(module))
  BY <1>1, <1>2, NextSection DEF WalkInv
<1>4. /\ module' = module /\ bytes' = bytes /\ at' = at /\ walk' = "done"
      /\ customSections' = customSections /\ codeSectionOffset' = codeSectionOffset
  BY <1>1 DEF Stopped
<1>5. Walked(Len(module))'
  BY <1>3, <1>4 DEF Walked, Found, CustomsUpTo, OffsetOf
<1> QED BY <1>1, <1>4, <1>5, StopKeeps DEF WalkInv

\* With one section more, the others are as they were.
LEMMA OneMore ==
  ASSUME NEW k \in Nat
  PROVE  1..(k + 1) = (1..k) \cup {k + 1}
  OBVIOUS

\* A section passed over: the code section leaves its offset.
LEMMA SkipKeeps ==
  ASSUME WalkInv, SkipSection
  PROVE  WalkInv'
<1>1. /\ walk = "sections" /\ at < Len(bytes) /\ walk' = walk
      /\ sectionType # SecCustom
      /\ codeSectionOffset' =
           IF sectionType = SecCode THEN start ELSE codeSectionOffset
      /\ at' = start + Decoded(sizeAt)
      /\ module' = module /\ bytes' = bytes /\ spare' = spare
      /\ customSections' = customSections
  BY DEF SkipSection, AtSection
<1>2. PICK k : Walked(k)
  BY <1>1 DEF WalkInv
<1>3. PICK l, s : AtNth(l, s) /\ l = k + 1 /\ s = module[l] /\ k \in Nat
  BY <1>1, <1>2, NextSection DEF WalkInv
<1>4. /\ sectionType = s.type
      /\ at' = Len(UpTo(module)[l]) /\ at' <= Len(bytes)
      /\ start \in Nat /\ start + Len(Contents(s)) = at'
      /\ bytes \in Seq(Nat)
  BY <1>1, <1>3, SectionRead
<1>5. Len(Contents(s)) \in Nat /\ module \in Modules /\ l \in 1..Len(module) /\ ValidSection(s)
  <2>1. module \in Modules /\ l \in 1..Len(module)
    BY <1>3 DEF AtNth
  <2>2. ValidSection(s)
    BY <1>3, <2>1, ModulesAssumption
  <2>3. Contents(s) \in Seq(Nat)
    BY <2>2, SectionParts
  <2> QED BY <2>1, <2>2, <2>3
<1>6. at' \in 0..Len(bytes) /\ start \in 0..Len(bytes)
  <2>1. PICK c \in Nat, e \in Nat : c = Len(Contents(s)) /\ e = Len(bytes)
    BY <1>4, <1>5
  <2> QED BY <1>4, <2>1
<1>7. OffsetOf(l) = start
  <2>1. OffsetOf(l) = Len(UpTo(module)[l]) - Len(Contents(module[l]))
    BY DEF OffsetOf
  <2>2. OffsetOf(l) = at' - Len(Contents(s))
    BY <1>3, <1>4, <2>1
  <2>3. \A x, y, z \in Nat : x + y = z => z - y = x
    OBVIOUS
  <2>4. at' \in Nat
    BY <1>6
  <2> QED BY <1>4, <1>5, <2>2, <2>3, <2>4
<1>8. CustomsUpTo(l) = CustomsUpTo(k)
  <2>1. module[k + 1].type # SecCustom
    BY <1>1, <1>3, <1>4
  <2> QED BY <1>3, <2>1, OneMore DEF CustomsUpTo
<1>9. ASSUME NEW j \in 1..l, module[j].type = SecCode
      PROVE  codeSectionOffset' = OffsetOf(j)
  <2>1. CASE j = l
    BY <1>1, <1>3, <1>4, <1>7, <1>9, <2>1
  <2>2. CASE j # l
    <3>1. j \in 1..k
      BY <1>3, <2>2
    <3>2. codeSectionOffset = OffsetOf(j)
      BY <1>2, <1>9, <3>1 DEF Walked, Found
    <3>3. s.type # SecCode
      <4>1. DOMAIN module = 1..Len(module) /\ Len(module) \in Nat
        BY <1>5, ModulesAssumption
      <4>2. j \in DOMAIN module /\ l \in DOMAIN module
        BY <1>5, <4>1
      <4> QED BY <1>3, <1>5, <1>9, <2>2, <4>2, ModulesAssumption
    <3> QED BY <1>1, <1>4, <3>2, <3>3
  <2> QED BY <2>1, <2>2
<1>10. Walked(l)'
  <2>1. Found(k)
    BY <1>2 DEF Walked
  <2>2. \A j : OffsetOf(j)' = OffsetOf(j)
    BY <1>1 DEF OffsetOf
  <2>3. CustomsUpTo(l)' = CustomsUpTo(k)
    BY <1>1, <1>8 DEF CustomsUpTo
  <2>4. Found(l)'
    BY <1>1, <1>9, <2>1, <2>2, <2>3 DEF Found
  <2>5. l \in 0..Len(module)
    BY <1>5
  <2> QED BY <1>1, <1>2, <1>4, <1>5, <2>4, <2>5 DEF Walked
<1>11. WSTypeOK'
  <2>1. codeSectionOffset' \in 0..Len(bytes)
    BY <1>1, <1>6 DEF WalkInv, WSTypeOK
  <2> QED BY <1>1, <1>6, <2>1 DEF WalkInv, WSTypeOK
<1> QED BY <1>1, <1>10, <1>11 DEF WalkInv

\* A custom section takes its place, and that of an earlier one of its name.
LEMMA CustomKeeps ==
  ASSUME WalkInv, CustomSection
  PROVE  WalkInv'
<1> DEFINE end == start + Decoded(sizeAt)
           section == NewCustomSection(end)
<1>1. /\ walk = "sections" /\ at < Len(bytes) /\ walk' = walk
      /\ sectionType = SecCustom
      /\ customSections' =
           [name \in DOMAIN customSections \cup {section.name} |->
              IF name = section.name THEN section.data ELSE customSections[name]]
      /\ at' = end
      /\ module' = module /\ bytes' = bytes /\ spare' = spare
      /\ codeSectionOffset' = codeSectionOffset
  BY DEF CustomSection, AtSection
<1>2. PICK k : Walked(k)
  BY <1>1 DEF WalkInv
<1>3. PICK l, s : AtNth(l, s) /\ l = k + 1 /\ s = module[l] /\ k \in Nat
  BY <1>1, <1>2, NextSection DEF WalkInv
<1>4. /\ s.type = SecCustom /\ end = Len(UpTo(module)[l]) /\ end <= Len(bytes)
      /\ bytes \in Seq(Nat) /\ start \in Nat /\ Decoded(sizeAt) \in Nat
  <2>1. ValidSection(s)
    BY <1>3, ModulesAssumption DEF AtNth
  <2>2. Len(Contents(s)) \in Nat
    BY <2>1, SectionParts
  <2> QED BY <1>1, <1>3, <2>2, SectionRead
<1>5. section = [name |-> s.name, data |-> s.body] /\ Len(s.name) + Len(s.body) < Len(bytes)
  BY <1>3, <1>4, CustomRead
<1>6. at' \in 0..Len(bytes) /\ at' = Len(UpTo(module)[l])
  <2>1. end \in Nat
    BY <1>4
  <2> HIDE DEF end
  <2> QED BY <1>1, <1>4, <2>1
<1> HIDE DEF end, section
<1>7. customSections' =
        [name \in DOMAIN customSections \cup {s.name} |->
           IF name = s.name THEN s.body ELSE customSections[name]]
  BY <1>1, <1>5
<1>8. CustomsUpTo(l) = CustomsUpTo(k) \cup {l} /\ l \notin CustomsUpTo(k)
  BY <1>3, <1>4, OneMore DEF CustomsUpTo
<1>9. Found(k)
  BY <1>2 DEF Walked
<1>10. DOMAIN customSections' = {module[j].name : j \in CustomsUpTo(l)}
  BY <1>3, <1>7, <1>8, <1>9 DEF Found
<1>11. ASSUME NEW j \in CustomsUpTo(l)
       PROVE  \/ customSections'[module[j].name] = module[j].body
              \/ \E n \in CustomsUpTo(l) : n > j /\ module[n].name = module[j].name
  <2>1. CASE j = l
    BY <1>3, <1>7, <2>1
  <2>2. CASE j # l
    <3>1. j \in CustomsUpTo(k) /\ l > j
      BY <1>3, <1>8, <2>2 DEF CustomsUpTo
    <3>2. CASE module[j].name = s.name
      BY <1>3, <1>8, <3>1, <3>2
    <3>3. CASE module[j].name # s.name
      <4>1. module[j].name \in DOMAIN customSections
        BY <1>9, <3>1 DEF Found
      <4>2. customSections'[module[j].name] = customSections[module[j].name]
        BY <1>7, <3>3, <4>1
      <4> QED BY <1>8, <1>9, <3>1, <4>2 DEF Found
    <3> QED BY <3>2, <3>3
  <2> QED BY <2>1, <2>2
<1>12. ASSUME NEW j \in 1..l, module[j].type = SecCode
       PROVE  codeSectionOffset = OffsetOf(j)
  <2>1. j # l
    BY <1>3, <1>4, <1>12 DEF SecCode, SecCustom
  <2>2. j \in 1..k
    BY <1>3, <2>1
  <2> QED BY <1>9, <1>12, <2>2 DEF Found
<1>13. Walked(l)'
  <2>1. \A j : OffsetOf(j)' = OffsetOf(j)
    BY <1>1 DEF OffsetOf
  <2>2. CustomsUpTo(l)' = CustomsUpTo(l)
    BY <1>1 DEF CustomsUpTo
  <2>3. Found(l)'
    BY ZenonT(40), <1>1, <1>10, <1>11, <1>12, <2>1, <2>2 DEF Found
  <2>4. l \in 0..Len(module)
    BY <1>3 DEF AtNth
  <2> QED BY <1>1, <1>2, <1>6, <2>3, <2>4 DEF Walked
<1>14. WSTypeOK'
  <2>1. ASSUME NEW name \in DOMAIN customSections'
        PROVE  Len(name) + Len(customSections'[name]) < Len(bytes)
    <3>1. CASE name = s.name
      BY <1>5, <1>7, <3>1
    <3>2. CASE name # s.name
      <4>1. name \in DOMAIN customSections /\ customSections'[name] = customSections[name]
        BY <1>7, <3>2
      <4> QED BY <4>1 DEF WalkInv, WSTypeOK
    <3> QED BY <3>1, <3>2
  <2> QED BY <1>1, <1>6, <2>1 DEF WalkInv, WSTypeOK
<1> QED BY <1>1, <1>13, <1>14 DEF WalkInv

\* Every step of the walk.
LEMMA WalkStep ==
  ASSUME WalkInv, [WSNext]_(wsVars)
  PROVE  WalkInv'
<1>1. CASE ReadPreamble
  BY <1>1, PreambleKeeps
<1>2. CASE InvalidPreamble
  BY <1>2, InvalidKeeps
<1>3. CASE UnsupportedSection
  BY <1>3, UnsupportedKeeps
<1>4. CASE SkipSection
  BY <1>4, SkipKeeps
<1>5. CASE CustomSection
  BY <1>5, CustomKeeps
<1>6. CASE ReadPanics
  BY <1>6, PanicsKeeps
<1>7. CASE WSReturn
  BY <1>7, WalkReturns
<1>8. CASE PreamblePanics
  BY <1>8, PreamblePanicKeeps
<1>9. CASE UNCHANGED wsVars
  <2>1. /\ module' = module /\ bytes' = bytes /\ spare' = spare /\ walk' = walk /\ at' = at
        /\ customSections' = customSections /\ codeSectionOffset' = codeSectionOffset
    BY <1>9 DEF wsVars
  <2>2. WSTypeOK' = WSTypeOK /\ WalkedToTheEnd' = WalkedToTheEnd
    BY <2>1 DEF WSTypeOK, WalkedToTheEnd
  <2>3. \A k : Found(k)' = Found(k)
    BY <2>1 DEF Found, CustomsUpTo, OffsetOf
  <2>4. \A k : Walked(k)' = Walked(k)
    BY <2>1, <2>3 DEF Walked
  <2>5. Given' = Given
    BY <2>1 DEF Given
  <2> QED BY <2>1, <2>2, <2>4, <2>5 DEF WalkInv
<1> QED BY <1>1, <1>2, <1>3, <1>4, <1>5, <1>6, <1>7, <1>8, <1>9 DEF WSNext

LEMMA WalkInductive == WSSpec => []WalkInv
  BY WalkInit, WalkStep, PTL DEF WSSpec

\* The walk over the sections of a module never leaves its bytes, nor does what it finds.
THEOREM WalkTypeCorrect == WSSpec => []WSTypeOK
<1>1. WalkInv => WSTypeOK
  BY DEF WalkInv
<1> QED BY <1>1, WalkInductive, PTL

\* Whatever sections a module has, and however long their sizes are written, the walk that
\* has reached the end has found every custom section under its name with its data, the
\* last one of a name standing for all, and the offset of the contents of the code.
THEOREM AllFoundAsWritten == WSSpec => []FoundAsWritten
<1>1. ASSUME WalkInv, walk = "done"
      PROVE  FoundAsWritten
  <2>1. Walked(Len(module))
    BY <1>1 DEF WalkInv
  <2>2. DOMAIN module = 1..Len(module)
    BY <2>1, ModulesAssumption DEF Walked
  <2>3. Customs = CustomsUpTo(Len(module))
    BY <2>2 DEF Customs, CustomsUpTo
  <2> QED BY <2>1, <2>2, <2>3 DEF FoundAsWritten, Walked, Found
<1>2. WalkInv => FoundAsWritten
  BY <1>1 DEF FoundAsWritten
<1> QED BY <1>2, WalkInductive, PTL

\* The walk ends before the end of a module only at a type that the table lacks, or at the
\* length of an empty name with nothing behind it, in memory or in the file. A text is
\* refused, but one that is shorter than the preamble, with nothing behind it, panics.
THEOREM AllWalkedToTheEnd == WSSpec => []WalkedToTheEnd
<1>1. WalkInv => WalkedToTheEnd
  BY DEF WalkInv, WalkedToTheEnd
<1> QED BY <1>1, WalkInductive, PTL
===============================================================================
