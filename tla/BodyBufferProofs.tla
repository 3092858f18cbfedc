--------------------------- MODULE BodyBufferProofs ---------------------------
(* Theorems about BodyBuffer, for memories and bodies of any size.               *)
EXTENDS BodyBuffer, SequenceTheorems, TLAPS

-------------------------------------------------------------------------------
(* The inductive invariant                                                       *)

HostSlice == buf.of = "host" /\ buf.bytes \in Seq(Bytes) /\ buf = InHost(buf.bytes)

GuestSlice ==
  /\ buf.of = "guest" /\ buf = InGuest(buf.off, buf.len, buf.cap)
  /\ buf.off \in 0..MemSize /\ buf.len \in 0..buf.cap /\ buf.cap \in 0..(MemSize - buf.off)

\* The buffer is a slice of one kind or the other; one over guest memory has no room
\* behind it on wazero.
BufferTypes ==
  /\ engine \in {"wasmer", "wazero"}
  /\ mem \in [Addr -> Bytes] /\ stored \in [Addr -> Bytes]
  /\ touched \in BOOLEAN /\ meant \in Seq(Bytes)
  /\ HostSlice \/ GuestSlice
  /\ engine = "wazero" /\ buf.of = "guest" => buf.cap = buf.len

BufferInv == BufferTypes /\ KeepsWhatIsMeant /\ GuestMemoryIsGuests

-------------------------------------------------------------------------------
(* Guest memory and slices of it                                                 *)

\* What is read of guest memory is a sequence of bytes.
LEMMA MemoryAtType ==
  ASSUME mem \in [Addr -> Bytes], NEW addr \in Nat, NEW size \in Nat, addr + size <= MemSize
  PROVE  /\ MemoryAt(addr, size) \in Seq(Bytes)
         /\ Len(MemoryAt(addr, size)) = size
         /\ \A k \in 1..size : MemoryAt(addr, size)[k] = mem[addr + k - 1]
<1>1. \A k \in 1..size : addr + k - 1 \in Addr
  BY BodyAssumption DEF BodyAssumption, Addr
<1>2. MemoryAt(addr, size) \in [1..size -> Bytes]
  BY <1>1 DEF MemoryAt
<1> QED BY <1>2 DEF MemoryAt

\* The bytes of the buffer are as many as it says.
LEMMA BufBytesType ==
  ASSUME BufferTypes
  PROVE  BufBytes \in Seq(Bytes) /\ BufLen \in Nat /\ Len(BufBytes) = BufLen
<1>1. CASE HostSlice
  BY <1>1 DEF HostSlice, BufBytes, BufLen
<1>2. CASE GuestSlice
  BY <1>2, MemoryAtType, BodyAssumption
  DEF GuestSlice, BufBytes, BufLen, BodyAssumption, BufferTypes
<1> QED BY <1>1, <1>2 DEF BufferTypes

\* Overwriting writes p at addr and nothing else.
LEMMA OverwriteAt ==
  ASSUME NEW addr \in Int, NEW p, Len(p) \in Nat, NEW a \in Addr, a \in Int
  PROVE  Overwrite(addr, p)[a] =
           IF addr <= a /\ a < addr + Len(p) THEN p[a - addr + 1] ELSE mem[a]
<1>1. a \in addr..(addr + Len(p) - 1) <=> addr <= a /\ a < addr + Len(p)
  OBVIOUS
<1> QED BY <1>1 DEF Overwrite

\* append keeps what is in the buffer and puts p behind it, in whichever array; on
\* wazero it leaves guest memory alone.
LEMMA WriteAppends ==
  ASSUME BufferTypes, NEW s, NEW old \in Seq(Bytes), NEW p \in Seq(Bytes),
         \/ s.of = "host" /\ s = InHost(old)
         \/ /\ s.of = "guest" /\ s = InGuest(s.off, s.len, s.cap)
            /\ s.off \in 0..MemSize /\ s.len \in 0..s.cap
            /\ s.cap \in 0..(MemSize - s.off)
            /\ old = MemoryAt(s.off, s.len)
            /\ engine = "wazero" => s.cap = s.len,
         Write(s, old, p), engine' = engine
  PROVE  /\ mem' \in [Addr -> Bytes]
         /\ (HostSlice \/ GuestSlice)'
         /\ BufBytes' = old \o p
         /\ engine = "wazero" => mem' = mem /\ (buf'.of = "guest" => buf'.cap = buf'.len)
<1>1. CASE ~Fits(s, p)
  <2>1. buf' = InHost(old \o p) /\ mem' = mem
    BY <1>1 DEF Write
  <2> QED BY <2>1 DEF HostSlice, InHost, BufBytes, BufferTypes
<1>2. CASE Fits(s, p)
  <2>1. /\ mem' = Overwrite(s.off + s.len, p)
        /\ buf' = InGuest(s.off, s.len + Len(p), s.cap)
        /\ s.of = "guest" /\ s.len + Len(p) <= s.cap
    BY <1>2 DEF Write, Fits
  <2>2. /\ s.off \in 0..MemSize /\ s.len \in 0..s.cap /\ s.cap \in 0..(MemSize - s.off)
        /\ old = MemoryAt(s.off, s.len)
        /\ engine = "wazero" => s.cap = s.len
    BY <2>1 DEF InHost
  <2>3. mem' \in [Addr -> Bytes]
    BY <2>1, <2>2, BodyAssumption DEF Overwrite, BufferTypes, BodyAssumption, Addr
  <2>4. GuestSlice'
    BY <2>1, <2>2, BodyAssumption DEF GuestSlice, InGuest, BodyAssumption
  <2>5. BufBytes' = [k \in 1..(s.len + Len(p)) |-> mem'[s.off + k - 1]]
    BY <2>1 DEF BufBytes, InGuest, MemoryAt
  <2>6. /\ old \o p \in [1..(s.len + Len(p)) -> Bytes]
        /\ \A k \in 1..(s.len + Len(p)) :
             (old \o p)[k] = IF k <= s.len THEN mem[s.off + k - 1] ELSE p[k - s.len]
    <3>1. s.off \in Nat /\ s.len \in Nat /\ s.off + s.len <= MemSize
      BY <2>2, BodyAssumption DEF BodyAssumption
    <3>2. Len(MemoryAt(s.off, s.len)) = s.len
          /\ \A k \in 1..s.len : MemoryAt(s.off, s.len)[k] = mem[s.off + k - 1]
      BY <3>1, MemoryAtType DEF BufferTypes
    <3>3. Len(old) = s.len /\ \A k \in 1..s.len : old[k] = mem[s.off + k - 1]
      BY <2>2, <3>2
    <3>4. old \o p \in Seq(Bytes) /\ Len(old \o p) = s.len + Len(p)
      BY <3>3, ConcatProperties
    <3>5. ASSUME NEW k \in 1..(s.len + Len(p))
          PROVE  (old \o p)[k] = IF k <= s.len THEN mem[s.off + k - 1] ELSE p[k - s.len]
      BY <3>1, <3>3, ConcatProperties
    <3>6. old \o p \in [1..Len(old \o p) -> Bytes]
      BY <3>4, LenProperties
    <3> QED BY <3>4, <3>5, <3>6
  <2>7. ASSUME NEW k \in 1..(s.len + Len(p)) PROVE mem'[s.off + k - 1] = (old \o p)[k]
    <3>1. s.off + k - 1 \in Addr
      BY <2>1, <2>2, BodyAssumption DEF Addr, BodyAssumption
    <3>2. mem'[s.off + k - 1] =
            IF k <= s.len THEN mem[s.off + k - 1] ELSE p[k - s.len]
      <4>1. /\ Len(p) \in Nat /\ k \in Int /\ s.off \in Int /\ s.len \in Int
            /\ 1 <= k /\ k <= s.len + Len(p)
        BY <2>2, LenProperties, BodyAssumption DEF BodyAssumption
      <4> DEFINE addr == s.off + s.len
                 a == s.off + k - 1
      <4>2. /\ addr \in Int /\ a \in Int /\ a < addr + Len(p)
            /\ addr <= a <=> ~(k <= s.len)
            /\ a - addr + 1 = k - s.len
        BY <4>1
      <4>3. mem'[a] = IF addr <= a /\ a < addr + Len(p) THEN p[a - addr + 1] ELSE mem[a]
        <5> HIDE DEF addr, a
        <5>1. a \in Addr
          BY <3>1 DEF a
        <5>2. mem' = Overwrite(addr, p)
          BY <2>1 DEF addr
        <5> QED BY <4>1, <4>2, <5>1, <5>2, OverwriteAt
      <4>4. CASE k <= s.len
        BY <4>2, <4>3, <4>4
      <4>5. CASE ~(k <= s.len)
        BY <4>2, <4>3, <4>5
      <4> QED BY <4>4, <4>5
    <3> QED BY <2>6, <3>2
  <2>8. BufBytes' = old \o p
    BY <2>5, <2>6, <2>7
  <2>9. ASSUME engine = "wazero"
        PROVE  mem' = mem /\ (buf'.of = "guest" => buf'.cap = buf'.len)
    <3>0. s.cap = s.len
      BY <2>2, <2>9
    <3>1. Len(p) = 0 /\ s.off + s.len \in Int
      <4>1. Len(p) \in Nat
        OBVIOUS
      <4>2. s.len \in Int /\ s.cap \in Int /\ s.off \in Int /\ s.len + Len(p) <= s.cap
        BY <2>1, <2>2, BodyAssumption DEF BodyAssumption
      <4> QED BY <3>0, <4>1, <4>2
    <3>2. \A a \in Addr : Overwrite(s.off + s.len, p)[a] = mem[a]
      <4> TAKE a \in Addr
      <4>1. a \in Int /\ a \notin (s.off + s.len)..(s.off + s.len + Len(p) - 1)
        BY <3>1, BodyAssumption DEF Addr, BodyAssumption
      <4> QED BY <4>1 DEF Overwrite
    <3>3. Overwrite(s.off + s.len, p) = mem
      BY <3>2 DEF Overwrite, BufferTypes
    <3> QED BY <3>1, <3>3, <2>1, <2>2, <2>9 DEF InGuest
  <2> QED BY <2>3, <2>4, <2>8, <2>9
<1> QED BY <1>1, <1>2

\* Draining leaves a slice of the same kind with the bytes that are left.
LEMMA DrainedRest ==
  ASSUME BufferTypes, NEW n \in 0..BufLen, NEW s, s = Drained(n)
  PROVE  LET rest == SubSeq(BufBytes, n + 1, Len(BufBytes))
         IN  \/ s.of = "host" /\ s = InHost(rest) /\ rest \in Seq(Bytes)
             \/ /\ s.of = "guest" /\ s = InGuest(s.off, s.len, s.cap)
                /\ s.off \in 0..MemSize /\ s.len \in 0..s.cap
                /\ s.cap \in 0..(MemSize - s.off)
                /\ rest = MemoryAt(s.off, s.len)
                /\ engine = "wazero" => s.cap = s.len
<1>1. CASE HostSlice
  <2>1. s = InHost(SubSeq(buf.bytes, n + 1, Len(buf.bytes))) /\ BufBytes = buf.bytes
    BY <1>1 DEF HostSlice, Drained, BufBytes
  <2>2. SubSeq(buf.bytes, n + 1, Len(buf.bytes)) \in Seq(Bytes)
    BY <1>1, BufBytesType, SubSeqProperties DEF HostSlice, BufLen
  <2> QED BY <2>1, <2>2 DEF InHost
<1>2. CASE GuestSlice
  <2>1. /\ buf.off \in Nat /\ buf.len \in Nat /\ buf.cap \in Nat /\ n \in Nat
        /\ n <= buf.len /\ buf.len <= buf.cap /\ buf.off + buf.cap <= MemSize
        /\ MemSize \in Nat
    BY <1>2, BodyAssumption DEF GuestSlice, BufLen, BodyAssumption
  <2>2. s = InGuest(buf.off + n, buf.len - n, buf.cap - n)
    BY <1>2 DEF GuestSlice, Drained
  <2>3. /\ s.of = "guest" /\ s.off = buf.off + n
        /\ s.len = buf.len - n /\ s.cap = buf.cap - n
    BY <2>2 DEF InGuest
  <2>4. engine = "wazero" => buf.cap = buf.len
    BY <1>2 DEF BufferTypes, GuestSlice
  <2>5. /\ BufBytes \in Seq(Bytes) /\ Len(BufBytes) = buf.len
        /\ \A k \in 1..buf.len : BufBytes[k] = mem[buf.off + k - 1]
    <3>1. BufBytes = MemoryAt(buf.off, buf.len)
      BY <1>2 DEF GuestSlice, BufBytes
    <3>2. mem \in [Addr -> Bytes] /\ buf.off + buf.len <= MemSize
      BY <2>1 DEF BufferTypes
    <3> QED BY <2>1, <3>1, <3>2, MemoryAtType
  <2>6. SubSeq(BufBytes, n + 1, Len(BufBytes)) = MemoryAt(s.off, s.len)
    <3> DEFINE rest == SubSeq(BufBytes, n + 1, buf.len)
    <3>1. ASSUME NEW k \in (n + 1)..buf.len PROVE BufBytes[k] \in Bytes
      BY <2>1, <2>5
    <3>2. /\ rest \in Seq(Bytes) /\ Len(rest) = buf.len - n
          /\ \A k \in 1..(buf.len - n) : rest[k] = BufBytes[n + k]
      BY <2>1, <3>1, SubSeqProperties
    <3>3. ASSUME NEW k \in 1..(buf.len - n)
          PROVE  rest[k] = mem[buf.off + n + k - 1]
      <4>1. n + k \in 1..buf.len /\ buf.off + (n + k) - 1 = buf.off + n + k - 1
        BY <2>1
      <4> QED BY <2>5, <3>2, <4>1
    <3>4. MemoryAt(s.off, s.len) = [k \in 1..(buf.len - n) |-> mem[buf.off + n + k - 1]]
      BY <2>3 DEF MemoryAt
    <3>5. rest = [k \in 1..(buf.len - n) |-> rest[k]]
      BY <3>2, LenProperties
    <3> QED BY <2>5, <3>3, <3>4, <3>5
  <2>7. s.off \in 0..MemSize /\ s.len \in 0..s.cap /\ s.cap \in 0..(MemSize - s.off)
    BY <2>1, <2>3
  <2>8. engine = "wazero" => s.cap = s.len
    BY <2>3, <2>4
  <2>9. s = InGuest(s.off, s.len, s.cap)
    BY <2>2, <2>3
  <2> QED BY <2>3, <2>6, <2>7, <2>8, <2>9
<1> QED BY <1>1, <1>2 DEF BufferTypes

\* Writing to the buffer as it is.
LEMMA WrittenBuffer ==
  ASSUME BufferTypes, NEW p \in Seq(Bytes), Write(buf, BufBytes, p), engine' = engine
  PROVE  /\ mem' \in [Addr -> Bytes]
         /\ (HostSlice \/ GuestSlice)'
         /\ BufBytes' = BufBytes \o p
         /\ engine = "wazero" => mem' = mem /\ (buf'.of = "guest" => buf'.cap = buf'.len)
<1>1. BufBytes \in Seq(Bytes)
  BY BufBytesType
<1>2. CASE HostSlice
  <2>1. buf.of = "host" /\ buf = InHost(BufBytes)
    BY <1>2 DEF HostSlice, BufBytes
  <2> QED BY <1>1, <2>1, WriteAppends
<1>3. CASE GuestSlice
  <2>1. /\ buf.of = "guest" /\ buf = InGuest(buf.off, buf.len, buf.cap)
        /\ buf.off \in 0..MemSize /\ buf.len \in 0..buf.cap
        /\ buf.cap \in 0..(MemSize - buf.off)
        /\ BufBytes = MemoryAt(buf.off, buf.len)
        /\ engine = "wazero" => buf.cap = buf.len
    BY <1>3 DEF GuestSlice, BufBytes, BufferTypes
  <2> QED BY <1>1, <2>1, WriteAppends
<1> QED BY <1>2, <1>3 DEF BufferTypes

-------------------------------------------------------------------------------
\* Each call keeps the invariant.
LEMMA BufferStep ==
  ASSUME BufferInv, [Next]_vars
  PROVE  BufferInv'
<1> USE DEF BufferInv
<1>1. ASSUME NEW addr \in 0..MemSize, NEW size \in 0..MaxLen, SendBody(addr, size)
      PROVE  BufferInv'
  <2>1. /\ addr + size <= MemSize /\ addr \in Nat /\ size \in Nat
        /\ buf' = InGuest(addr, size, Capacity(addr, size))
        /\ meant' = MemoryAt(addr, size) /\ touched' = FALSE
        /\ UNCHANGED <<engine, mem, stored>>
    BY <1>1, BodyAssumption DEF SendBody, BodyAssumption
  <2>2. MemoryAt(addr, size) \in Seq(Bytes)
    BY <2>1, MemoryAtType DEF BufferTypes
  <2>3. GuestSlice' /\ (engine' = "wazero" => buf'.cap = buf'.len)
    BY <2>1, BodyAssumption DEF GuestSlice, InGuest, Capacity, BodyAssumption
  <2>4. BufBytes' = MemoryAt(addr, size)
    BY <2>1 DEF BufBytes, InGuest, MemoryAt
  <2> QED BY <2>1, <2>2, <2>3, <2>4
          DEF BufferTypes, KeepsWhatIsMeant, GuestMemoryIsGuests
<1>2. ASSUME NEW addr \in 0..MemSize, NEW size \in 0..MaxLen, Replace(addr, size)
      PROVE  BufferInv'
  <2>1. /\ addr + size <= MemSize /\ addr \in Nat /\ size \in Nat
        /\ meant' = MemoryAt(addr, size) /\ touched' = FALSE
        /\ UNCHANGED <<engine, stored>>
    BY <1>2, BodyAssumption DEF Replace, BodyAssumption
  <2>2. MemoryAt(addr, size) \in Seq(Bytes)
    BY <2>1, MemoryAtType DEF BufferTypes
  <2>3. /\ BufLen \in 0..BufLen
        /\ SubSeq(BufBytes, BufLen + 1, Len(BufBytes)) = <<>>
    BY BufBytesType, SubSeqEmpty
  <2>4. PICK s : s = Drained(BufLen) /\ Write(s, <<>>, MemoryAt(addr, size))
    BY <1>2 DEF Replace
  <2>5. /\ mem' \in [Addr -> Bytes] /\ (HostSlice \/ GuestSlice)'
        /\ BufBytes' = <<>> \o MemoryAt(addr, size)
        /\ engine = "wazero" => mem' = mem /\ (buf'.of = "guest" => buf'.cap = buf'.len)
    <3>1. \/ s.of = "host" /\ s = InHost(<<>>)
          \/ /\ s.of = "guest" /\ s = InGuest(s.off, s.len, s.cap)
             /\ s.off \in 0..MemSize /\ s.len \in 0..s.cap
             /\ s.cap \in 0..(MemSize - s.off)
             /\ <<>> = MemoryAt(s.off, s.len)
             /\ engine = "wazero" => s.cap = s.len
      BY <2>3, <2>4, DrainedRest
    <3>2. <<>> \in Seq(Bytes) /\ engine' = engine
      BY <2>1
    <3>3. BufferTypes
      OBVIOUS
    <3> HIDE DEF BufferInv
    <3> QED BY <3>3, <2>2, <2>4, <3>1, <3>2, WriteAppends
  <2>6. BufBytes' = MemoryAt(addr, size)
    BY <2>2, <2>5
  <2> QED BY <2>1, <2>2, <2>5, <2>6
          DEF BufferTypes, KeepsWhatIsMeant, GuestMemoryIsGuests
<1>3. ASSUME NEW addr \in 0..MemSize, NEW size \in 0..MaxLen, Extend(addr, size)
      PROVE  BufferInv'
  <2>1. addr + size <= MemSize /\ addr \in Nat /\ size \in Nat
    BY <1>3, BodyAssumption DEF Extend, BodyAssumption
  <2>2. MemoryAt(addr, size) \in Seq(Bytes)
    BY <2>1, MemoryAtType DEF BufferTypes
  <2>3. /\ Write(buf, BufBytes, MemoryAt(addr, size)) /\ meant' = meant \o MemoryAt(addr, size)
        /\ UNCHANGED <<engine, stored, touched>>
    BY <1>3 DEF Extend
  <2>4. /\ mem' \in [Addr -> Bytes] /\ (HostSlice \/ GuestSlice)'
        /\ BufBytes' = BufBytes \o MemoryAt(addr, size)
        /\ engine = "wazero" => mem' = mem /\ (buf'.of = "guest" => buf'.cap = buf'.len)
    BY <2>2, <2>3, WrittenBuffer
  <2>5. meant' \in Seq(Bytes)
    BY <2>2, <2>3 DEF BufferTypes
  <2> QED BY <2>3, <2>4, <2>5 DEF BufferTypes, KeepsWhatIsMeant, GuestMemoryIsGuests
<1>4. ASSUME NEW p \in Contents, HandlerWrite(p)
      PROVE  BufferInv'
  <2>2. p \in Seq(Bytes)
    BY <1>4 DEF Contents
  <2>3. /\ Write(buf, BufBytes, p) /\ meant' = meant \o p
        /\ UNCHANGED <<engine, stored, touched>>
    BY <1>4 DEF HandlerWrite
  <2>4. /\ mem' \in [Addr -> Bytes] /\ (HostSlice \/ GuestSlice)'
        /\ BufBytes' = BufBytes \o p
        /\ engine = "wazero" => mem' = mem /\ (buf'.of = "guest" => buf'.cap = buf'.len)
    BY <2>2, <2>3, WrittenBuffer
  <2>5. meant' \in Seq(Bytes)
    BY <2>2, <2>3 DEF BufferTypes
  <2> QED BY <2>3, <2>4, <2>5 DEF BufferTypes, KeepsWhatIsMeant, GuestMemoryIsGuests
<1>5. ASSUME NEW addr \in Addr, NEW b \in Bytes, Store(addr, b)
      PROVE  BufferInv'
  <2>1. /\ mem' = [mem EXCEPT ![addr] = b] /\ stored' = [stored EXCEPT ![addr] = b]
        /\ UNCHANGED <<engine, buf, meant>>
    BY <1>5 DEF Store
  <2>2. mem' \in [Addr -> Bytes] /\ stored' \in [Addr -> Bytes]
    BY <2>1 DEF BufferTypes
  <2>3. touched' \in BOOLEAN
    BY <1>5 DEF Store
  <2>4. BufferTypes'
    BY <2>1, <2>2, <2>3 DEF BufferTypes, HostSlice, GuestSlice
  <2>5. ASSUME ~touched' PROVE BufBytes' = meant'
    <3>1. ~touched /\ ~(buf.of = "guest" /\ addr \in buf.off..(buf.off + buf.len - 1))
      BY <1>5, <2>5 DEF Store
    <3>2. BufBytes = meant
      BY <3>1 DEF KeepsWhatIsMeant
    <3>3. CASE buf.of = "guest"
      <4>1. GuestSlice
        BY <3>3 DEF BufferTypes, HostSlice
      <4>2. ASSUME NEW k \in 1..buf.len PROVE mem'[buf.off + k - 1] = mem[buf.off + k - 1]
        <5>1. buf.off + k - 1 \in Addr /\ buf.off + k - 1 # addr
          BY <3>1, <3>3, <4>1, BodyAssumption DEF GuestSlice, Addr, BodyAssumption
        <5> QED BY <2>1, <5>1 DEF BufferTypes
      <4> QED BY <2>1, <3>2, <3>3, <4>2 DEF BufBytes, MemoryAt
    <3>4. CASE buf.of # "guest"
      BY <2>1, <3>2, <3>4 DEF BufBytes
    <3> QED BY <3>3, <3>4
  <2> QED BY <2>1, <2>4, <2>5 DEF KeepsWhatIsMeant, GuestMemoryIsGuests
<1>6. ASSUME NEW n \in 1..MaxLen, Drain(n)
      PROVE  BufferInv'
  <2> DEFINE rest == SubSeq(BufBytes, n + 1, Len(BufBytes))
  <2>1. /\ n \in 1..BufLen /\ n \in 0..BufLen /\ buf' = Drained(n)
        /\ meant' = SubSeq(meant, n + 1, Len(meant))
        /\ UNCHANGED <<engine, mem, stored, touched>>
    BY <1>6, BufBytesType DEF Drain
  <2>2. PICK s : s = Drained(n)
    OBVIOUS
  <2>3. \/ s.of = "host" /\ s = InHost(rest) /\ rest \in Seq(Bytes)
        \/ /\ s.of = "guest" /\ s = InGuest(s.off, s.len, s.cap)
           /\ s.off \in 0..MemSize /\ s.len \in 0..s.cap
           /\ s.cap \in 0..(MemSize - s.off)
           /\ rest = MemoryAt(s.off, s.len)
           /\ engine = "wazero" => s.cap = s.len
    BY <2>1, <2>2, DrainedRest
  <2>4. buf' = s
    BY <2>1, <2>2
  <2>5. /\ (HostSlice \/ GuestSlice)' /\ BufBytes' = rest
        /\ engine = "wazero" => (buf'.of = "guest" => buf'.cap = buf'.len)
    <3>1. CASE s.of = "host" /\ s = InHost(rest) /\ rest \in Seq(Bytes)
      BY <2>4, <3>1 DEF HostSlice, InHost, BufBytes
    <3>2. CASE /\ s.of = "guest" /\ s = InGuest(s.off, s.len, s.cap)
               /\ s.off \in 0..MemSize /\ s.len \in 0..s.cap
               /\ s.cap \in 0..(MemSize - s.off)
               /\ rest = MemoryAt(s.off, s.len)
               /\ engine = "wazero" => s.cap = s.len
      <4>1. GuestSlice' /\ buf'.of = "guest"
        BY <2>4, <3>2 DEF GuestSlice
      <4>2. BufBytes' = rest
        BY <2>1, <2>4, <3>2 DEF BufBytes, MemoryAt
      <4> QED BY <2>4, <3>2, <4>1, <4>2
    <3> QED BY <2>3, <3>1, <3>2
  <2>6. meant' \in Seq(Bytes)
    <3>1. ASSUME NEW k \in (n + 1)..Len(meant) PROVE meant[k] \in Bytes
      BY <1>6 DEF BufferTypes
    <3> QED BY <2>1, <3>1, SubSeqProperties DEF BufferTypes
  <2> QED BY <2>1, <2>5, <2>6 DEF BufferTypes, KeepsWhatIsMeant, GuestMemoryIsGuests
<1>7. CASE MemoryMoves
  <2>1. buf' = InHost(BufBytes) /\ UNCHANGED <<engine, mem, stored, meant, touched>>
    BY <1>7 DEF MemoryMoves
  <2>2. HostSlice' /\ BufBytes' = BufBytes /\ buf'.of = "host"
    BY <2>1, BufBytesType DEF HostSlice, InHost, BufBytes
  <2> QED BY <2>1, <2>2 DEF BufferTypes, KeepsWhatIsMeant, GuestMemoryIsGuests
<1>8. CASE UNCHANGED vars
  BY <1>8 DEF vars, BufferTypes, HostSlice, GuestSlice, KeepsWhatIsMeant, BufBytes,
              MemoryAt, GuestMemoryIsGuests
<1> QED BY <1>1, <1>2, <1>3, <1>4, <1>5, <1>6, <1>7, <1>8 DEF Next

\* The inductive invariant: slices of guest memory lie in it, and every call does to the
\* bytes of the buffer what it is meant to do, in whichever array they are.
THEOREM Buffer == Spec => []BufferInv
<1>1. Init => BufferInv
  <2> SUFFICES ASSUME Init PROVE BufferInv
    OBVIOUS
  <2>1. HostSlice /\ BufBytes = <<>> /\ buf.of = "host"
    BY DEF Init, HostSlice, InHost, BufBytes
  <2>2. BufferTypes
    <3>1. touched \in BOOLEAN
      BY DEF Init
    <3>2. meant \in Seq(Bytes) /\ mem \in [Addr -> Bytes] /\ stored \in [Addr -> Bytes]
      BY DEF Init
    <3>3. engine \in {"wasmer", "wazero"}
      BY DEF Init
    <3> QED BY <2>1, <3>1, <3>2, <3>3 DEF BufferTypes
  <2>3. KeepsWhatIsMeant /\ GuestMemoryIsGuests
    BY <2>1 DEF Init, KeepsWhatIsMeant, GuestMemoryIsGuests
  <2> QED BY <2>2, <2>3 DEF BufferInv
<1>2. BufferInv /\ [Next]_vars => BufferInv'
  BY BufferStep
<1> QED BY <1>1, <1>2, PTL DEF Spec

\* A buffer holds what was put into it until the guest stores in it.
THEOREM BufferKeeps == Spec => []KeepsWhatIsMeant
<1>1. BufferInv => KeepsWhatIsMeant
  BY DEF BufferInv
<1> QED BY <1>1, Buffer, PTL

\* On wazero the host never changes guest memory through a buffer.
THEOREM GuestMemoryIsSafe == Spec => []GuestMemoryIsGuests
<1>1. BufferInv => GuestMemoryIsGuests
  BY DEF BufferInv
<1> QED BY <1>1, Buffer, PTL
===============================================================================
