------------------------------ MODULE BodyBuffer ------------------------------
(* A body that the guest hands to the host (http.go, grpc.go of imports/v1): it  *)
(* is not copied, CommonBuffer (proxywasm/common/buffer.go) keeps the slice that *)
(* GetMemory returned. The handler may keep the buffer, drain it, write to it,   *)
(* and offer it to the guest, which replaces or extends it through               *)
(* proxy_set_buffer_bytes, while the guest goes on storing in its own memory.    *)
EXTENDS Integers, Sequences

CONSTANTS MemSize,  \* bytes of guest memory
          Bytes,    \* what a byte of it may be
          MaxLen    \* bound: bytes of a body, and of what is written to it at a time

ASSUME BodyAssumption == MemSize \in Nat /\ MaxLen \in Nat

Addr == 0..(MemSize - 1)
Contents == UNION {[1..n -> Bytes] : n \in 0..MaxLen}

VARIABLES
  engine,   \* "wasmer" or "wazero"
  mem,      \* guest memory
  buf,      \* CommonBuffer.buf: a slice of guest memory or of an array of the host
  stored,   \* guest memory as the guest has left it (history)
  meant,    \* the bytes that the calls have put into the buffer (history)
  touched   \* the guest has stored in the bytes of the buffer since (history)

vars == <<engine, mem, buf, stored, meant, touched>>

\* Slices. Only the capacity of one over guest memory matters: no one else has a
\* slice of an array of the host.
InGuest(off, len, cap) == [of |-> "guest", off |-> off, len |-> len, cap |-> cap]
InHost(bytes) == [of |-> "host", bytes |-> bytes]

MemoryAt(addr, size) == [k \in 1..size |-> mem[addr + k - 1]]

\* CommonBuffer.Bytes and Len.
BufBytes == IF buf.of = "guest" THEN MemoryAt(buf.off, buf.len) ELSE buf.bytes
BufLen == IF buf.of = "guest" THEN buf.len ELSE Len(buf.bytes)

Init ==
  /\ engine \in {"wasmer", "wazero"}
  /\ mem \in [Addr -> Bytes] /\ stored = mem
  /\ buf = InHost(<<>>) /\ meant = <<>>
  /\ touched = FALSE

-------------------------------------------------------------------------------
\* The capacity of what GetMemory returns: wasmer slices the memory, wazero cuts the
\* capacity off at the end of what was asked for. The mutant does not.
Capacity_Whole(addr, size) == MemSize - addr
Capacity(addr, size) == IF engine = "wasmer" THEN MemSize - addr ELSE size

\* proxy_http_call, proxy_send_http_response, proxy_grpc_call, proxy_grpc_send: the
\* body is NewIoBufferBytes of the memory of the guest.
SendBody(addr, size) ==
  /\ addr + size <= MemSize
  /\ buf' = InGuest(addr, size, Capacity(addr, size))
  /\ meant' = MemoryAt(addr, size)
  /\ touched' = FALSE
  /\ UNCHANGED <<engine, mem, stored>>

\* The guest stores a byte.
Store(addr, b) ==
  /\ mem' = [mem EXCEPT ![addr] = b]
  /\ stored' = [stored EXCEPT ![addr] = b]
  /\ touched' = \/ touched
                \/ buf.of = "guest" /\ addr \in buf.off..(buf.off + buf.len - 1)
  /\ UNCHANGED <<engine, buf, meant>>

\* wazero moves a memory that grows; a slice of it keeps the bytes that were there.
MemoryMoves ==
  /\ engine = "wazero" /\ buf.of = "guest"
  /\ buf' = InHost(BufBytes)
  /\ UNCHANGED <<engine, mem, stored, meant, touched>>

-------------------------------------------------------------------------------
\* CommonBuffer.Drain, of a slice. The mutant drains the end of the buffer.
Drained_End(n) ==
  IF buf.of = "guest" THEN InGuest(buf.off, buf.len - n, buf.cap)
                      ELSE InHost(SubSeq(buf.bytes, 1, Len(buf.bytes) - n))
Drained(n) ==
  IF buf.of = "guest" THEN InGuest(buf.off + n, buf.len - n, buf.cap - n)
                      ELSE InHost(SubSeq(buf.bytes, n + 1, Len(buf.bytes)))

Overwrite(addr, p) ==
  [a \in Addr |-> IF a \in addr..(addr + Len(p) - 1) THEN p[a - addr + 1] ELSE mem[a]]

\* CommonBuffer.Write of p to the slice s, which has the bytes old: append puts p in
\* the array when the capacity is enough, else it takes a new array of the host.
Fits(s, p) == s.of = "guest" /\ s.len + Len(p) <= s.cap

Write(s, old, p) ==
  IF Fits(s, p)
    THEN /\ mem' = Overwrite(s.off + s.len, p)
         /\ buf' = InGuest(s.off, s.len + Len(p), s.cap)
    ELSE /\ buf' = InHost(old \o p)
         /\ UNCHANGED mem

\* The handler drains what it has sent on.
Drain(n) ==
  /\ n \in 1..BufLen
  /\ buf' = Drained(n)
  /\ meant' = SubSeq(meant, n + 1, Len(meant))
  /\ UNCHANGED <<engine, mem, stored, touched>>

\* proxy_set_buffer_bytes with start 0 and length 0, or one not less than that of
\* the buffer: drains and writes.
Replace(addr, size) ==
  /\ addr + size <= MemSize
  /\ Write(Drained(BufLen), <<>>, MemoryAt(addr, size))
  /\ meant' = MemoryAt(addr, size)
  /\ touched' = FALSE
  /\ UNCHANGED <<engine, stored>>

\* proxy_set_buffer_bytes with another start, at or past the end of the buffer.
Extend(addr, size) ==
  /\ addr + size <= MemSize /\ BufLen + size <= MaxLen
  /\ Write(buf, BufBytes, MemoryAt(addr, size))
  /\ meant' = meant \o MemoryAt(addr, size)
  /\ UNCHANGED <<engine, stored, touched>>

\* The handler writes bytes of its own.
HandlerWrite(p) ==
  /\ BufLen + Len(p) <= MaxLen
  /\ Write(buf, BufBytes, p)
  /\ meant' = meant \o p
  /\ UNCHANGED <<engine, stored, touched>>

Next ==
  \/ \E addr \in 0..MemSize, size \in 0..MaxLen :
       SendBody(addr, size) \/ Replace(addr, size) \/ Extend(addr, size)
  \/ \E addr \in Addr, b \in Bytes : Store(addr, b)
  \/ \E n \in 1..MaxLen : Drain(n)
  \/ \E p \in Contents : HandlerWrite(p)
  \/ MemoryMoves

Spec == Init /\ [][Next]_vars

-------------------------------------------------------------------------------
(* Properties                                                                    *)

\* A buffer holds what was put into it by whichever calls, even if these went to guest
\* memory, unless the guest stored in the bytes that it handed over.
KeepsWhatIsMeant == ~touched => BufBytes = meant

\* On wazero nothing that the handler does with a buffer changes the memory of the
\* guest. On wasmer a write lands in the bytes that follow the body.
GuestMemoryIsGuests == engine = "wazero" => mem = stored
===============================================================================
