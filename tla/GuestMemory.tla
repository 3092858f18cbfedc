------------------------------ MODULE GuestMemory ------------------------------
(* The accessors of guest memory of the two engines (wazero/instance.go,         *)
(* wasmer/instance.go): for a memory of mem bytes, whether an access succeeds    *)
(* ("ok"), returns an error ("err") or panics ("panic").                         *)
(*                                                                               *)
(* The host passes addresses and sizes as uint64(x) of an int32: such a value is *)
(* kept as the int32 here, which is exact, since sums of two of them do not      *)
(* overflow in 64 bits and int(...) takes them back. Memory holds at most        *)
(* Word bytes, as uint32 addresses have it.                                      *)
EXTENDS Integers

CONSTANT Word   \* 2^32: the number of values of an int32

ASSUME WordAssumption == Word \in Nat /\ Word % 2 = 0 /\ Word > 8

u32Len == 4

Int32 == -(Word \div 2) .. (Word \div 2 - 1)
Uint32(x) == x % Word
ToInt32(x) == ((x + Word \div 2) % Word) - Word \div 2

OkOrErr(ok) == IF ok THEN "ok" ELSE "err"

-------------------------------------------------------------------------------
(* wazero: both numbers are cut to 32 bits, the memory checks the range.         *)

\* api.Memory: are n bytes from the address a inside of mem bytes.
HasSize(mem, a, n) == Uint32(a) + n <= mem

WazeroGetMemory(mem, a, n) == OkOrErr(HasSize(mem, a, Uint32(n)))

\* content[0:size] may reach into the capacity of the slice, and panics beyond it.
WazeroPutMemory(mem, a, n, capacity) ==
  IF n \notin 0..capacity THEN "panic" ELSE OkOrErr(HasSize(mem, a, n))

WazeroGetByte(mem, a) == OkOrErr(HasSize(mem, a, 1))
WazeroPutByte(mem, a) == OkOrErr(HasSize(mem, a, 1))
WazeroGetUint32(mem, a) == OkOrErr(HasSize(mem, a, u32Len))
WazeroPutUint32(mem, a) == OkOrErr(HasSize(mem, a, u32Len))

-------------------------------------------------------------------------------
(* wasmer: compares as signed integers, then slices mem with unsigned ones.      *)

Beyond(mem, a, n) == a > mem \/ a + n > mem

\* The mutant refuses a range that ends with the memory.
WasmerGetMemory_Short(mem, a, n) ==
  IF a >= mem \/ a + n >= mem THEN "err" ELSE IF a < 0 \/ n < 0 THEN "panic" ELSE "ok"
WasmerGetMemory(mem, a, n) ==
  IF Beyond(mem, a, n) THEN "err" ELSE IF a < 0 \/ n < 0 THEN "panic" ELSE "ok"

\* A size that came from a negative number is larger than any content. The mutant
\* takes the size as it is.
WasmerCopied_Size(mem, a, n, length) == IF n <= mem - a THEN n ELSE mem - a
WasmerCopied(mem, a, n, length) ==
  LET copySize == IF 0 <= n /\ n < length THEN n ELSE length
  IN  IF copySize <= mem - a THEN copySize ELSE mem - a
WasmerPutMemory(mem, a, n) ==
  IF Beyond(mem, a, n) THEN "err" ELSE IF a < 0 THEN "panic" ELSE "ok"

\* Off by one: the address one past the end is not refused. The mutant refuses the
\* last one.
WasmerGetByte_Last(mem, a) ==
  IF a >= mem - 1 THEN "err" ELSE IF a \notin 0..(mem - 1) THEN "panic" ELSE "ok"
WasmerGetByte(mem, a) ==
  IF a > mem THEN "err" ELSE IF a \notin 0..(mem - 1) THEN "panic" ELSE "ok"
WasmerPutByte(mem, a) ==
  IF a > mem THEN "err" ELSE IF a \notin 0..(mem - 1) THEN "panic" ELSE "ok"

WasmerGetUint32(mem, a) ==
  IF Beyond(mem, a, u32Len) THEN "err" ELSE IF a < 0 THEN "panic" ELSE "ok"
WasmerPutUint32(mem, a) ==
  IF Beyond(mem, a, u32Len) THEN "err" ELSE IF a < 0 THEN "panic" ELSE "ok"
===============================================================================
