-------------------------------- MODULE AbiCalls --------------------------------
(* A call of the guest, from the export that the embedder calls (CallWasmFunction*)
(* in proxywasm/v1/exports.go and v2/exports.go) or the _start that Start runs,  *)
(* through the host calls that the guest makes meanwhile, step by step, to what  *)
(* the embedder gets back: for both ABIs, on both engines.                       *)
(*                                                                               *)
(* The guest and the handler of the embedder are external. The guest passes      *)
(* addresses and sizes as it likes, and its malloc answers as it likes, unless   *)
(* env.sound. No host call is made by malloc.                                    *)
EXTENDS GuestMemory, Sequences, FiniteSets

CONSTANTS Memories,        \* sizes that guest memory may have
          Samples,         \* bound: addresses and sizes that cross the border
          Starts, Lengths, \* bound: ranges that are asked for of a buffer
          MaxLen           \* bound: bytes in a buffer or value, entries of a map

ASSUME SamplesAssumption == (Samples \cup Starts \cup Lengths) \subseteq Int32
ASSUME MemoriesAssumption == Memories \subseteq 1..Word

\* The space that a map of k entries of one byte each takes; it fits in an int32.
PairsSize(k) == u32Len + k * (u32Len + u32Len + 4)
ASSUME MaxLenAssumption == MaxLen \in Nat /\ PairsSize(MaxLen) < Word \div 2

V1 == INSTANCE AbiV1
V2 == INSTANCE AbiV2

VARIABLES
  env,     \* abi, engine, imports, data, mem, sound: see Environments
  started, \* the instance has started; before that the guest runs its _start
  pc,      \* who runs: "embedder", "guest", "host", or "answered" between them
  caller,  \* what the guest was called for: "_start", or how its outcome is used
  out,     \* what the embedder got from the last export
  call,    \* the host call
  at,      \* the index of its next step
  result,  \* its result: a code, or "panic"
  f        \* its local variables

vars == <<env, started, pc, caller, out, call, at, result, f>>
outside == <<env, started, caller, out>>

\* imports: the ImportsHandler of the ABI context; data: the data of the instance
\* is that context; sound: guest and handler keep to what is asked of them.
Environments ==
  [abi : {"v1", "v2"}, engine : {"wazero", "wasmer"},
   imports : {"nil", "default", "custom"}, data : BOOLEAN, mem : Memories, sound : BOOLEAN]

HostFunctions == IF env.abi = "v1" THEN V1!HostFunctions ELSE V2!HostFunctions
Exports == IF env.abi = "v1" THEN V1!Exports ELSE V2!Exports
TypedExports == IF env.abi = "v1" THEN V1!TypedExports ELSE V2!TypedExports
DefaultHandler(m) == IF env.abi = "v1" THEN V1!DefaultHandler(m) ELSE V2!DefaultHandler(m)

\* done: the host has acted; given: what the guest got of its answer; len: bytes
\* that were read last; n, addr: what is asked of malloc, and what it gave; size:
\* bytes of the value, entries of the map. Of a buffer: its length (whole), the
\* range that is asked for, and the bytes that are sent.
NoFrame == [done |-> FALSE, given |-> {}, len |-> 0, n |-> 0, addr |-> 0, size |-> 0,
            whole |-> 0, start |-> 0, asked |-> 0, from |-> 0, sent |-> 0]

Nothing == [end |-> "none", val |-> "none", missed |-> "none"]

Init ==
  /\ env \in Environments
  /\ \/ started = FALSE /\ pc = "guest" /\ caller = "_start"
     \/ started = TRUE /\ pc = "embedder" /\ caller = "none"
  /\ out = Nothing
  /\ call = "none" /\ at = 0 /\ result = "none" /\ f = NoFrame

-------------------------------------------------------------------------------
(* The embedder and the guest                                                    *)

Outcome(end, val) == [end |-> end, val |-> val, missed |-> "none"]

\* An export that failed: the filters tell the embedder to pause.
Failed(shape) == Outcome("err", IF shape = "action" THEN "Pause" ELSE "none")

\* What becomes of a value that the guest returned: res.(int32) panics on another.
Returned(shape, v) ==
  CASE shape = "int32" -> IF v = "i32" THEN Outcome("ok", v) ELSE Outcome("panic", "none")
    [] shape = "action" -> Outcome("ok", "Wait")
    [] OTHER -> Outcome("ok", "none")

\* wazero's convertFromGoValue knows int32 but not the types named after it. What
\* wasmer-go makes of them is left open.
Refused(e) == e \in TypedExports /\ env.engine = "wazero"

\* An export is called. A guest that is not sound may be without it.
CallExport(e) ==
  /\ pc = "embedder"
  /\ \/ /\ started /\ ~Refused(e)
        /\ pc' = "guest" /\ caller' = Exports[e] /\ out' = Nothing
     \/ /\ ~started \/ Refused(e) \/ ~env.sound
        /\ out' = [Failed(Exports[e]) EXCEPT !.missed = e]
        /\ UNCHANGED <<pc, caller>>
  /\ UNCHANGED <<env, started, call, at, result, f>>

\* The guest returns v, "ref" being of a type that convertToGoValue of wazero does
\* not know. CallWasmFunction then calls Wait of its imports, which may be nil.
GuestReturns(v) ==
  /\ pc = "guest"
  /\ v = "ref" => env.engine = "wazero" /\ ~env.sound
  /\ env.sound /\ caller = "int32" => v = "i32"
  /\ pc' = "embedder" /\ caller' = "none" /\ started' = TRUE
  /\ out' = CASE caller = "_start" -> Outcome("ok", "none")
              [] caller # "_start" /\ v = "ref" -> Failed(caller)
              [] OTHER -> IF env.imports = "nil" THEN Outcome("panic", "none")
                          ELSE Returned(caller, v)
  /\ UNCHANGED <<env, call, at, result, f>>

GuestTraps ==
  /\ pc = "guest" /\ ~env.sound
  /\ pc' = "embedder" /\ caller' = "none" /\ out' = Failed(caller)
  /\ UNCHANGED <<env, started, call, at, result, f>>

\* The guest makes a host call. wasmer calls the Go function through reflect, with
\* int32 and int64 values, which panics on a parameter of a named type.
CallHost(h) ==
  /\ pc = "guest"
  /\ call' = h /\ at' = 1 /\ f' = NoFrame
  /\ IF HostFunctions[h].typed /\ env.engine = "wasmer"
       THEN pc' = "answered" /\ result' = "panic"
       ELSE pc' = "host" /\ result' = "none"
  /\ UNCHANGED outside

\* The engine recovers a panic of the host and has the guest trap.
BackToGuest ==
  /\ pc = "answered"
  /\ IF result = "panic"
       THEN pc' = "embedder" /\ caller' = "none" /\ out' = Failed(caller)
       ELSE pc' = "guest" /\ UNCHANGED <<caller, out>>
  /\ call' = "none" /\ at' = 0 /\ result' = "none" /\ f' = NoFrame
  /\ UNCHANGED <<env, started>>

-------------------------------------------------------------------------------
(* The steps of a host call                                                      *)

steps == HostFunctions[call].steps
arg == steps[at].arg

At(op) == pc = "host" /\ at <= Len(steps) /\ steps[at].op = op /\ UNCHANGED outside

Continue == at' = at + 1 /\ UNCHANGED <<pc, call, result>>
Return(code) == pc' = "answered" /\ result' = code /\ UNCHANGED <<call, at>>
Panic == Return("panic")

Follow(outcome, code) ==
  CASE outcome = "ok" -> Continue
    [] outcome = "err" -> Return(code)
    [] outcome = "panic" -> Panic

\* getContextHandler and getImportHandler.
Handler == IF ~env.data \/ env.imports = "nil" THEN "default" ELSE env.imports
HandlerMayPanic == Handler = "custom" /\ ~env.sound

\* An accessor: before Start has set i.instance wazero calls a method of nil, and
\* wasmer's GetExportsMem refuses.
Access(wazero, wasmer) ==
  IF env.engine = "wazero" THEN IF started THEN wazero ELSE "panic"
                           ELSE IF started THEN wasmer ELSE "err"

GetMemory(a, n) == Access(WazeroGetMemory(env.mem, a, n), WasmerGetMemory(env.mem, a, n))
PutWord(a) == Access(WazeroPutUint32(env.mem, a), WasmerPutUint32(env.mem, a))
PutMemory(a, n, capacity) ==
  Access(WazeroPutMemory(env.mem, a, n, capacity), WasmerPutMemory(env.mem, a, n))
PutByte(a) == Access(WazeroPutByte(env.mem, a), WasmerPutByte(env.mem, a))

\* What a sound guest passes lies in its memory.
Sound(a, n) == env.sound => HasSize(env.mem, a, Uint32(n))

Object ==
  /\ At("Object")
  /\ \/ Return(arg) /\ UNCHANGED f
     \/ \E k \in 0..MaxLen : /\ Handler = "custom"
                             /\ Continue
                             /\ f' = [f EXCEPT !.size = k, !.n = PairsSize(k)]

Check == At("Check") /\ (Continue \/ Return(arg)) /\ UNCHANGED f

Read ==
  /\ At("Read")
  /\ \E a, n \in Samples : /\ Sound(a, n)
                           /\ Follow(GetMemory(a, n), arg)
                           /\ f' = [f EXCEPT !.len = IF n = 0 THEN 0 ELSE 1]

NonEmpty == At("NonEmpty") /\ (IF f.len = 0 THEN Return(arg) ELSE Continue) /\ UNCHANGED f

\* DecodeMap slices by the sizes it finds, see MapCodec.
Decode == At("Decode") /\ (Continue \/ (~env.sound /\ f.len > 0 /\ Panic)) /\ UNCHANGED f

\* A method of the handler; with Ok it gives up to MaxLen bytes.
Answers == IF Handler = "default" THEN DefaultHandler(arg) ELSE {"Ok", "NotFound", "BadArgument"}

Invoke ==
  /\ At("Invoke")
  /\ \/ \E code \in Answers \ {"Ok"} : Return(code) /\ UNCHANGED f
     \/ \E k \in 0..MaxLen : /\ "Ok" \in Answers
                             /\ Continue
                             /\ f' = [f EXCEPT !.done = TRUE, !.size = k, !.n = k]
     \/ HandlerMayPanic /\ Panic /\ UNCHANGED f

\* Set, Del and DelCAS, SetCAS of the object.
Change ==
  /\ At("Set") \/ At("Del") \/ At("Cas")
  /\ \/ Continue /\ f' = [f EXCEPT !.done = TRUE]
     \/ steps[at].op = "Cas" /\ Return(arg) /\ UNCHANGED f
     \/ HandlerMayPanic /\ Panic /\ UNCHANGED f

\* What ProxySetBufferBytes and ProxySetBuffer can do: replace all, or append.
Splices(start, length) ==
  IF start = 0 THEN length = 0 \/ length >= f.size ELSE start >= f.size

Splice ==
  /\ At("Splice")
  /\ \E start \in Starts, length \in Lengths :
       IF Splices(start, length) THEN Continue /\ f' = [f EXCEPT !.done = TRUE]
                                 ELSE Return(arg) /\ UNCHANGED f

Get ==
  /\ At("Get")
  /\ \/ Return(arg) /\ UNCHANGED f
     \/ \E k \in 0..MaxLen : Continue /\ f' = [f EXCEPT !.size = k, !.n = k]

IsEmpty == At("IsEmpty") /\ (IF f.size = 0 THEN Return(arg) ELSE Continue) /\ UNCHANGED f

\* The length that is left of a range of the buffer. The mutant forgets the start.
Clipped_Whole(start, length) ==
  IF ToInt32(start + length) > f.size THEN f.size ELSE length
Clipped(start, length) ==
  IF ToInt32(start + length) > f.size THEN ToInt32(f.size - start) ELSE length

Range ==
  /\ At("Range")
  /\ \E start \in Starts, length \in Lengths :
       /\ env.sound => start \in 0..f.size /\ length >= 0
       /\ IF start > ToInt32(start + length)
            THEN Return(arg) /\ UNCHANGED f
            ELSE /\ Continue
                 /\ f' = [f EXCEPT !.whole = f.size, !.start = start, !.asked = length,
                                   !.n = Clipped(start, length)]

\* buf.Bytes()[offset:offset+maxSize]
Slice ==
  /\ At("Slice")
  /\ IF 0 <= f.start /\ 0 <= f.n /\ f.start + f.n <= f.size
       THEN Continue /\ f' = [f EXCEPT !.size = f.n, !.from = f.start]
       ELSE Panic /\ UNCHANGED f

\* Malloc(f.n): refused before the start; the guest may trap, or return no int32.
Malloc ==
  /\ At("Malloc")
  /\ \/ (~started \/ ~env.sound) /\ Return(arg) /\ UNCHANGED f
     \/ started /\ ~env.sound /\ Panic /\ UNCHANGED f
     \/ \E a \in Samples : /\ started
                           /\ env.sound => a # 0 /\ Sound(a, f.n)
                           /\ Continue
                           /\ f' = [f EXCEPT !.addr = a]

\* instance.PutMemory(addr, n, content): content has f.size bytes and maybe capacity
\* for one more.
PutContent ==
  /\ At("PutMemory")
  /\ \E capacity \in f.size .. f.size + 1 :
       LET outcome == PutMemory(f.addr, f.n, capacity)
       IN  /\ Follow(outcome, arg)
           /\ f' = IF outcome # "ok" THEN f
                   ELSE [f EXCEPT !.given = @ \cup {"bytes"},
                                  !.sent = IF env.engine = "wazero" THEN f.n
                                           ELSE WasmerCopied(env.mem, f.addr, f.n, f.size)]

PutCount == At("PutCount") /\ Follow(PutWord(f.addr), arg) /\ UNCHANGED f

\* The loop over the entries: no error is looked at.
PairsOutcomes ==
  UNION {LET lenPtr == f.addr + u32Len + (u32Len + u32Len) * (i - 1)
             dataPtr == f.addr + u32Len + (u32Len + u32Len) * f.size + 4 * (i - 1)
         IN  {PutWord(lenPtr), PutWord(lenPtr + u32Len),
              PutMemory(dataPtr, 1, 1), PutByte(dataPtr + 1),
              PutMemory(dataPtr + 2, 1, 1), PutByte(dataPtr + 3)} : i \in 1..f.size}

PutPairs ==
  /\ At("PutPairs")
  /\ IF "panic" \in PairsOutcomes THEN Panic ELSE Continue
  /\ f' = IF PairsOutcomes \subseteq {"ok"} THEN [f EXCEPT !.given = @ \cup {"bytes"}] ELSE f

PutUint32 ==
  /\ At("PutUint32")
  /\ \E a \in Samples :
       /\ Sound(a, u32Len)
       /\ Follow(PutWord(a), "InvalidMemoryAccess")
       /\ f' = IF PutWord(a) = "ok" THEN [f EXCEPT !.given = @ \cup {arg}] ELSE f

ReturnOk ==
  /\ pc = "host" /\ at = Len(steps) + 1
  /\ Return("Ok")
  /\ UNCHANGED <<outside, f>>

Next ==
  \/ \E e \in DOMAIN Exports : CallExport(e)
  \/ \E v \in {"none", "i32", "i64", "ref"} : GuestReturns(v)
  \/ GuestTraps
  \/ \E h \in DOMAIN HostFunctions : CallHost(h)
  \/ BackToGuest
  \/ Object \/ Check \/ Read \/ NonEmpty \/ Decode \/ Invoke \/ Change \/ Splice
  \/ Get \/ IsEmpty \/ Range \/ Slice \/ Malloc \/ PutContent \/ PutCount
  \/ PutPairs \/ PutUint32 \/ ReturnOk

Spec == Init /\ [][Next]_vars

-------------------------------------------------------------------------------
(* Properties                                                                    *)

Codes == {"Ok", "NotFound", "BadArgument", "Empty", "InvalidMemoryAccess",
          "InternalFailure", "CasMismatch", "CompareAndSwapMismatch", "Unimplemented"}

\* Every host call knows what to do next, and ends in a code or a panic.
TypeOK ==
  /\ env \in Environments /\ started \in BOOLEAN
  /\ pc \in {"embedder", "guest", "host", "answered"}
  /\ caller \in {"none", "_start", "error", "int32", "action"}
  /\ out.end \in {"none", "ok", "err", "panic"}
  /\ out.val \in {"none", "i32", "Wait", "Pause"} /\ out.missed \in DOMAIN Exports \cup {"none"}
  /\ pc = "host" => call \in DOMAIN HostFunctions /\ at \in 1..(Len(steps) + 1)
  /\ result \in Codes \cup {"none", "panic"}
  /\ f.n \in Int32 /\ f.addr \in Int32 /\ f.size \in 0..MaxLen
  /\ f.sent \in 0..(MaxLen + 1)

Acts == {"Invoke", "Set", "Del", "Cas", "Splice"}
MustAct == \E i \in DOMAIN steps : steps[i].op \in Acts
Outs == HostFunctions[call].outs

\* The result tells the guest whether the host has acted, so that it knows whether
\* to call again: Ok means it has; a refusal means it has not, and so does an
\* invalid argument of a call that has nothing to answer. Only the answer of a call
\* that has acted can still fail.
ResultTellsEffect ==
  pc = "answered" =>
    /\ result = "Ok" /\ MustAct => f.done
    /\ result \in Codes \ {"Ok", "InvalidMemoryAccess", "InternalFailure"} => ~f.done
    /\ result = "InvalidMemoryAccess" /\ Outs = {} => ~f.done

\* malloc gave a block that lies in memory.
Promised == f.addr # 0 /\ Uint32(f.n) + Uint32(f.addr) <= env.mem

\* What the guest is to get of a host call and never gets: one cas, and the high half
\* of the numbers of 64 bits, of which the host writes 32.
Unwritten(h) ==
  CASE h = "proxy_get_shared_kvstore_key_values" -> {"cas"}
    [] h \in {"proxy_get_current_time_nanoseconds", "proxy_get_metric",
              "proxy_get_metric_value"} -> {"high"}
    [] OTHER -> {}

\* With Ok the guest has got every part of the answer, but for the cas of a v2 store
\* and for the high half of a metric's value and of v1's time, which no call writes; a
\* map may be missing only if malloc gave a block that does not hold it. With a
\* refusal it has got nothing.
AnswerWhole ==
  pc = "answered" =>
    /\ result = "Ok" => /\ Outs \ f.given \subseteq Unwritten(call)
                        /\ "data" \in Outs /\ Promised => "bytes" \in f.given
    /\ result \in Codes \ {"Ok", "InvalidMemoryAccess", "InternalFailure"} => f.given = {}

\* A range of a buffer that begins inside of it is answered with as many bytes as
\* are asked for and are there, and the size that goes with them is theirs. They
\* are the bytes of the range, but for v1, which sends those at the beginning.
BufferAsAsked ==
  (/\ pc = "answered" /\ result = "Ok"
   /\ call \in {"proxy_get_buffer_bytes", "proxy_get_buffer"}
   /\ f.start \in 0..f.whole /\ f.asked >= 0)
    => LET rest == f.whole - f.start
       IN  /\ f.n = (IF f.asked <= rest THEN f.asked ELSE rest)
           /\ f.sent = f.n
           /\ env.abi = "v2" => f.from = f.start

\* Guest and handler that keep to what is asked of them are served: once started,
\* no host call refuses their memory or panics, every export that the embedder calls
\* gets to the guest, and none panics, except
\*   - on wasmer, host calls with a parameter of a named type, and any memory of
\*     2 GiB or more (the end of one of 2 GiB, where an empty block may lie, is
\*     a negative address); on wazero, exports with an argument of a named type;
\*   - on an ABI context without imports.
\* In _start, where memory is out of reach, wasmer refuses and wazero panics.
SoundIsServed ==
  env.sound =>
    /\ (/\ started /\ pc = "answered"
        /\ result \in {"InvalidMemoryAccess", "InternalFailure", "panic"})
         => env.engine = "wasmer" /\ (HostFunctions[call].typed \/ env.mem >= Word \div 2)
    /\ (~started /\ result = "panic") => env.engine = "wazero" \/ HostFunctions[call].typed
    /\ (started /\ out.missed # "none") => env.engine = "wazero" /\ out.missed \in TypedExports
    /\ out.end = "panic" => env.imports = "nil"

\* Where the engines agree on what guest memory is, and where they do not: below 2 GiB
\* both serve what is inside of the memory and refuse what is not, except for a byte
\* at the very end of it; above 2 GiB wasmer serves nothing.
AccessorsAgree ==
  (pc = "embedder" /\ out = Nothing) =>
    \A a, n \in Int32 :
      LET mem == env.mem
          pairs == {<<WazeroGetMemory(mem, a, n), WasmerGetMemory(mem, a, n)>>,
                    <<WazeroPutMemory(mem, a, n, n), WasmerPutMemory(mem, a, n)>>,
                    <<WazeroGetUint32(mem, a), WasmerGetUint32(mem, a)>>,
                    <<WazeroPutUint32(mem, a), WasmerPutUint32(mem, a)>>}
          bytes == {<<WazeroGetByte(mem, a), WasmerGetByte(mem, a)>>,
                    <<WazeroPutByte(mem, a), WasmerPutByte(mem, a)>>}
      IN  /\ a >= 0 /\ n >= 0 => \A p \in pairs : p[1] = p[2]
          /\ a >= 0 => \A p \in bytes : p[1] = p[2] \/ (a = mem /\ p = <<"err", "panic">>)
          /\ a < 0 => \A p \in pairs \cup bytes : p[2] # "ok"
=================================================================================
