# Verification of proxy-wasm-go-host

TLA+ models of the Go host of the proxy-wasm ABI, the TLC configurations that
check them on small instances, and theorems about them checked by TLAPS. Paths
are relative to `src/`.

## The system

A *guest* is a WebAssembly module that a proxy calls for its requests (exports)
and that calls the proxy back (host calls). The repository has the two engines
that run guests, the two versions of the ABI, and an example server.

| Component | State | Operations | Modelled in |
|---|---|---|---|
| wazero instance, `wazero/instance.go` | runtime, guest module, ABI list, `started`, `refCount`, a mutex with a condition variable, user data | NewInstance, RegisterImports, Start, Acquire, Release, Lock, Unlock, SetData, GetExportsFunc, Call, Stop; Malloc and memory access | `WazeroInstance`; `GuestMemory` |
| wasmer instance, `wasmer/instance.go` | the same, with an import object and caches of functions and memory | the same | `WasmerInstance`; `GuestMemory` |
| host calls, `internal/imports/v1`, `v2` | none of their own: guest memory and the handler | 41 names in v1, 39 in v2 | `AbiV1`, `AbiV2`, run by `AbiCalls` |
| ABI context, exports, default handler, `proxywasm/v1`, `v2` | handler and instance | SetImports, CallWasmFunction and one export per callback | `AbiV1`, `AbiV2`, run by `AbiCalls`; `RequestFlow` (as the server uses them) |
| shared data, `proxywasm/v1/default.go` 168-229 | one map of items with a cas for all guests of the process, a counter, a lock | get, set | `SharedData` |
| shared queues, `proxywasm/v1/default.go` 231-365 | one registry (name to id, id to queue) and its lock; a lock per queue | register, delete, resolve, enqueue, dequeue | `SharedQueue` |
| example server, `example/main.go` | the one context, its lock, a `sync.Once`, the id generator | getWasmContext, ServeHTTP | `RequestFlow` |
| map codec, `proxywasm/common/codec.go` | none | EncodeMap, DecodeMap | `MapCodec` |
| buffers and headers, `proxywasm/common` | a byte slice, of the host or of guest memory; a map | Write, Drain, Bytes, Len; Get, Set, Add, Del, Range | `BodyBuffer` (the buffer); lengths and ranges, in `AbiCalls` |
| VM, module, value conversion of both engines | fixed when made | compile, convert | conversions that refuse or panic, in `AbiCalls` |
| DWARF and custom sections, `wasmer/debug.go` | custom sections by name, the offset of the code, a cached line reader | loadCustomSections, ULEB128 decoding; SeekPC | `WasmSections` (without SeekPC) |

How they interact:

* A client makes an instance through a module, registers the imports of an ABI,
  starts it, and shares it between goroutines. `Acquire .. Release` keeps it from
  being stopped; `Lock .. Unlock` gives one goroutine the guest and sets the data
  of the instance.
* A host call reaches Go code in the middle of a call of the guest. It finds the
  handler through the data of the instance (`getImportHandler`), and the default
  handler if there is none. The default v1 handler keeps shared data and queues in
  package variables: all guests of the process meet there.
* A host call reads its arguments from guest memory and answers there, in a block
  that it asks of the guest's own `malloc`. Addresses and sizes are the guest's word.
* `Start` and `Stop` call back into the ABI implementations that the guest
  exports: `OnInstanceCreate`, `OnInstanceStart`, `OnInstanceDestroy`.

What is hard: `Stop` runs in a goroutine of its own, waits on a condition
variable and works on after it has let go of the lock; `Start` takes no lock at
all; a queue may go between its look-up and its use; an answer is copied into the
guest in several writes, each of which may fail; counters wrap; a panic ends a
request but not the process. `PROJECT.json` lists these hazards at their lines.

What makes each part correct:

* instance: held only while started, stopped only when nobody holds it, each ABI
  told of each event once and in order, every `Stop` ends; on wasmer, where an
  instance can be started again, the same for each life, and a guest that is called
  and answered in its own memory;
* host calls: the result says whether the host has acted; an answer is whole; the
  bytes are those asked for; a guest and a handler that keep to the rules are served,
  on either engine;
* shared data: no lost update, no refusal without cause;
* shared queues: no message lost, duplicated, reordered or sent to another name;
* server: one instance, one goroutine in the guest, each request served from its
  own headers, every request ends, no context left behind;
* codec: what was encoded is decoded;
* buffer: it holds what was put into it, and guest memory is changed by host calls only;
* sections: each custom section is found under its name, with its data.

## Modules

**`WazeroInstance`.** Three kinds of goroutine: users (`Acquire`, `Release`,
`Lock`, `GetExportsFunc`, `Call`, `Unlock`), starters (`RegisterImports`, `Start`)
and stoppers (one call of `Stop` each). A method that runs under `i.lock` and
neither calls out nor waits is one action. The others are split at each access to
shared state: `Start` into `Start`, `StartWasi`, `StartABIList`, `StartCreate` and
`StartCallback` (one ABI each), `StartGuest`, `StartSetInstance`, `StartPublish`;
`Stop` into `Stop`, `StopWait`, `StopSwap`, `StopDestroy` (one ABI each),
`StopClose`. `SetData` may be called by anyone at any time, since it takes no lock; what
it sets is `Preset`. `upc`, `spc`, `tpc` are the places of the goroutines, `waiting` the
wait set of `stopCond`. The wazero runtime is external: it is open or closed, and
knows which host modules it has; a name can be instantiated once, nothing on a
closed runtime. The ABI implementations are external too: their callbacks are
counted in `created`, `onStart`, `destroyed`, which no guard reads.
`Ordered` is a parameter, not an assumption: with `FALSE` clients call anything at
any time, with `TRUE` they keep to the order that the tests and the example keep to
(one call of `Start`, `Stop` after it, no two of them overlapping).

**`ManagedResource`.** What a `WasmInstance` promises whatever the engine: new,
live, retired; held only while live; retired only when free; everybody told at
most once, afterwards. `WazeroInstance` implements it with `phase <- Phase`,
`holders <- Holders`, `told <- destroyed`.

**`WasmerInstance`.** The same three kinds of goroutine. Where it differs from
wazero the source does: `Stop` closes nothing of the guest, so `Start` may be called
again, and the guests that it makes are numbered, as are the lists of ABI contexts.
`funcCache` and `memory` are what `GetExportsFunc` and `GetExportsMem` keep: the number
of the guest it came from, and 0 while there is nothing. `SetData` is as on
wazero. A user inside `Lock .. Unlock`
calls an export of the guest (`GetExportsFunc`), and host calls of that guest reach
for memory (`GetExportsMem`) or for its malloc (`Malloc`); `fun` and `seen` are the
guests whose function, memory or malloc the call got. `Start` is split into `Start`
(the list), `StartRange` (each `for .. range i.abiList` reads the list when it
begins), `StartCreate`, `StartGuest`, `StartHostCall` (what the guest does in
`_start`), `StartRun`, `StartCallback`, `StartPublish`; `Stop` into `Stop`, `StopWait`,
`StopSwap`, `StopRange`, `StopDestroy`. `patient` is a parameter like `Ordered`: a
patient client calls one method after the other and starts again only when every
`Stop` has ended. No method tells it when that is; a client that guesses is one that
is not patient. `published`, `retired`, `told` and the counts of callbacks are history.

**`RestartableResource`.** As `ManagedResource`, for a resource that goes live any
number of times; each ABI is told at most once for each retirement, never before it.

**`GuestMemory`.** The accessors of both engines, by their outcome: served, refused
or a panic. Numbers are kept as the int32 that the guest passed, whose conversions
to uint64, int and uint32 the accessors undo in their own way. `Word` is 2^32.

**`AbiSteps`, `AbiV1`, `AbiV2`.** Every host function is written down as the sequence
of the steps that its Go function takes, in the order in which the source takes them,
each with the code that it returns when it refuses: `Read` (GetMemory), `NonEmpty`,
`Decode`, the object or method of the handler, `Malloc`, `PutMemory`, `PutUint32` and
so on. `outs` are the parameters through which the guest gets its answer, `typed` says
that a parameter has a named type other than int32 and int64. `Exports` gives for
every callback what becomes of the outcome of the guest's function, `TypedExports` those
that pass a value of a named type, `DefaultHandler` what each method of the default
handler may answer.

**`AbiCalls`.** Runs them: the embedder calls an export, the guest makes host calls,
traps or returns, one action per kind of step. `env` is the environment, fixed from
the start: the ABI, the engine, the imports of the ABI context (none, default, custom),
whether the context is the data of the instance, the size of memory, and whether guest
and handler are `sound`. One that is sound passes ranges that lie in its memory, has a
malloc that returns a block, exports what is called, and does not trap or panic; one
that is not may do anything. A call before `started` is one that the guest makes in
its `_start`. The contents of values are left out; sizes, ranges, addresses and codes
are kept, since they decide what happens next.

**`SharedData`.** `get` and `set` hold the lock throughout and are one action
each. `proxy_get_shared_data` is several: `GetFound` reads value and cas, each `CopyPart`
writes one part of the answer into the guest, in the `Order` of the code (the address of
the value, its size, the cas), and `CopyFails` may end the call before any of them, with
what was written before left behind; other guests run in between. An absent key is kept
as what `get` answers for it. `seen` is what the variables of a guest hold for a key, part
by part; `set` gets the cas in them, whether the last `get` succeeded or not. `total`,
`at` and the `at` of a snapshot are history.

**`SharedQueue`.** Registry operations are one action each. Enqueueing and
dequeueing are `LookUp` under the lock of the registry, then `Enque`, `Deque` or
`DequeEmpty` under that of the queue, then `CopyOut` or `CopyFails`. A queue that
was removed is still worked on by whoever had looked it up. Queues are numbered by
creation, the number stands for the pointer. Messages carry a number and the name
that their sender meant.

**`RequestFlow`.** The goroutines of the example: `GetContext`, `Load`,
`StartInstance` (getWasmContext), `NewID`, `EnterOnce`, `PassOnce`, `Lock`,
`SetImports` (ServeHTTP), and for each call of the guest `Enter` or `NotFound`,
`HostCall`, `Return` or `Trap` (CallWasmFunction). `Leave` is what the deferred
calls do when the goroutine returns or panics. The instance appears as the part of
it the server uses: started, its lock, its data. The guest is external: it creates
and deletes contexts when it is told to, calls back at will, and may fail in any
call, before or after it has done its part. The generator of ids, an `int32`, is
not wrapped.

**`MapCodec`.** One action is one iteration of a loop of `EncodeMap` or
`DecodeMap`. `range` takes the entries in any order. The decoder gets all bytes or
any prefix of them, and `behind` is what lies between the end of its slice and the
capacity: nothing on wazero, which cuts the capacity, the rest of the memory on wasmer.
A slice expression panics past the capacity and not past the length. The header is kept as
numbers and offsets count from its end; characters are model values.

**`WasmFormat`.** The WebAssembly format, which is external, written down as an encoder:
`Number` is a size in LEB128 of any number of bytes in which it `Fits`, since compilers
leave room for those they fill in afterwards, `Section` a section with its size, `UpTo(mod)[k]` the bytes of a
module up to the end of its k-th section, `Binary` all of them.

**`WasmSections`.** `loadCustomSections` over the bytes of a module (`data` and `i` in the
code are `bytes` and `at` here, so that `CodecProofs` can extend it beside `MapCodec`). One
action is the preamble or one section; `CustomSection` takes the name from inside.
`Readable` and `Length` are readULEB128, which slices one byte more than the number has, `Decoded` is
DecodeULeb128. `spare` is the spare capacity of the slice behind its length. The preamble
is sliced before the length is looked at, so that a short text such as `(func)` is either
refused (`InvalidPreamble`) or out of bounds (`PreamblePanics`).

**`BodyBuffer`.** One `CommonBuffer`. `buf` is its slice: an array of the host, or an
offset, length and capacity in `mem`. `SendBody` is a host call that hands the handler a
range of guest memory; the handler drains it (`Drain`) and writes to it (`HandlerWrite`),
the guest replaces its contents or writes at its end (`Replace`, `Extend`: both are
ProxySetBufferBytes), stores in its own memory (`Store`), or grows it (`MemoryMoves`).
`Overwrite` is append in place. `meant` is what was put into the buffer, `stored` what
the guest has put into its memory, `touched` whether it has since stored in the bytes
that it handed over.

**`WazeroInstanceProofs`, `WasmerInstanceProofs`, `SharedDataProofs`,
`SharedQueueProofs`, `RequestFlowProofs`, `BodyBufferProofs`, `CodecProofs`,
`AbiCallsProofs`.** The theorems; `CodecProofs` has those of `MapCodec` and of
`WasmSections`. **`MC...`.** What TLC needs: symmetry sets, the strings of
the codec, the sections of modules, the numbers that cross the border.

Definitions whose names have an underscore, such as `Acquire_CountsFirst`, are
plausible mistakes in the definition they stand beside. `PROJECT.json` names, for
every property, one that breaks it.

## Runs

| Run | Instance | Shows |
|---|---|---|
| `wazero_any` | 2 users, 2 starters, 2 stoppers, 2 ABIs, 1 Acquire each, any order | `RefCountIsHolders`, `DataIsOwners`, `IsManagedResource`; `LifecycleInv`, the inductive invariant of the proofs |
| `wazero_ordered` | 2 users, 1 starter, 2 stoppers, 2 ABIs, 2 Acquires, ordered, fair | `HeldRuntimeIsOpen`: a holder finds its runtime open. `ToldBeforeClosed`: one `Stop` tells the ABIs before it closes the runtime. `StopEnds`: every `Stop` ends |
| `wasmer_instance` | 2 users, 2 starters, 2 stoppers, 2 ABIs, 1 Acquire each, 2 Starts, patient clients and others | `IsRestartableResource`: for any client; `CallbacksInOrder`: for a patient one, each list of contexts is told in order, restart or not; `OwnGuest`: until its first restart a call is answered in its own guest |
| `wasmer_restart` | violation | `ReturnsThoseOfGuest`: after a restart the functions and the memory are those of the guest before |
| `abi_calls` | both ABIs and engines, memories of 40, 64 and 80 bytes of an address space of 128, buffers and maps of up to 2 | `ResultTellsEffect`, `AnswerWhole`, `BufferAsAsked`, `SoundIsServed`, `AccessorsAgree` |
| `shared_data` | 2 guests, 2 keys and the empty one, 2 values, cas modulo 2, 3 sets | `CasInv`, `CasIdentifiesValue`, `NoLostUpdate`, `NoSpuriousMismatch`, with a counter that comes round |
| `shared_queue` | 2 guests, 2 names, ids modulo 2, 3 queues, 2 messages | `RegistryAgrees`, `TokensStayTrue`, `NoCrossDelivery` until ids come round; `InOrder`, `InOnePlace` always; `QueueInv`, the inductive invariant |
| `request_flow` | 3 requests, fair | `OneInstance`, `OneInGuest`, `OwnHandler`, `RootFirst`, `RepliedLeavesNone`, `RequestsEnd` |
| `map_codec` | up to 4 entries, keys and values of 0 to 3 characters, nothing, 1 or 4 characters or the rest of the encoding behind a cut | `NothingInvented`, `OnlyShortValuesLost` |
| `map_codec_roundtrip` | violation | `RoundTrip`: a key longer than its value is lost |
| `wasm_sections` | modules of up to 3 sections, texts of 1 to 3 bytes for a preamble of 2, a spare capacity of 0 and 1 | `FoundAsWritten`, `WalkedToTheEnd`, with the three exceptions the code has |
| `body_buffer` | a memory of 4 bytes, buffers of up to 3, 2 byte values, both engines | `KeepsWhatIsMeant`, `GuestMemoryIsGuests` (wazero) |

The type invariant of a module with a proof (`TypeCorrect`, `BufferTypes`) is proved and
not checked again; `abi_calls`, `map_codec` and `wasm_sections` check theirs (`TypeOK`, `WSTypeOK`).

The violations are findings, quoted against the comment or test they contradict in
`PROJECT.json`. More things the runs showed are in the properties instead:

* A wazero instance cannot be started again: a runtime takes one Start (`OneLife`, in
  `LifecycleInv`). Start takes the runtime that NewInstance made, whatever its comment
  says (`instance.go` 129), and panics on one that Stop has closed.
* `RootFirst` holds until a request fails: sync.Once counts a function that panics as
  done, and the requests behind it create their contexts under a root that is not there.
* `WalkedToTheEnd` excepts modules with a section that `secTypeNames` lacks (12, the data
  count), which get no debug information, and a module that ends with a custom section
  of neither name nor data: if its slice has no spare capacity, the byte too many that
  readULEB128 slices makes NewModule panic. A text shorter than the preamble, in a slice
  without room behind it, panics as well.
* `DataIsOwners` excepts `SetData`: it writes the data without the lock, also under a
  goroutine that is between `Lock` and `Unlock`. What holds for any client is that
  no `Lock` or `Unlock` of another does.
* `NothingInvented` excepts the one value that a cut goes through: `DecodeMap` checks it
  with the size of its key only. Where the capacity of the slice ends with it the code
  panics; on wasmer it goes on, and the value ends with the bytes that lie behind.
* `GuestMemoryIsGuests` is for wazero, whose Read cuts the capacity of what it returns.
  On wasmer a slice reaches to the end of memory, and a write to the buffer lands in what
  the guest has behind the body.
* `ToldBeforeClosed` holds while one `Stop` has been called. With two, the one that
  loses the compare-and-swap closes the runtime while the other may still be in
  `OnInstanceDestroy`.
* `HeldRuntimeIsOpen` needs ordered clients. A `Stop` during `Start` closes the
  runtime and `Start` then publishes an instance that cannot run; a second `Start`
  closes the runtime under the users of the first. What holds for any client is
  `HeldIsStarted`.
* `Lock` needs no reference, and `Stop` tears the instance down between `Lock` and
  `Unlock`; only a reference protects a user.
* `RepliedLeavesNone` is about replies: a request whose guest call fails panics past
  `ProxyOnDelete` and leaves its context in the guest.
* `CallbacksInOrder` and `OwnGuest` need a patient client. A `Start` that follows a
  `Stop` too soon replaces the list that the `Stop` is about to tell of its
  destruction: the old contexts never hear of it and the new ones do before their
  start.
* `BufferAsAsked` excepts v1 from "the bytes of the range": `proxy_get_buffer_bytes`
  sends the bytes at the beginning of the buffer whatever `start` is.
* `AnswerWhole` excepts the cas of `proxy_get_shared_kvstore_key_values`, which is never
  written, and the high halves of three numbers of 64 bits, of which the host writes the
  low 32: the value of a metric in either ABI and the time in v1.
* `SoundIsServed` names whom the engines do not serve: on wasmer six v2 host functions
  with a parameter of a named type, and every access in a memory of 2 GiB or more (in one
  of exactly 2 GiB an empty block at its end has a negative address, which the proof
  brought up); on
  wazero the v2 close callbacks, which never reach the guest, and a guest that
  touches memory through the host in its `_start`, which panics.
* `AccessorsAgree`: the address one past the end of memory is a panic on wasmer
  (GetByte, PutByte) and an error on wazero.

Bounds. `MaxAcquire` (Acquires per user), `MaxStarts` (calls of Start on
wasmer), `MaxSets` (successful sets), `MaxQueues`
and `MaxMessages` (queues created, messages enqueued), `Modulus` (2^32 in the code).
Two of a kind are enough for every race named above, each being between two
goroutines; the third queue lets a name be removed and made anew while another
exists; two ABIs tell "each one" from "the first"; two Starts are a restart, or two at
once; two Acquires let a reference be
taken again after a Release. Shared data and queues get one more set or queue than
their counters can count, so that runs with and without a wrap are among the
behaviours; a half-way failure shows with two sets of one key, the second between the
parts of an answer or before a second answer. One `Preset` is enough, since it is only told from the
data of users. For the properties with a theorem the bounds
of the run do not matter. The `wazero`, `wasmer`, `request`, `map_codec` and
`wasm_sections` runs do not check deadlock: their clients make finitely many calls and
then stop, and so do the codec and the walk over the sections. The others do.

In `wasm_sections`, `Base` and `Word` are 2 and 16 (128 and 2^32 in the code), `MaxGroups`
5 as in the code: with two values to a byte the sizes take several bytes. Each is written
in as few as it needs, in the most there may be, or in a number between.
A module has up to 3 sections, in any order and at most one of each type but custom; names are prefixes of one another, and bytes of names and bodies look like
continuations and like sections. In `body_buffer`, 4 bytes of memory have room for a
body of any place and length with bytes before and behind it, and a `MaxLen` of 3 lets
a buffer outgrow its capacity.

In `abi_calls`, `Word` (2^32 in the code), `Memories`, `Samples` (addresses and sizes that
cross the border), `Starts` and `Lengths` (ranges asked for of a buffer) and `MaxLen`
(bytes of a buffer or value, entries of a map). A word of 128 has the memory of 40 bytes
below half of it, that of 64 at the half and that of 80 above, as 2 GiB divides those of
the code. `MaxLenAssumption` says that an encoded map is shorter than half a word. The samples
are the smallest and the largest int32, -1, 0, 1, numbers just short of, at and beyond
the end of either memory, and one whose unsigned reading lies in the larger one only;
the accessors themselves are compared on every int32. Ranges begin before, in, at and past
the end of a buffer of up to 2 bytes, and their lengths make the sum wrap. A host call
meets no other host call, so one at a time is enough.

Symmetry is used in safety runs only, over sets whose members no definition
names.

Fairness. A step that only its own goroutine can disable gets weak fairness. A
step that needs a mutex gets strong fairness: a waiter of a `sync.Mutex` that
starves for a millisecond switches it to hand-over. In `WazeroInstance` users give
back what they have (`Unlock`, `Release`) but nobody has to call anything; without
that no `Stop` could end, since it waits for references. In `RequestFlow` the guest
comes back from each call; the code sets no timeout.

## Proofs

All theorems hold for every value of the constants that satisfies the named
assumptions of the module; neither the number of goroutines, guests, keys or ABIs
nor the bounds are fixed.

`WazeroInstanceProofs`, for any order of calls:

* `TypeCorrect`, `RefCounting` (`RefCountIsHolders`). The count follows the set of
  holders, by cardinality of a finite set with one element more or less.
* `Lifecycle` (`LifecycleInv`). `HeldIsStarted` and `CallbacksOnce` are not
  inductive: that a `Stop` tears down once depends on there having been one `Start`
  past its first step, which depends on the runtime taking the WASI module once and
  never again after it is closed (`Spent`). `OneLife` says that the goroutine inside
  `Start`, the started instance and the `Stop` that swapped `started` are each alone
  and exclude each other; `Progress` ties the callbacks made so far to the loop index
  of whichever of them is at work.
* `HeldStaysStarted`, `CallbacksAtMostOnce` follow, and `ImplementsManagedResource`:
  each step is a step of `ManagedResource` or leaves its variables alone.
* `OwnData` (`DataIsOwners`): whoever is between `Lock` and `Unlock` has the mutex, and the
  data is its own or that of a `SetData`.
* `HeldIsServed` (`HeldRuntimeIsOpen`), for ordered clients. Beside `LifecycleInv` it needs
  `Sequential`: while somebody is in `Start` nobody has called `Stop`, so that only a
  `Stop` that has passed its wait closes the runtime, when there are no references and
  there can be none any more.
* `ToldFirst` (`ToldBeforeClosed`), for ordered clients. `Told` says that a guest in place
  is being published, started or retired, so that no `Start` or `RegisterImports` that
  fails can close its runtime, and that the `Stop` that retired it closes it at the end
  of its loop. With one `Stop` called these are the same.

`WasmerInstanceProofs`, for any order of calls and any number of Starts:

* `TypeCorrect`; `Counting` (`CountInv`, inductive): references are counted as above
  and keep the instance started, `retired` is the number of `Stop`s that swapped `started`,
  and the calls of OnInstanceDestroy at a place of the list are those of the `Stop`s
  whose index has passed it.
* `ImplementsRestartableResource`: that an ABI is told at most once for each retirement
  is the least obvious step. The `Stop`s past its place are among those that swapped,
  and the one about to tell is one of these and not yet past: so they are fewer.
* `CallbacksTold` (`CallbacksInOrder`) and `CalledInOwnGuest` (`OwnGuest`), for patient
  clients, from `PatientInv`. `Alone` says that one goroutine at a time works on the list
  of contexts: a `Start` while the instance is not started, or the tail of one `Stop`.
  `LastList` then gives the callbacks that the last list has had, as far as the loop of
  whoever is at work on it, and no list after it has had any. `OneGuest` says that until
  the second publication all that is cached, and every call, is of one guest: it is
  chosen by the first `Start` that publishes, since before there are neither calls nor
  caches.

`RequestFlowProofs`, for any number of requests:

* `Flow` (`FlowInv`, inductive). `Owners`: who is in getWasmContext, in the Once or between
  `Lock` and `Unlock` is its owner, and nobody gets to the lock before the Once is done. That
  is what keeps the goroutine that creates the root context, without the lock, alone in the
  guest. `Ids`: ids count the requests that have one, so that none has the root's.
* `InstanceIsOne`, `GuestIsExclusive`, `HandlerIsOwn` follow. `RootIsFirst` needs that a
  failed request stays failed and that no deletion has the root's id;
  `RepliedLeavesNothing` that a reply comes after a deletion of the own id.

`BodyBufferProofs`, for memories and bodies of any size:

* `Buffer` (`BufferInv`, inductive): a slice over guest memory lies in it, and on wazero its
  capacity is its length. `WriteAppends` and `DrainedRest` say that append and reslicing do
  to the bytes of the buffer what they do to the sequence, in whichever array these are.
* `BufferKeeps`, `GuestMemoryIsSafe` follow.

`SharedDataProofs`, which begins with lemmas on counters that wrap: the remainder of the
successor (`ModNext`), and that two counts with the same remainder are equal or a whole
round apart (`ModGap`):

* `TypeCorrect`, `CasCorrect` (`CasInv`): the cas of an item is the count at which it
  was set, modulo the width, and what guests know is the past of the key (`Accurate`). Of
  the parts in a guest none is older than one that is written after it (`Ordered`), and
  those that a call has written so far are of its answer (`Written`): so a guest with the
  cas of an item has an address and a size that are at least as new, hence the same.
* `CasIdentifies`, `UpdatesNotLost`, `MismatchNotSpurious` follow: equal remainders
  of different counts are a round apart (`ModGap`).

`SharedQueueProofs`, with the same lemmas:

* `TypeCorrect`, `QueueCorrect` (`QueueInv`). `Numbered`: queues are numbered by
  creation and nothing knows one that was not created. `Identified`: until ids come
  round the id of a queue is its number modulo 2^32; two queues among the first 2^32
  have different ids (`IdOfQueue`, from `ModGap`), so the id of a new queue is free
  (`NewID`), and a token, which is the number of a queue of its name for ever, cannot
  come to mean another. `Addressed`: a message keeps the name of its queue from the
  look-up of its sender to the memory of its receiver. `Recent` bounds the numbers of
  messages, which the order needs.
* `MapsAgree`, `TokensTrueForever`, `DeliveredWhereSent` follow. `FirstInFirstOut`
  holds without the condition on ids: it uses pointers, not ids.
* `EachInOnePlace` (`InOnePlace`), from `OnePlace`: every message sent has one place and
  none to come has any. Each step moves one message from a place to another (`Moved`);
  that `deque` takes it away for good needs the order of the queue, in which it is the
  only one of its number.

`CodecProofs`, first for `MapCodec`, for keys and values of any length over any bytes:

* `CodecInductive` (`CodecInv`). There is an order `ks` of the keys that range took, an offset
  for each of them and the whole of the encoding, such that each entry has its sizes in the
  header and its bytes between two offsets (`Laid`), and what the decoder was given is the
  beginning of it (`Read`), with anything behind it. `Block` says what an iteration of `EncodeMap` appends;
  `AtEntry` that an iteration of `DecodeMap` begins at the offset of its entry, which
  makes a slice the string that was encoded (`SliceIs`).
* `DecodedWasEncoded` (`NothingInvented`) and `LostToTheKeySize` (`OnlyShortValuesLost`)
  follow, with `TypeCorrect`: when the bytes are all there each slice is inside, so a
  loop that breaks does it at the wrong check, and there only the key was too long. When
  they are not, a value that passes the end is the last one decoded, since the cursor is
  then past the end too, and the next check fails.

Then for `WasmSections`, for any number of sections with any contents, and any bits to a
byte of LEB128:

* Induction. The library's theorems about it take operators, which the provers cannot
  instantiate, so it is proved anew for sets: if 0 is in a set, and with a number its
  successor, no number is outside, since the numbers of the set below it would be mapped
  one to one to themselves without 0 (`Induction`, from `FS_Injection`; `InductionUpTo`,
  `LeastNumber`). From this follows that a function defined from one number to the next
  exists (`Recursion`), and so what the recursive functions of the model are at each
  place (`ShiftedOnce`, `UpToOnce`).
* What is written is read. `Holds` says that bytes lie in other bytes from an offset
  on (`Joined`, `Within`, `Cut`). `LengthRead` and `NumberRead`: readULEB128 of the bytes
  of a number returns their count and the number, by induction on its groups.
  `CustomContents`, `SectionParts`, `SectionPlace` say where the parts of a section and
  the sections of a module lie; `SectionRead` and `CustomRead` that the walk, once at a
  section, finds its type, size, name and data, and is at the next one afterwards.
* `WalkTypeCorrect` (`WSTypeOK`), `AllFoundAsWritten` (`FoundAsWritten`) and
  `AllWalkedToTheEnd` (`WalkedToTheEnd`), from `WalkInv`: between two sections the walk is
  at the end of the k-th for some k, and what it has found is what the first k have
  (`Found`). That the offset of the code stays takes one code section at the most.

The assumptions are those of the format: a size is below `Word` and is written in no more
than `MaxGroups` bytes, in as many as the compiler likes (`Fits`); a section other than a
custom one has contents, at least a count, and there is one of code at the most
(`ModulesAssumption`); a text is not empty and does not begin with the first byte of a
module (`TextsAssumption`), however short it is. NewModule
walks over modules that the engine has compiled, so that these hold.

`AbiCallsProofs`, for memories of any size in an address space (`Word`) of any even size
above 8, any int32 number that a guest passes, and values and maps of any length that fit
(`MaxLenAssumption`):

* `EnginesAgree` (`AccessorsAgree`), from the arithmetic of a number read as int32 and as
  uint32 (`Signed`, `Unsigned`). A memory is fixed when a host call runs (`SameMemory`).
* `TypeCorrect` (`TypeOK`), from `Typed`. That a host call knows its next step is not a
  matter of type: `Placed` says that the step at `at` is one of the row of the call, and
  `HostMoves` that each step of the host moves on by one or refuses with its own code.
* The tables. `CallsV1`, `CallsV2` go through every host call of either ABI once and show
  what the other proofs need of its row (`Fits`): the host first asks and checks, then
  acts, then answers (`InOrder`); it allocates before it writes, and a block is as
  large as what is put into it (`Measured`); every parameter of the answer is written by
  some step (`Written`). `ExportShapes` does the same for the exports.
* `ResultTrusted` (`ResultTellsEffect`), from `EffectInv`: the host has acted exactly if
  a step that acts lies behind the one it is at.
* `AnswersWhole` (`AnswerWhole`), from `AnswerInv`: the steps behind have given what they
  write, and nothing was given before them (`Gave`). Maps need the size that malloc was
  asked for (`Mapped`): their count and entries are written one behind the other and
  all fit, if malloc gave a block that lies in memory (`PairsFit`).
* `RangesAsAsked` (`BufferAsAsked`), from `BufferInv`: between the range and the end of the
  call the numbers stay those of the range (`Ranged`), where the int32 sum of start and
  length may wrap.
* `SoundServed` (`SoundIsServed`), from `SoundInv` and `AnswerInv`: the block that malloc
  gave lies in memory (`Allocated`), what is put there is not more than there is of it
  (`Sized`), and a range lies inside of the buffer it is cut from (`Cut`). `SoundStep`
  then goes through the ways in which a step can refuse.

Only model-checked: liveness (`StopEnds`, `RequestsEnd`), which is out of the prover's
reach, and `ReturnsThoseOfGuest` and `RoundTrip`, which the code does not keep.

## Plan

In place: the modules above, with the proofs named. To come: a client of
`WazeroInstance` that acquires inside `Lock .. Unlock`, and so blocks itself.

## Not modelled

* Logging and formatting, and what only they use: the look-up of source lines in
  `wasmer/debug.go` (`SeekPC`, `getLineReader`), which `debug/dwarf` does and
  `HandleError` prints. Its reader is shared by the instances of a module without a lock.
* `CommonHeader`, a Go map and its methods.
* The contents of values in host calls, except where they decide what happens next; the
  stores of the default handler and the buffer have modules of their own.
* Two bodies at a time: `BodyBuffer` has one buffer. On wasmer, where append writes in place
  behind a body, two whose bytes are adjacent can overwrite each other; the model shows it
  for the guest's own bytes (see `GuestMemoryIsGuests`).
* On wasmer, slices of guest memory that outlive a growth of it: whether they then show
  the new memory, the old one or freed pages is up to the engine.
* `copyMapIntoInstance` of v2, which nothing calls; declarations without behaviour
  (interfaces, result codes).
* The compilers and interpreters behind the engines; the ABI implementations behind
  `abi.GetABIList` (another repository); the tests and benchmarks.
* A goroutine that acquires or releases between its own `Lock` and `Unlock`: it waits
  for itself.
