---------------------------- MODULE WasmerInstance ----------------------------
(* The lifecycle of wasmer.Instance (wasmer/instance.go): the goroutines that    *)
(* start, use and stop it, the wasmer instances that each Start makes, and what  *)
(* the Instance keeps of them from one Start to the next.                        *)
(*                                                                               *)
(* A method body that runs under i.lock and neither calls out nor waits is one   *)
(* action, and so is a look-up in a cache; Start, the tail of Stop and a user    *)
(* between Lock and Unlock are split at each access to shared state. The guests  *)
(* are numbered in the order in which Start makes them, and so are the lists of  *)
(* ABI contexts.                                                                 *)
EXTENDS Integers, FiniteSets

CONSTANTS Users,       \* goroutines that Acquire/Release and Lock/Unlock
          Starters,    \* goroutines that call RegisterImports and Start
          Stoppers,    \* the goroutines spawned by the calls of Stop
          Known,       \* the names of the ABIs that RegisterImports knows
          NumABIs,     \* the length of what abi.GetABIList(i) returns
          MaxAcquire,  \* bound: successful calls of Acquire per user
          MaxStarts,   \* bound: calls of Start
          NoOwner,     \* the lock is free, or i.data is nil
          Preset       \* the data that SetData sets: that of no call of Lock

ASSUME UsersAssumption ==
  IsFiniteSet(Users) /\ NoOwner \notin Users /\ Preset \notin Users \cup {NoOwner}
ASSUME StoppersAssumption == IsFiniteSet(Stoppers)
ASSUME NumABIsAssumption == NumABIs \in Nat
ASSUME MaxAcquireAssumption == MaxAcquire \in Nat
ASSUME MaxStartsAssumption == MaxStarts \in Nat

ABIs == 1..NumABIs
Numbers == 0..MaxStarts   \* of guests and of lists; 0 is nil

VARIABLES
  patient,     \* the client waits for what it called, and for each Stop to end
  imports,     \* the ABIs whose functions are in i.importObject
  abiList,     \* i.abiList, each Start making one
  guest,       \* i.instance
  started,     \* i.started
  refCount,    \* i.refCount
  waiting,     \* the stoppers parked in i.stopCond.Wait()
  lock,        \* the user inside Lock .. Unlock, or NoOwner
  data,        \* i.data: the user whose data Lock has set, Preset or NoOwner
  funcCache,   \* i.funcCache: the guest from which a function was taken
  memory,      \* i.memory: the guest whose memory it is
  upc, holds, left, fun, seen,    \* users: place, holds a reference, Acquires left;
                                  \* of the call: the guest that runs, and those
                                  \* whose memory or malloc its host calls used
  spc, sidx, slist,               \* starters: place, index in the list that is
                                  \* ranged over, that list
  tpc, tidx, tlist,               \* stoppers: place, index, list
  published, retired,             \* how often started was set, and swapped back
  created, onStart, destroyed,    \* calls each ABI of each list has got (history)
  told                            \* calls of OnInstanceDestroy by place in the list

fields == <<imports, abiList, guest, started>>
counting == <<refCount, waiting>>
owning == <<lock, data>>
caches == <<funcCache, memory>>
user == <<upc, holds, left, fun, seen>>
starter == <<spc, sidx, slist>>
stopper == <<tpc, tidx, tlist>>
lives == <<published, retired>>
history == <<lives, created, onStart, destroyed, told>>
vars == <<patient, fields, counting, owning, caches, user, starter, stopper, history>>

-------------------------------------------------------------------------------
\* NewWasmerInstance: an import object without host functions.
Init ==
  /\ patient \in BOOLEAN
  /\ imports = {} /\ abiList = 0 /\ guest = 0 /\ started = 0
  /\ refCount = 0 /\ waiting = {}
  /\ lock = NoOwner /\ data = NoOwner
  /\ funcCache = [f \in {"export", "malloc"} |-> 0] /\ memory = 0
  /\ upc = [u \in Users |-> "idle"]
  /\ holds = [u \in Users |-> FALSE]
  /\ left = [u \in Users |-> MaxAcquire]
  /\ fun = [u \in Users |-> 0]
  /\ seen = [u \in Users |-> {}]
  /\ spc = [s \in Starters |-> "idle"]
  /\ sidx = [s \in Starters |-> 1]
  /\ slist = [s \in Starters |-> 0]
  /\ tpc = [p \in Stoppers |-> "idle"]
  /\ tidx = [p \in Stoppers |-> 1]
  /\ tlist = [p \in Stoppers |-> 0]
  /\ published = 0 /\ retired = 0
  /\ created = [g \in Numbers |-> [k \in ABIs |-> 0]]
  /\ onStart = [g \in Numbers |-> [k \in ABIs |-> 0]]
  /\ destroyed = [g \in Numbers |-> [k \in ABIs |-> 0]]
  /\ told = [k \in ABIs |-> 0]

checkStart == started = 1

-------------------------------------------------------------------------------
(* What the Instance keeps of its guest                                          *)

\* What is cached is used for ever. The mutant stays with the first guest of all.
Cached_First(number) == IF number = 0 THEN 1 ELSE number
Cached(number) == IF number = 0 THEN guest ELSE number

\* GetExportsFunc of a started instance
LookUp(f) == funcCache' = [funcCache EXCEPT ![f] = Cached(@)] /\ UNCHANGED memory

\* GetExportsMem of a started instance
LookUpMem == memory' = Cached(memory) /\ UNCHANGED funcCache

-------------------------------------------------------------------------------
(* Users                                                                         *)

\* Mutant of Acquire: does not look whether the instance has started.
Acquire_Unchecked(u) ==
  /\ upc[u] = "idle" /\ ~holds[u] /\ left[u] > 0
  /\ lock = NoOwner
  /\ refCount' = refCount + 1
  /\ holds' = [holds EXCEPT ![u] = TRUE]
  /\ left' = [left EXCEPT ![u] = @ - 1]
  /\ UNCHANGED <<patient, fields, waiting, owning, caches, upc, fun, seen, starter,
                 stopper, history>>

\* Acquire: refuses unless the instance has started.
Acquire(u) ==
  /\ upc[u] = "idle" /\ ~holds[u] /\ left[u] > 0
  /\ lock = NoOwner
  /\ checkStart
  /\ refCount' = refCount + 1
  /\ holds' = [holds EXCEPT ![u] = TRUE]
  /\ left' = [left EXCEPT ![u] = @ - 1]
  /\ UNCHANGED <<patient, fields, waiting, owning, caches, upc, fun, seen, starter,
                 stopper, history>>

\* Release: the last reference wakes every parked Stop.
Release(u) ==
  /\ upc[u] = "idle" /\ holds[u]
  /\ lock = NoOwner
  /\ refCount' = refCount - 1
  /\ waiting' = IF refCount - 1 <= 0 THEN {} ELSE waiting
  /\ holds' = [holds EXCEPT ![u] = FALSE]
  /\ UNCHANGED <<patient, fields, owning, caches, upc, left, fun, seen, starter,
                 stopper, history>>

\* Lock(data): needs neither a reference nor a started instance.
Lock(u) ==
  /\ upc[u] = "idle"
  /\ lock = NoOwner
  /\ lock' = u
  /\ data' = u
  /\ upc' = [upc EXCEPT ![u] = "locked"]
  /\ UNCHANGED <<patient, fields, counting, caches, holds, left, fun, seen, starter,
                 stopper, history>>

\* GetExportsFunc, and the call of the guest begins. It refuses before the start.
GetExportsFunc(u) ==
  /\ upc[u] = "locked"
  /\ checkStart
  /\ LookUp("export")
  /\ fun' = [fun EXCEPT ![u] = funcCache'["export"]]
  /\ upc' = [upc EXCEPT ![u] = "calling"]
  /\ UNCHANGED <<patient, fields, counting, owning, holds, left, seen, starter,
                 stopper, history>>

\* A host call of the guest reads or writes guest memory: GetMemory, PutMemory,
\* GetByte, PutByte, GetUint32, PutUint32 all go through GetExportsMem.
GetExportsMem(u) ==
  /\ upc[u] = "calling"
  /\ checkStart
  /\ LookUpMem
  /\ seen' = [seen EXCEPT ![u] = @ \cup {memory'}]
  /\ UNCHANGED <<patient, fields, counting, owning, upc, holds, left, fun, starter,
                 stopper, history>>

\* A host call answers in memory that it gets from the guest's malloc.
Malloc(u) ==
  /\ upc[u] = "calling"
  /\ checkStart
  /\ LookUp("malloc")
  /\ seen' = [seen EXCEPT ![u] = @ \cup {funcCache'["malloc"]}]
  /\ UNCHANGED <<patient, fields, counting, owning, upc, holds, left, fun, starter,
                 stopper, history>>

\* Unlock, after the call has returned or without one.
Unlock(u) ==
  /\ upc[u] \in {"locked", "calling"}
  /\ data' = NoOwner
  /\ lock' = NoOwner
  /\ upc' = [upc EXCEPT ![u] = "idle"]
  /\ fun' = [fun EXCEPT ![u] = 0]
  /\ seen' = [seen EXCEPT ![u] = {}]
  /\ UNCHANGED <<patient, fields, counting, caches, holds, left, starter, stopper,
                 history>>

\* SetData(data): whoever calls it, it does not take the lock.
SetData ==
  /\ data' = Preset
  /\ UNCHANGED <<patient, fields, counting, lock, caches, user, starter, stopper,
                 history>>

-------------------------------------------------------------------------------
(* Starters                                                                      *)

Return(s) == /\ spc' = [spc EXCEPT ![s] = "idle"]
             /\ sidx' = [sidx EXCEPT ![s] = 1]
             /\ slist' = [slist EXCEPT ![s] = 0]

Goto(s, place) == spc' = [spc EXCEPT ![s] = place] /\ UNCHANGED <<sidx, slist>>

\* A patient client calls one method after the other, and Start again only after
\* every Stop has ended, which no method tells it.
Quiet == \A s \in Starters : spc[s] = "idle"
Ended == \A p \in Stoppers : tpc[p] \in {"idle", "done", "told"}
MayRegister == patient => Quiet
MayStart == abiList < MaxStarts /\ (patient => Quiet /\ Ended /\ started = 0)
MayStop == patient => Quiet

\* Called for each function of the ABI: its checks hold for every one.
registerFunc(abiName) == imports' = imports \cup {abiName}

\* Refused once the instance has started, and for an ABI that is not known.
RegisterImports(s, abiName) ==
  /\ spc[s] = "idle" /\ MayRegister
  /\ ~checkStart
  /\ registerFunc(abiName)
  /\ UNCHANGED <<patient, abiList, guest, started, counting, owning, caches, user,
                 starter, stopper, history>>

\* Start: takes no lock, does not look at started, and makes a list of new contexts.
Start(s) ==
  /\ spc[s] = "idle" /\ MayStart
  /\ abiList' = abiList + 1
  /\ Goto(s, "abiList")
  /\ UNCHANGED <<patient, imports, guest, started, counting, owning, caches, user,
                 stopper, history>>

\* for _, abi := range i.abiList: the list is read when the loop begins.
StartRange(s, place, loop) ==
  /\ spc[s] = place
  /\ slist' = [slist EXCEPT ![s] = abiList]
  /\ sidx' = [sidx EXCEPT ![s] = 1]
  /\ spc' = [spc EXCEPT ![s] = loop]
  /\ UNCHANGED <<patient, fields, counting, owning, caches, user, stopper,
                 history>>

StartCreate(s) ==
  /\ spc[s] = "create" /\ sidx[s] <= NumABIs
  /\ created' = [created EXCEPT ![slist[s]][sidx[s]] = @ + 1]
  /\ sidx' = [sidx EXCEPT ![s] = @ + 1]
  /\ UNCHANGED <<patient, fields, counting, owning, caches, user, spc, slist,
                 stopper, lives, onStart, destroyed, told>>

\* wasmerGo.NewInstance: fails for any reason that the binary gives, and for want
\* of the host functions that a proxy-wasm guest imports.
CanInstantiate == imports # {}
StartGuest(s) ==
  /\ spc[s] = "create" /\ sidx[s] > NumABIs
  /\ \/ CanInstantiate /\ guest' = guest + 1 /\ Goto(s, "_start")
     \/ UNCHANGED guest /\ Return(s)
  /\ UNCHANGED <<patient, imports, abiList, started, counting, owning, caches, user,
                 stopper, history>>

\* Host calls that the guest makes in _start are refused, unless another Start has
\* set started meanwhile.
StartHostCall(s) ==
  /\ spc[s] = "_start"
  /\ checkStart
  /\ LookUpMem \/ LookUp("malloc")
  /\ UNCHANGED <<patient, fields, counting, owning, user, starter, stopper, history>>

\* _start is found and returns, or not.
StartRun(s) ==
  /\ spc[s] = "_start"
  /\ Goto(s, "started") \/ Return(s)
  /\ UNCHANGED <<patient, fields, counting, owning, caches, user, stopper,
                 history>>

StartCallback(s) ==
  /\ spc[s] = "onStart" /\ sidx[s] <= NumABIs
  /\ onStart' = [onStart EXCEPT ![slist[s]][sidx[s]] = @ + 1]
  /\ sidx' = [sidx EXCEPT ![s] = @ + 1]
  /\ UNCHANGED <<patient, fields, counting, owning, caches, user, spc, slist,
                 stopper, lives, created, destroyed, told>>

\* atomic.StoreUint32(&i.started, 1)
StartPublish(s) ==
  /\ spc[s] = "onStart" /\ sidx[s] > NumABIs
  /\ started' = 1
  /\ published' = published + 1
  /\ Return(s)
  /\ UNCHANGED <<patient, imports, abiList, guest, counting, owning, caches, user,
                 stopper, retired, created, onStart, destroyed, told>>

-------------------------------------------------------------------------------
(* Stop                                                                          *)

\* Stop is called: its body runs in a goroutine of its own.
Stop(p) ==
  /\ tpc[p] = "idle" /\ MayStop
  /\ tpc' = [tpc EXCEPT ![p] = "stopping"]
  /\ UNCHANGED <<patient, fields, counting, owning, caches, user, starter, tidx, tlist,
                 history>>

\* The condition Stop waits on. The mutant never waits.
References_Ignored == FALSE
References == refCount > 0

StopWait(p) ==
  /\ tpc[p] = "stopping" /\ p \notin waiting
  /\ lock = NoOwner
  /\ References
  /\ waiting' = waiting \cup {p}
  /\ UNCHANGED <<patient, fields, refCount, owning, caches, user, starter, stopper,
                 history>>

\* Where Stop goes once it knows whether it swapped started. The mutant ignores it.
AfterSwap_Ignored(won) == "swapped"
AfterSwap(won) == IF won THEN "swapped" ELSE "done"

\* CompareAndSwapUint32(&i.started, 1, 0), still under the lock
StopSwap(p) ==
  /\ tpc[p] = "stopping" /\ p \notin waiting
  /\ lock = NoOwner
  /\ ~References
  /\ started' = 0
  /\ retired' = retired + started
  /\ tpc' = [tpc EXCEPT ![p] = AfterSwap(checkStart)]
  /\ UNCHANGED <<patient, imports, abiList, guest, counting, owning, caches, user,
                 starter, tidx, tlist, published, created, onStart, destroyed, told>>

\* The list is read after the lock is released; nothing of the guest is closed.
StopRange(p) ==
  /\ tpc[p] = "swapped"
  /\ tlist' = [tlist EXCEPT ![p] = abiList]
  /\ tpc' = [tpc EXCEPT ![p] = "destroy"]
  /\ UNCHANGED <<patient, fields, counting, owning, caches, user, starter, tidx, history>>

StopDestroy(p) ==
  /\ tpc[p] = "destroy"
  /\ IF tidx[p] <= NumABIs
       THEN /\ destroyed' = [destroyed EXCEPT ![tlist[p]][tidx[p]] = @ + 1]
            /\ told' = [told EXCEPT ![tidx[p]] = @ + 1]
            /\ tidx' = [tidx EXCEPT ![p] = @ + 1]
            /\ UNCHANGED tpc
       ELSE /\ tpc' = [tpc EXCEPT ![p] = "told"]
            /\ UNCHANGED <<destroyed, told, tidx>>
  /\ UNCHANGED <<patient, fields, counting, owning, caches, user, starter, tlist,
                 lives, created, onStart>>

-------------------------------------------------------------------------------
UserStep(u) == \/ Acquire(u) \/ Release(u) \/ Lock(u) \/ GetExportsFunc(u)
               \/ GetExportsMem(u) \/ Malloc(u) \/ Unlock(u)

StarterStep(s) == \/ \E abiName \in Known : RegisterImports(s, abiName)
                  \/ Start(s) \/ StartRange(s, "abiList", "create") \/ StartCreate(s)
                  \/ StartGuest(s) \/ StartHostCall(s) \/ StartRun(s)
                  \/ StartRange(s, "started", "onStart") \/ StartCallback(s)
                  \/ StartPublish(s)

StopperStep(p) == \/ Stop(p) \/ StopWait(p) \/ StopSwap(p)
                  \/ StopRange(p) \/ StopDestroy(p)

Next == \/ \E u \in Users : UserStep(u)
        \/ SetData
        \/ \E s \in Starters : StarterStep(s)
        \/ \E p \in Stoppers : StopperStep(p)

Spec == Init /\ [][Next]_vars

-------------------------------------------------------------------------------
(* Properties                                                                    *)

Calls == [Numbers -> [ABIs -> Nat]]

FieldsOK ==
  /\ imports \subseteq Known
  /\ abiList \in Numbers /\ guest \in Nat /\ started \in {0, 1}
  /\ refCount \in Int /\ waiting \subseteq Stoppers
  /\ lock \in Users \cup {NoOwner} /\ data \in {lock, Preset}
  /\ funcCache \in [{"export", "malloc"} -> 0..guest] /\ memory \in 0..guest

UsersOK ==
  /\ upc \in [Users -> {"idle", "locked", "calling"}]
  /\ holds \in [Users -> BOOLEAN]
  /\ left \in [Users -> 0..MaxAcquire]
  /\ fun \in [Users -> 0..guest]
  /\ seen \in [Users -> SUBSET (0..guest)]

StartersOK ==
  /\ spc \in [Starters -> {"idle", "abiList", "create", "_start", "started", "onStart"}]
  /\ sidx \in [Starters -> 1..(NumABIs + 1)]
  /\ slist \in [Starters -> Numbers]

StoppersOK ==
  /\ tpc \in [Stoppers -> {"idle", "stopping", "swapped", "destroy", "told", "done"}]
  /\ tidx \in [Stoppers -> 1..(NumABIs + 1)]
  /\ tlist \in [Stoppers -> Numbers]

HistoryOK ==
  /\ published \in Nat /\ retired \in Nat
  /\ created \in Calls /\ onStart \in Calls /\ destroyed \in Calls
  /\ told \in [ABIs -> Nat]

\* Every variable stays within its values: the data of the instance is that of the
\* goroutine inside Lock .. Unlock unless SetData has put other data there, nothing is
\* kept of a guest that was never made, and no loop leaves its list.
TypeOK == /\ patient \in BOOLEAN /\ FieldsOK
          /\ UsersOK /\ StartersOK /\ StoppersOK /\ HistoryOK

\* For a client that waits for each Stop to end: every ABI context that a Start has
\* made is told of its creation, of the start and of its destruction at most once,
\* in that order, and a started instance is one whose contexts know of the start.
CallbacksInOrder ==
  patient =>
    /\ \A g \in Numbers, k \in ABIs : /\ destroyed[g][k] <= onStart[g][k]
                                      /\ onStart[g][k] <= created[g][k]
                                      /\ created[g][k] <= 1
    /\ started = 1 => \A k \in ABIs : onStart[abiList][k] = 1 /\ destroyed[abiList][k] = 0

\* Until the first restart of such a client, whatever Starts have failed before: the
\* host answers a call of the guest in the memory of that guest, with its malloc,
\* and for a user that holds a reference it is the guest that is started.
OwnGuest ==
  (patient /\ published <= 1) =>
    \A u \in Users : upc[u] = "calling" => /\ seen[u] \subseteq {fun[u]}
                                           /\ holds[u] => fun[u] = guest

\* GetExportsFunc and GetExportsMem return those of the wasm instance (the comments
\* on WasmInstance): the ones that a started instance gives are of its guest.
ReturnsThoseOfGuest ==
  [][\A u \in Users :
       /\ patient /\ fun'[u] # fun[u] => fun'[u] \in {0, guest}
       /\ patient /\ seen'[u] # seen[u] => seen'[u] \subseteq {guest}]_vars

\* The instance implements a resource that can be started again, in whatever order
\* its methods are called.
Holders == {u \in Users : holds[u]}

Resource == INSTANCE RestartableResource
              WITH live <- (started = 1), holders <- Holders

IsRestartableResource == Resource!RSpec
===============================================================================
