---------------------------- MODULE WazeroInstance ----------------------------
(* The lifecycle of wazero.Instance (wazero/instance.go): one instance, its      *)
(* wazero runtime and the goroutines that start, use and stop it.                *)
(*                                                                               *)
(* A method body that runs under i.lock and neither calls out nor waits is one   *)
(* action; everything else (Start, RegisterImports, the tail of Stop, a user     *)
(* between Lock and Unlock) is split at each access to shared state.             *)
EXTENDS Integers, FiniteSets

CONSTANTS Users,       \* goroutines that Acquire/Release and Lock/Unlock
          Starters,    \* goroutines that call RegisterImports and Start
          Stoppers,    \* the goroutines spawned by the calls of Stop
          NumABIs,     \* the length of what abi.GetABIList(i) returns
          MaxAcquire,  \* bound: successful calls of Acquire per user
          Ordered,     \* TRUE: clients call Start once and Stop only after it
          NoOwner,     \* the lock is free, or i.data is nil
          Preset       \* the data that SetData sets: that of no call of Lock

ASSUME UsersAssumption ==
  IsFiniteSet(Users) /\ NoOwner \notin Users /\ Preset \notin Users \cup {NoOwner}
ASSUME StoppersAssumption == IsFiniteSet(Stoppers)
ASSUME NumABIsAssumption == NumABIs \in Nat
ASSUME MaxAcquireAssumption == MaxAcquire \in Nat
ASSUME OrderedAssumption == Ordered \in BOOLEAN

ABIs == 1..NumABIs

\* The modules that Start and RegisterImports instantiate under a name: a second
\* instantiation under the same name fails.
HostModules == {"wasi_snapshot_preview1", "wasi_unstable", "env"}

VARIABLES
  runtimeOpen, \* i.runtime has not been closed
  modules,     \* names of the host modules instantiated in i.runtime
  abis,        \* len(i.abiList)
  guest,       \* i.instance # nil
  started,     \* i.started
  refCount,    \* i.refCount
  lock,        \* the user inside Lock .. Unlock, or NoOwner
  data,        \* i.data: the user whose data Lock has set, Preset or NoOwner
  waiting,     \* the stoppers parked in i.stopCond.Wait()
  upc, holds, left, res,      \* users: place, holds a reference, Acquires left,
                              \* result of the last call of the guest
  spc, sidx, ret, begun,      \* starters: place, index in the abi loops, result
                              \* of the last call; Start has been called
  tpc, tidx, swapped,         \* stoppers: place, index in the loop, CAS result
  created, onStart, destroyed \* calls each ABI has got so far (history)

fields == <<runtimeOpen, modules, abis, guest, started>>
counting == <<refCount, waiting>>
owning == <<lock, data>>
user == <<upc, holds, left, res>>
starter == <<spc, sidx, ret, begun>>
stopper == <<tpc, tidx, swapped>>
callbacks == <<created, onStart, destroyed>>
vars == <<fields, counting, owning, user, starter, stopper, callbacks>>

-------------------------------------------------------------------------------
\* NewInstance: an open runtime in which nothing has been instantiated yet.
Init ==
  /\ runtimeOpen = TRUE
  /\ modules = {}
  /\ abis = 0
  /\ guest = FALSE
  /\ started = 0
  /\ refCount = 0
  /\ lock = NoOwner
  /\ data = NoOwner
  /\ waiting = {}
  /\ upc = [u \in Users |-> "idle"]
  /\ holds = [u \in Users |-> FALSE]
  /\ left = [u \in Users |-> MaxAcquire]
  /\ res = [u \in Users |-> "none"]
  /\ spc = [s \in Starters |-> "idle"]
  /\ sidx = [s \in Starters |-> 1]
  /\ ret = [s \in Starters |-> "none"]
  /\ begun = FALSE
  /\ tpc = [p \in Stoppers |-> "idle"]
  /\ tidx = [p \in Stoppers |-> 1]
  /\ swapped = [p \in Stoppers |-> FALSE]
  /\ created = [k \in ABIs |-> 0]
  /\ onStart = [k \in ABIs |-> 0]
  /\ destroyed = [k \in ABIs |-> 0]

checkStart == started = 1

-------------------------------------------------------------------------------
(* Users                                                                         *)

\* Mutant of Acquire: counts the reference, then finds that it must refuse.
Acquire_CountsFirst(u) ==
  /\ upc[u] = "idle" /\ ~holds[u] /\ left[u] > 0
  /\ lock = NoOwner
  /\ refCount' = refCount + 1
  /\ holds' = [holds EXCEPT ![u] = checkStart]
  /\ left' = [left EXCEPT ![u] = @ - 1]
  /\ UNCHANGED <<fields, waiting, owning, upc, res, starter, stopper, callbacks>>

\* Acquire: refuses unless the instance has started.
Acquire(u) ==
  /\ upc[u] = "idle" /\ ~holds[u] /\ left[u] > 0
  /\ lock = NoOwner
  /\ checkStart
  /\ refCount' = refCount + 1
  /\ holds' = [holds EXCEPT ![u] = TRUE]
  /\ left' = [left EXCEPT ![u] = @ - 1]
  /\ UNCHANGED <<fields, waiting, owning, upc, res, starter, stopper, callbacks>>

\* i.stopCond.Broadcast() when the count reaches zero. In the mutant the test is
\* off by one, so the last Release wakes nobody.
Woken_BelowZero == IF refCount - 1 < 0 THEN {} ELSE waiting
Woken == IF refCount - 1 <= 0 THEN {} ELSE waiting

\* Release: the last reference wakes every parked Stop.
Release(u) ==
  /\ upc[u] = "idle" /\ holds[u]
  /\ lock = NoOwner
  /\ refCount' = refCount - 1
  /\ waiting' = Woken
  /\ holds' = [holds EXCEPT ![u] = FALSE]
  /\ UNCHANGED <<fields, owning, upc, left, res, starter, stopper, callbacks>>

\* Mutant of Lock: the data is set without the mutex.
Lock_NoMutex(u) ==
  /\ upc[u] = "idle"
  /\ lock' = u
  /\ data' = u
  /\ upc' = [upc EXCEPT ![u] = "locked"]
  /\ UNCHANGED <<fields, counting, holds, left, res, starter, stopper, callbacks>>

\* Lock(data): needs neither a reference nor a started instance.
Lock(u) ==
  /\ upc[u] = "idle"
  /\ lock = NoOwner
  /\ lock' = u
  /\ data' = u
  /\ upc' = [upc EXCEPT ![u] = "locked"]
  /\ UNCHANGED <<fields, counting, holds, left, res, starter, stopper, callbacks>>

\* GetExportsFunc: looks the function up if the instance has started.
GetExportsFunc(u) ==
  /\ upc[u] = "locked"
  /\ IF checkStart
       THEN upc' = [upc EXCEPT ![u] = "calling"] /\ UNCHANGED res
       ELSE upc' = [upc EXCEPT ![u] = "called"]
            /\ res' = [res EXCEPT ![u] = "notStarted"]
  /\ UNCHANGED <<fields, counting, owning, holds, left, starter, stopper, callbacks>>

\* wasmFunction.Call: the guest runs, or fails because its runtime is closed.
Call(u) ==
  /\ upc[u] = "calling"
  /\ upc' = [upc EXCEPT ![u] = "called"]
  /\ res' = [res EXCEPT ![u] = IF runtimeOpen THEN "ok" ELSE "closed"]
  /\ UNCHANGED <<fields, counting, owning, holds, left, starter, stopper, callbacks>>

Unlock(u) ==
  /\ upc[u] \in {"locked", "called"}
  /\ data' = NoOwner
  /\ lock' = NoOwner
  /\ upc' = [upc EXCEPT ![u] = "idle"]
  /\ res' = [res EXCEPT ![u] = "none"]
  /\ UNCHANGED <<fields, counting, holds, left, starter, stopper, callbacks>>

\* SetData(data): whoever calls it, it does not take the lock.
SetData ==
  /\ data' = Preset
  /\ UNCHANGED <<fields, counting, lock, user, starter, stopper, callbacks>>

-------------------------------------------------------------------------------
(* Starters. A call ends in Return(s, r), which leaves the goroutine free to make*)
(* another one.                                                                  *)

Return(s, r) == /\ spc' = [spc EXCEPT ![s] = "idle"]
                /\ ret' = [ret EXCEPT ![s] = r]

Goto(s, place) == spc' = [spc EXCEPT ![s] = place] /\ UNCHANGED ret

\* Runtime.Close: closes every module; a second call changes nothing.
CloseRuntime == runtimeOpen' = FALSE /\ modules' = {}

\* Runtime.InstantiateModule under a name, which fails when the runtime is closed
\* or the name is taken.
CanInstantiate(name) == runtimeOpen /\ name \notin modules

\* Clients that keep to the order of the tests and the example make the calls of
\* RegisterImports, Start and Stop one after the other, and Start only once.
Quiet == \A s \in Starters : spc[s] = "idle"
MayRegister == Ordered => (Quiet /\ \A p \in Stoppers : tpc[p] = "idle")
MayStart == Ordered => (Quiet /\ ~begun)
MayStop == Ordered => (Quiet /\ begun)

\* RegisterImports(abiName), the checks that come before anything is instantiated.
RegisterImports(s, abiName) ==
  /\ spc[s] = "idle" /\ MayRegister
  /\ CASE checkStart -> Return(s, "err")
       [] ~checkStart /\ abiName = "v1" -> Goto(s, "wasi_unstable")
       [] ~checkStart /\ abiName = "v2" -> Goto(s, "env")
       [] ~checkStart /\ abiName = "unknown" -> Return(s, "err")
  /\ UNCHANGED <<fields, counting, owning, user, sidx, begun, stopper, callbacks>>

\* RegisterImports for ABI v1: WASI under its unstable name, or close and panic.
RegisterUnstable(s) ==
  /\ spc[s] = "wasi_unstable"
  /\ IF CanInstantiate("wasi_unstable")
       THEN /\ modules' = modules \cup {"wasi_unstable"}
            /\ UNCHANGED runtimeOpen
            /\ Goto(s, "env")
       ELSE CloseRuntime /\ Return(s, "panic")
  /\ UNCHANGED <<abis, guest, started, counting, owning, user, sidx, begun,
                 stopper, callbacks>>

\* RegisterImports, the module "env" of the host functions.
RegisterEnv(s) ==
  /\ spc[s] = "env"
  /\ modules' = IF CanInstantiate("env") THEN modules \cup {"env"} ELSE modules
  /\ Return(s, IF CanInstantiate("env") THEN "ok" ELSE "err")
  /\ UNCHANGED <<runtimeOpen, abis, guest, started, counting, owning, user, sidx,
                 begun, stopper, callbacks>>

\* for _, abi := range i.abiList: is there a k-th element.
More(k) == k <= abis

\* Start is called: it does not take the lock and does not look at started.
Start(s) ==
  /\ spc[s] = "idle" /\ MayStart
  /\ begun' = TRUE
  /\ Goto(s, "wasi")
  /\ UNCHANGED <<fields, counting, owning, user, sidx, stopper, callbacks>>

\* Start instantiates WASI, or closes the runtime and panics.
StartWasi(s) ==
  /\ spc[s] = "wasi"
  /\ IF CanInstantiate("wasi_snapshot_preview1")
       THEN /\ modules' = modules \cup {"wasi_snapshot_preview1"}
            /\ UNCHANGED runtimeOpen
            /\ Goto(s, "abiList")
       ELSE CloseRuntime /\ Return(s, "panic")
  /\ UNCHANGED <<abis, guest, started, counting, owning, user, sidx, begun,
                 stopper, callbacks>>

\* Start: i.abiList = abi.GetABIList(i)
StartABIList(s) ==
  /\ spc[s] = "abiList"
  /\ abis' = NumABIs
  /\ sidx' = [sidx EXCEPT ![s] = 1]
  /\ Goto(s, "create")
  /\ UNCHANGED <<runtimeOpen, modules, guest, started, counting, owning, user,
                 begun, stopper, callbacks>>

\* Start: abi.OnInstanceCreate for each ABI
StartCreate(s) ==
  /\ spc[s] = "create" /\ More(sidx[s])
  /\ created' = [created EXCEPT ![sidx[s]] = @ + 1]
  /\ sidx' = [sidx EXCEPT ![s] = @ + 1]
  /\ UNCHANGED <<fields, counting, owning, user, spc, ret, begun, stopper,
                 onStart, destroyed>>

\* Start: r.Instantiate(guest) succeeds, or fails for any reason that the binary
\* and its imports may give, or because the runtime is closed.
StartGuest(s) ==
  /\ spc[s] = "create" /\ ~More(sidx[s])
  /\ \/ /\ runtimeOpen
        /\ Goto(s, "onStart")
        /\ sidx' = [sidx EXCEPT ![s] = 1]
        /\ UNCHANGED <<runtimeOpen, modules>>
     \/ /\ CloseRuntime
        /\ Return(s, "err")
        /\ UNCHANGED sidx
  /\ UNCHANGED <<abis, guest, started, counting, owning, user, begun, stopper,
                 callbacks>>

\* Start: abi.OnInstanceStart for each ABI
StartCallback(s) ==
  /\ spc[s] = "onStart" /\ More(sidx[s])
  /\ onStart' = [onStart EXCEPT ![sidx[s]] = @ + 1]
  /\ sidx' = [sidx EXCEPT ![s] = @ + 1]
  /\ UNCHANGED <<fields, counting, owning, user, spc, ret, begun, stopper,
                 created, destroyed>>

\* Start: i.instance = ins
StartSetInstance(s) ==
  /\ spc[s] = "onStart" /\ ~More(sidx[s])
  /\ guest' = TRUE
  /\ Goto(s, "publish")
  /\ UNCHANGED <<runtimeOpen, modules, abis, started, counting, owning, user,
                 sidx, begun, stopper, callbacks>>

\* Start: atomic.StoreUint32(&i.started, 1), outside the lock
StartPublish(s) ==
  /\ spc[s] = "publish"
  /\ started' = 1
  /\ Return(s, "ok")
  /\ UNCHANGED <<runtimeOpen, modules, abis, guest, counting, owning, user, sidx,
                 begun, stopper, callbacks>>

-------------------------------------------------------------------------------
(* Stop                                                                          *)

\* Stop is called: its body runs in a goroutine of its own.
Stop(p) ==
  /\ tpc[p] = "idle" /\ MayStop
  /\ tpc' = [tpc EXCEPT ![p] = "stopping"]
  /\ UNCHANGED <<fields, counting, owning, user, starter, tidx, swapped, callbacks>>

\* The condition Stop waits on. The mutant never waits.
References_Ignored == FALSE
References == refCount > 0

\* i.stopCond.Wait() while there are references
StopWait(p) ==
  /\ tpc[p] = "stopping" /\ p \notin waiting
  /\ lock = NoOwner
  /\ References
  /\ waiting' = waiting \cup {p}
  /\ UNCHANGED <<fields, refCount, owning, user, starter, stopper, callbacks>>

\* Where Stop goes once it knows whether it swapped started. The mutants
\* ignore it, and take it the wrong way round.
AfterSwap_Ignored(won) == "destroy"
AfterSwap_Inverted(won) == IF won THEN "close" ELSE "destroy"
AfterSwap(won) == IF won THEN "destroy" ELSE "close"

\* swapped := CompareAndSwap(&i.started, 1, 0), still under the lock
StopSwap(p) ==
  /\ tpc[p] = "stopping" /\ p \notin waiting
  /\ lock = NoOwner
  /\ ~References
  /\ swapped' = [swapped EXCEPT ![p] = checkStart]
  /\ started' = 0
  /\ tpc' = [tpc EXCEPT ![p] = AfterSwap(checkStart)]
  /\ UNCHANGED <<runtimeOpen, modules, abis, guest, counting, owning, user,
                 starter, tidx, callbacks>>

\* abi.OnInstanceDestroy for each ABI, after the lock is released
StopDestroy(p) ==
  /\ tpc[p] = "destroy" /\ More(tidx[p])
  /\ destroyed' = [destroyed EXCEPT ![tidx[p]] = @ + 1]
  /\ tidx' = [tidx EXCEPT ![p] = @ + 1]
  /\ UNCHANGED <<fields, counting, owning, user, starter, tpc, swapped, created,
                 onStart>>

\* i.runtime.Close, whether or not this call swapped started
StopClose(p) ==
  /\ \/ tpc[p] = "close"
     \/ tpc[p] = "destroy" /\ ~More(tidx[p])
  /\ CloseRuntime
  /\ tpc' = [tpc EXCEPT ![p] = "done"]
  /\ UNCHANGED <<abis, guest, started, counting, owning, user, starter, tidx,
                 swapped, callbacks>>

-------------------------------------------------------------------------------
(* The steps of each goroutine, and the specification                            *)

UserStep(u) == \/ Acquire(u) \/ Release(u)
               \/ Lock(u) \/ GetExportsFunc(u) \/ Call(u) \/ Unlock(u)

StarterStep(s) == \/ \E abiName \in {"v1", "v2", "unknown"} : RegisterImports(s, abiName)
                  \/ RegisterUnstable(s) \/ RegisterEnv(s)
                  \/ Start(s) \/ StartWasi(s) \/ StartABIList(s) \/ StartCreate(s)
                  \/ StartGuest(s) \/ StartCallback(s) \/ StartSetInstance(s)
                  \/ StartPublish(s)

StopperStep(p) == \/ Stop(p) \/ StopWait(p) \/ StopSwap(p)
                  \/ StopDestroy(p) \/ StopClose(p)

Next == \/ \E u \in Users : UserStep(u)
        \/ SetData
        \/ \E s \in Starters : StarterStep(s)
        \/ \E p \in Stoppers : StopperStep(p)

Spec == Init /\ [][Next]_vars

\* A goroutine that can go on does go on. The steps that need i.lock get strong
\* fairness: a waiter of a sync.Mutex that starves makes the mutex hand itself
\* over. Users finish what they began: who holds the lock unlocks it, who holds
\* a reference releases it. Nobody is obliged to call anything.
Fairness ==
  /\ \A u \in Users : /\ WF_vars(Call(u)) /\ WF_vars(Unlock(u))
                      /\ SF_vars(Release(u))
  /\ \A s \in Starters : /\ WF_vars(StartWasi(s)) /\ WF_vars(StartABIList(s))
                         /\ WF_vars(StartCreate(s)) /\ WF_vars(StartGuest(s))
                         /\ WF_vars(StartCallback(s)) /\ WF_vars(StartSetInstance(s))
                         /\ WF_vars(StartPublish(s))
  /\ \A p \in Stoppers : /\ SF_vars(StopSwap(p))
                         /\ WF_vars(StopDestroy(p)) /\ WF_vars(StopClose(p))

FairSpec == Spec /\ Fairness

-------------------------------------------------------------------------------
(* Properties                                                                    *)

\* The values that the fields of the instance and the places of the goroutines take.
BooleansOK == runtimeOpen \in BOOLEAN /\ guest \in BOOLEAN /\ begun \in BOOLEAN

FieldsOK ==
  /\ modules \subseteq HostModules
  /\ abis \in 0..NumABIs /\ started \in {0, 1}
  /\ refCount \in Int /\ waiting \subseteq Stoppers
  /\ lock \in Users \cup {NoOwner} /\ data \in Users \cup {NoOwner, Preset}

UsersOK ==
  /\ upc \in [Users -> {"idle", "locked", "calling", "called"}]
  /\ holds \in [Users -> BOOLEAN]
  /\ left \in [Users -> 0..MaxAcquire]
  /\ res \in [Users -> {"none", "ok", "notStarted", "closed"}]

StartersOK ==
  /\ spc \in [Starters -> {"idle", "wasi_unstable", "env", "wasi", "abiList",
                           "create", "onStart", "publish"}]
  /\ sidx \in [Starters -> 1..(NumABIs + 1)]
  /\ ret \in [Starters -> {"none", "ok", "err", "panic"}]

StoppersOK ==
  /\ tpc \in [Stoppers -> {"idle", "stopping", "destroy", "close", "done"}]
  /\ tidx \in [Stoppers -> 1..(NumABIs + 1)]
  /\ swapped \in [Stoppers -> BOOLEAN]

CallbacksOK ==
  created \in [ABIs -> Nat] /\ onStart \in [ABIs -> Nat] /\ destroyed \in [ABIs -> Nat]

\* Every variable stays within its values; in particular no loop over the ABIs
\* leaves the list.
TypeOK == /\ BooleansOK /\ FieldsOK
          /\ UsersOK /\ StartersOK /\ StoppersOK /\ CallbacksOK

Holders == {u \in Users : holds[u]}

\* refCount counts exactly the users between a successful Acquire and Release.
RefCountIsHolders == refCount = Cardinality(Holders)

\* While a user holds a reference the instance stays started, with its guest in
\* place: no Stop, Start or RegisterImports of anybody takes it away.
HeldIsStarted == \A u \in Users : holds[u] => started = 1 /\ guest

\* However often Start and Stop are called, by however many goroutines, each ABI
\* is told of creation, start and destruction at most once, in that order.
CallbacksOnce ==
  \A k \in ABIs : destroyed[k] <= onStart[k] /\ onStart[k] <= created[k] /\ created[k] <= 1

\* What the two above rest on. A runtime takes one Start past its first step: after
\* that the goroutine inside Start, the started instance and the Stop that swapped
\* started are each alone, and follow each other.
InStart(s) == spc[s] \in {"abiList", "create", "onStart", "publish"}
Spent == ~CanInstantiate("wasi_snapshot_preview1")
Retired == \E p \in Stoppers : swapped[p]

OneLife ==
  /\ \A s, t \in Starters : InStart(s) /\ InStart(t) => s = t
  /\ \A s \in Starters : InStart(s) => Spent /\ started = 0 /\ ~Retired
  /\ \A s \in Starters : spc[s] = "publish" => guest
  /\ started = 1 => Spent /\ ~Retired /\ guest
  /\ Retired => Spent /\ started = 0
  /\ \A p, q \in Stoppers : swapped[p] /\ swapped[q] => p = q
  /\ \A p \in Stoppers : tpc[p] = "destroy" => swapped[p]
  /\ \A p \in Stoppers : tpc[p] \in {"idle", "stopping"} => ~swapped[p]
  /\ \A u \in Users : holds[u] => started = 1

\* How far the callbacks have got: Upto(n) is one call of each ABI before the n-th.
Upto(n) == [k \in ABIs |-> IF k < n THEN 1 ELSE 0]
None == Upto(1)
All == Upto(NumABIs + 1)

Progress ==
  /\ ~Spent => created = None /\ onStart = None /\ destroyed = None
  /\ \A s \in Starters :
       /\ spc[s] = "abiList" => created = None /\ onStart = None /\ destroyed = None
       /\ spc[s] = "create" => /\ created = Upto(sidx[s]) /\ onStart = None
                              /\ destroyed = None /\ abis = NumABIs
       /\ spc[s] = "onStart" => /\ created = All /\ onStart = Upto(sidx[s])
                               /\ destroyed = None /\ abis = NumABIs
       /\ spc[s] = "publish" => /\ created = All /\ onStart = All
                               /\ destroyed = None /\ abis = NumABIs
  /\ started = 1 => /\ created = All /\ onStart = All
                    /\ destroyed = None /\ abis = NumABIs
  /\ \A p \in Stoppers :
       /\ swapped[p] => /\ created = All /\ onStart = All
                        /\ destroyed = Upto(tidx[p]) /\ abis = NumABIs
       /\ ~swapped[p] => tidx[p] = 1

LifecycleInv == OneLife /\ Progress /\ CallbacksOnce

\* A client that keeps to the order and holds a reference finds the runtime open,
\* so that no call it makes of the guest fails because of somebody's Stop.
HeldRuntimeIsOpen ==
  Ordered => \A u \in Users :
               holds[u] => runtimeOpen /\ res[u] \notin {"notStarted", "closed"}

\* As long as a client that keeps to the order has called Stop once: the runtime of
\* a started instance is closed only after every ABI was told of its destruction.
ToldBeforeClosed ==
  (Ordered /\ Cardinality({p \in Stoppers : tpc[p] # "idle"}) = 1 /\ guest /\ ~runtimeOpen)
     => \A k \in 1..abis : destroyed[k] = 1

\* The goroutine inside Lock .. Unlock is the only one there is, and i.data is its
\* own, so that the guest is called with the data of whoever calls it. Only SetData,
\* which takes no lock, can have put other data there since its Lock: neither the
\* Lock nor the Unlock of somebody else has.
DataIsOwners ==
  \A u \in Users : upc[u] # "idle" => lock = u /\ data \in {u, Preset}

\* A Stop that was called ends, with the runtime closed, once users stop acquiring:
\* no wake-up is lost between Release and the goroutines of several Stops.
StopEnds ==
  \A p \in Stoppers : tpc[p] = "stopping" ~> tpc[p] = "done" /\ ~runtimeOpen

\* What a WasmInstance promises: it is live from the store of started to the CAS
\* that swaps it back, and is held by the users that hold a reference.
Phase == IF started = 1 THEN "live"
         ELSE IF Retired THEN "retired" ELSE "new"

Resource == INSTANCE ManagedResource
              WITH phase <- Phase, holders <- Holders, told <- destroyed

\* The instance implements a managed resource.
IsManagedResource == Resource!RSpec
===============================================================================
