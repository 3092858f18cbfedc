------------------------------ MODULE RequestFlow ------------------------------
(* The server of example/main.go: goroutines of net/http that share one guest    *)
(* through getWasmContext, a sync.Once and Instance.Lock, together with the way  *)
(* the ABI v1 resolves the handler of a host call (imports/v1/utils.go).         *)
(*                                                                               *)
(* A panic ends its request only: net/http recovers it, the deferred calls run.  *)
EXTENDS Integers, FiniteSets

CONSTANTS Requests,    \* the HTTP requests, each in a goroutine of its own
          DefaultImports, \* the handler of no request: DefaultImportsHandler
          Nobody       \* a lock or a Once that no goroutine is inside of

ASSUME RequestsAssumption ==
  IsFiniteSet(Requests) /\ DefaultImports \notin Requests /\ Nobody \notin Requests

RootContextID == 1     \* the first value main takes from contextIDGenerator

VARIABLES
  wasmCtx,    \* the instances getWasmContext has made; wasmCtx = nil if none
  initLock,   \* the goroutine inside getWasmContext, or Nobody
  started,    \* the instance of wasmCtx has started
  idGen,      \* contextIDGenerator
  onceDone,   \* once has run its function, to the end or into a panic
  onceBusy,   \* the goroutine inside once.Do, or Nobody
  lock,       \* the goroutine inside Instance.Lock .. Unlock, or Nobody
  dataSet,    \* the data of the instance is wasmCtx, not nil
  imports,    \* wasmCtx.Imports
  contexts,   \* the context ids alive in the guest
  pc,         \* where each request is
  inGuest,    \* the requests whose goroutine is running the guest
  id,         \* the context id of each request
  saw         \* the handlers that answered host calls of each request (history)

setup == <<wasmCtx, initLock, started>>
once == <<onceDone, onceBusy>>
instance == <<lock, dataSet, imports>>
vars == <<setup, idGen, once, instance, contexts, pc, inGuest, id, saw>>

\* main has taken the id of the root context.
Init ==
  /\ wasmCtx = 0 /\ initLock = Nobody /\ started = FALSE
  /\ idGen = RootContextID
  /\ onceDone = FALSE /\ onceBusy = Nobody
  /\ lock = Nobody /\ dataSet = FALSE /\ imports = DefaultImports
  /\ contexts = {}
  /\ pc = [r \in Requests |-> "getContext"]
  /\ inGuest = {}
  /\ id = [r \in Requests |-> 0]
  /\ saw = [r \in Requests |-> {}]

Goto(r, place) == pc' = [pc EXCEPT ![r] = place]

-------------------------------------------------------------------------------
(* getWasmContext                                                                *)

\* The mutant tests wasmCtx before it takes the lock.
GetContext_CheckFirst(r) ==
  /\ pc[r] = "getContext"
  /\ IF wasmCtx > 0 THEN Goto(r, "newID") ELSE Goto(r, "load")
  /\ UNCHANGED <<setup, idGen, once, instance, contexts, inGuest, id, saw>>

\* Takes the lock; only the first caller goes on to make the context.
GetContext(r) ==
  /\ pc[r] = "getContext" /\ initLock = Nobody
  /\ IF wasmCtx > 0
       THEN Goto(r, "newID") /\ UNCHANGED initLock
       ELSE Goto(r, "load") /\ initLock' = r
  /\ UNCHANGED <<wasmCtx, started, idGen, once, instance, contexts, inGuest, id, saw>>

\* Reads the guest, makes module and instance and assigns wasmCtx, or panics.
Load(r) ==
  /\ pc[r] = "load"
  /\ \/ wasmCtx' = wasmCtx + 1 /\ Goto(r, "start") /\ UNCHANGED initLock
     \/ Goto(r, "failed") /\ initLock' = Nobody /\ UNCHANGED wasmCtx
  /\ UNCHANGED <<started, idGen, once, instance, contexts, inGuest, id, saw>>

\* RegisterImports and Start. When either fails wasmCtx stays assigned.
StartInstance(r) ==
  /\ pc[r] = "start"
  /\ \/ started' = TRUE /\ Goto(r, "newID")
     \/ Goto(r, "failed") /\ UNCHANGED started
  /\ initLock' = Nobody
  /\ UNCHANGED <<wasmCtx, idGen, once, instance, contexts, inGuest, id, saw>>

-------------------------------------------------------------------------------
(* ServeHTTP up to Instance.Lock                                                 *)

\* atomic.AddInt32(&contextIDGenerator, 1).
NewID(r) ==
  /\ pc[r] = "newID"
  /\ idGen' = idGen + 1
  /\ id' = [id EXCEPT ![r] = idGen + 1]
  /\ Goto(r, "once")
  /\ UNCHANGED <<setup, once, instance, contexts, inGuest, saw>>

\* once.Do: the first caller runs the function, callers that come meanwhile wait.
\* In the mutant they go on.
MayPassOnce_Entered == onceDone \/ onceBusy # Nobody
MayPassOnce == onceDone

EnterOnce(r) ==
  /\ pc[r] = "once"
  /\ ~MayPassOnce /\ onceBusy = Nobody
  /\ onceBusy' = r
  /\ Goto(r, "root")
  /\ UNCHANGED <<setup, idGen, onceDone, instance, contexts, inGuest, id, saw>>

PassOnce(r) ==
  /\ pc[r] = "once"
  /\ MayPassOnce
  /\ Goto(r, "lock")
  /\ UNCHANGED <<setup, idGen, once, instance, contexts, inGuest, id, saw>>

\* Instance.Lock(ctx). The mutant sets the data only, as SetData would.
Lock_DataOnly(r) ==
  /\ pc[r] = "lock"
  /\ lock' = r /\ dataSet' = TRUE
  /\ Goto(r, "setImports")
  /\ UNCHANGED <<setup, idGen, once, imports, contexts, inGuest, id, saw>>

Lock(r) ==
  /\ pc[r] = "lock" /\ lock = Nobody
  /\ lock' = r /\ dataSet' = TRUE
  /\ Goto(r, "setImports")
  /\ UNCHANGED <<setup, idGen, once, imports, contexts, inGuest, id, saw>>

\* ctx.SetImports, and the mutant that leaves the handler of the last request.
SetImports_Forgotten(r) ==
  /\ pc[r] = "setImports"
  /\ Goto(r, "create")
  /\ UNCHANGED <<setup, idGen, once, instance, contexts, inGuest, id, saw>>

SetImports(r) ==
  /\ pc[r] = "setImports"
  /\ imports' = r
  /\ Goto(r, "create")
  /\ UNCHANGED <<setup, idGen, once, lock, dataSet, contexts, inGuest, id, saw>>

-------------------------------------------------------------------------------
(* Calls of the guest: CallWasmFunction and the host calls it leads to           *)

Calls == {"root", "create", "headers", "delete"}

\* The deferred calls of a goroutine that panics, or of a request that is over:
\* once is done, and the instance is unlocked. The mutant unlocks on return only.
Leave_NoDefer(r, place) ==
  /\ Goto(r, place)
  /\ onceDone' = (onceDone \/ onceBusy = r)
  /\ onceBusy' = IF onceBusy = r THEN Nobody ELSE onceBusy
  /\ IF lock = r /\ place = "replied"
       THEN lock' = Nobody /\ dataSet' = FALSE
       ELSE UNCHANGED <<lock, dataSet>>

Leave(r, place) ==
  /\ Goto(r, place)
  /\ onceDone' = (onceDone \/ onceBusy = r)
  /\ onceBusy' = IF onceBusy = r THEN Nobody ELSE onceBusy
  /\ IF lock = r THEN lock' = Nobody /\ dataSet' = FALSE
                 ELSE UNCHANGED <<lock, dataSet>>

\* GetExportsFunc finds the function, and the guest runs.
Enter(r) ==
  /\ pc[r] \in Calls /\ r \notin inGuest
  /\ started
  /\ inGuest' = inGuest \cup {r}
  /\ UNCHANGED <<setup, idGen, once, instance, contexts, pc, id, saw>>

\* GetExportsFunc fails: the instance has not started, or lacks the function.
NotFound(r) ==
  /\ pc[r] \in Calls /\ r \notin inGuest
  /\ Leave(r, "failed")
  /\ UNCHANGED <<setup, idGen, imports, contexts, inGuest, id, saw>>

\* getImportHandler: the handler of the context that is the data of the instance.
Handler == IF dataSet THEN imports ELSE DefaultImports

\* The guest calls back into the host, for instance for its request headers.
HostCall(r) ==
  /\ r \in inGuest
  /\ saw' = [saw EXCEPT ![r] = @ \cup {Handler}]
  /\ UNCHANGED <<setup, idGen, once, instance, contexts, pc, inGuest, id>>

\* What a call that succeeds does to the contexts of the guest.
ContextsAfter(r) ==
  CASE pc[r] = "root" -> contexts \cup {RootContextID}
    [] pc[r] = "create" -> contexts \cup {id[r]}
    [] pc[r] = "headers" -> contexts
    [] pc[r] = "delete" -> contexts \ {id[r]}

\* The call succeeds, and the request goes on to its next call; after the last one
\* it replies and the deferred Unlock runs. The mutant replies before it deletes.
Return_NoDelete(r) ==
  /\ r \in inGuest
  /\ inGuest' = inGuest \ {r}
  /\ contexts' = ContextsAfter(r)
  /\ CASE pc[r] = "root" -> Leave(r, "lock")
       [] pc[r] = "create" -> Goto(r, "headers") /\ UNCHANGED <<once, lock, dataSet>>
       [] pc[r] \in {"headers", "delete"} -> Leave(r, "replied")
  /\ UNCHANGED <<setup, idGen, imports, id, saw>>

Return(r) ==
  /\ r \in inGuest
  /\ inGuest' = inGuest \ {r}
  /\ contexts' = ContextsAfter(r)
  /\ CASE pc[r] = "root" -> Leave(r, "lock")
       [] pc[r] = "create" -> Goto(r, "headers") /\ UNCHANGED <<once, lock, dataSet>>
       [] pc[r] = "headers" -> Goto(r, "delete") /\ UNCHANGED <<once, lock, dataSet>>
       [] pc[r] = "delete" -> Leave(r, "replied")
  /\ UNCHANGED <<setup, idGen, imports, id, saw>>

\* The call fails, perhaps after the guest has done its part, and ServeHTTP panics.
Trap(r) ==
  /\ r \in inGuest
  /\ inGuest' = inGuest \ {r}
  /\ contexts' \in {contexts, ContextsAfter(r)}
  /\ Leave(r, "failed")
  /\ UNCHANGED <<setup, idGen, imports, id, saw>>

-------------------------------------------------------------------------------
RequestStep(r) ==
  \/ GetContext(r) \/ Load(r) \/ StartInstance(r)
  \/ NewID(r) \/ EnterOnce(r) \/ PassOnce(r) \/ Lock(r) \/ SetImports(r)
  \/ Enter(r) \/ NotFound(r) \/ HostCall(r) \/ Return(r) \/ Trap(r)

Next == \E r \in Requests : RequestStep(r)

Spec == Init /\ [][Next]_vars

\* Goroutines that can go on do, a goroutine that waits for a mutex gets it in the
\* end, and the guest comes back from each call.
Fairness ==
  \A r \in Requests :
    /\ SF_vars(GetContext(r)) /\ SF_vars(Lock(r))
    /\ WF_vars(Load(r)) /\ WF_vars(StartInstance(r)) /\ WF_vars(NewID(r))
    /\ WF_vars(EnterOnce(r)) /\ WF_vars(PassOnce(r)) /\ WF_vars(SetImports(r))
    /\ WF_vars(Enter(r) \/ NotFound(r)) /\ WF_vars(Return(r) \/ Trap(r))

FairSpec == Spec /\ Fairness

-------------------------------------------------------------------------------
(* Properties                                                                    *)

Places == {"getContext", "load", "start", "newID", "once", "lock", "setImports",
           "replied", "failed"} \cup Calls

\* Every variable stays within its values, and no request has the root's context id.
TypeOK ==
  /\ wasmCtx \in 0..Cardinality(Requests) /\ started \in BOOLEAN
  /\ initLock \in Requests \cup {Nobody}
  /\ idGen \in 1..(1 + Cardinality(Requests))
  /\ onceDone \in BOOLEAN /\ onceBusy \in Requests \cup {Nobody}
  /\ lock \in Requests \cup {Nobody} /\ dataSet \in BOOLEAN
  /\ imports \in Requests \cup {DefaultImports}
  /\ contexts \subseteq 1..idGen
  /\ pc \in [Requests -> Places]
  /\ inGuest \subseteq Requests
  /\ id \in [Requests -> (0..idGen) \ {RootContextID}]
  /\ saw \in [Requests -> SUBSET (Requests \cup {DefaultImports})]

\* Requests that arrive together, before there is an instance, make one: each later
\* caller gets it, even if the first one panicked while starting it.
OneInstance == wasmCtx <= 1

\* A guest is not made for concurrent calls: no two goroutines run it together,
\* though the call that creates the root context is made without Instance.Lock.
OneInGuest == \A r, s \in inGuest : r = s

\* The host calls that the guest makes for a request are answered from that request,
\* never from the headers of another; those for the root context from no request.
OwnHandler ==
  \A r \in Requests :
    /\ saw[r] \subseteq {r, DefaultImports}
    /\ r \in inGuest => Handler = IF pc[r] = "root" THEN DefaultImports ELSE r

\* A context that is alive in the guest is the root's, or that of a request that is
\* being served or has failed: a request that got its reply leaves none behind.
RepliedLeavesNone ==
  \A c \in contexts :
    \/ c = RootContextID
    \/ \E r \in Requests : id[r] = c /\ pc[r] # "replied"

\* The root context is there before any request operates on the guest, unless a request
\* has failed: sync.Once counts a call that panics as done, and those behind it pass.
RootFirst ==
  (\A r \in Requests : pc[r] # "failed") =>
     \A r \in inGuest : pc[r] # "root" => RootContextID \in contexts

\* Every request gets its reply or fails, whichever of them panics where: no panic
\* leaves the mutex of getWasmContext, the Once or the instance behind it locked.
RequestsEnd == \A r \in Requests : <>(pc[r] \in {"replied", "failed"})
===============================================================================
