--------------------------- MODULE RequestFlowProofs ---------------------------
(* Theorems about RequestFlow, for any number of requests: one instance, one     *)
(* goroutine in the guest, each request served from its own headers, and no      *)
(* context left behind by one that got its reply.                                *)
EXTENDS RequestFlow, FiniteSetTheorems, TLAPS

-------------------------------------------------------------------------------
(* The inductive invariant                                                       *)

FlowTypes ==
  /\ started \in BOOLEAN /\ initLock \in Requests \cup {Nobody}
  /\ onceDone \in BOOLEAN /\ onceBusy \in Requests \cup {Nobody}
  /\ lock \in Requests \cup {Nobody} /\ dataSet \in BOOLEAN
  /\ imports \in Requests \cup {DefaultImports}
  /\ pc \in [Requests -> Places]
  /\ inGuest \subseteq Requests
  /\ saw \in [Requests -> SUBSET (Requests \cup {DefaultImports})]

Inside == {"setImports", "create", "headers", "delete"}  \* of Instance.Lock .. Unlock

\* Who is in getWasmContext, in the Once or inside of the lock of the instance is its
\* owner, and nobody gets to that lock before the Once is done.
Owners ==
  /\ \A r \in Requests : pc[r] \in {"load", "start"} <=> initLock = r
  /\ \A r \in Requests : pc[r] = "root" <=> onceBusy = r
  /\ \A r \in Requests : pc[r] \in Inside <=> lock = r
  /\ \A r \in Requests : pc[r] \in Inside \cup {"lock", "replied"} => onceDone
  /\ onceDone => onceBusy = Nobody
  /\ dataSet <=> lock # Nobody
  /\ \A r \in Requests : pc[r] \in {"create", "headers", "delete"} => imports = r
  /\ \A r \in inGuest : pc[r] \in Calls
  /\ \A r \in Requests : saw[r] \subseteq {r, DefaultImports}

Made == /\ wasmCtx \in {0, 1}
        /\ wasmCtx = 1 => Requests # {}
        /\ \A r \in Requests : pc[r] = "load" => wasmCtx = 0

Numbered == {r \in Requests : id[r] # 0}

\* Ids are given out once, after getWasmContext, and count the requests that have one.
Ids ==
  /\ id \in [Requests -> (0..idGen) \ {RootContextID}]
  /\ idGen = 1 + Cardinality(Numbered)
  /\ contexts \subseteq 1..idGen
  /\ \A r \in Requests : pc[r] \in {"getContext", "load", "start", "newID"} => id[r] = 0
  /\ \A r \in Requests : pc[r] \in Inside => id[r] # 0
  /\ \A r \in Requests : pc[r] \in {"once", "root", "lock"} => id[r] # 0

-------------------------------------------------------------------------------
LEMMA OwnersStep ==
  ASSUME FlowTypes, Owners, [Next]_vars
  PROVE  FlowTypes' /\ Owners'
<1> USE RequestsAssumption
    DEF RequestsAssumption, FlowTypes, Owners, Inside, Places, Calls
<1>1. ASSUME NEW r \in Requests, GetContext(r) PROVE FlowTypes' /\ Owners'
  <2>1. /\ UNCHANGED <<started, onceDone, onceBusy, lock, dataSet, imports, inGuest, saw>>
        /\ pc[r] = "getContext" /\ initLock = Nobody
        /\ \/ pc' = [pc EXCEPT ![r] = "newID"] /\ initLock' = initLock
           \/ pc' = [pc EXCEPT ![r] = "load"] /\ initLock' = r
    BY <1>1 DEF GetContext, Goto, once, instance
  <2> QED BY <2>1
<1>2. ASSUME NEW r \in Requests, Load(r) PROVE FlowTypes' /\ Owners'
  BY <1>2 DEF Load, Goto, once, instance
<1>3. ASSUME NEW r \in Requests, StartInstance(r) PROVE FlowTypes' /\ Owners'
  <2>1. /\ UNCHANGED <<onceDone, onceBusy, lock, dataSet, imports, inGuest, saw>>
        /\ pc[r] = "start" /\ initLock' = Nobody
        /\ pc' = [pc EXCEPT ![r] = "newID"] \/ pc' = [pc EXCEPT ![r] = "failed"]
    BY <1>3 DEF StartInstance, Goto, once, instance
  <2>2. started' \in BOOLEAN
    BY <1>3 DEF StartInstance
  <2> QED BY <2>1, <2>2
<1>4. ASSUME NEW r \in Requests, NewID(r) PROVE FlowTypes' /\ Owners'
  BY <1>4 DEF NewID, Goto, setup, once, instance
<1>5. ASSUME NEW r \in Requests, EnterOnce(r) PROVE FlowTypes' /\ Owners'
  BY <1>5 DEF EnterOnce, MayPassOnce, Goto, setup, instance
<1>6. ASSUME NEW r \in Requests, PassOnce(r) PROVE FlowTypes' /\ Owners'
  BY <1>6 DEF PassOnce, MayPassOnce, Goto, setup, once, instance
<1>7. ASSUME NEW r \in Requests, Lock(r) PROVE FlowTypes' /\ Owners'
  BY <1>7 DEF Lock, Goto, setup, once
<1>8. ASSUME NEW r \in Requests, SetImports(r) PROVE FlowTypes' /\ Owners'
  BY <1>8 DEF SetImports, Goto, setup, once
<1>9. ASSUME NEW r \in Requests, Enter(r) PROVE FlowTypes' /\ Owners'
  BY <1>9 DEF Enter, setup, once, instance
<1>10. ASSUME NEW r \in Requests, NotFound(r) PROVE FlowTypes' /\ Owners'
  BY <1>10 DEF NotFound, Leave, Goto, setup
<1>11. ASSUME NEW r \in Requests, HostCall(r) PROVE FlowTypes' /\ Owners'
  BY <1>11 DEF HostCall, Handler, setup, once, instance
<1>12. ASSUME NEW r \in Requests, Return(r) PROVE FlowTypes' /\ Owners'
  <2>1. /\ UNCHANGED <<started, initLock, imports, saw>>
        /\ r \in inGuest /\ inGuest' = inGuest \ {r}
    BY <1>12 DEF Return, setup
  <2>2. CASE pc[r] = "root"
    <3>1. onceBusy = r /\ lock # r
      BY <2>2
    <3>2. /\ pc' = [pc EXCEPT ![r] = "lock"]
          /\ onceDone' = TRUE /\ onceBusy' = Nobody
          /\ UNCHANGED <<lock, dataSet>>
      BY <1>12, <2>2, <3>1 DEF Return, Leave, Goto
    <3> QED BY <2>1, <2>2, <3>1, <3>2
  <2>3. CASE pc[r] = "create"
    BY <1>12, <2>1, <2>3 DEF Return, Goto, once
  <2>4. CASE pc[r] = "headers"
    BY <1>12, <2>1, <2>4 DEF Return, Goto, once
  <2>5. CASE pc[r] = "delete"
    <3>1. onceBusy # r /\ lock = r /\ onceDone
      BY <2>5
    <3>2. /\ pc' = [pc EXCEPT ![r] = "replied"]
          /\ lock' = Nobody /\ dataSet' = FALSE
      BY <1>12, <2>5, <3>1 DEF Return, Leave, Goto
    <3>3. onceBusy' = onceBusy /\ onceDone' = onceDone
      BY <1>12, <2>5, <3>1 DEF Return, Leave
    <3> QED BY <2>1, <2>5, <3>1, <3>2, <3>3
  <2> QED BY <2>1, <2>2, <2>3, <2>4, <2>5
<1>13. ASSUME NEW r \in Requests, Trap(r) PROVE FlowTypes' /\ Owners'
  BY <1>13 DEF Trap, Leave, Goto, setup
<1>14. CASE UNCHANGED vars
  BY <1>14 DEF vars, setup, once, instance
<1> QED
  BY <1>1, <1>2, <1>3, <1>4, <1>5, <1>6, <1>7, <1>8, <1>9, <1>10, <1>11, <1>12, <1>13,
     <1>14
  DEF Next, RequestStep
\* Where a request goes when the guest returns.
LEMMA ReturnGoes ==
  ASSUME FlowTypes, Owners, NEW r \in Requests, Return(r)
  PROVE  /\ pc[r] \in Calls
         /\ pc'[r] \in {"lock", "headers", "delete", "replied"}
         /\ \A s \in Requests \ {r} : pc'[s] = pc[s]
         /\ pc'[r] = "replied" => pc[r] = "delete"
<1>1. pc[r] \in Calls
  BY DEF Return, Owners
<1>2. CASE pc[r] = "root" BY <1>2 DEF Return, Leave, Goto, FlowTypes, Calls
<1>3. CASE pc[r] = "create" BY <1>3 DEF Return, Goto, FlowTypes, Calls
<1>4. CASE pc[r] = "headers" BY <1>4 DEF Return, Goto, FlowTypes, Calls
<1>5. CASE pc[r] = "delete" BY <1>5 DEF Return, Leave, Goto, FlowTypes, Calls
<1> QED BY <1>1, <1>2, <1>3, <1>4, <1>5 DEF Calls

\* A step of a request moves no other.
LEMMA OthersStay ==
  ASSUME FlowTypes, Owners, NEW r \in Requests, RequestStep(r)
  PROVE  \A s \in Requests \ {r} : pc'[s] = pc[s]
<1>1. CASE Return(r)
  BY <1>1, ReturnGoes
<1>2. CASE ~Return(r)
  BY <1>2
  DEF RequestStep, GetContext, Load, StartInstance, NewID, EnterOnce, PassOnce, Lock,
      SetImports, Enter, NotFound, HostCall, Trap, Leave, Goto, FlowTypes
<1> QED BY <1>1, <1>2

LEMMA MadeStep ==
  ASSUME FlowTypes, Owners, Made, [Next]_vars
  PROVE  Made'
<1> USE DEF Made, FlowTypes
<1>1. ASSUME NEW r \in Requests, GetContext(r) PROVE Made'
  <2>1. wasmCtx' = wasmCtx /\ \A s \in Requests \ {r} : pc'[s] = pc[s]
    BY <1>1, OthersStay DEF GetContext, RequestStep
  <2>2. pc'[r] = "load" => wasmCtx = 0
    BY <1>1 DEF GetContext, Goto
  <2> QED BY <2>1, <2>2
<1>2. ASSUME NEW r \in Requests, Load(r) PROVE Made'
  <2>1. /\ pc[r] = "load" /\ wasmCtx = 0
        /\ pc'[r] # "load" /\ \A s \in Requests \ {r} : pc'[s] = pc[s]
        /\ wasmCtx' \in {wasmCtx, wasmCtx + 1}
    BY <1>2 DEF Load, Goto
  <2>2. \A s \in Requests \ {r} : pc[s] # "load"
    BY <2>1 DEF Owners
  <2> QED BY <2>1, <2>2
<1>3. ASSUME NEW r \in Requests, RequestStep(r), ~GetContext(r), ~Load(r) PROVE Made'
  <2>1. wasmCtx' = wasmCtx
    BY <1>3
    DEF RequestStep, StartInstance, NewID, EnterOnce, PassOnce, Lock, SetImports, Enter,
        NotFound, HostCall, Return, Trap, setup
  <2>2. pc'[r] = "load" => pc[r] = "load"
    <3>1. CASE Return(r)
      BY <3>1, ReturnGoes
    <3>2. CASE ~Return(r)
      BY <1>3, <3>2
      DEF RequestStep, StartInstance, NewID, EnterOnce, PassOnce, Lock, SetImports,
          Enter, NotFound, HostCall, Trap, Leave, Goto
    <3> QED BY <3>1, <3>2
  <2>3. \A s \in Requests : pc'[s] = "load" => pc[s] = "load"
    BY <1>3, <2>2, OthersStay
  <2> QED BY <2>1, <2>3
<1>4. CASE UNCHANGED vars
  BY <1>4 DEF vars, setup
<1> QED BY <1>1, <1>2, <1>3, <1>4 DEF Next

LEMMA NumberedFinite == IsFiniteSet(Numbered) /\ Cardinality(Numbered) \in Nat
<1>1. IsFiniteSet(Numbered)
  BY RequestsAssumption, FS_Subset DEF RequestsAssumption, Numbered
<1> QED BY <1>1, FS_CardinalityType

\* The contexts of the guest after a call are those it had, perhaps with that of the
\* request or of the root, and without that of the request if the call deletes it.
LEMMA ContextsChange ==
  ASSUME NEW r \in Requests, pc[r] \in Calls
  PROVE  /\ ContextsAfter(r) \subseteq contexts \cup {RootContextID, id[r]}
         /\ pc[r] # "create" => ContextsAfter(r) \subseteq contexts \cup {RootContextID}
         /\ pc[r] = "delete" => ContextsAfter(r) \subseteq contexts \ {id[r]}
  BY DEF Calls, ContextsAfter

LEMMA IdsStep ==
  ASSUME FlowTypes, Owners, Ids, [Next]_vars
  PROVE  Ids'
<1> USE DEF Ids, RootContextID
<1>0. Cardinality(Numbered) \in Nat /\ idGen \in Nat /\ 1 \in 1..idGen
  BY NumberedFinite
<1>1. ASSUME NEW r \in Requests, NewID(r) PROVE Ids'
  <2>1. /\ idGen' = idGen + 1 /\ id' = [id EXCEPT ![r] = idGen + 1]
        /\ contexts' = contexts
        /\ pc[r] = "newID" /\ pc'[r] = "once" /\ \A s \in Requests \ {r} : pc'[s] = pc[s]
        /\ id[r] = 0
    BY <1>1 DEF NewID, Goto, FlowTypes
  <2>2. Numbered' = Numbered \cup {r} /\ r \notin Numbered
    BY <1>0, <2>1 DEF Numbered
  <2>3. Cardinality(Numbered') = Cardinality(Numbered) + 1
    BY <2>2, NumberedFinite, FS_AddElement
  <2>4. id' \in [Requests -> (0..idGen') \ {1}] /\ contexts' \subseteq 1..idGen'
    BY <1>0, <2>1
  <2>5. idGen' = 1 + Cardinality(Numbered')
    BY <1>0, <2>1, <2>3
  <2>6. id'[r] # 0 /\ \A s \in Requests \ {r} : id'[s] = id[s]
    BY <1>0, <2>1
  <2> QED BY <2>1, <2>4, <2>5, <2>6 DEF Inside
<1>2. ASSUME NEW r \in Requests, RequestStep(r), ~NewID(r) PROVE Ids'
  <2>1. UNCHANGED <<idGen, id>>
    BY <1>2
    DEF RequestStep, GetContext, Load, StartInstance, EnterOnce, PassOnce, Lock,
        SetImports, Enter, NotFound, HostCall, Return, Trap
  <2>2. Numbered' = Numbered
    BY <2>1 DEF Numbered
  <2>3. contexts' \subseteq 1..idGen
    <3>1. CASE UNCHANGED contexts
      BY <3>1
    <3>2. CASE Return(r) \/ Trap(r)
      <4>1. pc[r] \in Calls /\ contexts' \in {contexts, ContextsAfter(r)}
        BY <3>2 DEF Return, Trap, Owners
      <4>2. CASE pc[r] = "create"
        <5>1. id[r] \in 1..idGen
          BY <1>0, <4>2 DEF Inside
        <5> QED BY <1>0, <4>1, <5>1, ContextsChange
      <4>3. CASE pc[r] # "create"
        BY <1>0, <4>1, <4>3, ContextsChange
      <4> QED BY <4>2, <4>3
    <3> QED
      BY <1>2, <3>1, <3>2
      DEF RequestStep, GetContext, Load, StartInstance, EnterOnce, PassOnce, Lock,
          SetImports, Enter, NotFound, HostCall
  <2>4. \A s \in Requests \ {r} : pc'[s] = pc[s]
    BY <1>2, OthersStay
  <2>5. /\ pc'[r] \in {"getContext", "load", "start", "newID"}
            => pc[r] \in {"getContext", "load", "start", "newID"}
        /\ pc'[r] \in Inside \cup {"once", "root", "lock"}
            => pc[r] \in Inside \cup {"once", "root", "lock"}
    <3> USE DEF FlowTypes, Inside, Goto
    <3>1. CASE UNCHANGED pc
      BY <3>1
    <3>2. CASE GetContext(r) \/ Load(r) \/ StartInstance(r)
      BY <3>2 DEF GetContext, Load, StartInstance
    <3>3. CASE EnterOnce(r) \/ PassOnce(r) \/ Lock(r) \/ SetImports(r)
      BY <3>3 DEF EnterOnce, PassOnce, Lock, SetImports
    <3>4. CASE NotFound(r) \/ Trap(r)
      BY <3>4 DEF NotFound, Trap, Leave
    <3>5. CASE Return(r)
      BY <3>5, ReturnGoes DEF Calls
    <3> QED
      BY <1>2, <3>1, <3>2, <3>3, <3>4, <3>5 DEF RequestStep, Enter, HostCall
  <2> QED BY <2>1, <2>2, <2>3, <2>4, <2>5
<1>3. CASE UNCHANGED vars
  BY <1>3 DEF vars, Numbered
<1> QED BY <1>1, <1>2, <1>3 DEF Next

\* The inductive invariant of the server, for any number of requests.
FlowInv == FlowTypes /\ Owners /\ Made /\ Ids

\* Who is where, for any number of requests that arrive together: one goroutine at a
\* time makes the instance, creates the root context, and uses the guest for a request.
THEOREM Flow == Spec => []FlowInv
<1>1. Init => FlowInv
  <2> SUFFICES ASSUME Init PROVE FlowInv
    OBVIOUS
  <2> USE RequestsAssumption DEF RequestsAssumption, Init, RootContextID
  <2>1. FlowTypes BY DEF FlowTypes, Places
  <2>2. Owners BY DEF Owners, Inside
  <2>3. Made BY DEF Made
  <2>4. Ids
    <3>1. Numbered = {}
      BY DEF Numbered
    <3> QED BY <3>1, FS_EmptySet DEF Ids, Inside
  <2> QED BY <2>1, <2>2, <2>3, <2>4 DEF FlowInv
<1>2. FlowInv /\ [Next]_vars => FlowInv'
  BY OwnersStep, MadeStep, IdsStep DEF FlowInv
<1> QED BY <1>1, <1>2, PTL DEF Spec

-------------------------------------------------------------------------------
\* The variables keep their types: in particular there are no more context ids than
\* requests, and the root's is not among theirs.
THEOREM TypeCorrect == Spec => []TypeOK
<1>1. FlowInv => TypeOK
  <2> SUFFICES ASSUME FlowInv PROVE TypeOK
    OBVIOUS
  <2>1. FlowTypes /\ Made /\ Ids
    BY DEF FlowInv
  <2>2. /\ IsFiniteSet(Requests) /\ Cardinality(Requests) \in Nat
        /\ Cardinality(Numbered) \in Nat
        /\ Cardinality(Numbered) <= Cardinality(Requests)
    BY RequestsAssumption, NumberedFinite, FS_Subset, FS_CardinalityType
    DEF RequestsAssumption, Numbered
  <2>3. wasmCtx \in 0..Cardinality(Requests)
    BY <2>1, <2>2, FS_EmptySet DEF Made
  <2>4. idGen \in 1..(1 + Cardinality(Requests))
    BY <2>1, <2>2 DEF Ids
  <2> QED BY <2>1, <2>3, <2>4 DEF TypeOK, FlowTypes, Ids
<1> QED BY <1>1, Flow, PTL

\* getWasmContext makes one instance, for any number of requests that arrive together.
THEOREM InstanceIsOne == Spec => []OneInstance
<1>1. FlowInv => OneInstance
  BY DEF FlowInv, Made, OneInstance
<1> QED BY <1>1, Flow, PTL

\* No two goroutines run the guest together, although the root context is created
\* outside of Instance.Lock.
THEOREM GuestIsExclusive == Spec => []OneInGuest
<1>1. FlowInv => OneInGuest
  <2> SUFFICES ASSUME FlowInv, NEW r \in inGuest, NEW s \in inGuest
               PROVE r = s
    BY DEF OneInGuest
  <2>1. FlowTypes /\ Owners /\ r \in Requests /\ s \in Requests
        /\ r # Nobody /\ s # Nobody
    BY RequestsAssumption DEF FlowInv, FlowTypes, RequestsAssumption
  <2>2. pc[r] \in Calls /\ pc[s] \in Calls
    BY <2>1 DEF Owners
  <2>3. CASE pc[r] = "root" /\ pc[s] = "root"
    BY <2>1, <2>3 DEF Owners
  <2>4. CASE pc[r] # "root" /\ pc[s] # "root"
    BY <2>1, <2>2, <2>4 DEF Owners, Inside, Calls
  <2>5. CASE pc[r] = "root" /\ pc[s] # "root"
    BY <2>1, <2>2, <2>5 DEF Owners, Inside, Calls
  <2>6. CASE pc[r] # "root" /\ pc[s] = "root"
    BY <2>1, <2>2, <2>6 DEF Owners, Inside, Calls
  <2> QED BY <2>3, <2>4, <2>5, <2>6
<1> QED BY <1>1, Flow, PTL

\* The host calls of a request are answered by its own handler, and those for the root
\* context by the default one.
THEOREM HandlerIsOwn == Spec => []OwnHandler
<1>1. FlowInv => OwnHandler
  <2> SUFFICES ASSUME FlowInv PROVE OwnHandler
    OBVIOUS
  <2>1. FlowTypes /\ Owners
    BY DEF FlowInv
  <2>2. ASSUME NEW r \in inGuest, pc[r] = "root" PROVE Handler = DefaultImports
    <3>1. r \in Requests /\ onceBusy = r /\ r # Nobody
      BY <2>1, <2>2, RequestsAssumption DEF FlowTypes, Owners, RequestsAssumption
    <3>2. lock = Nobody
      BY <2>1, <3>1 DEF FlowTypes, Owners
    <3> QED BY <2>1, <3>2 DEF Owners, Handler
  <2>3. ASSUME NEW r \in inGuest, pc[r] # "root" PROVE Handler = r
    <3>1. r \in Requests /\ pc[r] \in {"create", "headers", "delete"}
      BY <2>1, <2>3 DEF FlowTypes, Owners, Calls
    <3>2. imports = r /\ lock = r /\ r # Nobody
      BY <2>1, <3>1, RequestsAssumption DEF Owners, Inside, RequestsAssumption
    <3> QED BY <2>1, <3>2 DEF Owners, Handler
  <2> QED BY <2>1, <2>2, <2>3 DEF OwnHandler, Owners
<1> QED BY <1>1, Flow, PTL

\* Unless a request has failed the Once is done only when the root context is there.
RootMade ==
  (\A r \in Requests : pc[r] # "failed") => (onceDone => RootContextID \in contexts)

LEMMA FailedStays ==
  ASSUME FlowTypes, Owners, NEW r \in Requests, RequestStep(r)
  PROVE  pc[r] # "failed"
<1>1. r \in inGuest => pc[r] # "failed"
  BY DEF Owners, Calls
<1> QED
  BY <1>1
  DEF RequestStep, GetContext, Load, StartInstance, NewID, EnterOnce, PassOnce, Lock,
      SetImports, Enter, NotFound, HostCall, Return, Trap, Calls

\* No call of the guest for a request takes the root context away.
LEMMA RootStays ==
  ASSUME Ids, NEW r \in Requests, pc[r] \in Calls, RootContextID \in contexts
  PROVE  RootContextID \in ContextsAfter(r)
<1>1. id[r] # RootContextID
  BY DEF Ids
<1> QED BY <1>1 DEF ContextsAfter, Calls

LEMMA RootMadeStep ==
  ASSUME FlowTypes, Owners, Ids, RootMade, [Next]_vars
  PROVE  RootMade'
<1>1. ASSUME NEW r \in Requests, RequestStep(r), ~NotFound(r), ~Return(r), ~Trap(r)
      PROVE  RootMade'
  <2>1. UNCHANGED <<onceDone, contexts>>
    BY <1>1
    DEF RequestStep, GetContext, Load, StartInstance, NewID, EnterOnce, PassOnce, Lock,
        SetImports, Enter, HostCall, once
  <2> QED BY <1>1, <2>1, FailedStays, OthersStay DEF RootMade
<1>2. ASSUME NEW r \in Requests, NotFound(r) \/ Trap(r)
      PROVE  RootMade'
  <2>1. pc'[r] = "failed"
    BY <1>2 DEF NotFound, Trap, Leave, Goto, FlowTypes
  <2> QED BY <2>1 DEF RootMade
<1>3. ASSUME NEW r \in Requests, Return(r)
      PROVE  RootMade'
  <2> SUFFICES ASSUME \A s \in Requests : pc'[s] # "failed", onceDone'
               PROVE  RootContextID \in contexts'
    BY DEF RootMade
  <2>1. RequestStep(r) /\ pc[r] \in Calls /\ contexts' = ContextsAfter(r)
    BY <1>3 DEF RequestStep, Return, Owners
  <2>2. CASE pc[r] = "root"
    BY <2>1, <2>2 DEF ContextsAfter
  <2>3. CASE pc[r] # "root"
    <3>1. onceDone
      BY <2>1, <2>3 DEF Owners, Inside, Calls
    <3>2. \A s \in Requests : pc[s] # "failed"
      BY <2>1, FailedStays, OthersStay
    <3> QED BY <2>1, <3>1, <3>2, RootStays DEF RootMade
  <2> QED BY <2>2, <2>3
<1>4. CASE UNCHANGED vars
  BY <1>4 DEF vars, once, RootMade
<1> QED BY <1>1, <1>2, <1>3, <1>4 DEF Next

\* No request operates on the guest before the root context is there, unless a request
\* has failed, for any number of requests.
THEOREM RootIsFirst == Spec => []RootFirst
<1>1. Init => RootMade
  BY DEF Init, RootMade
<1>2. FlowInv /\ RootMade /\ [Next]_vars => RootMade'
  BY RootMadeStep DEF FlowInv
<1>3. FlowInv /\ RootMade => RootFirst
  <2> SUFFICES ASSUME FlowTypes, Owners, RootMade, \A r \in Requests : pc[r] # "failed",
                      NEW r \in inGuest, pc[r] # "root"
               PROVE  RootContextID \in contexts
    BY DEF FlowInv, RootFirst
  <2>1. r \in Requests /\ pc[r] \in Inside
    BY DEF FlowTypes, Owners, Inside, Calls
  <2> QED BY <2>1 DEF Owners, RootMade
<1> QED BY <1>1, <1>2, <1>3, Flow, PTL DEF Spec

\* A request that got its reply has left no context in the guest, whatever other
\* requests do meanwhile and however they end.
THEOREM RepliedLeavesNothing == Spec => []RepliedLeavesNone
<1>1. Init => RepliedLeavesNone
  BY DEF Init, RepliedLeavesNone
<1>2. FlowInv /\ RepliedLeavesNone /\ [Next]_vars => RepliedLeavesNone'
  <2> SUFFICES ASSUME FlowInv, RepliedLeavesNone, [Next]_vars
               PROVE  RepliedLeavesNone'
    OBVIOUS
  <2>0. FlowTypes /\ Owners /\ Ids
    BY DEF FlowInv
  <2>1. ASSUME NEW r \in Requests, RequestStep(r), ~NewID(r), ~Return(r), ~Trap(r)
        PROVE  RepliedLeavesNone'
    <3>1. UNCHANGED <<contexts, id>>
      BY <2>1
      DEF RequestStep, GetContext, Load, StartInstance, EnterOnce, PassOnce, Lock,
          SetImports, Enter, NotFound, HostCall
    <3>2. pc'[r] # "replied" \/ pc'[r] = pc[r]
      BY <2>0, <2>1
      DEF RequestStep, GetContext, Load, StartInstance, EnterOnce, PassOnce, Lock,
          SetImports, Enter, NotFound, HostCall, Leave, Goto, FlowTypes
    <3> QED BY <2>0, <2>1, <3>1, <3>2, OthersStay DEF RepliedLeavesNone
  <2>2. ASSUME NEW r \in Requests, NewID(r) PROVE RepliedLeavesNone'
    <3>1. /\ contexts' = contexts /\ id[r] = 0
          /\ \A s \in Requests \ {r} : id'[s] = id[s] /\ pc'[s] = pc[s]
      BY <2>0, <2>2 DEF NewID, Goto, Ids, FlowTypes
    <3>2. 0 \notin contexts
      BY <2>0 DEF Ids
    <3> QED BY <3>1, <3>2 DEF RepliedLeavesNone
  <2>3. ASSUME NEW r \in Requests, Return(r) \/ Trap(r) PROVE RepliedLeavesNone'
    <3>1. /\ id' = id /\ \A s \in Requests \ {r} : pc'[s] = pc[s]
          /\ contexts' \in {contexts, ContextsAfter(r)} /\ pc[r] \in Calls
      BY <2>0, <2>3, OthersStay DEF RequestStep, Return, Trap, Owners
    <3>2. CASE pc'[r] # "replied"
      BY <3>1, <3>2, ContextsChange DEF RepliedLeavesNone
    <3>3. CASE pc'[r] = "replied"
      <4>1. Return(r) /\ pc[r] = "delete" /\ contexts' = ContextsAfter(r)
        BY <2>0, <2>3, <3>3, ReturnGoes DEF Return, Trap, Leave, Goto, FlowTypes
      <4>2. contexts' \subseteq contexts \ {id[r]}
        BY <3>1, <4>1, ContextsChange
      <4> QED BY <3>1, <4>2 DEF RepliedLeavesNone
    <3> QED BY <3>2, <3>3
  <2>4. CASE UNCHANGED vars
    BY <2>4 DEF vars, RepliedLeavesNone
  <2> QED BY <2>1, <2>2, <2>3, <2>4 DEF Next
<1> QED BY <1>1, <1>2, Flow, PTL DEF Spec
===============================================================================
