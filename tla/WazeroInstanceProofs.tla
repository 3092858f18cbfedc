------------------------- MODULE WazeroInstanceProofs -------------------------
(* Theorems about WazeroInstance, for every set of goroutines and any number of  *)
(* ABIs: typing, reference counting, and that the instance is a managed resource.*)
EXTENDS WazeroInstance, FiniteSetTheorems, TLAPS

-------------------------------------------------------------------------------
LEMMA TypeStep ==
  ASSUME TypeOK, [Next]_vars
  PROVE  TypeOK'
<1> USE NumABIsAssumption, MaxAcquireAssumption
    DEF NumABIsAssumption, MaxAcquireAssumption
<1>0. /\ BooleansOK /\ FieldsOK
      /\ UsersOK /\ StartersOK /\ StoppersOK /\ CallbacksOK
  BY DEF TypeOK
<1>1. ASSUME UNCHANGED user PROVE UsersOK'
  BY <1>0, <1>1 DEF user, UsersOK
<1>2. ASSUME UNCHANGED starter PROVE StartersOK'
  BY <1>0, <1>2 DEF starter, StartersOK
<1>3. ASSUME UNCHANGED stopper PROVE StoppersOK'
  BY <1>0, <1>3 DEF stopper, StoppersOK
<1>4. ASSUME UNCHANGED callbacks PROVE CallbacksOK'
  BY <1>0, <1>4 DEF callbacks, CallbacksOK
<1>5. ASSUME NEW u \in Users, UserStep(u) PROVE TypeOK'
  <2>1. UNCHANGED <<starter, stopper, callbacks, runtimeOpen, guest, begun>>
    BY <1>5 DEF UserStep, Acquire, Release, Lock, GetExportsFunc, Call, Unlock,
       fields, starter
  <2>4. BooleansOK'
    BY <1>0, <2>1 DEF BooleansOK
  <2>2. FieldsOK'
    BY <1>0, <1>5 DEF UserStep, Acquire, Release, Lock, GetExportsFunc, Call, Unlock,
       FieldsOK, fields, counting, owning, Woken
  <2>3. UsersOK'
    <3> USE <1>0 DEF UsersOK
    <3>1. CASE Acquire(u) BY <3>1 DEF Acquire
    <3>2. CASE Release(u) BY <3>2 DEF Release
    <3>3. CASE Lock(u) BY <3>3 DEF Lock
    <3>4. CASE GetExportsFunc(u) BY <3>4 DEF GetExportsFunc
    <3>5. CASE Call(u) BY <3>5 DEF Call
    <3>6. CASE Unlock(u) BY <3>6 DEF Unlock
    <3> QED BY <1>5, <3>1, <3>2, <3>3, <3>4, <3>5, <3>6 DEF UserStep
  <2> QED BY <1>2, <1>3, <1>4, <2>1, <2>2, <2>3, <2>4 DEF TypeOK
<1>6. ASSUME NEW s \in Starters, StarterStep(s) PROVE TypeOK'
  <2> USE DEF StarterStep, RegisterImports, RegisterUnstable, RegisterEnv, Start,
              StartWasi, StartABIList, StartCreate, StartGuest, StartCallback,
              StartSetInstance, StartPublish
  <2>1. UNCHANGED <<user, stopper>>
    BY <1>6
  <2>6. BooleansOK'
    BY <1>0, <1>6 DEF BooleansOK, fields, CloseRuntime
  <2>2. FieldsOK'
    <3>1. modules' \subseteq HostModules
      BY <1>0, <1>6 DEF FieldsOK, fields, CloseRuntime, HostModules
    <3>2. abis' \in {abis, NumABIs} /\ started' \in {started, 1}
      BY <1>6 DEF fields
    <3>3. UNCHANGED <<counting, owning>>
      BY <1>6
    <3> QED BY <1>0, <3>1, <3>2, <3>3 DEF FieldsOK, counting, owning
  <2>3. sidx[s] \in 1..(NumABIs + 1) /\ abis \in 0..NumABIs
    BY <1>0 DEF StartersOK, FieldsOK
  <2>4. StartersOK'
    <3>1. spc' \in [Starters -> {"idle", "wasi_unstable", "env", "wasi", "abiList",
                                 "create", "onStart", "publish"}]
      BY <1>0, <1>6 DEF StartersOK, Return, Goto
    <3>2. ret' \in [Starters -> {"none", "ok", "err", "panic"}]
      BY <1>0, <1>6 DEF StartersOK, Return, Goto
    <3>3. sidx' \in [Starters -> 1..(NumABIs + 1)]
      <4>1. CASE StartCreate(s) \/ StartCallback(s)
        BY <1>0, <2>3, <4>1 DEF StartersOK, More
      <4>2. CASE StartABIList(s) \/ StartGuest(s)
        BY <1>0, <4>2 DEF StartersOK
      <4>3. CASE UNCHANGED sidx
        BY <1>0, <4>3 DEF StartersOK
      <4> QED BY <1>6, <4>1, <4>2, <4>3
    <3> QED BY <3>1, <3>2, <3>3 DEF StartersOK
  <2>5. CallbacksOK'
    <3>1. CASE StartCreate(s)
      <4>1. /\ created' = [created EXCEPT ![sidx[s]] = @ + 1]
            /\ UNCHANGED <<onStart, destroyed>>
        BY <3>1
      <4>2. sidx[s] \in ABIs
        BY <2>3, <3>1 DEF More, ABIs
      <4> QED BY <1>0, <4>1, <4>2 DEF CallbacksOK
    <3>2. CASE StartCallback(s)
      <4>1. /\ onStart' = [onStart EXCEPT ![sidx[s]] = @ + 1]
            /\ UNCHANGED <<created, destroyed>>
        BY <3>2
      <4>2. sidx[s] \in ABIs
        BY <2>3, <3>2 DEF More, ABIs
      <4> QED BY <1>0, <4>1, <4>2 DEF CallbacksOK
    <3>3. CASE UNCHANGED callbacks
      BY <1>4, <3>3
    <3> QED BY <1>6, <3>1, <3>2, <3>3
  <2> QED BY <1>1, <1>3, <2>1, <2>2, <2>4, <2>5, <2>6 DEF TypeOK
<1>7. ASSUME NEW p \in Stoppers, StopperStep(p) PROVE TypeOK'
  <2> USE DEF StopperStep, Stop, StopWait, StopSwap, StopDestroy, StopClose
  <2>1. UNCHANGED <<user, starter>>
    BY <1>7
  <2>5. BooleansOK'
    BY <1>0, <1>7, <2>1 DEF BooleansOK, fields, CloseRuntime, starter
  <2>2. FieldsOK'
    BY <1>0, <1>7 DEF FieldsOK, fields, counting, owning, CloseRuntime
  <2>3. StoppersOK'
    <3> USE <1>0 DEF StoppersOK
    <3>1. CASE Stop(p) BY <3>1
    <3>2. CASE StopWait(p) BY <3>2 DEF stopper
    <3>3. CASE StopSwap(p) BY <3>3 DEF AfterSwap, checkStart
    <3>4. CASE StopDestroy(p) BY <3>4 DEF More, FieldsOK
    <3>5. CASE StopClose(p) BY <3>5
    <3> QED BY <1>7, <3>1, <3>2, <3>3, <3>4, <3>5
  <2>4. CallbacksOK'
    BY <1>0, <1>7 DEF CallbacksOK, callbacks
  <2> QED BY <1>1, <1>2, <2>1, <2>2, <2>3, <2>4, <2>5 DEF TypeOK
<1>8. CASE SetData \/ UNCHANGED vars
  BY <1>0, <1>1, <1>2, <1>3, <1>4, <1>8
  DEF vars, SetData, TypeOK, BooleansOK, FieldsOK, fields, counting, owning, starter
<1> QED BY <1>5, <1>6, <1>7, <1>8 DEF Next

\* The variables keep their types, whatever the clients do.
THEOREM TypeCorrect == Spec => []TypeOK
<1> USE NumABIsAssumption, MaxAcquireAssumption
    DEF NumABIsAssumption, MaxAcquireAssumption
<1>1. Init => TypeOK
  <2> SUFFICES ASSUME Init PROVE TypeOK
    OBVIOUS
  <2>0. BooleansOK BY DEF Init, BooleansOK
  <2>1. FieldsOK BY DEF Init, FieldsOK, HostModules
  <2>2. UsersOK BY DEF Init, UsersOK
  <2>3. StartersOK BY DEF Init, StartersOK
  <2>4. StoppersOK BY DEF Init, StoppersOK
  <2>5. CallbacksOK BY DEF Init, CallbacksOK, ABIs
  <2> QED BY <2>0, <2>1, <2>2, <2>3, <2>4, <2>5 DEF TypeOK
<1> QED BY <1>1, TypeStep, PTL DEF Spec
-------------------------------------------------------------------------------
LEMMA HoldersFinite == IsFiniteSet(Holders)
  BY UsersAssumption, FS_Subset DEF Holders, UsersAssumption

LEMMA OnlyUsersCount ==
  ASSUME [Next]_vars, ~(\E u \in Users : Acquire(u) \/ Release(u))
  PROVE  UNCHANGED <<refCount, holds>>
  BY DEF Next, vars, SetData, UserStep, StarterStep, StopperStep, Lock,
     GetExportsFunc, Call, Unlock, RegisterImports, RegisterUnstable, RegisterEnv, Start, StartWasi,
     StartABIList, StartCreate, StartGuest, StartCallback, StartSetInstance,
     StartPublish, Stop, StopWait, StopSwap, StopDestroy, StopClose, counting, user

\* The reference count is the number of users that hold a reference: no order of
\* Acquire, Release and Stop makes it drift.
THEOREM RefCounting == Spec => []RefCountIsHolders
<1>1. Init => RefCountIsHolders
  BY FS_EmptySet DEF Init, RefCountIsHolders, Holders
<1>2. TypeOK /\ RefCountIsHolders /\ [Next]_vars => RefCountIsHolders'
  <2> SUFFICES ASSUME TypeOK, RefCountIsHolders, [Next]_vars
               PROVE  RefCountIsHolders'
    OBVIOUS
  <2>0. Cardinality(Holders) \in Nat
    BY HoldersFinite, FS_CardinalityType
  <2>1. ASSUME NEW u \in Users, Acquire(u) PROVE RefCountIsHolders'
    <3>1. u \notin Holders /\ Holders' = Holders \cup {u}
      BY <2>1 DEF Acquire, Holders, TypeOK, UsersOK
    <3>2. Cardinality(Holders') = Cardinality(Holders) + 1
      BY <3>1, HoldersFinite, FS_AddElement
    <3> QED BY <2>0, <2>1, <3>2 DEF Acquire, RefCountIsHolders
  <2>2. ASSUME NEW u \in Users, Release(u) PROVE RefCountIsHolders'
    <3>1. u \in Holders /\ Holders' = Holders \ {u}
      BY <2>2 DEF Release, Holders, TypeOK, UsersOK
    <3>2. Cardinality(Holders') = Cardinality(Holders) - 1
      BY <3>1, HoldersFinite, FS_RemoveElement
    <3> QED BY <2>0, <2>2, <3>2 DEF Release, RefCountIsHolders
  <2>3. ASSUME UNCHANGED <<refCount, holds>> PROVE RefCountIsHolders'
    BY <2>3 DEF RefCountIsHolders, Holders
  <2> QED BY <2>1, <2>2, <2>3, OnlyUsersCount
<1> QED BY <1>1, <1>2, TypeCorrect, PTL DEF Spec

\* Stop, under the lock, finds no reference exactly when nobody holds one.
LEMMA NoReferences ==
  ASSUME RefCountIsHolders, ~References
  PROVE  \A u \in Users : ~holds[u]
  <1>1. Cardinality(Holders) \in Nat
    BY HoldersFinite, FS_CardinalityType
  <1>2. Cardinality(Holders) = 0
    BY <1>1 DEF RefCountIsHolders, References
  <1> QED BY <1>2, HoldersFinite, FS_EmptySet DEF Holders
-------------------------------------------------------------------------------
\* The part of the inductive invariant that says who may be where.
LEMMA OneLifeStep ==
  ASSUME TypeOK, RefCountIsHolders, OneLife, [Next]_vars
  PROVE  OneLife'
<1> USE DEF OneLife, InStart, Spent, Retired, CanInstantiate
<1>0. /\ spc \in [Starters -> {"idle", "wasi_unstable", "env", "wasi", "abiList",
                               "create", "onStart", "publish"}]
      /\ tpc \in [Stoppers -> {"idle", "stopping", "destroy", "close", "done"}]
      /\ swapped \in [Stoppers -> BOOLEAN]
      /\ holds \in [Users -> BOOLEAN]
      /\ started \in {0, 1}
  BY DEF TypeOK, StartersOK, StoppersOK, UsersOK, FieldsOK
<1>1. ASSUME NEW u \in Users, UserStep(u) PROVE OneLife'
  <2>1. UNCHANGED <<runtimeOpen, modules, guest, started, spc, swapped, tpc>>
    BY <1>1 DEF UserStep, Acquire, Release, Lock, GetExportsFunc, Call, Unlock,
       fields, starter, stopper
  <2>2. \A v \in Users : holds'[v] => started' = 1
    BY <1>0, <1>1, <2>1 DEF UserStep, Acquire, Release, Lock, GetExportsFunc, Call,
       Unlock, checkStart
  <2> QED BY <2>1, <2>2
<1>2. ASSUME NEW s \in Starters, StarterStep(s) PROVE OneLife'
  <2> USE <1>0 DEF Return, Goto, CloseRuntime, stopper, user, fields
  <2>1. ASSUME NEW abiName \in {"v1", "v2", "unknown"},
               RegisterImports(s, abiName) PROVE OneLife'
    BY ZenonT(40), <2>1 DEF RegisterImports
  <2>2. CASE RegisterUnstable(s) BY <2>2 DEF RegisterUnstable
  <2>3. CASE RegisterEnv(s) BY <2>3 DEF RegisterEnv
  <2>4. CASE Start(s) BY <2>4 DEF Start
  <2>5. CASE StartWasi(s) BY <2>5 DEF StartWasi
  <2>6. CASE StartABIList(s) BY <2>6 DEF StartABIList
  <2>7. CASE StartCreate(s) BY <2>7 DEF StartCreate
  <2>8. CASE StartGuest(s) BY <2>8 DEF StartGuest
  <2>9. CASE StartCallback(s) BY <2>9 DEF StartCallback
  <2>10. CASE StartSetInstance(s) BY <2>10 DEF StartSetInstance
  <2>11. CASE StartPublish(s) BY <2>11 DEF StartPublish
  <2> QED
    BY <1>2, <2>1, <2>2, <2>3, <2>4, <2>5, <2>6, <2>7, <2>8, <2>9, <2>10, <2>11
    DEF StarterStep
<1>3. ASSUME NEW p \in Stoppers, StopperStep(p) PROVE OneLife'
  <2> USE <1>0 DEF starter, user, stopper, fields
  <2>1. CASE Stop(p) BY <2>1 DEF Stop
  <2>2. CASE StopWait(p) BY <2>2 DEF StopWait
  <2>3. CASE StopSwap(p)
    <3>1. /\ UNCHANGED <<runtimeOpen, modules, guest, spc, holds>>
          /\ started' = 0
          /\ tpc[p] = "stopping"
      BY <2>3 DEF StopSwap
    <3>2. \A u \in Users : ~holds'[u]
      BY <2>3, <3>1, NoReferences DEF StopSwap
    <3>3. ~swapped[p]
      BY <3>1
    <3>4. CASE started = 1
      <4>1. /\ swapped' = [swapped EXCEPT ![p] = TRUE]
            /\ tpc' = [tpc EXCEPT ![p] = "destroy"]
        BY <2>3, <3>4 DEF StopSwap, checkStart, AfterSwap
      <4>2. Spent /\ guest /\ ~Retired
        BY <3>4
      <4>3. \A q \in Stoppers : swapped'[q] <=> q = p
        BY <4>1, <4>2
      <4> QED BY <3>1, <3>2, <3>4, <4>1, <4>2, <4>3
    <3>5. CASE started = 0
      <4>1. /\ swapped' = [swapped EXCEPT ![p] = FALSE]
            /\ tpc' = [tpc EXCEPT ![p] = "close"]
        <5>1. checkStart = FALSE
          BY <3>5 DEF checkStart
        <5> QED BY <2>3, <5>1 DEF StopSwap, AfterSwap
      <4>2. \A q \in Stoppers : swapped'[q] <=> swapped[q]
        BY <3>3, <4>1
      <4> QED BY <3>1, <3>2, <3>5, <4>1, <4>2
    <3> QED BY <1>0, <3>4, <3>5
  <2>4. CASE StopDestroy(p) BY <2>4 DEF StopDestroy
  <2>5. CASE StopClose(p) BY <2>5 DEF StopClose, CloseRuntime
  <2> QED BY <1>3, <2>1, <2>2, <2>3, <2>4, <2>5 DEF StopperStep
<1>4. CASE SetData \/ UNCHANGED vars
  BY <1>4 DEF SetData, vars, fields, user, starter, stopper
<1> QED BY <1>1, <1>2, <1>3, <1>4 DEF Next
-------------------------------------------------------------------------------
\* One more callback takes Upto(n) to Upto(n + 1).
LEMMA UptoNext ==
  ASSUME NEW n \in ABIs
  PROVE  [Upto(n) EXCEPT ![n] = @ + 1] = Upto(n + 1)
<1> DEFINE f == Upto(n)
           g == [f EXCEPT ![n] = @ + 1]
<1>1. n \in Int /\ \A k \in ABIs : k \in Int
  BY DEF ABIs
<1>2. f[n] = 0 /\ \A k \in ABIs : f[k] = IF k < n THEN 1 ELSE 0
  BY <1>1 DEF Upto
<1>3. g = [k \in ABIs |-> IF k = n THEN f[n] + 1 ELSE f[k]]
  BY DEF Upto
<1>4. \A k \in ABIs : (IF k = n THEN f[n] + 1 ELSE f[k]) = (IF k < n + 1 THEN 1 ELSE 0)
  BY <1>1, <1>2
<1> QED BY <1>3, <1>4 DEF Upto

\* A loop over the ABIs has an element left below the end, and none at the end.
LEMMA LoopIndex ==
  ASSUME NEW k \in 1..(NumABIs + 1), abis = NumABIs
  PROVE  /\ More(k) => k \in ABIs
         /\ ~More(k) => k = NumABIs + 1
  BY NumABIsAssumption DEF More, ABIs

\* The part of the inductive invariant that counts the callbacks.
LEMMA ProgressStep ==
  ASSUME TypeOK, OneLife, Progress, [Next]_vars
  PROVE  Progress'
<1> USE DEF Progress, Spent, CanInstantiate
<1>0. /\ spc \in [Starters -> {"idle", "wasi_unstable", "env", "wasi", "abiList",
                               "create", "onStart", "publish"}]
      /\ sidx \in [Starters -> 1..(NumABIs + 1)]
      /\ tidx \in [Stoppers -> 1..(NumABIs + 1)]
      /\ swapped \in [Stoppers -> BOOLEAN]
      /\ started \in {0, 1}
  BY DEF TypeOK, StartersOK, StoppersOK, FieldsOK
<1>1. ASSUME NEW u \in Users, UserStep(u) PROVE Progress'
  <2>1. UNCHANGED <<fields, starter, stopper, callbacks>>
    BY <1>1 DEF UserStep, Acquire, Release, Lock, GetExportsFunc, Call, Unlock
  <2> QED BY <2>1 DEF fields, starter, stopper, callbacks
<1>2. ASSUME NEW s \in Starters, StarterStep(s) PROVE Progress'
  <2> USE <1>0 DEF Return, Goto, CloseRuntime, stopper, fields, callbacks
  <2>1. ASSUME NEW abiName \in {"v1", "v2", "unknown"},
               RegisterImports(s, abiName) PROVE Progress'
    BY <2>1 DEF RegisterImports
  <2>2. CASE RegisterUnstable(s) BY <2>2 DEF RegisterUnstable
  <2>3. CASE RegisterEnv(s) BY <2>3 DEF RegisterEnv
  <2>4. CASE Start(s) BY <2>4 DEF Start
  <2>5. CASE StartWasi(s) BY <2>5 DEF StartWasi
  <2> USE DEF OneLife, InStart, Retired
  <2>6. CASE StartABIList(s) BY <2>6 DEF StartABIList, None
  <2>7. CASE StartCreate(s)
    <3>1. sidx[s] \in ABIs
      BY <2>7, LoopIndex DEF StartCreate
    <3>2. created' = Upto(sidx'[s])
      BY <2>7, <3>1, UptoNext DEF StartCreate
    <3>3. /\ spc[s] = "create" /\ UNCHANGED <<fields, spc, stopper, onStart, destroyed>>
          /\ \A t \in Starters \ {s} : sidx'[t] = sidx[t]
      BY <2>7 DEF StartCreate
    <3> QED BY <3>2, <3>3
  <2>8. CASE StartGuest(s)
    <3>1. created = All
      BY <2>8, LoopIndex DEF StartGuest, All
    <3> QED BY <2>8, <3>1 DEF StartGuest, None
  <2>9. CASE StartCallback(s)
    <3>1. sidx[s] \in ABIs
      BY <2>9, LoopIndex DEF StartCallback
    <3>2. onStart' = Upto(sidx'[s])
      BY <2>9, <3>1, UptoNext DEF StartCallback
    <3>3. /\ spc[s] = "onStart" /\ UNCHANGED <<fields, spc, stopper, created, destroyed>>
          /\ \A t \in Starters \ {s} : sidx'[t] = sidx[t]
      BY <2>9 DEF StartCallback
    <3> QED BY <3>2, <3>3
  <2>10. CASE StartSetInstance(s)
    <3>1. onStart = All
      BY <2>10, LoopIndex DEF StartSetInstance, All
    <3> QED BY <2>10, <3>1 DEF StartSetInstance
  <2>11. CASE StartPublish(s) BY <2>11 DEF StartPublish
  <2> QED
    BY <1>2, <2>1, <2>2, <2>3, <2>4, <2>5, <2>6, <2>7, <2>8, <2>9, <2>10, <2>11
    DEF StarterStep
<1>3. ASSUME NEW p \in Stoppers, StopperStep(p) PROVE Progress'
  <2> USE <1>0 DEF starter, stopper, fields, callbacks
  <2>1. CASE Stop(p) BY <2>1 DEF Stop
  <2>2. CASE StopWait(p) BY <2>2 DEF StopWait
  <2>3. CASE StopSwap(p)
    BY <2>3 DEF StopSwap, checkStart, AfterSwap, OneLife, Retired, None
  <2>4. CASE StopDestroy(p)
    <3>0. swapped[p]
      BY <2>4 DEF StopDestroy, OneLife
    <3>1. tidx[p] \in ABIs
      BY <2>4, <3>0, LoopIndex DEF StopDestroy
    <3>2. destroyed' = Upto(tidx'[p])
      BY <2>4, <3>0, <3>1, UptoNext DEF StopDestroy
    <3> QED BY <2>4, <3>0, <3>2 DEF StopDestroy, OneLife, Retired, InStart
  <2>5. CASE StopClose(p) BY <2>5 DEF StopClose, CloseRuntime
  <2> QED BY <1>3, <2>1, <2>2, <2>3, <2>4, <2>5 DEF StopperStep
<1>4. CASE SetData \/ UNCHANGED vars
  BY <1>4 DEF SetData, vars, fields, starter, stopper, callbacks
<1> QED BY <1>1, <1>2, <1>3, <1>4 DEF Next
LEMMA UptoValues ==
  ASSUME NEW n \in Int
  PROVE  \A k \in ABIs : Upto(n)[k] \in {0, 1} /\ None[k] = 0 /\ All[k] = 1
  BY NumABIsAssumption DEF Upto, None, All, ABIs

\* The steps that count a callback; the others leave the counts alone.
LEMMA CountingSteps ==
  ASSUME [Next]_vars,
         ~ \E s \in Starters : StartCreate(s) \/ StartCallback(s),
         ~ \E p \in Stoppers : StopDestroy(p)
  PROVE  UNCHANGED callbacks
  BY DEF Next, vars, SetData, UserStep, StarterStep, StopperStep, Acquire, Release, Lock,
     GetExportsFunc, Call, Unlock, RegisterImports, RegisterUnstable, RegisterEnv,
     Start, StartWasi, StartABIList, StartGuest, StartSetInstance, StartPublish,
     Stop, StopWait, StopSwap, StopClose

LEMMA CallbacksOnceStep ==
  ASSUME TypeOK, OneLife, Progress, OneLife', Progress', CallbacksOnce, [Next]_vars
  PROVE  CallbacksOnce'
<1>0. /\ \A s \in Starters : sidx'[s] \in Int
      /\ \A p \in Stoppers : tidx'[p] \in Int
  <2>1. /\ sidx' \in [Starters -> 1..(NumABIs + 1)]
        /\ tidx' \in [Stoppers -> 1..(NumABIs + 1)]
    BY TypeStep DEF TypeOK, StartersOK, StoppersOK
  <2> QED BY <2>1
<1>1. ASSUME NEW s \in Starters, StartCreate(s) PROVE CallbacksOnce'
  <2>1. /\ spc[s] = "create" /\ spc' = spc
        /\ onStart' = onStart /\ destroyed' = destroyed
    BY <1>1 DEF StartCreate
  <2>2. created' = Upto(sidx'[s]) /\ onStart' = None /\ destroyed' = None
    BY <1>0, <2>1 DEF Progress
  <2>3. sidx'[s] \in Int
    BY <1>0
  <2> QED BY <2>2, <2>3, UptoValues DEF CallbacksOnce
<1>2. ASSUME NEW s \in Starters, StartCallback(s) PROVE CallbacksOnce'
  <2>1. /\ spc[s] = "onStart" /\ spc' = spc
    BY <1>2 DEF StartCallback
  <2>2. created' = All /\ onStart' = Upto(sidx'[s]) /\ destroyed' = None
    BY <1>0, <2>1 DEF Progress
  <2>3. sidx'[s] \in Int
    BY <1>0
  <2> QED BY <2>2, <2>3, UptoValues DEF CallbacksOnce
<1>3. ASSUME NEW p \in Stoppers, StopDestroy(p) PROVE CallbacksOnce'
  <2>1. swapped[p] /\ swapped' = swapped
    BY <1>3 DEF StopDestroy, OneLife
  <2>2. created' = All /\ onStart' = All /\ destroyed' = Upto(tidx'[p])
    BY <2>1 DEF Progress
  <2>3. tidx'[p] \in Int
    BY <1>0
  <2> QED BY <2>2, <2>3, UptoValues DEF CallbacksOnce
<1>4. CASE UNCHANGED callbacks
  BY <1>4 DEF CallbacksOnce, callbacks
<1> QED BY <1>1, <1>2, <1>3, <1>4, CountingSteps

\* The inductive invariant: one life per runtime, whatever the clients do.
THEOREM Lifecycle == Spec => []LifecycleInv
<1>1. Init => LifecycleInv
  <2> SUFFICES ASSUME Init PROVE LifecycleInv
    OBVIOUS
  <2>1. OneLife
    BY DEF Init, OneLife, InStart, Spent, Retired, CanInstantiate
  <2>2. created = None /\ onStart = None /\ destroyed = None
    BY DEF Init, None, Upto, ABIs
  <2>3. Progress
    BY <2>2 DEF Init, Progress
  <2>4. CallbacksOnce
    BY DEF Init, CallbacksOnce
  <2> QED BY <2>1, <2>3, <2>4 DEF LifecycleInv
<1>2. TypeOK /\ RefCountIsHolders /\ LifecycleInv /\ [Next]_vars => LifecycleInv'
  BY OneLifeStep, ProgressStep, CallbacksOnceStep DEF LifecycleInv
<1> QED BY <1>1, <1>2, TypeCorrect, RefCounting, PTL DEF Spec

\* A referenced instance stays started, for any clients and any number of them.
THEOREM HeldStaysStarted == Spec => []HeldIsStarted
<1>1. LifecycleInv => HeldIsStarted
  BY DEF LifecycleInv, OneLife, HeldIsStarted
<1> QED BY <1>1, Lifecycle, PTL

\* Each ABI is told of creation, start and destruction at most once, in that order.
THEOREM CallbacksAtMostOnce == Spec => []CallbacksOnce
<1>1. LifecycleInv => CallbacksOnce
  BY DEF LifecycleInv
<1> QED BY <1>1, Lifecycle, PTL
-------------------------------------------------------------------------------
\* Of all the steps these five show in the managed resource; the others do not.
LEMMA VisibleSteps ==
  ASSUME [Next]_vars,
         ~ \E u \in Users : Acquire(u) \/ Release(u),
         ~ \E s \in Starters : StartPublish(s),
         ~ \E p \in Stoppers : StopSwap(p) \/ StopDestroy(p)
  PROVE  UNCHANGED <<started, swapped, holds, destroyed>>
  BY DEF Next, vars, SetData, UserStep, StarterStep, StopperStep, Lock,
     GetExportsFunc, Call, Unlock, RegisterImports, RegisterUnstable, RegisterEnv, Start, StartWasi,
     StartABIList, StartCreate, StartGuest, StartCallback, StartSetInstance,
     Stop, StopWait, StopClose, fields, stopper, user, callbacks

\* The instance implements a managed resource: it goes live once, is held only
\* while it is live, is retired only when nobody holds it, and tells each ABI then.
THEOREM ImplementsManagedResource == Spec => IsManagedResource
<1> USE DEF Resource!rvars
<1>1. Init => Resource!RInit
  BY DEF Init, Resource!RInit, Phase, Retired, Holders, ABIs
<1>2. TypeOK /\ RefCountIsHolders /\ LifecycleInv /\ [Next]_vars
        => [Resource!RNext]_(Resource!rvars)
  <2> SUFFICES ASSUME TypeOK, RefCountIsHolders, LifecycleInv, [Next]_vars
               PROVE  [Resource!RNext]_(Resource!rvars)
    OBVIOUS
  <2>0. /\ OneLife /\ Progress /\ started \in {0, 1}
        /\ holds \in [Users -> BOOLEAN] /\ swapped \in [Stoppers -> BOOLEAN]
    BY DEF LifecycleInv, TypeOK, FieldsOK, UsersOK, StoppersOK
  <2>1. ASSUME NEW u \in Users, Acquire(u) PROVE Resource!Hold(u)
    <3>1. UNCHANGED <<started, swapped, destroyed>> /\ started = 1 /\ ~holds[u]
      BY <2>1 DEF Acquire, fields, stopper, callbacks, checkStart
    <3>2. holds' = [holds EXCEPT ![u] = TRUE]
      BY <2>1 DEF Acquire
    <3>3. u \notin Holders /\ Holders' = Holders \cup {u}
      BY <2>0, <3>1, <3>2 DEF Holders
    <3> QED BY <3>1, <3>3 DEF Resource!Hold, Phase, Retired
  <2>2. ASSUME NEW u \in Users, Release(u) PROVE Resource!Drop(u)
    <3>1. UNCHANGED <<started, swapped, destroyed>> /\ holds[u]
      BY <2>2 DEF Release, fields, stopper, callbacks
    <3>2. holds' = [holds EXCEPT ![u] = FALSE]
      BY <2>2 DEF Release
    <3>3. u \in Holders /\ Holders' = Holders \ {u}
      BY <2>0, <3>1, <3>2 DEF Holders
    <3> QED BY <3>1, <3>3 DEF Resource!Drop, Phase, Retired
  <2>3. ASSUME NEW s \in Starters, StartPublish(s) PROVE Resource!GoLive
    <3>1. started = 0 /\ ~Retired /\ started' = 1 /\ UNCHANGED <<holds, destroyed>>
      BY <2>0, <2>3 DEF StartPublish, OneLife, InStart, user, callbacks
    <3> QED BY <3>1 DEF Resource!GoLive, Phase, Holders
  <2>4. ASSUME NEW p \in Stoppers, StopSwap(p)
        PROVE  Resource!Retire \/ UNCHANGED Resource!rvars
    <3>1. started' = 0 /\ UNCHANGED <<holds, destroyed>> /\ ~References
      BY <2>4 DEF StopSwap, user, callbacks
    <3>2. CASE started = 1
      <4>1. Holders = {}
        BY <3>1, NoReferences DEF Holders
      <4>2. swapped' = [swapped EXCEPT ![p] = TRUE]
        BY <2>4, <3>2 DEF StopSwap, checkStart
      <4>3. Retired'
        BY <2>0, <4>2 DEF Retired
      <4> QED BY <3>1, <3>2, <4>1, <4>3 DEF Resource!Retire, Phase, Holders
    <3>3. CASE started = 0
      <4>1. checkStart = FALSE
        BY <3>3 DEF checkStart
      <4>2. swapped[p] = FALSE
        BY <2>0, <2>4 DEF StopSwap, OneLife
      <4>3. swapped' = swapped
        BY <2>0, <2>4, <4>1, <4>2 DEF StopSwap
      <4> QED BY <3>1, <3>3, <4>3 DEF Phase, Retired, Holders
    <3> QED BY <2>0, <3>2, <3>3
  <2>5. ASSUME NEW p \in Stoppers, StopDestroy(p)
        PROVE  \E k \in 1..NumABIs : Resource!Tell(k)
    <3>1. /\ swapped[p] /\ UNCHANGED <<started, swapped, holds>>
          /\ destroyed' = [destroyed EXCEPT ![tidx[p]] = @ + 1]
          /\ tidx[p] \in 1..(NumABIs + 1) /\ More(tidx[p])
      BY <2>0, <2>5 DEF StopDestroy, OneLife, fields, user, TypeOK, StoppersOK
    <3>2. destroyed = Upto(tidx[p]) /\ abis = NumABIs /\ Retired /\ started = 0
      BY <2>0, <3>1 DEF Progress, OneLife, Retired
    <3>3. tidx[p] \in ABIs
      BY <3>1, <3>2, LoopIndex
    <3>4. destroyed[tidx[p]] = 0
      BY <3>2, <3>3 DEF Upto, ABIs
    <3>5. Phase = "retired" /\ Phase' = "retired" /\ Holders' = Holders
      BY <3>1, <3>2 DEF Phase, Retired, Holders
    <3>6. destroyed' = [destroyed EXCEPT ![tidx[p]] = 1]
      BY <3>1, <3>4
    <3>7. Resource!Tell(tidx[p])
      BY <3>4, <3>5, <3>6 DEF Resource!Tell
    <3> QED BY <3>3, <3>7 DEF ABIs
  <2>6. CASE UNCHANGED <<started, swapped, holds, destroyed>>
    BY <2>6 DEF Phase, Retired, Holders
  <2> QED BY <2>1, <2>2, <2>3, <2>4, <2>5, <2>6, VisibleSteps DEF Resource!RNext
<1> QED
  BY <1>1, <1>2, TypeCorrect, RefCounting, Lifecycle, PTL
  DEF Spec, IsManagedResource, Resource!RSpec

-------------------------------------------------------------------------------
\* i.data belongs to the goroutine between Lock and Unlock, for any clients, until one of
\* them calls SetData; no Lock or Unlock of another takes it away.
THEOREM OwnData == Spec => []DataIsOwners
<1>1. Init => DataIsOwners
  BY DEF Init, DataIsOwners
<1>2. TypeOK /\ DataIsOwners /\ [Next]_vars => DataIsOwners'
  <2> SUFFICES ASSUME TypeOK, DataIsOwners, [Next]_vars PROVE DataIsOwners'
    OBVIOUS
  <2>0. /\ upc \in [Users -> {"idle", "locked", "calling", "called"}]
        /\ \A u \in Users : u # NoOwner
    BY UsersAssumption DEF TypeOK, UsersOK, UsersAssumption
  <2>1. ASSUME NEW u \in Users, UserStep(u) PROVE DataIsOwners'
    BY <2>0, <2>1 DEF UserStep, Acquire, Release, Lock, GetExportsFunc, Call, Unlock,
       owning, DataIsOwners
  <2>2. ASSUME NEW s \in Starters, StarterStep(s) PROVE UNCHANGED <<owning, upc>>
    BY <2>2 DEF StarterStep, RegisterImports, RegisterUnstable, RegisterEnv, Start,
       StartWasi, StartABIList, StartCreate, StartGuest, StartCallback,
       StartSetInstance, StartPublish, user
  <2>3. ASSUME NEW p \in Stoppers, StopperStep(p) PROVE UNCHANGED <<owning, upc>>
    BY <2>3 DEF StopperStep, Stop, StopWait, StopSwap, StopDestroy, StopClose, user
  <2>4. ASSUME UNCHANGED <<owning, upc>> PROVE DataIsOwners'
    BY <2>4 DEF DataIsOwners, owning
  <2>5. CASE SetData
    BY <2>5 DEF SetData, DataIsOwners, user
  <2>6. CASE UNCHANGED vars
    BY <2>4, <2>6 DEF vars, user
  <2> QED BY <2>1, <2>2, <2>3, <2>4, <2>5, <2>6 DEF Next
<1> QED BY <1>1, <1>2, TypeCorrect, PTL DEF Spec

-------------------------------------------------------------------------------
(* Clients that keep to the order                                                *)

\* One of RegisterImports, Start and Stop follows the other: whoever is inside of one of
\* the first two is alone, and nobody is once Stop has been called or Start has
\* published the instance. Whatever closes the runtime comes before or after its life.
Sequential ==
  /\ \A s, t \in Starters : spc[s] # "idle" /\ spc[t] # "idle" => s = t
  /\ \A s \in Starters : spc[s] \in {"onStart", "publish"} => runtimeOpen
  /\ \A s \in Starters : spc[s] = "wasi" \/ InStart(s) => begun
  /\ \A p \in Stoppers : tpc[p] # "idle" => begun /\ Quiet
  /\ \A p \in Stoppers : tpc[p] \in {"destroy", "close", "done"} => started = 0
  /\ started = 1 => runtimeOpen /\ begun /\ Quiet

LEMMA SequentialStep ==
  ASSUME Ordered, TypeOK, OneLife, Sequential, [Next]_vars
  PROVE  Sequential'
<1> USE DEF Sequential, Quiet, InStart
<1>0. /\ spc \in [Starters -> {"idle", "wasi_unstable", "env", "wasi", "abiList",
                               "create", "onStart", "publish"}]
      /\ tpc \in [Stoppers -> {"idle", "stopping", "destroy", "close", "done"}]
      /\ started \in {0, 1}
  BY DEF TypeOK, StartersOK, StoppersOK, FieldsOK
<1>1. ASSUME NEW u \in Users, UserStep(u) PROVE Sequential'
  <2>1. UNCHANGED <<runtimeOpen, started, spc, tpc, begun>>
    BY <1>1 DEF UserStep, Acquire, Release, Lock, GetExportsFunc, Call, Unlock,
       fields, starter, stopper
  <2> QED BY <2>1
<1>2. ASSUME NEW s \in Starters, StarterStep(s) PROVE Sequential'
  <2> USE <1>0 DEF Return, Goto, CloseRuntime, CanInstantiate, stopper, fields
  <2>1. ASSUME NEW abiName \in {"v1", "v2", "unknown"},
               RegisterImports(s, abiName) PROVE Sequential'
    <3>1. /\ \A t \in Starters : spc[t] = "idle"
          /\ \A p \in Stoppers : tpc[p] = "idle"
          /\ UNCHANGED <<runtimeOpen, started, tpc, begun>>
      BY <2>1 DEF RegisterImports, MayRegister
    <3>2. CASE checkStart
      <4>1. spc' = [spc EXCEPT ![s] = "idle"]
        BY <2>1, <3>2 DEF RegisterImports
      <4> QED BY <3>1, <4>1
    <3>3. CASE ~checkStart
      <4>1. PICK place \in {"idle", "wasi_unstable", "env"} :
              spc' = [spc EXCEPT ![s] = place]
        BY <2>1, <3>3 DEF RegisterImports
      <4>2. started = 0
        BY <3>3 DEF checkStart
      <4> QED BY <3>1, <4>1, <4>2
    <3> QED BY <3>2, <3>3
  <2>2. CASE RegisterUnstable(s) BY <2>2 DEF RegisterUnstable
  <2>3. CASE RegisterEnv(s) BY <2>3 DEF RegisterEnv
  <2>4. CASE Start(s) BY <2>4 DEF Start, MayStart
  <2>5. CASE StartWasi(s) BY <2>5 DEF StartWasi
  <2>6. CASE StartABIList(s) BY <2>6 DEF StartABIList
  <2>7. CASE StartCreate(s) BY <2>7 DEF StartCreate
  <2>8. CASE StartGuest(s) BY <2>8 DEF StartGuest
  <2>9. CASE StartCallback(s) BY <2>9 DEF StartCallback
  <2>10. CASE StartSetInstance(s) BY <2>10 DEF StartSetInstance
  <2>11. CASE StartPublish(s) BY <2>11 DEF StartPublish
  <2> QED
    BY <1>2, <2>1, <2>2, <2>3, <2>4, <2>5, <2>6, <2>7, <2>8, <2>9, <2>10, <2>11
    DEF StarterStep
<1>3. ASSUME NEW p \in Stoppers, StopperStep(p) PROVE Sequential'
  <2> USE <1>0 DEF starter, stopper, fields
  <2>1. CASE Stop(p) BY <2>1 DEF Stop, MayStop
  <2>2. CASE StopWait(p) BY <2>2 DEF StopWait
  <2>3. CASE StopSwap(p)
    <3>1. tpc' \in [Stoppers -> {"idle", "stopping", "destroy", "close", "done"}]
          /\ \A q \in Stoppers : tpc'[q] # "idle" <=> tpc[q] # "idle"
      BY <2>3 DEF StopSwap, AfterSwap, checkStart
    <3> QED BY <2>3, <3>1 DEF StopSwap
  <2>4. CASE StopDestroy(p) BY <2>4 DEF StopDestroy
  <2>5. CASE StopClose(p) BY <2>5 DEF StopClose, CloseRuntime
  <2> QED BY <1>3, <2>1, <2>2, <2>3, <2>4, <2>5 DEF StopperStep
<1>4. CASE SetData \/ UNCHANGED vars
  BY <1>4 DEF SetData, vars, fields, starter, stopper
<1> QED BY <1>1, <1>2, <1>3, <1>4 DEF Next

\* What a user with a reference has got from its calls: never a refusal.
Served ==
  \A u \in Users :
    /\ upc[u] # "called" => res[u] = "none"
    /\ holds[u] => res[u] \notin {"notStarted", "closed"}

\* A user of an ordered client that holds a reference finds the runtime open and is
\* served, however many Stops are called meanwhile.
THEOREM HeldIsServed == Spec => []HeldRuntimeIsOpen
<1> DEFINE Inv == Ordered => Sequential /\ Served
<1>1. Init => Inv
  BY DEF Init, Sequential, Quiet, InStart, Served
<1>2. TypeOK /\ LifecycleInv /\ Inv /\ [Next]_vars => Inv'
  <2> SUFFICES ASSUME Ordered, TypeOK, OneLife, Sequential, Served, [Next]_vars
               PROVE  Sequential' /\ Served'
    BY DEF LifecycleInv
  <2>0. /\ upc \in [Users -> {"idle", "locked", "calling", "called"}]
        /\ holds \in [Users -> BOOLEAN]
        /\ res \in [Users -> {"none", "ok", "notStarted", "closed"}]
        /\ \A u \in Users : holds[u] => started = 1 /\ runtimeOpen
    BY DEF TypeOK, UsersOK, OneLife, Sequential
  <2>1. ASSUME NEW u \in Users, UserStep(u) PROVE Served'
    BY <2>0, <2>1 DEF UserStep, Acquire, Release, Lock, GetExportsFunc, Call, Unlock,
       checkStart, Served
  <2>2. ASSUME NEW s \in Starters, StarterStep(s) PROVE UNCHANGED <<upc, holds, res>>
    BY <2>2 DEF StarterStep, RegisterImports, RegisterUnstable, RegisterEnv, Start,
       StartWasi, StartABIList, StartCreate, StartGuest, StartCallback,
       StartSetInstance, StartPublish, user
  <2>3. ASSUME NEW p \in Stoppers, StopperStep(p) PROVE UNCHANGED <<upc, holds, res>>
    BY <2>3 DEF StopperStep, Stop, StopWait, StopSwap, StopDestroy, StopClose, user
  <2>4. ASSUME UNCHANGED <<upc, holds, res>> PROVE Served'
    BY <2>4 DEF Served
  <2>5. ASSUME SetData \/ UNCHANGED vars PROVE Served'
    BY <2>4, <2>5 DEF SetData, vars, user
  <2>6. Served'
    BY <2>1, <2>2, <2>3, <2>4, <2>5 DEF Next
  <2>7. Sequential'
    BY SequentialStep
  <2> QED BY <2>6, <2>7
<1>3. LifecycleInv /\ Inv => HeldRuntimeIsOpen
  <2> SUFFICES ASSUME OneLife, Ordered, Sequential, Served, NEW u \in Users, holds[u]
               PROVE  runtimeOpen /\ res[u] \notin {"notStarted", "closed"}
    BY DEF LifecycleInv, HeldRuntimeIsOpen
  <2>1. started = 1
    BY DEF OneLife
  <2>2. runtimeOpen
    BY <2>1 DEF Sequential
  <2>3. res[u] \notin {"notStarted", "closed"}
    BY DEF Served
  <2> QED BY <2>2, <2>3
<1> QED BY <1>1, <1>2, <1>3, TypeCorrect, Lifecycle, PTL DEF Spec

-------------------------------------------------------------------------------
\* What an ordered client's runtime has gone through once there is a guest: nobody but
\* a Stop closes it, and the Stop that swapped started closes it at the end of its loop.
Told ==
  /\ guest => Retired \/ started = 1 \/ \E s \in Starters : spc[s] = "publish"
  /\ guest /\ ~runtimeOpen => \E p \in Stoppers : tpc[p] = "done"
  /\ \A p \in Stoppers : tpc[p] = "close" => ~swapped[p]
  /\ \A p \in Stoppers : tpc[p] = "done" /\ swapped[p] => tidx[p] = NumABIs + 1

\* With a guest in place no starter is anywhere but before its publication.
LEMMA OnlyPublishing ==
  ASSUME TypeOK, OneLife, Sequential, Told, guest, NEW s \in Starters, spc[s] # "idle"
  PROVE  spc[s] = "publish"
<1>1. started # 1
  BY DEF Sequential, Quiet
<1>2. ~Retired
  BY DEF Sequential, Quiet, Retired, OneLife
<1> QED BY <1>1, <1>2 DEF Told, Sequential

LEMMA ToldStep ==
  ASSUME Ordered, TypeOK, LifecycleInv, Sequential, Told, [Next]_vars
  PROVE  Told'
<1>0. /\ spc \in [Starters -> {"idle", "wasi_unstable", "env", "wasi", "abiList",
                               "create", "onStart", "publish"}]
      /\ tpc \in [Stoppers -> {"idle", "stopping", "destroy", "close", "done"}]
      /\ swapped \in [Stoppers -> BOOLEAN]
      /\ tidx \in [Stoppers -> 1..(NumABIs + 1)]
      /\ started \in {0, 1} /\ OneLife /\ Progress
  BY DEF TypeOK, StartersOK, StoppersOK, FieldsOK, LifecycleInv
<1>1. ASSUME NEW u \in Users, UserStep(u) PROVE Told'
  <2>1. UNCHANGED <<runtimeOpen, guest, started, spc, stopper>>
    BY <1>1 DEF UserStep, Acquire, Release, Lock, GetExportsFunc, Call, Unlock,
       fields, starter
  <2> QED BY <2>1 DEF Told, Retired, stopper
<1>2. ASSUME NEW s \in Starters, StarterStep(s) PROVE Told'
  <2>1. UNCHANGED <<tpc, swapped, tidx>>
    BY <1>2 DEF StarterStep, RegisterImports, RegisterUnstable, RegisterEnv, Start,
       StartWasi, StartABIList, StartCreate, StartGuest, StartCallback,
       StartSetInstance, StartPublish, stopper
  <2>2. CASE StartSetInstance(s)
    <3>1. /\ spc[s] = "onStart" /\ spc' = [spc EXCEPT ![s] = "publish"]
          /\ UNCHANGED runtimeOpen
      BY <2>2 DEF StartSetInstance, Goto
    <3>2. runtimeOpen /\ spc'[s] = "publish"
      BY <1>0, <3>1 DEF Sequential
    <3> QED BY <2>1, <3>1, <3>2 DEF Told
  <2>3. CASE StartPublish(s)
    <3>1. started' = 1 /\ UNCHANGED <<runtimeOpen, guest>>
      BY <2>3 DEF StartPublish
    <3> QED BY <2>1, <3>1 DEF Told
  <2>4. CASE ~guest /\ ~StartSetInstance(s) /\ ~StartPublish(s)
    <3>1. guest' = guest
      BY <1>2, <2>4
      DEF StarterStep, RegisterImports, RegisterUnstable, RegisterEnv, Start,
          StartWasi, StartABIList, StartCreate, StartGuest, StartCallback, fields
    <3> QED BY <2>1, <2>4, <3>1 DEF Told
  <2>5. CASE guest /\ ~StartSetInstance(s) /\ ~StartPublish(s)
    <3>1. spc[s] = "idle" \/ spc[s] = "publish"
      BY <1>0, <2>5, OnlyPublishing
    <3>2. \/ Start(s)
          \/ \E abiName \in {"v1", "v2", "unknown"} : RegisterImports(s, abiName)
      BY <1>2, <2>5, <3>1
      DEF StarterStep, RegisterUnstable, RegisterEnv, StartWasi, StartABIList,
          StartCreate, StartGuest, StartCallback
    <3>3. UNCHANGED <<runtimeOpen, guest, started>>
      BY <3>2 DEF Start, RegisterImports, fields
    <3>4. Quiet
      BY <3>2 DEF Start, RegisterImports, MayStart, MayRegister
    <3> QED BY <2>1, <3>3, <3>4 DEF Told, Retired, Quiet
  <2> QED BY <2>2, <2>3, <2>4, <2>5
<1>3. ASSUME NEW p \in Stoppers, StopperStep(p) PROVE Told'
  <2>1. UNCHANGED <<guest, spc>>
    BY <1>3 DEF StopperStep, Stop, StopWait, StopSwap, StopDestroy, StopClose, fields,
       starter
  <2>2. CASE Stop(p)
    <3>1. /\ tpc[p] = "idle" /\ tpc' = [tpc EXCEPT ![p] = "stopping"]
          /\ UNCHANGED <<runtimeOpen, started, swapped, tidx>>
      BY <2>2 DEF Stop, fields
    <3> QED BY <1>0, <2>1, <3>1 DEF Told, Retired
  <2>3. CASE StopWait(p)
    BY <2>1, <2>3 DEF StopWait, Told, Retired, fields, stopper
  <2>4. CASE StopSwap(p)
    <3>1. /\ tpc[p] = "stopping" /\ started' = 0
          /\ swapped' = [swapped EXCEPT ![p] = (started = 1)]
          /\ tpc' = [tpc EXCEPT ![p] = IF started = 1 THEN "destroy" ELSE "close"]
          /\ UNCHANGED <<runtimeOpen, tidx>>
      BY <2>4 DEF StopSwap, AfterSwap, checkStart
    <3>2. guest => Retired'
      <4>1. started = 1 => swapped'[p]
        BY <1>0, <3>1
      <4>2. \A q \in Stoppers : swapped[q] => swapped'[q]
        BY <1>0, <3>1 DEF OneLife
      <4>3. guest => Retired \/ started = 1
        BY <3>1 DEF Told, Sequential, Quiet
      <4> QED BY <4>1, <4>2, <4>3 DEF Retired
    <3>3. \A q \in Stoppers : tpc[q] = "done" <=> tpc'[q] = "done"
      BY <1>0, <3>1
    <3>4. \A q \in Stoppers \ {p} : tpc'[q] = tpc[q] /\ swapped'[q] = swapped[q]
      BY <1>0, <3>1
    <3>5. tpc'[p] = "close" => ~swapped'[p]
      BY <1>0, <3>1
    <3>6. tpc'[p] # "done"
      BY <1>0, <3>1
    <3> QED BY <2>1, <3>1, <3>2, <3>3, <3>4, <3>5, <3>6 DEF Told
  <2>5. CASE StopDestroy(p)
    <3>1. /\ tpc[p] = "destroy" /\ tidx' = [tidx EXCEPT ![p] = tidx[p] + 1]
          /\ UNCHANGED <<runtimeOpen, started, swapped, tpc>>
      BY <2>5 DEF StopDestroy, fields
    <3> QED BY <1>0, <2>1, <3>1 DEF Told, Retired
  <2>6. CASE StopClose(p)
    <3>1. /\ tpc' = [tpc EXCEPT ![p] = "done"] /\ tpc'[p] = "done"
          /\ UNCHANGED <<started, swapped, tidx>>
      BY <1>0, <2>6 DEF StopClose
    <3>2. swapped[p] => tidx[p] = NumABIs + 1
      <4>1. CASE tpc[p] = "close"
        BY <4>1 DEF Told
      <4>2. CASE tpc[p] = "destroy" /\ ~More(tidx[p])
        BY <1>0, <4>2, LoopIndex DEF Progress
      <4> QED BY <2>6, <4>1, <4>2 DEF StopClose
    <3>3. \A q \in Stoppers \ {p} : tpc'[q] = tpc[q]
      BY <1>0, <3>1
    <3> QED BY <2>1, <3>1, <3>2, <3>3 DEF Told, Retired
  <2> QED BY <1>3, <2>2, <2>3, <2>4, <2>5, <2>6 DEF StopperStep
<1>4. CASE SetData \/ UNCHANGED vars
  BY <1>4 DEF SetData, vars, fields, starter, stopper, Told, Retired
<1> QED BY <1>1, <1>2, <1>3, <1>4 DEF Next

\* As long as an ordered client has called Stop once, its runtime closes only after every
\* ABI was told of its destruction, whatever Starts have failed and users still do.
THEOREM ToldFirst == Spec => []ToldBeforeClosed
<1> DEFINE Inv == Ordered => Sequential /\ Told
<1>1. Init => Inv
  BY DEF Init, Sequential, Quiet, InStart, Told
<1>2. TypeOK /\ LifecycleInv /\ Inv /\ [Next]_vars => Inv'
  <2> SUFFICES ASSUME Ordered, TypeOK, LifecycleInv, Sequential, Told, [Next]_vars
               PROVE  Sequential' /\ Told'
    OBVIOUS
  <2>1. OneLife
    BY DEF LifecycleInv
  <2> QED BY <2>1, SequentialStep, ToldStep
<1>3. TypeOK /\ LifecycleInv /\ Inv => ToldBeforeClosed
  <2> DEFINE Called == {p \in Stoppers : tpc[p] # "idle"}
  <2> SUFFICES ASSUME TypeOK, OneLife, Progress, Sequential, Told, guest, ~runtimeOpen,
                      Cardinality(Called) = 1
               PROVE  \A k \in 1..abis : destroyed[k] = 1
    BY DEF LifecycleInv, ToldBeforeClosed
  <2>1. PICK p \in Stoppers : tpc[p] = "done"
    BY DEF Told
  <2>2. Retired
    BY <2>1 DEF Told, Sequential, Quiet
  <2>3. PICK q \in Stoppers : swapped[q]
    BY <2>2 DEF Retired
  <2>4. p \in Called /\ q \in Called
    BY <2>1, <2>3 DEF OneLife
  <2>5. p = q
    <3>1. IsFiniteSet(Called)
      BY StoppersAssumption, FS_Subset DEF StoppersAssumption
    <3>2. PICK x : Called = {x}
      BY <3>1, FS_Singleton
    <3> QED BY <2>4, <3>2
  <2>6. destroyed = All /\ abis = NumABIs
    BY <2>1, <2>3, <2>5 DEF Told, Progress, All
  <2>7. All = [k \in 1..NumABIs |-> 1]
    BY NumABIsAssumption DEF All, Upto, ABIs, NumABIsAssumption
  <2> QED BY <2>6, <2>7
<1> QED BY <1>1, <1>2, <1>3, TypeCorrect, Lifecycle, PTL DEF Spec
===============================================================================
