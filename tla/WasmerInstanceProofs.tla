------------------------- MODULE WasmerInstanceProofs -------------------------
(* Theorems about WasmerInstance, for every set of goroutines, any number of     *)
(* ABIs and of Starts: typing, that the instance is a restartable resource, and  *)
(* what a client is promised that waits for each Stop to end.                    *)
EXTENDS WasmerInstance, FiniteSetTheorems, TLAPS

-------------------------------------------------------------------------------
\* What each kind of goroutine leaves alone.
LEMMA UsersLeave ==
  ASSUME NEW u \in Users, UserStep(u)
  PROVE  UNCHANGED <<patient, fields, starter, stopper, history>>
  BY DEF UserStep, Acquire, Release, Lock, GetExportsFunc, GetExportsMem, Malloc, Unlock

LEMMA StartersLeave ==
  ASSUME NEW s \in Starters, StarterStep(s)
  PROVE  UNCHANGED <<patient, counting, owning, user, stopper, retired, destroyed, told>>
<1> USE DEF lives, history
<1>1. ASSUME NEW abiName \in Known, RegisterImports(s, abiName)
      PROVE  UNCHANGED <<patient, counting, owning, user, stopper, history>>
  BY <1>1 DEF RegisterImports
<1>2. ASSUME Start(s) \/ StartGuest(s) \/ StartHostCall(s) \/ StartRun(s)
      PROVE  UNCHANGED <<patient, counting, owning, user, stopper, history>>
  BY <1>2 DEF Start, StartGuest, StartHostCall, StartRun
<1>3. ASSUME NEW place, NEW loop, StartRange(s, place, loop)
      PROVE  UNCHANGED <<patient, counting, owning, user, stopper, history>>
  BY <1>3 DEF StartRange
<1>4. ASSUME StartCreate(s) \/ StartCallback(s) \/ StartPublish(s)
      PROVE  UNCHANGED <<patient, counting, owning, user, stopper, retired,
                         destroyed, told>>
  BY <1>4 DEF StartCreate, StartCallback, StartPublish
<1> QED BY <1>1, <1>2, <1>3, <1>4 DEF StarterStep

LEMMA StoppersLeave ==
  ASSUME NEW p \in Stoppers, StopperStep(p)
  PROVE  /\ UNCHANGED <<patient, imports, abiList, guest, refCount, owning, caches>>
         /\ UNCHANGED <<user, starter, published, created, onStart>>
  BY DEF StopperStep, Stop, StopWait, StopSwap, StopRange, StopDestroy, fields,
     lives, history, counting

-------------------------------------------------------------------------------
\* The caches hold numbers of guests that were made.
LEMMA CachedGuest ==
  ASSUME TypeOK, NEW f \in {"export", "malloc"}
  PROVE  /\ Cached(funcCache[f]) \in 0..guest
         /\ Cached(memory) \in 0..guest
         /\ LookUp(f) => /\ memory' = memory
                         /\ funcCache' \in [{"export", "malloc"} -> 0..guest]
                         /\ funcCache'[f] \in 0..guest
         /\ LookUpMem => memory' \in 0..guest /\ funcCache' = funcCache
<1>1. funcCache \in [{"export", "malloc"} -> 0..guest] /\ memory \in 0..guest
      /\ guest \in 0..guest
  BY DEF TypeOK, FieldsOK
<1>2. Cached(funcCache[f]) \in 0..guest /\ Cached(memory) \in 0..guest
  BY <1>1 DEF Cached
<1> QED BY <1>1, <1>2 DEF LookUp, LookUpMem

LEMMA UserTypes ==
  ASSUME TypeOK, NEW u \in Users, UserStep(u)
  PROVE  TypeOK'
<1> USE MaxAcquireAssumption DEF MaxAcquireAssumption
<1>0. /\ patient \in BOOLEAN /\ FieldsOK
      /\ UsersOK /\ StartersOK /\ StoppersOK /\ HistoryOK
  BY DEF TypeOK
<1>1. UNCHANGED <<patient, fields, starter, stopper, history>>
  BY UsersLeave
<1>2. patient' \in BOOLEAN /\ StartersOK' /\ StoppersOK' /\ HistoryOK'
  BY <1>0, <1>1 DEF StartersOK, StoppersOK, HistoryOK, starter, stopper, history, lives
<1>3. /\ UNCHANGED <<imports, abiList, guest, started>>
  BY <1>1 DEF fields
<1>4. refCount' \in Int /\ waiting' \subseteq Stoppers
  BY <1>0 DEF FieldsOK, UserStep, Acquire, Release, Lock, GetExportsFunc, GetExportsMem,
     Malloc, Unlock, counting
<1>5. lock' \in Users \cup {NoOwner} /\ data' \in {lock', Preset}
  BY <1>0 DEF FieldsOK, UserStep, Acquire, Release, Lock, GetExportsFunc, GetExportsMem,
     Malloc, Unlock, owning
<1>6. /\ funcCache' \in [{"export", "malloc"} -> 0..guest]
      /\ memory' \in 0..guest
  <2>1. funcCache \in [{"export", "malloc"} -> 0..guest] /\ memory \in 0..guest
    BY <1>0 DEF FieldsOK
  <2>2. CASE GetExportsFunc(u)
    BY <2>1, <2>2, CachedGuest DEF GetExportsFunc
  <2>3. CASE GetExportsMem(u)
    BY <2>1, <2>3, CachedGuest DEF GetExportsMem
  <2>4. CASE Malloc(u)
    BY <2>1, <2>4, CachedGuest DEF Malloc
  <2>5. CASE UNCHANGED caches
    BY <2>1, <2>5 DEF caches
  <2> QED BY <2>2, <2>3, <2>4, <2>5 DEF UserStep, Acquire, Release, Lock, Unlock
<1>7. FieldsOK'
  BY <1>0, <1>3, <1>4, <1>5, <1>6 DEF FieldsOK
<1>8. UsersOK'
  <2> USE <1>0 DEF UsersOK
  <2>1. CASE Acquire(u) BY <1>3, <2>1 DEF Acquire
  <2>2. CASE Release(u) BY <1>3, <2>2 DEF Release
  <2>3. CASE Lock(u) BY <1>3, <2>3 DEF Lock
  <2>4. CASE GetExportsFunc(u)
    <3>1. funcCache'["export"] \in 0..guest
      BY <2>4, CachedGuest DEF GetExportsFunc
    <3> QED BY <1>3, <2>4, <3>1 DEF GetExportsFunc
  <2>5. CASE GetExportsMem(u)
    BY <1>3, <1>6, <2>5 DEF GetExportsMem
  <2>6. CASE Malloc(u)
    <3>1. funcCache'["malloc"] \in 0..guest
      BY <2>6, CachedGuest DEF Malloc
    <3> QED BY <1>3, <2>6, <3>1 DEF Malloc
  <2>7. CASE Unlock(u)
    <3>1. 0 \in 0..guest
      BY <1>0 DEF FieldsOK
    <3> QED BY <1>3, <2>7, <3>1 DEF Unlock
  <2> QED BY <2>1, <2>2, <2>3, <2>4, <2>5, <2>6, <2>7 DEF UserStep
<1> QED BY <1>2, <1>7, <1>8 DEF TypeOK

\* Another call counted in a table of calls leaves it a table of calls.
LEMMA OneCallMore ==
  ASSUME NEW table \in Calls, NEW g \in Numbers, NEW k \in ABIs
  PROVE  [table EXCEPT ![g][k] = @ + 1] \in Calls
  BY DEF Calls

\* A loop over a list has an element below its end.
LEMMA LoopIndex ==
  ASSUME NEW k \in 1..(NumABIs + 1)
  PROVE  /\ k <= NumABIs => k \in ABIs /\ k + 1 \in 1..(NumABIs + 1)
         /\ k > NumABIs => k = NumABIs + 1
  BY NumABIsAssumption DEF ABIs, NumABIsAssumption

LEMMA StarterTypes ==
  ASSUME TypeOK, NEW s \in Starters, StarterStep(s)
  PROVE  TypeOK'
<1> USE NumABIsAssumption, MaxStartsAssumption DEF NumABIsAssumption, MaxStartsAssumption
<1>0. /\ patient \in BOOLEAN /\ FieldsOK
      /\ UsersOK /\ StartersOK /\ StoppersOK /\ HistoryOK
  BY DEF TypeOK
<1>1. UNCHANGED <<patient, counting, owning, user, stopper, retired, destroyed, told>>
  BY StartersLeave
<1>2. /\ abiList \in Numbers /\ guest \in Nat /\ started \in {0, 1}
      /\ imports \subseteq Known
      /\ funcCache \in [{"export", "malloc"} -> 0..guest] /\ memory \in 0..guest
      /\ sidx[s] \in 1..(NumABIs + 1) /\ slist[s] \in Numbers
      /\ 0 \in Numbers /\ 1 \in 1..(NumABIs + 1)
  BY <1>0 DEF FieldsOK, StartersOK, Numbers
<1>3. /\ imports' \subseteq Known
      /\ abiList' \in Numbers
      /\ guest' \in Nat /\ guest' \in {guest, guest + 1}
      /\ started' \in {0, 1}
  <2>1. ASSUME NEW abiName \in Known, RegisterImports(s, abiName)
        PROVE  imports' \subseteq Known /\ UNCHANGED <<abiList, guest, started>>
    BY <1>2, <2>1 DEF RegisterImports, registerFunc
  <2>2. CASE Start(s)
    <3>1. abiList' \in Numbers
      BY <1>2, <2>2 DEF Start, MayStart, Numbers
    <3> QED BY <1>2, <2>2, <3>1 DEF Start
  <2>3. CASE StartGuest(s)
    BY <1>2, <2>3 DEF StartGuest
  <2>4. CASE StartPublish(s)
    BY <1>2, <2>4 DEF StartPublish
  <2>5. CASE UNCHANGED fields
    BY <1>2, <2>5 DEF fields
  <2> QED
    BY <1>2, <2>1, <2>2, <2>3, <2>4, <2>5
    DEF StarterStep, StartRange, StartCreate, StartHostCall, StartRun, StartCallback
<1>4. 0..guest \subseteq 0..guest'
  BY <1>2, <1>3
<1>5. funcCache' \in [{"export", "malloc"} -> 0..guest'] /\ memory' \in 0..guest'
  <2>1. CASE StartHostCall(s)
    <3>1. /\ funcCache' \in [{"export", "malloc"} -> 0..guest]
          /\ memory' \in 0..guest
      BY <1>2, <2>1, CachedGuest DEF StartHostCall
    <3> QED BY <1>4, <3>1
  <2>2. CASE UNCHANGED caches
    BY <1>2, <1>4, <2>2 DEF caches
  <2> QED
    BY <2>1, <2>2
    DEF StarterStep, RegisterImports, Start, StartRange, StartCreate, StartGuest,
        StartRun, StartCallback, StartPublish
<1>6. FieldsOK'
  BY <1>0, <1>1, <1>3, <1>5 DEF FieldsOK, counting, owning
<1>7. UsersOK' /\ StoppersOK' /\ patient' \in BOOLEAN
  <2>1. UNCHANGED <<upc, holds, left, fun, seen, tpc, tidx, tlist, patient>>
    BY <1>1 DEF user, stopper
  <2>2. /\ fun' \in [Users -> 0..guest']
        /\ seen' \in [Users -> SUBSET (0..guest')]
    BY <1>0, <1>4, <2>1 DEF UsersOK
  <2> QED BY <1>0, <2>1, <2>2 DEF UsersOK, StoppersOK
<1>8. StartersOK'
  <2> USE <1>0, <1>2, <1>3 DEF StartersOK, Return, Goto
  <2>1. ASSUME NEW abiName \in Known, RegisterImports(s, abiName) PROVE StartersOK'
    BY <2>1 DEF RegisterImports, starter
  <2>2. CASE Start(s) BY <2>2 DEF Start
  <2>3. CASE StartRange(s, "abiList", "create") BY <2>3 DEF StartRange
  <2>4. CASE StartCreate(s) BY <2>4, LoopIndex DEF StartCreate
  <2>5. CASE StartGuest(s) BY <2>5 DEF StartGuest
  <2>6. CASE StartHostCall(s) BY <2>6 DEF StartHostCall, starter
  <2>7. CASE StartRun(s) BY <2>7 DEF StartRun
  <2>8. CASE StartRange(s, "started", "onStart") BY <2>8 DEF StartRange
  <2>9. CASE StartCallback(s) BY <2>9, LoopIndex DEF StartCallback
  <2>10. CASE StartPublish(s) BY <2>10 DEF StartPublish
  <2> QED
    BY <2>1, <2>2, <2>3, <2>4, <2>5, <2>6, <2>7, <2>8, <2>9, <2>10 DEF StarterStep
<1>9. HistoryOK'
  <2> USE <1>0 DEF HistoryOK
  <2>1. CASE StartCreate(s)
    <3>1. created' \in Calls
      BY <1>2, <2>1, LoopIndex, OneCallMore DEF StartCreate
    <3> QED BY <1>1, <2>1, <3>1 DEF StartCreate, lives
  <2>2. CASE StartCallback(s)
    <3>1. onStart' \in Calls
      BY <1>2, <2>2, LoopIndex, OneCallMore DEF StartCallback
    <3> QED BY <1>1, <2>2, <3>1 DEF StartCallback, lives
  <2>3. CASE StartPublish(s)
    BY <1>1, <2>3 DEF StartPublish
  <2>4. CASE UNCHANGED history
    BY <2>4 DEF history, lives
  <2> QED
    BY <2>1, <2>2, <2>3, <2>4
    DEF StarterStep, RegisterImports, Start, StartRange, StartGuest, StartHostCall,
        StartRun
<1> QED BY <1>6, <1>7, <1>8, <1>9 DEF TypeOK

LEMMA StopperTypes ==
  ASSUME TypeOK, NEW p \in Stoppers, StopperStep(p)
  PROVE  TypeOK'
<1> USE NumABIsAssumption DEF NumABIsAssumption
<1>0. /\ patient \in BOOLEAN /\ FieldsOK
      /\ UsersOK /\ StartersOK /\ StoppersOK /\ HistoryOK
  BY DEF TypeOK
<1>1. /\ UNCHANGED <<patient, imports, abiList, guest, refCount, owning, caches>>
      /\ UNCHANGED <<user, starter, published, created, onStart>>
  BY StoppersLeave
<1>2. UsersOK' /\ StartersOK' /\ patient' \in BOOLEAN
  BY <1>0, <1>1 DEF UsersOK, StartersOK, user, starter
<1>3. FieldsOK'
  <2>1. started' \in {0, 1} /\ waiting' \subseteq Stoppers
    BY <1>0 DEF FieldsOK, StopperStep, Stop, StopWait, StopSwap, StopRange, StopDestroy,
       fields, counting
  <2> QED BY <1>0, <1>1, <2>1 DEF FieldsOK, owning, caches
<1>4. tidx[p] \in 1..(NumABIs + 1) /\ tlist[p] \in Numbers /\ abiList \in Numbers
  BY <1>0 DEF StoppersOK, FieldsOK
<1>5. StoppersOK'
  <2> USE <1>0, <1>4 DEF StoppersOK
  <2>1. CASE Stop(p) BY <2>1 DEF Stop
  <2>2. CASE StopWait(p) BY <2>2 DEF StopWait, stopper
  <2>3. CASE StopSwap(p) BY <2>3 DEF StopSwap, AfterSwap
  <2>4. CASE StopRange(p) BY <2>4 DEF StopRange
  <2>5. CASE StopDestroy(p) BY <2>5, LoopIndex DEF StopDestroy
  <2> QED BY <2>1, <2>2, <2>3, <2>4, <2>5 DEF StopperStep
<1>6. HistoryOK'
  <2> USE <1>0 DEF HistoryOK
  <2>1. CASE StopSwap(p)
    <3>1. retired + started \in Nat
      BY DEF FieldsOK
    <3> QED BY <2>1, <3>1 DEF StopSwap
  <2>2. CASE StopDestroy(p)
    <3>1. destroyed' \in Calls
      <4>1. CASE tidx[p] <= NumABIs
        <5>1. tidx[p] \in ABIs
          BY <1>4, <4>1, LoopIndex
        <5>2. destroyed' = [destroyed EXCEPT ![tlist[p]][tidx[p]] = @ + 1]
          BY <2>2, <4>1 DEF StopDestroy
        <5> QED BY <1>4, <5>1, <5>2, OneCallMore
      <4>2. CASE ~(tidx[p] <= NumABIs)
        BY <2>2, <4>2 DEF StopDestroy
      <4> QED BY <4>1, <4>2
    <3>2. told' \in [ABIs -> Nat]
      BY <1>4, <2>2, LoopIndex DEF StopDestroy
    <3>3. UNCHANGED <<published, retired, created, onStart>>
      BY <2>2 DEF StopDestroy, lives
    <3> QED BY <3>1, <3>2, <3>3
  <2>3. CASE UNCHANGED history
    BY <2>3 DEF history, lives
  <2> QED BY <2>1, <2>2, <2>3 DEF StopperStep, Stop, StopWait, StopRange
<1> QED BY <1>2, <1>3, <1>5, <1>6 DEF TypeOK

LEMMA TypeStep ==
  ASSUME TypeOK, [Next]_vars
  PROVE  TypeOK'
<1>1. CASE SetData \/ UNCHANGED vars
  BY <1>1 DEF SetData, vars, fields, counting, owning, caches, user, starter, stopper,
     history, lives, TypeOK, FieldsOK, UsersOK, StartersOK, StoppersOK, HistoryOK
<1> QED BY <1>1, UserTypes, StarterTypes, StopperTypes DEF Next

\* The variables keep their types, whatever the clients do and however often they
\* start the instance again.
THEOREM TypeCorrect == Spec => []TypeOK
<1> USE NumABIsAssumption, MaxAcquireAssumption, MaxStartsAssumption
    DEF NumABIsAssumption, MaxAcquireAssumption, MaxStartsAssumption
<1>1. Init => TypeOK
  <2> SUFFICES ASSUME Init PROVE TypeOK
    OBVIOUS
  <2>1. FieldsOK BY DEF Init, FieldsOK, Numbers
  <2>2. UsersOK BY DEF Init, UsersOK
  <2>3. StartersOK BY DEF Init, StartersOK, Numbers
  <2>4. StoppersOK BY DEF Init, StoppersOK, Numbers
  <2>5. HistoryOK BY DEF Init, HistoryOK, Calls
  <2> QED BY <2>1, <2>2, <2>3, <2>4, <2>5 DEF TypeOK, Init
<1> QED BY <1>1, TypeStep, PTL DEF Spec
-------------------------------------------------------------------------------
Winners == {p \in Stoppers : tpc[p] \in {"swapped", "destroy", "told"}}
Tellers(k) == {p \in Stoppers : tidx[p] > k}

\* The reference count is the number of holders, who keep the instance started; as
\* many Stops as have retired it are on their way to tell the ABIs or have done so.
CountInv ==
  /\ refCount = Cardinality(Holders)
  /\ \A u \in Users : holds[u] => started = 1
  /\ retired = Cardinality(Winners)
  /\ \A p \in Stoppers : tidx[p] > 1 => tpc[p] \in {"destroy", "told"}
  /\ \A k \in ABIs : told[k] = Cardinality(Tellers(k))

LEMMA HoldersFinite == IsFiniteSet(Holders)
  BY UsersAssumption, FS_Subset DEF Holders, UsersAssumption

LEMMA WinnersFinite == IsFiniteSet(Winners)
  BY StoppersAssumption, FS_Subset DEF Winners, StoppersAssumption

LEMMA TellersFinite == \A k : IsFiniteSet(Tellers(k))
  BY StoppersAssumption, FS_Subset DEF Tellers, StoppersAssumption

\* Stop, under the lock, finds no reference exactly when nobody holds one.
LEMMA NoReferences ==
  ASSUME CountInv, ~References
  PROVE  Holders = {}
  <1>1. Cardinality(Holders) \in Nat
    BY HoldersFinite, FS_CardinalityType
  <1>2. Cardinality(Holders) = 0
    BY <1>1 DEF CountInv, References
  <1> QED BY <1>2, HoldersFinite, FS_EmptySet

\* The steps of users that count references, and the others.
LEMMA OnlyUsersCount ==
  ASSUME NEW u \in Users, UserStep(u), ~Acquire(u), ~Release(u)
  PROVE  UNCHANGED <<refCount, holds>>
  BY DEF UserStep, Lock, GetExportsFunc, GetExportsMem, Malloc, Unlock, counting

LEMMA CountStep ==
  ASSUME TypeOK, CountInv, [Next]_vars
  PROVE  CountInv'
<1> USE DEF CountInv
<1>0. /\ holds \in [Users -> BOOLEAN] /\ started \in {0, 1}
      /\ tpc \in [Stoppers -> {"idle", "stopping", "swapped", "destroy", "told", "done"}]
      /\ tidx \in [Stoppers -> 1..(NumABIs + 1)]
      /\ Cardinality(Holders) \in Nat /\ Cardinality(Winners) \in Nat
      /\ told \in [ABIs -> Nat]
  BY HoldersFinite, WinnersFinite, FS_CardinalityType
  DEF TypeOK, UsersOK, StoppersOK, FieldsOK, HistoryOK
<1>1. ASSUME NEW u \in Users, UserStep(u) PROVE CountInv'
  <2>1. UNCHANGED <<started, tpc, tidx, retired, told>>
    BY <1>1, UsersLeave DEF fields, stopper, history, lives
  <2>2. Winners' = Winners /\ \A k : Tellers(k)' = Tellers(k)
    BY <2>1 DEF Winners, Tellers
  <2>3. CASE Acquire(u)
    <3>1. u \notin Holders /\ Holders' = Holders \cup {u} /\ started = 1
      BY <1>0, <2>3 DEF Acquire, Holders, checkStart
    <3>2. Cardinality(Holders') = Cardinality(Holders) + 1
      BY <3>1, HoldersFinite, FS_AddElement
    <3>3. refCount' = refCount + 1
      BY <2>3 DEF Acquire
    <3> QED BY <2>1, <2>2, <3>1, <3>2, <3>3
  <2>4. CASE Release(u)
    <3>1. u \in Holders /\ Holders' = Holders \ {u}
      BY <1>0, <2>4 DEF Release, Holders
    <3>2. Cardinality(Holders') = Cardinality(Holders) - 1
      BY <3>1, HoldersFinite, FS_RemoveElement
    <3>3. refCount' = refCount - 1
      BY <2>4 DEF Release
    <3>4. \A v \in Users : holds'[v] => started' = 1
      BY <1>0, <2>1, <2>4 DEF Release
    <3> QED BY <2>1, <2>2, <3>2, <3>3, <3>4
  <2>5. CASE UNCHANGED <<refCount, holds>>
    BY <2>1, <2>2, <2>5 DEF Holders
  <2> QED BY <1>1, <2>3, <2>4, <2>5, OnlyUsersCount
<1>2. ASSUME NEW s \in Starters, StarterStep(s) PROVE CountInv'
  <2>1. UNCHANGED <<refCount, holds, tpc, tidx, retired, told>>
    BY <1>2, StartersLeave DEF counting, user, stopper
  <2>2. /\ Winners' = Winners /\ Holders' = Holders
        /\ \A k : Tellers(k)' = Tellers(k)
    BY <2>1 DEF Winners, Tellers, Holders
  <2>3. started' \in {started, 1}
    BY <1>2
    DEF StarterStep, RegisterImports, Start, StartRange, StartCreate, StartGuest,
        StartHostCall, StartRun, StartCallback, StartPublish, fields
  <2> QED BY <2>1, <2>2, <2>3
<1>3. ASSUME NEW p \in Stoppers, StopperStep(p) PROVE CountInv'
  <2>1. UNCHANGED <<refCount, holds>>
    BY <1>3, StoppersLeave DEF user
  <2>2. Holders' = Holders
    BY <2>1 DEF Holders
  <2>3. CASE Stop(p) \/ StopWait(p) \/ StopRange(p)
    <3>1. UNCHANGED <<started, tidx, retired, told>>
      BY <2>3 DEF Stop, StopWait, StopRange, fields, stopper, history, lives
    <3>2. Winners' = Winners /\ \A k : Tellers(k)' = Tellers(k)
      BY <1>0, <2>3, <3>1 DEF Stop, StopWait, StopRange, stopper, Winners, Tellers
    <3>3. \A q \in Stoppers : tidx'[q] > 1 => tpc'[q] \in {"destroy", "told"}
      BY <1>0, <2>3, <3>1 DEF Stop, StopWait, StopRange, stopper
    <3> QED BY <2>1, <2>2, <3>1, <3>2, <3>3
  <2>4. CASE StopSwap(p)
    <3>1. /\ tpc[p] = "stopping" /\ started' = 0 /\ UNCHANGED <<tidx, told>>
          /\ retired' = retired + started
          /\ tpc' = [tpc EXCEPT ![p] = AfterSwap(checkStart)]
      BY <2>4 DEF StopSwap
    <3>2. \A u \in Users : ~holds[u]
      BY <2>4, NoReferences DEF StopSwap, Holders
    <3>3. \A k : Tellers(k)' = Tellers(k)
      BY <3>1 DEF Tellers
    <3>4. \A q \in Stoppers : tidx'[q] > 1 => tpc'[q] \in {"destroy", "told"}
      BY <1>0, <3>1
    <3>5. retired' = Cardinality(Winners')
      <4>1. CASE started = 1
        <5>1. tpc' = [tpc EXCEPT ![p] = "swapped"]
          BY <3>1, <4>1 DEF checkStart, AfterSwap
        <5>2. p \notin Winners /\ Winners' = Winners \cup {p}
          BY <1>0, <3>1, <5>1 DEF Winners
        <5>3. Cardinality(Winners') = Cardinality(Winners) + 1
          BY <5>2, WinnersFinite, FS_AddElement
        <5> QED BY <1>0, <3>1, <4>1, <5>3
      <4>2. CASE started = 0
        <5>1. tpc' = [tpc EXCEPT ![p] = "done"]
          BY <3>1, <4>2 DEF checkStart, AfterSwap
        <5>2. Winners' = Winners
          BY <1>0, <3>1, <5>1 DEF Winners
        <5> QED BY <1>0, <3>1, <4>2, <5>2
      <4> QED BY <1>0, <4>1, <4>2
    <3> QED BY <2>1, <2>2, <3>1, <3>2, <3>3, <3>4, <3>5
  <2>5. CASE StopDestroy(p)
    <3>1. tpc[p] = "destroy" /\ UNCHANGED <<started, retired>>
      BY <2>5 DEF StopDestroy, fields, lives
    <3>2. Winners' = Winners
      BY <1>0, <2>5, <3>1 DEF StopDestroy, Winners
    <3>3. \A q \in Stoppers : tidx'[q] > 1 => tpc'[q] \in {"destroy", "told"}
      BY <1>0, <2>5, <3>1 DEF StopDestroy
    <3>4. \A k \in ABIs : told'[k] = Cardinality(Tellers(k)')
      <4>1. CASE tidx[p] <= NumABIs
        <5>0. PICK n \in ABIs : n = tidx[p]
          BY <1>0, <4>1, LoopIndex
        <5>1. /\ tidx' = [tidx EXCEPT ![p] = n + 1]
              /\ told' = [told EXCEPT ![n] = @ + 1]
              /\ n \in Int
          BY <2>5, <4>1, <5>0 DEF StopDestroy, ABIs
        <5>2. p \notin Tellers(n) /\ Tellers(n)' = Tellers(n) \cup {p}
          BY <1>0, <5>0, <5>1 DEF Tellers
        <5>3. Cardinality(Tellers(n)') = Cardinality(Tellers(n)) + 1
          BY <5>2, TellersFinite, FS_AddElement
        <5>4. \A k \in ABIs \ {n} : Tellers(k)' = Tellers(k)
          BY <1>0, <5>0, <5>1 DEF Tellers, ABIs
        <5>5. told'[n] = told[n] + 1 /\ \A k \in ABIs \ {n} : told'[k] = told[k]
          BY <1>0, <5>1
        <5> QED
          <6>1. told'[n] = Cardinality(Tellers(n)')
            <7>1. told[n] = Cardinality(Tellers(n))
              OBVIOUS
            <7> QED BY <5>3, <5>5, <7>1
          <6>2. \A k \in ABIs \ {n} : told'[k] = Cardinality(Tellers(k)')
            BY <5>4, <5>5
          <6> QED BY <6>1, <6>2
      <4>2. CASE ~(tidx[p] <= NumABIs)
        BY <2>5, <4>2 DEF StopDestroy, Tellers
      <4> QED BY <4>1, <4>2
    <3> QED BY <2>1, <2>2, <3>1, <3>2, <3>3, <3>4
  <2> QED BY <1>3, <2>3, <2>4, <2>5 DEF StopperStep
<1>4. CASE SetData \/ UNCHANGED vars
  BY <1>4 DEF SetData, vars, fields, counting, user, stopper, history, lives, Holders,
     Winners, Tellers
<1> QED BY <1>1, <1>2, <1>3, <1>4 DEF Next

\* Whatever the clients do, the references that Stop waits for are those of the
\* holders, and the callbacks of destruction those of the Stops that swapped started.
THEOREM Counting == Spec => []CountInv
<1>1. Init => CountInv
  <2> SUFFICES ASSUME Init PROVE CountInv
    OBVIOUS
  <2>1. Holders = {} /\ Winners = {}
    BY DEF Init, Holders, Winners
  <2>2. \A k \in ABIs : Tellers(k) = {} /\ told[k] = 0
    BY DEF Init, Tellers, ABIs
  <2>3. Cardinality({}) = 0
    BY FS_EmptySet
  <2>4. \A k \in ABIs : told[k] = Cardinality(Tellers(k))
    BY <2>2, <2>3
  <2>5. /\ refCount = Cardinality(Holders) /\ retired = Cardinality(Winners)
    BY <2>1, <2>3 DEF Init
  <2> QED BY <2>4, <2>5 DEF Init, CountInv
<1> QED BY <1>1, CountStep, TypeCorrect, PTL DEF Spec
-------------------------------------------------------------------------------
\* The instance implements a resource that can be started again: whatever the clients
\* do, it is held only while it is live and retired only when nobody holds it, and an
\* ABI is told of a retirement after it and at most once for each.
THEOREM ImplementsRestartableResource == Spec => IsRestartableResource
<1> USE DEF Resource!rvars
<1>1. Init => Resource!RInit
  BY DEF Init, Resource!RInit, Holders, ABIs
<1>2. TypeOK /\ CountInv /\ [Next]_vars => [Resource!RNext]_(Resource!rvars)
  <2> SUFFICES ASSUME TypeOK, CountInv, [Next]_vars
               PROVE  [Resource!RNext]_(Resource!rvars)
    OBVIOUS
  <2>0. /\ holds \in [Users -> BOOLEAN] /\ started \in {0, 1}
        /\ tidx \in [Stoppers -> 1..(NumABIs + 1)]
        /\ told \in [ABIs -> Nat]
    BY DEF TypeOK, UsersOK, StoppersOK, FieldsOK, HistoryOK
  <2>1. ASSUME NEW u \in Users, UserStep(u) PROVE [Resource!RNext]_(Resource!rvars)
    <3>1. UNCHANGED <<started, retired, told>>
      BY <2>1, UsersLeave DEF fields, history, lives
    <3>2. CASE Acquire(u)
      <4>1. started = 1 /\ u \notin Holders /\ Holders' = Holders \cup {u}
        BY <2>0, <3>2 DEF Acquire, checkStart, Holders
      <4>2. Resource!Hold(u)
        BY <3>1, <4>1 DEF Resource!Hold
      <4> QED BY <4>2 DEF Resource!RNext
    <3>3. CASE Release(u)
      <4>1. u \in Holders /\ Holders' = Holders \ {u}
        BY <2>0, <3>3 DEF Release, Holders
      <4>2. started = 1
        BY <4>1 DEF CountInv, Holders
      <4>3. Resource!Drop(u)
        BY <3>1, <4>1, <4>2 DEF Resource!Drop
      <4> QED BY <4>3 DEF Resource!RNext
    <3>4. CASE UNCHANGED <<refCount, holds>>
      BY <3>1, <3>4 DEF Holders
    <3> QED BY <2>1, <3>2, <3>3, <3>4, OnlyUsersCount
  <2>2. ASSUME NEW s \in Starters, StarterStep(s)
        PROVE  [Resource!RNext]_(Resource!rvars)
    <3>1. UNCHANGED <<holds, retired, told>>
      BY <2>2, StartersLeave DEF user
    <3>2. started' \in {started, 1} /\ Holders' = Holders
      BY <2>2, <3>1
      DEF StarterStep, RegisterImports, Start, StartRange, StartCreate, StartGuest,
          StartHostCall, StartRun, StartCallback, StartPublish, fields, Holders
    <3>3. CASE started = started'
      BY <3>1, <3>2, <3>3
    <3>4. CASE started # started'
      <4>1. Resource!GoLive
        BY <2>0, <3>1, <3>2, <3>4 DEF Resource!GoLive
      <4> QED BY <4>1 DEF Resource!RNext
    <3> QED BY <3>3, <3>4
  <2>3. ASSUME NEW p \in Stoppers, StopperStep(p)
        PROVE  [Resource!RNext]_(Resource!rvars)
    <3>1. Holders' = Holders
      BY <2>3, StoppersLeave DEF user, Holders
    <3>2. CASE Stop(p) \/ StopWait(p) \/ StopRange(p)
      BY <3>1, <3>2 DEF Stop, StopWait, StopRange, fields, history, lives
    <3>3. CASE StopSwap(p)
      <4>1. started' = 0 /\ retired' = retired + started /\ told' = told
        BY <3>3 DEF StopSwap
      <4>2. Holders = {}
        BY <3>3, NoReferences DEF StopSwap
      <4>3. CASE started = 1
        <5>1. Resource!Retire
          BY <3>1, <4>1, <4>2, <4>3 DEF Resource!Retire
        <5> QED BY <5>1 DEF Resource!RNext
      <4>4. CASE started = 0
        <5>1. retired' = retired
          BY <4>1, <4>4 DEF TypeOK, HistoryOK
        <5> QED BY <3>1, <4>1, <4>4, <5>1
      <4> QED BY <2>0, <4>3, <4>4
    <3>4. CASE StopDestroy(p)
      <4>1. tpc[p] = "destroy" /\ UNCHANGED <<started, retired>>
        BY <3>4 DEF StopDestroy, fields, lives
      <4>2. CASE tidx[p] <= NumABIs
        <5>0. PICK n \in ABIs : n = tidx[p]
          BY <2>0, <4>2, LoopIndex
        <5>1. told' = [told EXCEPT ![n] = @ + 1]
          BY <3>4, <4>2, <5>0 DEF StopDestroy
        <5>2. p \in Winners /\ p \notin Tellers(n)
          BY <2>0, <4>1, <5>0 DEF Winners, Tellers, ABIs
        <5>3. Tellers(n) \subseteq Winners \ {p}
          <6>1. \A q \in Tellers(n) : tidx[q] > 1
            BY <2>0 DEF Tellers, ABIs
          <6> QED BY <5>2, <6>1 DEF CountInv, Winners, Tellers
        <5>4. /\ IsFiniteSet(Winners \ {p})
              /\ Cardinality(Winners \ {p}) = Cardinality(Winners) - 1
          BY <5>2, WinnersFinite, FS_RemoveElement
        <5>5. Cardinality(Tellers(n)) <= Cardinality(Winners \ {p})
          BY <5>3, <5>4, FS_Subset
        <5>6. told[n] < retired
          BY <2>0, <5>4, <5>5, WinnersFinite, TellersFinite, FS_CardinalityType
          DEF CountInv
        <5>7. Resource!Tell(n)
          BY <3>1, <4>1, <5>1, <5>6 DEF Resource!Tell
        <5> QED BY <5>7 DEF Resource!RNext, ABIs
      <4>3. CASE ~(tidx[p] <= NumABIs)
        BY <3>1, <3>4, <4>1, <4>3 DEF StopDestroy
      <4> QED BY <4>2, <4>3
    <3> QED BY <2>3, <3>2, <3>3, <3>4 DEF StopperStep
  <2>4. CASE SetData \/ UNCHANGED vars
    BY <2>4 DEF SetData, vars, fields, user, history, lives, Holders
  <2> QED BY <2>1, <2>2, <2>3, <2>4 DEF Next
<1> QED
  BY <1>1, <1>2, TypeCorrect, Counting, PTL
  DEF Spec, IsRestartableResource, Resource!RSpec

-------------------------------------------------------------------------------
(* Patient clients                                                               *)

\* The goroutines of a patient client follow each other: one Start at a time, and the
\* tail of one Stop, while the instance is not started.
Alone ==
  /\ \A s, t \in Starters : spc[s] # "idle" /\ spc[t] # "idle" => s = t
  /\ \A s \in Starters : spc[s] # "idle" => started = 0 /\ Ended
  /\ \A p, q \in Stoppers : tpc[p] \in {"swapped", "destroy"}
                            /\ tpc[q] \in {"swapped", "destroy"} => p = q
  /\ \A p \in Stoppers : tpc[p] \in {"swapped", "destroy"} => started = 0

\* Upto(n) is one call of each ABI before the n-th.
Upto(n) == [k \in ABIs |-> IF k < n THEN 1 ELSE 0]
None == Upto(1)
All == Upto(NumABIs + 1)

\* The callbacks that the contexts of list g have had.
Had(g, c, o, d) == created[g] = c /\ onStart[g] = o /\ destroyed[g] = d

\* How far the callbacks of the last list have got: as far as the loop of whoever is
\* at work on it.
LastList ==
  /\ \A s \in Starters :
       /\ spc[s] = "abiList" => Had(abiList, None, None, None)
       /\ spc[s] = "create" => slist[s] = abiList /\ Had(abiList, Upto(sidx[s]), None, None)
       /\ spc[s] \in {"_start", "started"} => Had(abiList, All, None, None)
       /\ spc[s] = "onStart" => slist[s] = abiList /\ Had(abiList, All, Upto(sidx[s]), None)
  /\ started = 1 => Had(abiList, All, All, None)
  /\ \A p \in Stoppers :
       /\ tpc[p] \in {"idle", "stopping", "swapped"} => tidx[p] = 1
       /\ tpc[p] = "swapped" => Had(abiList, All, All, None)
       /\ tpc[p] = "destroy" => tlist[p] = abiList /\ Had(abiList, All, All, Upto(tidx[p]))

\* The contexts of one list are told in order.
InOrder(g) == \A k \in ABIs : /\ destroyed[g][k] <= onStart[g][k]
                              /\ onStart[g][k] <= created[g][k]
                              /\ created[g][k] <= 1

Lists == \A g \in Numbers : InOrder(g) /\ (g > abiList => Had(g, None, None, None))

\* Until it has been published twice there is one guest that was ever started. The
\* host calls of a guest are forgotten when it returns.
OneGuest ==
  /\ \A u \in Users : upc[u] # "calling" => seen[u] = {}
  /\ published = 0 => /\ started = 0 /\ memory = 0 /\ \A f \in {"export", "malloc"} : funcCache[f] = 0
                      /\ \A u \in Users : upc[u] # "calling"
  /\ published <= 1 =>
       \E g \in 0..guest :
         /\ started = 1 => guest = g
         /\ memory \in {0, g} /\ \A f \in {"export", "malloc"} : funcCache[f] \in {0, g}
         /\ \A u \in Users : upc[u] = "calling" => fun[u] = g /\ seen[u] \subseteq {g}

PatientInv == patient => Alone /\ LastList /\ Lists /\ OneGuest
LEMMA AloneStep ==
  ASSUME TypeOK, patient, Alone, [Next]_vars
  PROVE  Alone'
<1> USE DEF Alone, Quiet, Ended
<1>0. /\ spc \in [Starters -> {"idle", "abiList", "create", "_start", "started", "onStart"}]
      /\ tpc \in [Stoppers -> {"idle", "stopping", "swapped", "destroy", "told", "done"}]
      /\ started \in {0, 1}
  BY DEF TypeOK, StartersOK, StoppersOK, FieldsOK
<1>1. ASSUME NEW u \in Users, UserStep(u) PROVE Alone'
  BY <1>1, UsersLeave DEF fields, starter, stopper
<1>2. ASSUME NEW s \in Starters, StarterStep(s) PROVE Alone'
  <2>1. tpc' = tpc
    BY <1>2, StartersLeave DEF stopper
  <2>2. CASE Start(s)
    BY <1>0, <2>1, <2>2 DEF Start, MayStart, Goto
  <2>3. CASE StartPublish(s)
    <3>1. spc[s] # "idle" /\ spc' = [spc EXCEPT ![s] = "idle"]
      BY <2>3 DEF StartPublish, Return
    <3>2. Quiet' /\ Ended
      BY <1>0, <3>1
    <3> QED BY <2>1, <3>2
  <2>4. CASE ~Start(s) /\ ~StartPublish(s)
    <3>1. started' = started
      BY <1>2, <2>4
      DEF StarterStep, RegisterImports, StartRange, StartCreate, StartGuest,
          StartHostCall, StartRun, StartCallback, fields
    <3>2. \A t \in Starters : spc'[t] # "idle" => spc[t] # "idle"
      <4>1. spc' = spc \/ \E place : spc[s] # "idle" /\ spc' = [spc EXCEPT ![s] = place]
        BY <1>2, <2>4
        DEF StarterStep, RegisterImports, StartRange, StartCreate, StartGuest,
            StartHostCall, StartRun, StartCallback, Goto, Return, starter
      <4> QED BY <1>0, <4>1
    <3> QED BY <2>1, <3>1, <3>2
  <2> QED BY <2>2, <2>3, <2>4
<1>3. ASSUME NEW p \in Stoppers, StopperStep(p) PROVE Alone'
  <2>1. spc' = spc
    BY <1>3, StoppersLeave DEF starter
  <2>2. CASE Stop(p)
    BY <1>0, <2>1, <2>2 DEF Stop, MayStop, fields
  <2>3. CASE StopWait(p)
    BY <2>3 DEF StopWait, fields, starter, stopper
  <2>4. CASE StopSwap(p)
    BY <1>0, <2>1, <2>4 DEF StopSwap, AfterSwap, checkStart
  <2>5. CASE StopRange(p)
    BY <1>0, <2>1, <2>5 DEF StopRange, fields
  <2>6. CASE StopDestroy(p)
    BY <1>0, <2>1, <2>6 DEF StopDestroy, fields
  <2> QED BY <1>3, <2>2, <2>3, <2>4, <2>5, <2>6 DEF StopperStep
<1>4. CASE SetData \/ UNCHANGED vars
  BY <1>4 DEF SetData, vars, fields, starter, stopper
<1> QED BY <1>1, <1>2, <1>3, <1>4 DEF Next

\* One more call is the next of Upto, and after the last one all have been made.
LEMMA UptoNext ==
  ASSUME NEW n \in 1..(NumABIs + 1)
  PROVE  /\ n <= NumABIs => [Upto(n) EXCEPT ![n] = @ + 1] = Upto(n + 1)
         /\ ~(n <= NumABIs) => Upto(n) = All
         /\ \A k \in ABIs : Upto(n)[k] \in {0, 1} /\ None[k] = 0 /\ All[k] = 1
<1> USE NumABIsAssumption DEF NumABIsAssumption, ABIs, Upto, None, All
<1>1. ASSUME n <= NumABIs PROVE [Upto(n) EXCEPT ![n] = @ + 1] = Upto(n + 1)
  <2>1. \A k \in ABIs : [Upto(n) EXCEPT ![n] = @ + 1][k] = Upto(n + 1)[k]
    BY <1>1
  <2> QED BY <2>1
<1>2. ~(n <= NumABIs) => n = NumABIs + 1
  OBVIOUS
<1> QED BY <1>1, <1>2

\* A list whose callbacks have come this far has been told in order.
LEMMA HadInOrder ==
  ASSUME NEW c, NEW o, NEW d, NEW n \in 1..(NumABIs + 1),
         \/ c = Upto(n) /\ o = None /\ d = None
         \/ c = All /\ o = Upto(n) /\ d = None
         \/ c = All /\ o = All /\ d = Upto(n)
  PROVE  \A k \in ABIs : d[k] <= o[k] /\ o[k] <= c[k] /\ c[k] <= 1
<1>1. \A k \in ABIs : Upto(n)[k] \in {0, 1} /\ None[k] = 0 /\ All[k] = 1
  BY UptoNext
<1> QED BY <1>1

\* What the callbacks depend on.
ledger == <<abiList, started, spc, sidx, slist, tpc, tidx, tlist, created, onStart,
            destroyed>>

LEMMA LedgerStays ==
  ASSUME LastList, Lists, UNCHANGED ledger
  PROVE  LastList' /\ Lists'
  BY DEF LastList, Lists, ledger, Had, InOrder

\* A step that leaves all lists but the last alone keeps what is known of them.
LEMMA OtherLists ==
  ASSUME Lists, abiList' = abiList,
         \A g \in Numbers : g # abiList =>
            created'[g] = created[g] /\ onStart'[g] = onStart[g] /\ destroyed'[g] = destroyed[g],
         abiList \in Numbers => InOrder(abiList)',
         abiList \in Numbers
  PROVE  Lists'
<1>1. ASSUME NEW g \in Numbers, g # abiList
      PROVE  InOrder(g)' /\ (g > abiList' => Had(g, None, None, None)')
  BY <1>1 DEF Lists, InOrder, Had
<1>2. ~(abiList > abiList)
  BY MaxStartsAssumption DEF Numbers, MaxStartsAssumption
<1> QED BY <1>1, <1>2 DEF Lists

\* Start and the tail of Stop work on the last list, each alone.
LEMMA StarterLists ==
  ASSUME TypeOK, patient, Alone, LastList, Lists, NEW s \in Starters, StarterStep(s)
  PROVE  LastList' /\ Lists'
<1>0. /\ spc \in [Starters -> {"idle", "abiList", "create", "_start", "started", "onStart"}]
      /\ sidx \in [Starters -> 1..(NumABIs + 1)] /\ slist \in [Starters -> Numbers]
      /\ abiList \in Numbers /\ started \in {0, 1}
      /\ created \in Calls /\ onStart \in Calls
  BY DEF TypeOK, StartersOK, FieldsOK, HistoryOK
<1>1. UNCHANGED <<tpc, tidx, tlist, destroyed>>
  BY StartersLeave DEF stopper
<1>2. ASSUME UNCHANGED ledger PROVE LastList' /\ Lists'
  BY <1>2, LedgerStays
<1>3. ASSUME spc[s] # "idle"
      PROVE  /\ started = 0 /\ \A t \in Starters \ {s} : spc[t] = "idle"
             /\ \A p \in Stoppers : tpc[p] \notin {"swapped", "destroy"}
  BY <1>3 DEF Alone, Ended
<1>4. CASE Start(s)
  <2>1. /\ abiList' = abiList + 1 /\ abiList < MaxStarts
        /\ spc[s] = "idle" /\ spc' = [spc EXCEPT ![s] = "abiList"]
        /\ UNCHANGED <<started, sidx, slist, created, onStart>>
        /\ started = 0 /\ Quiet /\ Ended
    BY <1>4 DEF Start, MayStart, Goto, fields, history, lives
  <2>2. abiList + 1 \in Numbers /\ abiList + 1 > abiList
    BY <1>0, <2>1, MaxStartsAssumption DEF Numbers, MaxStartsAssumption
  <2>3. Had(abiList, None, None, None)'
    BY <1>1, <2>1, <2>2 DEF Lists, Had
  <2>4. LastList'
    BY <1>0, <1>1, <2>1, <2>3 DEF LastList, Quiet, Ended
  <2>5. \A g \in Numbers : g > abiList' => g > abiList
    BY <1>0, <2>1, MaxStartsAssumption DEF Numbers, MaxStartsAssumption
  <2>6. Lists'
    BY <1>1, <2>1, <2>5 DEF Lists, Had, InOrder
  <2> QED BY <2>4, <2>6
<1>5. ASSUME NEW place, NEW loop, StartRange(s, place, loop),
             <<place, loop>> \in {<<"abiList", "create">>, <<"started", "onStart">>}
      PROVE  LastList' /\ Lists'
  <2>1. /\ spc[s] = place /\ spc' = [spc EXCEPT ![s] = loop]
        /\ sidx' = [sidx EXCEPT ![s] = 1] /\ slist' = [slist EXCEPT ![s] = abiList]
        /\ UNCHANGED <<abiList, started, created, onStart>>
    BY <1>5 DEF StartRange, fields, history, lives
  <2>2. spc[s] # "idle"
    BY <1>5, <2>1
  <2>3. \A g : Had(g, None, None, None)' = Had(g, None, None, None)
               /\ Had(g, All, None, None)' = Had(g, All, None, None)
    BY <1>1, <2>1 DEF Had
  <2>4. LastList'
    BY <1>0, <1>1, <1>3, <1>5, <2>1, <2>2, <2>3 DEF LastList, None
  <2>5. Lists'
    BY <1>1, <2>1 DEF Lists, Had, InOrder
  <2> QED BY <2>4, <2>5
<1>6. CASE StartCreate(s)
  <2>1. /\ spc[s] = "create" /\ sidx[s] <= NumABIs /\ slist[s] = abiList
        /\ created' = [created EXCEPT ![abiList][sidx[s]] = @ + 1]
        /\ sidx' = [sidx EXCEPT ![s] = sidx[s] + 1]
        /\ UNCHANGED <<abiList, started, spc, slist, onStart>>
        /\ Had(abiList, Upto(sidx[s]), None, None)
    BY <1>6 DEF StartCreate, LastList, fields, history, lives
  <2>2. created'[abiList] = Upto(sidx[s] + 1)
    BY <1>0, <2>1, UptoNext DEF Calls, Had
  <2>3. sidx'[s] = sidx[s] + 1 /\ sidx'[s] \in 1..(NumABIs + 1)
    BY <1>0, <2>1, NumABIsAssumption DEF NumABIsAssumption
  <2>4. Had(abiList, Upto(sidx[s]), None, None)'
    BY <1>1, <2>1, <2>2, <2>3 DEF Had, Upto, None
  <2>5. LastList'
    BY <1>0, <1>1, <1>3, <2>1, <2>4 DEF LastList
  <2>6. InOrder(abiList)'
    BY <2>3, <2>4, HadInOrder DEF Had, InOrder
  <2>7. Lists'
    BY <1>0, <1>1, <2>1, <2>6, OtherLists DEF Calls
  <2> QED BY <2>5, <2>7
<1>7. CASE StartGuest(s)
  <2>1. /\ spc[s] = "create" /\ sidx[s] > NumABIs
        /\ \/ spc' = [spc EXCEPT ![s] = "_start"]
           \/ spc' = [spc EXCEPT ![s] = "idle"]
        /\ UNCHANGED <<abiList, started, created, onStart>>
    BY <1>7 DEF StartGuest, Goto, Return, history, lives
  <2>2. Had(abiList, All, None, None)
    <3>1. Had(abiList, Upto(sidx[s]), None, None)
      BY <2>1 DEF LastList
    <3>2. Upto(sidx[s]) = All
      <4>1. sidx[s] = NumABIs + 1
        BY <1>0, <2>1, NumABIsAssumption DEF NumABIsAssumption
      <4> QED BY <4>1 DEF All
    <3> QED BY <3>1, <3>2
  <2>3. Had(abiList, All, None, None)'
    BY <1>1, <2>1, <2>2 DEF Had
  <2>4. LastList'
    BY <1>0, <1>1, <1>3, <2>1, <2>3 DEF LastList
  <2>5. Lists'
    BY <1>1, <2>1 DEF Lists, Had, InOrder
  <2> QED BY <2>4, <2>5
<1>8. CASE StartRun(s)
  <2>1. /\ spc[s] = "_start"
        /\ \/ spc' = [spc EXCEPT ![s] = "started"]
           \/ spc' = [spc EXCEPT ![s] = "idle"]
        /\ UNCHANGED <<abiList, started, created, onStart>>
        /\ Had(abiList, All, None, None)
    BY <1>8 DEF StartRun, LastList, Goto, Return, fields, history, lives
  <2>2. Had(abiList, All, None, None)'
    BY <1>1, <2>1 DEF Had
  <2>3. LastList'
    BY <1>0, <1>1, <1>3, <2>1, <2>2 DEF LastList
  <2>4. Lists'
    BY <1>1, <2>1 DEF Lists, Had, InOrder
  <2> QED BY <2>3, <2>4
<1>9. CASE StartCallback(s)
  <2>1. /\ spc[s] = "onStart" /\ sidx[s] <= NumABIs /\ slist[s] = abiList
        /\ onStart' = [onStart EXCEPT ![abiList][sidx[s]] = @ + 1]
        /\ sidx' = [sidx EXCEPT ![s] = sidx[s] + 1]
        /\ UNCHANGED <<abiList, started, spc, slist, created>>
        /\ Had(abiList, All, Upto(sidx[s]), None)
    BY <1>9 DEF StartCallback, LastList, fields, history, lives
  <2>2. onStart'[abiList] = Upto(sidx[s] + 1)
    BY <1>0, <2>1, UptoNext DEF Calls, Had
  <2>3. sidx'[s] = sidx[s] + 1 /\ sidx'[s] \in 1..(NumABIs + 1)
    BY <1>0, <2>1, NumABIsAssumption DEF NumABIsAssumption
  <2>4. Had(abiList, All, Upto(sidx[s]), None)'
    BY <1>1, <2>1, <2>2, <2>3 DEF Had, Upto, None, All
  <2>5. LastList'
    BY <1>0, <1>1, <1>3, <2>1, <2>4 DEF LastList
  <2>6. InOrder(abiList)'
    BY <2>3, <2>4, HadInOrder DEF Had, InOrder
  <2>7. Lists'
    BY <1>0, <1>1, <2>1, <2>6, OtherLists DEF Calls
  <2> QED BY <2>5, <2>7
<1>10. CASE StartPublish(s)
  <2>1. /\ spc[s] = "onStart" /\ sidx[s] > NumABIs
        /\ spc' = [spc EXCEPT ![s] = "idle"] /\ started' = 1
        /\ UNCHANGED <<abiList, created, onStart>>
    BY <1>10 DEF StartPublish, Return
  <2>2. Had(abiList, All, All, None)
    <3>1. Had(abiList, All, Upto(sidx[s]), None)
      BY <2>1 DEF LastList
    <3>2. Upto(sidx[s]) = All
      <4>1. sidx[s] = NumABIs + 1
        BY <1>0, <2>1, NumABIsAssumption DEF NumABIsAssumption
      <4> QED BY <4>1 DEF All
    <3> QED BY <3>1, <3>2
  <2>3. Had(abiList, All, All, None)'
    BY <1>1, <2>1, <2>2 DEF Had
  <2>4. LastList'
    BY <1>0, <1>1, <1>3, <2>1, <2>3 DEF LastList
  <2>5. Lists'
    BY <1>1, <2>1 DEF Lists, Had, InOrder
  <2> QED BY <2>4, <2>5
<1>11. CASE \E abiName \in Known : RegisterImports(s, abiName)
  BY <1>2, <1>11 DEF RegisterImports, ledger, starter, stopper, history, lives
<1>12. CASE StartHostCall(s)
  BY <1>2, <1>12 DEF StartHostCall, ledger, fields, starter, stopper, history, lives
<1>13. CASE StartRange(s, "abiList", "create")
  BY <1>5, <1>13
<1>14. CASE StartRange(s, "started", "onStart")
  BY <1>5, <1>14
<1>15. \/ Start(s) \/ StartCreate(s) \/ StartGuest(s) \/ StartRun(s) \/ StartCallback(s)
       \/ StartPublish(s) \/ StartHostCall(s)
       \/ StartRange(s, "abiList", "create") \/ StartRange(s, "started", "onStart")
       \/ \E abiName \in Known : RegisterImports(s, abiName)
  BY DEF StarterStep
<1> QED
  BY <1>4, <1>6, <1>7, <1>8, <1>9, <1>10, <1>11, <1>12, <1>13, <1>14, <1>15

LEMMA StopperLists ==
  ASSUME TypeOK, patient, Alone, LastList, Lists, NEW p \in Stoppers, StopperStep(p)
  PROVE  LastList' /\ Lists'
<1>0. /\ tpc \in [Stoppers -> {"idle", "stopping", "swapped", "destroy", "told", "done"}]
      /\ tidx \in [Stoppers -> 1..(NumABIs + 1)] /\ tlist \in [Stoppers -> Numbers]
      /\ abiList \in Numbers /\ started \in {0, 1} /\ destroyed \in Calls
  BY DEF TypeOK, StoppersOK, FieldsOK, HistoryOK
<1>1. UNCHANGED <<abiList, spc, sidx, slist, created, onStart>>
  BY StoppersLeave DEF starter
<1>2. CASE Stop(p)
  <2>1. /\ tpc[p] = "idle" /\ tpc' = [tpc EXCEPT ![p] = "stopping"]
        /\ UNCHANGED <<started, tidx, tlist, destroyed>>
    BY <1>2 DEF Stop, fields, history
  <2>2. \A g, c, o, d : Had(g, c, o, d)' = Had(g, c, o, d)
    BY <1>1, <2>1 DEF Had
  <2> QED BY <1>0, <1>1, <2>1, <2>2 DEF LastList, Lists, InOrder
<1>3. CASE StopWait(p)
  <2>1. UNCHANGED ledger
    BY <1>1, <1>3 DEF StopWait, ledger, fields, stopper, history
  <2> QED BY <2>1, LedgerStays
<1>4. CASE StopSwap(p)
  <2>1. /\ tpc[p] = "stopping" /\ started' = 0
        /\ tpc' = [tpc EXCEPT ![p] = IF started = 1 THEN "swapped" ELSE "done"]
        /\ UNCHANGED <<tidx, tlist, destroyed>>
    BY <1>4 DEF StopSwap, AfterSwap, checkStart
  <2>2. \A g, c, o, d : Had(g, c, o, d)' = Had(g, c, o, d)
    BY <1>1, <2>1 DEF Had
  <2>3. LastList'
    <3>1. CASE started = 1
      <4>1. tpc' = [tpc EXCEPT ![p] = "swapped"]
        BY <2>1, <3>1
      <4>2. \A s \in Starters : spc[s] = "idle"
        BY <3>1 DEF Alone
      <4>3. Had(abiList, All, All, None)
        BY <3>1 DEF LastList
      <4>4. Had(abiList, All, All, None)'
        BY <1>1, <2>1, <4>3 DEF Had
      <4> QED BY <1>0, <1>1, <2>1, <2>2, <4>1, <4>2, <4>4 DEF LastList
    <3>2. CASE started # 1
      <4>1. tpc' = [tpc EXCEPT ![p] = "done"]
        BY <2>1, <3>2
      <4> QED BY <1>0, <1>1, <2>1, <2>2, <4>1 DEF LastList
    <3> QED BY <3>1, <3>2
  <2>4. Lists'
    BY <1>1, <2>1, <2>2 DEF Lists, InOrder
  <2> QED BY <2>3, <2>4
<1>5. CASE StopRange(p)
  <2>1. /\ tpc[p] = "swapped" /\ tpc' = [tpc EXCEPT ![p] = "destroy"]
        /\ tlist' = [tlist EXCEPT ![p] = abiList]
        /\ UNCHANGED <<started, tidx, destroyed>>
    BY <1>5 DEF StopRange, fields, history
  <2>2. \A g, c, o, d : Had(g, c, o, d)' = Had(g, c, o, d)
    BY <1>1, <2>1 DEF Had
  <2>3. tidx[p] = 1 /\ Had(abiList, All, All, None)
    BY <2>1 DEF LastList
  <2>4. Upto(tidx[p]) = None
    BY <2>3 DEF None
  <2> QED BY <1>0, <1>1, <2>1, <2>2, <2>3, <2>4 DEF LastList, Lists, InOrder
<1>6. CASE StopDestroy(p)
  <2>0. tpc[p] = "destroy" /\ UNCHANGED <<started, tlist>>
    BY <1>6 DEF StopDestroy, fields
  <2>1. /\ tlist[p] = abiList /\ Had(abiList, All, All, Upto(tidx[p])) /\ started = 0
        /\ \A q \in Stoppers : tpc[q] \in {"swapped", "destroy"} => q = p
        /\ \A s \in Starters : spc[s] = "idle"
    BY <2>0 DEF LastList, Alone, Ended
  <2>2. CASE tidx[p] <= NumABIs
    <3>1. /\ destroyed' = [destroyed EXCEPT ![abiList][tidx[p]] = @ + 1]
          /\ tidx' = [tidx EXCEPT ![p] = tidx[p] + 1]
          /\ tpc' = tpc
      BY <1>6, <2>1, <2>2 DEF StopDestroy
    <3>2. destroyed'[abiList] = Upto(tidx[p] + 1)
      BY <1>0, <2>1, <2>2, <3>1, UptoNext DEF Calls, Had
    <3>3. tidx'[p] = tidx[p] + 1 /\ tidx'[p] \in 1..(NumABIs + 1)
      BY <1>0, <2>2, <3>1, NumABIsAssumption DEF NumABIsAssumption
    <3>4. Had(abiList, All, All, Upto(tidx[p]))'
      BY <1>1, <2>1, <3>2, <3>3 DEF Had, Upto, All
    <3>5. LastList'
      BY <1>0, <1>1, <2>0, <2>1, <3>1, <3>4 DEF LastList
    <3>6. InOrder(abiList)'
      BY <3>3, <3>4, HadInOrder DEF Had, InOrder
    <3>7. Lists'
      BY <1>0, <1>1, <3>1, <3>6, OtherLists DEF Calls
    <3> QED BY <3>5, <3>7
  <2>3. CASE ~(tidx[p] <= NumABIs)
    <3>1. tpc' = [tpc EXCEPT ![p] = "told"] /\ UNCHANGED <<destroyed, tidx>>
      BY <1>6, <2>3 DEF StopDestroy
    <3>2. \A g, c, o, d : Had(g, c, o, d)' = Had(g, c, o, d)
      BY <1>1, <3>1 DEF Had
    <3> QED BY <1>0, <1>1, <2>0, <2>1, <3>1, <3>2 DEF LastList, Lists, InOrder
  <2> QED BY <2>2, <2>3
<1> QED BY <1>2, <1>3, <1>4, <1>5, <1>6 DEF StopperStep

LEMMA ListsStep ==
  ASSUME TypeOK, patient, Alone, LastList, Lists, [Next]_vars
  PROVE  LastList' /\ Lists'
<1>1. ASSUME NEW u \in Users, UserStep(u) PROVE LastList' /\ Lists'
  <2>1. UNCHANGED ledger
    BY <1>1, UsersLeave DEF ledger, fields, starter, stopper, history
  <2> QED BY <2>1, LedgerStays
<1>2. CASE SetData \/ UNCHANGED vars
  <2>1. UNCHANGED ledger
    BY <1>2 DEF SetData, vars, ledger, fields, starter, stopper, history
  <2> QED BY <2>1, LedgerStays
<1> QED BY <1>1, <1>2, StarterLists, StopperLists DEF Next

\* A patient client that starts the instance for the first time starts its first guest
\* to be called, and calls no other until it has published a second one.
LEMMA GuestStep ==
  ASSUME TypeOK, patient, Alone, OneGuest, [Next]_vars
  PROVE  OneGuest'
<1> DEFINE Caches == {"export", "malloc"}
<1>0. /\ funcCache \in [Caches -> 0..guest] /\ memory \in 0..guest
      /\ guest \in Nat /\ started \in {0, 1} /\ published \in Nat
      /\ upc \in [Users -> {"idle", "locked", "calling"}]
      /\ fun \in [Users -> 0..guest] /\ seen \in [Users -> SUBSET (0..guest)]
      /\ spc \in [Starters -> {"idle", "abiList", "create", "_start", "started", "onStart"}]
  BY DEF TypeOK, FieldsOK, UsersOK, StartersOK, HistoryOK
<1>1. ASSUME NEW u \in Users, UserStep(u) PROVE OneGuest'
  <2>1. UNCHANGED <<guest, started, published>>
    BY <1>1, UsersLeave DEF fields, history, lives
  <2>2. CASE Acquire(u) \/ Release(u)
    <3>1. UNCHANGED <<funcCache, memory, upc, fun, seen>>
      BY <2>2 DEF Acquire, Release, caches
    <3> QED BY <2>1, <3>1 DEF OneGuest
  <2>3. CASE Lock(u)
    <3>1. /\ upc' = [upc EXCEPT ![u] = "locked"] /\ upc[u] = "idle"
          /\ UNCHANGED <<caches, fun, seen>>
      BY <2>3 DEF Lock
    <3>2. \A v \in Users : upc'[v] = "calling" <=> upc[v] = "calling"
      BY <1>0, <3>1
    <3> QED BY <2>1, <3>1, <3>2 DEF OneGuest, caches
  <2>7. CASE Unlock(u)
    <3>1. /\ upc' = [upc EXCEPT ![u] = "idle"] /\ seen' = [seen EXCEPT ![u] = {}]
          /\ fun' = [fun EXCEPT ![u] = 0] /\ UNCHANGED caches
      BY <2>7 DEF Unlock
    <3>2. /\ \A v \in Users : upc'[v] = "calling" =>
                upc[v] = "calling" /\ fun'[v] = fun[v] /\ seen'[v] = seen[v]
          /\ \A v \in Users : upc'[v] # "calling" => seen'[v] = {}
      BY <1>0, <3>1 DEF OneGuest
    <3> QED BY <2>1, <3>1, <3>2 DEF OneGuest, caches
  <2>4. CASE published = 0
    <3>1. started = 0
      BY <2>4 DEF OneGuest
    <3>2. ~GetExportsFunc(u) /\ ~GetExportsMem(u) /\ ~Malloc(u)
      BY <3>1 DEF GetExportsFunc, GetExportsMem, Malloc, checkStart
    <3> QED BY <1>1, <2>2, <2>3, <2>7, <3>2 DEF UserStep
  <2>5. CASE published = 1
    <3>1. PICK g \in 0..guest :
            /\ started = 1 => guest = g
            /\ memory \in {0, g} /\ \A f \in Caches : funcCache[f] \in {0, g}
            /\ \A v \in Users : upc[v] = "calling" => fun[v] = g /\ seen[v] \subseteq {g}
      BY <2>5 DEF OneGuest
    <3>2. CASE GetExportsFunc(u)
      <4>1. /\ started = 1 /\ memory' = memory /\ seen' = seen
            /\ funcCache' = [funcCache EXCEPT !["export"] = g]
            /\ upc' = [upc EXCEPT ![u] = "calling"] /\ fun' = [fun EXCEPT ![u] = g]
        BY <1>0, <3>1, <3>2 DEF GetExportsFunc, checkStart, LookUp, Cached
      <4>2. seen[u] = {}
        BY <3>2 DEF GetExportsFunc, OneGuest
      <4> QED BY <1>0, <2>1, <2>5, <3>1, <4>1, <4>2 DEF OneGuest
    <3>3. CASE GetExportsMem(u) \/ Malloc(u)
      <4>1. /\ started = 1 /\ upc' = upc /\ fun' = fun
            /\ upc[u] = "calling" /\ seen' = [seen EXCEPT ![u] = @ \cup {g}]
            /\ memory' \in {memory, g}
            /\ funcCache' \in {funcCache, [funcCache EXCEPT !["malloc"] = g]}
        BY <1>0, <3>1, <3>3
        DEF GetExportsMem, Malloc, checkStart, LookUp, LookUpMem, Cached
      <4> QED BY <1>0, <2>1, <2>5, <3>1, <4>1 DEF OneGuest
    <3> QED BY <1>1, <2>2, <2>3, <2>7, <3>2, <3>3 DEF UserStep
  <2>6. CASE published > 1
    <3>1. ~(published <= 1) /\ published # 0
      BY <1>0, <2>6
    <3>2. \A v \in Users : upc'[v] # "calling" => seen'[v] = {}
      <4>1. CASE GetExportsFunc(u) BY <1>0, <4>1 DEF GetExportsFunc, OneGuest
      <4>2. CASE GetExportsMem(u) BY <1>0, <4>2 DEF GetExportsMem, OneGuest
      <4>3. CASE Malloc(u) BY <1>0, <4>3 DEF Malloc, OneGuest
      <4>4. CASE OneGuest' BY <4>4 DEF OneGuest
      <4> QED BY <1>1, <2>2, <2>3, <2>7, <4>1, <4>2, <4>3, <4>4 DEF UserStep
    <3> QED BY <2>1, <3>1, <3>2 DEF OneGuest
  <2>8. published = 0 \/ published = 1 \/ published > 1
    BY <1>0
  <2> QED BY <2>4, <2>5, <2>6, <2>8
<1>2. ASSUME NEW s \in Starters, StarterStep(s) PROVE OneGuest'
  <2>1. UNCHANGED <<upc, fun, seen>>
    BY <1>2, StartersLeave DEF user
  <2>2. CASE StartPublish(s)
    <3>1. /\ started = 0 /\ started' = 1 /\ published' = published + 1
          /\ UNCHANGED <<guest, caches>>
      BY <2>2 DEF StartPublish, Alone
    <3>2. CASE published = 0
      <4>1. guest \in 0..guest
        BY <1>0
      <4> QED BY <2>1, <3>1, <3>2, <4>1 DEF OneGuest, caches
    <3>3. CASE published # 0
      <4>1. published' # 0 /\ ~(published' <= 1)
        BY <1>0, <3>1, <3>3
      <4> QED BY <2>1, <4>1 DEF OneGuest
    <3> QED BY <3>2, <3>3
  <2>3. CASE StartGuest(s)
    <3>1. started = 0 /\ guest' \in {guest, guest + 1}
          /\ UNCHANGED <<started, published, caches>>
      BY <2>3 DEF StartGuest, Alone, history, lives
    <3>2. \A g \in 0..guest : g \in 0..guest'
      BY <1>0, <3>1
    <3> QED BY <2>1, <3>1, <3>2 DEF OneGuest, caches
  <2>4. CASE ~StartPublish(s) /\ ~StartGuest(s)
    <3>1. ~StartHostCall(s)
      <4>1. spc[s] = "_start" => started = 0
        BY DEF Alone
      <4>2. StartHostCall(s) => spc[s] = "_start" /\ started = 1
        BY DEF StartHostCall, checkStart
      <4> QED BY <4>1, <4>2
    <3>2. UNCHANGED <<guest, started, published, caches>>
      BY <1>2, <2>4, <3>1
      DEF StarterStep, RegisterImports, Start, StartRange, StartCreate, StartRun,
          StartCallback, fields, history, lives
    <3> QED BY <2>1, <3>2 DEF OneGuest, caches
  <2> QED BY <2>2, <2>3, <2>4
<1>3. ASSUME NEW p \in Stoppers, StopperStep(p) PROVE OneGuest'
  <2>1. UNCHANGED <<guest, caches, user, published>>
    BY <1>3, StoppersLeave
  <2>2. started' \in {0, started}
    BY <1>3 DEF StopperStep, Stop, StopWait, StopSwap, StopRange, StopDestroy, fields
  <2> QED BY <2>1, <2>2 DEF OneGuest, caches, user
<1>4. CASE SetData \/ UNCHANGED vars
  BY <1>4 DEF SetData, vars, fields, caches, user, history, lives, OneGuest
<1> QED BY <1>1, <1>2, <1>3, <1>4 DEF Next

\* What the callbacks and the guests of a patient client rest on.
LEMMA PatientStep ==
  ASSUME TypeOK, PatientInv, [Next]_vars
  PROVE  PatientInv'
<1>1. patient' = patient
  <2>1. ASSUME NEW u \in Users, UserStep(u) PROVE patient' = patient
    BY <2>1, UsersLeave
  <2>2. ASSUME NEW s \in Starters, StarterStep(s) PROVE patient' = patient
    BY <2>2, StartersLeave
  <2>3. ASSUME NEW p \in Stoppers, StopperStep(p) PROVE patient' = patient
    BY <2>3, StoppersLeave
  <2>4. CASE SetData \/ UNCHANGED vars
    BY <2>4 DEF SetData, vars
  <2> QED BY <2>1, <2>2, <2>3, <2>4 DEF Next
<1>2. ASSUME patient PROVE Alone' /\ LastList' /\ Lists' /\ OneGuest'
  <2>1. Alone /\ LastList /\ Lists /\ OneGuest
    BY <1>2 DEF PatientInv
  <2>2. Alone' BY <1>2, <2>1, AloneStep
  <2>3. LastList' /\ Lists' BY <1>2, <2>1, ListsStep
  <2>4. OneGuest' BY <1>2, <2>1, GuestStep
  <2> QED BY <2>2, <2>3, <2>4
<1> QED BY <1>1, <1>2 DEF PatientInv

LEMMA PatientAlways == Spec => []PatientInv
<1>1. Init => PatientInv
  <2> SUFFICES ASSUME Init PROVE Alone /\ LastList /\ Lists /\ OneGuest
    BY DEF PatientInv
  <2> USE DEF Init
  <2>1. Alone BY DEF Alone
  <2>2. \A g \in Numbers : Had(g, None, None, None)
    BY NumABIsAssumption DEF Had, None, Upto, ABIs, NumABIsAssumption
  <2>3. abiList \in Numbers
    BY MaxStartsAssumption DEF Numbers, MaxStartsAssumption
  <2>4. LastList BY <2>2, <2>3 DEF LastList
  <2>5. Lists
    <3>1. \A k \in ABIs : None[k] = 0
      BY NumABIsAssumption DEF None, Upto, ABIs, NumABIsAssumption
    <3> QED BY <2>2, <3>1 DEF Lists, InOrder, Had
  <2>6. OneGuest BY DEF OneGuest
  <2> QED BY <2>1, <2>4, <2>5, <2>6
<1> QED BY <1>1, PatientStep, TypeCorrect, PTL DEF Spec

\* A client that waits for each Stop to end has every context of every list told of
\* its creation, of the start and of its destruction at most once and in that order,
\* however many ABIs there are and however often it starts the instance again.
THEOREM CallbacksTold == Spec => []CallbacksInOrder
<1>1. TypeOK /\ PatientInv => CallbacksInOrder
  <2> SUFFICES ASSUME TypeOK, PatientInv, patient
               PROVE  /\ \A g \in Numbers : InOrder(g)
                      /\ started = 1 => \A k \in ABIs : onStart[abiList][k] = 1
                                                       /\ destroyed[abiList][k] = 0
    BY DEF CallbacksInOrder, InOrder
  <2>1. \A k \in ABIs : None[k] = 0 /\ All[k] = 1
    <3>1. 1 \in 1..(NumABIs + 1)
      BY NumABIsAssumption DEF NumABIsAssumption
    <3> QED BY <3>1, UptoNext
  <2>2. started = 1 => onStart[abiList] = All /\ destroyed[abiList] = None
    BY DEF PatientInv, LastList, Had
  <2> QED BY <2>1, <2>2 DEF PatientInv, Lists
<1> QED BY <1>1, TypeCorrect, PatientAlways, PTL

\* Until such a client restarts the instance, the host answers every call of a guest
\* in the memory of that guest and with its malloc, however many calls there are.
THEOREM CalledInOwnGuest == Spec => []OwnGuest
<1>1. TypeOK /\ CountInv /\ PatientInv => OwnGuest
  <2> SUFFICES ASSUME TypeOK, CountInv, PatientInv, patient, published <= 1,
                      NEW u \in Users, upc[u] = "calling"
               PROVE  seen[u] \subseteq {fun[u]} /\ (holds[u] => fun[u] = guest)
    BY DEF OwnGuest
  <2>1. PICK g \in 0..guest : /\ started = 1 => guest = g
                             /\ fun[u] = g /\ seen[u] \subseteq {g}
    BY DEF PatientInv, OneGuest
  <2>2. holds[u] => started = 1
    BY DEF CountInv
  <2> QED BY <2>1, <2>2
<1> QED BY <1>1, TypeCorrect, Counting, PatientAlways, PTL
===============================================================================
