--------------------------- MODULE SharedDataProofs ---------------------------
(* Theorems about SharedData, for any guests, keys and values and any width of   *)
(* the counter: cas and value belong together, and no update is lost.            *)
EXTENDS SharedData, TLAPS

-------------------------------------------------------------------------------
(* The counter comes round                                                       *)

\* What the remainder of a multiple and a rest is.
LEMMA ModUnique ==
  ASSUME NEW M \in Nat \ {0}, NEW x \in Nat, NEW q \in Int, NEW r \in 0..(M - 1),
         x = M * q + r
  PROVE  x % M = r
  OBVIOUS

\* Counting one on, modulo M.
LEMMA ModNext ==
  ASSUME NEW M \in Nat \ {0}, NEW a \in Nat
  PROVE  ((a % M) + 1) % M = (a + 1) % M
<1> DEFINE q == a \div M
           r == a % M
<1>1. a = M * q + r /\ q \in Int /\ r \in 0..(M - 1)
  OBVIOUS
<1> HIDE DEF q, r
<1>2. CASE r + 1 < M
  <2>1. a + 1 = M * q + (r + 1) /\ r + 1 = M * 0 + (r + 1) /\ r + 1 \in 0..(M - 1)
    BY <1>1, <1>2
  <2>2. (a + 1) % M = r + 1 /\ (r + 1) % M = r + 1
    BY <1>1, <2>1, ModUnique
  <2> QED BY <2>2 DEF r
<1>3. CASE r + 1 = M
  <2>1. a + 1 = M * (q + 1) + 0 /\ r + 1 = M * 1 + 0 /\ 0 \in 0..(M - 1)
    BY <1>1, <1>3
  <2>2. (a + 1) % M = 0 /\ (r + 1) % M = 0
    BY <1>1, <2>1, ModUnique
  <2> QED BY <2>2 DEF r
<1> QED BY <1>1, <1>2, <1>3

\* Two counts that look alike are the same or a whole round apart.
LEMMA ModGap ==
  ASSUME NEW M \in Nat \ {0}, NEW a \in Nat, NEW b \in Nat, a % M = b % M, a < b
  PROVE  b - a >= M
  OBVIOUS

-------------------------------------------------------------------------------
(* Types                                                                         *)

\* The parts, in the order in which they are written.
LEMMA OrderOfParts ==
  /\ Len(Order) = 3
  /\ Order[1] = "pointer" /\ Order[2] = "size" /\ Order[3] = "cas"
  /\ \A n \in 1..3 : Order[n] \in Parts
  BY DEF Order, Parts

\* What a set changes, and what no set changes.
LEMMA SetSteps ==
  ASSUME TypeOK, NEW g \in Guests, NEW k \in Keys, NEW v \in Values,
         SetNew(g, k, v) \/ SetExisting(g, k, v)
  PROVE  /\ Store(k, v) /\ UNCHANGED <<call, seen>> /\ res' = "Ok"
         /\ data' \in [Keys -> Values \cup {Absent}]
         /\ NextCas \in 0..(Modulus - 1)
         /\ total' = total + 1 /\ cas' = NextCas
         /\ at' = [at EXCEPT ![k] = total + 1]
         /\ itemCas' = [itemCas EXCEPT ![k] = NextCas]
<1>1. Store(k, v) /\ UNCHANGED <<call, seen>> /\ res' = "Ok"
  BY DEF SetNew, SetExisting
<1>2. NextCas \in 0..(Modulus - 1)
  <2>1. cas + 1 \in Nat
    BY ModulusAssumption DEF TypeOK, ModulusAssumption
  <2> QED BY <2>1, ModulusAssumption DEF NextCas, ModulusAssumption
<1> QED BY <1>1, <1>2 DEF Store, TypeOK

\* A part is written that is not the last one, and the next one's turn comes.
Onwards(g) == /\ next[g] < 3
              /\ next' = [next EXCEPT ![g] = @ + 1]
              /\ UNCHANGED <<asked, answer, res>>

LEMMA CopySteps ==
  ASSUME NEW g \in Guests, CopyPart(g)
  PROVE  /\ seen' = [seen EXCEPT ![g][asked[g]][Order[next[g]]] = answer[g]]
         /\ Onwards(g) \/ Return(g, "Ok")
         /\ ~Running(g) /\ UNCHANGED <<store, history>>
  BY OrderOfParts DEF CopyPart, Onwards

LEMMA SetTypes ==
  ASSUME TypeOK, NEW g \in Guests, NEW k \in Keys, NEW v \in Values,
         SetNew(g, k, v) \/ SetExisting(g, k, v)
  PROVE  TypeOK'
<1>1. /\ NextCas \in 0..(Modulus - 1) /\ cas' = NextCas
      /\ itemCas' = [itemCas EXCEPT ![k] = NextCas]
      /\ at' = [at EXCEPT ![k] = total + 1] /\ total' = total + 1
      /\ data' \in [Keys -> Values \cup {Absent}]
      /\ UNCHANGED <<call, seen>> /\ res' = "Ok"
  BY SetSteps
<1>2. itemCas' \in [Keys -> 0..(Modulus - 1)] /\ cas' \in 0..(Modulus - 1)
  BY <1>1 DEF TypeOK
<1>3. total' \in Nat /\ at' \in [Keys -> Nat]
  <2>1. total + 1 \in Nat
    BY DEF TypeOK
  <2> QED BY <1>1, <2>1 DEF TypeOK
<1> QED BY <1>1, <1>2, <1>3 DEF TypeOK, call

LEMMA CopyTypes ==
  ASSUME TypeOK, NEW g \in Guests, CopyPart(g) \/ CopyFails(g)
  PROVE  TypeOK'
<1>1. Nothing \in Snapshots
  BY ModulusAssumption DEF Nothing, Snapshots, ModulusAssumption
<1>2. ASSUME NEW r \in {"Ok", "InvalidMemoryAccess"}, Return(g, r)
      PROVE  /\ res' = r /\ asked' \in [Guests -> Keys]
             /\ answer' \in [Guests -> Snapshots] /\ next' \in [Guests -> 1..3]
  BY <1>1, <1>2, KeysAssumption DEF Return, TypeOK, KeysAssumption
<1>3. CASE CopyPart(g)
  <2>1. seen' \in [Guests -> [Keys -> [Parts -> Snapshots]]]
    <3> DEFINE part == Order[next[g]]
               mine == [seen[g][asked[g]] EXCEPT ![part] = answer[g]]
               all == [seen[g] EXCEPT ![asked[g]] = mine]
    <3>1. asked[g] \in Keys /\ part \in Parts /\ answer[g] \in Snapshots
      BY OrderOfParts DEF TypeOK
    <3>2. seen' = [seen EXCEPT ![g] = all]
      BY <1>3, CopySteps
    <3>3. seen[g] \in [Keys -> [Parts -> Snapshots]]
      BY DEF TypeOK
    <3>4. mine \in [Parts -> Snapshots]
      BY <3>1, <3>3
    <3> HIDE DEF mine
    <3>5. all \in [Keys -> [Parts -> Snapshots]]
      BY <3>1, <3>3, <3>4
    <3> QED BY <3>2, <3>5 DEF TypeOK
  <2>2. CASE Return(g, "Ok")
    BY <1>2, <1>3, <2>1, <2>2, CopySteps DEF TypeOK, store, history
  <2>3. CASE Onwards(g)
    <3>1. next[g] \in 1..3 /\ next[g] + 1 \in 1..3
      BY <2>3 DEF TypeOK, Onwards
    <3>2. next' \in [Guests -> 1..3]
      BY <2>3, <3>1 DEF TypeOK, Onwards
    <3> QED BY <1>3, <2>1, <2>3, <3>2, CopySteps DEF TypeOK, Onwards, store, history
  <2> QED BY <1>3, <2>2, <2>3, CopySteps
<1>4. CASE CopyFails(g)
  BY <1>2, <1>4 DEF CopyFails, TypeOK, store, history
<1> QED BY <1>3, <1>4

LEMMA TypeStep ==
  ASSUME TypeOK, [Next]_vars
  PROVE  TypeOK'
<1>1. \A k \in Keys : Snapshot(k) \in Snapshots
  BY DEF TypeOK, Snapshot, Snapshots
<1>2. ASSUME NEW g \in Guests, GuestStep(g) PROVE TypeOK'
  <2>1. CASE BadArgument(g)
    BY <2>1 DEF BadArgument, TypeOK, store, call, history
  <2>2. CASE CopyPart(g) \/ CopyFails(g)
    BY <2>2, CopyTypes
  <2>3. ASSUME NEW k \in Keys, GetNotFound(g, k) PROVE TypeOK'
    BY <2>3 DEF GetNotFound, TypeOK, store, call, history
  <2>4. ASSUME NEW k \in Keys, GetFound(g, k) PROVE TypeOK'
    BY <1>1, <2>4 DEF GetFound, TypeOK, store, history
  <2>5. ASSUME NEW k \in Keys, SetMismatch(g, k) PROVE TypeOK'
    BY <2>5 DEF SetMismatch, TypeOK, store, call, history
  <2>6. ASSUME NEW k \in Keys, NEW v \in Values,
               SetNew(g, k, v) \/ SetExisting(g, k, v) PROVE TypeOK'
    BY <2>6, SetTypes
  <2> QED BY <1>2, <2>1, <2>2, <2>3, <2>4, <2>5, <2>6 DEF GuestStep
<1>3. CASE UNCHANGED vars
  BY <1>3 DEF vars, TypeOK, store, call, history
<1> QED BY <1>2, <1>3 DEF Next

\* The store and what guests know of it keep their types; the cas stays a uint32.
THEOREM TypeCorrect == Spec => []TypeOK
<1>1. Init => TypeOK
  <2>1. 0 \in 0..(Modulus - 1) /\ 1 \in 1..3
    BY ModulusAssumption, OrderOfParts DEF ModulusAssumption
  <2> QED BY <2>1, KeysAssumption DEF Init, TypeOK, Nothing, Snapshots, KeysAssumption
<1> QED BY <1>1, TypeStep, PTL DEF Spec

-------------------------------------------------------------------------------
(* The invariant                                                                 *)

\* A set of a key leaves every snapshot accurate: those of that key become old.
LEMMA StoreAccurate ==
  ASSUME TypeOK, CasInv, NEW k \in Keys, NEW v \in Values, Store(k, v),
         NEW j \in Keys, NEW s \in Snapshots, Accurate(s, j)
  PROVE  Accurate(s, j)'
<1>1. /\ at'[j] = IF j = k THEN total + 1 ELSE at[j]
      /\ j # k => data'[j] = data[j]
  BY DEF Store, TypeOK
<1>2. at[j] \in Nat /\ total \in Nat /\ at[j] <= total /\ s.at \in Nat
  BY DEF TypeOK, CasInv, Snapshots
<1>3. CASE j = k
  BY <1>1, <1>2, <1>3 DEF Accurate
<1>4. CASE j # k
  BY <1>1, <1>4 DEF Accurate
<1> QED BY <1>3, <1>4

\* What the invariant says of what a guest has, and of what is on its way to it.
Known(g) == \A k \in Keys : Ordered(g, k) /\ \A part \in Parts : Accurate(seen[g][k][part], k)
Coming(g) == IF Running(g) THEN next[g] = 1
                           ELSE Accurate(answer[g], asked[g]) /\ Written(g)

\* A part that is written is at least as new as what it replaces, and as what is written
\* after it, because all that is written before it comes from the same answer.
LEMMA CopyKnown ==
  ASSUME TypeOK, NEW g \in Guests, Known(g), Coming(g), CopyPart(g)
  PROVE  Known(g)' /\ Coming(g)'
<1> DEFINE k == asked[g]
           n == next[g]
<1>1. /\ k \in Keys /\ n \in 1..3 /\ answer[g] \in Snapshots /\ answer[g].at \in Nat
      /\ \A j \in Keys, part \in Parts : seen[g][j][part].at \in Nat
      /\ seen \in [Guests -> [Keys -> [Parts -> Snapshots]]]
  BY DEF TypeOK, Snapshots
<1>2. Accurate(answer[g], k) /\ Written(g)
  BY CopySteps DEF Coming
<1>3. \A j \in Keys, part \in Parts :
        seen'[g][j][part] = IF j = k /\ part = Order[n] THEN answer[g] ELSE seen[g][j][part]
  <2> DEFINE mine == [seen[g][k] EXCEPT ![Order[n]] = answer[g]]
             all == [seen[g] EXCEPT ![k] = mine]
  <2>1. seen' = [seen EXCEPT ![g] = all]
    BY CopySteps
  <2>2. seen'[g] = all
    BY <1>1, <2>1
  <2>3. \A j \in Keys : all[j] = IF j = k THEN mine ELSE seen[g][j]
    BY <1>1
  <2>4. \A part \in Parts : mine[part] = IF part = Order[n] THEN answer[g] ELSE seen[g][k][part]
    <3>1. seen[g][k] \in [Parts -> Snapshots]
      BY <1>1
    <3> QED BY <3>1
  <2> HIDE DEF mine, all
  <2> QED BY <2>2, <2>3, <2>4
<1>4. UNCHANGED <<store, history>>
  BY CopySteps
<1>5. \A j \in Keys, part \in Parts : Accurate(seen'[g][j][part], j)
  BY <1>2, <1>3 DEF Known
<1>6. \A part \in Parts : seen'[g][k][part].at <= answer[g].at
  BY <1>1, <1>2, <1>3 DEF Written
<1>7. \A m \in 1..n : seen'[g][k][Order[m]] = answer[g]
  <2>1. \A m \in 1..n : m \in 1..3 /\ (m = n \/ m \in 1..(n - 1))
    BY <1>1
  <2>2. \A m \in 1..n : Order[m] \in Parts
    BY <2>1, OrderOfParts
  <2> QED BY <1>1, <1>2, <1>3, <2>1, <2>2 DEF Written
<1>8. \A j \in Keys : Ordered(g, j)'
  <2> SUFFICES ASSUME NEW j \in Keys
               PROVE  /\ seen'[g][j]["cas"].at <= seen'[g][j]["size"].at
                      /\ seen'[g][j]["size"].at <= seen'[g][j]["pointer"].at
    BY DEF Ordered
  <2>1. CASE j # k
    BY <1>3, <2>1 DEF Known, Ordered, Parts
  <2>2. CASE j = k
    <3>1. seen'[g][k]["pointer"] = answer[g]
      BY <1>1, <1>7, OrderOfParts
    <3>2. CASE n = 1
      BY <1>1, <1>3, <1>6, <2>2, <3>1, <3>2, OrderOfParts DEF Known, Ordered, Parts
    <3>3. CASE n \in 2..3
      <4>1. seen'[g][k]["size"] = answer[g]
        <5>1. 2 \in 1..n
          BY <1>1, <3>3
        <5> QED BY <1>7, <5>1, OrderOfParts
      <4> QED BY <1>1, <1>6, <2>2, <3>1, <4>1 DEF Parts
    <3> QED BY <1>1, <3>2, <3>3
  <2> QED BY <2>1, <2>2
<1>9. Known(g)'
  BY <1>4, <1>5, <1>8 DEF Known, Accurate, store, history
<1>10. Coming(g)'
  <2>1. CASE Return(g, "Ok")
    BY <2>1 DEF Return, Coming, Running, TypeOK
  <2>2. CASE Onwards(g)
    <3>1. /\ next'[g] - 1 = n /\ UNCHANGED <<asked, answer>>
          /\ answer'[g] = answer[g] /\ asked'[g] = k
      BY <1>1, <2>2 DEF Onwards, TypeOK
    <3>2. Accurate(answer[g], k)'
      BY <1>2, <1>4, <3>1 DEF Accurate, store, history
    <3>3. Written(g)'
      BY <1>6, <1>7, <3>1 DEF Written, Order
    <3>4. ~Running(g)'
      BY <3>1, CopySteps DEF Running
    <3> QED BY <3>2, <3>3, <3>4 DEF Coming
  <2> QED BY <2>1, <2>2, CopySteps
<1> QED BY <1>9, <1>10

\* The invariant: what it says of the store, and of each guest.
StoreInv ==
  /\ cas = total % Modulus
  /\ \A k \in Keys : /\ itemCas[k] = at[k] % Modulus
                     /\ at[k] <= total
                     /\ data[k] = Absent => at[k] = 0

LEMMA CasParts == CasInv <=> StoreInv /\ \A g \in Guests : Known(g) /\ Coming(g)
  BY DEF CasInv, StoreInv, Known, Coming

\* Nothing changes for a guest that takes no part in a step that leaves the store alone.
LEMMA Untouched ==
  ASSUME UNCHANGED <<store, history>>, NEW h \in Guests, Known(h), Coming(h),
         seen'[h] = seen[h], asked'[h] = asked[h], answer'[h] = answer[h], next'[h] = next[h]
  PROVE  Known(h)' /\ Coming(h)'
<1>1. Known(h)'
  BY DEF Known, Ordered, Accurate, store, history
<1>2. Written(h) => Written(h)'
  BY DEF Written, Order
<1>3. Coming(h)'
  BY <1>2 DEF Coming, Running, Accurate, store, history
<1> QED BY <1>1, <1>3

\* An answer is accurate when it is given, and no part that the guest has is newer.
LEMMA AnswerKnown ==
  ASSUME TypeOK, CasInv, NEW g \in Guests, NEW k \in Keys, GetFound(g, k)
  PROVE  Known(g)' /\ Coming(g)'
<1>1. /\ UNCHANGED <<store, history>> /\ seen' = seen /\ next'[g] = 1
      /\ asked'[g] = k /\ answer'[g] = Snapshot(k)
  <2>1. next[g] = 1
    BY CasParts DEF GetFound, Coming
  <2> QED BY <2>1 DEF GetFound, TypeOK
<1>2. Known(g) /\ at[k] \in Nat
  BY CasParts DEF TypeOK
<1>3. Known(g)'
  BY <1>1, <1>2 DEF Known, Ordered, Accurate, store, history
<1>4. Accurate(answer[g], asked[g])'
  BY <1>1 DEF Accurate, Snapshot, CasInv, store, history
<1>5. Written(g)'
  <2>1. \A part \in Parts : seen[g][k][part].at <= at[k]
    <3> SUFFICES ASSUME NEW part \in Parts PROVE seen[g][k][part].at <= at[k]
      OBVIOUS
    <3>1. seen[g][k][part].at \in Nat
      BY DEF TypeOK, Snapshots
    <3>2. Accurate(seen[g][k][part], k)
      BY <1>2 DEF Known
    <3> QED BY <1>2, <3>1, <3>2 DEF Accurate
  <2>2. \A n \in 1..(next'[g] - 1) : FALSE
    BY <1>1
  <2> QED BY <1>1, <2>1, <2>2 DEF Written, Snapshot
<1>6. ~Running(g)'
  BY <1>1 DEF GetFound, Running
<1> QED BY <1>3, <1>4, <1>5, <1>6 DEF Coming

\* A set leaves what guests have, and the answers on their way to them, accurate.
LEMMA SetKnown ==
  ASSUME TypeOK, CasInv, NEW k \in Keys, NEW v \in Values, Store(k, v),
         UNCHANGED <<call, seen>>, NEW h \in Guests
  PROVE  Known(h)' /\ Coming(h)'
<1>1. Known(h) /\ Coming(h)
  BY CasParts
<1>2. \A j \in Keys, part \in Parts : Accurate(seen[h][j][part], j)'
  BY <1>1, StoreAccurate DEF Known, TypeOK
<1>3. Known(h)'
  BY <1>1, <1>2 DEF Known, Ordered
<1>4. ASSUME ~Running(h) PROVE Accurate(answer[h], asked[h])' /\ Written(h)'
  <2>1. Accurate(answer[h], asked[h]) /\ Written(h)
    BY <1>1, <1>4 DEF Coming
  <2>2. asked[h] \in Keys /\ answer[h] \in Snapshots
    BY DEF TypeOK
  <2>3. Accurate(answer[h], asked[h])'
    BY <2>1, <2>2, StoreAccurate DEF call
  <2> QED BY <2>1, <2>3 DEF Written, Order, call
<1>5. asked' = asked /\ next' = next
  BY DEF call
<1>6. CASE Running(h)
  BY <1>1, <1>3, <1>5, <1>6 DEF Coming, Running
<1>7. CASE ~Running(h)
  BY <1>3, <1>4, <1>5, <1>7 DEF Coming, Running
<1> QED BY <1>6, <1>7

LEMMA CasStep ==
  ASSUME TypeOK, CasInv, [Next]_vars
  PROVE  CasInv'
<1> SUFFICES StoreInv' /\ \A h \in Guests : Known(h)' /\ Coming(h)'
  BY CasParts DEF CasInv, StoreInv, Known, Coming
<1>0. StoreInv /\ \A h \in Guests : Known(h) /\ Coming(h)
  BY CasParts
<1>1. UNCHANGED <<store, history>> => StoreInv'
  BY <1>0 DEF StoreInv, store, history
<1>2. ASSUME NEW g \in Guests, GuestStep(g)
      PROVE  StoreInv' /\ \A h \in Guests : Known(h)' /\ Coming(h)'
  <2>1. ASSUME UNCHANGED <<store, call, seen, history>>
        PROVE  StoreInv' /\ \A h \in Guests : Known(h)' /\ Coming(h)'
    BY <1>0, <1>1, <2>1, Untouched DEF call
  <2>2. CASE BadArgument(g)
    BY <2>1, <2>2 DEF BadArgument
  <2>3. ASSUME NEW k \in Keys, GetNotFound(g, k) \/ SetMismatch(g, k)
        PROVE  StoreInv' /\ \A h \in Guests : Known(h)' /\ Coming(h)'
    BY <2>1, <2>3 DEF GetNotFound, SetMismatch
  <2>4. ASSUME UNCHANGED <<store, history>>, Known(g)' /\ Coming(g)',
               \A h \in Guests \ {g} : /\ seen'[h] = seen[h] /\ asked'[h] = asked[h]
                                       /\ answer'[h] = answer[h] /\ next'[h] = next[h]
        PROVE  StoreInv' /\ \A h \in Guests : Known(h)' /\ Coming(h)'
    <3>1. \A h \in Guests \ {g} : Known(h)' /\ Coming(h)'
      BY <1>0, <2>4, Untouched
    <3> QED BY <1>1, <2>4, <3>1
  <2>5. ASSUME NEW k \in Keys, GetFound(g, k)
        PROVE  StoreInv' /\ \A h \in Guests : Known(h)' /\ Coming(h)'
    <3>1. Known(g)' /\ Coming(g)'
      BY <2>5, AnswerKnown
    <3> QED BY <2>4, <2>5, <3>1 DEF GetFound, TypeOK
  <2>6. CASE CopyPart(g)
    <3>1. Known(g)' /\ Coming(g)'
      BY <1>0, <2>6, CopyKnown
    <3>2. \A h \in Guests \ {g} : /\ seen'[h] = seen[h] /\ asked'[h] = asked[h]
                                  /\ answer'[h] = answer[h] /\ next'[h] = next[h]
      BY <2>6, CopySteps DEF Onwards, Return, TypeOK
    <3> QED BY <2>4, <2>6, <3>1, <3>2, CopySteps
  <2>7. CASE CopyFails(g)
    <3>1. Known(g)'
      BY <1>0, <2>7 DEF CopyFails, Known, Ordered, Accurate, store, history
    <3>2. Coming(g)'
      BY <2>7 DEF CopyFails, Return, Coming, Running, TypeOK
    <3>3. \A h \in Guests \ {g} : /\ seen'[h] = seen[h] /\ asked'[h] = asked[h]
                                  /\ answer'[h] = answer[h] /\ next'[h] = next[h]
      BY <2>7 DEF CopyFails, Return, TypeOK
    <3> QED BY <2>4, <2>7, <3>1, <3>2, <3>3 DEF CopyFails
  <2>8. ASSUME NEW k \in Keys, NEW v \in Values,
               SetNew(g, k, v) \/ SetExisting(g, k, v)
        PROVE  StoreInv' /\ \A h \in Guests : Known(h)' /\ Coming(h)'
    <3>1. Store(k, v) /\ UNCHANGED <<call, seen>>
      BY <2>8, SetSteps
    <3>2. NextCas = (total + 1) % Modulus
      BY <1>0, ModulusAssumption, ModNext DEF NextCas, ModulusAssumption, StoreInv, TypeOK
    <3>3. cas' = total' % Modulus
      BY <3>1, <3>2 DEF Store
    <3>4. \A j \in Keys : /\ itemCas'[j] = at'[j] % Modulus
                          /\ at'[j] <= total'
                          /\ data'[j] = Absent => at'[j] = 0
      BY <1>0, <3>1, <3>2, AbsentAssumption DEF Store, AbsentAssumption, StoreInv, TypeOK
    <3> QED BY <3>1, <3>3, <3>4, SetKnown DEF StoreInv
  <2> QED BY <1>2, <2>2, <2>3, <2>5, <2>6, <2>7, <2>8 DEF GuestStep
<1>3. CASE UNCHANGED vars
  BY <1>0, <1>1, <1>3, Untouched DEF vars, call
<1> QED BY <1>2, <1>3 DEF Next

\* Cas and history agree, for the store and for everything known of it.
THEOREM CasCorrect == Spec => []CasInv
<1>1. Init => CasInv
  <2> SUFFICES ASSUME Init PROVE CasInv
    OBVIOUS
  <2>1. 0 % Modulus = 0
    <3>1. 0 = Modulus * 0 + 0 /\ 0 \in 0..(Modulus - 1)
      BY ModulusAssumption DEF ModulusAssumption
    <3> QED BY <3>1, ModulusAssumption, ModUnique DEF ModulusAssumption
  <2>2. StoreInv
    BY <2>1 DEF Init, StoreInv
  <2>3. \A k \in Keys : Accurate(Nothing, k)
    BY <2>1 DEF Init, Accurate, Nothing
  <2>4. \A g \in Guests, k \in Keys, part \in Parts : seen[g][k][part] = Nothing
    BY DEF Init
  <2>5. \A g \in Guests : Known(g)
    BY <2>3, <2>4 DEF Known, Ordered, Parts, Nothing
  <2>6. \A g \in Guests : Coming(g)
    BY DEF Init, Coming, Running
  <2> QED BY <2>2, <2>5, <2>6, CasParts
<1> QED BY <1>1, CasStep, TypeCorrect, PTL DEF Spec

\* A guest whose cas is that of the item has all of it as it is now, or a cas that is
\* a round of the counter old: the value was written before the cas, and so is as new.
LEMMA SameCas ==
  ASSUME TypeOK, CasInv, NEW g \in Guests, NEW k \in Keys,
         seen[g][k]["cas"].cas = itemCas[k]
  PROVE  \/ \A part \in Parts : seen[g][k][part].at = at[k] /\ seen[g][k][part].data = data[k]
         \/ Wrapped(seen[g][k]["cas"])
<1> DEFINE s == seen[g][k]["cas"]
<1>1. /\ at[k] \in Nat /\ total \in Nat /\ at[k] <= total
      /\ \A part \in Parts : seen[g][k][part].at \in Nat /\ Accurate(seen[g][k][part], k)
      /\ Ordered(g, k) /\ s.at % Modulus = at[k] % Modulus
  BY DEF TypeOK, CasInv, Snapshots, Accurate, Parts
<1>2. "cas" \in Parts /\ s.at \in Nat /\ Accurate(s, k)
  BY <1>1 DEF Parts
<1>3. CASE s.at = at[k]
  BY <1>1, <1>3 DEF Accurate, Ordered, Parts
<1>4. CASE s.at < at[k]
  <2>1. at[k] - s.at >= Modulus
    BY <1>1, <1>2, <1>4, ModulusAssumption, ModGap DEF ModulusAssumption
  <2>2. total - s.at >= Modulus
    BY <1>1, <1>2, <2>1, ModulusAssumption DEF ModulusAssumption
  <2> QED BY <2>2 DEF Wrapped
<1> QED BY <1>2, <1>3, <1>4 DEF Accurate

\* A guest that has the cas of an item has its value, however much of whichever answer
\* has reached it.
THEOREM CasIdentifies == Spec => []CasIdentifiesValue
<1>1. TypeOK /\ CasInv => CasIdentifiesValue
  BY SameCas DEF CasIdentifiesValue, HasValue, Parts
<1> QED BY <1>1, TypeCorrect, CasCorrect, PTL

\* No update is lost, with any number of guests racing on any keys.
THEOREM UpdatesNotLost == Spec => NoLostUpdate
<1>1. TypeOK /\ CasInv /\ [Next]_vars
        => [\A g \in Guests, k \in Keys :
              (\E v \in Values : SetNew(g, k, v) \/ SetExisting(g, k, v))
                => \/ \A part \in Parts : seen[g][k][part].at = at[k]
                   \/ Wrapped(seen[g][k]["cas"])]_vars
  <2> SUFFICES ASSUME TypeOK, CasInv, NEW g \in Guests, NEW k \in Keys, NEW v \in Values,
                      SetNew(g, k, v) \/ SetExisting(g, k, v)
               PROVE  \/ \A part \in Parts : seen[g][k][part].at = at[k]
                      \/ Wrapped(seen[g][k]["cas"])
    OBVIOUS
  <2>1. CASE SetNew(g, k, v)
    <3>1. /\ at[k] = 0
          /\ \A part \in Parts : /\ seen[g][k][part].at \in Nat
                                 /\ Accurate(seen[g][k][part], k)
      BY <2>1 DEF SetNew, CasInv, TypeOK, Snapshots
    <3> QED BY <3>1 DEF Accurate
  <2>2. CASE SetExisting(g, k, v)
    BY <2>2, SameCas DEF SetExisting, CasMatches
  <2> QED BY <2>1, <2>2
<1> QED BY <1>1, TypeCorrect, CasCorrect, PTL DEF Spec, NoLostUpdate

\* A guest is refused only if another set of the same key came first.
THEOREM MismatchNotSpurious == Spec => NoSpuriousMismatch
<1>1. TypeOK /\ CasInv /\ [Next]_vars
        => [\A g \in Guests, k \in Keys :
              SetMismatch(g, k) => seen[g][k]["cas"].at < at[k]]_vars
  <2> SUFFICES ASSUME TypeOK, CasInv, NEW g \in Guests, NEW k \in Keys, SetMismatch(g, k)
               PROVE  seen[g][k]["cas"].at < at[k]
    OBVIOUS
  <2>1. seen[g][k]["cas"].cas # itemCas[k] /\ Accurate(seen[g][k]["cas"], k)
    BY DEF SetMismatch, CasMatches, CasInv, Parts
  <2>2. itemCas[k] = at[k] % Modulus
    BY DEF CasInv
  <2> QED BY <2>1, <2>2 DEF Accurate
<1> QED BY <1>1, TypeCorrect, CasCorrect, PTL DEF Spec, NoSpuriousMismatch
===============================================================================
