------------------------------ MODULE SharedData ------------------------------
(* The shared key/value store of the default v1 imports handler: sharedData in   *)
(* proxywasm/v1/default.go, behind the host calls proxy_get_shared_data and      *)
(* proxy_set_shared_data (internal/imports/v1/shared.go). One store serves the   *)
(* guests of the whole process, each on a goroutine of its own.                  *)
(*                                                                               *)
(* get and set hold the lock of the store for their whole body and are one       *)
(* action each; between get and the end of proxy_get_shared_data the host copies *)
(* the answer into the guest part by part, which takes time and may fail between *)
(* any two parts.                                                                *)
EXTENDS Integers, Sequences

CONSTANTS Guests,    \* guests that call the host
          Keys,      \* keys they use, the empty one among them
          EmptyKey,
          Values,    \* values they store
          Absent,    \* stands for the value of a key that is not in the map
          Modulus,   \* the cas counter is a uint32: it counts modulo 2^32
          MaxSets    \* bound: how many calls of set succeed

ASSUME ModulusAssumption == Modulus \in Nat \ {0}
ASSUME MaxSetsAssumption == MaxSets \in Nat
ASSUME KeysAssumption == EmptyKey \in Keys
ASSUME AbsentAssumption == Absent \notin Values

\* What a guest gets of an item: three variables of its memory, of which the first two
\* are the value.
Parts == {"pointer", "size", "cas"}

VARIABLES data, itemCas, \* sharedData.m: the item of each key; an absent key has
                         \* the data and cas that get answers for it: none and 0
          cas,           \* sharedData.cas
          asked, answer, next, \* a get on its way back into a guest's memory: its
                         \* key (EmptyKey: none), what the store answered, and
                         \* the place in Order of the part to be written next
          seen,          \* the variables of each guest for each key: the item as
                         \* it was when the part in them was answered
          res,           \* the result of the call that has returned last
          total, at      \* history: how many sets have succeeded, and how many had
                         \* at the last set of each key

store == <<data, itemCas, cas>>
call == <<asked, answer, next>>
history == <<total, at>>
vars == <<store, call, seen, res, history>>

\* What the store says of a key, with how much of its history had happened then.
Snapshots == [data : Values \cup {Absent}, cas : 0..(Modulus - 1), at : Nat]

\* The mutant answers with the counter of the store, not the cas of the item.
Snapshot_StoreCas(k) == [data |-> data[k], cas |-> cas, at |-> at[k]]
Snapshot(k) == [data |-> data[k], cas |-> itemCas[k], at |-> at[k]]

Nothing == [data |-> Absent, cas |-> 0, at |-> 0]

Init ==
  /\ data = [k \in Keys |-> Absent]
  /\ itemCas = [k \in Keys |-> 0]
  /\ cas = 0
  /\ total = 0
  /\ at = [k \in Keys |-> 0]
  /\ asked = [g \in Guests |-> EmptyKey]
  /\ answer = [g \in Guests |-> Nothing]
  /\ next = [g \in Guests |-> 1]
  /\ seen = [g \in Guests |-> [k \in Keys |-> [part \in Parts |-> Nothing]]]
  /\ res = "none"

\* The guest is running, not waiting for proxy_get_shared_data.
Running(g) == asked[g] = EmptyKey

\* proxy_get_shared_data returns to the guest.
Return(g, r) ==
  /\ res' = r
  /\ asked' = [asked EXCEPT ![g] = EmptyKey]
  /\ answer' = [answer EXCEPT ![g] = Nothing]
  /\ next' = [next EXCEPT ![g] = 1]

-------------------------------------------------------------------------------
\* Either call with an empty key.
BadArgument(g) ==
  /\ Running(g)
  /\ res' = "BadArgument"
  /\ UNCHANGED <<store, call, seen, history>>

\* proxy_get_shared_data when get finds nothing: the guest is told at once, and
\* nothing is written.
GetNotFound(g, k) ==
  /\ Running(g) /\ k # EmptyKey
  /\ data[k] = Absent
  /\ res' = "NotFound"
  /\ UNCHANGED <<store, call, seen, history>>

\* proxy_get_shared_data when get finds an item: get returns its value and its cas,
\* read under one lock, and the host begins to copy them into the guest.
GetFound(g, k) ==
  /\ Running(g) /\ k # EmptyKey
  /\ data[k] # Absent
  /\ asked' = [asked EXCEPT ![g] = k]
  /\ answer' = [answer EXCEPT ![g] = Snapshot(k)]
  /\ UNCHANGED <<store, next, seen, res, history>>

\* The order in which the parts are written: copyIntoInstance gets a block for the
\* value from malloc and fills it, writes its address and its size, and the cas comes
\* after that. The mutant writes the cas first.
Order_CasFirst == <<"cas", "pointer", "size">>
Order == <<"pointer", "size", "cas">>

\* One part of the answer is in the guest's memory; with the last one the call is over.
CopyPart(g) ==
  /\ ~Running(g)
  /\ seen' = [seen EXCEPT ![g][asked[g]][Order[next[g]]] = answer[g]]
  /\ IF next[g] < Len(Order)
       THEN next' = [next EXCEPT ![g] = @ + 1] /\ UNCHANGED <<asked, answer, res>>
       ELSE Return(g, "Ok")
  /\ UNCHANGED <<store, history>>

\* Malloc or the write of the next part fails: the guest is told, and what has been
\* written before stays in its memory.
CopyFails(g) ==
  /\ ~Running(g)
  /\ Return(g, "InvalidMemoryAccess")
  /\ UNCHANGED <<store, seen, history>>

\* if v.cas != cas: may set replace the item of k. The mutant does not compare.
CasMatches_Any(k, c) == TRUE
CasMatches(k, c) == itemCas[k] = c

\* atomic.AddUint32(&s.cas, 1).
NextCas == (cas + 1) % Modulus

\* set stores the value, in the item or in a new one, under a fresh cas.
Store(k, v) ==
  /\ data' = [data EXCEPT ![k] = v]
  /\ cas' = NextCas
  /\ itemCas' = [itemCas EXCEPT ![k] = NextCas]
  /\ total' = total + 1
  /\ at' = [at EXCEPT ![k] = total + 1]

\* proxy_set_shared_data with the cas that the guest has for the key (0 until it got
\* one), whatever the result was of its last get: on an absent key, where set does not
\* look at the cas,
SetNew(g, k, v) ==
  /\ Running(g) /\ k # EmptyKey /\ total < MaxSets
  /\ data[k] = Absent
  /\ Store(k, v)
  /\ res' = "Ok"
  /\ UNCHANGED <<call, seen>>

\* on an item with that cas,
SetExisting(g, k, v) ==
  /\ Running(g) /\ k # EmptyKey /\ total < MaxSets
  /\ data[k] # Absent
  /\ CasMatches(k, seen[g][k]["cas"].cas)
  /\ Store(k, v)
  /\ res' = "Ok"
  /\ UNCHANGED <<call, seen>>

\* and on an item with another cas.
SetMismatch(g, k) ==
  /\ Running(g) /\ k # EmptyKey
  /\ data[k] # Absent
  /\ ~CasMatches(k, seen[g][k]["cas"].cas)
  /\ res' = "CasMismatch"
  /\ UNCHANGED <<store, call, seen, history>>

-------------------------------------------------------------------------------
GuestStep(g) ==
  \/ BadArgument(g) \/ CopyPart(g) \/ CopyFails(g)
  \/ \E k \in Keys : \/ GetNotFound(g, k) \/ GetFound(g, k) \/ SetMismatch(g, k)
                     \/ \E v \in Values : SetNew(g, k, v) \/ SetExisting(g, k, v)

Next == \E g \in Guests : GuestStep(g)

Spec == Init /\ [][Next]_vars

-------------------------------------------------------------------------------
(* Properties                                                                    *)

\* The store, the answers on their way and what guests know keep their types: the
\* counter in particular stays a uint32.
TypeOK ==
  /\ data \in [Keys -> Values \cup {Absent}]
  /\ itemCas \in [Keys -> 0..(Modulus - 1)]
  /\ cas \in 0..(Modulus - 1)
  /\ asked \in [Guests -> Keys]
  /\ answer \in [Guests -> Snapshots]
  /\ next \in [Guests -> 1..3]
  /\ seen \in [Guests -> [Keys -> [Parts -> Snapshots]]]
  /\ res \in {"none", "Ok", "NotFound", "CasMismatch", "BadArgument", "InvalidMemoryAccess"}
  /\ total \in Nat /\ at \in [Keys -> Nat]

\* What is known of a key, or on its way to a guest, is the key as it was at some
\* count: the present one if no set of the key came since, else an earlier one.
Accurate(s, k) ==
  /\ s.cas = s.at % Modulus
  /\ \/ s.at = at[k] /\ s.data = data[k]
     \/ s.at < at[k]

\* Of what a guest has of a key no part is older than one that is written after it; and
\* none is newer than the answer that is being written.
Ordered(g, k) == /\ seen[g][k]["cas"].at <= seen[g][k]["size"].at
                 /\ seen[g][k]["size"].at <= seen[g][k]["pointer"].at

Written(g) ==
  /\ \A part \in Parts : seen[g][asked[g]][part].at <= answer[g].at
  /\ \A n \in 1..(next[g] - 1) : seen[g][asked[g]][Order[n]] = answer[g]

\* The cas of an item is the count of sets at which it was set, modulo 2^32, and
\* everything known of it is accurate and in order.
CasInv ==
  /\ cas = total % Modulus
  /\ \A k \in Keys : /\ itemCas[k] = at[k] % Modulus
                     /\ at[k] <= total
                     /\ data[k] = Absent => at[k] = 0
  /\ \A g \in Guests, k \in Keys :
       Ordered(g, k) /\ \A part \in Parts : Accurate(seen[g][k][part], k)
  /\ \A g \in Guests : IF Running(g) THEN next[g] = 1
                                    ELSE Accurate(answer[g], asked[g]) /\ Written(g)

\* The counter has gone all the way round since the snapshot's item was set.
Wrapped(s) == total - s.at >= Modulus

\* The value that the guest has is that of the item: its address and its size both are.
HasValue(g, k) == \A part \in {"pointer", "size"} : seen[g][k][part].data = data[k]

\* A guest that has the cas of an item has its value, even one that does not look at the
\* result of its gets: whatever is set while they are copied, and whatever part of the
\* copying fails. Only a counter that went all the way round can mislead it.
CasIdentifiesValue ==
  \A g \in Guests, k \in Keys :
    seen[g][k]["cas"].cas = itemCas[k] => HasValue(g, k) \/ Wrapped(seen[g][k]["cas"])

\* No update is lost: a set that replaces or creates an item succeeds only if no other
\* set of that key came after what its guest has of it, the value as well as the cas;
\* two guests that both found the key absent cannot both create it. The exception is
\* 2^32 sets after the item was set.
NoLostUpdate ==
  [][\A g \in Guests, k \in Keys :
       (\E v \in Values : SetNew(g, k, v) \/ SetExisting(g, k, v))
         => \/ \A part \in Parts : seen[g][k][part].at = at[k]
            \/ Wrapped(seen[g][k]["cas"])]_vars

\* set refuses only a guest that somebody forestalled since the last get that gave it a
\* cas: sets of other keys and failed calls never cost it its turn, so of guests that
\* get and set again one always wins.
NoSpuriousMismatch ==
  [][\A g \in Guests, k \in Keys :
       SetMismatch(g, k) => seen[g][k]["cas"].at < at[k]]_vars
===============================================================================
