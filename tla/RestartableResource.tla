-------------------------- MODULE RestartableResource --------------------------
(* What a WasmInstance that can be started again promises the goroutines that    *)
(* share it: it is held only while it is live, is retired only when nobody holds *)
(* it, and each retirement is told to every ABI at most once, never before it.   *)
EXTENDS Naturals

CONSTANTS Users,     \* the goroutines that may hold the instance
          NumABIs    \* how many ABIs are told when it is retired

VARIABLES live,      \* it can be held
          holders,   \* the users between Acquire and Release
          retired,   \* how often it has been retired
          told       \* told[k]: how often ABI k has been told

rvars == <<live, holders, retired, told>>

RInit == /\ live = FALSE
         /\ holders = {}
         /\ retired = 0
         /\ told = [k \in 1..NumABIs |-> 0]

GoLive == /\ ~live
          /\ live' = TRUE
          /\ UNCHANGED <<holders, retired, told>>

Hold(u) == /\ live
           /\ u \notin holders
           /\ holders' = holders \cup {u}
           /\ UNCHANGED <<live, retired, told>>

Drop(u) == /\ u \in holders
           /\ holders' = holders \ {u}
           /\ UNCHANGED <<live, retired, told>>

Retire == /\ live
          /\ holders = {}
          /\ live' = FALSE
          /\ retired' = retired + 1
          /\ UNCHANGED <<holders, told>>

Tell(k) == /\ told[k] < retired
           /\ told' = [told EXCEPT ![k] = @ + 1]
           /\ UNCHANGED <<live, holders, retired>>

RNext == \/ GoLive
         \/ Retire
         \/ \E u \in Users : Hold(u) \/ Drop(u)
         \/ \E k \in 1..NumABIs : Tell(k)

RSpec == RInit /\ [][RNext]_rvars
================================================================================
