---------------------------- MODULE ManagedResource ----------------------------
(* What a WasmInstance promises the goroutines that share it, whatever engine    *)
(* is behind it: it goes live once, can be held only while it is live, is        *)
(* retired only when nobody holds it, and every ABI is told of the retirement at *)
(* most once and never before it.                                                *)
EXTENDS Naturals

CONSTANTS Users,     \* the goroutines that may hold the instance
          NumABIs    \* how many ABIs are told when it is retired

VARIABLES phase,     \* "new", "live" or "retired"
          holders,   \* the users between Acquire and Release
          told       \* told[k]: how many times ABI k has been told

rvars == <<phase, holders, told>>

RInit == /\ phase = "new"
         /\ holders = {}
         /\ told = [k \in 1..NumABIs |-> 0]

GoLive == /\ phase = "new"
          /\ phase' = "live"
          /\ UNCHANGED <<holders, told>>

Hold(u) == /\ phase = "live"
           /\ u \notin holders
           /\ holders' = holders \cup {u}
           /\ UNCHANGED <<phase, told>>

Drop(u) == /\ u \in holders
           /\ holders' = holders \ {u}
           /\ UNCHANGED <<phase, told>>

Retire == /\ phase = "live"
          /\ holders = {}
          /\ phase' = "retired"
          /\ UNCHANGED <<holders, told>>

Tell(k) == /\ phase = "retired"
           /\ told[k] = 0
           /\ told' = [told EXCEPT ![k] = 1]
           /\ UNCHANGED <<phase, holders>>

RNext == \/ GoLive
         \/ Retire
         \/ \E u \in Users : Hold(u) \/ Drop(u)
         \/ \E k \in 1..NumABIs : Tell(k)

RSpec == RInit /\ [][RNext]_rvars
================================================================================
