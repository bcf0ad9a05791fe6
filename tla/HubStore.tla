------------------------------ MODULE HubStore ------------------------------
(***************************************************************************)
(* What every hub back end promises its callers (internal/sync/hub.go, the *)
(* Hub interface): one store that all devices see, in which events are     *)
(* only ever added, except below the floors of the retention manifest in   *)
(* force or in the stream of a revoked device; in which a manifest is      *)
(* replaced only by a successor of exactly that manifest; and in which a   *)
(* sweep lock passes from one holder to the next through being free.       *)
(***************************************************************************)
EXTENDS Naturals

CONSTANTS Device, Revoked, None

VARIABLES ev, man, lock, honest

vars == <<ev, man, lock, honest>>

Init == man.n = 0 /\ lock = None /\ honest = TRUE

Append == ev \subseteq ev' /\ UNCHANGED <<man, lock, honest>>

\* Events leave below the floors, or with the whole stream of a revoked device.
Compact ==
    /\ ev' \subseteq ev
    /\ \A e \in ev \ ev' : e[2] < man.floors[e[1]] \/ e[1] \in Revoked
    /\ UNCHANGED <<man, lock, honest>>

Swap ==
    /\ man'.n = man.n + 1 /\ \A o \in Device : man'.floors[o] >= man.floors[o]
    /\ UNCHANGED <<ev, lock, honest>>

Acquire == lock = None /\ lock' \in Device /\ UNCHANGED <<ev, man, honest>>
Release == lock # None /\ lock' = None /\ UNCHANGED <<ev, man, honest>>

\* A host that restores an old state, and everything after it, is no hub.
Unhinged == ~honest'

Next == Append \/ Compact \/ Swap \/ Acquire \/ Release \/ Unhinged

Spec == Init /\ [][Next]_vars
=============================================================================
