--------------------------- MODULE CausalDelivery ---------------------------
(***************************************************************************)
(* What the pull half of a sync promises one device: the events of the     *)
(* other devices reach its log one at a time, each at most once, each      *)
(* origin's in seq order, and none before the events it depends on.        *)
(***************************************************************************)
EXTENDS Naturals

CONSTANTS Ids       \* event identities <<origin, seq>>

VARIABLES
    needs,          \* needs[i]: the events i depends on (its project's add)
    delivered       \* the device's log

vars == <<needs, delivered>>

Init == needs \in [Ids -> SUBSET Ids] /\ delivered = {}

Deliver(i) ==
    /\ i \notin delivered
    /\ i[2] > 1 => <<i[1], i[2] - 1>> \in delivered
    /\ needs[i] \subseteq delivered
    /\ delivered' = delivered \cup {i}
    /\ UNCHANGED needs

Next == \E i \in Ids : Deliver(i)

Spec == Init /\ [][Next]_vars
=============================================================================
