--------------------------- MODULE ProjectionFold ---------------------------
(***************************************************************************)
(* Replicas that fold Decide and Apply over the same project events, each  *)
(* in its own order: the strong-eventual-consistency promise of the        *)
(* namespace map, and the abstract specification NamespaceStore is held to.*)
(*                                                                         *)
(* Events are not scheduled: any event may reach any replica at any time,  *)
(* in any order.  Two events never share a coordinate (event ids are       *)
(* unique).                                                                *)
(***************************************************************************)
EXTENDS Decide, FiniteSets

CONSTANTS
    Replicas,
    Universe,       \* the project events devices may mint
    MaxEvents       \* bound: distinct events in one behaviour

ASSUME FoldAssumption == Universe \subseteq ProjectEvent

VARIABLES
    delivered,      \* delivered[r]: the events r has applied
    declined,       \* declined[r]: deletes r held back as pending_delete conflicts
    proj            \* proj[r]: the projection, one row per path

vars == <<delivered, declined, proj>>

Minted == UNION {delivered[r] : r \in Replicas}

Init ==
    /\ delivered = [r \in Replicas |-> {}]
    /\ declined = [r \in Replicas |-> {}]
    /\ proj = [r \in Replicas |-> [p \in Paths |-> AbsentRow]]

\* One event of a pull window: load the row, decide, apply.  dirty is the
\* state of the local checkout at that moment.
Deliver(r, e, dirty) ==
    /\ e \notin delivered[r]
    /\ delivered' = [delivered EXCEPT ![r] = @ \cup {e}]
    /\ \A f \in Minted : f.at = e.at => f = e
    /\ e \in Minted \/ Cardinality(Minted) < MaxEvents
    /\ LET d == Decide(proj[r][e.path], e, dirty)
       IN  /\ proj' = [proj EXCEPT ![r][e.path] = ApplyMutation(@, e, d.mutation)]
           /\ declined' = IF d.conflict = "pending_delete"
                          THEN [declined EXCEPT ![r] = @ \cup {e}] ELSE declined

Next == \E r \in Replicas, e \in Universe, dirty \in BOOLEAN : Deliver(r, e, dirty)

Spec == Init /\ [][Next]_vars

-----------------------------------------------------------------------------
TypeOK ==
    /\ delivered \in [Replicas -> SUBSET Universe]
    /\ declined \in [Replicas -> SUBSET Universe]
    /\ proj \in [Replicas -> [Paths -> Row]]

\* The events r has applied and not held back, on path p.
Accepted(r, p) == {e \in delivered[r] \ declined[r] : e.path = p}

\* What the row must be after the events E, by their maxima alone: the upsert
\* with the highest coordinate if it is above every delete, otherwise a
\* tombstone at the highest delete.
IsLatest(row, E) ==
    \/ E = {} /\ row = AbsentRow
    \/ \E u \in E : /\ u.op = "upsert" /\ row = ActiveRow(u)
                    /\ \A v \in E : v.op = "upsert" => v = u \/ SamePathLess(v.at, u.at)
                    /\ \A v \in E : v.op = "delete" => HLC(v) < HLC(u)
    \/ \E d \in E : /\ d.op = "delete" /\ row = DeletedRow(HLC(d))
                    /\ \A v \in E : HLC(v) <= HLC(d)

\* Every row is the maximum of the events accepted on its path, whatever the
\* order they arrived in.
RowIsLatest == \A r \in Replicas, p \in Paths : IsLatest(proj[r][p], Accepted(r, p))

\* A held-back delete is settled once a later event on its path was accepted
\* (what both resolutions of the conflict emit).
Settled(r) ==
    \A d \in declined[r] :
        \E f \in delivered[r] \ declined[r] : f.path = d.path /\ HLC(f) > HLC(d)

\* Strong eventual consistency: replicas that applied the same events, in any
\* orders, with held-back deletes settled, show the same namespace.
Convergence ==
    \A r, s \in Replicas :
        delivered[r] = delivered[s] /\ Settled(r) /\ Settled(s) => proj[r] = proj[s]

\* A deleted path stays deleted: it becomes active again only through an event
\* stamped above every delete this replica ever accepted on it (SYNC-03).
NoResurrection ==
    [][\A r \in Replicas, p \in Paths :
         proj[r][p].status = "deleted" /\ proj'[r][p].status = "active" =>
            \A d \in Accepted(r, p) : d.op = "delete" => HLC(d) < proj'[r][p].src[1]]_vars

\* The inductive strengthening: coordinates identify events, and only
\* delivered deletes are ever held back.
CoordsUnique == \A e, f \in Minted : e.at = f.at => e = f

DeclinedDelivered == \A r \in Replicas : declined[r] \subseteq delivered[r]

IInv == TypeOK /\ CoordsUnique /\ DeclinedDelivered /\ RowIsLatest
=============================================================================
