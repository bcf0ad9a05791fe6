---------------------------- MODULE MCNamespace ----------------------------
(***************************************************************************)
(* The namespace map, in three parts that share no variable: the clock     *)
(* that stamps events, the fold of the events, and the store.              *)
(*   clock: two devices that mint up to three events each, wall clocks     *)
(*     that jump anywhere in 0..2, a one-bit logical component (so that    *)
(*     carries happen) and a trusted skew of one tick;                     *)
(*   fold: one path (paths do not interact in Decide), two remotes, stamps *)
(*     1..3 from two devices, so that ties on the HLC, on the HLC and      *)
(*     remote, and between an add and a delete all occur, three events;    *)
(*   store: two devices, one path and its sibling, two remotes.            *)
(***************************************************************************)
EXTENDS HLC, ProjectionFold, NamespaceStore, TLC

CONSTANTS d1, d2, r1, r2, p1, p2, A, B

MCDevices == {d1, d2}

MCUniverse ==
    [op : {"upsert"}, at : (1..3) \X (1..2) \X {1}, path : {p1}, remote : {A, B, NoRemote}]
      \cup [op : {"delete"}, at : (1..3) \X (1..2) \X {1}, path : {p1}, remote : {NoRemote}]

MCSibling == (p1 :> p2) @@ (p2 :> p2)

Symmetry == Permutations({A, B}) \cup Permutations({r1, r2}) \cup Permutations({d1, d2})

VARIABLE part
namespacevars == <<clockvars, vars, storevars, part>>

NamespaceInit ==
    /\ ClockInit /\ Init /\ StoreInit
    /\ \/ part = "clock"
       \/ part \in {"fold", "store"} /\ now = [d \in Devices |-> 0]

NamespaceNext ==
    /\ UNCHANGED part
    /\ \/ part = "clock" /\ ClockNext /\ UNCHANGED <<vars, storevars>>
       \/ part = "fold" /\ Next /\ UNCHANGED <<clockvars, storevars>>
       \/ part = "store" /\ StoreNext /\ UNCHANGED <<clockvars, vars>>

NamespaceSpec == NamespaceInit /\ [][NamespaceNext]_namespacevars

\* The types of the three parts, and what the proofs of causality and
\* convergence lean on: stamps follow the seqs of a device, and each row is the
\* latest of the events its replica accepted.
NamespaceInv == ClockTypeOK /\ StreamOrder /\ TypeOK /\ RowIsLatest /\ StoreTypeOK

\* No variant of a project is lost unseen: what a conflict displaced can be
\* restored from its row, and a device whose own project was displaced has it
\* on record (decide.go's same-path rule, conflict_resolve.go).
ConflictsKept == ConflictsRecoverable /\ OwnDisplacementFlagged
=============================================================================
