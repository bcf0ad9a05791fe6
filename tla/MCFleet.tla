------------------------------- MODULE MCFleet -------------------------------
(***************************************************************************)
(* What the devices of a fleet share: trust and keys (Fleet, three devices, *)
(* a founds, b and x join) and encrypted blobs (Blobs, two devices that     *)
(* stay).  The run explores one part at a time, each from the worlds below; *)
(* a world asks one question, so that worlds add up instead of multiplying. *)
(***************************************************************************)
EXTENDS Fleet, Blobs, TLC

MCDevice == {"a", "b", "x"}
MCJoiner == {"b", "x"}

Calm == [fresh |-> FALSE, edits |-> 0, rotations |-> 0, mishaps |-> 0, approvals |-> {}, revokes |-> {}]
\* The first syncs and approvals in any order, with an edit and one mishap.
Founding == [Calm EXCEPT !.fresh = TRUE, !.edits = 1, !.mishaps = 1, !.approvals = {<<"a", "b">>}]
Pairing == [Calm EXCEPT !.fresh = TRUE, !.approvals = {<<"a", "b">>, <<"b", "a">>, <<"b", "x">>}]
\* A revocation while somebody else rotates and things go wrong; one by two
\* devices at once; one that is taken back; two devices revoking each other.
Overtaken == [Calm EXCEPT !.rotations = 1, !.mishaps = 1, !.revokes = {<<"a", "x">>}]
Twice == [Calm EXCEPT !.mishaps = 1, !.revokes = {<<"a", "x">>, <<"b", "x">>}]
TakenBack == [Calm EXCEPT !.revokes = {<<"a", "x">>}, !.approvals = {<<"a", "x">>}]
Mutual == [Calm EXCEPT !.revokes = {<<"a", "x">>, <<"x", "a">>}]
MCWorld == {Calm, Founding, Pairing, Overtaken, Twice, TakenBack, Mutual}

Sharing(k, c1, c2, r, n, g, m, t, d) ==
    [kind |-> k, captures |-> 1 :> c1 @@ 2 :> c2, revokes |-> r, rotates |-> n, gcs |-> g, mishaps |-> m, ticks |-> t, direct |-> d]
NoSharing == Sharing("env", 0, 0, {}, 0, {}, 0, 0, FALSE)
MCBlobWorld == {NoSharing,
    Sharing("env", 1, 0, {1}, 0, {}, 1, 0, FALSE),    \* a revoke without a hub, one mishap
    Sharing("env", 1, 0, {1}, 0, {}, 1, 0, TRUE),     \* the same with one
    Sharing("env", 0, 1, {1}, 0, {}, 0, 0, TRUE),     \* the revoker rewraps what a peer captured
    Sharing("env", 2, 0, {2}, 1, {}, 0, 0, FALSE),    \* a peer revokes, the author rotates
    Sharing("draft", 1, 0, {}, 0, {2}, 1, 1, TRUE),   \* hub gc against a push that is repeated
    Sharing("draft", 2, 0, {}, 0, {2}, 0, 1, TRUE),   \* hub gc of superseded snapshots
    Sharing("draft", 1, 0, {2}, 0, {2}, 0, 1, TRUE),  \* hub gc beside rewraps
    Sharing("draft", 1, 0, {1}, 0, {2}, 0, 1, FALSE)}

VARIABLE part
fleetvars == <<vars, blobvars, part>>

FleetInit ==
    /\ Init /\ BlobInit
    /\ \/ part = "keys" /\ budget = NoSharing /\ left # Calm
       \/ part = "blobs" /\ left = Calm /\ budget # NoSharing
FleetNext ==
    /\ UNCHANGED part
    /\ \/ part = "keys" /\ Next /\ UNCHANGED blobvars
       \/ part = "blobs" /\ BlobNext /\ UNCHANGED vars

\* Fleet's fairness while the keys are explored.
KeysFairness ==
    \A d \in Device :
        /\ SF_vars(part = "keys" /\ syncPull(d)) /\ WF_vars(part = "keys" /\ SyncStep(d))
        /\ WF_vars(part = "keys" /\ CommandStep(d))
FleetSpec == FleetInit /\ [][FleetNext]_fleetvars /\ KeysFairness
=============================================================================
