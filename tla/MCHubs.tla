------------------------------- MODULE MCHubs -------------------------------
(***************************************************************************)
(* The carrier that keeps what it is given, and the check that catches a   *)
(* hub that does not serve it.  They share no state; a run explores one    *)
(* part at a time.                                                         *)
(***************************************************************************)
EXTENDS GitCarrier, Omission, TLC

CONSTANTS a, b, c

Of(x, y, z) == a :> x @@ b :> y @@ c :> z

Quiet == [stock |-> {}, found |-> "carrier", mints |-> Of(1, 1, 0), compacts |-> Of(0, 0, 0), mishaps |-> 0,
          rewinds |-> 0, adopts |-> 0, steady |-> TRUE]

\* Two compactors; a compactor, a writer and a mishap; a host that rewinds, and
\* one that rewinds past a compaction; a revoked device with events on the hub;
\* clocks that do not move; a branch of something else, and one with an empty tree.
Worlds == {
    [Quiet EXCEPT !.compacts = Of(1, 1, 0)],
    [Quiet EXCEPT !.mints = Of(0, 1, 0), !.compacts = Of(1, 0, 0), !.mishaps = 1],
    [Quiet EXCEPT !.rewinds = 1],
    [Quiet EXCEPT !.mints = Of(1, 0, 0), !.compacts = Of(1, 0, 0), !.rewinds = 1, !.adopts = 1],
    [Quiet EXCEPT !.stock = {<<c, 1>>, <<c, 2>>}, !.compacts = Of(1, 0, 0)],
    [Quiet EXCEPT !.mints = Of(0, 0, 0), !.compacts = Of(2, 0, 0), !.steady = FALSE],
    [Quiet EXCEPT !.found = "other"],
    [Quiet EXCEPT !.found = "empty"]}
Still == [Quiet EXCEPT !.mints = Of(0, 0, 0)]
CarrierWorlds == Worlds \cup {Still}

Omen(mints, restores, compacts, declines, honestly) ==
    [mints |-> mints, restores |-> restores, compacts |-> compacts, declines |-> declines, honest |-> honestly]
NoOmen == Omen(0, 0, 0, 0, TRUE)
\* A compaction and a declined event; two compactions; an origin restored from
\* a backup, alone and beside a compaction; a hub that withholds.
OmenWorlds == {NoOmen, Omen(3, 0, 1, 1, TRUE), Omen(3, 0, 2, 0, TRUE), Omen(3, 1, 0, 0, TRUE), Omen(2, 1, 1, 0, TRUE),
               Omen(3, 0, 0, 1, FALSE)}
Compactions == {Omen(3, 0, 1, 0, TRUE)}
OnlyStill == {Still}

VARIABLE part
hubvars == <<vars, omvars, part>>

HubsInit ==
    /\ Init /\ OmissionInit
    /\ \/ part = "carrier" /\ omen = NoOmen
       \/ part = "omission" /\ left = Still

HubsNext ==
    /\ UNCHANGED part
    /\ \/ part = "carrier" /\ Next /\ UNCHANGED omvars
       \/ part = "omission" /\ OmissionNext /\ UNCHANGED vars

\* Commands run to their end, and every device syncs again and again.
HubsFairness ==
    /\ \A d \in Device : WF_vars(part = "carrier" /\ Step(d)) /\ WF_vars(part = "carrier" /\ StartSync(d))
    /\ WF_omvars(part = "omission" /\ pullAndApplyEvents)
    /\ WF_omvars(part = "omission" /\ VerifyPeerHeads)

HubsSpec == HubsInit /\ [][HubsNext]_hubvars /\ HubsFairness

\* What an acknowledgment, a refusal, a sweep lock and a clean bill say is true:
\* acknowledged events are there, a clone refuses an honest carrier for cause,
\* one sweeper holds the lock, and a stream found complete is the one its
\* origin signed (gitcarrier.go, head.go).
HubsSafe == TypeOK /\ Acknowledged /\ RefusalExplained /\ SweepersExclude /\ Vouched
=============================================================================
