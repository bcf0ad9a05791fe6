------------------------------ MODULE Omission ------------------------------
(***************************************************************************)
(* Signed heads and what a device concludes from them (sync/head.go,       *)
(* sync/ack.go, state/device_heads.go): after a clean sync a device signs  *)
(* how far it has pushed and a running hash of its stream up to there.  A  *)
(* device that pulls folds what it holds of that stream and compares: a    *)
(* promise it cannot reach in two pulls is a hub that withholds events, a  *)
(* fold that differs is a fork.                                            *)
(*                                                                         *)
(* One origin, one hub, one verifier.  An event stands for its chain: the  *)
(* sequence of the contents of the stream up to it, so the previous-hash   *)
(* check is a comparison of prefixes, and a fold is a sequence built       *)
(* element by element (the hash is taken to be injective).  Signatures,    *)
(* approval and other origins are in Fleet and PullApply.                  *)
(***************************************************************************)
EXTENDS Naturals, Sequences, FiniteSets

CONSTANTS
    Omens,         \* the worlds to explore
    MaxSeq         \* bound on the events of the origin

\* A world: the events minted; the backups of the origin that are restored; the
\* compactions; the pulls that quarantine an event or wait for a key; whether
\* the hub serves all it has.
ASSUME OmissionAssumption ==
    /\ MaxSeq \in Nat \ {0}
    /\ Omens \subseteq [mints : 0..MaxSeq, restores : Nat, compacts : Nat, declines : Nat, honest : BOOLEAN]

VARIABLES
    origin,        \* its log, push watermark, cached ack; and a backup of these
    published,     \* the acks it signed, in order
    objects,       \* the event objects of its stream on the hub
    floor, snap,   \* its retention floor and chain anchor in the manifest's snapshot
    cap,           \* the hub serves nothing above this
    view,          \* the verifier's database
    omen           \* what is left of the world

omvars == <<origin, published, objects, floor, snap, cap, view, omen>>

NoHead == [seq |-> 0, fold |-> <<>>, pending |-> FALSE]
NoAnchor == [seq |-> 0, fold |-> <<>>]
Kept(o) == [log |-> o.log, pushed |-> o.pushed, acked |-> o.acked]
MaxSeen(m, n) == IF m > n THEN m ELSE n

OmissionInit ==
    /\ origin = [log |-> <<>>, pushed |-> 0, acked |-> 0, era |-> 0,
                 backup |-> [log |-> <<>>, pushed |-> 0, acked |-> 0]]
    /\ published = <<>> /\ objects = {} /\ floor = 0 /\ snap = NoAnchor
    /\ cap = MaxSeq
    /\ view = [rows |-> {}, anchor |-> NoAnchor, cursor |-> 0, declined |-> {}, waiting |-> FALSE,
               head |-> NoHead, alarms |-> {}, vouched |-> 0, at |-> "idle"]
    /\ omen \in Omens

-----------------------------------------------------------------------------
(* The origin and the hub.                                                 *)

MintEvent ==
    /\ omen.mints > 0 /\ omen' = [omen EXCEPT !.mints = @ - 1]
    /\ origin' = [origin EXCEPT !.log = Append(@, origin.era)]
    /\ UNCHANGED <<published, objects, floor, snap, cap, view>>

\* Objects are put one by one; the watermark moves when the last one landed.
PushEvents ==
    /\ \E k \in (origin.pushed + 1)..Len(origin.log) :
         /\ objects' = objects \cup {SubSeq(origin.log, 1, i) : i \in (origin.pushed + 1)..k}
         /\ origin' = [origin EXCEPT !.pushed = IF k = Len(origin.log) THEN k ELSE @]
    /\ UNCHANGED <<published, floor, snap, cap, view, omen>>

\* The running hash of contents cs from state f on.
Folded(f, cs) == f \o cs

\* The signed marker: how far the stream was pushed, and the fold up to there.
AckMarker(seq) == [seq |-> seq, fold |-> Folded(<<>>, SubSeq(origin.log, 1, seq))]

AckSeq == origin.pushed

maybeWriteSyncAck ==
    /\ AckSeq > 0 /\ origin.acked # AckSeq
    /\ published' = Append(published, AckMarker(AckSeq))
    /\ origin' = [origin EXCEPT !.acked = AckSeq]
    /\ UNCHANGED <<objects, floor, snap, cap, view, omen>>

\* db backup, and db restore on a machine that went on after it.
BackUp ==
    /\ omen.restores > 0 /\ origin.backup # Kept(origin)
    /\ origin' = [origin EXCEPT !.backup = Kept(origin)]
    /\ UNCHANGED <<published, objects, floor, snap, cap, view, omen>>
RestoreOrigin ==
    /\ omen.restores > 0 /\ omen' = [omen EXCEPT !.restores = @ - 1]
    /\ LET old == origin.backup
       IN origin' = [log |-> old.log, pushed |-> old.pushed, acked |-> old.acked, era |-> origin.era + 1, backup |-> old]
    /\ UNCHANGED <<published, objects, floor, snap, cap, view>>

\* Some device that consumed the stream up to s compacts the hub: the floor is
\* its cursor, not what the origin has acknowledged.
CompactStream ==
    /\ omen.compacts > 0 /\ omen' = [omen EXCEPT !.compacts = @ - 1]
    /\ \E e \in objects :
         /\ Len(e) >= floor /\ \A i \in MaxSeen(floor, 1)..Len(e) : SubSeq(e, 1, i) \in objects
         /\ floor' = Len(e) + 1 /\ snap' = [seq |-> Len(e), fold |-> e]
         /\ objects' = {x \in objects : Len(x) > Len(e)}
    /\ UNCHANGED <<origin, published, cap, view>>

\* The hub stops serving the newest events; later it may serve them again.
Withhold ==
    /\ ~omen.honest /\ cap = MaxSeq
    /\ \E n \in 0..(MaxSeq - 1) : cap' = n
    /\ UNCHANGED <<origin, published, objects, floor, snap, view, omen>>
Relent ==
    /\ cap < MaxSeq /\ cap' = MaxSeq
    /\ UNCHANGED <<origin, published, objects, floor, snap, view, omen>>

-----------------------------------------------------------------------------
(* The verifier's pull.                                                    *)

\* UpsertChainAnchor keeps the highest anchor.
UpsertChainAnchor(v) ==
    IF v.cursor + 1 < floor
      THEN [v EXCEPT !.anchor = IF snap.seq > @.seq THEN snap ELSE @, !.cursor = floor - 1]
      ELSE v

Served(v) == {e \in objects : Len(e) > v.cursor /\ Len(e) <= cap}

\* The previous-hash check, against the row before or the imported anchor.
Chained(v, e) ==
    LET before == SubSeq(e, 1, Len(e) - 1)
    IN Len(e) = 1 \/ before \in v.rows \/ v.anchor = [seq |-> Len(e) - 1, fold |-> before]

Run(e, lo) == {SubSeq(e, 1, i) : i \in lo..Len(e)}

\* The ends of the contiguous runs that apply from the cursor on.
Ends(v) ==
    {e \in Served(v) : Run(e, v.cursor + 1) \subseteq Served(v) /\ Chained(v, SubSeq(e, 1, v.cursor + 1))}

Applied(v, e) == [v EXCEPT !.rows = @ \cup Run(e, v.cursor + 1), !.cursor = Len(e)]

\* What is left over when the run ends: an event that does not chain holds the
\* cursor, one whose slot is taken is consumed; both leave a conflict.
LeaveConflicts(v) ==
    [v EXCEPT !.declined = @ \cup {Len(e) : e \in {x \in Served(v) : Len(x) = v.cursor + 1}}
                             \cup {Len(e) : e \in {x \in objects \ v.rows : Len(x) \in {Len(r) : r \in v.rows}
                                                                             /\ Len(x) > view.cursor /\ Len(x) <= cap}}]

\* An event stamped before the epoch is consumed by a quarantine that names no
\* seq; one under a key that was not granted stops the pull.
Declines(v) ==
    IF omen.declines = 0 THEN {}
    ELSE {[view |-> w, left |-> omen.declines - 1] : w \in
            UNION {{LeaveConflicts([v EXCEPT !.cursor = Len(e), !.declined = @ \cup {0}]),
                    [v EXCEPT !.waiting = TRUE]}
                   : e \in {x \in Served(v) : Len(x) = v.cursor + 1 /\ Chained(v, x)}}}

Through(v) ==
    LET ends == Ends(v)
        full == {e \in ends : \A x \in ends : ~(Len(x) > Len(e) /\ SubSeq(x, 1, Len(e)) = e)}
    IN (IF full = {} THEN {[view |-> LeaveConflicts(v), left |-> omen.declines]}
        ELSE {[view |-> LeaveConflicts(Applied(v, e)), left |-> omen.declines] : e \in full})
       \cup Declines(v) \cup UNION {Declines(Applied(v, e)) : e \in ends}

pullAndApplyEvents ==
    /\ view.at = "idle"
    /\ \E o \in Through(UpsertChainAnchor([view EXCEPT !.waiting = FALSE])) :
         /\ view' = [o.view EXCEPT !.at = "pulled"]
         /\ omen' = [omen EXCEPT !.declines = o.left]
    /\ UNCHANGED <<origin, published, objects, floor, snap, cap>>

-----------------------------------------------------------------------------
(* The verdict.                                                            *)

\* DeviceFold: from the anchor, else from the first event, over the rows that
\* follow without a gap, up to seq upto.  A seed above upto is returned as it
\* is, or one row further.
SeqsHeld == {Len(r) : r \in view.rows}
RowAt(n) == CHOOSE r \in view.rows : Len(r) = n

DeviceFold(upto) ==
    LET seed == view.anchor
        reach == {n \in seed.seq..MaxSeen(upto, seed.seq + 1) : \A i \in (seed.seq + 1)..n : i \in SeqsHeld}
        top == CHOOSE n \in reach : \A i \in reach : i <= n
    IN [seeded |-> seed.seq > 0 \/ 1 \in SeqsHeld,
        seq |-> top,
        fold |-> Folded(seed.fold, [i \in 1..(top - seed.seq) |-> RowAt(seed.seq + i)[seed.seq + i]])]

DeviceGapLocallyDeclined(gap) == view.waiting \/ gap \in view.declined \/ 0 \in view.declined

\* The promise never goes back.
Promise(h, m) == IF m.seq > h.seq THEN [h EXCEPT !.seq = m.seq, !.fold = m.fold] ELSE h

\* Without the old promise: two looks behind a growing stream are enough.
WithheldWhilePending(prev, local) == prev.pending

Withheld(prev, local) == prev.pending /\ ~(prev.seq > 0 /\ local.seq >= prev.seq)

SameFold(local, next) == local.fold = next.fold

\* The conflict stays when the tail arrives.
resolveOmissionNot(alarms) == alarms

resolveOmission(alarms) == alarms \ {"withheld_tail"}

verifyOnePeerHead(m) ==
    LET prev == view.head
        next == Promise(prev, m)
        local == DeviceFold(next.seq)
        calm == [view EXCEPT !.at = "idle", !.head = [next EXCEPT !.pending = FALSE], !.vouched = 0]
        short == [view EXCEPT !.at = "idle", !.head = [next EXCEPT !.pending = TRUE], !.vouched = 0]
    IN IF prev.seq > 0 /\ m.seq = prev.seq /\ m.fold # prev.fold
         THEN [view EXCEPT !.at = "idle", !.alarms = @ \cup {"fork"}, !.vouched = 0]
       ELSE IF ~local.seeded THEN calm
       ELSE IF local.seq >= next.seq
         THEN IF SameFold(local, next)
                THEN [calm EXCEPT !.alarms = resolveOmission(@), !.vouched = next.seq]
                ELSE [calm EXCEPT !.alarms = @ \cup {"fork"}]
       ELSE IF DeviceGapLocallyDeclined(local.seq + 1) THEN [calm EXCEPT !.alarms = resolveOmission(@)]
       ELSE IF Withheld(prev, local) THEN [short EXCEPT !.alarms = @ \cup {"withheld_tail"}]
       ELSE short

\* An honest hub lists the last ack; one that withholds may list an older one.
AcksListed == {published[i] : i \in (IF cap = MaxSeq THEN {Len(published)} ELSE DOMAIN published)}

VerifyPeerHeads ==
    /\ view.at = "pulled"
    /\ IF published = <<>> THEN view' = [view EXCEPT !.at = "idle"]
       ELSE \E m \in AcksListed : view' = verifyOnePeerHead(m)
    /\ UNCHANGED <<origin, published, objects, floor, snap, cap, omen>>

OmissionNext ==
    \/ MintEvent \/ PushEvents \/ maybeWriteSyncAck \/ BackUp \/ RestoreOrigin
    \/ CompactStream \/ Withhold \/ Relent
    \/ pullAndApplyEvents \/ VerifyPeerHeads

-----------------------------------------------------------------------------
(* Properties.                                                             *)

\* Neither an honest hub nor an origin that keeps its log is ever accused: not
\* for events in flight, a partial push, a quarantine, a missing key or a
\* compaction.  A snapshot anchor at or above the last promise is exempt:
\* there the folds of two different seqs are compared (NeverAccusedAtAll).
NeverAccused ==
    [][omen.honest /\ origin.era = 0 /\ view'.alarms \ view.alarms # {} =>
          view.anchor.seq >= view'.head.seq]_omvars

\* The same without the exemption: "skipped, never falsely alarmed".
NeverAccusedAtAll ==
    [][omen.honest /\ origin.era = 0 => view'.alarms \subseteq view.alarms]_omvars

\* A hub that stops short of what was promised is found out, whatever ack it
\* shows, unless it gives in or this device declined the event at the gap.
WithholdingDetected ==
    (cap < view.head.seq /\ DeviceFold(view.head.seq).seeded /\ DeviceFold(view.head.seq).seq < view.head.seq)
      ~> ("withheld_tail" \in view.alarms \/ cap = MaxSeq \/ view.declined # {})

\* The alarm goes when the tail arrives, so it does not block hub gc for ever.
AlarmClears ==
    (cap = MaxSeq /\ "withheld_tail" \in view.alarms) ~> ("withheld_tail" \notin view.alarms \/ cap # MaxSeq)

\* What was found complete is, event for event, a stream the origin signed.
\* Rows at or below an imported anchor are not looked at again: there an origin
\* that lost its log may have signed others.
Vouched ==
    view.vouched > 0 =>
        \E i \in DOMAIN published :
            /\ published[i].seq = view.vouched
            /\ \A r \in view.rows : Len(r) <= view.vouched /\ (origin.era = 0 \/ Len(r) > view.anchor.seq)
                                      => r = SubSeq(published[i].fold, 1, Len(r))

\* An alarm comes when it should and goes when it should.
WithholdingFound == WithholdingDetected /\ AlarmClears
=============================================================================
