---------------------------- MODULE MCPullApply ----------------------------
(***************************************************************************)
(* Two origins, a and b, with two events each; b1 may point at a project   *)
(* that a adds.  Epoch 0 is held from the start.                           *)
(***************************************************************************)
EXTENDS PullApply, TLC

CONSTANTS a, b, s1, s2, r1

Attr(epoch, needs, hlc, fault) ==
    [epoch |-> epoch, needs |-> needs, hlc |-> hlc, rank |-> hlc, fault |-> fault]

Streams(a1, a2, b1, b2) ==
    [i \in {a, b} \X (1..2) |->
        IF i = <<a, 1>> THEN a1 ELSE IF i = <<a, 2>> THEN a2
        ELSE IF i = <<b, 1>> THEN b1 ELSE b2]

Good(n) == Attr(0, {}, n, "none")
Waits(needs) == Attr(0, needs, 3, "none")

World(streams, onHub, trustedAtStart, procs, deaths) ==
    [streams |-> streams, hub |-> [o \in {a, b} |-> onHub], trusted |-> trustedAtStart,
     procs |-> procs, deaths |-> deaths]

\* Keys: any of a's events sealed under an epoch granted late, b1 waiting for
\* a2, one of a's clocks ahead of ours (a1's only when it can be read), or the
\* sync dying once.
KeyWorlds ==
    {World(Streams(Attr(x, {}, 1, f), Attr(y, {}, 2, g), Waits({<<a, 2>>}), Good(4)), 0, {a, b}, {s1},
           IF "ahead" \in {f, g} THEN 0 ELSE 1) :
        <<x, y, f, g>> \in {w \in {0, 1} \X {0, 1} \X {"none", "ahead"} \X {"none", "ahead"} :
                               /\ w[1] = 1 => w[3] = "none"
                               /\ w[3] = "none" \/ w[4] = "none"}}

\* One of a's events is never acceptable; b points at the one before it.
FaultWorlds ==
    LET Bad == Faults \ {"none", "ahead", "unreadable"} IN
    {World(Streams(Attr(0, {}, 1, f), Good(2), Good(3), Good(4)), 0, {a, b}, {s1}, 1) : f \in Bad}
    \cup
    {World(Streams(Good(1), Attr(0, {}, 2, f), Waits({<<a, 1>>}), Good(4)), 1, {a, b}, {s1}, 1) : f \in Bad}

\* Trust: every key held, a not approved yet, b1 waiting for a2.
TrustWorlds == {World(Streams(Good(1), Good(2), Waits({<<a, 2>>}), Good(4)), 1, {b}, {s1, r1}, 1)}

\* Two syncs at once: a1 is ahead of our clock, or a project event whose
\* payload does not decode and that aborts the batch; b1 waits for a2.
RaceWorlds ==
    {World(Streams(Attr(0, {}, 1, f), Good(2), Waits({<<a, 2>>}), Good(4)), 2, {a, b}, {s1, s2}, 0) :
        f \in {"ahead", "unreadable"}}

PullWorlds == KeyWorlds \cup FaultWorlds \cup TrustWorlds \cup RaceWorlds

\* Two of a's events in a row, each under its own late epoch.
TwoEpochWorlds ==
    {World(Streams(Attr(1, {}, 1, "none"), Attr(2, {}, 2, "none"), Good(3), Good(4)), 0, {a, b}, {s1}, 0)}
=============================================================================
