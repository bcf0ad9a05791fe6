----------------------------- MODULE GitCarrier -----------------------------
(***************************************************************************)
(* The git carrier (internal/hub/gitcarrier.go): a hub kept as the tree of *)
(* one branch of a git repository.  Every call fetches the branch, checks  *)
(* that it continues the head this clone verified last, works on the       *)
(* checkout through the object operations of the S3 back end (r2.go), and  *)
(* a write commits and pushes, or starts over when the push was refused or *)
(* its answer was lost.  hub compact replaces the history by one           *)
(* parentless commit.                                                      *)
(*                                                                         *)
(* commits lists the trees that ever were the branch's head.  Of a tree    *)
(* the model keeps the event objects, the retention manifest, the sweep    *)
(* lock and the marker file (or that it is empty, or someone else's).  The *)
(* commands are the hub calls of sync and of hub compact; what they do     *)
(* locally is in Fleet and Compaction.  The clone is used by one command   *)
(* at a time, and no lock outlives its TTL (Compaction has both).          *)
(***************************************************************************)
EXTENDS Naturals, Sequences, FiniteSets

CONSTANTS
    Device,
    Revoked,       \* the revoked devices: their streams may be dropped
    None,
    World,         \* the worlds to explore
    Limit,         \* bound on the events of a device
    Attempts       \* gitPushAttempts

\* A world: the events found on the carrier at the start; whether the branch is
\* a carrier (or not there yet), has an empty tree, or is some other repository's;
\* the mints, compactions and deaths or lost answers that may happen; how often
\* the host puts an old state back and a user discards a clone (all of its cache,
\* to accept that state, or the checkout only); and whether the clock of every
\* compactor is ahead of the last manifest's.
ASSUME GitCarrierAssumption ==
    /\ Limit \in Nat /\ Attempts \in Nat \ {0} /\ None \notin Device /\ Revoked \subseteq Device
    /\ World \subseteq [stock : SUBSET (Device \X (1..Limit)), found : {"carrier", "empty", "other"},
                       mints : [Device -> Nat], compacts : [Device -> Nat], mishaps : Nat,
                       rewinds : Nat, adopts : Nat, steady : BOOLEAN]
    /\ \A w \in World : w.found = "empty" => w.stock = {}
    /\ \A w \in World : \A e \in w.stock : \A s \in 1..e[2] : <<e[1], s>> \in w.stock

VARIABLES
    commits,       \* the commits pushed to the branch, each with its ancestors
    remote,        \* the head of the branch, 0 when there is no branch
    head,          \* head.json: the last verified commit of each clone, 0 when absent
    known,         \* does the clone still have that commit's objects?
    proc,          \* the command running on each device
    seen,          \* pull cursors
    minted, pushed,
    refused,       \* has d's clone refused the carrier since it was set up?
    honest,        \* has the host never put an old state back?
    left           \* what is left of the world

vars == <<commits, remote, head, known, proc, seen, minted, pushed, refused, honest, left>>
carrier == <<commits, remote>>
clones == <<head, known>>
replica == <<seen, minted, pushed>>

Ids == Device \X (1..Limit)
NoMan == [n |-> 0, floors |-> [o \in Device |-> 0], at |-> 0, by |-> None]
EmptyTree == [ev |-> {}, man |-> NoMan, lock |-> None, mark |-> "empty"]
Idle == [job |-> <<>>, at |-> "idle", base |-> 0, tree |-> EmptyTree, tries |-> 0,
         etag |-> NoMan, mine |-> NoMan, locked |-> FALSE, again |-> FALSE]

Tree(c) == IF c = 0 THEN EmptyTree ELSE commits[c].tree
MaxOf(m, n) == IF m > n THEN m ELSE n

Init ==
    /\ left \in World
    /\ commits = IF left.found = "carrier" /\ left.stock = {} THEN <<>>
                 ELSE <<[past |-> {}, tree |-> [EmptyTree EXCEPT !.ev = left.stock, !.mark = left.found]]>>
    /\ remote = Len(commits)
    /\ head = [d \in Device |-> 0]
    /\ known = [d \in Device |-> TRUE]
    /\ proc = [d \in Device |-> Idle]
    /\ seen = [d \in Device |-> [o \in Device |-> 0]]
    /\ minted = [d \in Device |-> Cardinality({e \in left.stock : e[1] = d})]
    /\ pushed = minted
    /\ refused = [d \in Device |-> FALSE]
    /\ honest = TRUE

-----------------------------------------------------------------------------
(* The object operations a checkout is changed with (r2.go).               *)

Push(d, t) == [t EXCEPT !.ev = @ \cup {e \in Ids : e[1] = d /\ pushed[d] < e[2] /\ e[2] <= minted[d]}]

CompactEventsBelow(floors, t) == [t EXCEPT !.ev = {e \in @ : e[2] >= floors[e[1]]}]

\* cleanupRevokedStreams: DeleteDeviceStream for the revoked devices that have
\* a floor, however high their stream goes.
DeleteDeviceStream(floors, t) == [t EXCEPT !.ev = {e \in @ : ~(e[1] \in Revoked /\ floors[e[1]] > 0)}]

\* Mutation of PutRetention: an unconditional put.
PutRetentionBlind(d, t) == [ok |-> TRUE, tree |-> [t EXCEPT !.man = proc[d].mine]]

\* The conditional put of one object in the checkout.
PutObjectIfMatch(cur, etag) == cur = etag

\* Create only: the object is not there yet.
PutObject(cur) == cur = None

\* The conditional put: over the manifest that was read, or nothing to do when
\* an attempt whose answer was lost had put it there.
PutRetention(d, t) ==
    IF PutObjectIfMatch(t.man, proc[d].etag) \/ t.man = proc[d].mine
    THEN [ok |-> TRUE, tree |-> [t EXCEPT !.man = proc[d].mine]]
    ELSE [ok |-> FALSE, tree |-> t]

\* Unlike the manifest, a lock found in place is never taken for
\* the one an earlier attempt put there.
PutSweepLock(d, t) ==
    IF PutObject(t.lock) THEN [ok |-> TRUE, tree |-> [t EXCEPT !.lock = d]] ELSE [ok |-> FALSE, tree |-> t]

\* The release reads the lock and deletes its own only.
DeleteSweepLock(d, t) == IF t.lock = d THEN [t EXCEPT !.lock = None] ELSE t

\* What a write makes of the checkout: an error is terminal.
Apply(d, op, t) ==
    LET floors == proc[d].mine.floors
        Fine(u) == [ok |-> TRUE, tree |-> u]
    IN IF op = "push" THEN Fine(Push(d, t))
       ELSE IF op = "lock" THEN PutSweepLock(d, t)
       ELSE IF op = "retain" THEN PutRetention(d, t)
       ELSE IF op = "squash" THEN Fine(CompactEventsBelow(floors, t))
       ELSE IF op = "drop" THEN Fine(DeleteDeviceStream(floors, t))
       ELSE Fine(DeleteSweepLock(d, t))

-----------------------------------------------------------------------------
(* Is the fetched head a continuation of the verified one?                 *)

\* The new tree has a manifest, and the old one had none, or an older one with
\* no higher floors, or the same bytes.
advanced(old, new) ==
    /\ new.n > 0
    /\ \/ old.n = 0
       \/ new.at > old.at /\ \A o \in Device : new.floors[o] >= old.floors[o]
       \/ new = old

\* Mutation of checkCompactionDeletes: the manifest alone is believed.
checkCompactionDeletesTrusting(a, b) == TRUE

\* The content gate: every event object the new tree lacks is below its floors.
checkCompactionDeletes(a, b) ==
    \A e \in Tree(a).ev \ Tree(b).ev : e[2] < Tree(b).man.floors[e[1]]

\* What head.json says of the old manifest is enough for the manifest gate; the
\* content gate is skipped when the clone no longer has the old commit.
checkHeadContinuity(d) ==
    \/ head[d] \in {0, remote}
    \/ head[d] \in commits[remote].past
    \/ /\ advanced(Tree(head[d]).man, Tree(remote).man)
       /\ known[d] => checkCompactionDeletes(head[d], remote)

\* A tree with nothing in it needs no marker: the first push writes it.
validateMarker == commits[remote].tree.mark # "other"

\* refreshLocked goes through: a branch that is gone is only fine for a clone
\* that never saw it.
RefreshOk(d) == IF remote = 0 THEN head[d] = 0 ELSE validateMarker /\ checkHeadContinuity(d)

-----------------------------------------------------------------------------
(* Commands.                                                               *)

\* A compaction that dies or fails after the lock was taken still releases it.
Failed(d) == IF proc[d].locked THEN [Idle EXCEPT !.job = <<"unlock">>, !.at = "fetch"] ELSE Idle

\* The next call of the command, or its end.
Onward(m) == IF Len(m.job) = 1 THEN Idle
             ELSE [m EXCEPT !.job = Tail(@), !.at = "fetch", !.base = 0, !.tree = EmptyTree, !.tries = 0]

Mint(d) ==
    /\ proc[d] = Idle /\ left.mints[d] > 0 /\ minted[d] < Limit
    /\ minted' = [minted EXCEPT ![d] = @ + 1]
    /\ left' = [left EXCEPT !.mints[d] = @ - 1]
    /\ UNCHANGED <<carrier, clones, proc, seen, pushed, refused, honest>>

Start(d, job) == proc[d] = Idle /\ proc' = [proc EXCEPT ![d] = [Idle EXCEPT !.job = job, !.at = "fetch"]]

StartSync(d) ==
    /\ d \notin Revoked
    /\ Start(d, <<"pull", "push">>)
    /\ UNCHANGED <<carrier, clones, replica, refused, honest, left>>

StartCompact(d) ==
    /\ d \notin Revoked /\ left.compacts[d] > 0
    /\ Start(d, <<"pull", "push", "retention", "lock", "retain", "confirm", "squash", "drop", "unlock">>)
    /\ left' = [left EXCEPT !.compacts[d] = @ - 1]
    /\ UNCHANGED <<carrier, clones, replica, refused, honest>>

Fetching(d) == proc[d].at = "fetch"
Op(d) == Head(proc[d].job)

\* refreshLocked refuses; nothing is written and the command fails.
Refuse(d) ==
    /\ Fetching(d) /\ ~RefreshOk(d)
    /\ refused' = [refused EXCEPT ![d] = TRUE]
    /\ proc' = [proc EXCEPT ![d] = Failed(d)]
    /\ UNCHANGED <<carrier, clones, replica, honest, left>>

\* readRefresh: the refresh goes through and is remembered.
Refreshed(d) ==
    /\ Fetching(d) /\ RefreshOk(d)
    /\ head' = [head EXCEPT ![d] = remote] /\ known' = [known EXCEPT ![d] = TRUE]

\* Pull: below a floor the snapshot moves the cursor to the floor, and the
\* events that follow without a gap move it on.
Pulled(d) ==
    LET t == Tree(remote)
        from == [o \in Device |-> IF t.man.floors[o] > 0 THEN MaxOf(seen[d][o], t.man.floors[o] - 1)
                                  ELSE seen[d][o]]
    IN [o \in Device |-> from[o] + Cardinality({s \in (from[o] + 1)..Limit :
                            \A r \in (from[o] + 1)..s : <<o, r>> \in t.ev})]

ReadPull(d) ==
    /\ Refreshed(d) /\ Op(d) = "pull"
    /\ seen' = [seen EXCEPT ![d] = Pulled(d)]
    /\ proc' = [proc EXCEPT ![d] = Onward(@)]
    /\ UNCHANGED <<carrier, minted, pushed, refused, honest, left>>

\* computeCompactFloors and reconcileCompactFloors: own events below the push
\* watermark, those of others below the cursor; a device this one has nothing
\* of keeps the floor it has.
Floors(d, cur) ==
    LET base == [o \in Device |-> IF o = d THEN pushed[d] ELSE seen[d][o]]
    IN [o \in Device |-> IF base[o] > 0 THEN base[o] + 1 ELSE cur.floors[o]]

\* ProducedAt is the compactor's clock, read without moving it: never below
\* what it stamped before, and not always above the last manifest's.
ProducedAt(d, cur) ==
    IF left.steady THEN {cur.at + 1}
    ELSE LET own == {commits[c].tree.man.at : c \in {c \in DOMAIN commits : commits[c].tree.man.by = d}}
         IN {a \in 1..(cur.at + 1) : \A b \in own : b <= a}

\* GetRetention before the publish, with the manifest built on what it read; a
\* floor that would go down ends the command.
ReadRetention(d) ==
    /\ Refreshed(d) /\ Op(d) = "retention"
    /\ LET cur == Tree(remote).man
           floors == Floors(d, cur)
       IN IF \E o \in Device : floors[o] < cur.floors[o] THEN proc' = [proc EXCEPT ![d] = Failed(d)]
          ELSE \E at \in ProducedAt(d, cur) :
                 proc' = [proc EXCEPT ![d] = Onward([@ EXCEPT !.etag = cur,
                            !.mine = [n |-> cur.n + 1, floors |-> floors, at |-> at, by |-> d]])]
    /\ UNCHANGED <<carrier, replica, refused, honest, left>>

\* The read-back: the hub serves what was just written.
ReadConfirm(d) ==
    /\ Refreshed(d) /\ Op(d) = "confirm"
    /\ proc' = [proc EXCEPT ![d] = IF Tree(remote).man = proc[d].mine THEN Onward(@) ELSE Failed(d)]
    /\ UNCHANGED <<carrier, replica, refused, honest, left>>

\* What the caller does when a write has returned: the push moves the
\* watermark, the deletion below the floors moves the cursors to them.
Returned(d) ==
    /\ pushed' = [pushed EXCEPT ![d] = IF Op(d) = "push" THEN minted[d] ELSE @]
    /\ seen' = [seen EXCEPT ![d] = [o \in Device |->
                    IF Op(d) = "squash" /\ proc[d].mine.floors[o] > 0
                    THEN MaxOf(@[o], proc[d].mine.floors[o] - 1) ELSE @[o]]]
    /\ UNCHANGED minted

Succeed(d) ==
    LET locked == proc[d].locked \/ Op(d) = "lock"
    IN proc' = [proc EXCEPT ![d] = Onward([proc[d] EXCEPT !.locked = locked])]

\* One attempt of writeLoop up to its push: refresh, apply, marker, commit.  A
\* failed apply is terminal, but a lost manifest race reads again once; an
\* unchanged tree needs no push, except that a squash always makes its commit
\* (and has nothing to squash where there is no branch).
Commit(d) ==
    LET op == Op(d)
        t == Tree(remote)
        r == Apply(d, op, t)
        new == [r.tree EXCEPT !.mark = "carrier"]
    IN
    /\ Fetching(d) /\ op \notin {"pull", "retention", "confirm"}
    /\ Refreshed(d)
    /\ IF ~r.ok THEN
         /\ proc' = [proc EXCEPT ![d] =
                IF op = "retain" /\ ~proc[d].again
                THEN [proc[d] EXCEPT !.job = <<"retention">> \o proc[d].job, !.again = TRUE] ELSE Failed(d)]
         /\ UNCHANGED replica
       ELSE IF (op = "squash" /\ remote = 0) \/ (op # "squash" /\ new = t)
       THEN Succeed(d) /\ Returned(d)
       ELSE /\ proc' = [proc EXCEPT ![d].at = "push", ![d].base = remote, ![d].tree = new]
            /\ UNCHANGED replica
    /\ UNCHANGED <<carrier, refused, honest, left>>

\* The parents of the pushed commit: none for the squash.
Past(d) == IF Op(d) = "squash" \/ proc[d].base = 0 THEN {} ELSE commits[proc[d].base].past \cup {proc[d].base}

\* Mutation of Leased: the squash is pushed with --force.
LeasedForced(d) == remote = proc[d].base \/ Op(d) = "squash"

\* The remote takes the push: a fast-forward of the fetched head, and for the
\* squash --force-with-lease against it.
Leased(d) == remote = proc[d].base

Land(d) ==
    /\ commits' = Append(commits, [past |-> Past(d), tree |-> proc[d].tree])
    /\ remote' = Len(commits) + 1

PushBranch(d) ==
    /\ proc[d].at = "push" /\ Leased(d)
    /\ Land(d) /\ head' = [head EXCEPT ![d] = Len(commits) + 1] /\ known' = [known EXCEPT ![d] = TRUE]
    /\ Succeed(d) /\ Returned(d)
    /\ UNCHANGED <<refused, honest, left>>

\* Mutation of Retry: the same commit is pushed again and again.
RetrySame(d) == UNCHANGED proc

\* Refetch and re-apply, up to the bound on attempts.
Retry(d) ==
    LET n == proc[d].tries + 1
    IN proc' = [proc EXCEPT ![d] = IF n = Attempts THEN Failed(d)
                                   ELSE [proc[d] EXCEPT !.at = "fetch", !.base = 0, !.tree = EmptyTree, !.tries = n]]

LoseRace(d) ==
    /\ proc[d].at = "push" /\ ~Leased(d)
    /\ Retry(d)
    /\ UNCHANGED <<carrier, clones, replica, refused, honest, left>>

Mishap == left.mishaps > 0 /\ left' = [left EXCEPT !.mishaps = @ - 1]

\* The connection breaks: the push may have landed all the same.
NetworkError(d) ==
    /\ proc[d].at = "push" /\ Mishap
    /\ (Leased(d) /\ Land(d)) \/ UNCHANGED carrier
    /\ Retry(d)
    /\ UNCHANGED <<clones, replica, refused, honest>>

\* The process dies: after a push that landed, or elsewhere.
Crash(d) ==
    /\ proc[d] # Idle /\ Mishap
    /\ (proc[d].at = "push" /\ Leased(d) /\ Land(d)) \/ UNCHANGED carrier
    /\ proc' = [proc EXCEPT ![d] = Idle]
    /\ UNCHANGED <<clones, replica, refused, honest>>

\* The host restores an earlier head of the branch, or loses the branch.
Rewind ==
    /\ left.rewinds > 0 /\ remote # 0
    /\ \E c \in {0} \cup DOMAIN commits : c # remote /\ remote' = c
    /\ honest' = FALSE /\ left' = [left EXCEPT !.rewinds = @ - 1]
    /\ UNCHANGED <<commits, clones, proc, replica, refused>>

\* rm -rf of the carrier cache, as the refusal advises.
ReAdopt(d) ==
    /\ refused[d] /\ proc[d] = Idle /\ left.adopts > 0
    /\ head' = [head EXCEPT ![d] = 0] /\ known' = [known EXCEPT ![d] = TRUE]
    /\ refused' = [refused EXCEPT ![d] = FALSE]
    /\ left' = [left EXCEPT !.adopts = @ - 1]
    /\ UNCHANGED <<carrier, proc, replica, honest>>

\* Only the checkout is lost; the next call makes a new one (ensureRepoLocked) and
\* fetches, which brings the old commit back only if the branch still has it.
LoseCheckout(d) ==
    /\ head[d] # 0 /\ known[d] /\ proc[d] = Idle /\ left.adopts > 0
    /\ known' = [known EXCEPT ![d] = FALSE]
    /\ left' = [left EXCEPT !.adopts = @ - 1]
    /\ UNCHANGED <<carrier, head, proc, replica, refused, honest>>

Step(d) ==
    \/ Refuse(d) \/ ReadPull(d) \/ ReadRetention(d) \/ ReadConfirm(d)
    \/ Commit(d) \/ PushBranch(d) \/ LoseRace(d)

Next ==
    \/ \E d \in Device :
         \/ Mint(d) \/ StartSync(d) \/ StartCompact(d) \/ Step(d)
         \/ NetworkError(d) \/ Crash(d) \/ ReAdopt(d) \/ LoseCheckout(d)
    \/ Rewind

\* Commands run to their end and every device syncs again and again.
Fairness == \A d \in Device : WF_vars(Step(d)) /\ WF_vars(StartSync(d))

Spec == Init /\ [][Next]_vars /\ Fairness

-----------------------------------------------------------------------------
(* Properties.                                                             *)

Manifests == [n : Nat, floors : [Device -> 0..(Limit + 1)], at : Nat, by : Device \cup {None}]
Trees == [ev : SUBSET Ids, man : Manifests, lock : Device \cup {None},
          mark : {"carrier", "empty", "other"}]

\* Types, and a commit's ancestors are earlier commits.
TypeOK ==
    /\ \A c \in DOMAIN commits : commits[c].past \subseteq 1..(c - 1) /\ commits[c].tree \in Trees
    /\ remote \in 0..Len(commits) /\ head \in [Device -> 0..Len(commits)]
    /\ known \in [Device -> BOOLEAN]
    /\ \A d \in Device : proc[d].at \in {"idle", "fetch", "push"} /\ proc[d].base \in 0..Len(commits)
    /\ \A d \in Device : \A o \in Device : seen[d][o] \in 0..Limit
    /\ minted \in [Device -> 0..Limit] /\ pushed \in [Device -> 0..Limit]

\* An event whose push was acknowledged (the watermark passed it) is on the
\* branch, or below the floors of the manifest there, or went with a revoked
\* stream: neither a lost race, a lost answer nor a squash drops it.
Acknowledged ==
    honest => \A d \in Device : \A s \in 1..pushed[d] :
        \/ <<d, s>> \in Tree(remote).ev
        \/ s < Tree(remote).man.floors[d]
        \/ d \in Revoked

\* On a host that keeps what it was given, a clone refuses the carrier only
\* where a manifest was stamped no later than one before it, where a revoked
\* stream was dropped past its floor, or where the branch is no carrier.
RefusalExplained ==
    honest /\ (\E d \in Device : refused[d]) =>
        \/ \E a, b \in DOMAIN commits :
             /\ commits[a].tree.man.n < commits[b].tree.man.n
             /\ commits[a].tree.man.at >= commits[b].tree.man.at
             /\ commits[a].tree.man.n > 0
        \/ \E c \in DOMAIN commits : \E e \in commits[c].tree.ev : e[1] \in Revoked
        \/ Tree(1).mark = "other"

\* A clone is never moved, without its user's doing, to a head that lacks an
\* event its last head had, unless a floor or a revocation accounts for it:
\* however far the host puts the branch back.  Only a clone whose checkout was
\* lost since, and with it the commit to compare with, has the manifest alone.
NoSilentRewind ==
    [][\A d \in Device : known[d] /\ head[d] # 0 /\ head'[d] \notin {0, head[d]} =>
          \A e \in Tree(head[d]).ev \ commits'[head'[d]].tree.ev :
             e[2] < commits'[head'[d]].tree.man.floors[e[1]] \/ e[1] \in Revoked]_vars

\* A command that believes it holds the sweep lock is the one the hub names,
\* so two compactions never delete at the same time.
SweepersExclude ==
    honest => \A d \in Device : proc[d].locked /\ Op(d) # "unlock" => Tree(remote).lock = d

\* As long as the hub is honest and refused by no clone, again and again a
\* moment comes when it has every event of every device.
Landed(d) == honest /\ d \notin Revoked /\ ~refused[d] => pushed[d] = minted[d]
EventsLand == []<>(\A d \in Device : Landed(d))

\* The carrier is a hub.
HubSpec == INSTANCE HubStore WITH
    ev <- Tree(remote).ev, man <- Tree(remote).man, lock <- Tree(remote).lock
ImplementsHub == HubSpec!Spec
=============================================================================
