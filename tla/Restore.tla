------------------------------ MODULE Restore ------------------------------
(***************************************************************************)
(* db backup --full and db restore: an archive is written beside captures  *)
(* and cache collections, may be cut off anywhere, is verified, and its    *)
(* targets are swapped into the state directory under a journal.  Every    *)
(* rename, removal and journal write of the swap is a step; the process    *)
(* may die between any two of them, and any of them may fail.              *)
(*                                                                         *)
(* Backup, restore and recovery hold the maintenance lock, so one of them  *)
(* runs at a time.  Commands that had the database open before the swap    *)
(* are not modelled.  What a rename changes is durable at once.            *)
(***************************************************************************)
EXTENDS Integers, FiniteSets, Sequences

CONSTANTS
    Ref,            \* blob refs
    RestoreWorld    \* bounds: captures, backups, restores, mishaps; --allow-legacy;
                    \* the targets that exist at the start

Target == 1..4      \* backupTargets: state.db, config.yaml, blobs, keys
DB == 1
Config == 2
BlobDir == 3
Keys == 4

ASSUME RestoreAssumption ==
    RestoreWorld \subseteq [captures : Nat, backups : Nat, restores : Nat, mishaps : Nat,
                            legacy : BOOLEAN, there : SUBSET Target]

VARIABLES
    home,       \* the state directory: what each target holds
    aside,      \* <target>.bak-<pid>-<time>
    journal,    \* .restore-journal.json, or NoJournal
    tar,        \* the archive at the output path, or NoTar
    work,       \* the maintenance command being executed
    room4,      \* what may still happen in this world
    saved       \* history: the states before and after the swap

restorevars == <<home, aside, journal, tar, work, room4, saved>>

\* gen tells contents apart; refs are the rows' refs of a database, the files of a blob directory.
Absent == [gen |-> 0, refs |-> {}]
NoTar == [names |-> {}, db |-> Absent, blobs |-> {}, manifest |-> FALSE]
NoJournal == <<>>
NoWork == [at |-> "idle", i |-> 0, snap |-> Absent, tries |-> 0, todo |-> {}, j |-> NoJournal, bad |-> FALSE]
Here(dir, t) == dir[t] # Absent

RestoreInit ==
    /\ room4 \in RestoreWorld
    /\ home = [t \in Target |-> IF t \in room4.there THEN [gen |-> 1, refs |-> {}] ELSE Absent]
    /\ aside = [t \in Target |-> Absent]
    /\ journal = NoJournal /\ tar = NoTar /\ work = NoWork
    /\ saved = {home}

At(step) == work' = [work EXCEPT !.at = step]
Mishap == room4.mishaps > 0 /\ room4' = [room4 EXCEPT !.mishaps = @ - 1]
swapped == <<home, aside, saved>>

(***************************************************************************)
(* The rest of the program, in as much as a backup can meet it: a capture  *)
(* writes a blob and points the row at it, a collection removes the blobs  *)
(* no row names (module Blobs has both in steps).                          *)
(***************************************************************************)
Idle == journal = NoJournal /\ work.at \in {"idle", "enumerate", "tar"}

RecaptureRow(r) ==
    /\ Idle /\ Here(home, DB) /\ r \notin home[DB].refs \cup home[BlobDir].refs
    /\ room4.captures > 0 /\ room4' = [room4 EXCEPT !.captures = @ - 1]
    /\ home' = [home EXCEPT ![DB].refs = {r}, ![BlobDir] = [gen |-> 1, refs |-> @.refs \cup {r}]]
    /\ saved' = {home'}
    /\ UNCHANGED <<aside, journal, tar, work>>

CollectCache ==
    /\ Idle /\ home[BlobDir].refs \ home[DB].refs # {}
    /\ home' = [home EXCEPT ![BlobDir].refs = @ \cap home[DB].refs] /\ saved' = {home'}
    /\ UNCHANGED <<aside, journal, tar, work, room4>>

(***************************************************************************)
(* db backup --full.                                                       *)
(***************************************************************************)
BackupAttempts == 3

\* VACUUM INTO: the rows of one moment.
snapshotDB ==
    /\ \/ work.at = "idle" /\ journal = NoJournal /\ room4.backups > 0
          /\ room4' = [room4 EXCEPT !.backups = @ - 1]
       \/ work.at = "again" /\ UNCHANGED room4
    /\ Here(home, DB)
    /\ work' = [work EXCEPT !.at = "enumerate", !.snap = home[DB], !.tries = @ + 1]
    /\ UNCHANGED <<swapped, journal, tar>>

\* Every ref of the snapshot must be on disk, or a new snapshot is taken.
snapshotAndEnumerate ==
    LET missing == work.snap.refs \ home[BlobDir].refs IN
    /\ work.at = "enumerate"
    /\ work' = IF missing = {} THEN [work EXCEPT !.at = "open", !.todo = work.snap.refs]
               ELSE IF work.tries < BackupAttempts THEN [work EXCEPT !.at = "again"] ELSE NoWork
    /\ UNCHANGED <<swapped, journal, tar, room4>>

\* O_TRUNC, then state.db and config.yaml.
writeBackupTar ==
    /\ work.at = "open"
    /\ tar' = [NoTar EXCEPT !.names = {DB} \cup (IF Here(home, Config) THEN {Config} ELSE {}), !.db = work.snap]
    /\ At("tar")
    /\ UNCHANGED <<swapped, journal, room4>>

\* One blob.  A failure removes the archive.
addFileToTar(r) ==
    /\ work.at = "tar" /\ r \in work.todo
    /\ IF r \in home[BlobDir].refs
       THEN /\ tar' = [tar EXCEPT !.blobs = @ \cup {r}, !.names = @ \cup {BlobDir}]
            /\ work' = [work EXCEPT !.todo = @ \ {r}]
       ELSE tar' = NoTar /\ work' = NoWork
    /\ UNCHANGED <<swapped, journal, room4>>

stageBackupKeys ==
    /\ work.at = "tar" /\ work.todo = {}
    /\ tar' = [tar EXCEPT !.names = @ \cup {Keys}] /\ At("manifest")
    /\ UNCHANGED <<swapped, journal, room4>>

writeManifest ==
    /\ work.at = "manifest" /\ tar' = [tar EXCEPT !.manifest = TRUE] /\ work' = NoWork
    /\ UNCHANGED <<swapped, journal, room4>>

(***************************************************************************)
(* db restore.                                                             *)
(***************************************************************************)
\* Without a manifest only --allow-legacy goes on; keys and every blob the
\* database names must be there in any case.
verifyBackupManifest == tar.manifest \/ room4.legacy

verifyRestoreCompleteness == {DB, Keys} \subseteq tar.names /\ tar.db.refs \subseteq tar.blobs

Staged == [t \in Target |-> IF t \notin tar.names THEN Absent
                            ELSE [gen |-> 2, refs |-> IF t = DB THEN tar.db.refs ELSE IF t = BlobDir THEN tar.blobs ELSE {}]]

\* An interrupted swap is recovered first.
newRestoreCommand ==
    /\ work.at = "idle" /\ room4.restores > 0 /\ room4' = [room4 EXCEPT !.restores = @ - 1]
    /\ work' = [NoWork EXCEPT !.at = IF journal = NoJournal THEN "verify" ELSE "check", !.bad = FALSE, !.tries = 1]
    /\ UNCHANGED <<swapped, journal, tar>>

\* The journal says what is staged and what existed before anything moves.
runRestore ==
    /\ work.at = "verify"
    /\ IF verifyBackupManifest /\ verifyRestoreCompleteness
       THEN LET j == [t \in Target |-> [staged |-> Here(Staged, t), existed |-> Here(home, t),
                                        done |-> ~Here(Staged, t), back |-> FALSE]]
            IN /\ journal' = j /\ work' = [NoWork EXCEPT !.at = "aside", !.i = 1, !.j = j]
               /\ saved' = {home, [t \in Target |-> IF j[t].staged THEN Staged[t] ELSE home[t]]}
       ELSE work' = NoWork /\ UNCHANGED <<journal, saved>>
    /\ UNCHANGED <<home, aside, tar, room4>>

\* Move all existing targets aside, then promote one after the other.
moveAside ==
    /\ work.at = "aside" /\ work.i \in Target
    /\ IF work.j[work.i].staged /\ work.j[work.i].existed
       THEN /\ aside' = [aside EXCEPT ![work.i] = home[work.i]] /\ home' = [home EXCEPT ![work.i] = Absent]
       ELSE UNCHANGED <<home, aside>>
    /\ work' = IF work.i = 4 THEN [work EXCEPT !.at = "promote", !.i = 1] ELSE [work EXCEPT !.i = @ + 1]
    /\ UNCHANGED <<saved, journal, tar, room4>>

NextTarget == IF work.i = 4 THEN [work EXCEPT !.at = "check"] ELSE [work EXCEPT !.at = "promote", !.i = @ + 1]

promoteAllTargets ==
    /\ work.at = "promote"
    /\ IF work.j[work.i].staged
       THEN /\ home' = [home EXCEPT ![work.i] = Staged[work.i]]
            /\ work' = [work EXCEPT !.at = "done", !.j[work.i].done = TRUE]
       ELSE work' = NextTarget /\ UNCHANGED home
    /\ UNCHANGED <<aside, saved, journal, tar, room4>>

writeRestoreJournal ==
    /\ work.at = "done" /\ journal' = work.j /\ work' = NextTarget
    /\ UNCHANGED <<swapped, tar, room4>>

\* A failed rename or journal write turns to recovery; a journal write whose last
\* fsync fails has still been published.
promotionFails ==
    /\ work.at \in {"aside", "promote", "done"} /\ Mishap /\ At("check")
    /\ journal' \in {journal} \cup (IF work.at = "done" THEN {work.j} ELSE {})
    /\ UNCHANGED <<swapped, tar>>

(***************************************************************************)
(* recoverRestoreJournal: after the last promotion, after a failed one, at *)
(* the start of a restore and by restore --recover.                        *)
(***************************************************************************)
AllDone(j) == \A t \in Target : j[t].done

recoverCommand ==
    /\ work.at = "idle" /\ journal # NoJournal /\ work' = [NoWork EXCEPT !.at = "check"]
    /\ UNCHANGED <<swapped, journal, tar, room4>>

\* Mutation of Sound: what was already reversed is examined like the rest.
SoundAll(j) ==
    \A t \in Target : j[t].staged =>
        IF AllDone(j) THEN Here(home, t)
        ELSE j[t].existed => Here(aside, t) \/ (~j[t].done /\ Here(home, t))

\* What the journal says must be on disk, or recovery touches nothing.
Sound(j) ==
    \A t \in Target : j[t].staged /\ ~j[t].back =>
        IF AllDone(j) THEN Here(home, t)
        ELSE j[t].existed => Here(aside, t) \/ (~j[t].done /\ Here(home, t))

checkJournal ==
    /\ work.at = "check"
    /\ work' = IF ~Sound(journal) THEN NoWork
               ELSE IF AllDone(journal) THEN [work EXCEPT !.at = "sweep", !.j = journal]
               ELSE [work EXCEPT !.at = "reverse", !.i = 4, !.j = journal, !.bad = FALSE]
    /\ UNCHANGED <<swapped, journal, tar, room4>>

\* Mutation of Onward: a failed reversal does not keep the journal.
OnwardRegardless(w) == IF w.i = 1 THEN [w EXCEPT !.at = "sweep"] ELSE [w EXCEPT !.at = "reverse", !.i = @ - 1]

\* Reverse order, one target at a time.
Onward(w) == IF w.i = 1 THEN [w EXCEPT !.at = IF w.bad THEN "giveup" ELSE "sweep"] ELSE [w EXCEPT !.at = "reverse", !.i = @ - 1]

removePromoted ==
    /\ work.at = "reverse"
    /\ LET e == work.j[work.i] IN
       IF e.back THEN work' = Onward(work) /\ UNCHANGED home
       ELSE IF e.staged /\ e.existed /\ Here(aside, work.i)
            THEN home' = [home EXCEPT ![work.i] = Absent] /\ At("putback")
       ELSE IF e.staged /\ ~e.existed
            THEN home' = [home EXCEPT ![work.i] = Absent] /\ At("record")
       ELSE At("record") /\ UNCHANGED home
    /\ UNCHANGED <<aside, saved, journal, tar, room4>>

restoreAside ==
    /\ work.at = "putback"
    /\ home' = [home EXCEPT ![work.i] = aside[work.i]] /\ aside' = [aside EXCEPT ![work.i] = Absent] /\ At("record")
    /\ UNCHANGED <<saved, journal, tar, room4>>

recordRollback ==
    LET j == [work.j EXCEPT ![work.i].back = TRUE] IN
    /\ work.at = "record" /\ journal' = j /\ work' = Onward([work EXCEPT !.j = j])
    /\ UNCHANGED <<swapped, tar, room4>>

\* A failed step is noted, the other targets are reversed, the journal stays.
rollbackFails ==
    /\ work.at \in {"reverse", "putback", "record"} /\ Mishap
    /\ work' = Onward([work EXCEPT !.bad = TRUE, !.j[work.i].back = @ \/ work.at = "record"])
    /\ UNCHANGED <<swapped, journal, tar>>

giveUp ==
    /\ work.at = "giveup" /\ work' = NoWork
    /\ UNCHANGED <<swapped, journal, tar, room4>>

\* All done: the asides go.  Then, either way, the journal.
sweepAsides ==
    /\ work.at = "sweep"
    /\ \/ aside' = [t \in Target |-> IF AllDone(work.j) /\ work.j[t].existed /\ work.j[t].staged THEN Absent ELSE aside[t]] /\ At("finish") /\ UNCHANGED room4
       \/ Mishap /\ UNCHANGED aside /\ work' = NoWork
    /\ UNCHANGED <<home, saved, journal, tar>>

\* A restore that recovered an earlier one goes on with its own archive.
removeJournal ==
    /\ work.at = "finish" /\ journal' = NoJournal
    /\ work' = IF work.tries = 1 THEN [NoWork EXCEPT !.at = "verify"] ELSE NoWork
    /\ UNCHANGED <<swapped, tar, room4>>

\* External: the process dies.  Its staging directory is never used again.
KillMaintenance ==
    /\ work # NoWork /\ Mishap /\ work' = NoWork
    /\ UNCHANGED <<swapped, journal, tar>>

Recovery == recoverCommand \/ checkJournal \/ removePromoted \/ restoreAside \/ recordRollback \/ giveUp \/ sweepAsides \/ removeJournal
Swap == runRestore \/ moveAside \/ promoteAllTargets \/ writeRestoreJournal

RestoreNext ==
    \/ Recovery \/ Swap \/ newRestoreCommand \/ promotionFails \/ rollbackFails \/ KillMaintenance
    \/ snapshotDB \/ snapshotAndEnumerate \/ writeBackupTar \/ stageBackupKeys \/ writeManifest \/ CollectCache
    \/ \E r \in Ref : RecaptureRow(r) \/ addFileToTar(r)

\* A command that runs goes on; an interrupted restore is recovered by somebody.
RestoreFairness == WF_restorevars(Recovery) /\ WF_restorevars(Swap)

RestoreSpec == RestoreInit /\ [][RestoreNext]_restorevars /\ RestoreFairness

-----------------------------------------------------------------------------
\* The swap is all or nothing: whatever failed or died on the way, a state
\* directory without a journal is the one from before, untouched, or the
\* archive's, complete, with no aside left behind (P7-DATA-05).
SwapAtomic == journal = NoJournal => home \in saved /\ \A t \in Target : ~Here(aside, t)

\* Until the last target's promotion is on record, what was in the state
\* directory is still there or in its aside: a damaged recovery can be finished
\* by hand.
OldSurvives ==
    (journal # NoJournal /\ ~AllDone(journal)) =>
        \E s \in saved : \A t \in Target : s[t] \in {home[t], aside[t]} \/ s[t] = Absent

\* What is restored can be used: every blob the restored database names came
\* with it, though captures and collections ran beside the backup, its process
\* died half-way, and the archive was accepted without a manifest (P7-DATA-03/04).
RestoredWhole == (journal = NoJournal /\ home[DB].gen = 2) => home[DB].refs \subseteq home[BlobDir].refs /\ Here(home, Keys)

\* A manifest is only ever written over a complete archive.
ManifestHonest == tar.manifest => tar.db.refs \subseteq tar.blobs

\* A target was put back and the record of that was lost, though the record of
\* its promotion was not: recovery misses the aside it has itself restored.
Torn ==
    /\ work = NoWork /\ journal # NoJournal /\ ~AllDone(journal)
    /\ \E t \in Target : /\ journal[t].staged /\ journal[t].existed /\ journal[t].done /\ ~journal[t].back
                        /\ ~Here(aside, t) /\ Here(home, t)

\* An interrupted swap is recovered: the journal's checks never refuse what
\* crashes and failed steps left behind, with the one exception of Torn, which
\* they refuse for good (restore_journal.go:34-39 says it cannot happen).
EventuallyRecovered == journal # NoJournal ~> (journal = NoJournal \/ Torn)

\* The state directory is whole, can be used, and can be recovered by hand,
\* whatever died during the backup it came from or the swap that put it there.
RestoreSafe == SwapAtomic /\ OldSurvives /\ RestoredWhole /\ ManifestHonest
=============================================================================
