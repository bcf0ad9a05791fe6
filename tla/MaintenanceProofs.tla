-------------------------- MODULE MaintenanceProofs --------------------------
(***************************************************************************)
(* What the parts of a machine promise, for any number of exporters,       *)
(* clients, daemons and arms, any bounds on what may happen, and every     *)
(* interleaving.  Each part has its inductive invariant; the results are   *)
(* stated of the composed specification, whose steps are steps of one part.*)
(***************************************************************************)
EXTENDS MCMaintenance, SequenceTheorems, TLAPS

-----------------------------------------------------------------------------
(* The durability export.                                                  *)

RetentionHead == [floors : [Stream -> Nat], at : Nat]

ExportTask == [at : {"idle", "get", "put", "read", "cas"}, head : Nat, seen : Nat, tries : Nat]

ExportType ==
    /\ heads \in Seq(RetentionHead)
    /\ replica \in [head : Nat, snapshots : SUBSET Nat] /\ replica.head <= Len(heads)
    /\ export \in [Exporter -> ExportTask]

\* What an exporter carries from step to step: a head the primary has had, which
\* is on the replica once its upload is over; before a swap, a head of the replica
\* as well.
TaskOK(x, n, snapshots) ==
    /\ x.at # "idle" => x.head \in 1..n
    /\ x.at \in {"read", "cas"} => x.head \in snapshots
    /\ x.at = "cas" => x.seen \in 0..n

\* The two heads of a swap were compared, and what was compared stays compared.
Compared == \A e \in Exporter : \A a, b \in 1..Len(heads) :
    (export[e].at = "cas" /\ export[e].head = a /\ export[e].seen = b) => Dominates(a, b)

ExportInv ==
    /\ ExportType /\ Compared /\ ReplicaHeadBacked
    /\ \A e \in Exporter : TaskOK(export[e], Len(heads), replica.snapshots)

\* A machine starts with nothing exported and nobody exporting.
LEMMA ExportInvInit == ExportInit => ExportInv
<1> SUFFICES ASSUME ExportInit PROVE ExportInv
  OBVIOUS
<1>1. heads = << >> /\ Len(heads) = 0 /\ replica = [head |-> 0, snapshots |-> {}]
  BY DEF ExportInit
<1>2. export = [e \in Exporter |-> NotExporting]
  BY DEF ExportInit
<1> QED
  BY <1>1, <1>2 DEF ExportInv, ExportType, ExportTask, TaskOK, Compared, NotExporting, ReplicaHeadBacked

\* CompactPrimary: a new head is published, and an old head keeps its place, so
\* what was compared stays compared.
LEMMA HeadsGrow ==
    ASSUME heads \in Seq(RetentionHead), NEW x \in RetentionHead, heads' = Append(heads, x)
    PROVE  /\ heads' \in Seq(RetentionHead) /\ Len(heads') = Len(heads) + 1 /\ Len(heads) \in Nat
           /\ \A a, b \in 1..Len(heads) : Dominates(a, b) => Dominates(a, b)'
  BY DEF Dominates

\* A compaction raises one stream's floor.
LEMMA BumpType ==
    ASSUME NEW f \in [Stream -> Nat], NEW s PROVE [f EXCEPT ![s] = @ + 1] \in [Stream -> Nat]
<1>1. [f EXCEPT ![s] = @ + 1] = [x \in Stream |-> IF x = s THEN f[x] + 1 ELSE f[x]]
  OBVIOUS
<1>2. \A x \in Stream : (IF x = s THEN f[x] + 1 ELSE f[x]) \in Nat
  OBVIOUS
<1> QED
  BY <1>1, <1>2

\* CompactPrimary publishes a head of the right shape and touches no exporter.
LEMMA ExportInvCompact == ExportInv /\ CompactPrimary => ExportInv'
<1> SUFFICES ASSUME ExportInv, CompactPrimary PROVE ExportInv'
  OBVIOUS
<1>1. PICK s \in room5.streams, at \in {1, 2} :
        LET floors == IF heads = <<>> THEN [x \in Stream |-> 1] ELSE heads[Len(heads)].floors
        IN heads' = Append(heads, [floors |-> [floors EXCEPT ![s] = @ + 1], at |-> at])
  BY DEF CompactPrimary
<1> DEFINE floors == IF heads = <<>> THEN [x \in Stream |-> 1] ELSE heads[Len(heads)].floors
           new == [floors |-> [floors EXCEPT ![s] = @ + 1], at |-> at]
<1>2. floors \in [Stream -> Nat]
  <2>1. CASE heads = << >>
    BY <2>1
  <2>2. CASE heads # << >>
    <3>1. heads[Len(heads)] \in RetentionHead
      BY <2>2 DEF ExportInv, ExportType
    <3> QED BY <2>2, <3>1 DEF RetentionHead
  <2> QED BY <2>1, <2>2
<1>3. new \in RetentionHead
  <2>1. [floors EXCEPT ![s] = @ + 1] \in [Stream -> Nat]
    <3> HIDE DEF floors
    <3> QED BY <1>2, BumpType
  <2>2. at \in Nat
    OBVIOUS
  <2> HIDE DEF floors
  <2> QED BY <2>1, <2>2 DEF RetentionHead
<1>4. /\ heads' \in Seq(RetentionHead) /\ Len(heads') = Len(heads) + 1 /\ Len(heads) \in Nat
      /\ \A a, b \in 1..Len(heads) : Dominates(a, b) => Dominates(a, b)'
  <2> HIDE DEF new
  <2>1. heads' = Append(heads, new)
    BY <1>1 DEF new
  <2> QED BY <2>1, <1>3, HeadsGrow DEF ExportInv, ExportType
<1>5. replica' = replica /\ export' = export
  BY DEF CompactPrimary
<1>6. ExportType' /\ ReplicaHeadBacked'
  BY <1>4, <1>5 DEF ExportInv, ExportType, ReplicaHeadBacked
<1>7. \A e \in Exporter : TaskOK(export[e], Len(heads), replica.snapshots)'
  BY <1>4, <1>5 DEF ExportInv, ExportType, ExportTask, TaskOK
<1>8. Compared'
  <2> SUFFICES ASSUME NEW e \in Exporter, NEW a \in 1..Len(heads'), NEW b \in 1..Len(heads'),
                      export[e].at = "cas", export[e].head = a, export[e].seen = b
               PROVE  Dominates(a, b)'
    BY <1>5 DEF Compared
  <2>1. a \in 1..Len(heads) /\ b \in 1..Len(heads)
    BY <1>4 DEF ExportInv, TaskOK
  <2> QED BY <2>1, <1>4 DEF ExportInv, Compared
<1> QED
  BY <1>6, <1>7, <1>8 DEF ExportInv

\* The steps of maybeExportHubDurability change one exporter's own state, put
\* snapshots on the replica, and swap its head for one whose snapshot is there.
LEMMA ExportInvStep ==
    ASSUME ExportInv, NEW e \in Exporter, ExportStep(e) \/ ExportFails(e)
    PROVE  ExportInv'
<1> DEFINE n == Len(heads)
<1>0. /\ export \in [Exporter -> ExportTask] /\ TaskOK(export[e], n, replica.snapshots)
      /\ replica \in [head : Nat, snapshots : SUBSET Nat] /\ replica.head <= n /\ n \in Nat
  BY DEF ExportInv, ExportType
<1>1. heads' = heads /\ \A a, b : Dominates(a, b) <=> Dominates(a, b)'
  BY DEF ExportStep, ExportFails, ReadPrimaryHead, GetSnapshot, PutSnapshot, MirrorRead, MirrorCAS, Dominates
<1> DEFINE Became(x) == /\ x \in ExportTask /\ TaskOK(x, n, replica'.snapshots) /\ export' = [export EXCEPT ![e] = x]
                        /\ x.at = "cas" => \A a, b \in 1..n : x.head = a /\ x.seen = b => Dominates(a, b)
           Published == /\ replica' \in [head : Nat, snapshots : SUBSET Nat] /\ replica'.head <= n
                        /\ replica.snapshots \subseteq replica'.snapshots
                        /\ replica'.head # replica.head => replica'.head \in replica'.snapshots
<1>2. Published /\ \E x : Became(x)
  <2> USE DEF ExportTask, TaskOK, NotExporting
  <2>0. \A f \in [Exporter -> ExportTask] : f[e] \in ExportTask
    OBVIOUS
  <2>1. CASE ReadPrimaryHead(e)
    <3>1. heads # << >> => Len(heads) >= 1
      BY DEF ExportInv, ExportType
    <3>2. [NotExporting EXCEPT !.at = "get", !.head = n] \in ExportTask
      BY <1>0
    <3>3. Became([NotExporting EXCEPT !.at = "get", !.head = n])
      <4>1. export' = [export EXCEPT ![e] = [NotExporting EXCEPT !.at = "get", !.head = n]] /\ n # 0
        BY <2>1, <3>1 DEF ReadPrimaryHead
      <4> QED BY <1>0, <3>2, <4>1
    <3> QED BY <1>0, <2>1, <3>3 DEF ReadPrimaryHead
  <2>2. CASE GetSnapshot(e)
    <3>1. Became(IF export[e].head \in objects THEN [export[e] EXCEPT !.at = "put"] ELSE NotExporting)
      BY <1>0, <2>2 DEF GetSnapshot
    <3> QED BY <1>0, <2>2, <3>1 DEF GetSnapshot
  <2>3. CASE PutSnapshot(e)
    <3>1. Became([export[e] EXCEPT !.at = "read"])
      BY <1>0, <2>3 DEF PutSnapshot, ExportTo
    <3> QED BY <1>0, <2>3, <3>1 DEF PutSnapshot
  <2>4. CASE MirrorRead(e)
    <3> DEFINE over == replica.head = 0 \/ (replica.head # export[e].head /\ ReconcileRetentionAdvance(replica.head, export[e].head) = "replace")
    <3>1. CASE over
      <4>1. replica.head # 0 => Dominates(export[e].head, replica.head)
        BY <3>1 DEF ReconcileRetentionAdvance
      <4>2. export' = [export EXCEPT ![e] = [@ EXCEPT !.at = "cas", !.seen = replica.head]] /\ replica' = replica
        BY <3>1, <2>4 DEF MirrorRead
      <4>3. Became([export[e] EXCEPT !.at = "cas", !.seen = replica.head])
        <5>1. [export[e] EXCEPT !.at = "cas", !.seen = replica.head] \in ExportTask
          BY <1>0, <2>0
        <5>2. export[e].at = "read"
          BY <2>4 DEF MirrorRead
        <5> QED BY <1>0, <4>1, <4>2, <5>1, <5>2
      <4> QED BY <1>0, <4>2, <4>3
    <3>2. CASE ~over
      <4>1. export' = [export EXCEPT ![e] = NotExporting] /\ replica' = replica
        BY <3>2, <2>4 DEF MirrorRead, Exported
      <4>2. Became(NotExporting)
        BY <1>0, <4>1
      <4> QED BY <1>0, <4>1, <4>2
    <3> QED BY <3>1, <3>2
  <2>5. CASE MirrorCAS(e)
    <3>1. CASE replica.head = export[e].seen
      <4>1. export' = [export EXCEPT ![e] = NotExporting] /\ replica' = [replica EXCEPT !.head = export[e].head]
        BY <3>1, <2>5 DEF MirrorCAS, Exported
      <4>2. Became(NotExporting)
        BY <1>0, <4>1
      <4>3. export[e].at = "cas"
        BY <2>5 DEF MirrorCAS
      <4>4. Published
        <5>1. export[e].head \in 1..n /\ export[e].head \in replica.snapshots
          BY <1>0, <4>3
        <5>2. replica'.head = export[e].head /\ replica'.snapshots = replica.snapshots
          BY <1>0, <4>1
        <5>3. replica' \in [head : Nat, snapshots : SUBSET Nat]
          BY <1>0, <4>1, <5>1
        <5> QED BY <1>0, <5>1, <5>2, <5>3
      <4> QED BY <4>2, <4>4
    <3>2. CASE replica.head # export[e].seen
      <4>1. replica' = replica
        BY <3>2, <2>5 DEF MirrorCAS
      <4>2. \E x : Became(x)
        <5>1. [export[e] EXCEPT !.at = "read", !.tries = @ + 1] \in ExportTask
          <6>1. export[e] \in ExportTask /\ export[e].tries + 1 \in Nat
            BY <1>0, <2>0
          <6> QED BY <6>1
        <5>2. export[e].at = "cas"
          BY <2>5 DEF MirrorCAS
        <5>3. CASE export[e].tries + 1 < MaxRetentionMirrorAttempts
          <6> DEFINE again == [export[e] EXCEPT !.at = "read", !.tries = @ + 1]
          <6>1. export' = [export EXCEPT ![e] = again]
            BY <3>2, <5>3, <2>5 DEF MirrorCAS
          <6>2. again.at = "read" /\ again.head = export[e].head /\ again \in ExportTask
            BY <1>0, <2>0, <5>1
          <6> HIDE DEF again
          <6>3. Became(again)
            BY <1>0, <4>1, <5>2, <6>1, <6>2
          <6> QED BY <6>3
        <5>4. CASE ~(export[e].tries + 1 < MaxRetentionMirrorAttempts)
          <6>1. export' = [export EXCEPT ![e] = NotExporting]
            BY <3>2, <5>4, <2>5 DEF MirrorCAS
          <6>2. Became(NotExporting)
            BY <1>0, <6>1
          <6> QED BY <6>2
        <5> QED BY <5>3, <5>4
      <4> QED BY <1>0, <4>1, <4>2
    <3> QED BY <3>1, <3>2
  <2>6. CASE ExportFails(e)
    <3>1. replica.snapshots \subseteq replica'.snapshots
      BY <1>0, <2>6 DEF ExportFails
    <3>2. Became(NotExporting)
      BY <1>0, <2>6 DEF ExportFails
    <3>3. Published
      <4>1. CASE replica' = replica
        BY <1>0, <4>1
      <4>2. CASE export[e].at = "put" /\ replica' = [replica EXCEPT !.snapshots = @ \cup {export[e].head}]
        BY <1>0, <4>2
      <4>3. CASE export[e].at = "cas" /\ replica' = [replica EXCEPT !.head = export[e].head]
        BY <1>0, <4>3
      <4> QED BY <2>6, <4>1, <4>2, <4>3 DEF ExportFails
    <3> QED BY <3>2, <3>3
  <2> QED BY <2>1, <2>2, <2>3, <2>4, <2>5, <2>6 DEF ExportStep
<1> PICK x : Became(x)
  BY <1>2
<1>3. /\ export' \in [Exporter -> ExportTask] /\ export'[e] = x /\ \A o \in Exporter \ {e} : export'[o] = export[o]
  BY <1>0
<1> HIDE DEF n
<1>4. ExportType' /\ ReplicaHeadBacked'
  BY <1>1, <1>2, <1>3 DEF ExportInv, ExportType, ReplicaHeadBacked, n
<1>5. \A o \in Exporter : TaskOK(export[o], Len(heads), replica.snapshots)'
  BY <1>1, <1>2, <1>3 DEF ExportInv, TaskOK, n
<1>6. Compared'
  <2> SUFFICES ASSUME NEW o \in Exporter, NEW a \in 1..n, NEW b \in 1..n,
                      export'[o].at = "cas", export'[o].head = a, export'[o].seen = b
               PROVE  Dominates(a, b)'
    BY <1>1 DEF Compared, n
  <2>1. Dominates(a, b)
    BY <1>2, <1>3 DEF ExportInv, Compared, n
  <2> QED BY <2>1, <1>1
<1> QED
  BY <1>4, <1>5, <1>6 DEF ExportInv

\* Every step of the export, and of the primary beside it, keeps the invariant.
LEMMA ExportInvNext == ExportInv /\ [ExportNext]_exportvars => ExportInv'
<1> SUFFICES ASSUME ExportInv, [ExportNext]_exportvars PROVE ExportInv'
  OBVIOUS
<1>1. CASE UNCHANGED <<heads, replica, export>>
  BY <1>1 DEF ExportInv, ExportType, Compared, TaskOK, ReplicaHeadBacked, Dominates
<1>2. CASE CompactPrimary
  BY <1>2, ExportInvCompact
<1>3. CASE \E e \in Exporter : ExportStep(e) \/ ExportFails(e)
  BY <1>3, ExportInvStep
<1> QED
  BY <1>1, <1>2, <1>3 DEF ExportNext, PruneSnapshotObjects, IntervalPasses, exportvars

\* Only a compare-and-swap moves the replica's head, and it compared.
LEMMA ReplicaStep ==
    ASSUME ExportInv, [ExportNext]_exportvars, replica.head # 0, replica'.head # replica.head
    PROVE  Dominates(replica'.head, replica.head)
<1>1. PICK e \in Exporter : /\ export[e].at = "cas" /\ replica.head = export[e].seen
                            /\ replica' = [replica EXCEPT !.head = export[e].head]
  BY DEF ExportInv, ExportType, ExportNext, ExportStep, CompactPrimary, PruneSnapshotObjects, IntervalPasses,
         ReadPrimaryHead, GetSnapshot, PutSnapshot, MirrorRead, MirrorCAS, ExportFails, exportvars, Exported
<1>2. replica'.head = export[e].head /\ export[e].head \in 1..Len(heads) /\ replica.head \in 1..Len(heads)
  BY <1>1 DEF ExportInv, ExportType, TaskOK
<1> QED
  BY <1>1, <1>2 DEF ExportInv, Compared

-----------------------------------------------------------------------------
(* The daemon.                                                             *)

Runs == DaemonRun \cup {NoRun}
DaemonStates == {"off", "probe", "remove", "bind", "secure", "record", "serving", "stopping",
                 "unlinked", "draining", "cleanup", "unrecord", "dead"}

DaemonType ==
    /\ socket \in Runs /\ takeover \in Runs /\ record \in Runs
    /\ daemon \in [DaemonRun -> DaemonStates] /\ seen \in [DaemonRun -> Runs]
    /\ stopper \in [at : {"idle", "compare", "signal", "poll", "stopped", "clear"}, pid : Runs, saw : Runs]
    /\ clobbered \subseteq DaemonRun /\ superseded \subseteq DaemonRun

\* From the probe until Listen returns a daemon holds the takeover lock.
TakingOver == {"probe", "remove", "bind", "secure"}
\* It has bound the socket and not yet unlinked it.
Live == {"secure", "record", "serving", "stopping"}
\* It has written its record, or it is dead.
Past == {"serving", "stopping", "unlinked", "draining", "cleanup", "unrecord", "dead"}

\* One takeover at a time; a socket file belongs to a live daemon or a dead one;
\* who is about to remove it has seen that it is not a live one's.
SocketOK ==
    /\ \A d \in DaemonRun : daemon[d] \in TakingOver => takeover = d
    /\ socket # NoRun => daemon[socket] \in Live \cup {"dead"}
    /\ \A d \in DaemonRun : daemon[d] \in Live => socket = d
    /\ \A d \in DaemonRun : daemon[d] = "remove" => (socket = NoRun \/ daemon[socket] = "dead")

\* The record names a daemon that wrote it; one that has not finished draining
\* still has its own unless it was removed in the gap or written over, and a live
\* one's is never written over.
RecordOK ==
    /\ record # NoRun => daemon[record] \in Past
    /\ \A d \in clobbered \cup superseded : daemon[d] \in Past
    /\ \A d \in superseded : daemon[d] \notin Live
    /\ \A d \in DaemonRun : daemon[d] = "unrecord" => seen[d] = d
    /\ \A d \in DaemonRun : daemon[d] \in {"serving", "stopping", "unlinked", "draining"} =>
         record = d \/ d \in clobbered \cup superseded

\* daemon stop follows a daemon that wrote its record, and removes a record only
\* after it saw its owner dead.
StopperOK ==
    /\ stopper.at # "idle" => stopper.pid \in DaemonRun /\ daemon[stopper.pid] \in Past
    /\ stopper.at = "stopped" => daemon[stopper.pid] = "dead" \/ record # stopper.pid
    /\ stopper.at = "compare" => daemon[stopper.pid] = "dead"
    /\ stopper.at = "clear" => stopper.saw = stopper.pid /\ daemon[stopper.pid] = "dead"

DaemonInv == DaemonType /\ SocketOK /\ RecordOK /\ StopperOK

\* No daemon has been started.
LEMMA DaemonInvInit == DaemonInit => DaemonInv
  BY DaemonAssumption DEF DaemonInit, DaemonInv, DaemonType, SocketOK, RecordOK, StopperOK, Idler,
     Runs, DaemonStates, TakingOver, Live, Past

\* Every call on the files a daemon or a daemon stop makes keeps the types.
LEMMA DaemonTypeNext == DaemonInv /\ [DaemonNext]_daemonvars => DaemonType'
<1> SUFFICES ASSUME DaemonInv, [DaemonNext]_daemonvars PROVE DaemonType'
  OBVIOUS
<1> USE DaemonAssumption DEF DaemonType, DaemonInv, Runs, DaemonStates, DaemonTo, Unlocked, Clobber, Idler
<1>1. CASE UNCHANGED daemonvars
  BY <1>1 DEF daemonvars
<1>2. ASSUME NEW d \in DaemonRun, DaemonStep(d) PROVE DaemonType'
  <2>1. CASE lockSocketTakeover(d) \/ secureSocket(d) \/ writeDaemonRecord(d) \/ shutdownUnlink(d)
    BY <2>1 DEF lockSocketTakeover, secureSocket, writeDaemonRecord, shutdownUnlink
  <2>2. CASE clearStaleSocket(d) \/ removeStaleSocket(d) \/ bindSocket(d)
    BY <2>2 DEF clearStaleSocket, removeStaleSocket, bindSocket
  <2>3. CASE shutdownClose(d) \/ ServeListenerReturns(d) \/ readOwnRecord(d) \/ removeOwnRecord(d)
    BY <2>3 DEF shutdownClose, ServeListenerReturns, readOwnRecord, removeOwnRecord
  <2> QED BY <1>2, <2>1, <2>2, <2>3 DEF DaemonStep
<1>3. ASSUME NEW d \in DaemonRun, KillDaemon(d) PROVE DaemonType'
  BY <1>3 DEF KillDaemon
<1>4. CASE runDaemonStop
  <2>1. CASE record = NoRun
    BY <1>4, <2>1 DEF runDaemonStop
  <2>2. CASE record # NoRun /\ daemon[record] = "dead"
    <3>1. stopper' = [at |-> "compare", pid |-> record, saw |-> NoRun]
      BY <1>4, <2>2 DEF runDaemonStop
    <3> QED BY <1>4, <3>1 DEF runDaemonStop
  <2>3. CASE record # NoRun /\ daemon[record] # "dead"
    <3>1. stopper' = [at |-> "signal", pid |-> record, saw |-> NoRun]
      BY <1>4, <2>3 DEF runDaemonStop
    <3> QED BY <1>4, <3>1 DEF runDaemonStop
  <2> QED BY <2>1, <2>2, <2>3
<1>5. CASE signalDaemon
  BY <1>5 DEF signalDaemon
<1>6. CASE pollStopped \/ stopTimesOut
  BY <1>6 DEF pollStopped, stopTimesOut
<1>7. CASE compareRecord
  BY <1>7 DEF compareRecord
<1>8. CASE clearRecord
  BY <1>8 DEF clearRecord
<1> QED
  BY <1>1, <1>2, <1>3, <1>4, <1>5, <1>6, <1>7, <1>8 DEF DaemonNext, StopStep

\* The socket: the steps of a takeover exclude each other, and no step of a
\* starting, dying or stopped daemon unlinks a live one's socket.
LEMMA SocketOKNext == DaemonInv /\ [DaemonNext]_daemonvars => SocketOK'
<1> SUFFICES ASSUME DaemonInv, [DaemonNext]_daemonvars PROVE SocketOK'
  OBVIOUS
<1> USE DaemonAssumption DEF DaemonType, SocketOK, DaemonInv, Runs, DaemonStates, DaemonTo, Unlocked, TakingOver, Live
<1>1. CASE UNCHANGED daemonvars
  BY <1>1 DEF daemonvars
<1>2. ASSUME NEW d \in DaemonRun, DaemonStep(d) PROVE SocketOK'
  <2>1. CASE lockSocketTakeover(d)
    BY <2>1 DEF lockSocketTakeover
  <2>2. CASE clearStaleSocket(d)
    BY <2>2 DEF clearStaleSocket, Listening
  <2>3. CASE removeStaleSocket(d)
    BY <2>3 DEF removeStaleSocket
  <2>4. CASE bindSocket(d)
    BY <2>4 DEF bindSocket
  <2>5. CASE secureSocket(d)
    BY <2>5 DEF secureSocket
  <2>6. CASE writeDaemonRecord(d)
    BY <2>6 DEF writeDaemonRecord
  <2>7. CASE shutdownUnlink(d)
    BY <2>7 DEF shutdownUnlink
  <2>8. CASE shutdownClose(d) \/ ServeListenerReturns(d) \/ readOwnRecord(d) \/ removeOwnRecord(d)
    BY <2>8 DEF shutdownClose, ServeListenerReturns, readOwnRecord, removeOwnRecord
  <2> QED BY <1>2, <2>1, <2>2, <2>3, <2>4, <2>5, <2>6, <2>7, <2>8 DEF DaemonStep
<1>3. ASSUME NEW d \in DaemonRun, KillDaemon(d) PROVE SocketOK'
  BY <1>3 DEF KillDaemon
<1>4. CASE runDaemonStop
  BY <1>4 DEF runDaemonStop
<1>5. CASE StopStep \/ stopTimesOut
  BY <1>5 DEF StopStep, stopTimesOut, signalDaemon, pollStopped, compareRecord, clearRecord
<1> QED
  BY <1>1, <1>2, <1>3, <1>4, <1>5 DEF DaemonNext

\* The record: it is removed by its owner, or in the gap, or after its owner died;
\* it is written over only once its owner has unlinked the socket.
LEMMA RecordOKNext == DaemonInv /\ [DaemonNext]_daemonvars => RecordOK'
<1> SUFFICES ASSUME DaemonInv, [DaemonNext]_daemonvars PROVE RecordOK'
  OBVIOUS
<1> USE DaemonAssumption DEF DaemonType, RecordOK, DaemonInv, Runs, DaemonStates, DaemonTo, Clobber, Live, Past
<1>1. CASE UNCHANGED daemonvars
  BY <1>1 DEF daemonvars
<1>2. ASSUME NEW d \in DaemonRun, DaemonStep(d) PROVE RecordOK'
  <2>1. CASE lockSocketTakeover(d)
    BY <2>1 DEF lockSocketTakeover
  <2>2. CASE clearStaleSocket(d) \/ removeStaleSocket(d) \/ bindSocket(d) \/ secureSocket(d)
    BY <2>2 DEF clearStaleSocket, removeStaleSocket, bindSocket, secureSocket
  <2>3. CASE writeDaemonRecord(d)
    BY <2>3 DEF writeDaemonRecord, SocketOK
  <2>4. CASE shutdownUnlink(d) \/ shutdownClose(d) \/ ServeListenerReturns(d)
    BY <2>4 DEF shutdownUnlink, shutdownClose, ServeListenerReturns
  <2>5. CASE readOwnRecord(d)
    BY <2>5 DEF readOwnRecord
  <2>6. CASE removeOwnRecord(d)
    BY <2>6 DEF removeOwnRecord
  <2> QED BY <1>2, <2>1, <2>2, <2>3, <2>4, <2>5, <2>6 DEF DaemonStep
<1>3. ASSUME NEW d \in DaemonRun, KillDaemon(d) PROVE RecordOK'
  BY <1>3 DEF KillDaemon
<1>4. CASE runDaemonStop
  BY <1>4 DEF runDaemonStop
<1>5. CASE signalDaemon
  BY <1>5 DEF signalDaemon
<1>6. CASE pollStopped \/ compareRecord \/ stopTimesOut
  BY <1>6 DEF pollStopped, compareRecord, stopTimesOut
<1>7. CASE clearRecord
  BY <1>7 DEF clearRecord, StopperOK
<1> QED
  BY <1>1, <1>2, <1>3, <1>4, <1>5, <1>6, <1>7 DEF DaemonNext, StopStep

\* daemon stop: whom it follows stays past writing its record, and a dead one
\* stays dead.
LEMMA StopperOKNext == DaemonInv /\ [DaemonNext]_daemonvars => StopperOK'
<1> SUFFICES ASSUME DaemonInv, [DaemonNext]_daemonvars PROVE StopperOK'
  OBVIOUS
<1> USE DaemonAssumption DEF DaemonType, StopperOK, DaemonInv, Runs, DaemonStates, DaemonTo, Past, Idler
<1>1. CASE UNCHANGED daemonvars
  BY <1>1 DEF daemonvars
<1>2. ASSUME NEW d \in DaemonRun, DaemonStep(d) PROVE StopperOK'
  <2>1. CASE lockSocketTakeover(d) \/ clearStaleSocket(d) \/ removeStaleSocket(d) \/ bindSocket(d) \/ secureSocket(d)
    BY <2>1 DEF lockSocketTakeover, clearStaleSocket, removeStaleSocket, bindSocket, secureSocket
  <2>2. CASE writeDaemonRecord(d)
    BY <2>2 DEF writeDaemonRecord
  <2>3. CASE shutdownUnlink(d) \/ shutdownClose(d) \/ ServeListenerReturns(d) \/ readOwnRecord(d) \/ removeOwnRecord(d)
    BY <2>3 DEF shutdownUnlink, shutdownClose, ServeListenerReturns, readOwnRecord, removeOwnRecord
  <2> QED BY <1>2, <2>1, <2>2, <2>3 DEF DaemonStep
<1>3. ASSUME NEW d \in DaemonRun, KillDaemon(d) PROVE StopperOK'
  BY <1>3 DEF KillDaemon
<1>4. CASE runDaemonStop
  <2>1. CASE record = NoRun
    BY <1>4, <2>1 DEF runDaemonStop
  <2>2. CASE record # NoRun
    <3>1. /\ stopper'.at = (IF daemon[record] = "dead" THEN "compare" ELSE "signal")
          /\ stopper'.pid = record /\ UNCHANGED <<daemon, record>>
      BY <1>4, <2>2 DEF runDaemonStop
    <3>2. record \in DaemonRun /\ daemon[record] \in Past
      BY <2>2 DEF RecordOK
    <3> QED BY <3>1, <3>2
  <2> QED BY <2>1, <2>2
<1>5. CASE signalDaemon
  BY <1>5 DEF signalDaemon
<1>6. CASE pollStopped
  BY <1>6 DEF pollStopped, daemonRecordReleased
<1>7. CASE compareRecord
  BY <1>7 DEF compareRecord
<1>8. CASE clearRecord \/ stopTimesOut
  BY <1>8 DEF clearRecord, stopTimesOut
<1> QED
  BY <1>1, <1>2, <1>3, <1>4, <1>5, <1>6, <1>7, <1>8 DEF DaemonNext, StopStep

\* Every step of the daemons and of daemon stop keeps the invariant.
LEMMA DaemonInvNext == DaemonInv /\ [DaemonNext]_daemonvars => DaemonInv'
  BY DaemonTypeNext, SocketOKNext, RecordOKNext, StopperOKNext DEF DaemonInv

\* A live daemon has the socket, a serving one its record.
LEMMA DaemonSafe == DaemonInv => LiveNotEvicted /\ ServingHasRecord
  BY DEF DaemonInv, SocketOK, RecordOK, LiveNotEvicted, ServingHasRecord, Live

\* pollStopped is the only step to "stopped", and it saw the record gone or the
\* process dead.
LEMMA StopStepHonest ==
    ASSUME DaemonInv, [DaemonNext]_daemonvars, stopper.at = "poll", stopper'.at = "stopped"
    PROVE  daemon[stopper.pid] \in {"cleanup", "unrecord", "dead"} \/ stopper.pid \in clobbered \cup superseded
<1>1. pollStopped
  BY DEF DaemonInv, DaemonType, DaemonNext, DaemonStep, StopStep, daemonvars, lockSocketTakeover, clearStaleSocket, removeStaleSocket,
         bindSocket, secureSocket, writeDaemonRecord, shutdownUnlink, shutdownClose, ServeListenerReturns, readOwnRecord,
         removeOwnRecord, KillDaemon, runDaemonStop, signalDaemon, compareRecord, clearRecord, stopTimesOut, Idler
<1> QED
  BY <1>1 DEF pollStopped, daemonRecordReleased, DaemonInv, RecordOK, StopperOK, Past

-----------------------------------------------------------------------------
(* The scheduler.                                                          *)

Cycle == [mode : {"full", "namespace-only"}, outcome : {"running", "ok", "failed"}, done : BOOLEAN]

Call == [at : {"idle", "leading", "running", "closing", "joined", "back"}, cycle : Nat,
         told : {"nothing", "ok", "failed", "canceled"}]

CycleType ==
    /\ cycles \in Seq(Cycle) /\ inFlight \in 0..Len(cycles)
    /\ pendingMode \in BOOLEAN /\ owed \in BOOLEAN
    /\ caller \in [Caller -> Call]
    /\ log \in Seq({"started", "ended"})

Active(c) == caller[c].at \in {"leading", "running"}

\* The cycle in flight has exactly one leader, and nobody else leads.
OneLeader ==
    /\ \A c \in Caller : Active(c) => inFlight # 0 /\ caller[c].cycle = inFlight
    /\ \A c, l \in Caller : Active(c) /\ Active(l) => c = l
    /\ inFlight # 0 => \E c \in Caller : Active(c)

\* A cycle is running while its leader runs it and over when it is closed.
CyclesOK ==
    /\ \A c \in Caller : caller[c].at # "idle" => caller[c].cycle \in 1..Len(cycles)
    /\ \A c \in Caller : Active(c) => cycles[caller[c].cycle].outcome = "running"
    /\ \A c \in Caller : caller[c].at = "closing" => cycles[caller[c].cycle].outcome # "running"
    /\ \A n \in 1..Len(cycles) : cycles[n].done => cycles[n].outcome # "running"
    /\ \A c \in Caller : caller[c].at \notin {"idle", "back"} => caller[c].told = "nothing"
    /\ \A c \in Caller : caller[c].at = "idle" => caller[c].told = "nothing"

\* The bus is between a started and its ended exactly while a leader runs.
LogOK == Len(log) % 2 = 1 <=> \E c \in Caller : caller[c].at = "running"

CycleInv ==
    /\ CycleType /\ OneLeader /\ CyclesOK /\ LogOK /\ (owed => pendingMode)
    /\ EventsAlternate /\ ToldHonest /\ JoinedIsLed

\* Nobody has called Converge yet.
LEMMA CycleInvInit == CycleInit => CycleInv
<1> SUFFICES ASSUME CycleInit PROVE CycleInv
  OBVIOUS
<1>1. cycles = << >> /\ Len(cycles) = 0 /\ log = << >> /\ Len(log) = 0
  BY DEF CycleInit
<1>2. \A c \in Caller : caller[c] = NotCalling
  BY DEF CycleInit
<1>3. NotCalling \in Call /\ NotCalling.at = "idle" /\ NotCalling.told = "nothing"
  BY DEF NotCalling, Call
<1>4. CycleType
  <2>1. caller = [c \in Caller |-> NotCalling] /\ inFlight = 0 /\ pendingMode \in BOOLEAN /\ owed \in BOOLEAN
    BY DEF CycleInit
  <2>2. caller \in [Caller -> Call]
    BY <1>3, <2>1
  <2> QED BY <1>1, <2>1, <2>2 DEF CycleType
<1>5. OneLeader /\ CyclesOK /\ ToldHonest /\ JoinedIsLed
  BY <1>1, <1>2, <1>3 DEF CycleInit, OneLeader, Active, CyclesOK, ToldHonest, JoinedIsLed
<1>6. LogOK /\ EventsAlternate
  BY <1>1, <1>2, <1>3 DEF LogOK, EventsAlternate
<1>7. owed => pendingMode
  BY DEF CycleInit
<1> QED
  BY <1>4, <1>5, <1>6, <1>7 DEF CycleInv

\* What a call of Converge does to its caller's record, and what it leaves alone.
LEMMA CallerMoves ==
    ASSUME CycleType, NEW c \in Caller, NEW x \in Call, caller' = [caller EXCEPT ![c] = x]
    PROVE  /\ caller' \in [Caller -> Call] /\ caller'[c] = x
           /\ \A o \in Caller : o # c => caller'[o] = caller[o]
  BY DEF CycleType

\* Join: the cycle in flight has a leader.
LEMMA JoinKeeps ==
    ASSUME CycleInv, NEW c \in Caller, NEW mode \in {"full", "namespace-only"},
           caller[c].at = "idle", inFlight # 0, Join(c, mode)
    PROVE  CycleInv'
<1> USE DEF CycleInv
<1> DEFINE x == [at |-> "joined", cycle |-> inFlight, told |-> "nothing"]
<1>1. x \in Call /\ inFlight \in 1..Len(cycles)
  BY DEF Call, CycleType
<1>2. caller' = [caller EXCEPT ![c] = x] /\ UNCHANGED <<inFlight, cycles, log>>
  BY DEF Join
<1>3. /\ caller' \in [Caller -> Call] /\ caller'[c] = x
      /\ \A o \in Caller : o # c => caller'[o] = caller[o]
  BY <1>1, <1>2, CallerMoves
<1>4. pendingMode' \in BOOLEAN /\ owed' \in BOOLEAN /\ (owed' => pendingMode')
  BY DEF Join, CycleType
<1>5. CycleType'
  BY <1>2, <1>3, <1>4 DEF CycleType
<1>6. \A o \in Caller : Active(o)' <=> Active(o)
  BY <1>3 DEF Active
<1>7. OneLeader'
  <2>1. \A o \in Caller : Active(o)' => caller'[o] = caller[o]
    BY <1>3 DEF Active
  <2> QED BY <1>2, <1>6, <2>1 DEF OneLeader
<1>8. CyclesOK' /\ ToldHonest'
  BY <1>1, <1>2, <1>3, <1>6 DEF CyclesOK, ToldHonest, Active
<1>9. LogOK' /\ EventsAlternate'
  BY <1>2, <1>3 DEF LogOK, EventsAlternate
<1>10. JoinedIsLed'
  <2>1. PICK l \in Caller : Active(l) /\ caller[l].cycle = inFlight /\ l # c
    BY DEF OneLeader, Active
  <2> QED BY <1>2, <1>3, <2>1 DEF JoinedIsLed, Active
<1> QED BY <1>4, <1>5, <1>7, <1>8, <1>9, <1>10

\* Lead: nobody else is leading, and the new cycle is the last one.
LEMMA LeadKeeps ==
    ASSUME CycleInv, NEW c \in Caller, NEW mode \in {"full", "namespace-only"},
           caller[c].at = "idle", inFlight = 0, Lead(c, mode)
    PROVE  CycleInv'
<1> USE DEF CycleInv
<1> DEFINE n == Len(cycles)
           m == IF pendingMode THEN "full" ELSE mode
           new == [mode |-> m, outcome |-> "running", done |-> FALSE]
           x == [at |-> "leading", cycle |-> n + 1, told |-> "nothing"]
<1>1. new \in Cycle /\ n \in Nat /\ x \in Call
  BY DEF Cycle, CycleType, Call
<1>2. /\ cycles' = Append(cycles, new) /\ log' = log
      /\ pendingMode' = FALSE /\ owed' = (owed /\ m # "full")
  BY DEF Lead
<1> HIDE DEF new
<1>3. /\ cycles' \in Seq(Cycle) /\ Len(cycles') = n + 1 /\ cycles'[n + 1] = new
      /\ \A k \in 1..n : cycles'[k] = cycles[k]
  BY <1>1, <1>2 DEF CycleType
<1>4. inFlight' = n + 1 /\ caller' = [caller EXCEPT ![c] = x]
  BY <1>3 DEF Lead
<1> HIDE DEF x
<1>5. /\ caller' \in [Caller -> Call] /\ caller'[c] = x
      /\ \A o \in Caller : o # c => caller'[o] = caller[o]
  BY <1>1, <1>4, CallerMoves
<1>6. owed' = FALSE
  BY <1>2
<1>7. CycleType'
  <2>1. pendingMode' \in BOOLEAN /\ owed' \in BOOLEAN
    BY <1>2, <1>6
  <2>2. inFlight' \in 0..Len(cycles')
    BY <1>1, <1>3, <1>4
  <2> QED BY <1>2, <1>3, <1>5, <2>1, <2>2 DEF CycleType
<1>8. \A o \in Caller : ~Active(o) /\ (o # c => ~Active(o)')
  BY <1>5 DEF OneLeader, Active
<1>9. OneLeader'
  BY <1>4, <1>5, <1>8 DEF OneLeader, Active, x
<1>10. new.outcome = "running" /\ ~new.done
  BY DEF new
<1>11. CyclesOK'
  <2>1. \A o \in Caller : o # c /\ caller'[o].at # "idle" => caller'[o].cycle \in 1..n
    BY <1>5 DEF CyclesOK
  <2>2. \A o \in Caller : caller'[o].at = "closing" => o # c
    BY <1>5 DEF x
  <2>3. \A k \in 1..Len(cycles') : cycles'[k].done => k \in 1..n
    BY <1>1, <1>3, <1>10
  <2> QED BY <1>1, <1>3, <1>5, <1>8, <1>10, <2>1, <2>2, <2>3 DEF CyclesOK, Active, x
<1>12. ToldHonest'
  BY <1>3, <1>5 DEF ToldHonest, CyclesOK, x
<1>13. LogOK' /\ EventsAlternate'
  <2>1. \A o \in Caller : caller'[o].at = "running" <=> caller[o].at = "running"
    BY <1>5 DEF x
  <2> QED BY <1>2, <2>1 DEF LogOK, EventsAlternate
<1>14. JoinedIsLed'
  <2> SUFFICES ASSUME NEW o \in Caller, caller'[o].at = "joined"
               PROVE  \/ cycles'[caller'[o].cycle].done
                      \/ \E l \in Caller : caller'[l].at \in {"leading", "running", "closing"} /\ caller'[l].cycle = caller'[o].cycle
    BY DEF JoinedIsLed
  <2>1. o # c /\ caller'[o] = caller[o] /\ caller[o].cycle \in 1..n
    BY <1>5 DEF CyclesOK, x
  <2>2. CASE cycles[caller[o].cycle].done
    BY <1>3, <2>1, <2>2
  <2>3. CASE \E l \in Caller : caller[l].at \in {"leading", "running", "closing"} /\ caller[l].cycle = caller[o].cycle
    <3>1. PICK l \in Caller : caller[l].at \in {"leading", "running", "closing"} /\ caller[l].cycle = caller[o].cycle
      BY <2>3
    <3>2. l # c
      BY <3>1
    <3> QED BY <1>5, <2>1, <3>1, <3>2
  <2> QED BY <2>1, <2>2, <2>3 DEF JoinedIsLed
<1> QED BY <1>6, <1>7, <1>9, <1>11, <1>12, <1>13, <1>14

\* PublishStarted: the log was even, nobody else is running.
LEMMA PublishKeeps == ASSUME CycleInv, NEW c \in Caller, PublishStarted(c) PROVE CycleInv'
<1> USE DEF CycleInv
<1> DEFINE x == [caller[c] EXCEPT !.at = "running"]
<1>1. x \in Call /\ x.at = "running" /\ x.cycle = caller[c].cycle /\ x.told = caller[c].told /\ caller[c].at = "leading"
  BY DEF PublishStarted, CycleType, Call
<1>2. /\ caller' = [caller EXCEPT ![c] = x] /\ log' = Append(log, "started")
      /\ UNCHANGED <<inFlight, pendingMode, cycles, owed>>
  BY DEF PublishStarted
<1> HIDE DEF x
<1>3. /\ caller' \in [Caller -> Call] /\ caller'[c] = x
      /\ \A o \in Caller : o # c => caller'[o] = caller[o]
  BY <1>1, <1>2, CallerMoves
<1>4. /\ log' \in Seq({"started", "ended"}) /\ Len(log') = Len(log) + 1 /\ Len(log) \in Nat
      /\ log'[Len(log) + 1] = "started" /\ \A i \in 1..Len(log) : log'[i] = log[i]
  BY <1>2 DEF CycleType
<1>5. CycleType'
  BY <1>2, <1>3, <1>4 DEF CycleType
<1>6. \A o \in Caller : Active(o)' <=> Active(o)
  BY <1>1, <1>3 DEF Active
<1>7. \A o \in Caller : caller'[o].cycle = caller[o].cycle /\ caller'[o].told = caller[o].told
  BY <1>1, <1>3
<1>8. OneLeader'
  BY <1>2, <1>6, <1>7 DEF OneLeader
<1>9. CyclesOK' /\ ToldHonest'
  BY <1>1, <1>2, <1>3, <1>6, <1>7 DEF CyclesOK, ToldHonest
<1>10. ~ \E o \in Caller : caller[o].at = "running"
  BY <1>1 DEF OneLeader, Active
<1>11. Len(log) % 2 # 1
  BY <1>10 DEF LogOK
<1>12. Len(log') % 2 = 1
  BY <1>4, <1>11
<1>13. LogOK'
  BY <1>1, <1>3, <1>12 DEF LogOK
<1>14. EventsAlternate'
  BY <1>4, <1>12 DEF EventsAlternate
<1>15. JoinedIsLed'
  BY <1>1, <1>2, <1>3, <1>7 DEF JoinedIsLed
<1> QED BY <1>2, <1>5, <1>8, <1>9, <1>13, <1>14, <1>15

\* CycleEnds: the outcome is set once, while its leader is the only one, and
\* nobody was told before.
LEMMA EndsKeeps == ASSUME CycleInv, NEW c \in Caller, CycleEnds(c) PROVE CycleInv'
<1> USE DEF CycleInv
<1> DEFINE n == caller[c].cycle
           x == [caller[c] EXCEPT !.at = "closing"]
<1>1. PICK outcome \in {"ok", "failed"} : cycles' = [cycles EXCEPT ![n].outcome = outcome]
  BY DEF CycleEnds
<1>2. /\ x \in Call /\ x.at = "closing" /\ x.cycle = n /\ x.told = caller[c].told /\ caller[c].at = "running"
      /\ n \in 1..Len(cycles) /\ Active(c) /\ cycles[n].outcome = "running" /\ inFlight = n
  BY DEF CycleEnds, CycleType, Call, CyclesOK, Active, OneLeader
<1>3. /\ caller' = [caller EXCEPT ![c] = x] /\ log' = Append(log, "ended") /\ inFlight' = 0
      /\ UNCHANGED <<pendingMode, owed>>
  BY DEF CycleEnds
<1> HIDE DEF x, n
<1>4. /\ caller' \in [Caller -> Call] /\ caller'[c] = x
      /\ \A o \in Caller : o # c => caller'[o] = caller[o]
  BY <1>2, <1>3, CallerMoves
<1>5. /\ log' \in Seq({"started", "ended"}) /\ Len(log') = Len(log) + 1 /\ Len(log) \in Nat
      /\ log'[Len(log) + 1] = "ended" /\ \A i \in 1..Len(log) : log'[i] = log[i]
  BY <1>3 DEF CycleType
<1>6. /\ cycles' \in Seq(Cycle) /\ Len(cycles') = Len(cycles)
      /\ cycles'[n].outcome = outcome /\ cycles'[n].done = cycles[n].done
      /\ \A k \in 1..Len(cycles) : k # n => cycles'[k] = cycles[k]
  <2>1. [cycles[n] EXCEPT !.outcome = outcome] \in Cycle
    <3>1. cycles[n] \in Cycle
      BY <1>2 DEF CycleType
    <3> QED BY <3>1 DEF Cycle
  <2> DEFINE y == [cycles[n] EXCEPT !.outcome = outcome]
  <2>2. cycles' = [cycles EXCEPT ![n] = y] /\ y \in Cycle
    BY <1>1, <2>1
  <2>3. y.outcome = outcome /\ y.done = cycles[n].done
    <3>1. cycles[n] \in Cycle
      BY <1>2 DEF CycleType
    <3> QED BY <3>1 DEF Cycle
  <2> HIDE DEF y
  <2> QED BY <1>2, <2>2, <2>3 DEF CycleType
<1>7. CycleType'
  BY <1>3, <1>4, <1>5, <1>6 DEF CycleType
<1>8. \A o \in Caller : ~Active(o)'
  BY <1>2, <1>4 DEF Active, OneLeader
<1>9. OneLeader'
  BY <1>3, <1>8 DEF OneLeader
<1>10. \A o \in Caller : caller'[o].cycle = caller[o].cycle /\ caller'[o].told = caller[o].told
  BY <1>2, <1>4 DEF n
<1>11. CyclesOK'
  <2>1. \A k \in 1..Len(cycles') : cycles'[k].done => cycles'[k].outcome # "running"
    BY <1>6 DEF CyclesOK
  <2>2. \A o \in Caller : caller'[o].at = "closing" => cycles'[caller'[o].cycle].outcome # "running"
    BY <1>2, <1>4, <1>6, <1>10 DEF CyclesOK
  <2> QED BY <1>2, <1>4, <1>6, <1>8, <1>10, <2>1, <2>2 DEF CyclesOK
<1>12. ToldHonest'
  <2> SUFFICES ASSUME NEW o \in Caller, caller'[o].told \in {"ok", "failed"}
               PROVE  caller'[o].told = cycles'[caller'[o].cycle].outcome
    BY DEF ToldHonest
  <2>1. caller[o].told = cycles[caller[o].cycle].outcome /\ caller[o].cycle \in 1..Len(cycles)
    BY <1>10 DEF ToldHonest, CyclesOK
  <2>2. caller[o].cycle # n
    BY <1>2, <1>10, <2>1
  <2> QED BY <1>6, <1>10, <2>1, <2>2
<1>13. Len(log) % 2 = 1 /\ Len(log') % 2 # 1
  BY <1>2, <1>5 DEF LogOK
<1>14. LogOK'
  BY <1>8, <1>13 DEF LogOK, Active
<1>15. EventsAlternate'
  BY <1>5, <1>13 DEF EventsAlternate
<1>16. JoinedIsLed'
  <2> SUFFICES ASSUME NEW o \in Caller, caller'[o].at = "joined"
               PROVE  \/ cycles'[caller'[o].cycle].done
                      \/ \E l \in Caller : caller'[l].at \in {"leading", "running", "closing"} /\ caller'[l].cycle = caller'[o].cycle
    BY DEF JoinedIsLed
  <2>1. caller[o].at = "joined" /\ caller[o].cycle \in 1..Len(cycles)
    BY <1>2, <1>4 DEF CyclesOK
  <2>2. CASE cycles[caller[o].cycle].done
    BY <1>6, <1>10, <2>1, <2>2
  <2>3. CASE \E l \in Caller : caller[l].at \in {"leading", "running", "closing"} /\ caller[l].cycle = caller[o].cycle
    <3>1. PICK l \in Caller : caller[l].at \in {"leading", "running", "closing"} /\ caller[l].cycle = caller[o].cycle
      BY <2>3
    <3>2. caller'[l].at \in {"leading", "running", "closing"}
      BY <1>2, <1>4, <3>1
    <3> QED BY <1>10, <3>1, <3>2
  <2> QED BY <2>1, <2>2, <2>3 DEF JoinedIsLed
<1> QED BY <1>3, <1>7, <1>9, <1>11, <1>12, <1>14, <1>15, <1>16

\* CloseDone: the cycle is over, its leader is told its outcome, and those that
\* joined it can wake.
LEMMA CloseKeeps == ASSUME CycleInv, NEW c \in Caller, CloseDone(c) PROVE CycleInv'
<1> USE DEF CycleInv
<1> DEFINE n == caller[c].cycle
           x == [caller[c] EXCEPT !.at = "back", !.told = cycles[n].outcome]
<1>1. n \in 1..Len(cycles) /\ cycles[n] \in Cycle /\ cycles[n].outcome \in {"ok", "failed"} /\ caller[c].at = "closing"
  <2>1. caller[c].at = "closing"
    BY DEF CloseDone
  <2>2. n \in 1..Len(cycles) /\ cycles[n].outcome # "running"
    BY <2>1 DEF CyclesOK
  <2>3. cycles[n] \in Cycle
    BY <2>2 DEF CycleType
  <2> QED BY <2>1, <2>2, <2>3 DEF Cycle
<1>2. x \in Call /\ x.at = "back" /\ x.cycle = n /\ x.told = cycles[n].outcome
  BY <1>1 DEF CycleType, Call
<1>3. /\ cycles' = [cycles EXCEPT ![n].done = TRUE] /\ caller' = [caller EXCEPT ![c] = x]
      /\ UNCHANGED <<inFlight, pendingMode, log, owed>>
  BY DEF CloseDone
<1> HIDE DEF x, n
<1>4. /\ caller' \in [Caller -> Call] /\ caller'[c] = x
      /\ \A o \in Caller : o # c => caller'[o] = caller[o]
  BY <1>2, <1>3, CallerMoves
<1>5. /\ cycles' \in Seq(Cycle) /\ Len(cycles') = Len(cycles) /\ cycles'[n].done
      /\ \A k \in 1..Len(cycles) : cycles'[k].outcome = cycles[k].outcome /\ (k # n => cycles'[k] = cycles[k])
  <2> DEFINE y == [cycles[n] EXCEPT !.done = TRUE]
  <2>1. y \in Cycle /\ y.done /\ y.outcome = cycles[n].outcome
    BY <1>1 DEF Cycle
  <2>2. cycles' = [cycles EXCEPT ![n] = y]
    BY <1>3
  <2> HIDE DEF y
  <2> QED BY <1>1, <2>1, <2>2 DEF CycleType
<1>6. CycleType'
  BY <1>3, <1>4, <1>5 DEF CycleType
<1>7. \A o \in Caller : (Active(o)' <=> Active(o)) /\ caller'[o].cycle = caller[o].cycle
  BY <1>1, <1>2, <1>4 DEF Active, n
<1>8. OneLeader'
  BY <1>3, <1>7 DEF OneLeader
<1>9. CyclesOK'
  <2>1. \A o \in Caller : caller'[o].at # "idle" => caller[o].at # "idle"
    BY <1>1, <1>4
  <2>2. \A o \in Caller : caller'[o].at = "closing" => caller[o].at = "closing"
    BY <1>2, <1>4
  <2>3. \A k \in 1..Len(cycles) : cycles'[k].done => cycles'[k].outcome # "running"
    BY <1>1, <1>5 DEF CyclesOK
  <2>4. \A o \in Caller : caller'[o].at # "back" => caller'[o] = caller[o]
    BY <1>2, <1>4
  <2>5. \A o \in Caller : (caller'[o].at \notin {"idle", "back"} \/ caller'[o].at = "idle") => caller'[o].told = "nothing"
    BY <2>4 DEF CyclesOK
  <2>6. \A o \in Caller : caller'[o].at # "idle" => caller'[o].cycle \in 1..Len(cycles)
    BY <1>7, <2>1 DEF CyclesOK
  <2>7. \A o \in Caller : Active(o)' => cycles'[caller'[o].cycle].outcome = "running"
    BY <1>5, <1>7 DEF CyclesOK, Active
  <2>8. \A o \in Caller : caller'[o].at = "closing" => cycles'[caller'[o].cycle].outcome # "running"
    BY <1>5, <1>7, <2>2 DEF CyclesOK
  <2> QED BY <1>5, <2>3, <2>5, <2>6, <2>7, <2>8 DEF CyclesOK
<1>10. ToldHonest'
  <2> SUFFICES ASSUME NEW o \in Caller, caller'[o].told \in {"ok", "failed"}
               PROVE  caller'[o].told = cycles'[caller'[o].cycle].outcome
    BY DEF ToldHonest
  <2>1. CASE o = c
    BY <1>1, <1>2, <1>4, <1>5, <2>1
  <2>2. CASE o # c
    <3>1. caller'[o] = caller[o] /\ caller[o].cycle \in 1..Len(cycles) /\ caller[o].told = cycles[caller[o].cycle].outcome
      BY <1>4, <2>2 DEF CyclesOK, ToldHonest
    <3> QED BY <1>5, <3>1
  <2> QED BY <2>1, <2>2
<1>11. LogOK' /\ EventsAlternate'
  BY <1>1, <1>2, <1>3, <1>4 DEF LogOK, EventsAlternate
<1>12. JoinedIsLed'
  <2> SUFFICES ASSUME NEW o \in Caller, caller'[o].at = "joined"
               PROVE  \/ cycles'[caller'[o].cycle].done
                      \/ \E l \in Caller : caller'[l].at \in {"leading", "running", "closing"} /\ caller'[l].cycle = caller'[o].cycle
    BY DEF JoinedIsLed
  <2>1. o # c /\ caller'[o] = caller[o] /\ caller[o].cycle \in 1..Len(cycles)
    BY <1>2, <1>4 DEF CyclesOK
  <2>2. CASE cycles[caller[o].cycle].done
    BY <1>5, <2>1, <2>2
  <2>3. CASE \E l \in Caller : caller[l].at \in {"leading", "running", "closing"} /\ caller[l].cycle = caller[o].cycle
    <3>1. PICK l \in Caller : caller[l].at \in {"leading", "running", "closing"} /\ caller[l].cycle = caller[o].cycle
      BY <2>3
    <3>2. CASE l = c
      BY <1>5, <2>1, <3>1, <3>2 DEF n
    <3>3. CASE l # c
      BY <1>4, <2>1, <3>1, <3>3
    <3> QED BY <3>2, <3>3
  <2> QED BY <2>1, <2>2, <2>3 DEF JoinedIsLed
<1> QED BY <1>3, <1>6, <1>8, <1>9, <1>10, <1>11, <1>12

\* Wake, Disconnect and NextCall: a waiting caller goes, told its cycle's outcome
\* when it waited for it.
LEMMA LeaveKeeps == ASSUME CycleInv, NEW c \in Caller, Wake(c) \/ Disconnect(c) \/ NextCall(c) PROVE CycleInv'
<1> USE DEF CycleInv
<1>1. /\ UNCHANGED <<inFlight, pendingMode, cycles, log, owed>>
      /\ \E x \in Call : /\ caller' = [caller EXCEPT ![c] = x] /\ caller[c].at \in {"joined", "back"}
                         /\ x.at \in {"back", "idle"}
                         /\ x.at = "back" => x.cycle = caller[c].cycle /\ caller[c].at = "joined"
                         /\ x.at = "idle" => x.told = "nothing"
                         /\ x.told \in {"ok", "failed"} => x.told = cycles[x.cycle].outcome
  <2>0. caller[c] \in Call
    BY DEF CycleType
  <2>1. CASE Wake(c)
    <3> DEFINE x == [caller[c] EXCEPT !.at = "back", !.told = cycles[caller[c].cycle].outcome]
    <3>1. caller[c].cycle \in 1..Len(cycles) /\ cycles[caller[c].cycle].done /\ caller[c].at = "joined"
      BY <2>1 DEF Wake, CyclesOK
    <3>2. cycles[caller[c].cycle].outcome \in {"ok", "failed"}
      <4>1. cycles[caller[c].cycle] \in Cycle /\ cycles[caller[c].cycle].outcome # "running"
        BY <3>1 DEF CyclesOK, CycleType
      <4> QED BY <4>1 DEF Cycle
    <3>3. /\ x \in Call /\ x.at = "back" /\ x.cycle = caller[c].cycle /\ x.told = cycles[caller[c].cycle].outcome
      BY <2>0, <3>2 DEF Call
    <3>4. caller' = [caller EXCEPT ![c] = x]
      BY <2>1 DEF Wake
    <3> HIDE DEF x
    <3> QED BY <2>1, <3>1, <3>3, <3>4 DEF Wake
  <2>2. CASE Disconnect(c)
    <3> DEFINE x == [caller[c] EXCEPT !.at = "back", !.told = "canceled"]
    <3>1. /\ x \in Call /\ x.at = "back" /\ x.cycle = caller[c].cycle /\ x.told = "canceled"
      BY <2>0 DEF Call
    <3>2. caller' = [caller EXCEPT ![c] = x]
      BY <2>2 DEF Disconnect
    <3> HIDE DEF x
    <3> QED BY <2>2, <3>1, <3>2 DEF Disconnect
  <2>3. CASE NextCall(c)
    <3>1. NotCalling \in Call /\ NotCalling.at = "idle" /\ NotCalling.told = "nothing"
      BY DEF Call, NotCalling
    <3> QED BY <2>3, <3>1 DEF NextCall
  <2> QED BY <2>1, <2>2, <2>3
<1> PICK x \in Call : /\ caller' = [caller EXCEPT ![c] = x] /\ caller[c].at \in {"joined", "back"}
                      /\ x.at \in {"back", "idle"}
                      /\ x.at = "back" => x.cycle = caller[c].cycle /\ caller[c].at = "joined"
                      /\ x.at = "idle" => x.told = "nothing"
                      /\ x.told \in {"ok", "failed"} => x.told = cycles[x.cycle].outcome
  BY <1>1
<1>2. /\ caller' \in [Caller -> Call] /\ caller'[c] = x
      /\ \A o \in Caller : o # c => caller'[o] = caller[o]
  BY CallerMoves
<1>3. CycleType'
  BY <1>1, <1>2 DEF CycleType
<1>4. \A o \in Caller : (Active(o)' <=> Active(o)) /\ (Active(o) => caller'[o] = caller[o])
  BY <1>2 DEF Active
<1>5. OneLeader'
  BY <1>1, <1>4 DEF OneLeader
<1>6. CyclesOK'
  BY <1>1, <1>2, <1>4 DEF CyclesOK
<1>7. ToldHonest'
  BY <1>1, <1>2 DEF ToldHonest
<1>8. LogOK' /\ EventsAlternate'
  BY <1>1, <1>2 DEF LogOK, EventsAlternate
<1>9. JoinedIsLed'
  BY <1>1, <1>2 DEF JoinedIsLed
<1> QED BY <1>1, <1>3, <1>5, <1>6, <1>7, <1>8, <1>9

\* Every section of the scheduler keeps the invariant.
LEMMA CycleInvNext == CycleInv /\ [CycleNext]_schedvars => CycleInv'
<1> SUFFICES ASSUME CycleInv, [CycleNext]_schedvars PROVE CycleInv'
  OBVIOUS
<1>1. CASE UNCHANGED schedvars
  BY <1>1 DEF schedvars, CycleInv, CycleType, OneLeader, Active, CyclesOK, LogOK, EventsAlternate, ToldHonest, JoinedIsLed
<1>2. ASSUME NEW c \in Caller, NEW mode \in Modes(c), Converge(c, mode) PROVE CycleInv'
  <2>1. mode \in {"full", "namespace-only"}
    BY DEF Modes
  <2> QED BY <1>2, <2>1, JoinKeeps, LeadKeeps DEF Converge
<1>3. ASSUME NEW c \in Caller, ConvergeStep(c) \/ Disconnect(c) \/ NextCall(c) PROVE CycleInv'
  BY <1>3, PublishKeeps, EndsKeeps, CloseKeeps, LeaveKeeps DEF ConvergeStep
<1> QED
  BY <1>1, <1>2, <1>3 DEF CycleNext

\* Setting a cycle's outcome or closing it starts none.
LEMMA SameLen ==
    ASSUME NEW s \in Seq(Cycle), NEW n \in 1..Len(s), NEW v
    PROVE  Len([s EXCEPT ![n] = v]) = Len(s)
<1>1. s \in Seq(Cycle \cup {v}) /\ v \in Cycle \cup {v}
  OBVIOUS
<1>2. [s EXCEPT ![n] = v] \in Seq(Cycle \cup {v})
  BY <1>1, ExceptSeq
<1> QED BY <1>1, ExceptSeq

\* Lead is the only step that starts a cycle, and it takes the pending mode.
LEMMA FullStep ==
    ASSUME CycleInv, [CycleNext]_schedvars, owed, Len(cycles') > Len(cycles)
    PROVE  cycles'[Len(cycles')].mode = "full"
<1>0. pendingMode /\ Len(cycles) \in Nat /\ cycles \in Seq(Cycle)
  BY DEF CycleInv, CycleType
<1>1. cycles' # cycles
  BY <1>0
<1>2. PICK c \in Caller : CycleEnds(c) \/ CloseDone(c) \/ \E mode \in Modes(c) : Converge(c, mode)
  BY <1>1 DEF CycleNext, ConvergeStep, PublishStarted, Wake, Disconnect, NextCall, schedvars
<1>3. CASE CycleEnds(c)
  <2>1. caller[c].cycle \in 1..Len(cycles)
    BY <1>3 DEF CycleEnds, CycleInv, CyclesOK
  <2>2. PICK outcome : cycles' = [cycles EXCEPT ![caller[c].cycle] = [@ EXCEPT !.outcome = outcome]]
    BY <1>3 DEF CycleEnds
  <2> QED BY <1>0, <2>1, <2>2, SameLen
<1>4. CASE CloseDone(c)
  <2>1. caller[c].cycle \in 1..Len(cycles)
    BY <1>4 DEF CloseDone, CycleInv, CyclesOK
  <2>2. cycles' = [cycles EXCEPT ![caller[c].cycle] = [@ EXCEPT !.done = TRUE]]
    BY <1>4 DEF CloseDone
  <2> QED BY <1>0, <2>1, <2>2, SameLen
<1>5. CASE \E mode \in Modes(c) : Converge(c, mode)
  <2>1. PICK mode \in Modes(c) : Lead(c, mode)
    BY <1>1, <1>5 DEF Converge, Join
  <2>2. cycles' = Append(cycles, [mode |-> "full", outcome |-> "running", done |-> FALSE])
    BY <1>0, <2>1 DEF Lead
  <2>3. [mode |-> "full", outcome |-> "running", done |-> FALSE] \in Cycle
    BY DEF Cycle
  <2> QED BY <1>0, <2>2, <2>3
<1> QED BY <1>2, <1>3, <1>4, <1>5

-----------------------------------------------------------------------------
(* The watch plane.                                                        *)

\* Only the watching phase has a count.
WatchInv == counter \in BOOLEAN /\ (counter => phase = "watching") /\ CountHonest

\* Nothing is watched and nothing reported at the start.
LEMMA WatchInvInit == WatchInit => WatchInv
<1> SUFFICES ASSUME WatchInit PROVE WatchInv
  OBVIOUS
<1>1. counter = FALSE /\ ~report.known
  BY DEF WatchInit, NoReport
<1> QED
  BY <1>1 DEF WatchInv, CountHonest

\* announce alone sets the counter, degrade and the loop alone leave the phase,
\* and both reset it; a report is built from one critical section.
LEMMA WatchInvNext == WatchInv /\ [WatchNext]_watchvars => WatchInv'
<1> SUFFICES ASSUME WatchInv, [WatchNext]_watchvars PROVE WatchInv'
  OBVIOUS
<1> DEFINE Reset == phase' \in {"degraded", "idle"} /\ counter' = FALSE
<1>1. CASE report' = report /\ (same \/ Reset \/ watching)
  <2>1. CASE same
    BY <1>1, <2>1, Zenon DEF WatchInv, CountHonest, same
  <2>2. CASE Reset
    BY <1>1, <2>2, Zenon DEF WatchInv, CountHonest
  <2>3. CASE watching
    BY <1>1, <2>3, Zenon DEF WatchInv, CountHonest, watching
  <2> QED BY <1>1, <2>1, <2>2, <2>3
<1>2. CASE UNCHANGED watchvars
  BY <1>1, <1>2 DEF watchvars, same
<1>3. ASSUME NEW g \in Arm, ArmStep(g) \/ readyTimer(g) \/ pollFails(g) PROVE WatchInv'
  BY <1>1, <1>3 DEF ArmStep, armStarts, beginProbation, nativeFails, armCancelled, announce, nativeDies, degradeArm, readyTimer,
     pollFails, degrade, same
<1>4. CASE rediscover \/ rediscoverFails \/ WatchRootsChange
  BY <1>1, <1>4 DEF rediscover, idle, rediscoverFails, WatchRootsChange, degrade, same
<1>5. CASE beginSnapshot
  BY <1>5 DEF beginSnapshot, WatchInv, CountHonest
<1>6. CASE finishSnapshot
  <2>1. report'.known = counter /\ report'.phase = phase
    BY <1>6 DEF finishSnapshot
  <2> QED BY <1>6, <2>1 DEF finishSnapshot, WatchInv, CountHonest
<1> QED
  BY <1>2, <1>3, <1>4, <1>5, <1>6 DEF WatchNext

-----------------------------------------------------------------------------
(* The lock files.                                                         *)

\* No file is there at the start.
LEMMA LockInit == Init => TypeOK
<1>1. NoContent \in [owner : {{}} \cup {{p} : p \in Procs}, turn : {0, 1}]
  BY DEF NoContent
<1> QED
  BY <1>1 DEF Init, TypeOK, Waiting

\* Every file system call writes a lock file or a content of the right shape.
LEMMA LockNext == TypeOK /\ [Next]_vars => TypeOK'
<1> SUFFICES ASSUME TypeOK, [Next]_vars PROVE TypeOK'
  OBVIOUS
<1> USE DEF TypeOK, Goto, Waiting
<1>1. CASE UNCHANGED vars
  BY <1>1 DEF vars
<1>2. CASE HalfHour
  BY <1>2 DEF HalfHour
<1>3. ASSUME NEW p \in Procs, Start(p) \/ Probe(p) \/ Recheck(p) \/ Reread(p) \/ Crash(p) PROVE TypeOK'
  BY <1>3 DEF Start, Probe, Recheck, Reread, Crash
<1>4. ASSUME NEW p \in Procs, FailWrite(p) \/ RemoveStale(p) \/ Release(p) PROVE TypeOK'
  <2>1. CASE FailWrite(p) \/ RemoveStale(p)
    BY <2>1 DEF FailWrite, RemoveStale
  <2>2. CASE Release(p)
    <3>1. 1 - turn[p] \in {0, 1}
      OBVIOUS
    <3> QED BY <2>2, <3>1 DEF Release
  <2> QED BY <1>4, <2>1, <2>2
<1>5. ASSUME NEW p \in Procs, Create(p) PROVE TypeOK'
  <2>1. [owner |-> {p}, turn |-> turn[p], body |-> "empty"] \in File
    BY DEF File
  <2> QED BY <1>5, <2>1 DEF Create
<1>6. ASSUME NEW p \in Procs, Write(p) PROVE TypeOK'
  <2>1. CASE file.owner = {p}
    <3>1. file \in File
      <4>1. NoFile.owner # {p}
        BY DEF NoFile
      <4> QED BY <2>1, <4>1
    <3>2. [file EXCEPT !.body = "written"] \in File
      BY <3>1 DEF File
    <3> QED BY <1>6, <2>1, <3>2 DEF Write
  <2>2. CASE file.owner # {p}
    BY <1>6, <2>2 DEF Write
  <2> QED BY <2>1, <2>2
<1>7. ASSUME NEW p \in Procs, ReadBefore(p) PROVE TypeOK'
  <2>1. Content(file) \in [owner : {{}} \cup {{q} : q \in Procs}, turn : {0, 1}]
    <3>1. CASE file = NoFile
      BY <3>1 DEF Content, NoFile, NoContent
    <3>2. CASE file \in File
      BY <3>2 DEF Content, File, NoContent
    <3> QED BY <3>1, <3>2
  <2> QED BY <1>7, <2>1 DEF ReadBefore
<1> QED
  BY <1>1, <1>2, <1>3, <1>4, <1>5, <1>6, <1>7 DEF Next, Work

-----------------------------------------------------------------------------
(* Backup and restore.                                                     *)

Held == [gen : Nat, refs : SUBSET Ref]
Dir == [Target -> Held]
Record == [Target -> [staged : BOOLEAN, existed : BOOLEAN, done : BOOLEAN, back : BOOLEAN]]

BackingUp == {"enumerate", "again", "open", "tar", "manifest"}
Swapping == {"aside", "promote", "done"}
Reversing == {"reverse", "putback", "record"}
Closing == {"giveup", "sweep", "finish"}

WorkType ==
    [at : {"idle", "verify", "check"} \cup BackingUp \cup Swapping \cup Reversing \cup Closing,
     i : Nat, snap : Held, tries : Nat, todo : SUBSET Ref, j : Record \cup {NoJournal}, bad : BOOLEAN]

RestoreType ==
    /\ home \in Dir /\ aside \in Dir /\ journal \in Record \cup {NoJournal}
    /\ tar \in [names : SUBSET Target, db : Held, blobs : SUBSET Ref, manifest : BOOLEAN]
    /\ work \in WorkType

\* A backup runs without a journal, a swap and a recovery with one.
Ordered ==
    /\ work.at \in BackingUp \cup {"verify"} => journal = NoJournal
    /\ work.at \in Swapping \cup Reversing \cup Closing \cup {"check"} => journal # NoJournal
    /\ work.at \in Swapping \cup Reversing \cup Closing => work.j \in Record
    /\ work.at \in Swapping \cup Reversing => work.i \in Target

\* What a backup has put into the archive, or still has to.
ArchiveOK ==
    /\ tar.blobs # {} => BlobDir \in tar.names
    /\ work.at = "open" => work.todo = work.snap.refs
    /\ work.at = "tar" => tar.db.refs \subseteq tar.blobs \cup work.todo
    /\ work.at = "manifest" => tar.db.refs \subseteq tar.blobs
    /\ ManifestHonest

\* A state directory that came from an archive is whole.
Whole(s) == s[DB].gen = 2 => s[DB].refs \subseteq s[BlobDir].refs /\ s[Keys] # Absent

\* Where a target can be between the state directory from before and the new one.
Original(was, t) == home[t] = was[t] /\ aside[t] = Absent
Moved(was, t) == home[t] = Absent /\ aside[t] = was[t]
Promoted(was, new, t) == home[t] = new[t] /\ aside[t] = was[t]

\* What the journal says of a target, and where that lets the target be.
JournalOK(was, new) == \A t \in Target :
    /\ journal[t].existed <=> was[t] # Absent
    /\ journal[t].staged => new[t] # Absent
    /\ ~journal[t].staged => journal[t].done /\ new[t] = was[t] /\ Original(was, t)
    /\ journal[t].back => Original(was, t)
    /\ ~AllDone(journal) => Original(was, t) \/ Moved(was, t) \/ Promoted(was, new, t)
    /\ AllDone(journal) /\ journal[t].staged => home[t] = new[t] /\ aside[t] \in {was[t], Absent}

\* The swap moves the targets aside in order, then promotes them in order.
SwapOK(was, new) == work.at \in Swapping => \A t \in Target :
    /\ ~journal[t].back /\ work.j[t].staged = journal[t].staged /\ work.j[t].existed = journal[t].existed /\ ~work.j[t].back
    /\ work.j[t].done <=> (journal[t].done \/ (work.at = "done" /\ t = work.i))
    /\ journal[t].staged => new[t] = Staged[t]
    /\ work.at = "done" => journal[work.i].staged
    /\ (journal[t].staged /\ work.at = "aside" /\ t < work.i) => Moved(was, t) /\ ~journal[t].done
    /\ (journal[t].staged /\ work.at = "aside" /\ t >= work.i) => Original(was, t) /\ ~journal[t].done
    /\ (journal[t].staged /\ work.at \in {"promote", "done"} /\ t < work.i) => Promoted(was, new, t)
    /\ (journal[t].staged /\ work.at = "promote" /\ t >= work.i) => Moved(was, t) /\ ~journal[t].done
    /\ (journal[t].staged /\ work.at = "done" /\ t = work.i) => Promoted(was, new, t) /\ ~journal[t].done
    /\ (journal[t].staged /\ work.at = "done" /\ t > work.i) => Moved(was, t) /\ ~journal[t].done

\* The recovery puts the targets back in reverse order, and what it takes for put
\* back is; it closes a swap that is done, or one that is reversed altogether.
RecoveryOK(was, new) == work.at \in Reversing \cup Closing => \A t \in Target :
    /\ work.j[t].staged = journal[t].staged /\ work.j[t].existed = journal[t].existed /\ work.j[t].done = journal[t].done
    /\ journal[t].back => work.j[t].back
    /\ work.j[t].back => Original(was, t)
    /\ work.at \in Reversing => ~AllDone(journal)
    /\ (work.at \in Reversing /\ t > work.i) => work.bad \/ Original(was, t)
    /\ work.at = "putback" => Moved(was, work.i) /\ journal[work.i].staged
    /\ work.at = "record" => Original(was, work.i)
    /\ work.at \in {"sweep", "finish"} => AllDone(journal) \/ Original(was, t)
    /\ work.at = "finish" => aside[t] = Absent

MidSwap(was, new) ==
    saved = {was, new} /\ JournalOK(was, new) /\ SwapOK(was, new) /\ RecoveryOK(was, new)

RestoreInv ==
    /\ RestoreType /\ Ordered /\ ArchiveOK
    /\ saved \subseteq Dir /\ \A s \in saved : Whole(s)
    /\ SwapAtomic
    /\ journal # NoJournal => \E was, new \in saved : MidSwap(was, new)

\* A journal says something of every target.
LEMMA JournalExists == NoJournal \notin Record
<1>1. \A j \in Record : 1 \in DOMAIN j
  BY DEF Record, Target
<1>2. 1 \notin DOMAIN NoJournal
  BY DEF NoJournal
<1> QED
  BY <1>1, <1>2

\* Nothing to do, and nothing to say about it.
LEMMA Idling ==
    /\ NoWork \in WorkType /\ NoWork.at = "idle" /\ Absent \in Held /\ Absent.gen = 0 /\ Absent.refs = {}
    /\ NoTar \in [names : SUBSET Target, db : Held, blobs : SUBSET Ref, manifest : BOOLEAN]
    /\ NoTar.names = {} /\ NoTar.blobs = {} /\ NoTar.db = Absent /\ NoTar.manifest = FALSE
<1>1. Absent \in Held /\ Absent.gen = 0 /\ Absent.refs = {}
  BY DEF Absent, Held
<1>2. NoWork \in WorkType /\ NoWork.at = "idle"
  BY <1>1 DEF NoWork, WorkType
<1>3. NoTar \in [names : SUBSET Target, db : Held, blobs : SUBSET Ref, manifest : BOOLEAN]
  BY <1>1 DEF NoTar
<1>4. NoTar.names = {} /\ NoTar.blobs = {} /\ NoTar.db = Absent /\ NoTar.manifest = FALSE
  BY DEF NoTar
<1> QED
  BY <1>1, <1>2, <1>3, <1>4

\* A machine that has never been restored: every target is the first one, or absent.
LEMMA RestoreInvInit == RestoreInit => RestoreInv
<1> SUFFICES ASSUME RestoreInit PROVE RestoreInv
  OBVIOUS
<1>1. home \in Dir /\ aside \in Dir /\ saved = {home} /\ journal = NoJournal /\ work = NoWork /\ tar = NoTar
  <2>1. [gen |-> 1, refs |-> {}] \in Held
    BY DEF Held
  <2> QED BY <2>1, Idling DEF RestoreInit, Dir
<1>2. home[DB].gen # 2
  <2>1. home[DB] = [gen |-> 1, refs |-> {}] \/ home[DB] = Absent
    BY DEF RestoreInit, DB, Target
  <2> QED BY <2>1, Idling
<1>3. RestoreType
  BY <1>1, Idling DEF RestoreType, WorkType
<1>4. Ordered /\ ArchiveOK
  BY <1>1, Idling DEF Ordered, ArchiveOK, ManifestHonest, BackingUp, Swapping, Reversing, Closing
<1>5. SwapAtomic /\ \A s \in saved : Whole(s)
  BY <1>1, <1>2 DEF SwapAtomic, Whole, RestoreInit, Here
<1> QED
  BY <1>1, <1>3, <1>4, <1>5 DEF RestoreInv

\* What a step that does not swap and does not capture has to keep.
LEMMA OutsideKeeps ==
    ASSUME RestoreInv, UNCHANGED <<home, aside, saved>>, journal = NoJournal, journal' = NoJournal,
           RestoreType', Ordered', ArchiveOK'
    PROVE  RestoreInv'
  BY DEF RestoreInv, SwapAtomic, Whole, Here

\* Captures and collections run while nobody swaps: they keep a restored database whole.
LEMMA CaptureKeeps ==
    ASSUME RestoreInv, CollectCache \/ \E r \in Ref : RecaptureRow(r)
    PROVE  RestoreInv'
<1>1. /\ journal = NoJournal /\ UNCHANGED <<aside, journal, tar, work>> /\ saved' = {home'}
      /\ home \in Dir /\ Whole(home) /\ \A t \in Target : ~Here(aside, t)
  BY DEF CollectCache, RecaptureRow, Idle, RestoreInv, RestoreType, SwapAtomic
<1>2. home' \in Dir /\ Whole(home')
  <2> USE DEF Dir, Held, Target, DB, BlobDir, Keys
  <2>0. \A t \in Target : home[t] \in Held /\ home[t].refs \in SUBSET Ref
    BY <1>1
  <2>1. CASE CollectCache
    <3> DEFINE kept == [home[BlobDir] EXCEPT !.refs = home[BlobDir].refs \cap home[DB].refs]
    <3>1. home' = [home EXCEPT ![BlobDir] = kept]
      BY <2>1 DEF CollectCache
    <3>2. kept \in Held /\ kept.refs = home[BlobDir].refs \cap home[DB].refs
      BY <2>0
    <3> HIDE DEF kept
    <3>3. home' \in Dir /\ home'[BlobDir] = kept /\ home'[DB] = home[DB] /\ home'[Keys] = home[Keys]
      BY <1>1, <3>1, <3>2
    <3> QED BY <1>1, <3>2, <3>3 DEF Whole
  <2>2. CASE \E r \in Ref : RecaptureRow(r)
    <3> PICK r \in Ref : RecaptureRow(r)
      BY <2>2
    <3> DEFINE row == [home[DB] EXCEPT !.refs = {r}]
               blobs == [gen |-> 1, refs |-> home[BlobDir].refs \cup {r}]
    <3>1. home' = [[home EXCEPT ![DB] = row] EXCEPT ![BlobDir] = blobs]
      BY <1>1 DEF RecaptureRow
    <3>2. row \in Held /\ row.refs = {r} /\ row.gen = home[DB].gen /\ blobs \in Held /\ r \in blobs.refs
      BY <2>0
    <3> HIDE DEF row, blobs
    <3>3. home' \in Dir /\ home'[BlobDir] = blobs /\ home'[DB] = row /\ home'[Keys] = home[Keys]
      BY <1>1, <3>1, <3>2
    <3> QED BY <1>1, <3>2, <3>3 DEF Whole
  <2> QED BY <2>1, <2>2
<1>3. RestoreType' /\ Ordered' /\ ArchiveOK'
  BY <1>1, <1>2 DEF RestoreInv, RestoreType, Ordered, ArchiveOK, ManifestHonest
<1> QED
  BY <1>1, <1>2, <1>3 DEF RestoreInv, SwapAtomic, Here

\* A backup: what it still has to add and what it has added cover the rows of its
\* snapshot until the manifest is written, and a failure leaves no manifest.
LEMMA BackupKeeps ==
    ASSUME RestoreInv,
           snapshotDB \/ snapshotAndEnumerate \/ writeBackupTar \/ stageBackupKeys \/ writeManifest \/ \E r \in Ref : addFileToTar(r)
    PROVE  RestoreInv'
<1> USE DEF BackingUp, Swapping, Reversing, Closing
<1>0. /\ work \in WorkType /\ home \in Dir /\ tar \in [names : SUBSET Target, db : Held, blobs : SUBSET Ref, manifest : BOOLEAN]
      /\ home[DB] \in Held /\ BlobDir \in Target /\ DB \in Target /\ Config \in Target /\ Keys \in Target
  BY DEF RestoreInv, RestoreType, Dir, Target, DB, BlobDir, Config, Keys
<1>1. UNCHANGED <<home, aside, saved>> /\ journal = NoJournal /\ journal' = NoJournal
  BY DEF RestoreInv, Ordered, swapped, snapshotDB, snapshotAndEnumerate, writeBackupTar, stageBackupKeys, writeManifest, addFileToTar
<1>2. work' \in WorkType /\ work'.at \in {"idle"} \cup BackingUp
      /\ tar' \in [names : SUBSET Target, db : Held, blobs : SUBSET Ref, manifest : BOOLEAN] /\ ArchiveOK'
  <2>0. ArchiveOK
    BY DEF RestoreInv
  <2>1. CASE snapshotDB
    <3> DEFINE w == [work EXCEPT !.at = "enumerate", !.snap = home[DB], !.tries = @ + 1]
    <3>1. work' = w /\ tar' = tar
      BY <2>1 DEF snapshotDB
    <3>2. w \in WorkType /\ w.at = "enumerate"
      <4>1. work.tries + 1 \in Nat
        BY <1>0 DEF WorkType
      <4> QED BY <1>0, <4>1 DEF WorkType
    <3> QED BY <1>0, <2>0, <3>1, <3>2 DEF ArchiveOK, ManifestHonest
  <2>2. CASE snapshotAndEnumerate
    <3>1. work' \in {[work EXCEPT !.at = "open", !.todo = work.snap.refs], [work EXCEPT !.at = "again"], NoWork} /\ tar' = tar
      BY <2>2 DEF snapshotAndEnumerate
    <3>2. CASE work' = [work EXCEPT !.at = "open", !.todo = work.snap.refs]
      <4>1. work.snap.refs \in SUBSET Ref
        BY <1>0 DEF WorkType, Held
      <4>2. work' \in WorkType /\ work'.at = "open" /\ work'.todo = work.snap.refs /\ work'.snap = work.snap
        BY <1>0, <3>2, <4>1 DEF WorkType
      <4> QED BY <1>0, <2>0, <3>1, <4>2 DEF ArchiveOK, ManifestHonest
    <3>3. CASE work' = [work EXCEPT !.at = "again"]
      <4>1. work' \in WorkType /\ work'.at = "again"
        BY <1>0, <3>3 DEF WorkType
      <4> QED BY <1>0, <2>0, <3>1, <4>1 DEF ArchiveOK, ManifestHonest
    <3>4. CASE work' = NoWork
      BY <1>0, <2>0, <3>1, <3>4, Idling DEF ArchiveOK, ManifestHonest
    <3> QED BY <3>1, <3>2, <3>3, <3>4
  <2>3. CASE writeBackupTar
    <3> DEFINE names == {DB} \cup (IF Here(home, Config) THEN {Config} ELSE {})
    <3>1. tar' = [NoTar EXCEPT !.names = names, !.db = work.snap] /\ work' = [work EXCEPT !.at = "tar"]
      BY <2>3 DEF writeBackupTar, At
    <3>2. names \in SUBSET Target /\ work.snap \in Held /\ work.at = "open"
      BY <1>0, <2>3 DEF WorkType, writeBackupTar
    <3> HIDE DEF names
    <3>3. /\ tar' \in [names : SUBSET Target, db : Held, blobs : SUBSET Ref, manifest : BOOLEAN]
          /\ tar'.blobs = {} /\ tar'.db = work.snap /\ tar'.manifest = FALSE
      BY <3>1, <3>2, Idling
    <3>4. work' \in WorkType /\ work'.at = "tar" /\ work'.todo = work.todo /\ work'.snap = work.snap
      BY <1>0, <3>1 DEF WorkType
    <3> QED BY <2>0, <3>2, <3>3, <3>4 DEF ArchiveOK, ManifestHonest
  <2>4. CASE stageBackupKeys
    <3>1. tar' = [tar EXCEPT !.names = tar.names \cup {Keys}] /\ work' = [work EXCEPT !.at = "manifest"] /\ work.at = "tar" /\ work.todo = {}
      BY <2>4 DEF stageBackupKeys, At
    <3>2. /\ tar' \in [names : SUBSET Target, db : Held, blobs : SUBSET Ref, manifest : BOOLEAN]
          /\ tar'.names = tar.names \cup {Keys} /\ tar'.blobs = tar.blobs /\ tar'.db = tar.db /\ tar'.manifest = tar.manifest
      BY <1>0, <3>1
    <3>3. work' \in WorkType /\ work'.at = "manifest"
      BY <1>0, <3>1 DEF WorkType
    <3> QED BY <2>0, <3>1, <3>2, <3>3 DEF ArchiveOK, ManifestHonest
  <2>5. CASE writeManifest
    <3>1. tar' = [tar EXCEPT !.manifest = TRUE] /\ work' = NoWork /\ work.at = "manifest"
      BY <2>5 DEF writeManifest
    <3>2. /\ tar' \in [names : SUBSET Target, db : Held, blobs : SUBSET Ref, manifest : BOOLEAN]
          /\ tar'.names = tar.names /\ tar'.blobs = tar.blobs /\ tar'.db = tar.db
      BY <1>0, <3>1
    <3> QED BY <2>0, <3>1, <3>2, Idling DEF ArchiveOK, ManifestHonest
  <2>6. CASE \E r \in Ref : addFileToTar(r)
    <3> PICK r \in Ref : addFileToTar(r)
      BY <2>6
    <3>0. work.at = "tar"
      BY DEF addFileToTar
    <3>1. CASE r \in home[BlobDir].refs
      <4>1. /\ tar' = [tar EXCEPT !.blobs = tar.blobs \cup {r}, !.names = tar.names \cup {BlobDir}]
            /\ work' = [work EXCEPT !.todo = work.todo \ {r}]
        BY <3>1 DEF addFileToTar
      <4>2. /\ tar' \in [names : SUBSET Target, db : Held, blobs : SUBSET Ref, manifest : BOOLEAN]
            /\ tar'.names = tar.names \cup {BlobDir} /\ tar'.blobs = tar.blobs \cup {r} /\ tar'.db = tar.db /\ tar'.manifest = tar.manifest
        BY <1>0, <4>1
      <4>3. work' \in WorkType /\ work'.at = "tar" /\ work'.todo = work.todo \ {r}
        BY <1>0, <3>0, <4>1 DEF WorkType
      <4> QED BY <2>0, <3>0, <4>2, <4>3 DEF ArchiveOK, ManifestHonest
    <3>2. CASE r \notin home[BlobDir].refs
      <4>1. tar' = NoTar /\ work' = NoWork
        BY <3>2 DEF addFileToTar
      <4> QED BY <4>1, Idling DEF ArchiveOK, ManifestHonest
    <3> QED BY <3>1, <3>2
  <2> QED BY <2>1, <2>2, <2>3, <2>4, <2>5, <2>6
<1>3. RestoreType' /\ Ordered'
  <2>1. RestoreType'
    BY <1>1, <1>2 DEF RestoreInv, RestoreType
  <2>2. Ordered'
    BY <1>1, <1>2 DEF Ordered
  <2> QED BY <2>1, <2>2
<1> QED
  BY <1>1, <1>2, <1>3, OutsideKeeps

\* What a step of a swap or of a recovery has to keep while the journal stays.
LEMMA InsideKeeps ==
    ASSUME RestoreInv, UNCHANGED <<saved, tar>>, journal' \in Record, home' \in Dir, aside' \in Dir, work' \in WorkType,
           work'.at \in {"idle", "check"} \cup Swapping \cup Reversing \cup Closing, Ordered',
           NEW was \in saved, NEW new \in saved, MidSwap(was, new)'
    PROVE  RestoreInv'
<1>1. RestoreType' /\ journal' # NoJournal
  BY JournalExists DEF RestoreInv, RestoreType
<1>2. ArchiveOK'
  BY DEF RestoreInv, ArchiveOK, ManifestHonest, Swapping, Reversing, Closing
<1>3. SwapAtomic' /\ \A s \in saved' : Whole(s)
  BY <1>1 DEF SwapAtomic, RestoreInv
<1>4. saved' \subseteq Dir /\ \E x, y \in saved' : MidSwap(x, y)'
  BY DEF RestoreInv
<1> QED
  BY <1>1, <1>2, <1>3, <1>4 DEF RestoreInv

\* A restore or a recovery begins, or the process dies: nothing on disk changes.
LEMMA BeginKeeps ==
    ASSUME RestoreInv, newRestoreCommand \/ recoverCommand \/ KillMaintenance \/ giveUp
    PROVE  RestoreInv'
<1> USE DEF BackingUp, Swapping, Reversing, Closing
<1>0. work \in WorkType /\ UNCHANGED <<home, aside, saved, journal, tar>>
  BY DEF RestoreInv, RestoreType, newRestoreCommand, recoverCommand, KillMaintenance, giveUp, swapped
<1>1. work' \in WorkType /\ work'.at \in {"idle", "verify", "check"} /\ (work'.at = "verify" => journal = NoJournal) /\ (work'.at = "check" => journal # NoJournal)
  <2>1. CASE newRestoreCommand
    <3>1. work' = [NoWork EXCEPT !.at = IF journal = NoJournal THEN "verify" ELSE "check", !.bad = FALSE, !.tries = 1]
      BY <2>1 DEF newRestoreCommand
    <3> QED BY <3>1, Idling DEF WorkType
  <2>2. CASE recoverCommand
    <3>1. work' = [NoWork EXCEPT !.at = "check"] /\ journal # NoJournal
      BY <2>2 DEF recoverCommand
    <3> QED BY <3>1, Idling DEF WorkType
  <2>3. CASE KillMaintenance \/ giveUp
    BY <2>3, Idling DEF KillMaintenance, giveUp
  <2> QED BY <2>1, <2>2, <2>3
<1>2. Ordered' /\ ArchiveOK' /\ RestoreType'
  BY <1>0, <1>1 DEF RestoreInv, RestoreType, Ordered, ArchiveOK, ManifestHonest
<1>3. CASE journal = NoJournal
  BY <1>0, <1>2, <1>3, OutsideKeeps
<1>4. CASE journal # NoJournal
  <2> PICK was \in saved, new \in saved : MidSwap(was, new)
    BY <1>4 DEF RestoreInv
  <2>1. MidSwap(was, new)'
    <3>1. JournalOK(was, new)'
      BY <1>0 DEF MidSwap, JournalOK, Original, Moved, Promoted
    <3>2. SwapOK(was, new)' /\ RecoveryOK(was, new)'
      BY <1>1 DEF SwapOK, RecoveryOK
    <3>3. saved' = {was, new}
      BY <1>0 DEF MidSwap
    <3> QED BY <3>1, <3>2, <3>3 DEF MidSwap
  <2>2. journal' \in Record /\ home' \in Dir /\ aside' \in Dir
    BY <1>0, <1>4 DEF RestoreInv, RestoreType
  <2> QED BY <1>0, <1>1, <1>2, <1>4, <2>1, <2>2, InsideKeeps
<1> QED
  BY <1>3, <1>4

\* What an archive unpacks to.
LEMMA StagedType ==
    ASSUME RestoreType
    PROVE  Staged \in Dir /\ \A t \in Target : (t \in tar.names => Staged[t] # Absent /\ Staged[t].gen = 2) /\ (t \notin tar.names => Staged[t] = Absent)
<1> DEFINE refs(t) == IF t = DB THEN tar.db.refs ELSE IF t = BlobDir THEN tar.blobs ELSE {}
           unpacked(t) == [gen |-> 2, refs |-> refs(t)]
<1>1. \A t \in Target : refs(t) \in SUBSET Ref
  BY DEF RestoreType, Held
<1>2. \A t \in Target : unpacked(t) \in Held /\ unpacked(t).gen = 2
  BY <1>1 DEF Held
<1>3. \A t \in Target : unpacked(t) # Absent
  BY <1>2, Idling
<1>4. Staged = [t \in Target |-> IF t \notin tar.names THEN Absent ELSE unpacked(t)]
  BY DEF Staged
<1> HIDE DEF unpacked
<1> QED
  BY <1>2, <1>3, <1>4, Idling DEF Dir

\* runRestore: the journal is written over a verified, complete archive, before
\* anything moves.
LEMMA StartKeeps == ASSUME RestoreInv, runRestore PROVE RestoreInv'
<1> USE DEF BackingUp, Swapping, Reversing, Closing
<1>0. /\ work.at = "verify" /\ journal = NoJournal /\ UNCHANGED <<home, aside, tar>> /\ home \in Dir /\ aside \in Dir
      /\ home \in saved /\ Whole(home) /\ RestoreType
  BY DEF RestoreInv, RestoreType, Ordered, runRestore, SwapAtomic
<1>1. CASE ~(verifyBackupManifest /\ verifyRestoreCompleteness)
  <2>1. work' = NoWork /\ UNCHANGED <<journal, saved>>
    BY <1>1 DEF runRestore
  <2>2. RestoreType' /\ Ordered' /\ ArchiveOK'
    BY <1>0, <2>1, Idling DEF RestoreInv, RestoreType, Ordered, ArchiveOK, ManifestHonest
  <2> QED BY <1>0, <2>1, <2>2, OutsideKeeps
<1>2. CASE verifyBackupManifest /\ verifyRestoreCompleteness
  <2> DEFINE entry(t) == [staged |-> Here(Staged, t), existed |-> Here(home, t), done |-> ~Here(Staged, t), back |-> FALSE]
             j == [t \in Target |-> entry(t)]
             new == [t \in Target |-> IF j[t].staged THEN Staged[t] ELSE home[t]]
             w == [NoWork EXCEPT !.at = "aside", !.i = 1, !.j = j]
  <2>1. journal' = j /\ work' = w /\ saved' = {home, new}
    BY <1>2 DEF runRestore
  <2>2. j \in Record /\ \A t \in Target : /\ j[t].staged = (Staged[t] # Absent) /\ j[t].existed = (home[t] # Absent)
                                          /\ j[t].done = (Staged[t] = Absent) /\ j[t].back = FALSE
    BY DEF Record, Here
  <2>3. Staged \in Dir
    BY <1>0, StagedType
  <2>4. \A t \in Target : new[t] = IF Staged[t] # Absent THEN Staged[t] ELSE home[t]
    BY <2>2
  <2>5. new \in Dir
    BY <1>0, <2>3 DEF Dir
  <2>6. Whole(new)
    <3>1. DB \in tar.names /\ Keys \in tar.names /\ tar.db.refs \subseteq tar.blobs /\ DB \in Target /\ Keys \in Target /\ BlobDir \in Target /\ DB # BlobDir
      BY <1>2 DEF verifyRestoreCompleteness, DB, Keys, BlobDir, Target
    <3>2. new[DB] = Staged[DB] /\ new[Keys] = Staged[Keys] /\ Staged[Keys] # Absent
      BY <1>0, <2>4, <3>1, StagedType
    <3>3. Staged[DB].refs = tar.db.refs
      BY <3>1 DEF Staged
    <3>4. CASE BlobDir \in tar.names
      <4>1. new[BlobDir] = Staged[BlobDir] /\ Staged[BlobDir].refs = tar.blobs
        BY <1>0, <2>4, <3>1, <3>4, StagedType DEF Staged
      <4> QED BY <3>1, <3>2, <3>3, <4>1 DEF Whole
    <3>5. CASE BlobDir \notin tar.names
      <4>1. tar.db.refs = {}
        BY <3>1, <3>5 DEF RestoreInv, ArchiveOK
      <4> QED BY <3>2, <3>3, <4>1 DEF Whole
    <3> QED BY <3>4, <3>5
  <2>7. w \in WorkType /\ w.at = "aside" /\ w.i = 1 /\ w.j = j
    <3> HIDE DEF j
    <3> QED BY <2>2, Idling DEF WorkType
  <2> HIDE DEF j, new, w
  <2>8. \A t \in Target : aside[t] = Absent
    BY <1>0 DEF RestoreInv, SwapAtomic, Here
  <2>w. \E was, into \in Dir : was = home /\ into = new
    BY <1>0, <2>5
  <2> PICK was \in Dir, into \in Dir : was = home /\ into = new
    BY <2>w
  <2>9. MidSwap(was, into)'
    <3>1. \A t \in Target : j[t].staged => ~AllDone(j)
      BY <2>2 DEF AllDone
    <3>2. \A t \in Target : home'[t] = home[t] /\ aside'[t] = Absent
      BY <1>0, <2>8
    <3>3. JournalOK(was, into)'
      BY <2>1, <2>2, <2>4, <3>1, <3>2 DEF JournalOK, Original
    <3>4. SwapOK(was, into)'
      <4>1. Staged' = Staged
        BY <1>0 DEF Staged
      <4>2. work'.at = "aside" /\ work'.i = 1 /\ work'.j = j /\ journal' = j
        BY <2>1, <2>7
      <4>3. \A t \in Target : j[t].staged => into[t] = Staged'[t] /\ ~j[t].done
        BY <2>2, <2>4, <4>1
      <4>4. \A t \in Target : t >= 1 /\ ~(t < 1)
        BY DEF Target
      <4> QED BY <2>2, <3>2, <4>2, <4>3, <4>4 DEF SwapOK, Original
    <3>5. RecoveryOK(was, into)'
      BY <2>1, <2>7 DEF RecoveryOK
    <3>6. saved' = {was, into}
      BY <2>1
    <3> QED BY <3>3, <3>4, <3>5, <3>6 DEF MidSwap
  <2>10. journal' # NoJournal
    BY <2>1, <2>2, JournalExists
  <2>11. RestoreType' /\ Ordered' /\ ArchiveOK'
    <3>1. RestoreType'
      BY <1>0, <2>1, <2>2, <2>7 DEF RestoreType
    <3>2. Ordered'
      BY <2>1, <2>2, <2>7, <2>10 DEF Ordered, Target
    <3>3. ArchiveOK'
      BY <1>0, <2>1, <2>7 DEF RestoreInv, ArchiveOK, ManifestHonest
    <3> QED BY <3>1, <3>2, <3>3
  <2>12. saved' \subseteq Dir /\ \A s \in saved' : Whole(s)
    BY <1>0, <2>1, <2>5, <2>6
  <2>13. SwapAtomic' /\ was \in saved' /\ into \in saved'
    BY <2>1, <2>10 DEF SwapAtomic
  <2> QED BY <1>0, <2>9, <2>11, <2>12, <2>13 DEF RestoreInv
<1> QED
  BY <1>1, <1>2

\* What a swap step starts from.
LEMMA SwapFacts ==
    ASSUME RestoreInv, work.at \in Swapping
    PROVE  /\ work \in WorkType /\ work.j \in Record /\ journal \in Record /\ work.i \in Target /\ home \in Dir /\ aside \in Dir
           /\ \E was, new \in saved : was \in Dir /\ new \in Dir /\ MidSwap(was, new)
<1>1. journal # NoJournal /\ work.j \in Record /\ work.i \in Target
  BY DEF RestoreInv, Ordered
<1> QED
  BY <1>1 DEF RestoreInv, RestoreType

\* moveAside: the next target moves, or has nothing to move.
LEMMA AsideKeeps == ASSUME RestoreInv, moveAside PROVE RestoreInv'
<1> USE DEF Swapping
<1>0. /\ work.at = "aside" /\ UNCHANGED <<saved, journal, tar>>
      /\ work \in WorkType /\ work.j \in Record /\ journal \in Record /\ work.i \in Target /\ home \in Dir /\ aside \in Dir
  BY SwapFacts DEF moveAside
<1> PICK i \in Target : i = work.i
  BY <1>0
<1> PICK was \in saved, new \in saved : was \in Dir /\ new \in Dir /\ MidSwap(was, new)
  BY <1>0, SwapFacts
<1>1. JournalOK(was, new) /\ SwapOK(was, new) /\ saved = {was, new}
  BY DEF MidSwap
<1>2. \A t \in Target : /\ ~journal[t].back
                        /\ journal[t].staged => ~journal[t].done
                        /\ (journal[t].staged /\ t < i) => Moved(was, t)
                        /\ (journal[t].staged /\ t >= i) => Original(was, t)
                        /\ journal[t].existed <=> was[t] # Absent
                        /\ work.j[t].staged = journal[t].staged /\ work.j[t].existed = journal[t].existed
  <2>1. \A t \in Target : t < i \/ t >= i
    BY DEF Target
  <2> QED BY <1>0, <1>1, <2>1 DEF SwapOK, JournalOK
<1>3. /\ home' \in Dir /\ aside' \in Dir /\ \A t \in Target : t # i => home'[t] = home[t] /\ aside'[t] = aside[t]
      /\ journal[i].staged => Moved(was, i)'
      /\ ~journal[i].staged => home'[i] = home[i] /\ aside'[i] = aside[i]
  <2>1. journal[i].staged => home[i] = was[i] /\ aside[i] = Absent
    <3>1. i >= i
      BY DEF Target
    <3> QED BY <1>2, <3>1 DEF Original
  <2>2. CASE work.j[i].staged /\ work.j[i].existed
    <3>1. aside' = [aside EXCEPT ![i] = home[i]] /\ home' = [home EXCEPT ![i] = Absent]
      BY <2>2 DEF moveAside
    <3>2. home'[i] = Absent /\ aside'[i] = home[i] /\ home' \in Dir /\ aside' \in Dir
      BY <1>0, <3>1, Idling DEF Dir
    <3>3. journal[i].staged
      BY <1>2, <2>2, Zenon
    <3> QED BY <1>0, <2>1, <3>1, <3>2, <3>3 DEF Dir, Moved
  <2>3. CASE ~(work.j[i].staged /\ work.j[i].existed)
    <3>1. aside' = aside /\ home' = home
      BY <2>3 DEF moveAside
    <3>2. journal[i].staged => was[i] = Absent
      BY <1>2, <2>3
    <3> QED BY <1>0, <2>1, <3>1, <3>2 DEF Moved
  <2> QED BY <2>2, <2>3
<1>4. /\ work' \in WorkType /\ work'.j = work.j
      /\ i = 4 => work'.at = "promote" /\ work'.i = 1
      /\ i # 4 => work'.at = "aside" /\ work'.i = i + 1
  <2>1. CASE i = 4
    <3>1. work' = [work EXCEPT !.at = "promote", !.i = 1]
      BY <2>1 DEF moveAside
    <3> QED BY <1>0, <2>1, <3>1 DEF WorkType
  <2>2. CASE i # 4
    <3>1. work' = [work EXCEPT !.i = i + 1] /\ i + 1 \in Nat
      BY <1>0, <2>2 DEF moveAside, WorkType
    <3> QED BY <1>0, <2>2, <3>1 DEF WorkType
  <2> QED BY <2>1, <2>2
<1>5. Ordered'
  <2>1. work'.at \in Swapping /\ work'.i \in Target
    BY <1>0, <1>4 DEF Target
  <2> QED BY <1>0, <1>4, <2>1, JournalExists DEF Ordered, BackingUp
<1>6. \A t \in Target : journal[t].staged => ~AllDone(journal)
  BY <1>2 DEF AllDone
<1>7. \A t \in Target : /\ (journal[t].staged /\ t <= i) => Moved(was, t)'
                        /\ (journal[t].staged /\ t > i) => Original(was, t)'
                        /\ ~journal[t].staged => Original(was, t)'
  <2> TAKE t \in Target
  <2>0. t < i \/ t = i \/ t > i
    BY DEF Target
  <2>1. ~journal[t].staged => Original(was, t)
    BY <1>1 DEF JournalOK
  <2>2. CASE t = i
    BY <1>3, <2>1, <2>2 DEF Original, Target
  <2>3. CASE t # i
    <3>1. home'[t] = home[t] /\ aside'[t] = aside[t] /\ ((t <= i) => (t < i)) /\ ((t > i) => (t >= i))
      BY <1>3, <2>3 DEF Target
    <3> QED BY <1>2, <2>1, <3>1 DEF Original, Moved
  <2> QED BY <2>2, <2>3
<1>8. JournalOK(was, new)'
  <2> SUFFICES ASSUME NEW t \in Target
               PROVE  /\ ~journal[t].staged => Original(was, t)'
                      /\ (Original(was, t) \/ Moved(was, t) \/ Promoted(was, new, t))'
    BY <1>0, <1>1, <1>2, <1>6 DEF JournalOK
  <2>1. t <= i \/ t > i
    BY DEF Target
  <2> QED BY <1>7, <2>1
<1>9. SwapOK(was, new)'
  <2>1. Staged' = Staged /\ work'.at # "done" /\ work'.at \in {"aside", "promote"} /\ work'.j = work.j /\ journal' = journal
    BY <1>0, <1>4 DEF Staged
  <2>2. \A t \in Target : ~work.j[t].back /\ (work.j[t].done <=> journal[t].done) /\ (journal[t].staged => new[t] = Staged[t])
    BY <1>0, <1>1 DEF SwapOK
  <2>3. CASE i = 4
    <3>1. \A t \in Target : t <= i /\ ~(t < work'.i) /\ work'.at = "promote"
      BY <1>4, <2>3 DEF Target
    <3> QED BY <1>2, <1>7, <2>1, <2>2, <3>1 DEF SwapOK
  <2>4. CASE i # 4
    <3>1. work'.at = "aside" /\ \A t \in Target : (t < work'.i => t <= i) /\ (t >= work'.i => t > i)
      BY <1>4, <2>4 DEF Target
    <3> QED BY <1>2, <1>7, <2>1, <2>2, <3>1 DEF SwapOK
  <2> QED BY <2>3, <2>4
<1>10. RecoveryOK(was, new)'
  BY <1>0, <1>4 DEF RecoveryOK, Reversing, Closing
<1>11. MidSwap(was, new)'
  BY <1>0, <1>1, <1>8, <1>9, <1>10 DEF MidSwap
<1> QED
  BY <1>0, <1>3, <1>4, <1>5, <1>11, InsideKeeps

MarkedDone(r, i) == [r EXCEPT ![i].done = TRUE]
MarkedBack(r, i) == [r EXCEPT ![i].back = TRUE]

\* A target is marked as promoted: the rest of the journal stays.
LEMMA MarkDone ==
    ASSUME NEW r \in Record, NEW i \in Target
    PROVE  LET j == MarkedDone(r, i) IN
           j \in Record /\ \A t \in Target : /\ j[t].staged = r[t].staged /\ j[t].existed = r[t].existed
                                             /\ j[t].back = r[t].back /\ (j[t].done <=> (r[t].done \/ t = i))
<1> DEFINE e == [r[i] EXCEPT !.done = TRUE]
           j == MarkedDone(r, i)
<1>1. /\ e \in [staged : BOOLEAN, existed : BOOLEAN, done : BOOLEAN, back : BOOLEAN]
      /\ e.staged = r[i].staged /\ e.existed = r[i].existed /\ e.back = r[i].back /\ e.done = TRUE
  BY DEF Record
<1>2. j = [r EXCEPT ![i] = e]
  BY DEF MarkedDone
<1> HIDE DEF e, j
<1>3. j \in Record /\ j[i] = e /\ \A t \in Target : t # i => j[t] = r[t]
  BY <1>1, <1>2 DEF Record
<1>4. ASSUME NEW t \in Target PROVE /\ j[t].staged = r[t].staged /\ j[t].existed = r[t].existed
                                    /\ j[t].back = r[t].back /\ (j[t].done <=> (r[t].done \/ t = i))
  <2>1. CASE t = i
    BY <1>1, <1>3, <2>1
  <2>2. CASE t # i
    BY <1>3, <2>2
  <2> QED BY <2>1, <2>2
<1> QED
  BY <1>3, <1>4 DEF j

\* The same, of a target that is put back.
LEMMA MarkBack ==
    ASSUME NEW r \in Record, NEW i \in Target
    PROVE  LET j == MarkedBack(r, i) IN
           j \in Record /\ \A t \in Target : /\ j[t].staged = r[t].staged /\ j[t].existed = r[t].existed
                                             /\ j[t].done = r[t].done /\ (j[t].back <=> (r[t].back \/ t = i))
<1> DEFINE e == [r[i] EXCEPT !.back = TRUE]
           j == MarkedBack(r, i)
<1>1. /\ e \in [staged : BOOLEAN, existed : BOOLEAN, done : BOOLEAN, back : BOOLEAN]
      /\ e.staged = r[i].staged /\ e.existed = r[i].existed /\ e.done = r[i].done /\ e.back = TRUE
  BY DEF Record
<1>2. j = [r EXCEPT ![i] = e]
  BY DEF MarkedBack
<1> HIDE DEF e, j
<1>3. j \in Record /\ j[i] = e /\ \A t \in Target : t # i => j[t] = r[t]
  BY <1>1, <1>2 DEF Record
<1>4. ASSUME NEW t \in Target PROVE /\ j[t].staged = r[t].staged /\ j[t].existed = r[t].existed
                                    /\ j[t].done = r[t].done /\ (j[t].back <=> (r[t].back \/ t = i))
  <2>1. CASE t = i
    BY <1>1, <1>3, <2>1
  <2>2. CASE t # i
    BY <1>3, <2>2
  <2> QED BY <2>1, <2>2
<1> QED
  BY <1>3, <1>4 DEF j

\* promoteAllTargets: the next staged target is renamed into place, or there is none.
LEMMA PromoteKeeps == ASSUME RestoreInv, promoteAllTargets PROVE RestoreInv'
<1> USE DEF Swapping
<1>0. /\ work.at = "promote" /\ UNCHANGED <<aside, saved, journal, tar>>
      /\ work \in WorkType /\ work.j \in Record /\ journal \in Record /\ work.i \in Target /\ home \in Dir /\ aside \in Dir
  BY SwapFacts DEF promoteAllTargets
<1> PICK i \in Target : i = work.i
  BY <1>0
<1> PICK was \in saved, new \in saved : was \in Dir /\ new \in Dir /\ MidSwap(was, new)
  BY <1>0, SwapFacts
<1>1. JournalOK(was, new) /\ SwapOK(was, new) /\ saved = {was, new}
  BY DEF MidSwap
<1>2. \A t \in Target : /\ ~journal[t].back /\ ~work.j[t].back
                        /\ work.j[t].staged = journal[t].staged /\ work.j[t].existed = journal[t].existed
                        /\ (work.j[t].done <=> journal[t].done)
                        /\ (journal[t].staged => new[t] = Staged[t])
                        /\ ((journal[t].staged /\ t < i) => Promoted(was, new, t))
                        /\ ((journal[t].staged /\ t >= i) => Moved(was, t) /\ ~journal[t].done)
  BY <1>0, <1>1 DEF SwapOK
<1>3. Staged' = Staged /\ Staged \in Dir
  BY <1>0, StagedType DEF Staged, RestoreInv
<1>4. \A t \in Target : t < i \/ t = i \/ t > i
  BY DEF Target
<1>5. CASE journal[i].staged
  <2>0. work.j[i].staged
    BY <1>2, <1>5, Zenon
  <2>1. home' = [home EXCEPT ![i] = Staged[i]] /\ work' = [work EXCEPT !.at = "done", !.j[i].done = TRUE]
    BY <2>0 DEF promoteAllTargets
  <2>2. home' \in Dir /\ home'[i] = new[i] /\ \A t \in Target : t # i => home'[t] = home[t]
    BY <1>0, <1>2, <1>3, <1>5, <2>1 DEF Dir
  <2>3. /\ work'.j \in Record /\ work'.at = "done" /\ work'.i = i /\ work' \in WorkType
        /\ \A t \in Target : /\ work'.j[t].staged = work.j[t].staged /\ work'.j[t].existed = work.j[t].existed
                             /\ work'.j[t].back = work.j[t].back /\ (work'.j[t].done <=> (work.j[t].done \/ t = i))
    <3> DEFINE j == MarkedDone(work.j, i)
    <3>1. work'.j = j /\ work'.at = "done" /\ work'.i = i
      BY <1>0, <2>1 DEF WorkType, MarkedDone
    <3>2. j \in Record /\ \A t \in Target : /\ j[t].staged = work.j[t].staged /\ j[t].existed = work.j[t].existed
                             /\ j[t].back = work.j[t].back /\ (j[t].done <=> (work.j[t].done \/ t = i))
      BY <1>0, MarkDone
    <3>3. work' = [work EXCEPT !.at = "done", !.j = j]
      BY <1>0, <2>1 DEF WorkType, MarkedDone
    <3> HIDE DEF j
    <3>4. work' \in WorkType
      BY <1>0, <3>2, <3>3 DEF WorkType
    <3> QED BY <3>1, <3>2, <3>4
  <2>4. i >= i /\ ~AllDone(journal)
    <3>1. i >= i
      BY DEF Target
    <3> QED BY <1>2, <1>5, <3>1 DEF AllDone
  <2>5. \A t \in Target : /\ (~journal[t].staged => Original(was, t)')
                          /\ ((journal[t].staged /\ t <= i) => Promoted(was, new, t)')
                          /\ ((journal[t].staged /\ t > i) => Moved(was, t)' /\ ~journal[t].done)
    <3> TAKE t \in Target
    <3>1. ~journal[t].staged => Original(was, t)
      BY <1>1 DEF JournalOK
    <3>2. CASE t = i
      <4>1. Promoted(was, new, t)'
        BY <1>0, <1>2, <1>5, <2>2, <2>4, <3>2 DEF Promoted, Moved
      <4> QED BY <1>5, <3>2, <4>1 DEF Target
    <3>3. CASE t # i
      <4>1. home'[t] = home[t] /\ aside'[t] = aside[t] /\ ((t <= i) => (t < i)) /\ ((t > i) => (t >= i))
        BY <1>0, <2>2, <3>3 DEF Target
      <4> QED BY <1>2, <3>1, <4>1 DEF Promoted, Moved, Original
    <3> QED BY <3>2, <3>3
  <2>6. JournalOK(was, new)'
    <3>1. \A t \in Target : Original(was, t)' \/ Moved(was, t)' \/ Promoted(was, new, t)'
      <4> TAKE t \in Target
      <4>1. t <= i \/ t > i
        BY DEF Target
      <4> QED BY <2>5, <4>1
    <3> QED BY <1>0, <1>1, <1>2, <2>4, <2>5, <3>1 DEF JournalOK
  <2>7. SwapOK(was, new)'
    <3>1. \A t \in Target : /\ (journal'[t].staged => new[t] = Staged'[t]) /\ ~journal'[t].back /\ ~work'.j[t].back
                            /\ work'.j[t].staged = journal'[t].staged /\ work'.j[t].existed = journal'[t].existed
                            /\ (work'.j[t].done <=> (journal'[t].done \/ t = work'.i))
      BY <1>0, <1>2, <1>3, <2>3
    <3>2. \A t \in Target : (t < i => t <= i) /\ (t = i => t <= i)
      BY DEF Target
    <3>3. ~journal[i].done
      BY <1>2, <1>5, <2>4
    <3> QED BY <1>0, <1>5, <2>3, <2>5, <3>1, <3>2, <3>3 DEF SwapOK
  <2>8. RecoveryOK(was, new)' /\ Ordered'
    BY <1>0, <2>3, JournalExists DEF RecoveryOK, Reversing, Closing, Ordered, BackingUp
  <2>9. MidSwap(was, new)'
    BY <1>0, <1>1, <2>6, <2>7, <2>8 DEF MidSwap
  <2> QED BY <1>0, <2>2, <2>3, <2>8, <2>9, InsideKeeps
<1>6. CASE ~journal[i].staged
  <2>0. ~work.j[i].staged
    BY <1>2, <1>6, Zenon
  <2>1. UNCHANGED home /\ work' = NextTarget
    BY <2>0 DEF promoteAllTargets
  <2>2. JournalOK(was, new)'
    BY <1>0, <1>1, <2>1 DEF JournalOK, Original, Moved, Promoted
  <2>3. CASE i = 4
    <3>1. work' = [work EXCEPT !.at = "check"]
      BY <2>1, <2>3 DEF NextTarget
    <3>2. work' \in WorkType /\ work'.at = "check"
      BY <1>0, <3>1 DEF WorkType
    <3>3. SwapOK(was, new)' /\ RecoveryOK(was, new)' /\ Ordered'
      BY <1>0, <3>2, JournalExists DEF SwapOK, RecoveryOK, Reversing, Closing, Ordered, BackingUp
    <3>4. MidSwap(was, new)'
      BY <1>0, <1>1, <2>2, <3>3 DEF MidSwap
    <3> QED BY <1>0, <2>1, <3>2, <3>3, <3>4, InsideKeeps
  <2>4. CASE i # 4
    <3>1. work' = [work EXCEPT !.at = "promote", !.i = i + 1] /\ i + 1 \in Target
      BY <2>1, <2>4 DEF NextTarget, Target
    <3>2. work' \in WorkType /\ work'.at = "promote" /\ work'.i = i + 1 /\ work'.j = work.j
      <4>1. i + 1 \in Nat
        BY DEF Target
      <4> QED BY <1>0, <3>1, <4>1 DEF WorkType
    <3>3. Ordered' /\ RecoveryOK(was, new)'
      BY <1>0, <3>1, <3>2, JournalExists DEF RecoveryOK, Reversing, Closing, Ordered, BackingUp
    <3>4. SwapOK(was, new)'
      <4>1. \A t \in Target : journal[t].staged => (t < i + 1 => t < i) /\ (t >= i + 1 => t >= i)
        <5> TAKE t \in Target
        <5>1. CASE t = i
          BY <1>6, <5>1
        <5>2. CASE t # i
          BY <5>2 DEF Target
        <5> QED BY <5>1, <5>2
      <4>2. \A t \in Target : (Promoted(was, new, t) => Promoted(was, new, t)') /\ (Moved(was, t) => Moved(was, t)')
        BY <1>0, <2>1 DEF Promoted, Moved
      <4> QED BY <1>0, <1>2, <1>3, <3>2, <4>1, <4>2 DEF SwapOK
    <3>5. MidSwap(was, new)'
      BY <1>0, <1>1, <2>2, <3>3, <3>4 DEF MidSwap
    <3> QED BY <1>0, <2>1, <3>2, <3>3, <3>5, InsideKeeps
  <2> QED BY <2>3, <2>4
<1> QED
  BY <1>5, <1>6

\* The promotion on record is the one that has happened: whatever the record says
\* of the targets, the disk bears out.
LEMMA RecordedOK ==
    ASSUME RestoreInv, work.at = "done", NEW was \in saved, NEW new \in saved, MidSwap(was, new),
           journal' \in {journal, work.j}, UNCHANGED <<home, aside>>
    PROVE  JournalOK(was, new)' /\ journal' \in Record
<1>0. work.j \in Record /\ journal \in Record /\ work.i \in Target
  BY SwapFacts DEF Swapping
<1> PICK i \in Target : i = work.i
  BY <1>0
<1>1. JournalOK(was, new) /\ SwapOK(was, new)
  BY DEF MidSwap
<1>2. \A t \in Target : /\ (Original(was, t) => Original(was, t)') /\ (Moved(was, t) => Moved(was, t)')
                        /\ (Promoted(was, new, t) => Promoted(was, new, t)')
  BY DEF Original, Moved, Promoted
<1>3. CASE journal' = journal
  BY <1>0, <1>1, <1>3 DEF JournalOK, Original, Moved, Promoted
<1>4. CASE journal' = work.j
  <2>1. \A t \in Target : /\ ~work.j[t].back /\ work.j[t].staged = journal[t].staged /\ work.j[t].existed = journal[t].existed
                          /\ (work.j[t].done <=> (journal[t].done \/ t = i))
                          /\ ((journal[t].staged /\ t <= i) => Promoted(was, new, t))
                          /\ ((journal[t].staged /\ t > i) => Moved(was, t) /\ ~journal[t].done)
    <3>1. \A t \in Target : t <= i => t < i \/ t = i
      BY DEF Target
    <3> QED BY <1>1, <3>1 DEF SwapOK, Swapping
  <2>2. \A t \in Target : t <= i \/ (t > i /\ t # i)
    BY DEF Target
  <2>3. \A t \in Target : (AllDone(work.j) /\ work.j[t].staged) => Promoted(was, new, t)
    BY <2>1, <2>2 DEF AllDone
  <2>4. \A t \in Target : ~work.j[t].staged => work.j[t].done /\ new[t] = was[t] /\ Original(was, t)
    BY <1>1, <2>1 DEF JournalOK
  <2>5. \A t \in Target : Original(was, t) \/ Moved(was, t) \/ Promoted(was, new, t)
    BY <2>1, <2>2, <2>4
  <2>6. \A t \in Target : (work.j[t].existed <=> was[t] # Absent) /\ (work.j[t].staged => new[t] # Absent)
    BY <1>1, <2>1 DEF JournalOK
  <2>7. AllDone(journal)' = AllDone(work.j)
    BY <1>4 DEF AllDone
  <2>8. \A t \in Target : (AllDone(work.j) /\ work.j[t].staged) => home'[t] = new[t] /\ aside'[t] = was[t]
    BY <2>3 DEF Promoted
  <2> QED BY <1>0, <1>2, <1>4, <2>1, <2>4, <2>5, <2>6, <2>7, <2>8 DEF JournalOK
<1> QED
  BY <1>0, <1>3, <1>4

\* writeRestoreJournal: the promotion of the target is on record.
LEMMA JournalKeeps == ASSUME RestoreInv, writeRestoreJournal PROVE RestoreInv'
<1> USE DEF Swapping
<1>0. /\ work.at = "done" /\ UNCHANGED <<home, aside, saved, tar>> /\ journal' = work.j /\ work' = NextTarget
      /\ work \in WorkType /\ work.j \in Record /\ journal \in Record /\ work.i \in Target /\ home \in Dir /\ aside \in Dir
  BY SwapFacts DEF writeRestoreJournal, swapped
<1> PICK i \in Target : i = work.i
  BY <1>0
<1> PICK was \in saved, new \in saved : was \in Dir /\ new \in Dir /\ MidSwap(was, new)
  BY <1>0, SwapFacts
<1>1. JournalOK(was, new) /\ SwapOK(was, new) /\ saved = {was, new}
  BY DEF MidSwap
<1>2. JournalOK(was, new)'
  BY <1>0, RecordedOK
<1>3. CASE i = 4
  <2>1. work' = [work EXCEPT !.at = "check"]
    BY <1>0, <1>3 DEF NextTarget
  <2>2. work' \in WorkType /\ work'.at = "check"
    BY <1>0, <2>1 DEF WorkType
  <2>3. SwapOK(was, new)' /\ RecoveryOK(was, new)' /\ Ordered'
    BY <1>0, <2>2, JournalExists DEF SwapOK, RecoveryOK, Reversing, Closing, Ordered, BackingUp
  <2>4. MidSwap(was, new)'
    BY <1>0, <1>1, <1>2, <2>3 DEF MidSwap
  <2> QED BY <1>0, <2>2, <2>3, <2>4, InsideKeeps
<1>4. CASE i # 4
  <2>1. work' = [work EXCEPT !.at = "promote", !.i = i + 1] /\ i + 1 \in Target
    BY <1>0, <1>4 DEF NextTarget, Target
  <2>2. work' \in WorkType /\ work'.at = "promote" /\ work'.i = i + 1 /\ work'.j = work.j
    <3>1. i + 1 \in Nat
      BY DEF Target
    <3> QED BY <1>0, <2>1, <3>1 DEF WorkType
  <2>3. Ordered' /\ RecoveryOK(was, new)'
    BY <1>0, <2>1, <2>2, JournalExists DEF RecoveryOK, Reversing, Closing, Ordered, BackingUp
  <2>4. SwapOK(was, new)'
    <3>1. \A t \in Target : (t < i + 1 => t < i \/ t = i) /\ (t >= i + 1 => t > i /\ t # i)
      BY DEF Target
    <3>2. \A t \in Target : (Promoted(was, new, t) => Promoted(was, new, t)') /\ (Moved(was, t) => Moved(was, t)')
      BY <1>0 DEF Promoted, Moved
    <3>3. Staged' = Staged
      BY <1>0 DEF Staged
    <3>4. \A t \in Target : /\ ~work.j[t].back /\ work.j[t].staged = journal[t].staged
                            /\ (work.j[t].done <=> (journal[t].done \/ t = i))
                            /\ (journal[t].staged => new[t] = Staged[t])
                            /\ ((journal[t].staged /\ t < i) => Promoted(was, new, t))
                            /\ ((journal[t].staged /\ t = i) => Promoted(was, new, t))
                            /\ ((journal[t].staged /\ t > i) => Moved(was, t) /\ ~journal[t].done)
      BY <1>0, <1>1 DEF SwapOK
    <3>5. \A t \in Target : /\ ((work.j[t].staged /\ t < i + 1) => Promoted(was, new, t)')
                            /\ ((work.j[t].staged /\ t >= i + 1) => Moved(was, t)' /\ ~work.j[t].done)
      BY <3>1, <3>2, <3>4
    <3> QED BY <1>0, <2>2, <3>3, <3>4, <3>5 DEF SwapOK
  <2>5. MidSwap(was, new)'
    BY <1>0, <1>1, <1>2, <2>3, <2>4 DEF MidSwap
  <2> QED BY <1>0, <2>2, <2>3, <2>5, InsideKeeps
<1> QED
  BY <1>3, <1>4

\* A failed rename or journal write: recovery starts from whatever was published.
LEMMA FailKeeps == ASSUME RestoreInv, promotionFails PROVE RestoreInv'
<1> USE DEF Swapping
<1>0. /\ work.at \in Swapping /\ UNCHANGED <<home, aside, saved, tar>> /\ work' = [work EXCEPT !.at = "check"]
      /\ work \in WorkType /\ work.j \in Record /\ journal \in Record /\ work.i \in Target /\ home \in Dir /\ aside \in Dir
  BY SwapFacts DEF promotionFails, swapped, At
<1> PICK was \in saved, new \in saved : was \in Dir /\ new \in Dir /\ MidSwap(was, new)
  BY <1>0, SwapFacts
<1>1. JournalOK(was, new) /\ saved = {was, new}
  BY DEF MidSwap
<1>2. JournalOK(was, new)' /\ journal' \in Record
  <2>1. CASE work.at = "done"
    <3>1. journal' \in {journal, work.j}
      BY <2>1 DEF promotionFails
    <3> QED BY <1>0, <2>1, <3>1, RecordedOK
  <2>2. CASE work.at # "done"
    <3>1. journal' = journal
      BY <2>2 DEF promotionFails
    <3> QED BY <1>0, <1>1, <3>1 DEF JournalOK, Original, Moved, Promoted
  <2> QED BY <2>1, <2>2
<1>3. work' \in WorkType /\ work'.at = "check"
  BY <1>0 DEF WorkType
<1>4. SwapOK(was, new)' /\ RecoveryOK(was, new)' /\ Ordered'
  BY <1>0, <1>2, <1>3, JournalExists DEF SwapOK, RecoveryOK, Reversing, Closing, Ordered, BackingUp
<1>5. MidSwap(was, new)'
  BY <1>0, <1>1, <1>2, <1>4 DEF MidSwap
<1> QED
  BY <1>0, <1>2, <1>3, <1>4, <1>5, InsideKeeps

\* What a recovery step starts from.
LEMMA RecoveryFacts ==
    ASSUME RestoreInv, work.at \in Reversing \cup Closing \cup {"check"}
    PROVE  /\ work \in WorkType /\ journal \in Record /\ home \in Dir /\ aside \in Dir
           /\ work.at # "check" => work.j \in Record
           /\ work.at \in Reversing => work.i \in Target
           /\ \E was, new \in saved : was \in Dir /\ new \in Dir /\ MidSwap(was, new)
<1>1. journal # NoJournal /\ (work.at # "check" => work.j \in Record) /\ (work.at \in Reversing => work.i \in Target)
  BY DEF RestoreInv, Ordered
<1> QED
  BY <1>1 DEF RestoreInv, RestoreType

\* recoverRestoreJournal reads the journal: it closes the swap, reverses it, or
\* touches nothing.
LEMMA CheckKeeps == ASSUME RestoreInv, checkJournal PROVE RestoreInv'
<1> USE DEF Reversing, Closing
<1>0. /\ work.at = "check" /\ UNCHANGED <<home, aside, saved, journal, tar>>
      /\ work \in WorkType /\ journal \in Record /\ home \in Dir /\ aside \in Dir
  BY RecoveryFacts DEF checkJournal, swapped
<1> PICK was \in saved, new \in saved : was \in Dir /\ new \in Dir /\ MidSwap(was, new)
  BY <1>0, RecoveryFacts
<1>1. JournalOK(was, new) /\ saved = {was, new}
  BY DEF MidSwap
<1>2. /\ work' \in WorkType
      /\ \/ work'.at = "idle"
         \/ work'.at = "sweep" /\ AllDone(journal) /\ work'.j = journal
         \/ work'.at = "reverse" /\ ~AllDone(journal) /\ work'.j = journal /\ work'.i = 4
  <2>1. CASE ~Sound(journal)
    <3>1. work' = NoWork
      BY <2>1 DEF checkJournal
    <3> QED BY <3>1, Idling
  <2>2. CASE Sound(journal) /\ AllDone(journal)
    <3>1. work' = [work EXCEPT !.at = "sweep", !.j = journal]
      BY <2>2 DEF checkJournal
    <3> QED BY <1>0, <2>2, <3>1 DEF WorkType
  <2>3. CASE Sound(journal) /\ ~AllDone(journal)
    <3>1. work' = [work EXCEPT !.at = "reverse", !.i = 4, !.j = journal, !.bad = FALSE]
      BY <2>3 DEF checkJournal
    <3> QED BY <1>0, <2>3, <3>1 DEF WorkType
  <2> QED BY <2>1, <2>2, <2>3
<1>3. JournalOK(was, new)'
  BY <1>0, <1>1 DEF JournalOK, Original, Moved, Promoted
<1>4. RecoveryOK(was, new)'
  <2>1. AllDone(journal)' = AllDone(journal)
    BY <1>0 DEF AllDone
  <2>2. \A t \in Target : (journal[t].back => Original(was, t)') /\ ~(t > 4)
    BY <1>0, <1>1 DEF JournalOK, Original, Target
  <2> QED BY <1>0, <1>2, <2>1, <2>2 DEF RecoveryOK
<1>5. Ordered' /\ SwapOK(was, new)'
  BY <1>0, <1>2, JournalExists DEF Ordered, SwapOK, Swapping, BackingUp, Target
<1>6. MidSwap(was, new)'
  BY <1>0, <1>1, <1>3, <1>4, <1>5 DEF MidSwap
<1> QED
  BY <1>0, <1>2, <1>5, <1>6, InsideKeeps

\* A target is left behind: recovery goes on to the next, to the end, or gives up.
LEMMA OnwardKeeps ==
    ASSUME RestoreInv, NEW i \in Target, NEW w \in WorkType, w.i = i, w.j \in Record, work' = Onward(w),
           journal' \in Record, home' \in Dir, aside' \in Dir, UNCHANGED <<saved, tar>>,
           NEW was \in saved, NEW new \in saved, saved = {was, new},
           JournalOK(was, new)', ~AllDone(journal'),
           \A t \in Target : /\ w.j[t].staged = journal'[t].staged /\ w.j[t].existed = journal'[t].existed /\ w.j[t].done = journal'[t].done
                             /\ (journal'[t].back => w.j[t].back)
                             /\ (w.j[t].back => Original(was, t)')
                             /\ (t >= i => w.bad \/ Original(was, t)')
    PROVE  RestoreInv'
<1> USE DEF Reversing, Closing
<1>1. /\ work' \in WorkType /\ work'.j = w.j /\ work'.bad = w.bad
      /\ \/ work'.at = "giveup"
         \/ work'.at = "sweep" /\ i = 1 /\ ~w.bad
         \/ work'.at = "reverse" /\ i # 1 /\ work'.i = i - 1
  <2>1. CASE i = 1 /\ w.bad
    <3>1. work' = [w EXCEPT !.at = "giveup"]
      BY <2>1 DEF Onward
    <3> QED BY <2>1, <3>1 DEF WorkType
  <2>2. CASE i = 1 /\ ~w.bad
    <3>1. work' = [w EXCEPT !.at = "sweep"]
      BY <2>2 DEF Onward
    <3> QED BY <2>2, <3>1 DEF WorkType
  <2>3. CASE i # 1
    <3>1. work' = [w EXCEPT !.at = "reverse", !.i = i - 1] /\ i - 1 \in Nat
      BY <2>3 DEF Onward, Target
    <3> QED BY <2>3, <3>1 DEF WorkType
  <2> QED BY <2>1, <2>2, <2>3
<1>2. \A t \in Target : /\ ((work'.at = "reverse" /\ t > work'.i) => t >= i)
                        /\ (work'.at = "sweep" => t >= i)
                        /\ (work'.at = "reverse" => work'.i \in Target)
  BY <1>1 DEF Target
<1>3. RecoveryOK(was, new)'
  <2>1. \A t \in Target : /\ ((work'.at = "reverse" /\ t > work'.i) => work'.bad \/ Original(was, t)')
                          /\ (work'.at = "sweep" => Original(was, t)')
    BY <1>1, <1>2
  <2>2. ~AllDone(journal)'
    BY DEF AllDone
  <2> QED BY <1>1, <2>1, <2>2 DEF RecoveryOK
<1>4. Ordered' /\ SwapOK(was, new)'
  BY <1>1, <1>2, JournalExists DEF Ordered, SwapOK, Swapping, BackingUp, Target
<1>5. MidSwap(was, new)'
  BY <1>3, <1>4 DEF MidSwap
<1> QED
  BY <1>1, <1>4, <1>5, InsideKeeps

\* What a reversal knows of its target, and of those it has left behind.
LEMMA ReverseFacts ==
    ASSUME RestoreInv, work.at \in Reversing, NEW i \in Target, i = work.i,
           NEW was \in saved, NEW new \in saved, MidSwap(was, new)
    PROVE  /\ ~AllDone(journal)
           /\ \A t \in Target : /\ journal[t].existed <=> was[t] # Absent
                                /\ journal[t].staged => new[t] # Absent
                                /\ ~journal[t].staged => journal[t].done /\ new[t] = was[t] /\ Original(was, t)
                                /\ journal[t].back => Original(was, t)
                                /\ Original(was, t) \/ Moved(was, t) \/ Promoted(was, new, t)
                                /\ work.j[t].staged = journal[t].staged /\ work.j[t].existed = journal[t].existed
                                /\ work.j[t].done = journal[t].done
                                /\ journal[t].back => work.j[t].back
                                /\ work.j[t].back => Original(was, t)
                                /\ t > i => work.bad \/ Original(was, t)
           /\ work.at = "putback" => Moved(was, i) /\ journal[i].staged
           /\ work.at = "record" => Original(was, i)
<1>1. i \in Target
  OBVIOUS
<1> QED
  BY <1>1 DEF MidSwap, JournalOK, RecoveryOK

\* A step of a reversal that stays with its target: the target is put back, or
\* out of the way for its aside.
LEMMA ReversalKeeps ==
    ASSUME RestoreInv, work.at \in Reversing, NEW i \in Target, i = work.i,
           NEW was \in saved, NEW new \in saved, MidSwap(was, new), UNCHANGED <<saved, journal, tar>>,
           home' \in Dir, aside' \in Dir, \A t \in Target : t # i => home'[t] = home[t] /\ aside'[t] = aside[t],
           \/ work' = [work EXCEPT !.at = "putback"] /\ Moved(was, i)' /\ journal[i].staged /\ ~work.j[i].back
           \/ work' = [work EXCEPT !.at = "record"] /\ Original(was, i)'
    PROVE  RestoreInv'
<1> USE DEF Reversing
<1>0. work \in WorkType /\ work.j \in Record /\ journal \in Record
  BY RecoveryFacts
<1>1. /\ work' \in WorkType /\ work'.j = work.j /\ work'.bad = work.bad /\ work'.i = i
      /\ \/ work'.at = "putback" /\ Moved(was, i)' /\ journal[i].staged /\ ~work.j[i].back
         \/ work'.at = "record" /\ Original(was, i)'
  <2>1. CASE work' = [work EXCEPT !.at = "putback"] /\ Moved(was, i)' /\ journal[i].staged /\ ~work.j[i].back
    BY <1>0, <2>1 DEF WorkType
  <2>2. CASE work' = [work EXCEPT !.at = "record"] /\ Original(was, i)'
    BY <1>0, <2>2 DEF WorkType
  <2> QED BY <2>1, <2>2
<1>2. \A t \in Target : t # i => /\ Original(was, t)' = Original(was, t) /\ Moved(was, t)' = Moved(was, t)
                                 /\ Promoted(was, new, t)' = Promoted(was, new, t)
  BY DEF Original, Moved, Promoted
<1>3. ~AllDone(journal) /\ ~AllDone(journal)'
  BY ReverseFacts DEF AllDone
<1>4. journal[i].back => work.j[i].back
  BY ReverseFacts
<1>5. JournalOK(was, new)'
  <2> SUFFICES ASSUME NEW t \in Target
               PROVE  /\ ~journal[t].staged => Original(was, t)'
                      /\ journal[t].back => Original(was, t)'
                      /\ Original(was, t)' \/ Moved(was, t)' \/ Promoted(was, new, t)'
    BY <1>3, ReverseFacts DEF JournalOK
  <2>1. CASE t = i
    BY <1>1, <1>4, <2>1
  <2>2. CASE t # i
    BY <1>2, <2>2, ReverseFacts
  <2> QED BY <2>1, <2>2
<1>6. RecoveryOK(was, new)'
  <2> SUFFICES ASSUME NEW t \in Target
               PROVE  /\ work.j[t].back => Original(was, t)'
                      /\ t > i => work.bad \/ Original(was, t)'
    BY <1>1, <1>3, ReverseFacts DEF RecoveryOK, Closing
  <2>1. CASE t = i
    <3>1. ~(t > i)
      BY <2>1 DEF Target
    <3> QED BY <1>1, <2>1, <3>1
  <2>2. CASE t # i
    BY <1>2, <2>2, ReverseFacts
  <2> QED BY <2>1, <2>2
<1>7. Ordered' /\ SwapOK(was, new)'
  BY <1>0, <1>1, JournalExists DEF Ordered, SwapOK, Swapping, BackingUp, Closing
<1>8. MidSwap(was, new)'
  BY <1>5, <1>6, <1>7 DEF MidSwap
<1> QED
  BY <1>0, <1>1, <1>7, <1>8, InsideKeeps

\* removePromoted: what was promoted goes if there is an aside to put back, or if
\* nothing was there before; what recovery has put back already stays.
LEMMA RemoveKeeps == ASSUME RestoreInv, removePromoted PROVE RestoreInv'
<1> USE DEF Reversing
<1>0. /\ work.at = "reverse" /\ UNCHANGED <<aside, saved, journal, tar>>
      /\ work \in WorkType /\ work.j \in Record /\ journal \in Record /\ work.i \in Target /\ home \in Dir /\ aside \in Dir
  BY RecoveryFacts DEF removePromoted
<1> PICK i \in Target : i = work.i
  BY <1>0
<1> PICK was \in saved, new \in saved : was \in Dir /\ new \in Dir /\ MidSwap(was, new)
  BY <1>0, RecoveryFacts
<1>1. saved = {was, new}
  BY DEF MidSwap
<1> DEFINE e == work.j[i]
<1>2. CASE e.back
  <2>1. work' = Onward(work) /\ UNCHANGED home
    BY <1>2 DEF removePromoted
  <2> PICK w \in WorkType : w = work
    BY <1>0
  <2>2. \A t \in Target : Original(was, t)' = Original(was, t) /\ Moved(was, t)' = Moved(was, t) /\ Promoted(was, new, t)' = Promoted(was, new, t)
    BY <1>0, <2>1 DEF Original, Moved, Promoted
  <2>3. ~AllDone(journal) /\ AllDone(journal)' = AllDone(journal) /\ ~AllDone(journal')
    BY <1>0, ReverseFacts DEF AllDone
  <2>4. JournalOK(was, new)'
    BY <1>0, <2>2, <2>3, ReverseFacts DEF JournalOK
  <2>5. Original(was, i)
    BY <1>0, <1>2, ReverseFacts
  <2>6. \A t \in Target : t >= i => w.bad \/ Original(was, t)'
    <3> TAKE t \in Target
    <3>1. t >= i => t = i \/ t > i
      BY DEF Target
    <3> QED BY <1>0, <2>2, <2>5, <3>1, ReverseFacts
  <2>7. \A t \in Target : /\ w.j[t].staged = journal'[t].staged /\ w.j[t].existed = journal'[t].existed /\ w.j[t].done = journal'[t].done
                          /\ (journal'[t].back => w.j[t].back)
                          /\ (w.j[t].back => Original(was, t)')
    BY <1>0, <2>2, ReverseFacts
  <2>8. home' \in Dir /\ aside' \in Dir /\ journal' \in Record /\ w.i = i /\ w.j \in Record /\ work' = Onward(w)
    BY <1>0, <2>1
  <2> QED BY <1>0, <1>1, <2>3, <2>4, <2>6, <2>7, <2>8, OnwardKeeps
<1>3. CASE ~e.back /\ e.staged /\ e.existed /\ Here(aside, i)
  <2>1. home' = [home EXCEPT ![i] = Absent] /\ work' = [work EXCEPT !.at = "putback"]
    BY <1>3 DEF removePromoted, At
  <2>2. home' \in Dir /\ home'[i] = Absent /\ \A t \in Target : t # i => home'[t] = home[t]
    BY <1>0, <2>1, Idling DEF Dir
  <2>3. aside[i] = was[i]
    BY <1>0, <1>3, ReverseFacts DEF Here, Original, Moved, Promoted
  <2>4. journal[i].staged
    BY <1>0, <1>3, ReverseFacts, Zenon
  <2>5. Moved(was, i)'
    BY <1>0, <2>2, <2>3 DEF Moved
  <2> QED BY <1>0, <1>3, <2>1, <2>2, <2>4, <2>5, ReversalKeeps
<1>4. CASE ~e.back /\ e.staged /\ ~e.existed
  <2>1. home' = [home EXCEPT ![i] = Absent] /\ work' = [work EXCEPT !.at = "record"]
    BY <1>4 DEF removePromoted, At
  <2>2. home' \in Dir /\ home'[i] = Absent /\ \A t \in Target : t # i => home'[t] = home[t]
    BY <1>0, <2>1, Idling DEF Dir
  <2>3. ~journal[i].existed
    BY <1>0, <1>4, ReverseFacts, Zenon
  <2>4. was[i] = Absent /\ aside[i] = Absent
    BY <1>0, <2>3, ReverseFacts DEF Original, Moved, Promoted
  <2>5. Original(was, i)'
    BY <1>0, <2>2, <2>4 DEF Original
  <2> QED BY <1>0, <2>1, <2>2, <2>5, ReversalKeeps
<1>5. CASE ~e.back /\ ~(e.staged /\ e.existed /\ Here(aside, i)) /\ ~(e.staged /\ ~e.existed)
  <2>1. home' = home /\ work' = [work EXCEPT !.at = "record"]
    BY <1>5 DEF removePromoted, At
  <2>2. Original(was, i)
    <3>1. CASE ~journal[i].staged
      BY <1>0, <3>1, ReverseFacts
    <3>2. CASE journal[i].staged
      <4>1. e.staged /\ (e.existed => journal[i].existed)
        BY <1>0, <3>2, ReverseFacts, Zenon
      <4>2. ~Here(aside, i) /\ was[i] # Absent
        BY <1>0, <1>5, <4>1, ReverseFacts
      <4> QED BY <1>0, <4>2, ReverseFacts DEF Here, Original, Moved, Promoted
    <3> QED BY <3>1, <3>2
  <2>3. Original(was, i)'
    BY <1>0, <2>1, <2>2 DEF Original
  <2> QED BY <1>0, <2>1, <2>3, ReversalKeeps
<1> QED
  BY <1>2, <1>3, <1>4, <1>5

\* restoreAside: the aside is renamed back.
LEMMA PutBackKeeps == ASSUME RestoreInv, restoreAside PROVE RestoreInv'
<1> USE DEF Reversing
<1>0. /\ work.at = "putback" /\ UNCHANGED <<saved, journal, tar>> /\ work' = [work EXCEPT !.at = "record"]
      /\ work.i \in Target /\ home \in Dir /\ aside \in Dir
  BY RecoveryFacts DEF restoreAside, At
<1> PICK i \in Target : i = work.i
  BY <1>0
<1> PICK was \in saved, new \in saved : was \in Dir /\ new \in Dir /\ MidSwap(was, new)
  BY <1>0, RecoveryFacts
<1>1. home' = [home EXCEPT ![i] = aside[i]] /\ aside' = [aside EXCEPT ![i] = Absent]
  BY DEF restoreAside
<1>2. /\ home' \in Dir /\ aside' \in Dir /\ home'[i] = aside[i] /\ aside'[i] = Absent
      /\ \A t \in Target : t # i => home'[t] = home[t] /\ aside'[t] = aside[t]
  BY <1>0, <1>1, Idling DEF Dir
<1>3. aside[i] = was[i]
  BY <1>0, ReverseFacts DEF Moved
<1>4. Original(was, i)'
  BY <1>2, <1>3 DEF Original
<1> QED
  BY <1>0, <1>2, <1>4, ReversalKeeps

\* recordRollback: the journal says that the target is back, and it is.
LEMMA RecordKeeps == ASSUME RestoreInv, recordRollback PROVE RestoreInv'
<1> USE DEF Reversing
<1>0. /\ work.at = "record" /\ UNCHANGED <<home, aside, saved, tar>>
      /\ work \in WorkType /\ work.j \in Record /\ journal \in Record /\ work.i \in Target /\ home \in Dir /\ aside \in Dir
  BY RecoveryFacts DEF recordRollback, swapped
<1> PICK i \in Target : i = work.i
  BY <1>0
<1> PICK was \in saved, new \in saved : was \in Dir /\ new \in Dir /\ MidSwap(was, new)
  BY <1>0, RecoveryFacts
<1>r. /\ ~AllDone(journal)
      /\ \A t \in Target : /\ journal[t].existed <=> was[t] # Absent
                           /\ journal[t].staged => new[t] # Absent
                           /\ ~journal[t].staged => journal[t].done /\ new[t] = was[t] /\ Original(was, t)
                           /\ journal[t].back => Original(was, t)
                           /\ Original(was, t) \/ Moved(was, t) \/ Promoted(was, new, t)
                           /\ work.j[t].staged = journal[t].staged /\ work.j[t].existed = journal[t].existed
                           /\ work.j[t].done = journal[t].done
                           /\ journal[t].back => work.j[t].back
                           /\ work.j[t].back => Original(was, t)
                           /\ t > i => work.bad \/ Original(was, t)
      /\ work.at = "record" => Original(was, i)
  BY <1>0, ReverseFacts
<1> DEFINE k == MarkedBack(work.j, i)
<1>w. k \in Record /\ \A t \in Target : /\ k[t].staged = work.j[t].staged /\ k[t].existed = work.j[t].existed
                                      /\ k[t].done = work.j[t].done /\ (k[t].back <=> (work.j[t].back \/ t = i))
  BY <1>0, MarkBack
<1> HIDE DEF k
<1> PICK j \in Record : j = k
  BY <1>w
<1>1. \A t \in Target : /\ j[t].staged = work.j[t].staged /\ j[t].existed = work.j[t].existed
                        /\ j[t].done = work.j[t].done /\ (j[t].back <=> (work.j[t].back \/ t = i))
  BY <1>w
<1>2. journal' = j /\ work' = Onward([work EXCEPT !.j = j])
  BY DEF recordRollback, MarkedBack, k
<1> DEFINE v == [work EXCEPT !.j = j]
<1>3. v \in WorkType /\ v.i = i /\ v.j = j /\ v.bad = work.bad
  BY <1>0 DEF WorkType
<1> HIDE DEF v
<1> PICK w \in WorkType : w = v
  BY <1>3
<1>4. \A t \in Target : Original(was, t)' = Original(was, t) /\ Moved(was, t)' = Moved(was, t) /\ Promoted(was, new, t)' = Promoted(was, new, t)
  BY <1>0 DEF Original, Moved, Promoted
<1>5. \A t \in Target : j[t].back => Original(was, t)
  BY <1>0, <1>1, <1>r
<1>6. ~AllDone(j) /\ AllDone(journal)' = AllDone(j) /\ ~AllDone(journal')
  BY <1>0, <1>1, <1>2, <1>r DEF AllDone
<1>7. JournalOK(was, new)'
  <2>1. \A t \in Target : /\ j[t].staged = journal[t].staged /\ j[t].existed = journal[t].existed /\ j[t].done = journal[t].done
    BY <1>0, <1>1, <1>r
  <2>2. \A t \in Target : /\ j[t].existed <=> was[t] # Absent
                          /\ j[t].staged => new[t] # Absent
                          /\ ~j[t].staged => j[t].done /\ new[t] = was[t] /\ Original(was, t)
                          /\ Original(was, t) \/ Moved(was, t) \/ Promoted(was, new, t)
    BY <1>0, <2>1, <1>r
  <2> QED BY <1>2, <1>4, <1>5, <1>6, <2>2 DEF JournalOK
<1>8. \A t \in Target : t >= i => w.bad \/ Original(was, t)'
  <2> TAKE t \in Target
  <2>1. t >= i => t = i \/ t > i
    BY DEF Target
  <2> QED BY <1>0, <1>3, <1>4, <2>1, <1>r
<1>9. \A t \in Target : /\ w.j[t].staged = journal'[t].staged /\ w.j[t].existed = journal'[t].existed /\ w.j[t].done = journal'[t].done
                        /\ (journal'[t].back => w.j[t].back)
                        /\ (w.j[t].back => Original(was, t)')
                        /\ (t >= i => w.bad \/ Original(was, t)')
  BY <1>2, <1>3, <1>4, <1>5, <1>8
<1>10. home' \in Dir /\ aside' \in Dir /\ journal' \in Record /\ w.i = i /\ w.j \in Record /\ work' = Onward(w) /\ saved = {was, new}
  BY <1>0, <1>2, <1>3 DEF MidSwap, v
<1> QED
  BY <1>0, <1>6, <1>7, <1>9, <1>10, OnwardKeeps

\* A failed step of a reversal is noted, and the other targets are reversed.
LEMMA RollbackFailKeeps == ASSUME RestoreInv, rollbackFails PROVE RestoreInv'
<1> USE DEF Reversing
<1>0. /\ work.at \in Reversing /\ UNCHANGED <<home, aside, saved, journal, tar>>
      /\ work \in WorkType /\ work.j \in Record /\ journal \in Record /\ work.i \in Target /\ home \in Dir /\ aside \in Dir
  BY RecoveryFacts DEF rollbackFails, swapped
<1> PICK i \in Target : i = work.i
  BY <1>0
<1> PICK was \in saved, new \in saved : was \in Dir /\ new \in Dir /\ MidSwap(was, new)
  BY <1>0, RecoveryFacts
<1>r. /\ ~AllDone(journal)
      /\ \A t \in Target : /\ journal[t].existed <=> was[t] # Absent
                           /\ journal[t].staged => new[t] # Absent
                           /\ ~journal[t].staged => journal[t].done /\ new[t] = was[t] /\ Original(was, t)
                           /\ journal[t].back => Original(was, t)
                           /\ Original(was, t) \/ Moved(was, t) \/ Promoted(was, new, t)
                           /\ work.j[t].staged = journal[t].staged /\ work.j[t].existed = journal[t].existed
                           /\ work.j[t].done = journal[t].done
                           /\ journal[t].back => work.j[t].back
                           /\ work.j[t].back => Original(was, t)
                           /\ t > i => work.bad \/ Original(was, t)
      /\ work.at = "record" => Original(was, i)
  BY <1>0, ReverseFacts
<1> DEFINE jj == [work.j EXCEPT ![i].back = @ \/ work.at = "record"]
<1>w. jj \in Record /\ \A t \in Target : /\ jj[t].staged = work.j[t].staged /\ jj[t].existed = work.j[t].existed
                                      /\ jj[t].done = work.j[t].done /\ (jj[t].back <=> (work.j[t].back \/ (t = i /\ work.at = "record")))
  <2>1. CASE work.at = "record"
    <3>1. jj = MarkedBack(work.j, i)
      BY <2>1 DEF MarkedBack
    <3> HIDE DEF jj
    <3> QED BY <1>0, <2>1, <3>1, MarkBack
  <2>2. CASE work.at # "record"
    <3>1. work.j[i] \in [staged : BOOLEAN, existed : BOOLEAN, done : BOOLEAN, back : BOOLEAN]
      BY <1>0 DEF Record
    <3>2. [work.j[i] EXCEPT !.back = @ \/ work.at = "record"] = work.j[i]
      BY <2>2, <3>1
    <3>3. jj = work.j
      BY <1>0, <3>2 DEF Record
    <3> HIDE DEF jj
    <3> QED BY <1>0, <2>2, <3>3
  <2> QED BY <2>1, <2>2
<1>2. work' = Onward([work EXCEPT !.bad = TRUE, !.j = jj])
  BY DEF rollbackFails
<1> HIDE DEF jj
<1> PICK j \in Record : j = jj
  BY <1>w
<1>1. \A t \in Target : /\ j[t].staged = work.j[t].staged /\ j[t].existed = work.j[t].existed
                        /\ j[t].done = work.j[t].done /\ (j[t].back <=> (work.j[t].back \/ (t = i /\ work.at = "record")))
  BY <1>w
<1> DEFINE v == [work EXCEPT !.bad = TRUE, !.j = j]
<1>3. v \in WorkType /\ v.i = i /\ v.j = j /\ v.bad = TRUE
  BY <1>0 DEF WorkType
<1> HIDE DEF v
<1> PICK w \in WorkType : w = v
  BY <1>3
<1>4. \A t \in Target : Original(was, t)' = Original(was, t) /\ Moved(was, t)' = Moved(was, t) /\ Promoted(was, new, t)' = Promoted(was, new, t)
  BY <1>0 DEF Original, Moved, Promoted
<1>5. \A t \in Target : (j[t].back => Original(was, t)) /\ (work.j[t].back => j[t].back)
  BY <1>0, <1>1, <1>r
<1>6. ~AllDone(journal) /\ AllDone(journal)' = AllDone(journal) /\ ~AllDone(journal')
  BY <1>0, <1>r DEF AllDone
<1>7. JournalOK(was, new)'
  BY <1>0, <1>4, <1>6, <1>r DEF JournalOK
<1>8. \A t \in Target : t >= i => w.bad \/ Original(was, t)'
  BY <1>3
<1>9. \A t \in Target : /\ w.j[t].staged = journal'[t].staged /\ w.j[t].existed = journal'[t].existed /\ w.j[t].done = journal'[t].done
                        /\ (journal'[t].back => w.j[t].back)
                        /\ (w.j[t].back => Original(was, t)')
                        /\ (t >= i => w.bad \/ Original(was, t)')
  BY <1>0, <1>1, <1>3, <1>4, <1>5, <1>8, <1>r
<1>10. home' \in Dir /\ aside' \in Dir /\ journal' \in Record /\ w.i = i /\ w.j \in Record /\ work' = Onward(w) /\ saved = {was, new}
  BY <1>0, <1>2, <1>3 DEF MidSwap, v
<1> QED
  BY <1>0, <1>6, <1>7, <1>9, <1>10, OnwardKeeps

\* sweepAsides: nothing is left aside, or the swap is not done and nothing was.
LEMMA SweepKeeps == ASSUME RestoreInv, sweepAsides PROVE RestoreInv'
<1> USE DEF Closing
<1>0. /\ work.at = "sweep" /\ UNCHANGED <<home, saved, journal, tar>>
      /\ work \in WorkType /\ work.j \in Record /\ journal \in Record /\ home \in Dir /\ aside \in Dir
  BY RecoveryFacts DEF sweepAsides
<1> PICK was \in saved, new \in saved : was \in Dir /\ new \in Dir /\ MidSwap(was, new)
  BY <1>0, RecoveryFacts
<1>1. JournalOK(was, new) /\ saved = {was, new} /\ AllDone(journal)' = AllDone(journal) /\ AllDone(work.j) = AllDone(journal)
      /\ \A t \in Target : /\ work.j[t].staged = journal[t].staged /\ work.j[t].existed = journal[t].existed /\ work.j[t].done = journal[t].done
                           /\ (journal[t].back => work.j[t].back) /\ (work.j[t].back => Original(was, t))
                           /\ (AllDone(journal) \/ Original(was, t))
  BY <1>0 DEF MidSwap, RecoveryOK, AllDone
<1>2. CASE work' = NoWork /\ UNCHANGED aside
  <2>1. JournalOK(was, new)'
    BY <1>0, <1>1, <1>2 DEF JournalOK, Original, Moved, Promoted
  <2>2. RecoveryOK(was, new)' /\ SwapOK(was, new)' /\ Ordered'
    BY <1>0, <1>2, Idling, JournalExists DEF RecoveryOK, SwapOK, Ordered, Swapping, Reversing, BackingUp
  <2>3. MidSwap(was, new)'
    BY <1>0, <1>1, <2>1, <2>2 DEF MidSwap
  <2> QED BY <1>0, <1>2, <2>2, <2>3, Idling, InsideKeeps
<1>3. CASE At("finish") /\ aside' = [t \in Target |-> IF AllDone(work.j) /\ work.j[t].existed /\ work.j[t].staged THEN Absent ELSE aside[t]]
  <2>1. work' \in WorkType /\ work'.at = "finish" /\ work'.j = work.j
    BY <1>0, <1>3 DEF WorkType, At
  <2>2. \A t \in Target : aside'[t] = Absent
    <3> SUFFICES ASSUME NEW t \in Target PROVE aside'[t] = Absent
      OBVIOUS
    <3>1. aside'[t] = IF AllDone(work.j) /\ work.j[t].existed /\ work.j[t].staged THEN Absent ELSE aside[t]
      BY <1>3
    <3>2. CASE ~AllDone(journal) \/ ~journal[t].staged
      BY <1>1, <3>1, <3>2 DEF JournalOK, Original
    <3>3. CASE AllDone(journal) /\ journal[t].staged
      <4>1. ~journal[t].existed => was[t] = Absent
        BY <1>1 DEF JournalOK
      <4>2. aside[t] \in {was[t], Absent}
        BY <1>1, <3>3 DEF JournalOK
      <4>3. (AllDone(work.j) /\ work.j[t].staged) /\ (~work.j[t].existed => ~journal[t].existed)
        BY <1>1, <3>3, Zenon
      <4> QED BY <3>1, <4>1, <4>2, <4>3
    <3> QED BY <3>2, <3>3
  <2>3. aside' \in Dir
    <3>1. \A t \in Target : (IF AllDone(work.j) /\ work.j[t].existed /\ work.j[t].staged THEN Absent ELSE aside[t]) \in Held
      BY <1>0, Idling DEF Dir
    <3> QED BY <1>3, <3>1 DEF Dir
  <2>4. \A t \in Target : (Original(was, t) => Original(was, t)')
    BY <1>0, <2>2 DEF Original
  <2>5. JournalOK(was, new)'
    BY <1>0, <1>1, <2>2, <2>4 DEF JournalOK
  <2>6. RecoveryOK(was, new)'
    BY <1>0, <1>1, <2>1, <2>2, <2>4 DEF RecoveryOK, Reversing
  <2>7. SwapOK(was, new)' /\ Ordered'
    BY <1>0, <2>1, JournalExists DEF SwapOK, Ordered, Swapping, Reversing, BackingUp
  <2>8. MidSwap(was, new)'
    BY <1>0, <1>1, <2>5, <2>6, <2>7 DEF MidSwap
  <2> QED BY <1>0, <2>1, <2>3, <2>7, <2>8, InsideKeeps
<1> QED
  BY <1>2, <1>3 DEF sweepAsides

\* removeJournal: the state directory is the one from before, or the archive's.
LEMMA CloseJournalKeeps == ASSUME RestoreInv, removeJournal PROVE RestoreInv'
<1> USE DEF Closing
<1>0. /\ work.at = "finish" /\ UNCHANGED <<home, aside, saved, tar>> /\ journal' = NoJournal
      /\ work \in WorkType /\ journal \in Record /\ home \in Dir /\ aside \in Dir
  BY RecoveryFacts DEF removeJournal, swapped
<1> PICK was \in saved, new \in saved : was \in Dir /\ new \in Dir /\ MidSwap(was, new)
  BY <1>0, RecoveryFacts
<1>1. JournalOK(was, new) /\ \A t \in Target : aside[t] = Absent /\ (AllDone(journal) \/ Original(was, t))
  BY <1>0 DEF MidSwap, RecoveryOK
<1>2. home \in saved
  <2>1. CASE AllDone(journal)
    <3>1. \A t \in Target : home[t] = new[t]
      BY <1>1, <2>1 DEF JournalOK, Original
    <3>2. home = new
      BY <1>0, <3>1 DEF Dir
    <3> QED BY <3>2
  <2>2. CASE ~AllDone(journal)
    <3>1. \A t \in Target : home[t] = was[t]
      BY <1>1, <2>2 DEF Original
    <3>2. home = was
      BY <1>0, <3>1 DEF Dir
    <3> QED BY <3>2
  <2> QED BY <2>1, <2>2
<1>3. work' \in WorkType /\ work'.at \in {"idle", "verify"}
  <2>1. CASE work.tries = 1
    <3>1. work' = [NoWork EXCEPT !.at = "verify"]
      BY <2>1 DEF removeJournal
    <3> QED BY <3>1, Idling DEF WorkType
  <2>2. CASE work.tries # 1
    <3>1. work' = NoWork
      BY <2>2 DEF removeJournal
    <3> QED BY <3>1, Idling
  <2> QED BY <2>1, <2>2
<1>4. RestoreType' /\ Ordered' /\ ArchiveOK'
  BY <1>0, <1>3 DEF RestoreInv, RestoreType, Ordered, ArchiveOK, ManifestHonest, BackingUp, Swapping, Reversing
<1>5. SwapAtomic' /\ saved' \subseteq Dir /\ \A s \in saved' : Whole(s)
  BY <1>0, <1>1, <1>2 DEF SwapAtomic, Here, RestoreInv
<1> QED
  BY <1>0, <1>4, <1>5 DEF RestoreInv

\* Every step of a backup, a restore and a recovery.
LEMMA RestoreInvNext == RestoreInv /\ [RestoreNext]_restorevars => RestoreInv'
<1> SUFFICES ASSUME RestoreInv, [RestoreNext]_restorevars PROVE RestoreInv'
  OBVIOUS
<1>1. CASE UNCHANGED restorevars
  <2>1. CASE journal = NoJournal
    <3>1. RestoreType' /\ Ordered' /\ ArchiveOK'
      BY <1>1 DEF restorevars, RestoreInv, RestoreType, Ordered, ArchiveOK, ManifestHonest
    <3> QED BY <1>1, <2>1, <3>1, OutsideKeeps DEF restorevars
  <2>2. CASE journal # NoJournal
    <3> PICK was \in saved, new \in saved : MidSwap(was, new)
      BY <2>2 DEF RestoreInv
    <3>1. MidSwap(was, new)'
      BY <1>1 DEF restorevars, MidSwap, JournalOK, SwapOK, RecoveryOK, Original, Moved, Promoted, AllDone, Staged
    <3> QED BY <1>1, <3>1 DEF restorevars, RestoreInv, RestoreType, Ordered, ArchiveOK, ManifestHonest, SwapAtomic, Here, Whole
  <2> QED BY <2>1, <2>2
<1>2. CASE Recovery
  BY <1>2, BeginKeeps, CheckKeeps, RemoveKeeps, PutBackKeeps, RecordKeeps, SweepKeeps, CloseJournalKeeps DEF Recovery
<1>3. CASE Swap
  BY <1>3, StartKeeps, AsideKeeps, PromoteKeeps, JournalKeeps DEF Swap
<1>4. CASE newRestoreCommand \/ KillMaintenance \/ promotionFails \/ rollbackFails
  BY <1>4, BeginKeeps, FailKeeps, RollbackFailKeeps
<1>5. CASE CollectCache \/ \E r \in Ref : RecaptureRow(r)
  BY <1>5, CaptureKeeps
<1>6. CASE snapshotDB \/ snapshotAndEnumerate \/ writeBackupTar \/ stageBackupKeys \/ writeManifest \/ \E r \in Ref : addFileToTar(r)
  BY <1>6, BackupKeeps
<1> QED
  BY <1>1, <1>2, <1>3, <1>4, <1>5, <1>6 DEF RestoreNext

\* What the swap owes its user: all or nothing, the old state until the new one is
\* on record, and blobs and keys with the database.
LEMMA RestoreIsSafe == RestoreInv => RestoreSafe
<1> SUFFICES ASSUME RestoreInv PROVE RestoreSafe
  OBVIOUS
<1>1. SwapAtomic /\ ManifestHonest
  BY DEF RestoreInv, ArchiveOK
<1>2. RestoredWhole
  BY DEF RestoreInv, SwapAtomic, RestoredWhole, Whole, Here
<1>3. OldSurvives
  <2> SUFFICES ASSUME journal # NoJournal, ~AllDone(journal)
               PROVE  \E s \in saved : \A t \in Target : s[t] \in {home[t], aside[t]} \/ s[t] = Absent
    BY DEF OldSurvives
  <2> PICK was \in saved, new \in saved : MidSwap(was, new)
    BY DEF RestoreInv
  <2>1. \A t \in Target : was[t] \in {home[t], aside[t]}
    BY DEF MidSwap, JournalOK, Original, Moved, Promoted
  <2> QED BY <2>1
<1> QED
  BY <1>1, <1>2, <1>3 DEF RestoreSafe

-----------------------------------------------------------------------------
(* The machine: a step of it is a step of one of its parts.                *)

LoopInv == ExportInv /\ DaemonInv /\ CycleInv /\ WatchInv

\* A machine's step leaves every part but one alone.
LEMMA PartsStep ==
    [MaintenanceNext]_allvars =>
        [Next]_vars /\ [RestoreNext]_restorevars /\ [ExportNext]_exportvars /\ [CycleNext]_schedvars
        /\ [DaemonNext]_daemonvars /\ [WatchNext]_watchvars
  BY DEF MaintenanceNext, allvars

\* The invariants of the run loop's parts hold of the machine.
LEMMA LoopInvariant == MaintenanceSpec => []LoopInv
<1>1. MaintenanceInit => LoopInv
  BY ExportInvInit, DaemonInvInit, CycleInvInit, WatchInvInit DEF MaintenanceInit, LoopInv
<1>2. LoopInv /\ [MaintenanceNext]_allvars => LoopInv'
  BY PartsStep, ExportInvNext, DaemonInvNext, CycleInvNext, WatchInvNext DEF LoopInv
<1> QED
  BY <1>1, <1>2, PTL DEF MaintenanceSpec

\* The lock and the state directory of a machine, too.
StateInv == TypeOK /\ RestoreInv

\* Every step of a machine keeps both.
LEMMA StateInvariant == MaintenanceSpec => []StateInv
<1>1. MaintenanceInit => StateInv
  BY LockInit, RestoreInvInit DEF MaintenanceInit, StateInv
<1>2. StateInv /\ [MaintenanceNext]_allvars => StateInv'
  BY PartsStep, LockNext, RestoreInvNext DEF StateInv
<1> QED
  BY <1>1, <1>2, PTL DEF MaintenanceSpec

\* What a machine is recovered from can be used, whatever died or failed on the
\* way: the state directory is the old or the new one, whole (restore_journal.go),
\* the old one survives until the last promotion is on record, every blob the
\* restored database names came with it (db backup --full, P7-DATA-03/04), and the
\* replica's head names a snapshot it holds (exportHubDurability).
THEOREM RecoveryIsSafe == MaintenanceSpec => []RecoverySafe
<1>1. LoopInv /\ StateInv => RecoverySafe
  BY RestoreIsSafe DEF LoopInv, StateInv, ExportInv, RecoverySafe
<1> QED
  BY <1>1, LoopInvariant, StateInvariant, PTL

\* The daemon's cycles, its callers, its socket and its watch plane tell the
\* truth about each other, for any number of clients, daemons and arms: one cycle
\* at a time (Scheduler.Converge), every caller led and told its own outcome, no
\* live daemon evicted by another one's start, the record its own, no count
\* without a native watcher.
THEOREM RunLoopIsSafe == MaintenanceSpec => []RunLoopSafe
<1>1. LoopInv => RunLoopSafe
  BY DaemonSafe DEF LoopInv, RunLoopSafe, CycleInv, WatchInv
<1> QED
  BY <1>1, LoopInvariant, PTL

\* No step takes back what was promised: a full sync owed to a caller that joined
\* a weaker cycle (pendingMode), the end of a daemon that daemon stop reported
\* (daemonRecordReleased), the replica's recovery state (CompareAndSwap of
\* ReconcileRetentionAdvance).
THEOREM PromisesAreKept == MaintenanceSpec => PromisesKept
<1>1. LoopInv /\ [MaintenanceNext]_allvars =>
        [(owed /\ Len(cycles') > Len(cycles)) => cycles'[Len(cycles')].mode = "full"]_schedvars
  BY PartsStep, FullStep DEF LoopInv
<1>2. LoopInv /\ [MaintenanceNext]_allvars =>
        [(stopper.at = "poll" /\ stopper'.at = "stopped") =>
            \/ daemon[stopper.pid] \in {"cleanup", "unrecord", "dead"}
            \/ stopper.pid \in clobbered \cup superseded]_daemonvars
  BY PartsStep, StopStepHonest DEF LoopInv
<1>3. LoopInv /\ [MaintenanceNext]_allvars =>
        [(replica.head # 0 /\ replica'.head # replica.head) => Dominates(replica'.head, replica.head)]_exportvars
  BY PartsStep, ReplicaStep DEF LoopInv
<1> QED
  BY <1>1, <1>2, <1>3, LoopInvariant, PTL DEF MaintenanceSpec, PromisesKept, FullNotLost, StopHonest, ReplicaForward
=============================================================================
