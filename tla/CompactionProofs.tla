-------------------------- MODULE CompactionProofs --------------------------
(***************************************************************************)
(* Proofs about compaction, for any number of devices compacting at once,  *)
(* with any number of crashes, revocations and broken locks.               *)
(*                                                                         *)
(* The retention floors only go up: the monotonicity check and the         *)
(* compare-and-swap together are enough, without the sweep lock.           *)
(*                                                                         *)
(* Nothing disappears and no cursor skips anything, but by two steps that  *)
(* are named: a floor taken over (CarriesFloor) and a snapshot pruned      *)
(* under the manifest that names it (PrunesNeeded).                        *)
(***************************************************************************)
EXTENDS Compaction, FiniteSetTheorems, TLAPS

\* What a compactor about to swap the manifest has checked against the one it
\* read: none of its own floors is lower.
Checked ==
    \A d \in Devices : proc[d].phase = "cas" =>
        \A o \in Devices : proc[d].base[o] # 0 => proc[d].base[o] >= proc[d].seen.floors[o]

Inv == TypeOK /\ Checked

LEMMA MaxOfNat == \A m, n \in Nat : MaxOf(m, n) \in Nat
  BY DEF MaxOf

LEMMA IdleMemory == Idle \in Memory
  BY CompactionAssumption DEF Idle, Memory, NoManifest, NoFloors, Manifest, Floors, Phases, Locked

\* The safe cursor is a number, at or above the cursor: the run it measures is finite.
LEMMA SafeCursorNat ==
    ASSUME ReplicaType, NEW d \in Devices, NEW o \in Devices, NEW consumed
    PROVE  SafeCursor(d, o, consumed) \in Nat /\ SafeCursor(d, o, consumed) >= cursor[d][o]
<1> DEFINE lo == cursor[d][o] + 1
           S == {s \in lo..Limit[o] : \A t \in lo..s : <<o, t>> \in consumed}
<1>1. cursor[d][o] \in Nat /\ Limit[o] \in Nat
  BY CompactionAssumption DEF ReplicaType, Floors
<1>2. IsFiniteSet(lo..Limit[o])
  <2>1. lo \in Int /\ Limit[o] \in Int
    BY <1>1
  <2> HIDE DEF lo
  <2> QED
    BY <2>1, FS_Interval
<1>3. IsFiniteSet(S)
  BY <1>2, FS_Subset
<1>4. Cardinality(S) \in Nat
  BY <1>3, FS_CardinalityType
<1> QED
  BY <1>1, <1>4 DEF SafeCursor

LEMMA AtFloorsType ==
    ASSUME NEW cur \in Floors, NEW floors \in Floors
    PROVE  AtFloors(cur, floors) \in Floors
<1>1. ASSUME NEW o \in Devices
      PROVE  (IF floors[o] > 0 THEN MaxOf(cur[o], floors[o] - 1) ELSE cur[o]) \in Nat
  BY DEF MaxOf, Floors
<1> QED
  BY <1>1 DEF AtFloors, Floors

LEMMA ReconciledType ==
    ASSUME NEW base \in Floors, NEW m \in Manifest
    PROVE  Reconciled(base, m) \in Floors
  BY DEF Reconciled, Floors, Manifest

\* The two ways a step leaves its command: on to a phase, or ended.
LEMMA GotoType ==
    ASSUME TypeOK, NEW d \in Devices, NEW ph \in Phases, Goto(d, ph)
    PROVE  /\ proc' \in [Devices -> Memory]
           /\ lock' \in [holder : Devices \cup {None}, stale : BOOLEAN]
  BY DEF TypeOK, HubType, Goto, Memory

LEMMA EndType ==
    ASSUME TypeOK, NEW d \in Devices, End(d)
    PROVE  /\ proc' \in [Devices -> Memory]
           /\ lock' \in [holder : Devices \cup {None}, stale : BOOLEAN]
  BY IdleMemory DEF TypeOK, HubType, End, NoLock

\* Types are kept by every action.
LEMMA InitType == Init => TypeOK
<1> SUFFICES ASSUME Init PROVE TypeOK
  OBVIOUS
<1>1. ReplicaType
  BY CompactionAssumption DEF Init, ReplicaType, Floors, NoFloors, Ids
<1>2. HubType
  BY CompactionAssumption DEF Init, HubType, Floors, NoFloors, NoManifest, Manifest, NoLock, Ids
<1> QED
  BY <1>1, <1>2, IdleMemory DEF Init, TypeOK, Floors

LEMMA LocalTypes ==
    ASSUME TypeOK, NEW d \in Devices, Mint(d) \/ Revoke(d) \/ BeginSync(d) \/ BeginCompact(d) \/ Crash(d)
    PROVE  TypeOK'
<1>1. CASE Mint(d)
  <2> DEFINE i == <<d, minted[d] + 1>>
  <2>1. i \in Ids /\ minted' = [minted EXCEPT ![d] = @ + 1]
        /\ log' = [log EXCEPT ![d] = @ \cup {i}] /\ known' = [known EXCEPT ![d] = @ \cup {i}]
    BY <1>1 DEF Mint
  <2>2. minted' \in Floors
    BY <2>1 DEF TypeOK, ReplicaType, Floors
  <2> HIDE DEF i
  <2> QED
    BY <1>1, <2>1, <2>2 DEF Mint, TypeOK, ReplicaType, HubType, hub, counters
<1>2. CASE Revoke(d)
  BY <1>2 DEF Revoke, TypeOK, ReplicaType, HubType, replica, hub, counters
<1>3. ASSUME NEW goal \in {"sync", "compact"}, Begin(d, goal)
      PROVE  proc' \in [Devices -> Memory] /\ ReplicaType' /\ HubType' /\ revoked' = revoked
             /\ published' = published /\ crashes' = crashes
  <2>1. proc' \in [Devices -> Memory]
    <3> DEFINE ph == IF BelowFloor(cursor[d], manifest.floors) THEN "manifest" ELSE "list"
    <3>1. ph \in Phases
      BY DEF Phases
    <3>2. [Idle EXCEPT !.goal = goal, !.phase = ph] \in Memory
      BY <3>1, IdleMemory DEF Memory
    <3> HIDE DEF ph
    <3> QED
      BY <1>3, <3>2 DEF Begin, TypeOK, ph
  <2> QED
    BY <1>3, <2>1 DEF Begin, TypeOK, ReplicaType, HubType, replica, hub
<1>4. CASE BeginSync(d)
  BY <1>3, <1>4 DEF BeginSync, TypeOK
<1>5. CASE BeginCompact(d)
  BY <1>3, <1>5 DEF BeginCompact, TypeOK, Floors
<1>6. CASE Crash(d)
  BY <1>6, IdleMemory DEF Crash, TypeOK, ReplicaType, HubType, replica, hub
<1> QED
  BY <1>1, <1>2, <1>4, <1>5, <1>6

LEMMA PullTypes ==
    ASSUME TypeOK, NEW d \in Devices,
           PullAgain(d) \/ ListAndApply(d) \/ Push(d) \/ ReadManifest(d) \/ Import(d)
    PROVE  TypeOK'
<1> USE DEF counters
<1>p. {"list", "push", "plan", "import", "again"} \subseteq Phases
  BY DEF Phases
<1>1. CASE PullAgain(d)
  BY <1>1, <1>p, GotoType, EndType DEF PullAgain, TypeOK, ReplicaType, HubType, replica
<1>2. CASE ListAndApply(d)
  <2> DEFINE batch == {i \in stored : i[2] > cursor[d][i[1]]}
             good == Chained(d, batch)
  <2>1. batch \subseteq Ids /\ good \subseteq Ids
    BY DEF TypeOK, HubType, Chained
  <2>2. cursor' \in [Devices -> Floors]
    <3>1. [o \in Devices |-> SafeCursor(d, o, good)] \in Floors
      BY SafeCursorNat DEF TypeOK, Floors
    <3> HIDE DEF good
    <3> QED
      BY <1>2, <3>1 DEF ListAndApply, TypeOK, ReplicaType, good
  <2>3. ReplicaType'
    BY <1>2, <2>1, <2>2 DEF ListAndApply, TypeOK, ReplicaType
  <2> QED
    BY <1>2, <2>3, <1>p, GotoType, EndType DEF ListAndApply, TypeOK, HubType
<1>3. CASE Push(d)
  BY <1>3, <1>p, GotoType, EndType DEF Push, TypeOK, ReplicaType, HubType, Floors
<1>4. CASE ReadManifest(d)
  <2>1. proc' \in [Devices -> Memory] /\ lock' \in [holder : Devices \cup {None}, stale : BOOLEAN]
    <3>1. CASE End(d)
      BY <3>1, EndType
    <3>2. CASE proc' = [proc EXCEPT ![d].phase = "import", ![d].seen = manifest] /\ UNCHANGED lock
      <4>1. proc \in [Devices -> Memory] /\ lock \in [holder : Devices \cup {None}, stale : BOOLEAN]
        BY DEF TypeOK, HubType
      <4>2. [proc[d] EXCEPT !.phase = "import", !.seen = manifest] \in Memory
        BY <4>1, <1>p DEF TypeOK, HubType, Memory
      <4>3. proc' = [proc EXCEPT ![d] = [proc[d] EXCEPT !.phase = "import", !.seen = manifest]]
        BY <3>2, <4>1
      <4> QED BY <3>2, <4>1, <4>2, <4>3
    <3> QED
      BY <1>4, <3>1, <3>2 DEF ReadManifest
  <2> QED
    BY <1>4, <2>1 DEF ReadManifest, TypeOK, ReplicaType, HubType, replica
<1>5. CASE Import(d)
  <2>1. CASE End(d) /\ UNCHANGED <<known, anchor, cursor>>
    BY <1>5, <2>1, EndType DEF Import, TypeOK, ReplicaType, HubType
  <2>2. ASSUME NEW snap \in objects, ImportSnapshot(d, snap, proc[d].seen.floors), Goto(d, "again")
        PROVE  TypeOK'
    <3>1. proc[d].seen.floors \in Floors /\ snap \in Snapshot
      BY DEF TypeOK, HubType, Memory, Manifest
    <3>2. cursor' \in [Devices -> Floors]
      <4>1. AtFloors(cursor[d], proc[d].seen.floors) \in Floors
        BY <3>1, AtFloorsType DEF TypeOK, ReplicaType
      <4> QED
        BY <2>2, <4>1 DEF ImportSnapshot, TypeOK, ReplicaType
    <3>3. anchor' \in [Devices -> Floors]
      <4> DEFINE new == [o \in Devices |-> MaxOf(anchor[d][o], snap.anchors[o])]
      <4>1. new \in Floors
        BY <3>1, MaxOfNat DEF TypeOK, ReplicaType, Snapshot, Floors
      <4>2. anchor' = [anchor EXCEPT ![d] = new]
        BY <2>2 DEF ImportSnapshot, TypeOK, ReplicaType
      <4> HIDE DEF new
      <4> QED
        BY <4>1, <4>2 DEF TypeOK, ReplicaType
    <3>4. known' \in [Devices -> SUBSET Ids]
      BY <2>2, <3>1 DEF ImportSnapshot, TypeOK, ReplicaType, Snapshot
    <3> QED
      BY <1>5, <2>2, <3>2, <3>3, <3>4, <1>p, GotoType DEF Import, TypeOK, ReplicaType, HubType
  <2> QED
    BY <1>5, <2>1, <2>2 DEF Import
<1> QED
  BY <1>1, <1>2, <1>3, <1>4, <1>5

LEMMA CompactTypes ==
    ASSUME TypeOK, NEW d \in Devices,
           \/ Plan(d) \/ TakeLock(d) \/ Publish(d) \/ PutRetention(d) \/ ConfirmManifest(d)
           \/ DeleteCold(d) \/ AdvanceCursors(d) \/ CleanupRevoked(d) \/ PruneSnapshots(d)
    PROVE  TypeOK'
<1> USE DEF counters
<1>p. Locked \cup {"lock"} \subseteq Phases
  BY DEF Phases
<1>l. {"publish", "cas", "confirm", "delete", "advance", "cleanup", "prune"} = Locked
  BY DEF Locked
<1>f. Committed(d) \in Floors
  BY ReconciledType DEF Committed, TypeOK, Memory
<1>1. CASE Plan(d)
  <2>1. ComputeCompactFloors(d) \in Floors
    BY DEF ComputeCompactFloors, TypeOK, ReplicaType, Floors
  <2>2. CASE End(d)
    BY <1>1, <2>2, EndType DEF Plan, TypeOK, ReplicaType, HubType, replica
  <2>3. CASE /\ proc' = [proc EXCEPT ![d].phase = "lock", ![d].base = ComputeCompactFloors(d),
                                     ![d].seen = manifest]
             /\ UNCHANGED lock
    <3>1. proc' \in [Devices -> Memory]
      <4> DEFINE m == [proc[d] EXCEPT !.phase = "lock", !.base = ComputeCompactFloors(d), !.seen = manifest]
      <4>1. proc[d] \in Memory /\ "lock" \in Phases /\ ComputeCompactFloors(d) \in Floors /\ manifest \in Manifest
        BY <2>1, <1>p DEF TypeOK, HubType
      <4>2. m \in Memory
        BY <4>1 DEF Memory
      <4>3. proc' = [proc EXCEPT ![d] = m]
        BY <2>3 DEF TypeOK
      <4> HIDE DEF m
      <4> QED
        BY <4>2, <4>3 DEF TypeOK
    <3> QED
      BY <1>1, <2>3, <3>1 DEF Plan, TypeOK, ReplicaType, HubType, replica
  <2> QED
    BY <1>1, <2>2, <2>3 DEF Plan
<1>2. CASE TakeLock(d)
  <2>1. CASE End(d)
    BY <1>2, <2>1, EndType DEF TakeLock, TypeOK, ReplicaType, HubType, replica
  <2>2. CASE lock' = [holder |-> d, stale |-> FALSE] /\ proc' = [proc EXCEPT ![d].phase = "publish"]
    <3>1. proc' \in [Devices -> Memory]
      BY <2>2, <1>p, <1>l DEF TypeOK, Memory
    <3> QED
      BY <1>2, <2>2, <3>1 DEF TakeLock, TypeOK, ReplicaType, HubType, replica
  <2> QED
    BY <1>2, <2>1, <2>2 DEF TakeLock
<1>3. CASE Publish(d)
  <2> DEFINE snap == [no |-> published + 1, covers |-> known[d], anchors |-> AnchorsFor(d, Committed(d))]
  <2>1. snap \in Snapshot
    <3>1. AnchorsFor(d, Committed(d)) \in Floors
      BY <1>f DEF AnchorsFor, TypeOK, ReplicaType, Floors
    <3> QED
      BY <3>1 DEF Snapshot, TypeOK, ReplicaType
  <2>2. CASE End(d) /\ UNCHANGED <<objects, published>>
    BY <1>3, <2>2, EndType DEF Publish, TypeOK, ReplicaType, HubType, replica
  <2>3. CASE /\ objects' = objects \cup {snap} /\ published' = published + 1
             /\ proc' = [proc EXCEPT ![d].phase = "cas", ![d].no = snap.no] /\ UNCHANGED lock
    <3>1. proc' \in [Devices -> Memory]
      <4> DEFINE m == [proc[d] EXCEPT !.phase = "cas", !.no = published + 1]
      <4>1. proc[d] \in Memory /\ "cas" \in Phases /\ published + 1 \in Nat
        BY <1>p, <1>l DEF TypeOK, HubType
      <4>2. m \in Memory
        BY <4>1 DEF Memory
      <4>3. proc' = [proc EXCEPT ![d] = m]
        BY <2>3 DEF TypeOK
      <4> HIDE DEF m
      <4> QED
        BY <4>2, <4>3 DEF TypeOK
    <3> HIDE DEF snap
    <3> QED
      BY <1>3, <2>1, <2>3, <3>1 DEF Publish, TypeOK, ReplicaType, HubType, replica
  <2> QED
    BY <1>3, <2>2, <2>3 DEF Publish
<1>4. CASE PutRetention(d)
  <2>1. manifest' \in Manifest
    BY <1>4, <1>f DEF PutRetention, TypeOK, HubType, Manifest, Memory
  <2>2. CASE Goto(d, "confirm")
    BY <1>4, <2>1, <2>2, <1>p, <1>l, GotoType DEF PutRetention, TypeOK, ReplicaType, HubType, replica
  <2>3. CASE End(d)
    BY <1>4, <2>1, <2>3, EndType DEF PutRetention, TypeOK, ReplicaType, HubType, replica
  <2>4. CASE /\ proc' = [proc EXCEPT ![d].phase = "publish", ![d].again = TRUE, ![d].seen = manifest]
             /\ UNCHANGED lock
    <3>1. proc' \in [Devices -> Memory]
      <4> DEFINE m == [proc[d] EXCEPT !.phase = "publish", !.again = TRUE, !.seen = manifest]
      <4>1. proc[d] \in Memory /\ "publish" \in Phases /\ manifest \in Manifest
        BY <1>p, <1>l DEF TypeOK, HubType
      <4>2. m \in Memory
        BY <4>1 DEF Memory
      <4>3. proc' = [proc EXCEPT ![d] = m]
        BY <2>4 DEF TypeOK
      <4> HIDE DEF m
      <4> QED
        BY <4>2, <4>3 DEF TypeOK
    <3> QED
      BY <1>4, <2>1, <2>4, <3>1 DEF PutRetention, TypeOK, ReplicaType, HubType, replica
  <2> QED
    BY <1>4, <2>2, <2>3, <2>4 DEF PutRetention
<1>5. CASE ConfirmManifest(d)
  BY <1>5, <1>p, <1>l, GotoType, EndType DEF ConfirmManifest, TypeOK, ReplicaType, HubType, replica
<1>6. CASE DeleteCold(d)
  BY <1>6, <1>p, <1>l, GotoType DEF DeleteCold, TypeOK, ReplicaType, HubType, replica
<1>7. CASE AdvanceCursors(d)
  <2>1. AtFloors(cursor[d], Committed(d)) \in Floors
    BY <1>f, AtFloorsType DEF TypeOK, ReplicaType
  <2> QED
    BY <1>7, <2>1, <1>p, <1>l, GotoType DEF AdvanceCursors, TypeOK, ReplicaType, HubType
<1>8. CASE CleanupRevoked(d)
  BY <1>8, <1>p, <1>l, GotoType DEF CleanupRevoked, TypeOK, ReplicaType, HubType, replica
<1>9. CASE PruneSnapshots(d)
  BY <1>9, EndType DEF PruneSnapshots, TypeOK, ReplicaType, HubType, replica
<1> QED
  BY <1>1, <1>2, <1>3, <1>4, <1>5, <1>6, <1>7, <1>8, <1>9

LEMMA NextType == TypeOK /\ [Next]_vars => TypeOK'
<1> SUFFICES ASSUME TypeOK, [Next]_vars PROVE TypeOK'
  OBVIOUS
<1>1. CASE LockExpires
  BY <1>1 DEF LockExpires, TypeOK, ReplicaType, HubType, replica, counters
<1>2. CASE UNCHANGED vars
  BY <1>2 DEF vars, TypeOK, ReplicaType, HubType, replica, hub, counters
<1> QED
  BY <1>1, <1>2, LocalTypes, PullTypes, CompactTypes DEF Next, Step

\* A compactor in front of the compare-and-swap has passed the monotonicity
\* check against the manifest it read, and that memory is its own.
LEMMA NextChecked == TypeOK /\ Checked /\ [Next]_vars => Checked'
<1> SUFFICES ASSUME TypeOK, Checked, [Next]_vars PROVE Checked'
  OBVIOUS
<1> DEFINE OK(m) == m.phase = "cas" => \A o \in Devices : m.base[o] # 0 => m.base[o] >= m.seen.floors[o]
<1>0. Checked <=> \A d \in Devices : OK(proc[d])
  BY DEF Checked
<1>1. ASSUME NEW d \in Devices, NEW m, proc' = [proc EXCEPT ![d] = m], OK(m) PROVE Checked'
  <2>1. \A e \in Devices : proc'[e] = IF e = d THEN m ELSE proc[e]
    BY <1>1 DEF TypeOK
  <2>2. \A e \in Devices : OK(proc'[e])
    BY <1>0, <1>1, <2>1
  <2> QED
    BY <2>2 DEF Checked
<1>2. ASSUME NEW d \in Devices, NEW ph, ph # "cas", Goto(d, ph) PROVE Checked'
  <2>1. proc' = [proc EXCEPT ![d] = [proc[d] EXCEPT !.phase = ph]]
    BY <1>2 DEF Goto, TypeOK
  <2>2. [proc[d] EXCEPT !.phase = ph].phase # "cas"
    BY <1>2 DEF TypeOK, Memory
  <2> QED
    BY <1>1, <2>1, <2>2
<1>3. ASSUME NEW d \in Devices, proc' = [proc EXCEPT ![d] = Idle] PROVE Checked'
  BY <1>1, <1>3 DEF Idle
<1>4. ASSUME UNCHANGED proc PROVE Checked'
  BY <1>4 DEF Checked
<1> HIDE DEF OK
<1>5. CASE LockExpires \/ UNCHANGED vars
  BY <1>4, <1>5 DEF LockExpires, vars
<1>6. ASSUME NEW d \in Devices, Mint(d) \/ Revoke(d) \/ Crash(d) PROVE Checked'
  BY <1>3, <1>4, <1>6 DEF Mint, Revoke, Crash
<1>7. ASSUME NEW d \in Devices, NEW goal, Begin(d, goal) PROVE Checked'
  <2> DEFINE ph == IF BelowFloor(cursor[d], manifest.floors) THEN "manifest" ELSE "list"
             m == [Idle EXCEPT !.goal = goal, !.phase = ph]
  <2>1. m.phase = ph /\ ph # "cas"
    BY DEF Idle
  <2>2. proc' = [proc EXCEPT ![d] = m]
    BY <1>7 DEF Begin
  <2> HIDE DEF m
  <2> QED
    BY <1>1, <2>1, <2>2 DEF OK
<1>8. ASSUME NEW d \in Devices, BeginSync(d) \/ BeginCompact(d) PROVE Checked'
  BY <1>7, <1>8 DEF BeginSync, BeginCompact
<1>9. ASSUME NEW d \in Devices, Step(d) PROVE Checked'
  <2>1. CASE PullAgain(d) \/ ListAndApply(d) \/ Push(d) \/ ConfirmManifest(d) \/ DeleteCold(d)
             \/ AdvanceCursors(d) \/ CleanupRevoked(d) \/ PruneSnapshots(d)
    BY <1>2, <1>3, <2>1 DEF PullAgain, ListAndApply, Push, ConfirmManifest, DeleteCold, AdvanceCursors,
                            CleanupRevoked, PruneSnapshots, End
  <2>2. CASE Import(d)
    BY <1>2, <1>3, <2>2 DEF Import, End
  <2>3. ASSUME NEW m \in Memory, m.phase # "cas", proc' = [proc EXCEPT ![d] = m] PROVE Checked'
    BY <1>1, <2>3 DEF OK
  <2>4. CASE ReadManifest(d)
    <3>1. CASE proc' = [proc EXCEPT ![d].phase = "import", ![d].seen = manifest]
      <4> DEFINE m == [proc[d] EXCEPT !.phase = "import", !.seen = manifest]
      <4>1. m \in Memory /\ m.phase # "cas" /\ proc' = [proc EXCEPT ![d] = m]
        BY <3>1 DEF TypeOK, HubType, Memory, Phases
      <4> HIDE DEF m
      <4> QED
        BY <2>3, <4>1
    <3> QED
      BY <1>3, <2>4, <3>1 DEF ReadManifest, End
  <2>5. CASE Plan(d)
    <3> DEFINE base == ComputeCompactFloors(d)
    <3>1. CASE proc' = [proc EXCEPT ![d].phase = "lock", ![d].base = base, ![d].seen = manifest]
      <4> DEFINE m == [proc[d] EXCEPT !.phase = "lock", !.base = base, !.seen = manifest]
      <4>1. m.phase # "cas" /\ proc' = [proc EXCEPT ![d] = m]
        BY <3>1 DEF TypeOK, Memory
      <4> HIDE DEF m
      <4> QED
        BY <1>1, <4>1 DEF OK
    <3> QED
      BY <1>3, <2>5, <3>1 DEF Plan, End
  <2>6. CASE TakeLock(d)
    <3>1. CASE proc' = [proc EXCEPT ![d].phase = "publish"]
      <4> DEFINE m == [proc[d] EXCEPT !.phase = "publish"]
      <4>1. m.phase # "cas" /\ proc' = [proc EXCEPT ![d] = m]
        BY <3>1 DEF TypeOK, Memory
      <4> HIDE DEF m
      <4> QED
        BY <1>1, <4>1 DEF OK
    <3> QED
      BY <1>3, <2>6, <3>1 DEF TakeLock, End
  <2>7. CASE Publish(d)
    <3>1. CASE ~Refused(d, proc[d].base, proc[d].seen)
               /\ proc' = [proc EXCEPT ![d].phase = "cas", ![d].no = published + 1]
      <4> DEFINE m == [proc[d] EXCEPT !.phase = "cas", !.no = published + 1]
      <4>1. proc' = [proc EXCEPT ![d] = m] /\ m.base = proc[d].base /\ m.seen = proc[d].seen
        BY <3>1 DEF TypeOK, Memory
      <4>2. proc[d].base \in [Devices -> Nat] /\ proc[d].seen.floors \in [Devices -> Nat]
        BY DEF TypeOK, Memory, Manifest, Floors
      <4>3. \A o \in Devices : proc[d].base[o] # 0 => proc[d].base[o] >= proc[d].seen.floors[o]
        BY <3>1, <4>2 DEF Refused
      <4> HIDE DEF m
      <4>4. OK(m)
        BY <4>1, <4>3 DEF OK
      <4> QED
        BY <1>1, <4>1, <4>4
    <3> QED
      BY <1>3, <2>7, <3>1 DEF Publish, End
  <2>8. CASE PutRetention(d)
    <3>1. CASE proc' = [proc EXCEPT ![d].phase = "publish", ![d].again = TRUE, ![d].seen = manifest]
      <4> DEFINE m == [proc[d] EXCEPT !.phase = "publish", !.again = TRUE, !.seen = manifest]
      <4>1. m.phase # "cas" /\ proc' = [proc EXCEPT ![d] = m]
        BY <3>1 DEF TypeOK, Memory
      <4> HIDE DEF m
      <4> QED
        BY <1>1, <4>1 DEF OK
    <3> QED
      BY <1>2, <1>3, <2>8, <3>1 DEF PutRetention, End
  <2> QED
    BY <1>9, <2>1, <2>2, <2>4, <2>5, <2>6, <2>7, <2>8 DEF Step
<1> QED
  BY <1>5, <1>6, <1>8, <1>9 DEF Next

\* Only PutRetention writes the manifest, and it writes floors that were checked
\* against the very manifest it replaces.
LEMMA FloorsStep ==
    ASSUME TypeOK, Checked, [Next]_vars, NEW o \in Devices
    PROVE  manifest'.floors[o] >= manifest.floors[o]
<1>1. manifest.floors[o] \in Nat
  BY DEF TypeOK, HubType, Manifest, Floors
<1>2. ASSUME NEW d \in Devices, PutRetention(d), manifest' # manifest
      PROVE  manifest'.floors[o] >= manifest.floors[o]
  <2>1. manifest = proc[d].seen /\ manifest'.floors = Committed(d) /\ proc[d].phase = "cas"
    BY <1>2 DEF PutRetention
  <2>2. proc[d].base[o] \in Nat
    BY DEF TypeOK, Memory, Floors
  <2>3. proc[d].base[o] # 0 => proc[d].base[o] >= manifest.floors[o]
    BY <2>1 DEF Checked
  <2> QED
    BY <1>1, <2>1, <2>2, <2>3 DEF Committed, Reconciled
<1>3. CASE manifest' = manifest
  BY <1>1, <1>3
<1>4. CASE \E d \in Devices : PutRetention(d)
  BY <1>2, <1>3, <1>4
<1>5. CASE [Next]_vars /\ ~\E d \in Devices : PutRetention(d)
  <2> USE DEF hub
  <2>1. CASE UNCHANGED vars
    BY <1>3, <2>1 DEF vars
  <2>5. CASE LockExpires
    BY <1>3, <2>5 DEF LockExpires
  <2>2. ASSUME NEW d \in Devices,
               Mint(d) \/ Revoke(d) \/ BeginSync(d) \/ BeginCompact(d) \/ Crash(d)
        PROVE  manifest' = manifest
    BY <2>2 DEF Mint, Revoke, BeginSync, BeginCompact, Begin, Crash
  <2>3. ASSUME NEW d \in Devices,
               \/ PullAgain(d) \/ ListAndApply(d) \/ Push(d) \/ ReadManifest(d)
               \/ Import(d) \/ Plan(d) \/ TakeLock(d)
        PROVE  manifest' = manifest
    BY <2>3 DEF PullAgain, ListAndApply, Push, ReadManifest, Import, Plan, TakeLock
  <2>4. ASSUME NEW d \in Devices,
               \/ Publish(d) \/ ConfirmManifest(d) \/ DeleteCold(d) \/ AdvanceCursors(d)
               \/ CleanupRevoked(d) \/ PruneSnapshots(d)
        PROVE  manifest' = manifest
    BY <2>4 DEF Publish, ConfirmManifest, DeleteCold, AdvanceCursors, CleanupRevoked, PruneSnapshots
  <2> QED
    BY <1>3, <1>5, <2>1, <2>2, <2>3, <2>4, <2>5 DEF Next, Step
<1> QED
  BY <1>4, <1>5

-----------------------------------------------------------------------------
\* The state of every device, of the hub and of every running command keeps its
\* type (hub compact and recovery, any interleaving).
THEOREM TypeCorrect == Spec => []TypeOK
  BY InitType, NextType, PTL DEF Spec

LEMMA InvHolds == Spec => []Inv
<1>1. Init => Checked
  BY DEF Init, Checked, Idle
<1> QED
  BY <1>1, InitType, NextType, NextChecked, PTL DEF Spec, Inv

\* The retention floors never go down, with any number of concurrent compactors,
\* with or without the sweep lock (reconcileCompactFloors, PutRetention).
THEOREM FloorsMonotonic == Spec => FloorsForward
<1>1. Inv /\ [Next]_vars => [\A o \in Devices : manifest'.floors[o] >= manifest.floors[o]]_vars
  BY FloorsStep DEF Inv
<1> QED
  BY <1>1, InvHolds, PTL DEF Spec, FloorsForward

-----------------------------------------------------------------------------
(* What cursors and snapshots account for.                                 *)

\* A compactor that has swapped the manifest, up to its last delete.
Swapped == {"confirm", "delete", "advance", "cleanup", "prune"}

\* A device knows its own stream, and has pushed no more than it minted.
Own ==
    \A d \in Devices :
        /\ pushed[d] <= minted[d]
        /\ \A i \in Ids : i[1] = d /\ i[2] <= minted[d] => i \in known[d]

\* A compactor knows what is below the floors it computed.
Planned ==
    \A d \in Devices : proc[d].phase \in {"lock"} \cup Locked =>
        \A i \in Ids : i[2] < proc[d].base[i[1]] => i \in known[d]

\* The floors in force were computed, none was taken over from another manifest.
NoneCarried ==
    \A d \in Devices : proc[d].phase \in Swapped =>
        \A o \in Devices : proc[d].base[o] # 0 \/ proc[d].seen.floors[o] = 0

\* The snapshot object numbered n has what is below the floors, if it is there.
Covers(n, floors) ==
    \A s \in objects : s.no = n => \A i \in Ids : i[2] < floors[i[1]] => i \in s.covers

\* Snapshots are numbered as they are published, so no number is used twice.
Numbered ==
    /\ \A s \in objects : s.no # 0 /\ s.no <= published
    /\ manifest.no <= published
    /\ \A d \in Devices : proc[d].phase = "cas" => proc[d].no <= published
    /\ \A d \in Devices : proc[d].phase = "import" => proc[d].seen.no <= published

\* A snapshot has what is below the floors: of the manifest that names it, of the
\* compactor about to name it, of the manifest a recovery has read.
Whole ==
    /\ Covers(manifest.no, manifest.floors)
    /\ \A d \in Devices : proc[d].phase = "cas" => Covers(proc[d].no, proc[d].base)
    /\ \A d \in Devices : proc[d].phase = "import" => Covers(proc[d].seen.no, proc[d].seen.floors)

Honest == Own /\ CursorsHonest /\ Planned /\ NoneCarried /\ Numbered /\ Whole

\* The step the argument excludes, and the run compact_carry takes: a compactor
\* that has no floor of its own for a stream takes over the one of the manifest it
\* replaces (reconcileCompactFloors).
CarriesFloor ==
    \E d \in Devices : PutRetention(d) /\ \E o \in Devices : proc[d].base[o] = 0 /\ proc[d].seen.floors[o] # 0

LEMMA IdShape ==
    ASSUME NEW i \in Ids
    PROVE  i[1] \in Devices /\ i[2] \in Nat \ {0} /\ i[2] \in 1..Limit[i[1]] /\ i = <<i[1], i[2]>>
<1>1. PICK d \in Devices : i \in {d} \X (1..Limit[d])
  BY DEF Ids
<1>2. Limit[d] \in Nat
  BY CompactionAssumption
<1> QED BY <1>1, <1>2

\* The set that SafeCursor measures reaches from the cursor to a last event.
LEMMA SafeCursorStops ==
    ASSUME ReplicaType, NEW d \in Devices, NEW consumed, NEW i \in Ids,
           cursor[d][i[1]] < i[2], i[2] <= SafeCursor(d, i[1], consumed)
    PROVE  i \in consumed
<1> DEFINE o == i[1]
           lo == cursor[d][o] + 1
           S == {s \in lo..Limit[o] : \A t \in lo..s : <<o, t>> \in consumed}
<1>0. o \in Devices /\ i[2] \in Nat /\ i[2] <= Limit[o] /\ i = <<o, i[2]>> /\ Limit[o] \in Nat
      /\ cursor[d][o] \in Nat /\ lo \in Nat /\ lo <= i[2]
  BY IdShape, CompactionAssumption DEF ReplicaType, Floors
<1>1. SafeCursor(d, o, consumed) = cursor[d][o] + Cardinality(S)
  BY DEF SafeCursor
<1> HIDE DEF o, lo
<1>2. CASE i[2] \in S
  <2>1. i[2] \in lo..i[2]
    BY <1>0
  <2> QED BY <1>0, <1>2, <2>1
<1>3. CASE i[2] \notin S
  <2>1. PICK t \in lo..i[2] : <<o, t>> \notin consumed
    BY <1>0, <1>3
  <2>2. t \in Nat /\ S \subseteq lo..(i[2] - 1)
    <3>1. ASSUME NEW s \in S, ~(s < t) PROVE FALSE
      BY <1>0, <2>1, <3>1
    <3> QED BY <1>0, <2>1, <3>1
  <2>3. IsFiniteSet(lo..(i[2] - 1)) /\ Cardinality(lo..(i[2] - 1)) = i[2] - lo
    <3> DEFINE hi == i[2] - 1
    <3>1. lo \in Int /\ hi \in Int /\ lo <= hi + 1 /\ hi - lo + 1 = i[2] - lo /\ (lo > hi => i[2] - lo = 0)
      BY <1>0
    <3> HIDE DEF hi
    <3>2. IsFiniteSet(lo..hi) /\ Cardinality(lo..hi) = IF lo > hi THEN 0 ELSE hi - lo + 1
      BY <3>1, FS_Interval
    <3>3. IsFiniteSet(lo..hi) /\ Cardinality(lo..hi) = i[2] - lo
      BY <3>1, <3>2
    <3> QED BY <3>3 DEF hi
  <2>4. Cardinality(S) <= i[2] - lo
    <3> DEFINE T == lo..(i[2] - 1)
    <3>1. S \subseteq T /\ IsFiniteSet(T) /\ Cardinality(T) = i[2] - lo
      BY <2>2, <2>3
    <3> HIDE DEF S, T
    <3>2. Cardinality(S) <= Cardinality(T)
      BY <3>1, FS_Subset, ZenonT(30)
    <3> QED BY <3>1, <3>2
  <2>5. IsFiniteSet(S) /\ Cardinality(S) \in Nat
    BY <2>2, <2>3, FS_Subset, FS_CardinalityType
  <2>6. cursor[d][o] + Cardinality(S) < i[2]
    <3>1. lo = cursor[d][o] + 1
      BY DEF lo
    <3> QED BY <1>0, <2>4, <2>5, <3>1
  <2> QED BY <1>0, <1>1, <2>5, <2>6 DEF o
<1> QED BY <1>2, <1>3

-----------------------------------------------------------------------------
(* What a step may write.                                                  *)

\* Phases at which a command remembers nothing of the manifest or of floors.
Free == {"idle", "list", "again", "push", "plan", "manifest"}

\* A command turns into m.
Turned(d, m) ==
    \/ m.phase \in Free
    \/ m.phase = "import" /\ m.seen = manifest
    \/ m.phase = "lock" /\ m.base = ComputeCompactFloors(d)
    \/ /\ m.phase = "publish" /\ proc[d].phase \in {"lock", "cas"} /\ m.base = proc[d].base
       /\ proc[d].phase = "lock" => lock' = [holder |-> d, stale |-> FALSE]
    \/ /\ m.phase = "cas" /\ proc[d].phase = "publish" /\ m.base = proc[d].base /\ m.no = published + 1
       /\ published' = published + 1
       /\ objects' = objects \cup {[no |-> published + 1, covers |-> known[d], anchors |-> AnchorsFor(d, Committed(d))]}
    \/ /\ m.phase = "confirm" /\ proc[d].phase = "cas" /\ PutRetention(d) /\ m.base = proc[d].base /\ m.seen = proc[d].seen
       /\ manifest' = [no |-> proc[d].no, by |-> d, floors |-> Committed(d)]
    \/ /\ m.phase = "delete" /\ proc[d].phase = "confirm" /\ manifest.no = proc[d].no
       /\ m.base = proc[d].base /\ m.seen = proc[d].seen /\ m.no = proc[d].no
    \/ /\ m.phase \in {"advance", "cleanup", "prune"} /\ proc[d].phase \in {"delete", "advance", "cleanup"}
       /\ m.base = proc[d].base /\ m.seen = proc[d].seen /\ m.no = proc[d].no

Turns == \E d \in Devices, m \in Memory : proc' = [proc EXCEPT ![d] = m] /\ Turned(d, m)

LEMMA IdleTurns == ASSUME NEW d \in Devices, proc' = [proc EXCEPT ![d] = Idle] PROVE Turns
<1>1. Idle.phase \in Free
  BY DEF Idle, Free
<1> QED BY <1>1, IdleMemory DEF Turns, Turned

LEMMA GotoTurns ==
    ASSUME TypeOK, NEW d \in Devices, NEW ph \in Phases, Goto(d, ph),
           \/ ph \in Free
           \/ ph = "delete" /\ proc[d].phase = "confirm" /\ manifest.no = proc[d].no
           \/ ph \in {"advance", "cleanup", "prune"} /\ proc[d].phase \in {"delete", "advance", "cleanup"}
    PROVE  Turns
<1> DEFINE m == [proc[d] EXCEPT !.phase = ph]
<1>1. m \in Memory /\ m.phase = ph /\ m.base = proc[d].base /\ m.seen = proc[d].seen /\ m.no = proc[d].no
  BY DEF TypeOK, Memory
<1>2. proc' = [proc EXCEPT ![d] = m]
  BY DEF Goto, TypeOK
<1> HIDE DEF m
<1>3. Turned(d, m)
  BY <1>1 DEF Turned
<1> QED BY <1>1, <1>2, <1>3 DEF Turns

LEMMA PullTurns ==
    ASSUME TypeOK, NEW d \in Devices,
           PullAgain(d) \/ ListAndApply(d) \/ Push(d) \/ ReadManifest(d) \/ Import(d)
    PROVE  Turns
<1>0. Free \subseteq Phases /\ {"list", "again", "push", "plan"} \subseteq Free /\ "import" \in Phases
  BY DEF Free, Phases
<1>1. CASE End(d)
  BY <1>1, IdleTurns DEF End
<1>2. CASE Goto(d, "list") \/ Goto(d, "again") \/ Goto(d, "push") \/ Goto(d, "plan")
  BY <1>0, <1>2, GotoTurns
<1>3. CASE proc' = [proc EXCEPT ![d].phase = "import", ![d].seen = manifest]
  <2> DEFINE m == [proc[d] EXCEPT !.phase = "import", !.seen = manifest]
  <2>1. m \in Memory /\ m.phase = "import" /\ m.seen = manifest /\ proc' = [proc EXCEPT ![d] = m]
    BY <1>0, <1>3 DEF TypeOK, HubType, Memory
  <2> HIDE DEF m
  <2> QED BY <2>1 DEF Turns, Turned
<1> QED
  BY <1>1, <1>2, <1>3 DEF PullAgain, ListAndApply, Push, ReadManifest, Import

LEMMA CompactTurns ==
    ASSUME TypeOK, TypeOK', NEW d \in Devices,
           \/ Plan(d) \/ TakeLock(d) \/ Publish(d) \/ PutRetention(d) \/ ConfirmManifest(d)
           \/ DeleteCold(d) \/ AdvanceCursors(d) \/ CleanupRevoked(d) \/ PruneSnapshots(d)
    PROVE  Turns
<1>0. {"delete", "advance", "cleanup", "prune"} \subseteq Phases /\ proc[d] \in Memory /\ proc \in [Devices -> Memory]
      /\ proc'[d] \in Memory
  BY DEF Phases, Locked, TypeOK
<1>1. CASE End(d)
  BY <1>1, IdleTurns DEF End
<1>2. ASSUME NEW m, proc' = [proc EXCEPT ![d] = m], Turned(d, m) PROVE Turns
  <2>1. m = proc'[d]
    BY <1>0, <1>2
  <2> QED BY <1>0, <1>2, <2>1 DEF Turns
<1>3. CASE Plan(d)
  <2>1. CASE proc' = [proc EXCEPT ![d].phase = "lock", ![d].base = ComputeCompactFloors(d), ![d].seen = manifest]
    <3> DEFINE m == [proc[d] EXCEPT !.phase = "lock", !.base = ComputeCompactFloors(d), !.seen = manifest]
    <3>1. m.phase = "lock" /\ m.base = ComputeCompactFloors(d) /\ proc' = [proc EXCEPT ![d] = m]
      BY <1>0, <2>1 DEF Memory
    <3> HIDE DEF m
    <3> QED BY <1>2, <3>1 DEF Turned
  <2> QED BY <1>1, <1>3, <2>1 DEF Plan
<1>4. CASE TakeLock(d)
  <2>1. CASE lock' = [holder |-> d, stale |-> FALSE] /\ proc' = [proc EXCEPT ![d].phase = "publish"]
    <3> DEFINE m == [proc[d] EXCEPT !.phase = "publish"]
    <3>1. m.phase = "publish" /\ m.base = proc[d].base /\ proc' = [proc EXCEPT ![d] = m] /\ proc[d].phase = "lock"
      BY <1>0, <1>4, <2>1 DEF Memory, TakeLock
    <3> HIDE DEF m
    <3> QED BY <1>2, <2>1, <3>1 DEF Turned
  <2> QED BY <1>1, <1>4, <2>1 DEF TakeLock
<1>5. CASE Publish(d)
  <2> DEFINE snap == [no |-> published + 1, covers |-> known[d], anchors |-> AnchorsFor(d, Committed(d))]
  <2>1. CASE /\ objects' = objects \cup {snap} /\ published' = published + 1
             /\ proc' = [proc EXCEPT ![d].phase = "cas", ![d].no = snap.no]
    <3> DEFINE m == [proc[d] EXCEPT !.phase = "cas", !.no = published + 1]
    <3>1. m.phase = "cas" /\ m.base = proc[d].base /\ m.no = published + 1 /\ proc' = [proc EXCEPT ![d] = m]
          /\ proc[d].phase = "publish"
      BY <1>0, <1>5, <2>1 DEF Memory, Publish
    <3> HIDE DEF m
    <3> QED BY <1>2, <2>1, <3>1 DEF Turned
  <2> QED BY <1>1, <1>5, <2>1 DEF Publish
<1>6. CASE PutRetention(d)
  <2>1. CASE Goto(d, "confirm") /\ manifest' = [no |-> proc[d].no, by |-> d, floors |-> Committed(d)]
    <3> DEFINE m == [proc[d] EXCEPT !.phase = "confirm"]
    <3>1. m.phase = "confirm" /\ m.base = proc[d].base /\ m.seen = proc[d].seen /\ proc' = [proc EXCEPT ![d] = m]
          /\ proc[d].phase = "cas"
      BY <1>0, <1>6, <2>1 DEF Memory, Goto, PutRetention
    <3> HIDE DEF m
    <3> QED BY <1>2, <1>6, <2>1, <3>1 DEF Turned
  <2>2. CASE proc' = [proc EXCEPT ![d].phase = "publish", ![d].again = TRUE, ![d].seen = manifest]
    <3> DEFINE m == [proc[d] EXCEPT !.phase = "publish", !.again = TRUE, !.seen = manifest]
    <3>1. m.phase = "publish" /\ m.base = proc[d].base /\ proc' = [proc EXCEPT ![d] = m] /\ proc[d].phase = "cas"
      BY <1>0, <1>6, <2>2 DEF Memory, PutRetention
    <3> HIDE DEF m
    <3> QED BY <1>2, <3>1 DEF Turned
  <2> QED BY <1>1, <1>6, <2>1, <2>2 DEF PutRetention
<1>7. CASE ConfirmManifest(d)
  <2>1. CASE Goto(d, "delete") /\ manifest.no = proc[d].no
    BY <1>0, <1>7, <2>1, GotoTurns DEF ConfirmManifest
  <2> QED BY <1>1, <1>7, <2>1 DEF ConfirmManifest
<1>8. CASE DeleteCold(d) \/ AdvanceCursors(d) \/ CleanupRevoked(d)
  BY <1>0, <1>8, GotoTurns DEF DeleteCold, AdvanceCursors, CleanupRevoked
<1>9. CASE PruneSnapshots(d)
  BY <1>1, <1>9 DEF PruneSnapshots
<1> QED
  BY <1>3, <1>4, <1>5, <1>6, <1>7, <1>8, <1>9

LEMMA StepTurns == TypeOK /\ TypeOK' /\ [Next]_vars => proc' = proc \/ Turns
<1> SUFFICES ASSUME TypeOK, TypeOK', [Next]_vars PROVE proc' = proc \/ Turns
  OBVIOUS
<1>1. ASSUME NEW d \in Devices, NEW goal \in {"sync", "compact"}, Begin(d, goal) PROVE Turns
  <2> DEFINE ph == IF BelowFloor(cursor[d], manifest.floors) THEN "manifest" ELSE "list"
             m == [Idle EXCEPT !.goal = goal, !.phase = ph]
  <2>1. ph \in Free /\ ph \in Phases
    BY DEF Free, Phases
  <2>2. m.phase = ph /\ m \in Memory
    <3> HIDE DEF ph
    <3> QED BY <2>1, IdleMemory DEF Memory
  <2>3. proc' = [proc EXCEPT ![d] = m]
    BY <1>1 DEF Begin
  <2> HIDE DEF m
  <2> QED BY <2>1, <2>2, <2>3 DEF Turns, Turned
<1>2. CASE LockExpires \/ UNCHANGED vars
  BY <1>2 DEF LockExpires, vars
<1>3. ASSUME NEW d \in Devices, Mint(d) \/ Revoke(d) \/ Crash(d) PROVE proc' = proc \/ Turns
  BY <1>3, IdleTurns DEF Mint, Revoke, Crash
<1>4. ASSUME NEW d \in Devices, BeginSync(d) \/ BeginCompact(d) PROVE Turns
  BY <1>1, <1>4 DEF BeginSync, BeginCompact
<1> QED
  BY <1>2, <1>3, <1>4, PullTurns, CompactTurns DEF Next, Step

\* Who writes what: everything but the memories of commands.
LEMMA Writers ==
    ASSUME [Next]_vars
    PROVE  /\ \/ minted' = minted /\ known' = known
              \/ \E d \in Devices : Mint(d)
              \/ minted' = minted /\ \E d \in Devices : ListAndApply(d) \/ Import(d)
           /\ cursor' = cursor \/ \E d \in Devices : ListAndApply(d) \/ Import(d) \/ AdvanceCursors(d)
           /\ \/ pushed' = pushed /\ stored' = stored
              \/ \E d \in Devices : Push(d)
              \/ pushed' = pushed /\ \E d \in Devices : DeleteCold(d) \/ CleanupRevoked(d)
           /\ \/ objects' = objects /\ published' = published
              \/ \E d \in Devices : Publish(d)
              \/ published' = published /\ \E d \in Devices : PruneSnapshots(d)
           /\ manifest' = manifest \/ \E d \in Devices : PutRetention(d)
           /\ revoked' = revoked \/ \E d \in Devices : Revoke(d)
<1> USE DEF replica, hub, counters
<1>1. CASE LockExpires \/ UNCHANGED vars
  BY <1>1 DEF LockExpires, vars
<1>2. CASE \E d \in Devices : Mint(d) \/ Revoke(d) \/ BeginSync(d) \/ BeginCompact(d) \/ Crash(d)
  <2>1. ASSUME NEW d \in Devices, Mint(d) \/ Revoke(d) \/ BeginSync(d) \/ BeginCompact(d) \/ Crash(d)
        PROVE  /\ (minted' = minted /\ known' = known) \/ Mint(d)
               /\ cursor' = cursor /\ pushed' = pushed /\ stored' = stored /\ objects' = objects
               /\ published' = published /\ manifest' = manifest /\ (revoked' = revoked \/ Revoke(d))
    BY <2>1 DEF Mint, Revoke, BeginSync, BeginCompact, Begin, Crash
  <2> QED BY <1>2, <2>1
<1>3. CASE \E d \in Devices : PullAgain(d) \/ ListAndApply(d) \/ Push(d) \/ ReadManifest(d) \/ Import(d)
  <2>1. ASSUME NEW d \in Devices, PullAgain(d) \/ ListAndApply(d) \/ Push(d) \/ ReadManifest(d) \/ Import(d)
        PROVE  /\ minted' = minted /\ (known' = known \/ ListAndApply(d) \/ Import(d))
               /\ (cursor' = cursor \/ ListAndApply(d) \/ Import(d))
               /\ (pushed' = pushed /\ stored' = stored) \/ Push(d)
               /\ objects' = objects /\ published' = published /\ manifest' = manifest /\ revoked' = revoked
    BY <2>1 DEF PullAgain, ListAndApply, Push, ReadManifest, Import
  <2> QED BY <1>3, <2>1
<1>4. CASE \E d \in Devices :
             \/ Plan(d) \/ TakeLock(d) \/ Publish(d) \/ PutRetention(d) \/ ConfirmManifest(d)
             \/ DeleteCold(d) \/ AdvanceCursors(d) \/ CleanupRevoked(d) \/ PruneSnapshots(d)
  <2>1. ASSUME NEW d \in Devices,
               \/ Plan(d) \/ TakeLock(d) \/ Publish(d) \/ PutRetention(d) \/ ConfirmManifest(d)
               \/ DeleteCold(d) \/ AdvanceCursors(d) \/ CleanupRevoked(d) \/ PruneSnapshots(d)
        PROVE  /\ minted' = minted /\ known' = known /\ pushed' = pushed /\ revoked' = revoked
               /\ cursor' = cursor \/ AdvanceCursors(d)
               /\ stored' = stored \/ DeleteCold(d) \/ CleanupRevoked(d)
               /\ (objects' = objects /\ published' = published) \/ Publish(d) \/ (published' = published /\ PruneSnapshots(d))
               /\ manifest' = manifest \/ PutRetention(d)
    BY <2>1 DEF Plan, TakeLock, Publish, PutRetention, ConfirmManifest, DeleteCold, AdvanceCursors,
                CleanupRevoked, PruneSnapshots
  <2> QED BY <1>4, <2>1
<1> QED
  BY <1>1, <1>2, <1>3, <1>4 DEF Next, Step

-----------------------------------------------------------------------------
(* What cursors and snapshots account for is kept.                         *)

LEMMA KnownGrows ==
    ASSUME TypeOK, [Next]_vars, NEW d \in Devices
    PROVE  known[d] \subseteq known'[d]
<1>0. known \in [Devices -> SUBSET Ids]
  BY DEF TypeOK, ReplicaType
<1>1. ASSUME NEW e \in Devices, Mint(e) \/ ListAndApply(e) PROVE \E K : known' = [known EXCEPT ![e] = @ \cup K]
  BY <1>1 DEF Mint, ListAndApply
<1>2. ASSUME NEW e \in Devices, Import(e) PROVE known' = known \/ \E K : known' = [known EXCEPT ![e] = @ \cup K]
  BY <1>2 DEF Import, ImportSnapshot
<1>3. ASSUME NEW e \in Devices, NEW K, known' = [known EXCEPT ![e] = @ \cup K] PROVE known[d] \subseteq known'[d]
  BY <1>0, <1>3
<1> QED BY <1>1, <1>2, <1>3, Writers

LEMMA OwnStep == TypeOK /\ Own /\ [Next]_vars => Own'
<1> SUFFICES ASSUME TypeOK, Own, [Next]_vars, NEW d \in Devices
             PROVE  /\ pushed'[d] <= minted'[d]
                    /\ \A i \in Ids : i[1] = d /\ i[2] <= minted'[d] => i \in known'[d]
  BY DEF Own
<1>0. /\ minted \in [Devices -> Nat] /\ pushed \in [Devices -> Nat] /\ known \in [Devices -> SUBSET Ids]
      /\ pushed[d] <= minted[d] /\ \A i \in Ids : i[1] = d /\ i[2] <= minted[d] => i \in known[d]
  BY DEF TypeOK, ReplicaType, Floors, Own
<1>1. ASSUME NEW e \in Devices, Mint(e)
      PROVE  /\ pushed'[d] <= minted'[d]
             /\ \A i \in Ids : i[1] = d /\ i[2] <= minted'[d] => i \in known'[d]
  <2>1. /\ pushed' = pushed /\ minted' = [minted EXCEPT ![e] = @ + 1]
        /\ known' = [known EXCEPT ![e] = @ \cup {<<e, minted[e] + 1>>}]
    BY <1>1 DEF Mint
  <2>2. ASSUME NEW i \in Ids, i[1] = d, i[2] <= minted'[d] PROVE i \in known'[d]
    <3>1. i[2] \in Nat /\ i = <<d, i[2]>>
      BY <2>2, IdShape
    <3>2. CASE i[2] <= minted[d]
      BY <1>0, <2>1, <2>2, <3>2
    <3>3. CASE ~(i[2] <= minted[d])
      <4>1. e = d /\ i[2] = minted[e] + 1
        BY <1>0, <2>1, <2>2, <3>1, <3>3
      <4> QED BY <1>0, <2>1, <3>1, <4>1
    <3> QED BY <3>2, <3>3
  <2> QED BY <1>0, <2>1, <2>2
<1>2. CASE minted' = minted
  <2>1. \A i \in Ids : i[1] = d /\ i[2] <= minted'[d] => i \in known'[d]
    BY <1>0, <1>2, KnownGrows
  <2>2. ASSUME NEW e \in Devices, Push(e) PROVE pushed'[d] <= minted'[d]
    <3>1. pushed' = [pushed EXCEPT ![e] = minted[e]]
      BY <2>2 DEF Push
    <3> QED BY <1>0, <1>2, <3>1
  <2> QED BY <1>0, <1>2, <2>1, <2>2, Writers
<1> QED BY <1>1, <1>2, Writers

LEMMA CursorsStep == TypeOK /\ Honest /\ [Next]_vars => CursorsHonest'
<1> SUFFICES ASSUME TypeOK, Honest, [Next]_vars PROVE CursorsHonest'
  OBVIOUS
<1>0. /\ cursor \in [Devices -> Floors] /\ known \in [Devices -> SUBSET Ids] /\ CursorsHonest
      /\ \A d \in Devices, o \in Devices : cursor[d][o] \in Nat
  BY DEF TypeOK, ReplicaType, Honest, Floors
<1> SUFFICES ASSUME NEW d \in Devices, NEW i \in Ids, i[2] <= cursor'[d][i[1]] PROVE i \in known'[d]
  BY DEF CursorsHonest
<1>i. i[1] \in Devices /\ i[2] \in Nat
  BY IdShape
<1>a. CASE i[2] <= cursor[d][i[1]]
  BY <1>0, <1>a, KnownGrows DEF CursorsHonest
<1>b. CASE ~(i[2] <= cursor[d][i[1]])
  <2>1. ASSUME NEW e \in Devices, ListAndApply(e) PROVE i \in known'[d]
    <3> DEFINE batch == {j \in stored : j[2] > cursor[e][j[1]]}
               good == Chained(e, batch)
               new == [o \in Devices |-> SafeCursor(e, o, good)]
    <3>1. known' = [known EXCEPT ![e] = @ \cup good] /\ cursor' = [cursor EXCEPT ![e] = new]
      BY <2>1 DEF ListAndApply
    <3>2. e = d /\ i[2] <= SafeCursor(d, i[1], good)
      <4>1. e = d
        BY <1>0, <1>b, <3>1
      <4>2. cursor'[d] = new
        BY <1>0, <3>1, <4>1
      <4> QED BY <1>i, <4>1, <4>2
    <3>3. cursor[d][i[1]] < i[2]
      BY <1>0, <1>b, <1>i
    <3> HIDE DEF good
    <3>4. i \in good
      BY <3>2, <3>3, SafeCursorStops DEF TypeOK
    <3> QED BY <1>0, <3>1, <3>2, <3>4
  <2>2. ASSUME NEW e \in Devices, NEW floors \in Floors, cursor' = [cursor EXCEPT ![e] = AtFloors(@, floors)]
        PROVE  e = d /\ i[2] < floors[i[1]]
    <3>1. e = d
      BY <1>0, <1>b, <2>2
    <3>2. i[2] <= AtFloors(cursor[d], floors)[i[1]]
      BY <1>0, <2>2, <3>1
    <3>3. i[2] <= IF floors[i[1]] > 0 THEN MaxOf(cursor[d][i[1]], floors[i[1]] - 1) ELSE cursor[d][i[1]]
      BY <1>i, <3>2 DEF AtFloors
    <3>4. floors[i[1]] \in Nat /\ cursor[d][i[1]] \in Nat
      BY <1>0, <1>i DEF Floors
    <3> QED BY <1>b, <1>i, <3>1, <3>3, <3>4 DEF MaxOf
  <2>3. ASSUME NEW e \in Devices, Import(e) PROVE i \in known'[d]
    <3>1. cursor' # cursor
      BY <1>b
    <3>2. PICK snap \in {s \in objects : s.no = proc[e].seen.no} : ImportSnapshot(e, snap, proc[e].seen.floors)
      BY <2>3, <3>1 DEF Import
    <3>3. proc[e].phase = "import" /\ proc[e].seen.floors \in Floors
      BY <2>3 DEF Import, TypeOK, Memory, Manifest
    <3>4. e = d /\ i[2] < proc[e].seen.floors[i[1]]
      BY <2>2, <3>2, <3>3 DEF ImportSnapshot
    <3>5. i \in snap.covers
      BY <3>2, <3>3, <3>4 DEF Honest, Whole, Covers
    <3> QED BY <1>0, <3>2, <3>4, <3>5 DEF ImportSnapshot
  <2>4. ASSUME NEW e \in Devices, AdvanceCursors(e) PROVE i \in known'[d]
    <3>1. proc[e].phase = "advance" /\ cursor' = [cursor EXCEPT ![e] = AtFloors(@, Committed(e))]
          /\ known' = known
      BY <2>4 DEF AdvanceCursors
    <3>2. Committed(e) \in Floors /\ proc[e].base \in Floors /\ proc[e].seen.floors \in Floors
      BY ReconciledType DEF Committed, TypeOK, Memory, Manifest
    <3>3. e = d /\ i[2] < Committed(e)[i[1]]
      BY <2>2, <3>1, <3>2
    <3>4. proc[e].base[i[1]] # 0 \/ proc[e].seen.floors[i[1]] = 0
      BY <1>i, <3>1 DEF Honest, NoneCarried, Swapped
    <3>5. i[2] < proc[e].base[i[1]]
      BY <1>i, <3>2, <3>3, <3>4 DEF Committed, Reconciled
    <3> QED BY <3>1, <3>3, <3>5 DEF Honest, Planned, Locked
  <2> QED BY <1>b, <2>1, <2>3, <2>4, Writers
<1> QED BY <1>a, <1>b

LEMMA PlannedStep == TypeOK /\ TypeOK' /\ Honest /\ [Next]_vars => Planned'
<1> SUFFICES ASSUME TypeOK, TypeOK', Honest, [Next]_vars, NEW d \in Devices, proc'[d].phase \in {"lock"} \cup Locked,
                    NEW i \in Ids, i[2] < proc'[d].base[i[1]]
             PROVE  i \in known'[d]
  BY DEF Planned
<1>0. i[1] \in Devices /\ i[2] \in Nat /\ known[d] \subseteq known'[d]
  BY IdShape, KnownGrows
<1>1. CASE proc[d].phase \in {"lock"} \cup Locked /\ proc'[d].base = proc[d].base
  BY <1>0, <1>1 DEF Honest, Planned
<1>2. CASE proc'[d].base = ComputeCompactFloors(d)
  <2>1. \A o \in Devices : pushed[o] \in Nat /\ minted[o] \in Nat /\ cursor[d][o] \in Nat
    BY DEF TypeOK, ReplicaType, Floors
  <2>2. CASE i[1] = d
    <3>1. i[2] < IF pushed[d] > 0 THEN pushed[d] + 1 ELSE 0
      BY <1>0, <1>2, <2>2 DEF ComputeCompactFloors
    <3>2. i[2] <= pushed[d] /\ pushed[d] <= minted[d]
      BY <1>0, <2>1, <3>1 DEF Honest, Own
    <3> QED BY <1>0, <2>1, <2>2, <3>2 DEF Honest, Own
  <2>3. CASE i[1] # d
    <3>1. i[2] < IF cursor[d][i[1]] > 0 THEN cursor[d][i[1]] + 1 ELSE 0
      BY <1>0, <1>2, <2>3 DEF ComputeCompactFloors
    <3>2. i[2] <= cursor[d][i[1]]
      BY <1>0, <2>1, <3>1
    <3> QED BY <1>0, <3>2 DEF Honest, CursorsHonest
  <2> QED BY <2>2, <2>3
<1>3. CASE proc' = proc
  BY <1>1, <1>3
<1>4. CASE Turns
  <2>1. PICK e \in Devices, m \in Memory : proc' = [proc EXCEPT ![e] = m] /\ Turned(e, m)
    BY <1>4 DEF Turns
  <2>2. CASE e # d
    BY <1>1, <2>1, <2>2 DEF TypeOK
  <2>3. CASE e = d
    <3>1. proc'[d] = m /\ Turned(d, m)
      BY <2>1, <2>3 DEF TypeOK
    <3> QED BY <1>1, <1>2, <3>1 DEF Turned, Free, Locked
  <2> QED BY <2>2, <2>3
<1> QED BY <1>3, <1>4, StepTurns

LEMMA CarriedStep == TypeOK /\ TypeOK' /\ Honest /\ [Next]_vars /\ ~CarriesFloor => NoneCarried'
<1> SUFFICES ASSUME TypeOK, TypeOK', Honest, [Next]_vars, ~CarriesFloor, NEW d \in Devices, proc'[d].phase \in Swapped,
                    NEW o \in Devices
             PROVE  proc'[d].base[o] # 0 \/ proc'[d].seen.floors[o] = 0
  BY DEF NoneCarried
<1>1. CASE proc[d].phase \in Swapped /\ proc'[d].base = proc[d].base /\ proc'[d].seen = proc[d].seen
  BY <1>1 DEF Honest, NoneCarried
<1>2. CASE PutRetention(d) /\ proc'[d].base = proc[d].base /\ proc'[d].seen = proc[d].seen
  BY <1>2 DEF CarriesFloor
<1>3. CASE proc' = proc
  BY <1>1, <1>3
<1>4. CASE Turns
  <2>1. PICK e \in Devices, m \in Memory : proc' = [proc EXCEPT ![e] = m] /\ Turned(e, m)
    BY <1>4 DEF Turns
  <2>2. CASE e # d
    BY <1>1, <2>1, <2>2 DEF TypeOK
  <2>3. CASE e = d
    <3>1. proc'[d] = m /\ Turned(d, m)
      BY <2>1, <2>3 DEF TypeOK
    <3> QED BY <1>1, <1>2, <3>1 DEF Turned, Free, Swapped
  <2> QED BY <2>2, <2>3
<1> QED BY <1>3, <1>4, StepTurns

LEMMA NumberedStep == TypeOK /\ TypeOK' /\ Honest /\ [Next]_vars => Numbered' /\ published <= published'
<1> SUFFICES ASSUME TypeOK, TypeOK', Honest, [Next]_vars PROVE Numbered' /\ published <= published'
  OBVIOUS
<1>0. /\ Numbered /\ published \in Nat /\ manifest.no \in Nat /\ proc \in [Devices -> Memory]
      /\ \A s \in objects : s.no \in Nat
      /\ \A d \in Devices : proc[d].no \in Nat /\ proc[d].seen.no \in Nat
  BY DEF Honest, TypeOK, HubType, Manifest, Snapshot, Memory
<1>1. /\ published' \in Nat /\ published <= published'
      /\ \A s \in objects' : s.no # 0 /\ s.no <= published'
  <2>1. ASSUME NEW d \in Devices, Publish(d)
        PROVE  /\ published' \in Nat /\ published <= published'
               /\ \A s \in objects' : s.no # 0 /\ s.no <= published'
    <3> DEFINE snap == [no |-> published + 1, covers |-> known[d], anchors |-> AnchorsFor(d, Committed(d))]
    <3>1. \/ objects' = objects /\ published' = published
          \/ objects' = objects \cup {snap} /\ published' = published + 1
      BY <2>1 DEF Publish
    <3>2. snap.no = published + 1
      OBVIOUS
    <3> HIDE DEF snap
    <3> QED BY <1>0, <3>1, <3>2 DEF Numbered
  <2>2. ASSUME NEW d \in Devices, PruneSnapshots(d) PROVE objects' \subseteq objects
    BY <2>2 DEF PruneSnapshots
  <2> QED BY <1>0, <2>1, <2>2, Writers DEF Numbered
<1>2. manifest'.no <= published'
  <2>1. ASSUME NEW d \in Devices, PutRetention(d) PROVE manifest'.no <= published
    <3>1. proc[d].phase = "cas" /\ (manifest' = manifest \/ manifest'.no = proc[d].no)
      BY <2>1 DEF PutRetention
    <3> QED BY <1>0, <3>1 DEF Numbered
  <2>2. manifest'.no \in Nat
    BY DEF TypeOK, HubType, Manifest
  <2> QED BY <1>0, <1>1, <2>1, <2>2, Writers DEF Numbered
<1>3. ASSUME NEW d \in Devices
      PROVE  /\ proc'[d].phase = "cas" => proc'[d].no <= published'
             /\ proc'[d].phase = "import" => proc'[d].seen.no <= published'
  <2>1. CASE proc'[d] = proc[d]
    BY <1>0, <1>1, <2>1 DEF Numbered
  <2>2. CASE Turns
    <3>1. PICK e \in Devices, m \in Memory : proc' = [proc EXCEPT ![e] = m] /\ Turned(e, m)
      BY <2>2 DEF Turns
    <3>2. CASE e = d
      <4>1. proc'[d] = m /\ Turned(d, m)
        BY <1>0, <3>1, <3>2
      <4>2. CASE m.phase = "cas"
        <5>1. m.no = published + 1 /\ published' = published + 1
          BY <4>1, <4>2 DEF Turned, Free
        <5> QED BY <1>1, <4>1, <4>2, <5>1
      <4>3. CASE m.phase = "import"
        <5>1. m.seen = manifest
          BY <4>1, <4>3 DEF Turned, Free
        <5> QED BY <1>0, <1>1, <4>1, <4>3, <5>1 DEF Numbered
      <4> QED BY <4>1, <4>2, <4>3
    <3> QED BY <1>0, <2>1, <3>1, <3>2
  <2> QED BY <2>1, <2>2, StepTurns
<1> QED BY <1>1, <1>2, <1>3 DEF Numbered

\* Covers after a step, for a number and floors from before it.
StillCovers(n, floors) ==
    \A s \in objects' : s.no = n => \A i \in Ids : i[2] < floors[i[1]] => i \in s.covers

\* A numbered snapshot keeps what it has: objects are never overwritten.
LEMMA CoversStay ==
    ASSUME TypeOK, [Next]_vars, NEW n \in Nat, n <= published, NEW floors, Covers(n, floors)
    PROVE  StillCovers(n, floors)
<1>0. published \in Nat
  BY DEF TypeOK
<1>1. \A s \in objects' : s \in objects \/ s.no = published + 1
  <2>1. ASSUME NEW d \in Devices, Publish(d) PROVE \A s \in objects' : s \in objects \/ s.no = published + 1
    BY <2>1 DEF Publish
  <2>2. ASSUME NEW d \in Devices, PruneSnapshots(d) PROVE objects' \subseteq objects
    BY <2>2 DEF PruneSnapshots
  <2> QED BY <2>1, <2>2, Writers
<1> QED BY <1>0, <1>1 DEF Covers, StillCovers

LEMMA WholeStep == TypeOK /\ TypeOK' /\ Honest /\ [Next]_vars /\ ~CarriesFloor => Whole'
<1> SUFFICES ASSUME TypeOK, TypeOK', Honest, [Next]_vars, ~CarriesFloor PROVE Whole'
  OBVIOUS
<1>0. /\ Numbered /\ Whole /\ published \in Nat /\ manifest.no \in Nat /\ proc \in [Devices -> Memory]
      /\ \A d \in Devices : proc[d].no \in Nat /\ proc[d].seen.no \in Nat
  BY DEF Honest, TypeOK, HubType, Manifest, Memory
<1>1. Covers(manifest.no, manifest.floors)'
  <2>1. CASE manifest' = manifest
    <3> DEFINE n == manifest.no
               f == manifest.floors
    <3>1. n \in Nat /\ n <= published /\ Covers(n, f)
      BY <1>0 DEF Numbered, Whole
    <3>2. manifest'.no = n /\ manifest'.floors = f
      BY <2>1
    <3> HIDE DEF n, f
    <3>3. StillCovers(n, f)
      BY <3>1, CoversStay
    <3> QED BY <3>2, <3>3 DEF Covers, StillCovers
  <2>2. ASSUME NEW d \in Devices, PutRetention(d), manifest' # manifest PROVE Covers(manifest.no, manifest.floors)'
    <3>1. /\ proc[d].phase = "cas" /\ manifest'.no = proc[d].no /\ manifest'.floors = Committed(d)
          /\ objects' = objects
      BY <2>2 DEF PutRetention
    <3>2. \A o \in Devices : proc[d].base[o] # 0 \/ proc[d].seen.floors[o] = 0
      BY <2>2 DEF CarriesFloor
    <3>3. \A i \in Ids : Committed(d)[i[1]] = proc[d].base[i[1]]
      <4>1. \A o \in Devices : Committed(d)[o] = proc[d].base[o]
        BY <3>2 DEF Committed, Reconciled
      <4> QED BY <4>1, IdShape
    <3>4. Covers(proc[d].no, proc[d].base)
      BY <1>0, <3>1 DEF Whole
    <3> QED BY <3>1, <3>3, <3>4 DEF Covers
  <2> QED BY <2>1, <2>2, Writers
<1>2. ASSUME NEW d \in Devices
      PROVE  /\ proc'[d].phase = "cas" => Covers(proc[d].no, proc[d].base)'
             /\ proc'[d].phase = "import" => Covers(proc[d].seen.no, proc[d].seen.floors)'
  <2>a. ASSUME NEW n \in Nat, n <= published, NEW floors, Covers(n, floors) PROVE StillCovers(n, floors)
    BY <2>a, CoversStay
  <2>1. CASE proc'[d] = proc[d]
    <3> DEFINE n == proc[d].no
               b == proc[d].base
               k == proc[d].seen.no
               f == proc[d].seen.floors
    <3>1. /\ proc'[d].no = n /\ proc'[d].base = b /\ proc'[d].seen.no = k /\ proc'[d].seen.floors = f
          /\ proc'[d].phase = proc[d].phase
      BY <2>1
    <3>2. ASSUME proc[d].phase = "cas" PROVE Covers(proc[d].no, proc[d].base)'
      <4>1. n \in Nat /\ n <= published /\ Covers(n, b)
        BY <1>0, <3>2 DEF Numbered, Whole
      <4> HIDE DEF n, b
      <4>2. StillCovers(n, b)
        BY <4>1, <2>a
      <4> QED BY <3>1, <4>2 DEF Covers, StillCovers
    <3>3. ASSUME proc[d].phase = "import" PROVE Covers(proc[d].seen.no, proc[d].seen.floors)'
      <4>1. k \in Nat /\ k <= published /\ Covers(k, f)
        BY <1>0, <3>3 DEF Numbered, Whole
      <4> HIDE DEF k, f
      <4>2. StillCovers(k, f)
        BY <4>1, <2>a
      <4> QED BY <3>1, <4>2 DEF Covers, StillCovers
    <3> QED BY <3>1, <3>2, <3>3
  <2>2. CASE Turns
    <3>1. PICK e \in Devices, m \in Memory : proc' = [proc EXCEPT ![e] = m] /\ Turned(e, m)
      BY <2>2 DEF Turns
    <3>2. CASE e = d
      <4>1. proc'[d] = m /\ Turned(d, m)
        BY <1>0, <3>1, <3>2
      <4>2. ASSUME m.phase = "cas" PROVE Covers(proc[d].no, proc[d].base)'
        <5> DEFINE snap == [no |-> published + 1, covers |-> known[d], anchors |-> AnchorsFor(d, Committed(d))]
        <5>1. /\ proc[d].phase = "publish" /\ m.base = proc[d].base /\ m.no = published + 1
              /\ objects' = objects \cup {snap}
          BY <4>1, <4>2 DEF Turned, Free
        <5>2. \A s \in objects' : s.no = published + 1 => s.covers = known[d]
          <6>1. snap.covers = known[d]
            OBVIOUS
          <6>2. \A s \in objects : s.no # published + 1
            BY <1>0 DEF Numbered, TypeOK, HubType, Snapshot
          <6> HIDE DEF snap
          <6> QED BY <5>1, <6>1, <6>2
        <5>3. \A i \in Ids : i[2] < proc[d].base[i[1]] => i \in known[d]
          BY <5>1 DEF Honest, Planned, Locked
        <5>4. proc'[d].no = published + 1 /\ proc'[d].base = proc[d].base
          BY <4>1, <5>1
        <5> QED BY <5>2, <5>3, <5>4 DEF Covers
      <4>3. ASSUME m.phase = "import" PROVE Covers(proc[d].seen.no, proc[d].seen.floors)'
        <5> DEFINE n == manifest.no
                   f == manifest.floors
        <5>1. n \in Nat /\ n <= published /\ Covers(n, f)
          BY <1>0 DEF Numbered, Whole
        <5>2. proc'[d].seen.no = n /\ proc'[d].seen.floors = f
          BY <4>1, <4>3 DEF Turned, Free
        <5> HIDE DEF n, f
        <5>3. StillCovers(n, f)
          BY <5>1, <2>a
        <5> QED BY <5>2, <5>3 DEF Covers, StillCovers
      <4> QED BY <4>1, <4>2, <4>3
    <3> QED BY <1>0, <2>1, <3>1, <3>2
  <2> QED BY <2>1, <2>2, StepTurns
<1> QED BY <1>1, <1>2 DEF Whole

LEMMA HonestStep == TypeOK /\ TypeOK' /\ Honest /\ [Next]_vars /\ ~CarriesFloor => Honest'
  BY OwnStep, CursorsStep, PlannedStep, CarriedStep, NumberedStep, WholeStep DEF Honest

LEMMA HonestStarts == Init => Honest
<1> SUFFICES ASSUME Init PROVE Honest
  OBVIOUS
<1>0. /\ Start \in [Devices -> Nat] /\ Offline \in [Devices -> Nat]
      /\ \A d \in Devices : Start[d] <= Offline[d] /\ proc[d].phase = "idle"
      /\ minted = Offline /\ pushed = Start /\ cursor = [d \in Devices |-> Start]
      /\ known = [d \in Devices |-> {i \in Ids : i[2] <= Start[i[1]]} \cup {i \in Ids : i[1] = d /\ i[2] <= Offline[d]}]
  BY CompactionAssumption DEF Init, Idle
<1>1. Own
  BY <1>0 DEF Own
<1>2. CursorsHonest
  BY <1>0 DEF CursorsHonest
<1>3. Planned /\ NoneCarried
  BY <1>0 DEF Planned, NoneCarried, Locked, Swapped
<1>4. /\ objects = {} /\ published = 0 /\ manifest.no = 0
  BY DEF Init, NoManifest
<1>5. Numbered /\ Whole
  BY <1>0, <1>4 DEF Numbered, Whole, Covers
<1> QED BY <1>1, <1>2, <1>3, <1>5 DEF Honest

-----------------------------------------------------------------------------
(* What is deleted from the hub is in the snapshot in force.               *)

\* The floors a compactor deletes below are in force, or lower ones were.
InForce ==
    \A d \in Devices : proc[d].phase \in Swapped =>
        \A o \in Devices : Committed(d)[o] <= manifest.floors[o]

\* The snapshot the manifest names is there, and so is the one about to be named.
There ==
    /\ manifest.no = 0 => \A o \in Devices : manifest.floors[o] = 0
    /\ manifest.no # 0 => \E s \in objects : s.no = manifest.no
    /\ \A d \in Devices : proc[d].phase = "cas" =>
          proc[d].no # 0 /\ \E s \in objects : s.no = proc[d].no

\* What was pushed is on the hub or below its floor.
OnHub ==
    \A i \in Ids : Approved(i[1]) /\ i[2] <= pushed[i[1]] =>
        i \in stored \/ i[2] < manifest.floors[i[1]]

\* The other step the argument excludes: a compactor whose lock was broken prunes
\* the object that the manifest names, or is about to (pruneSnapshotObjects).
PrunesNeeded ==
    \E s \in objects \ objects' :
        s.no = manifest.no \/ \E d \in Devices : proc[d].phase = "cas" /\ proc[d].no = s.no

LEMMA InForceStep == Inv /\ TypeOK' /\ InForce /\ [Next]_vars => InForce'
<1> SUFFICES ASSUME Inv, TypeOK', InForce, [Next]_vars, NEW d \in Devices, proc'[d].phase \in Swapped, NEW o \in Devices
             PROVE  Committed(d)'[o] <= manifest'.floors[o]
  BY DEF InForce
<1>0. /\ TypeOK /\ manifest.floors[o] \in Nat /\ manifest'.floors[o] \in Nat
      /\ manifest'.floors[o] >= manifest.floors[o]
      /\ Committed(d) \in Floors /\ Committed(d)[o] \in Nat
  <2>1. TypeOK /\ manifest'.floors[o] >= manifest.floors[o]
    BY FloorsStep DEF Inv
  <2>2. manifest \in Manifest /\ manifest' \in Manifest /\ proc[d] \in Memory
    BY <2>1 DEF TypeOK, HubType
  <2>3. Committed(d) \in Floors
    BY <2>2, ReconciledType DEF Committed, Memory
  <2> QED BY <2>1, <2>2, <2>3 DEF Manifest, Floors
<1>1. ASSUME proc'[d].base = proc[d].base, proc'[d].seen = proc[d].seen PROVE Committed(d)' = Committed(d)
  BY <1>1 DEF Committed, Reconciled
<1>2. CASE proc[d].phase \in Swapped /\ proc'[d].base = proc[d].base /\ proc'[d].seen = proc[d].seen
  <2>1. Committed(d)[o] <= manifest.floors[o]
    BY <1>2 DEF InForce
  <2> QED BY <1>0, <1>1, <1>2, <2>1
<1>3. CASE /\ manifest' = [no |-> proc[d].no, by |-> d, floors |-> Committed(d)]
           /\ proc'[d].base = proc[d].base /\ proc'[d].seen = proc[d].seen
  BY <1>0, <1>1, <1>3
<1>4. CASE proc' = proc
  BY <1>2, <1>4
<1>5. CASE Turns
  <2>1. PICK e \in Devices, m \in Memory : proc' = [proc EXCEPT ![e] = m] /\ Turned(e, m)
    BY <1>5 DEF Turns
  <2>2. CASE e # d
    BY <1>0, <1>2, <2>1, <2>2 DEF TypeOK
  <2>3. CASE e = d
    <3>1. proc'[d] = m /\ Turned(d, m)
      BY <1>0, <2>1, <2>3 DEF TypeOK
    <3> QED BY <1>2, <1>3, <3>1 DEF Turned, Free, Swapped
  <2> QED BY <2>2, <2>3
<1> QED BY <1>0, <1>4, <1>5, StepTurns

LEMMA ThereStep == TypeOK /\ TypeOK' /\ There /\ [Next]_vars /\ ~PrunesNeeded => There'
<1> SUFFICES ASSUME TypeOK, TypeOK', There, [Next]_vars, ~PrunesNeeded PROVE There'
  OBVIOUS
<1>1. \A s \in objects : s.no = manifest.no \/ (\E d \in Devices : proc[d].phase = "cas" /\ proc[d].no = s.no) => s \in objects'
  BY DEF PrunesNeeded
<1>2. /\ manifest'.no = 0 => \A o \in Devices : manifest'.floors[o] = 0
      /\ manifest'.no # 0 => \E s \in objects' : s.no = manifest'.no
  <2>1. CASE manifest' = manifest
    BY <1>1, <2>1 DEF There
  <2>2. ASSUME NEW d \in Devices, PutRetention(d), manifest' # manifest
        PROVE  manifest'.no # 0 /\ \E s \in objects' : s.no = manifest'.no
    <3>1. proc[d].phase = "cas" /\ manifest'.no = proc[d].no /\ objects' = objects
      BY <2>2 DEF PutRetention
    <3> QED BY <3>1 DEF There
  <2> QED BY <2>1, <2>2, Writers
<1>3. ASSUME NEW d \in Devices, proc'[d].phase = "cas"
      PROVE  proc'[d].no # 0 /\ \E s \in objects' : s.no = proc'[d].no
  <2>1. CASE proc'[d] = proc[d]
    BY <1>1, <1>3, <2>1 DEF There
  <2>2. CASE Turns
    <3>1. PICK e \in Devices, m \in Memory : proc' = [proc EXCEPT ![e] = m] /\ Turned(e, m)
      BY <2>2 DEF Turns
    <3>2. CASE e = d
      <4> DEFINE snap == [no |-> published + 1, covers |-> known[d], anchors |-> AnchorsFor(d, Committed(d))]
      <4>1. proc'[d] = m /\ Turned(d, m)
        BY <3>1, <3>2 DEF TypeOK
      <4>2. m.no = published + 1 /\ objects' = objects \cup {snap}
        BY <1>3, <4>1 DEF Turned, Free
      <4>3. snap.no = published + 1 /\ published \in Nat
        BY DEF TypeOK
      <4> HIDE DEF snap
      <4> QED BY <4>1, <4>2, <4>3
    <3> QED BY <2>1, <3>1, <3>2 DEF TypeOK
  <2> QED BY <2>1, <2>2, StepTurns
<1> QED BY <1>2, <1>3 DEF There

LEMMA OnHubStep == Inv /\ InForce /\ OnHub /\ [Next]_vars => OnHub'
<1> SUFFICES ASSUME Inv, InForce, OnHub, [Next]_vars, NEW i \in Ids, i[1] \notin revoked', i[2] <= pushed'[i[1]]
             PROVE  i \in stored' \/ i[2] < manifest'.floors[i[1]]
  BY DEF OnHub, Approved
<1>0. /\ TypeOK /\ i[1] \in Devices /\ i[2] \in Nat /\ pushed \in [Devices -> Nat] /\ minted \in [Devices -> Nat]
      /\ manifest.floors[i[1]] \in Nat /\ manifest'.floors[i[1]] >= manifest.floors[i[1]]
      /\ manifest'.floors[i[1]] \in Nat
  <2>1. TypeOK' /\ i[1] \in Devices
    BY NextType, IdShape DEF Inv
  <2> QED BY <2>1, FloorsStep, IdShape DEF Inv, TypeOK, HubType, ReplicaType, Manifest, Floors
<1>1. revoked \subseteq revoked'
  <2>1. ASSUME NEW d \in Devices, Revoke(d) PROVE revoked \subseteq revoked'
    BY <2>1 DEF Revoke
  <2> QED BY <2>1, Writers
<1>2. i[2] <= pushed[i[1]] => i \in stored \/ i[2] < manifest.floors[i[1]]
  BY <1>1 DEF OnHub, Approved
<1>3. CASE pushed' = pushed /\ stored' = stored
  BY <1>0, <1>2, <1>3
<1>4. ASSUME NEW d \in Devices, Push(d) PROVE i \in stored' \/ i[2] < manifest'.floors[i[1]]
  <2>1. /\ stored' = stored \cup {j \in Ids : j[1] = d /\ pushed[d] < j[2] /\ j[2] <= minted[d]}
        /\ pushed' = [pushed EXCEPT ![d] = minted[d]]
    BY <1>4 DEF Push
  <2>2. CASE i[2] <= pushed[i[1]]
    BY <1>0, <1>2, <2>1, <2>2
  <2>3. CASE ~(i[2] <= pushed[i[1]])
    BY <1>0, <2>1, <2>3
  <2> QED BY <2>2, <2>3
<1>5. ASSUME NEW d \in Devices, DeleteCold(d), pushed' = pushed PROVE i \in stored' \/ i[2] < manifest'.floors[i[1]]
  <2>1. proc[d].phase = "delete" /\ stored' = {j \in stored : j[2] >= Committed(d)[j[1]]}
    BY <1>5 DEF DeleteCold
  <2>2. Committed(d)[i[1]] \in Nat /\ Committed(d)[i[1]] <= manifest.floors[i[1]]
    <3>1. Committed(d) \in Floors
      BY <1>0, ReconciledType DEF Committed, TypeOK, Memory
    <3> QED BY <1>0, <2>1, <3>1, SMTT(30) DEF InForce, Swapped, Floors
  <2> QED BY <1>0, <1>2, <1>5, <2>1, <2>2
<1>6. ASSUME NEW d \in Devices, CleanupRevoked(d), pushed' = pushed PROVE i \in stored' \/ i[2] < manifest'.floors[i[1]]
  <2>1. stored' = {j \in stored : j[1] \notin {o \in revoked : Committed(d)[o] > 0}}
    BY <1>6 DEF CleanupRevoked
  <2> QED BY <1>0, <1>1, <1>2, <1>6, <2>1
<1> QED BY <1>3, <1>4, <1>5, <1>6, Writers

\* Below a floor means in the snapshot, so that nothing pushed is lost.
LEMMA NoneLost == TypeOK /\ Whole /\ There /\ OnHub => NothingLost
<1> SUFFICES ASSUME TypeOK, Whole, There, OnHub, NEW i \in Ids, Approved(i[1]), i[2] <= pushed[i[1]], i \notin stored
             PROVE  i[2] < manifest.floors[i[1]] /\ i \in Covered
  BY DEF NothingLost
<1>1. i[2] < manifest.floors[i[1]] /\ i[1] \in Devices /\ i[2] \in Nat
  BY IdShape DEF OnHub
<1>2. PICK s \in objects : s.no = manifest.no
  BY <1>1 DEF There
<1>3. i \in s.covers
  BY <1>1, <1>2 DEF Whole, Covers
<1> QED BY <1>1, <1>2, <1>3 DEF Covered

-----------------------------------------------------------------------------
(* A lock that outlives its holder's compaction keeps compactors apart.    *)

\* Who compacts has the lock, and the manifest it confirmed is in force.
Exclusive ==
    /\ \A d \in Devices : proc[d].phase \in Locked => lock.holder = d /\ ~lock.stale
    /\ \A d \in Devices : proc[d].phase \in Swapped \ {"confirm"} => manifest.no = proc[d].no

LEMMA LockMoves ==
    ASSUME [Next]_vars
    PROVE  \/ lock' = lock
           \/ LockExpires
           \/ \E d \in Devices : Holds(d) /\ proc' = [proc EXCEPT ![d] = Idle]
           \/ \E d \in Devices : (lock.holder = None \/ lock.stale) /\ lock' = [holder |-> d, stale |-> FALSE]
                                 /\ proc' = [proc EXCEPT ![d].phase = "publish"]
<1> USE DEF hub
<1>1. CASE LockExpires \/ UNCHANGED vars
  BY <1>1 DEF vars
<1>2. ASSUME NEW d \in Devices, Mint(d) \/ Revoke(d) \/ BeginSync(d) \/ BeginCompact(d) \/ Crash(d) PROVE lock' = lock
  BY <1>2 DEF Mint, Revoke, BeginSync, BeginCompact, Begin, Crash
<1>3. ASSUME NEW d \in Devices, End(d) PROVE lock' = lock \/ (Holds(d) /\ proc' = [proc EXCEPT ![d] = Idle])
  BY <1>3 DEF End
<1>4. ASSUME NEW d \in Devices, PullAgain(d) \/ ListAndApply(d) \/ Push(d) \/ ReadManifest(d) \/ Import(d)
      PROVE  lock' = lock \/ End(d)
  BY <1>4 DEF PullAgain, ListAndApply, Push, ReadManifest, Import, Goto
<1>5. ASSUME NEW d \in Devices,
             \/ Plan(d) \/ Publish(d) \/ PutRetention(d) \/ ConfirmManifest(d)
             \/ DeleteCold(d) \/ AdvanceCursors(d) \/ CleanupRevoked(d) \/ PruneSnapshots(d)
      PROVE  lock' = lock \/ End(d)
  BY <1>5 DEF Plan, Publish, PutRetention, ConfirmManifest, DeleteCold, AdvanceCursors, CleanupRevoked, PruneSnapshots, Goto
<1>6. ASSUME NEW d \in Devices, TakeLock(d)
      PROVE  \/ End(d)
             \/ /\ (lock.holder = None \/ lock.stale) /\ lock' = [holder |-> d, stale |-> FALSE]
                /\ proc' = [proc EXCEPT ![d].phase = "publish"]
  BY <1>6 DEF TakeLock
<1> QED
  BY <1>1, <1>2, <1>3, <1>4, <1>5, <1>6 DEF Next, Step

LEMMA ExclusiveStep ==
    ASSUME SlowHolders = FALSE
    PROVE  TypeOK /\ TypeOK' /\ Exclusive /\ [Next]_vars => Exclusive'
<1> SUFFICES ASSUME TypeOK, TypeOK', Exclusive, [Next]_vars PROVE Exclusive'
  OBVIOUS
<1>0. None \notin Devices /\ proc \in [Devices -> Memory]
  BY CompactionAssumption DEF TypeOK
\* Those that compact stay holders of the lock.
<1>1. ASSUME NEW d \in Devices, proc[d].phase \in Locked, proc'[d].phase \in Locked
      PROVE  lock'.holder = d /\ ~lock'.stale
  <2>0. lock.holder = d /\ ~lock.stale
    BY <1>1 DEF Exclusive
  <2>1. CASE LockExpires
    BY <1>0, <1>1, <2>0, <2>1 DEF LockExpires, Holds
  <2>2. ASSUME NEW e \in Devices, Holds(e), proc' = [proc EXCEPT ![e] = Idle] PROVE FALSE
    <3>1. e = d /\ proc'[d].phase = "idle"
      BY <1>0, <2>0, <2>2 DEF Holds, Idle
    <3> QED BY <1>1, <3>1 DEF Locked
  <2> QED BY <1>0, <2>0, <2>1, <2>2, LockMoves
<1>2. ASSUME NEW d \in Devices, proc'[d].phase \in Locked PROVE lock'.holder = d /\ ~lock'.stale
  <2>1. CASE proc[d].phase \in Locked
    BY <1>1, <1>2, <2>1
  <2>2. CASE proc'[d] = proc[d]
    BY <1>1, <1>2, <2>2
  <2>3. CASE Turns
    <3>1. PICK e \in Devices, m \in Memory : proc' = [proc EXCEPT ![e] = m] /\ Turned(e, m)
      BY <2>3 DEF Turns
    <3>2. CASE e = d
      <4>1. proc'[d] = m /\ Turned(d, m)
        BY <1>0, <3>1, <3>2
      <4>2. CASE proc[d].phase = "lock" /\ lock' = [holder |-> d, stale |-> FALSE]
        BY <4>2
      <4>3. proc[d].phase \in Locked \/ (proc[d].phase = "lock" /\ lock' = [holder |-> d, stale |-> FALSE])
        BY <1>2, <4>1 DEF Turned, Free, Locked
      <4> QED BY <2>1, <4>2, <4>3
    <3> QED BY <1>0, <2>2, <3>1, <3>2
  <2> QED BY <2>2, <2>3, StepTurns
<1>3. ASSUME NEW d \in Devices, proc'[d].phase \in Swapped \ {"confirm"} PROVE manifest'.no = proc'[d].no
  <2>1. CASE proc[d].phase \in Swapped \ {"confirm"} /\ proc'[d].no = proc[d].no
    <3>1. manifest.no = proc[d].no /\ lock.holder = d
      BY <2>1 DEF Exclusive, Swapped, Locked
    <3>2. ASSUME NEW e \in Devices, PutRetention(e) PROVE FALSE
      <4>1. proc[e].phase = "cas" /\ lock.holder = e
        BY <3>2 DEF PutRetention, Exclusive, Locked
      <4> QED BY <2>1, <3>1, <4>1 DEF Swapped
    <3> QED BY <2>1, <3>1, <3>2, Writers
  <2>2. CASE proc'[d] = proc[d]
    BY <1>3, <2>1, <2>2
  <2>3. CASE Turns
    <3>1. PICK e \in Devices, m \in Memory : proc' = [proc EXCEPT ![e] = m] /\ Turned(e, m)
      BY <2>3 DEF Turns
    <3>2. CASE e = d
      <4>1. proc'[d] = m /\ Turned(d, m)
        BY <1>0, <3>1, <3>2
      <4>2. CASE proc[d].phase = "confirm" /\ manifest.no = proc[d].no /\ m.no = proc[d].no
        <5>1. lock.holder = d
          BY <4>2 DEF Exclusive, Locked
        <5>2. ASSUME NEW f \in Devices, PutRetention(f) PROVE FALSE
          <6>1. proc[f].phase = "cas" /\ lock.holder = f
            BY <5>2 DEF PutRetention, Exclusive, Locked
          <6> QED BY <4>2, <5>1, <6>1
        <5> QED BY <4>1, <4>2, <5>2, Writers
      <4> QED BY <1>3, <2>1, <4>1, <4>2 DEF Turned, Free, Swapped
    <3> QED BY <1>0, <2>2, <3>1, <3>2
  <2> QED BY <2>2, <2>3, StepTurns
<1> QED BY <1>2, <1>3 DEF Exclusive

LEMMA ExclusivePrunes == TypeOK /\ Exclusive /\ [Next]_vars => ~PrunesNeeded
<1> SUFFICES ASSUME TypeOK, Exclusive, [Next]_vars, NEW s \in objects, s \notin objects'
             PROVE  s.no # manifest.no /\ \A d \in Devices : proc[d].phase = "cas" => proc[d].no # s.no
  BY DEF PrunesNeeded
<1>1. PICK d \in Devices : PruneSnapshots(d)
  <2>1. ASSUME NEW d \in Devices, Publish(d) PROVE FALSE
    BY <2>1 DEF Publish
  <2> QED BY <2>1, Writers
<1>2. proc[d].phase = "prune" /\ s.no # proc[d].no
  BY <1>1 DEF PruneSnapshots
<1>3. manifest.no = proc[d].no /\ lock.holder = d
  BY <1>2 DEF Exclusive, Swapped, Locked
<1>4. ASSUME NEW e \in Devices, proc[e].phase = "cas" PROVE FALSE
  BY <1>2, <1>3, <1>4 DEF Exclusive, Locked
<1> QED BY <1>2, <1>3, <1>4

-----------------------------------------------------------------------------
(* A fleet in which everybody has seen everybody's stream.                 *)

\* No cursor is at its beginning, and no floor is missing.
Established ==
    /\ \A d \in Devices : pushed[d] > 0 /\ \A o \in Devices : cursor[d][o] > 0
    /\ \A d \in Devices : proc[d].phase \in {"lock"} \cup Locked => \A o \in Devices : proc[d].base[o] # 0

LEMMA EstablishedStep == TypeOK /\ TypeOK' /\ Own /\ Established /\ [Next]_vars => Established'
<1> SUFFICES ASSUME TypeOK, TypeOK', Own, Established, [Next]_vars PROVE Established'
  OBVIOUS
<1>0. /\ pushed \in [Devices -> Nat] /\ minted \in [Devices -> Nat] /\ cursor \in [Devices -> Floors]
      /\ proc \in [Devices -> Memory] /\ ReplicaType
      /\ \A d, o \in Devices : cursor[d][o] \in Nat /\ cursor[d][o] > 0
  BY DEF TypeOK, ReplicaType, Floors, Established
<1>1. ASSUME NEW d \in Devices PROVE pushed'[d] > 0
  <2>1. ASSUME NEW e \in Devices, Push(e) PROVE pushed'[d] > 0
    <3>1. pushed' = [pushed EXCEPT ![e] = minted[e]]
      BY <2>1 DEF Push
    <3> QED BY <1>0, <3>1 DEF Established, Own
  <2> QED BY <2>1, Writers DEF Established
<1>2. ASSUME NEW d \in Devices, NEW o \in Devices PROVE cursor'[d][o] > 0
  <2>1. ASSUME NEW e \in Devices, NEW new, cursor' = [cursor EXCEPT ![e] = new], new[o] >= cursor[e][o], new[o] \in Nat
        PROVE  cursor'[d][o] > 0
    <3>1. CASE e = d
      <4>1. cursor'[d] = new
        BY <1>0, <2>1, <3>1
      <4> QED BY <1>0, <2>1, <3>1, <4>1
    <3>2. CASE e # d
      BY <1>0, <2>1, <3>2
    <3> QED BY <3>1, <3>2
  <2>2. ASSUME NEW e \in Devices, NEW floors \in Floors, cursor' = [cursor EXCEPT ![e] = AtFloors(@, floors)]
        PROVE  cursor'[d][o] > 0
    <3>1. AtFloors(cursor[e], floors)[o] = IF floors[o] > 0 THEN MaxOf(cursor[e][o], floors[o] - 1) ELSE cursor[e][o]
      BY DEF AtFloors
    <3>2. floors[o] \in Nat /\ cursor[e][o] \in Nat
      BY <1>0 DEF Floors
    <3>3. AtFloors(cursor[e], floors)[o] >= cursor[e][o] /\ AtFloors(cursor[e], floors)[o] \in Nat
      BY <3>1, <3>2 DEF MaxOf
    <3>4. cursor' = [cursor EXCEPT ![e] = AtFloors(cursor[e], floors)]
      BY <2>2
    <3> QED BY <2>1, <3>3, <3>4
  <2>3. ASSUME NEW e \in Devices, ListAndApply(e) PROVE cursor'[d][o] > 0
    <3> DEFINE good == Chained(e, {i \in stored : i[2] > cursor[e][i[1]]})
               new == [p \in Devices |-> SafeCursor(e, p, good)]
    <3>1. cursor' = [cursor EXCEPT ![e] = new] /\ new[o] = SafeCursor(e, o, good)
      BY <2>3 DEF ListAndApply
    <3> HIDE DEF good, new
    <3>2. SafeCursor(e, o, good) >= cursor[e][o] /\ SafeCursor(e, o, good) \in Nat
      BY <1>0, SafeCursorNat
    <3> QED BY <2>1, <3>1, <3>2
  <2>4. ASSUME NEW e \in Devices, Import(e) PROVE cursor'[d][o] > 0
    <3>1. proc[e].seen.floors \in Floors
      BY <1>0 DEF Memory, Manifest
    <3>2. cursor' = cursor \/ cursor' = [cursor EXCEPT ![e] = AtFloors(@, proc[e].seen.floors)]
      BY <2>4 DEF Import, ImportSnapshot
    <3> QED BY <1>0, <2>2, <3>1, <3>2
  <2>5. ASSUME NEW e \in Devices, AdvanceCursors(e) PROVE cursor'[d][o] > 0
    <3>1. Committed(e) \in Floors
      BY <1>0, ReconciledType DEF Committed, Memory
    <3>2. cursor' = [cursor EXCEPT ![e] = AtFloors(@, Committed(e))]
      BY <2>5 DEF AdvanceCursors
    <3> QED BY <2>2, <3>1, <3>2
  <2> QED BY <1>0, <2>3, <2>4, <2>5, Writers
<1>3. ASSUME NEW d \in Devices, proc'[d].phase \in {"lock"} \cup Locked, NEW o \in Devices PROVE proc'[d].base[o] # 0
  <2>1. CASE proc[d].phase \in {"lock"} \cup Locked /\ proc'[d].base = proc[d].base
    BY <2>1 DEF Established
  <2>2. CASE proc'[d].base = ComputeCompactFloors(d)
    <3>1. proc'[d].base[o] = LET seq == IF o = d THEN pushed[d] ELSE cursor[d][o] IN IF seq > 0 THEN seq + 1 ELSE 0
      BY <2>2 DEF ComputeCompactFloors
    <3>2. pushed[d] \in Nat /\ pushed[d] > 0 /\ cursor[d][o] \in Nat /\ cursor[d][o] > 0
      BY <1>0 DEF Established
    <3> QED BY <3>1, <3>2
  <2>3. CASE proc'[d] = proc[d]
    BY <1>3, <2>1, <2>3
  <2>4. CASE Turns
    <3>1. PICK e \in Devices, m \in Memory : proc' = [proc EXCEPT ![e] = m] /\ Turned(e, m)
      BY <2>4 DEF Turns
    <3>2. CASE e = d
      <4>1. proc'[d] = m /\ Turned(d, m)
        BY <1>0, <3>1, <3>2
      <4> QED BY <1>3, <2>1, <2>2, <4>1 DEF Turned, Free, Locked
    <3> QED BY <1>0, <2>3, <3>1, <3>2
  <2> QED BY <2>3, <2>4, StepTurns
<1> QED BY <1>1, <1>2, <1>3 DEF Established

LEMMA EstablishedCarries == Established => ~CarriesFloor
  BY DEF Established, CarriesFloor, PutRetention, Locked

\* A swap of the manifest changes its command, so that it is no stutter.
LEMMA SwapsMove == TypeOK /\ CarriesFloor => vars' # vars
<1> SUFFICES ASSUME TypeOK, NEW d \in Devices, PutRetention(d), vars' = vars PROVE FALSE
  BY DEF CarriesFloor
<1>1. proc' = proc /\ proc[d].phase = "cas"
  BY DEF vars, PutRetention
<1>2. proc'[d].phase \in {"confirm", "publish", "idle"}
  BY DEF PutRetention, Goto, End, Idle, TypeOK, Memory
<1> QED BY <1>1, <1>2

-----------------------------------------------------------------------------
LEMMA HonestHolds == Spec /\ [][~CarriesFloor]_vars => [](Inv /\ Honest)
<1>1. Inv /\ Inv' /\ Honest /\ [Next]_vars /\ [~CarriesFloor]_vars => Honest'
  <2> SUFFICES ASSUME Inv, Inv', Honest, [Next]_vars, [~CarriesFloor]_vars PROVE Honest'
    OBVIOUS
  <2>1. TypeOK /\ TypeOK'
    BY DEF Inv
  <2>2. ~CarriesFloor
    BY <2>1, SwapsMove
  <2> QED BY <2>1, <2>2, HonestStep
<1> QED BY <1>1, HonestStarts, InvHolds, PTL DEF Spec

\* A cursor has nothing behind it that its device lacks, through pulls, imports and
\* compactions, crashes, revocations and locks broken under their holders, unless a
\* compactor takes over a floor for a stream it has no event of
\* (reconcileCompactFloors, AdvanceHubDeviceCursor, ImportSnapshot).
THEOREM CursorsAccount == Spec /\ [][~CarriesFloor]_vars => []CursorInv
<1>1. Inv /\ Honest => CursorInv
  BY DEF Inv, Honest, CursorInv
<1> QED BY <1>1, HonestHolds, PTL

\* A pushed event is on the hub or in the snapshot that the manifest names; only a
\* floor taken over, or a snapshot pruned under a manifest, can lose one (the
\* confirm-before-delete protocol of hubCompact).
THEOREM OnlyCarryOrPruneLoses == Spec /\ [][~CarriesFloor /\ ~PrunesNeeded]_vars => []NothingLost
<1>1. Init => InForce /\ There /\ OnHub
  <2> SUFFICES ASSUME Init PROVE InForce /\ There /\ OnHub
    OBVIOUS
  <2>1. /\ \A d \in Devices : proc[d].phase = "idle"
        /\ manifest.no = 0 /\ manifest.floors = NoFloors
        /\ pushed = Start /\ stored = {i \in Ids : i[2] <= Start[i[1]]}
    BY DEF Init, Idle, NoManifest
  <2> QED BY <2>1 DEF InForce, There, OnHub, Swapped, NoFloors
<1>2. Inv /\ Inv' /\ InForce /\ There /\ OnHub /\ [Next]_vars /\ [~CarriesFloor /\ ~PrunesNeeded]_vars
         => (InForce /\ There /\ OnHub)'
  <2> SUFFICES ASSUME Inv, Inv', InForce, There, OnHub, [Next]_vars, [~CarriesFloor /\ ~PrunesNeeded]_vars
               PROVE  (InForce /\ There /\ OnHub)'
    OBVIOUS
  <2>1. TypeOK /\ TypeOK'
    BY DEF Inv
  <2>2. ~PrunesNeeded
    BY DEF vars, hub, PrunesNeeded
  <2> QED BY <2>1, <2>2, InForceStep, ThereStep, OnHubStep
<1>3. Inv /\ Honest /\ There /\ OnHub => NothingLost
  BY NoneLost DEF Inv, Honest
<1>4. [~CarriesFloor /\ ~PrunesNeeded]_vars => [~CarriesFloor]_vars
  OBVIOUS
<1> QED BY <1>1, <1>2, <1>3, <1>4, InvHolds, HonestHolds, PTL DEF Spec

LEMMA FleetEstablished ==
    ASSUME \A d \in Devices : Start[d] > 0
    PROVE  Spec => [][~CarriesFloor]_vars
<1>1. Init => Established
  <2> SUFFICES ASSUME Init PROVE Established
    OBVIOUS
  <2>1. pushed = Start /\ cursor = [d \in Devices |-> Start] /\ \A d \in Devices : proc[d].phase = "idle"
    BY DEF Init, Idle
  <2> QED BY <2>1 DEF Established, Locked
<1>2. Inv /\ Inv' /\ Own /\ Established /\ [Next]_vars => Own' /\ Established'
  BY OwnStep, EstablishedStep DEF Inv
<1>3. Init => Own
  BY HonestStarts DEF Honest
<1>4. Established => [~CarriesFloor]_vars
  BY EstablishedCarries
<1> QED BY <1>1, <1>2, <1>3, <1>4, InvHolds, PTL DEF Spec

\* In a fleet where everybody has seen everybody's stream, no cursor ever skips an
\* event, whoever is revoked, whatever crashes (AtFloors, safeDeviceCursors).
THEOREM EstablishedCursors ==
    ASSUME \A d \in Devices : Start[d] > 0
    PROVE  Spec => []CursorInv
  BY FleetEstablished, CursorsAccount, PTL

\* In such a fleet, and with a sweep lock that outlives its holder's compaction,
\* no event of a device in good standing is lost (hubCompact, hubSweepLock).
THEOREM NothingIsLost ==
    ASSUME \A d \in Devices : Start[d] > 0, SlowHolders = FALSE
    PROVE  Spec => []NothingLost
<1>1. Init => Exclusive
  BY DEF Init, Exclusive, Idle, Locked, Swapped
<1>2. Inv /\ Inv' /\ Exclusive /\ [Next]_vars => Exclusive'
  BY ExclusiveStep DEF Inv
<1>3. Inv /\ Exclusive /\ [Next]_vars => [~PrunesNeeded]_vars
  BY ExclusivePrunes DEF Inv
<1>4. [~CarriesFloor]_vars /\ [~PrunesNeeded]_vars => [~CarriesFloor /\ ~PrunesNeeded]_vars
  OBVIOUS
<1>5. Spec => [](Inv /\ Exclusive)
  BY <1>1, <1>2, InvHolds, PTL DEF Spec
<1>6. Spec => [][~PrunesNeeded]_vars
  BY <1>3, <1>5, PTL DEF Spec
<1>7. Spec => [][~CarriesFloor]_vars
  BY FleetEstablished
<1>8. Spec => [][~CarriesFloor /\ ~PrunesNeeded]_vars
  BY <1>4, <1>6, <1>7, PTL
<1> QED BY <1>8, OnlyCarryOrPruneLoses, PTL

=============================================================================
