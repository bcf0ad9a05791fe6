---------------------------- MODULE FleetProofs ----------------------------
(***************************************************************************)
(* Proofs about a fleet, for any number of devices and any worlds.         *)
(*                                                                         *)
(* Its keys (module Fleet): every variable stays in its type, one founder  *)
(* means one first key, and a key that was granted is never lost.          *)
(*                                                                         *)
(* Its blobs (module Blobs): whoever needs a blob finds it, and what a     *)
(* revoked device could read is remembered.  The inductive invariant is    *)
(* BlobsHeld, what every command relies on between its steps.              *)
(***************************************************************************)
EXTENDS MCFleet, FiniteSetTheorems, WellFoundedInduction, TLAPS

-----------------------------------------------------------------------------
(* Numbers, sets and sequences.                                            *)

\* A bounded set of epochs has a highest one (what CurrentKeyEpoch chooses).
LEMMA Largest ==
    ASSUME NEW S \in SUBSET Nat, S # {}, NEW B \in Nat, \A n \in S : n <= B
    PROVE  \E n \in S : \A m \in S : m <= n
<1> DEFINE T == {B - n : n \in S}
<1>0. PICK k : k \in S
  OBVIOUS
<1>1. T \subseteq Nat /\ T # {}
  <2>1. \A n \in S : B - n \in Nat
    OBVIOUS
  <2>2. B - k \in T
    BY <1>0
  <2> QED BY <2>1, <2>2
<1>2. PICK x \in T : \A y \in T : ~(<<y, x>> \in OpToRel(<, Nat))
  BY <1>1, NatLessThanWellFounded, WFMin
<1>3. \A y \in T : ~(y < x)
  BY <1>1, <1>2 DEF OpToRel
<1>4. PICK n \in S : x = B - n
  OBVIOUS
<1>5. \A m \in S : B - m \in T
  OBVIOUS
<1>6. \A m \in S : m <= n
  BY <1>3, <1>4, <1>5
<1> QED
  BY <1>6

\* SetToSeq lists a finite set (the grants of an established fleet).
LEMMA SeqOfSet == ASSUME NEW S, IsFiniteSet(S) PROVE SetToSeq(S) \in Seq(S)
<1>0. ExistsBijection(1..Cardinality(S), S) /\ Cardinality(S) \in Nat
  BY FS_CardinalityType
<1>1. PICK f \in [1..Cardinality(S) -> S] : \A x, y \in 1..Cardinality(S) : f[x] = f[y] => x = y
  BY <1>0 DEF ExistsBijection, Bijection, Injection, IsInjective
<1>2. SetToSeq(S) \in [1..Cardinality(S) -> S]
  BY <1>1 DEF SetToSeq, IsInjective
<1> QED
  BY <1>0, <1>2

-----------------------------------------------------------------------------
(* The invariant.                                                          *)

\* Keys of an epoch up to B; a first key was minted by a device that may found.
Minted(B) == {k \in Key : k.epoch <= B /\ (k.epoch = 1 => k.by \notin Joiner)}
Holding(B) == [key : Minted(B), origin : {"self", "grant"}]
Told(B) == [type : {"content"}] \cup [type : {"grant"}, key : Minted(B), to : Device] \cup [type : {"revoke"}, target : Device]
Sealed(B) == [ev : Told(B), key : Minted(B) \cup {None}]

\* A command: what it still grants or applies, and on whose account.
Task(B) == {p \in [at : {"idle", "grantAll", "granting", "sync", "apply", "rotate", "contain", "push"},
                   cause : {"none", "approve", "pair", "revoke", "keys", "sync"},
                   todo : (SUBSET (Minted(B) \X Device)) \cup (SUBSET (Device \X Nat)),
                   who : Device \cup {"none"}, flag : BOOLEAN] :
                /\ p.at = "granting" => p.todo \in SUBSET (Minted(B) \X Device)
                /\ p.at = "apply" => p.todo \in SUBSET (Device \X Nat)
                /\ p.at = "grantAll" => p.cause \in Approving
                /\ p.cause \in Approving \cup {"revoke"} => p.who \in Device}

Typed(B) ==
    /\ trust \in [Device -> [Device -> {"none", "pending", "approved", "revoked"}]]
    /\ owed \in [Device -> BOOLEAN] /\ contain \in [Device -> SUBSET Device]
    /\ held \in [Device -> SUBSET Holding(B)]
    /\ log \in [Device -> Seq(Told(B))] /\ hub \in [Device -> Seq(Sealed(B))]
    /\ seen \in [Device -> [Device -> Nat]]
    /\ quar \in [Device -> SUBSET [from : Device, ev : Told(B)]]
    /\ proc \in [Device -> Task(B)]

\* The hub has a prefix of each log, and no cursor is past it.
Streams == \A d \in Device :
    /\ Len(hub[d]) <= Len(log[d])
    /\ \A i \in 1..Len(hub[d]) : hub[d][i].ev = log[d][i]
    /\ \A e \in Device : seen[d][e] <= Len(hub[e])

ToMe(d, e, i) == hub[e][i].ev.type = "grant" /\ hub[e][i].ev.to = d

\* What d has read of e's grants is in its keyring or in quarantine.
Kept(d) == \A e \in Device \ {d} : \A i \in 1..seen[d][e] :
    ToMe(d, e, i) => hub[e][i].ev.key \in Keys(held[d]) \/ [from |-> e, ev |-> hub[e][i].ev] \in quar[d]

\* What d is about to apply and believes has been ingested by the pull.
Ready(d) == proc[d].at = "apply" => \A s \in proc[d].todo :
    /\ s[1] # d /\ s[2] <= Len(hub[s[1]]) /\ \A t \in proc[d].todo : s[1] = t[1] => s = t
    /\ VerifiedGrant(d, s[1]) => \A i \in 1..s[2] :
        (i > seen[d][s[1]] /\ ToMe(d, s[1], i)) => hub[s[1]][i].ev.key \in Keys(held[d])

FleetInv(B) == Typed(B) /\ Streams /\ \A d \in Device : Kept(d) /\ Ready(d)

-----------------------------------------------------------------------------
(* The model's operators.                                                  *)

\* The events there are.
LEMMA EventKinds ==
    ASSUME NEW B, NEW v \in Told(B)
    PROVE  /\ v.type \in {"content", "grant", "revoke"}
           /\ v.type = "grant" => v \in [type : {"grant"}, key : Minted(B), to : Device] /\ v.key \in Minted(B) /\ v.to \in Device
           /\ v.type = "revoke" => v.target \in Device
<1>1. CASE v \in [type : {"content"}]
  BY <1>1
<1>2. CASE v \in [type : {"grant"}, key : Minted(B), to : Device]
  BY <1>2
<1>3. CASE v \in [type : {"revoke"}, target : Device]
  BY <1>3
<1> QED
  BY <1>1, <1>2, <1>3 DEF Told

\* CurrentKeyEpoch is the highest epoch of a held key, or zero.
LEMMA CurrentEpoch ==
    ASSUME NEW B \in Nat, NEW d \in Device, held[d] \in SUBSET Holding(B)
    PROVE  CurrentKeyEpoch(d) \in 0..B /\ (CurrentKeyEpoch(d) > 0 => KeysAt(d, CurrentKeyEpoch(d)) # {})
<1> DEFINE E == {h.key.epoch : h \in held[d]} \cup {0}
<1>1. E \in SUBSET Nat /\ E # {} /\ \A n \in E : n <= B
  BY DEF Holding, Minted, Key
<1>2. \E n \in E : \A m \in E : m <= n
  BY <1>1, Largest
<1>3. CurrentKeyEpoch(d) = CHOOSE n \in E : \A m \in E : m <= n
  BY DEF CurrentKeyEpoch
<1>4. CurrentKeyEpoch(d) \in E
  BY <1>2, <1>3
<1> QED
  BY <1>1, <1>4 DEF KeysAt

\* Preferred chooses one of the keys it is given.
LEMMA PreferredIn ==
    ASSUME NEW B, NEW S \in SUBSET Holding(B), S # {}
    PROVE  Preferred(S) \in Keys(S) /\ Preferred(S) \in Minted(B)
<1>1. \E h \in S : \A g \in S : originRank(g.origin) <= originRank(h.origin)
  <2>1. CASE \E h \in S : h.origin = "grant"
    BY <2>1 DEF originRank
  <2>2. CASE \A h \in S : h.origin # "grant"
    BY <2>2 DEF originRank
  <2> QED BY <2>1, <2>2
<1>2. \E h \in S : Preferred(S) = h.key
  BY <1>1 DEF Preferred
<1> QED
  BY <1>2 DEF Keys, Holding

\* RecordKeyEpoch adds to one keyring, and what it adds is held.
LEMMA Records ==
    ASSUME NEW B, held \in [Device -> SUBSET Holding(B)], NEW d \in Device, NEW new \in SUBSET Holding(B), RecordKeyEpoch(d, new)
    PROVE  /\ held' \in [Device -> SUBSET Holding(B)] /\ \A e \in Device : held[e] \subseteq held'[e]
           /\ Keys(new) \subseteq Keys(held'[d])
<1>1. held' = [held EXCEPT ![d] = held[d] \cup {h \in new : h.key \notin Keys(held[d])}]
  BY DEF RecordKeyEpoch
<1>2. held'[d] = held[d] \cup {h \in new : h.key \notin Keys(held[d])} /\ \A e \in Device \ {d} : held'[e] = held[e]
  BY <1>1
<1>3. held' \in [Device -> SUBSET Holding(B)] /\ \A e \in Device : held[e] \subseteq held'[e]
  BY <1>1, <1>2
<1>4. \A h \in new : h.key \in Keys(held'[d])
  <2> TAKE h \in new
  <2>1. CASE h.key \in Keys(held[d])
    BY <1>2, <2>1 DEF Keys
  <2>2. CASE h.key \notin Keys(held[d])
    BY <1>2, <2>2 DEF Keys
  <2> QED BY <2>1, <2>2
<1> QED
  BY <1>3, <1>4 DEF Keys

\* A command goes on to its next step.
LEMMA TaskMoves ==
    ASSUME NEW B, NEW p \in Task(B)
    PROVE  /\ Idle \in Task(B) /\ Idle.at = "idle"
           /\ \A at \in {"rotate", "contain", "push", "sync", "idle"} :
                /\ [p EXCEPT !.at = at] \in Task(B) /\ [p EXCEPT !.at = at].at = at
                /\ [Idle EXCEPT !.at = at] \in Task(B) /\ [Idle EXCEPT !.at = at].at = at
           /\ \A todo \in SUBSET (Minted(B) \X Device) :
                [p EXCEPT !.at = "granting", !.todo = todo] \in Task(B)
<1> USE DEF Approving
<1>1. Idle \in Task(B) /\ Idle.at = "idle"
  BY DEF Idle, Task
<1>2. ASSUME NEW at \in {"rotate", "contain", "push", "sync", "idle"}, NEW q \in Task(B)
      PROVE  [q EXCEPT !.at = at] \in Task(B) /\ [q EXCEPT !.at = at].at = at
  BY <1>2 DEF Task
<1>3. ASSUME NEW todo \in SUBSET (Minted(B) \X Device)
      PROVE  [p EXCEPT !.at = "granting", !.todo = todo] \in Task(B)
  BY <1>3 DEF Task
<1> QED
  BY <1>1, <1>2, <1>3

-----------------------------------------------------------------------------
(* Steps of one device.                                                    *)

\* A higher bound on the epochs admits more.
LEMMA HigherBound ==
    ASSUME NEW B \in Nat, NEW C \in Nat, B <= C, Typed(B)
    PROVE  Typed(C)
<1>1. Minted(B) \subseteq Minted(C)
  BY DEF Minted, Key
<1>2. Holding(B) \subseteq Holding(C)
  BY <1>1 DEF Holding
<1>3. Told(B) \subseteq Told(C)
  BY <1>1 DEF Told
<1>4. Sealed(B) \subseteq Sealed(C)
  BY <1>1, <1>3 DEF Sealed
<1>5. Task(B) \subseteq Task(C)
  <2> SUFFICES ASSUME NEW p \in Task(B) PROVE p \in Task(C)
    OBVIOUS
  <2>1. (Minted(B) \X Device) \subseteq (Minted(C) \X Device)
    BY <1>1
  <2>2. SUBSET (Minted(B) \X Device) \subseteq SUBSET (Minted(C) \X Device)
    BY <2>1
  <2> QED
    BY <2>2 DEF Task
<1>6. log \in [Device -> Seq(Told(C))] /\ hub \in [Device -> Seq(Sealed(C))]
  <2>1. Seq(Told(B)) \subseteq Seq(Told(C)) /\ Seq(Sealed(B)) \subseteq Seq(Sealed(C))
    BY <1>3, <1>4
  <2> QED
    BY <2>1 DEF Typed
<1>7. quar \in [Device -> SUBSET [from : Device, ev : Told(C)]]
  <2>1. [from : Device, ev : Told(B)] \subseteq [from : Device, ev : Told(C)]
    BY <1>3
  <2> QED
    BY <2>1 DEF Typed
<1>8. held \in [Device -> SUBSET Holding(C)]
  BY <1>2 DEF Typed
<1>9. proc \in [Device -> Task(C)]
  BY <1>5 DEF Typed
<1> QED
  BY <1>6, <1>7, <1>8, <1>9 DEF Typed

\* Keyrings only grow, and what a hub holds stays.
Growing == \A e \in Device :
    /\ held[e] \subseteq held'[e] /\ Len(hub[e]) <= Len(hub'[e])
    /\ \A i \in 1..Len(hub[e]) : hub'[e][i] = hub[e][i]

\* A step of d leaves every other device's tables and command alone.
Alone(d) == \A e \in Device \ {d} :
    trust'[e] = trust[e] /\ seen'[e] = seen[e] /\ quar'[e] = quar[e] /\ proc'[e] = proc[e]

\* What was read stays kept while the cursor stands still and nothing leaves the quarantine.
LEMMA KeptStays ==
    ASSUME NEW B \in Nat, FleetInv(B), NEW d \in Device, Growing, seen'[d] = seen[d], quar[d] \subseteq quar'[d]
    PROVE  Kept(d)'
<1> SUFFICES ASSUME NEW e \in Device \ {d}, NEW i \in 1..seen'[d][e], ToMe(d, e, i)'
             PROVE  (hub[e][i].ev.key \in Keys(held[d]) \/ [from |-> e, ev |-> hub[e][i].ev] \in quar[d])'
  BY DEF Kept
<1>1. i \in 1..Len(hub[e]) /\ i \in 1..seen[d][e]
  BY DEF FleetInv, Streams, Typed
<1>2. hub'[e][i] = hub[e][i] /\ held[d] \subseteq held'[d]
  BY <1>1 DEF Growing
<1>3. ToMe(d, e, i)
  BY <1>2 DEF ToMe
<1>4. Kept(d)
  BY DEF FleetInv
<1>5. hub[e][i].ev.key \in Keys(held[d]) \/ [from |-> e, ev |-> hub[e][i].ev] \in quar[d]
  BY <1>1, <1>3, <1>4 DEF Kept
<1> QED
  BY <1>2, <1>5 DEF Keys

\* So does what was pulled and is about to be applied, while the table and the command stand still.
LEMMA ReadyStays ==
    ASSUME NEW B \in Nat, FleetInv(B), NEW d \in Device, Growing, seen'[d] = seen[d], trust'[d] = trust[d], proc'[d] = proc[d]
    PROVE  Ready(d)'
<1> SUFFICES ASSUME proc[d].at = "apply", NEW s \in proc[d].todo
             PROVE  /\ s[1] # d /\ s[2] <= Len(hub'[s[1]]) /\ \A t \in proc[d].todo : s[1] = t[1] => s = t
                    /\ VerifiedGrant(d, s[1])' => \A i \in 1..s[2] :
                        (i > seen[d][s[1]] /\ ToMe(d, s[1], i)') => hub'[s[1]][i].ev.key \in Keys(held'[d])
  BY DEF Ready
<1>1. s \in Device \X Nat
  BY DEF FleetInv, Typed, Task
<1>2. s[1] \in Device /\ s[2] \in Nat
  BY <1>1
<1>3. /\ s[1] # d /\ s[2] <= Len(hub[s[1]]) /\ \A t \in proc[d].todo : s[1] = t[1] => s = t
      /\ VerifiedGrant(d, s[1]) => \A i \in 1..s[2] :
          (i > seen[d][s[1]] /\ ToMe(d, s[1], i)) => hub[s[1]][i].ev.key \in Keys(held[d])
  BY DEF FleetInv, Ready
<1>4. Len(hub[s[1]]) \in Nat
  BY <1>2 DEF FleetInv, Typed
<1>5. \A i \in 1..s[2] : hub'[s[1]][i] = hub[s[1]][i]
  BY <1>2, <1>3, <1>4 DEF Growing
<1>6. s[2] <= Len(hub'[s[1]])
  <2>1. Len(hub[s[1]]) <= Len(hub'[s[1]])
    BY <1>2 DEF Growing
  <2> QED
    BY <1>2, <1>3, <1>4, <2>1
<1>7. VerifiedGrant(d, s[1])' <=> VerifiedGrant(d, s[1])
  BY DEF VerifiedGrant, hasEnrolledDevices
<1>8. \A i \in 1..s[2] : ToMe(d, s[1], i)' <=> ToMe(d, s[1], i)
  BY <1>5 DEF ToMe
<1>9. Keys(held[d]) \subseteq Keys(held'[d])
  BY DEF Growing, Keys
<1> QED
  BY <1>3, <1>5, <1>6, <1>7, <1>8, <1>9

\* A step keeps the invariant when its types and streams are right and its own device keeps what it read.
LEMMA Frame ==
    ASSUME NEW B \in Nat, FleetInv(B), NEW d \in Device, Typed(B)', Streams', Alone(d), Growing, Kept(d)', Ready(d)'
    PROVE  FleetInv(B)'
<1>1. ASSUME NEW e \in Device \ {d} PROVE Kept(e)' /\ Ready(e)'
  <2>1. trust'[e] = trust[e] /\ seen'[e] = seen[e] /\ quar'[e] = quar[e] /\ proc'[e] = proc[e]
    BY DEF Alone
  <2> QED
    BY <2>1, KeptStays, ReadyStays
<1> QED
  BY <1>1 DEF FleetInv

\* In particular a step that leaves hub, cursors and quarantine alone and is not, or stays, in the apply stage.
LEMMA QuietFrame ==
    ASSUME NEW B \in Nat, FleetInv(B), NEW d \in Device, Typed(B)', UNCHANGED <<hub, seen, quar>>,
           \A e \in Device : /\ held[e] \subseteq held'[e] /\ Len(log[e]) <= Len(log'[e])
                             /\ \A i \in 1..Len(log[e]) : log'[e][i] = log[e][i],
           \A e \in Device \ {d} : trust'[e] = trust[e] /\ proc'[e] = proc[e],
           proc'[d].at # "apply" \/ (trust'[d] = trust[d] /\ proc'[d] = proc[d])
    PROVE  FleetInv(B)'
<1>1. \A e \in Device : Len(hub[e]) \in Nat /\ Len(log[e]) \in Nat /\ Len(log'[e]) \in Nat
  <2>1. hub \in [Device -> Seq(Sealed(B))] /\ log \in [Device -> Seq(Told(B))] /\ log' \in [Device -> Seq(Told(B))]
    BY DEF FleetInv, Typed
  <2> QED
    BY ONLY <2>1
<1>2. Growing
  BY <1>1 DEF Growing
<1>3. Alone(d)
  BY DEF Alone
<1>4. Streams'
  <2> SUFFICES ASSUME NEW e \in Device
               PROVE  Len(hub[e]) <= Len(log'[e]) /\ \A i \in 1..Len(hub[e]) : hub[e][i].ev = log'[e][i]
    BY DEF FleetInv, Streams
  <2>1. Len(hub[e]) <= Len(log[e]) /\ \A i \in 1..Len(hub[e]) : hub[e][i].ev = log[e][i]
    BY DEF FleetInv, Streams
  <2> QED
    BY <1>1, <2>1
<1>5. Kept(d)'
  BY <1>2, KeptStays
<1>6. Ready(d)'
  <2>1. CASE proc'[d].at # "apply"
    BY <2>1 DEF Ready
  <2>2. CASE trust'[d] = trust[d] /\ proc'[d] = proc[d]
    BY <1>2, <2>2, ReadyStays
  <2> QED BY <2>1, <2>2
<1> QED
  BY <1>2, <1>3, <1>4, <1>5, <1>6, Frame

-----------------------------------------------------------------------------
(* Steps that only move the command, the owed rotation and the containment. *)

\* A command that moves on outside the apply stage, with or without a marker, keeps the invariant.
LEMMA Control ==
    ASSUME NEW B \in Nat, FleetInv(B), NEW d \in Device, UNCHANGED <<keyvars, trust, streams>>,
           owed' \in [Device -> BOOLEAN], contain' \in [Device -> SUBSET Device],
           NEW p \in Task(B), p.at # "apply", proc' = [proc EXCEPT ![d] = p]
    PROVE  FleetInv(B)'
<1>1. UNCHANGED <<trust, held, log, hub, seen, quar>>
  BY DEF keyvars, streams
<1>2. proc \in [Device -> Task(B)] /\ Typed(B)
  BY DEF FleetInv, Typed
<1>3. proc' \in [Device -> Task(B)] /\ proc'[d].at # "apply" /\ \A e \in Device \ {d} : proc'[e] = proc[e]
  BY <1>2
<1>4. Typed(B)'
  BY <1>1, <1>2, <1>3 DEF Typed
<1>5. \A e \in Device : Len(log[e]) \in Nat
  BY <1>2 DEF Typed
<1> QED
  BY <1>1, <1>3, <1>4, <1>5, QuietFrame

\* Goto moves a command to its next stage.
LEMMA GoesTo ==
    ASSUME NEW B \in Nat, FleetInv(B), NEW d \in Device, UNCHANGED <<keyvars, trust, streams>>,
           owed' \in [Device -> BOOLEAN], contain' \in [Device -> SUBSET Device],
           NEW at \in {"rotate", "contain", "push", "sync", "idle"}, Goto(d, at)
    PROVE  FleetInv(B)'
<1>1. proc[d] \in Task(B)
  BY DEF FleetInv, Typed
<1>2. [proc[d] EXCEPT !.at = at] \in Task(B) /\ [proc[d] EXCEPT !.at = at].at = at
  BY <1>1 DEF Task, Approving
<1>3. proc' = [proc EXCEPT ![d] = [proc[d] EXCEPT !.at = at]]
  BY DEF Goto
<1> QED
  BY <1>2, <1>3, Control

\* A command that ends, or a process that dies, keeps the invariant.
LEMMA Ends ==
    ASSUME NEW B \in Nat, FleetInv(B), NEW d \in Device, UNCHANGED <<keyvars, trust, streams>>,
           owed' \in [Device -> BOOLEAN], contain' \in [Device -> SUBSET Device], proc' = [proc EXCEPT ![d] = Idle]
    PROVE  FleetInv(B)'
<1>1. proc[d] \in Task(B)
  BY DEF FleetInv, Typed
<1>2. Idle \in Task(B) /\ Idle.at # "apply"
  BY <1>1, TaskMoves
<1> QED
  BY <1>2, Control

\* The markers of a state that satisfies the invariant are in their types.
LEMMA Markers ==
    ASSUME NEW B \in Nat, FleetInv(B)
    PROVE  owed \in [Device -> BOOLEAN] /\ contain \in [Device -> SUBSET Device]
BY DEF FleetInv, Typed

\* keys rotate starts.
LEMMA keysRotateKeeps ==
    ASSUME NEW B \in Nat, FleetInv(B), NEW d \in Device, keysRotate(d)
    PROVE  FleetInv(B)'
<1>1. UNCHANGED <<keyvars, trust, streams>> /\ UNCHANGED <<owed, contain>>
  BY DEF keysRotate, trustvars
<1> DEFINE p == [Idle EXCEPT !.at = "rotate", !.cause = "keys"]
<1>2. p \in Task(B) /\ p.at # "apply" /\ proc' = [proc EXCEPT ![d] = p]
  BY DEF keysRotate, Task, Idle, Approving
<1> HIDE DEF p
<1> QED
  BY <1>1, <1>2, Markers, Control

\* After the pull a sync goes on to a rotation, to the containment or to the push.
LEMMA maybeRotateKeeps ==
    ASSUME NEW B \in Nat, FleetInv(B), NEW d \in Device,
           maybeRotateWorkspaceKey(d, TRUE) \/ maybeRotateWorkspaceKey(d, FALSE)
    PROVE  FleetInv(B)'
<1>1. UNCHANGED <<keyvars, trust, streams>> /\ UNCHANGED <<owed, contain>>
  BY DEF maybeRotateWorkspaceKey, trustvars
<1>2. owed[d] \in BOOLEAN /\ proc[d] \in Task(B)
  BY DEF FleetInv, Typed
<1>3. \/ proc' = [proc EXCEPT ![d].at = "rotate", ![d].flag = owed[d]]
      \/ Goto(d, "contain") \/ Goto(d, "push")
  BY DEF maybeRotateWorkspaceKey
<1>4. CASE proc' = [proc EXCEPT ![d].at = "rotate", ![d].flag = owed[d]]
  <2> DEFINE p == [proc[d] EXCEPT !.at = "rotate", !.flag = owed[d]]
  <2>1. p \in Task(B) /\ p.at # "apply"
    BY <1>2 DEF Task, Approving
  <2>2. proc' = [proc EXCEPT ![d] = p]
    BY <1>4
  <2> HIDE DEF p
  <2> QED
    BY <1>1, <2>1, <2>2, Markers, Control
<1>5. CASE Goto(d, "contain") \/ Goto(d, "push")
  BY <1>1, <1>5, Markers, GoesTo
<1> QED
  BY <1>3, <1>4, <1>5

\* A revoke before any key exists skips the rotation.
LEMMA skipRotationKeeps ==
    ASSUME NEW B \in Nat, FleetInv(B), NEW d \in Device, skipRotation(d)
    PROVE  FleetInv(B)'
BY Markers, GoesTo DEF skipRotation, trustvars

\* Rotate returned: the owed marker may be cleared.
LEMMA rotationDoneKeeps ==
    ASSUME NEW B \in Nat, FleetInv(B), NEW d \in Device, rotationDone(d)
    PROVE  FleetInv(B)'
<1>1. UNCHANGED <<keyvars, trust, streams>> /\ contain' \in [Device -> SUBSET Device]
  BY Markers DEF rotationDone
<1>2. owed' \in [Device -> BOOLEAN]
  <2>1. owed' = [owed EXCEPT ![d] = owed[d] /\ proc[d].cause = "sync" /\ ~proc[d].flag]
    BY DEF rotationDone
  <2>2. \A x \in BOOLEAN : [owed EXCEPT ![d] = x] \in [Device -> BOOLEAN]
    BY Markers
  <2>3. (owed[d] /\ proc[d].cause = "sync" /\ ~proc[d].flag) \in BOOLEAN
    OBVIOUS
  <2> QED
    BY ONLY <2>1, <2>2, <2>3, Zenon
<1>3. proc' = [proc EXCEPT ![d] = Idle] \/ Goto(d, "contain")
  BY DEF rotationDone
<1> QED
  BY <1>1, <1>2, <1>3, Ends, GoesTo

\* The rotation of a revoke failed: it stays owed and the containment goes on.
LEMMA rotateOnRevokeKeeps ==
    ASSUME NEW B \in Nat, FleetInv(B), NEW d \in Device, rotateWorkspaceKeyOnRevoke(d)
    PROVE  FleetInv(B)'
<1>1. UNCHANGED <<keyvars, trust, streams>> /\ contain' \in [Device -> SUBSET Device]
  BY Markers DEF rotateWorkspaceKeyOnRevoke
<1>2. owed' \in [Device -> BOOLEAN]
  BY Markers DEF rotateWorkspaceKeyOnRevoke, markWCKRotationPending
<1> DEFINE p == [proc[d] EXCEPT !.at = "contain", !.todo = {}]
<1>3. p \in Task(B) /\ p.at # "apply"
  <2>1. proc[d] \in Task(B)
    BY DEF FleetInv, Typed
  <2> QED
    BY <2>1 DEF Task, Approving
<1>4. proc' = [proc EXCEPT ![d] = p]
  BY DEF rotateWorkspaceKeyOnRevoke
<1> HIDE DEF p
<1> QED
  BY <1>1, <1>2, <1>3, <1>4, Control

\* Any other rotation that failed ends the command or lets the sync go on.
LEMMA rotationFailsKeeps ==
    ASSUME NEW B \in Nat, FleetInv(B), NEW d \in Device, rotationFails(d)
    PROVE  FleetInv(B)'
<1>1. UNCHANGED <<keyvars, trust, streams>> /\ contain' \in [Device -> SUBSET Device]
  BY Markers DEF rotationFails
<1>2. \/ markWCKRotationPending(d) /\ Goto(d, "contain")
      \/ proc' = [proc EXCEPT ![d] = Idle] /\ UNCHANGED owed
  BY DEF rotationFails
<1>3. owed' \in [Device -> BOOLEAN]
  BY <1>2, Markers DEF markWCKRotationPending
<1> QED
  BY <1>1, <1>2, <1>3, Ends, GoesTo

\* The containment of a revoke, and a resumed one, end or fail.
LEMMA ContainmentKeeps ==
    ASSUME NEW B \in Nat, FleetInv(B), NEW d \in Device,
           \/ revokeContainment(d, TRUE) \/ revokeContainment(d, FALSE)
           \/ resumeRevokeContainment(d, TRUE) \/ resumeRevokeContainment(d, FALSE)
    PROVE  FleetInv(B)'
<1>1. UNCHANGED <<keyvars, trust, streams>> /\ owed' \in [Device -> BOOLEAN]
  BY Markers DEF revokeContainment, resumeRevokeContainment
<1>2. \E ids : clearRevokeContainmentPending(d, ids) \/ UNCHANGED contain
  BY DEF revokeContainment, resumeRevokeContainment
<1>3. contain' \in [Device -> SUBSET Device]
  BY <1>2, Markers DEF clearRevokeContainmentPending
<1>4. proc' = [proc EXCEPT ![d] = Idle] \/ Goto(d, "push")
  BY DEF revokeContainment, resumeRevokeContainment
<1> QED
  BY <1>1, <1>3, <1>4, Ends, GoesTo

\* The process dies.
LEMMA CrashKeeps ==
    ASSUME NEW B \in Nat, FleetInv(B), NEW d \in Device, Crash(d)
    PROVE  FleetInv(B)'
BY Markers, Ends DEF Crash, trustvars

-----------------------------------------------------------------------------
(* Steps that decide about trust, mint and grant.                          *)

\* An event appended to a log.
LEMMA Appends ==
    ASSUME NEW B \in Nat, FleetInv(B), NEW d \in Device, NEW v \in Told(B), log' = [log EXCEPT ![d] = Append(log[d], v)]
    PROVE  /\ log' \in [Device -> Seq(Told(B))]
           /\ \A e \in Device : Len(log[e]) <= Len(log'[e]) /\ \A i \in 1..Len(log[e]) : log'[e][i] = log[e][i]
<1>1. log \in [Device -> Seq(Told(B))]
  BY DEF FleetInv, Typed
<1>2. Append(log[d], v) \in Seq(Told(B)) /\ Len(Append(log[d], v)) = Len(log[d]) + 1
      /\ \A i \in 1..Len(log[d]) : Append(log[d], v)[i] = log[d][i]
  BY <1>1
<1>3. \A e \in Device : log'[e] = IF e = d THEN Append(log[d], v) ELSE log[e]
  BY <1>1
<1>4. \A e \in Device : Len(log[e]) \in Nat
  BY <1>1
<1>5. log' \in [Device -> Seq(Told(B))]
  BY <1>1, <1>2
<1> QED
  BY <1>2, <1>3, <1>4, <1>5

\* A local namespace edit.
LEMMA EditKeeps ==
    ASSUME NEW B \in Nat, FleetInv(B), NEW d \in Device, Edit(d)
    PROVE  FleetInv(B)'
<1>1. UNCHANGED <<trust, held, owed, contain, hub, seen, quar, proc>>
  BY DEF Edit, keyvars, trustvars
<1>2. [type |-> "content"] \in Told(B) /\ log' = [log EXCEPT ![d] = Append(log[d], [type |-> "content"])]
  BY DEF Edit, Told
<1>3. /\ log' \in [Device -> Seq(Told(B))]
      /\ \A e \in Device : Len(log[e]) <= Len(log'[e]) /\ \A i \in 1..Len(log[e]) : log'[e][i] = log[e][i]
  BY <1>2, Appends
<1>4. Typed(B)'
  BY <1>1, <1>3 DEF FleetInv, Typed
<1> QED
  BY <1>1, <1>3, <1>4, QuietFrame

\* One grant event.
LEMMA insertGrantKeeps ==
    ASSUME NEW B \in Nat, FleetInv(B), NEW d \in Device, insertGrant(d)
    PROVE  FleetInv(B)'
<1>1. UNCHANGED <<trust, held, owed, contain, hub, seen, quar>> /\ proc[d].at = "granting"
  BY DEF insertGrant, keyvars, trustvars
<1>2. PICK g \in proc[d].todo :
        /\ log' = [log EXCEPT ![d] = Append(@, [type |-> "grant", key |-> g[1], to |-> g[2]])]
        /\ proc' = [proc EXCEPT ![d].todo = @ \ {g}]
  BY DEF insertGrant
<1>3. proc \in [Device -> Task(B)] /\ proc[d] \in Task(B)
  BY DEF FleetInv, Typed
<1>4. g \in Minted(B) \X Device /\ proc[d].todo \in SUBSET (Minted(B) \X Device)
  BY <1>1, <1>3 DEF Task
<1> DEFINE v == [type |-> "grant", key |-> g[1], to |-> g[2]]
           p == [proc[d] EXCEPT !.todo = proc[d].todo \ {g}]
<1>5. v \in Told(B)
  BY <1>4 DEF Told
<1>6. log' = [log EXCEPT ![d] = Append(log[d], v)]
  BY <1>2
<1>7. p \in Task(B) /\ p.at # "apply"
  <2>1. proc[d].todo \ {g} \in SUBSET (Minted(B) \X Device)
    BY <1>4
  <2> QED
    BY <1>1, <1>3, <2>1 DEF Task, Approving
<1>8. proc' = [proc EXCEPT ![d] = p]
  BY <1>2
<1> HIDE DEF v, p
<1>9. /\ log' \in [Device -> Seq(Told(B))]
      /\ \A e \in Device : Len(log[e]) <= Len(log'[e]) /\ \A i \in 1..Len(log[e]) : log'[e][i] = log[e][i]
  BY <1>5, <1>6, Appends
<1>10. proc' \in [Device -> Task(B)] /\ proc'[d].at # "apply" /\ \A e \in Device \ {d} : proc'[e] = proc[e]
  BY <1>3, <1>7, <1>8
<1>11. Typed(B)'
  BY <1>1, <1>9, <1>10 DEF FleetInv, Typed
<1> QED
  BY <1>1, <1>9, <1>10, <1>11, QuietFrame

\* A trust decision of d about e, made at the terminal.
LEMMA Decides ==
    ASSUME NEW B \in Nat, FleetInv(B), NEW d \in Device, NEW e \in Device, NEW t \in {"approved", "revoked"},
           trust' = [trust EXCEPT ![d][e] = t]
    PROVE  /\ trust' \in [Device -> [Device -> {"none", "pending", "approved", "revoked"}]]
           /\ \A f \in Device \ {d} : trust'[f] = trust[f]
<1>1. trust \in [Device -> [Device -> {"none", "pending", "approved", "revoked"}]]
  BY DEF FleetInv, Typed
<1>2. trust' = [trust EXCEPT ![d] = [trust[d] EXCEPT ![e] = t]]
  OBVIOUS
<1>3. [trust[d] EXCEPT ![e] = t] \in [Device -> {"none", "pending", "approved", "revoked"}]
  BY <1>1
<1> QED
  BY <1>1, <1>2, <1>3

\* devices approve, devices enroll --approve and pair: the trust row, then the grants.
LEMMA ApprovalKeeps ==
    ASSUME NEW B \in Nat, FleetInv(B), NEW d \in Device, NEW e \in Device,
           approve(d, e) \/ runDeviceEnroll(d, e, "approve") \/ pair(d, e)
    PROVE  FleetInv(B)'
<1>1. UNCHANGED <<held, owed, contain, log, hub, seen, quar>>
  BY DEF approve, runDeviceEnroll, pair, keyvars, streams
<1>2. trust' = [trust EXCEPT ![d][e] = "approved"]
  BY DEF approve, runDeviceEnroll, pair, SetDeviceTrustState, UpsertDevice
<1>3. PICK cause \in Approving : proc' = [proc EXCEPT ![d] = [Idle EXCEPT !.at = "grantAll", !.cause = cause, !.who = e]]
  BY DEF approve, runDeviceEnroll, pair, Approving
<1> DEFINE p == [Idle EXCEPT !.at = "grantAll", !.cause = cause, !.who = e]
<1>4. p \in Task(B) /\ p.at # "apply"
  BY DEF Task, Idle, Approving
<1>5. proc \in [Device -> Task(B)] /\ proc' = [proc EXCEPT ![d] = p]
  BY <1>3 DEF FleetInv, Typed
<1> HIDE DEF p
<1>6. proc' \in [Device -> Task(B)] /\ proc'[d].at # "apply" /\ \A f \in Device \ {d} : proc'[f] = proc[f]
  BY <1>4, <1>5
<1>7. /\ trust' \in [Device -> [Device -> {"none", "pending", "approved", "revoked"}]]
      /\ \A f \in Device \ {d} : trust'[f] = trust[f]
  BY <1>2, Decides
<1>8. Typed(B)'
  BY <1>1, <1>6, <1>7 DEF FleetInv, Typed
<1>9. \A f \in Device : Len(log[f]) \in Nat
  BY DEF FleetInv, Typed
<1> QED
  BY <1>1, <1>6, <1>7, <1>8, <1>9, QuietFrame

\* devices revoke: the flip, the event and the marker in one transaction.
LEMMA revokeKeeps ==
    ASSUME NEW B \in Nat, FleetInv(B), NEW d \in Device, NEW x \in Device, revoke(d, x)
    PROVE  FleetInv(B)'
<1>1. UNCHANGED <<held, owed, hub, seen, quar>>
  BY DEF revoke, keyvars
<1>2. trust' = [trust EXCEPT ![d][x] = "revoked"]
  BY DEF revoke, SetDeviceTrustState
<1>3. contain' \in [Device -> SUBSET Device]
  BY Markers DEF revoke, markRevokeContainmentPendingTx
<1>4. log' = [log EXCEPT ![d] = Append(log[d], [type |-> "revoke", target |-> x])]
  BY DEF revoke
<1>5. [type |-> "revoke", target |-> x] \in Told(B)
  BY DEF Told
<1> DEFINE p == [Idle EXCEPT !.at = "rotate", !.cause = "revoke", !.who = x]
<1>6. p \in Task(B) /\ p.at # "apply"
  BY DEF Task, Idle, Approving
<1>7. proc \in [Device -> Task(B)] /\ proc' = [proc EXCEPT ![d] = p]
  BY DEF FleetInv, Typed, revoke
<1> HIDE DEF p
<1>8. proc' \in [Device -> Task(B)] /\ proc'[d].at # "apply" /\ \A f \in Device \ {d} : proc'[f] = proc[f]
  BY <1>6, <1>7
<1>9. /\ trust' \in [Device -> [Device -> {"none", "pending", "approved", "revoked"}]]
      /\ \A f \in Device \ {d} : trust'[f] = trust[f]
  BY <1>2, Decides
<1>10. /\ log' \in [Device -> Seq(Told(B))]
       /\ \A e \in Device : Len(log[e]) <= Len(log'[e]) /\ \A i \in 1..Len(log[e]) : log'[e][i] = log[e][i]
  BY <1>4, <1>5, Appends
<1>11. Typed(B)'
  BY <1>1, <1>3, <1>8, <1>9, <1>10 DEF FleetInv, Typed
<1> QED
  BY <1>1, <1>8, <1>9, <1>10, <1>11, QuietFrame

\* A step that records a key and starts granting keeps the invariant.
LEMMA StartsGranting ==
    ASSUME NEW B \in Nat, FleetInv(B), NEW d \in Device, NEW new \in SUBSET Holding(B), RecordKeyEpoch(d, new),
           UNCHANGED <<trustvars, streams>>, NEW todo \in SUBSET (Minted(B) \X Device),
           proc' = [proc EXCEPT ![d].at = "granting", ![d].todo = todo]
    PROVE  FleetInv(B)'
<1>1. UNCHANGED <<trust, owed, contain, log, hub, seen, quar>>
  BY DEF trustvars, streams
<1>2. held' \in [Device -> SUBSET Holding(B)] /\ \A e \in Device : held[e] \subseteq held'[e]
  <2>1. held \in [Device -> SUBSET Holding(B)]
    BY DEF FleetInv, Typed
  <2> QED
    BY <2>1, Records
<1> DEFINE p == [proc[d] EXCEPT !.at = "granting", !.todo = todo]
<1>3. proc \in [Device -> Task(B)] /\ proc[d] \in Task(B)
  BY DEF FleetInv, Typed
<1>4. p \in Task(B) /\ p.at # "apply"
  BY <1>3 DEF Task, Approving
<1>5. proc' = [proc EXCEPT ![d] = p]
  OBVIOUS
<1> HIDE DEF p
<1>6. proc' \in [Device -> Task(B)] /\ proc'[d].at # "apply" /\ \A f \in Device \ {d} : proc'[f] = proc[f]
  BY <1>3, <1>4, <1>5
<1>7. Typed(B)'
  BY <1>1, <1>2, <1>6 DEF FleetInv, Typed
<1>8. \A f \in Device : Len(log[f]) \in Nat
  BY DEF FleetInv, Typed
<1> QED
  BY <1>1, <1>2, <1>6, <1>7, <1>8, QuietFrame

\* The founder's first key.
LEMMA FirstKey ==
    ASSUME NEW B \in Nat \ {0}, NEW d \in Device, d \notin Joiner
    PROVE  [key |-> [epoch |-> 1, by |-> d], origin |-> "self"] \in Holding(B)
BY DEF Holding, Minted, Key

\* Approving grants the preferred key of every epoch, after founding if need be.
LEMMA grantWorkspaceKeyKeeps ==
    ASSUME NEW B \in Nat \ {0}, FleetInv(B), NEW d \in Device, grantWorkspaceKeyToApprovedDevice(d)
    PROVE  FleetInv(B)'
<1> DEFINE e == proc[d].who
           founds == mayFound(d, TRUE)
           new == IF founds THEN {[key |-> [epoch |-> 1, by |-> d], origin |-> "self"]} ELSE {}
           all == held[d] \cup new
           best == {Preferred({h \in all : h.key.epoch = n}) : n \in {h.key.epoch : h \in all}}
           todo == {<<k, e>> : k \in best}
<1>1. held[d] \in SUBSET Holding(B) /\ proc[d] \in Task(B) /\ proc[d].at = "grantAll"
  BY DEF FleetInv, Typed, grantWorkspaceKeyToApprovedDevice
<1>2. e \in Device
  BY <1>1 DEF Task
<1>3. new \in SUBSET Holding(B)
  BY FirstKey DEF mayFound
<1>4. all \in SUBSET Holding(B)
  BY <1>1, <1>3
<1>5. best \in SUBSET Minted(B)
  <2> HIDE DEF all
  <2> SUFFICES ASSUME NEW g \in all PROVE Preferred({h \in all : h.key.epoch = g.key.epoch}) \in Minted(B)
    OBVIOUS
  <2>1. g \in {h \in all : h.key.epoch = g.key.epoch}
    OBVIOUS
  <2>2. {h \in all : h.key.epoch = g.key.epoch} \in SUBSET Holding(B)
    BY <1>4
  <2> QED
    BY <2>1, <2>2, PreferredIn
<1>6. todo \in SUBSET (Minted(B) \X Device)
  <2> HIDE DEF best, e
  <2> QED
    BY <1>2, <1>5
<1>7. RecordKeyEpoch(d, new) /\ UNCHANGED <<trustvars, streams>>
  BY DEF grantWorkspaceKeyToApprovedDevice
<1>8. proc' = [proc EXCEPT ![d].at = "granting", ![d].todo = todo]
  BY DEF grantWorkspaceKeyToApprovedDevice
<1> HIDE DEF new, todo
<1> QED
  BY <1>3, <1>6, <1>7, <1>8, StartsGranting

\* A rotation mints the next epoch.
LEMMA RotateKeeps ==
    ASSUME NEW B \in Nat, FleetInv(B), NEW d \in Device, Rotate(d)
    PROVE  FleetInv(B + 1)'
<1> DEFINE k == [epoch |-> CurrentKeyEpoch(d) + 1, by |-> d]
           new == {[key |-> k, origin |-> "self"]}
           todo == {<<k, e>> : e \in ApprovedRecipients(d)}
<1>1. Typed(B) /\ held[d] \in SUBSET Holding(B) /\ CurrentKeyEpoch(d) > 0
  BY DEF FleetInv, Typed, Rotate
<1>2. FleetInv(B + 1)
  BY <1>1, HigherBound DEF FleetInv
<1>3. CurrentKeyEpoch(d) \in 0..B
  BY <1>1, CurrentEpoch
<1>4. k \in Minted(B + 1)
  BY <1>1, <1>3 DEF Minted, Key
<1>5. new \in SUBSET Holding(B + 1)
  BY <1>4 DEF Holding
<1>6. todo \in SUBSET (Minted(B + 1) \X Device)
  BY <1>4 DEF ApprovedRecipients
<1>7. RecordKeyEpoch(d, new) /\ UNCHANGED <<trustvars, streams>>
  BY DEF Rotate
<1>8. proc' = [proc EXCEPT ![d].at = "granting", ![d].todo = todo]
  BY DEF Rotate
<1> HIDE DEF k, new, todo
<1>9. B + 1 \in Nat
  OBVIOUS
<1> QED
  BY <1>2, <1>5, <1>6, <1>7, <1>8, <1>9, StartsGranting

-----------------------------------------------------------------------------
(* Steps that read the hub, apply what was read, and push.                 *)

\* A bounded-below set of positions has a first one (where a pull stops).
LEMMA First ==
    ASSUME NEW S \in SUBSET Nat, S # {}
    PROVE  \E i \in S : \A j \in S : i <= j
<1>1. PICK x \in S : \A y \in S : ~(<<y, x>> \in OpToRel(<, Nat))
  BY NatLessThanWellFounded, WFMin
<1>2. \A y \in S : ~(y < x)
  BY <1>1 DEF OpToRel
<1> QED
  BY <1>2

\* A revocation learnt from a peer, applied: only d's own table changes, and only towards revoked.
LEMMA Revocations ==
    ASSUME NEW B \in Nat, FleetInv(B), NEW d \in Device, NEW targets, ApplyRevocations(d, targets)
    PROVE  /\ trust' \in [Device -> [Device -> {"none", "pending", "approved", "revoked"}]]
           /\ owed' \in [Device -> BOOLEAN]
           /\ \A e \in Device \ {d} : trust'[e] = trust[e]
           /\ \A e \in Device : trust'[d][e] \in {trust[d][e], "revoked"}
<1> DEFINE flip == {t \in targets \ {d} : trust[d][t] # "revoked"}
           row == [e \in Device |-> IF e \in flip THEN "revoked" ELSE trust[d][e]]
<1>1. trust \in [Device -> [Device -> {"none", "pending", "approved", "revoked"}]] /\ owed \in [Device -> BOOLEAN]
  BY DEF FleetInv, Typed
<1>2. trust' = [trust EXCEPT ![d] = row]
  BY DEF ApplyRevocations
<1>3. row \in [Device -> {"none", "pending", "approved", "revoked"}] /\ \A e \in Device : row[e] \in {trust[d][e], "revoked"}
  <2> HIDE DEF flip
  <2> QED
    BY <1>1
<1>4. owed' = owed \/ owed' = [owed EXCEPT ![d] = SetWCKRotationPendingTx(d)]
  <2>1. owed' = [owed EXCEPT ![d] = IF flip = {} THEN owed[d] ELSE SetWCKRotationPendingTx(d)]
    BY DEF ApplyRevocations
  <2>2. [owed EXCEPT ![d] = owed[d]] = owed
    BY <1>1
  <2> HIDE DEF flip
  <2> QED
    BY <2>1, <2>2, Zenon
<1>5. owed' \in [Device -> BOOLEAN]
  <2>1. \A x \in BOOLEAN : [owed EXCEPT ![d] = x] \in [Device -> BOOLEAN]
    BY <1>1
  <2>2. SetWCKRotationPendingTx(d) \in BOOLEAN
    BY DEF SetWCKRotationPendingTx
  <2> QED
    BY ONLY <1>1, <1>4, <2>1, <2>2, Zenon
<1> HIDE DEF row
<1> QED
  BY <1>1, <1>2, <1>3, <1>5

\* Granted keys as rows of a keyring.
LEMMA GrantedRows ==
    ASSUME NEW B, NEW G, G \subseteq Minted(B)
    PROVE  /\ {[key |-> k, origin |-> "grant"] : k \in G} \in SUBSET Holding(B)
           /\ Keys({[key |-> k, origin |-> "grant"] : k \in G}) = G
<1>1. \A k \in G : [key |-> k, origin |-> "grant"] \in Holding(B) /\ [key |-> k, origin |-> "grant"].key = k
  BY DEF Holding
<1> QED
  BY <1>1 DEF Keys

\* The replay of the quarantine after an approval.
LEMMA replayKeeps ==
    ASSUME NEW B \in Nat, FleetInv(B), NEW d \in Device, replayQuarantinedEvents(d)
    PROVE  FleetInv(B)'
<1> DEFINE who == proc[d].who
           mine == {q \in quar[d] : q.from = who}
           grants == replayedGrants(d, mine)
           new == {[key |-> k, origin |-> "grant"] : k \in grants}
<1>1. UNCHANGED <<contain, log, hub, seen>> /\ RecordKeyEpoch(d, new) /\ quar' = [quar EXCEPT ![d] = quar[d] \ mine]
  BY DEF replayQuarantinedEvents
<1>2. proc' = [proc EXCEPT ![d] = Idle] \/ proc' = [proc EXCEPT ![d] = [Idle EXCEPT !.at = "sync"]]
  BY DEF replayQuarantinedEvents
<1>3. /\ trust' \in [Device -> [Device -> {"none", "pending", "approved", "revoked"}]]
      /\ owed' \in [Device -> BOOLEAN]
      /\ \A e \in Device \ {d} : trust'[e] = trust[e]
  BY Revocations DEF replayQuarantinedEvents
<1>4. /\ held \in [Device -> SUBSET Holding(B)] /\ proc \in [Device -> Task(B)] /\ proc[d] \in Task(B)
      /\ quar \in [Device -> SUBSET [from : Device, ev : Told(B)]] /\ hub \in [Device -> Seq(Sealed(B))]
      /\ log \in [Device -> Seq(Told(B))] /\ contain \in [Device -> SUBSET Device]
      /\ seen \in [Device -> [Device -> Nat]]
  BY DEF FleetInv, Typed
<1>5. proc' \in [Device -> Task(B)] /\ proc'[d].at # "apply" /\ \A e \in Device \ {d} : proc'[e] = proc[e]
  <2>1. Idle \in Task(B) /\ Idle.at = "idle" /\ [Idle EXCEPT !.at = "sync"] \in Task(B) /\ [Idle EXCEPT !.at = "sync"].at = "sync"
    BY <1>4, TaskMoves
  <2> QED
    BY <1>2, <1>4, <2>1
<1>6. grants \subseteq Minted(B)
  <2> SUFFICES ASSUME NEW q \in quar[d], q.ev.type = "grant" PROVE q.ev.key \in Minted(B)
    BY DEF replayedGrants
  <2>1. q.ev \in Told(B)
    BY <1>4
  <2> QED
    BY <2>1, EventKinds
<1>7. new \in SUBSET Holding(B) /\ Keys(new) = grants
  BY <1>6, GrantedRows
<1>8. \A q \in mine : (q.ev.type = "grant" /\ q.ev.to = d) => q.ev.key \in grants
  BY DEF replayedGrants
<1> HIDE DEF new, grants
<1>9. /\ held' \in [Device -> SUBSET Holding(B)] /\ \A e \in Device : held[e] \subseteq held'[e]
      /\ Keys(new) \subseteq Keys(held'[d])
  BY <1>1, <1>4, <1>7, Records
<1>10. quar' \in [Device -> SUBSET [from : Device, ev : Told(B)]] /\ \A e \in Device \ {d} : quar'[e] = quar[e]
  BY <1>1, <1>4
<1>11. Typed(B)'
  BY <1>1, <1>3, <1>4, <1>5, <1>9, <1>10 DEF Typed
<1>12. Growing
  <2>1. \A e \in Device : Len(hub[e]) \in Nat
    BY <1>4
  <2> QED
    BY <1>1, <1>9, <2>1 DEF Growing
<1>13. Alone(d)
  BY <1>1, <1>3, <1>5, <1>10 DEF Alone
<1>14. Streams'
  BY <1>1 DEF FleetInv, Streams
<1>15. Kept(d)'
  <2> SUFFICES ASSUME NEW e \in Device \ {d}, NEW i \in 1..seen[d][e], ToMe(d, e, i)
               PROVE  hub[e][i].ev.key \in Keys(held'[d]) \/ [from |-> e, ev |-> hub[e][i].ev] \in quar'[d]
    BY <1>1 DEF Kept, ToMe
  <2> DEFINE q == [from |-> e, ev |-> hub[e][i].ev]
  <2>1. hub[e][i].ev.key \in Keys(held[d]) \/ q \in quar[d]
    BY DEF FleetInv, Kept
  <2>2. CASE hub[e][i].ev.key \in Keys(held[d])
    BY <1>9, <2>2 DEF Keys
  <2>3. CASE q \in mine
    <3>1. q.ev.key \in grants
      BY <1>8, <2>3 DEF ToMe
    <3> QED
      BY <1>7, <1>9, <3>1
  <2>4. CASE q \in quar[d] \ mine
    BY <1>1, <1>4, <2>4
  <2> QED
    BY <2>1, <2>2, <2>3, <2>4
<1>16. Ready(d)'
  BY <1>5 DEF Ready
<1> QED
  BY <1>11, <1>12, <1>13, <1>14, <1>15, <1>16, Frame

\* The events on the hub.
LEMMA HubEvents ==
    ASSUME NEW B, FleetInv(B)
    PROVE  \A e \in Device : Len(hub[e]) \in Nat /\ \A i \in 1..Len(hub[e]) : hub[e][i].ev \in Told(B)
<1> SUFFICES ASSUME NEW e \in Device PROVE Len(hub[e]) \in Nat /\ \A i \in 1..Len(hub[e]) : hub[e][i].ev \in Told(B)
  OBVIOUS
<1>1. hub[e] \in Seq(Sealed(B))
  BY DEF FleetInv, Typed
<1>2. Len(hub[e]) \in Nat /\ \A i \in 1..Len(hub[e]) : hub[e][i] \in Sealed(B)
  BY <1>1
<1>3. \A m \in Sealed(B) : m.ev \in Told(B)
  BY DEF Sealed
<1> QED
  BY <1>2, <1>3

\* A pull ingests the grants of the batch and reads each stream up to the first event it has no key for.
LEMMA syncPullKeeps ==
    ASSUME NEW B \in Nat, FleetInv(B), NEW d \in Device, syncPull(d)
    PROVE  FleetInv(B)'
<1> DEFINE keys == Keys(held[d] \cup Ingested(d))
           blocked(e) == {i \in Unread(d, e) : hub[e][i].ev.type # "grant" /\ hub[e][i].key \notin keys}
           first(e) == CHOOSE i \in blocked(e) : \A j \in blocked(e) : i <= j
           stop(e) == IF blocked(e) = {} THEN Len(hub[e]) ELSE first(e) - 1
           others == Device \ {d}
           far == {f \in others : stop(f) > seen[d][f]}
           todo == {<<e, stop(e)>> : e \in far}
           caughtUp == \A e \in others : Unread(d, e) = {}
           p == [Idle EXCEPT !.at = "apply", !.cause = "sync", !.flag = caughtUp, !.todo = todo]
<1>1. UNCHANGED <<trust, owed, contain, log, hub, seen, quar>>
  BY DEF syncPull, trustvars, streams
<1>2. held' = [held EXCEPT ![d] = held[d] \cup {h \in Ingested(d) : h.key \notin Keys(held[d])}]
  BY DEF syncPull
<1>3. proc' = [proc EXCEPT ![d] = p]
  BY DEF syncPull
<1>4. /\ held \in [Device -> SUBSET Holding(B)] /\ proc \in [Device -> Task(B)]
      /\ hub \in [Device -> Seq(Sealed(B))] /\ seen \in [Device -> [Device -> Nat]]
      /\ log \in [Device -> Seq(Told(B))]
  BY DEF FleetInv, Typed
<1>5. \A e \in Device : Len(hub[e]) \in Nat /\ \A i \in 1..Len(hub[e]) : hub[e][i].ev \in Told(B)
  BY HubEvents
<1> DEFINE G == UNION {Grants(d, e) : e \in {f \in Device \ {d} : VerifiedGrant(d, f)}}
<1>6. G \subseteq Minted(B)
  <2> SUFFICES ASSUME NEW e \in Device, NEW i \in 1..Len(hub[e]), hub[e][i].ev.type = "grant"
               PROVE  hub[e][i].ev.key \in Minted(B)
    BY DEF Grants, Unread
  <2> QED
    BY <1>5, EventKinds
<1>7. Ingested(d) \in SUBSET Holding(B) /\ Keys(Ingested(d)) = G
  BY <1>6, GrantedRows DEF Ingested
<1>8. held' \in [Device -> SUBSET Holding(B)] /\ \A e \in Device : held[e] \subseteq held'[e]
  <2>1. {h \in Ingested(d) : h.key \notin Keys(held[d])} \in SUBSET Holding(B)
    BY <1>7
  <2> QED
    BY <1>2, <1>4, <2>1
<1>9. G \subseteq Keys(held'[d])
  <2> SUFFICES ASSUME NEW h \in Ingested(d) PROVE h.key \in Keys(held'[d])
    BY <1>7 DEF Keys
  <2>1. held'[d] = held[d] \cup {g \in Ingested(d) : g.key \notin Keys(held[d])}
    BY <1>2, <1>4
  <2> QED
    BY <2>1 DEF Keys
<1>10. ASSUME NEW e \in others PROVE stop(e) <= Len(hub[e]) /\ (e \in far => stop(e) \in Nat)
  <2>1. blocked(e) \in SUBSET (1..Len(hub[e]))
    BY DEF Unread
  <2>2. CASE blocked(e) = {}
    <3> HIDE DEF blocked, far
    <3> QED
      BY <1>5, <2>2
  <2>3. CASE blocked(e) # {}
    <3> HIDE DEF blocked
    <3>1. first(e) \in blocked(e)
      BY <1>5, <2>1, <2>3, First
    <3> HIDE DEF first
    <3>2. first(e) \in 1..Len(hub[e])
      BY <2>1, <3>1
    <3> QED
      BY <1>5, <2>3, <3>2
  <2> QED
    BY <2>2, <2>3
<1> HIDE DEF stop
<1>11. todo \in SUBSET (Device \X Nat)
  BY <1>10
<1>12. p \in Task(B) /\ p.at = "apply" /\ p.todo = todo
  <2>1. caughtUp \in BOOLEAN
    OBVIOUS
  <2> HIDE DEF caughtUp, todo
  <2> QED
    BY <1>11, <2>1 DEF Task, Idle, Approving
<1> HIDE DEF p
<1>13. proc' \in [Device -> Task(B)] /\ proc'[d] = p /\ \A e \in Device \ {d} : proc'[e] = proc[e]
  BY <1>3, <1>4, <1>12
<1>14. Typed(B)'
  BY <1>1, <1>8, <1>13 DEF FleetInv, Typed
<1>15. Growing
  BY <1>1, <1>5, <1>8 DEF Growing
<1>16. Alone(d) /\ Streams'
  BY <1>1, <1>13 DEF Alone, FleetInv, Streams
<1>17. Kept(d)'
  BY <1>1, <1>15, KeptStays
<1>18. Ready(d)'
  <2> HIDE DEF far
  <2> SUFFICES ASSUME NEW e \in far
               PROVE  /\ e # d /\ stop(e) <= Len(hub[e])
                      /\ VerifiedGrant(d, e) => \A i \in 1..stop(e) :
                          (i > seen[d][e] /\ ToMe(d, e, i)) => hub[e][i].ev.key \in Keys(held'[d])
    <3>1. \A s \in todo : \E e \in far : s = <<e, stop(e)>> /\ s[1] = e /\ s[2] = stop(e)
      OBVIOUS
    <3>2. \A s, t \in todo : s[1] = t[1] => s = t
      OBVIOUS
    <3>4. \A f \in Device : VerifiedGrant(d, f)' <=> VerifiedGrant(d, f)
      BY <1>1 DEF VerifiedGrant, hasEnrolledDevices
    <3>5. far \subseteq Device
      BY DEF far
    <3> HIDE DEF todo
    <3> QED
      BY <1>1, <1>12, <1>13, <3>1, <3>2, <3>4, <3>5 DEF Ready, ToMe
  <2>1. e \in others /\ e \in Device /\ e # d
    BY DEF far
  <2>2. stop(e) <= Len(hub[e]) /\ stop(e) \in Nat
    BY <1>10, <2>1
  <2>3. ASSUME VerifiedGrant(d, e), NEW i \in 1..stop(e), i > seen[d][e], ToMe(d, e, i)
        PROVE  hub[e][i].ev.key \in Keys(held'[d])
    <3>1. i \in Unread(d, e)
      BY <1>5, <2>1, <2>2, <2>3 DEF Unread
    <3>2. hub[e][i].ev.key \in Grants(d, e)
      BY <2>3, <3>1 DEF Grants, ToMe
    <3> QED
      BY <1>9, <2>1, <2>3, <3>2
  <2> QED
    BY <2>1, <2>2, <2>3
<1> QED
  BY <1>14, <1>15, <1>16, <1>17, <1>18, Frame

\* One origin's events are applied: what was granted is held or quarantined.
LEMMA applyStreamKeeps ==
    ASSUME NEW B \in Nat, FleetInv(B), NEW d \in Device, applyStream(d)
    PROVE  FleetInv(B)'
<1>1. UNCHANGED <<held, contain, log, hub>> /\ proc[d].at = "apply"
  BY DEF applyStream, keyvars
<1>2. PICK s \in proc[d].todo :
        LET e == s[1]
            evs == {hub[e][i].ev : i \in {j \in Unread(d, e) : j <= s[2]}}
            revs == {v \in evs : v.type = "revoke"}
            grants == {v \in evs : v.type = "grant" /\ ~VerifiedGrant(d, e)}
            refused == grants \cup IF VerifiedTrust(d, e) THEN {} ELSE revs
        IN  /\ ApplyRevocations(d, IF VerifiedTrust(d, e) THEN {v.target : v \in revs} ELSE {})
            /\ quar' = [quar EXCEPT ![d] = quar[d] \cup {[from |-> e, ev |-> v] : v \in refused}]
            /\ seen' = [seen EXCEPT ![d][e] = s[2]]
            /\ proc' = [proc EXCEPT ![d].todo = proc[d].todo \ {s}]
  BY DEF applyStream
<1>3. /\ held \in [Device -> SUBSET Holding(B)] /\ proc \in [Device -> Task(B)] /\ proc[d] \in Task(B)
      /\ hub \in [Device -> Seq(Sealed(B))] /\ seen \in [Device -> [Device -> Nat]]
      /\ log \in [Device -> Seq(Told(B))] /\ quar \in [Device -> SUBSET [from : Device, ev : Told(B)]]
      /\ trust \in [Device -> [Device -> {"none", "pending", "approved", "revoked"}]]
      /\ contain \in [Device -> SUBSET Device]
  BY DEF FleetInv, Typed
<1>4. \A e \in Device : Len(hub[e]) \in Nat /\ \A i \in 1..Len(hub[e]) : hub[e][i].ev \in Told(B)
  BY HubEvents
<1>5. proc[d].todo \in SUBSET (Device \X Nat)
  BY <1>1, <1>3 DEF Task
<1>6. PICK e \in Device, n \in Nat : s = <<e, n>> /\ s[1] = e /\ s[2] = n
  BY <1>5
<1> DEFINE evs == {hub[e][i].ev : i \in {j \in Unread(d, e) : j <= n}}
           revs == {v \in evs : v.type = "revoke"}
           grants == {v \in evs : v.type = "grant" /\ ~VerifiedGrant(d, e)}
           refused == grants \cup IF VerifiedTrust(d, e) THEN {} ELSE revs
           p == [proc[d] EXCEPT !.todo = proc[d].todo \ {s}]
<1>7. /\ \E targets : ApplyRevocations(d, targets)
      /\ quar' = [quar EXCEPT ![d] = quar[d] \cup {[from |-> e, ev |-> v] : v \in refused}]
      /\ seen' = [seen EXCEPT ![d] = [seen[d] EXCEPT ![e] = n]]
      /\ proc' = [proc EXCEPT ![d] = p]
  BY <1>2, <1>6
<1>8. evs \subseteq Told(B) /\ refused \subseteq evs
  BY <1>4 DEF Unread
<1>9. /\ trust' \in [Device -> [Device -> {"none", "pending", "approved", "revoked"}]]
      /\ owed' \in [Device -> BOOLEAN]
      /\ \A f \in Device \ {d} : trust'[f] = trust[f]
      /\ \A f \in Device : trust'[d][f] \in {trust[d][f], "revoked"}
  BY <1>7, Revocations
<1>10. p \in Task(B) /\ p.at = "apply" /\ p.todo = proc[d].todo \ {s}
  BY <1>1, <1>3, <1>5 DEF Task, Approving
<1> HIDE DEF p
<1>11. proc' \in [Device -> Task(B)] /\ proc'[d] = p /\ \A f \in Device \ {d} : proc'[f] = proc[f]
  BY <1>3, <1>7, <1>10
<1>12. /\ seen' \in [Device -> [Device -> Nat]]
       /\ \A f \in Device \ {d} : seen'[f] = seen[f]
       /\ seen'[d][e] = n /\ \A f \in Device \ {e} : seen'[d][f] = seen[d][f]
  BY <1>3, <1>6, <1>7
<1>13. /\ quar' \in [Device -> SUBSET [from : Device, ev : Told(B)]]
       /\ \A f \in Device \ {d} : quar'[f] = quar[f]
       /\ quar[d] \subseteq quar'[d] /\ \A v \in grants : [from |-> e, ev |-> v] \in quar'[d]
  <2>1. {[from |-> e, ev |-> v] : v \in refused} \in SUBSET [from : Device, ev : Told(B)]
    BY <1>8
  <2>2. grants \subseteq refused
    OBVIOUS
  <2> HIDE DEF refused
  <2> QED
    BY <1>3, <1>7, <2>1, <2>2
<1>14. Typed(B)'
  BY <1>1, <1>3, <1>9, <1>11, <1>12, <1>13 DEF Typed
<1>15. Growing
  BY <1>1, <1>4 DEF Growing
<1>16. Alone(d)
  BY <1>9, <1>11, <1>12, <1>13 DEF Alone
<1>17. /\ e # d /\ n <= Len(hub[e])
       /\ VerifiedGrant(d, e) => \A i \in 1..n : (i > seen[d][e] /\ ToMe(d, e, i)) => hub[e][i].ev.key \in Keys(held[d])
       /\ \A t \in proc[d].todo : e = t[1] => s = t
  BY <1>1, <1>6 DEF FleetInv, Ready
<1>18. Streams'
  <2>1. Streams
    BY DEF FleetInv
  <2> QED
    BY <1>1, <1>12, <1>17, <2>1 DEF Streams
<1>19. Kept(d)'
  <2> SUFFICES ASSUME NEW f \in Device \ {d}, NEW i \in 1..seen'[d][f], ToMe(d, f, i)
               PROVE  hub[f][i].ev.key \in Keys(held[d]) \/ [from |-> f, ev |-> hub[f][i].ev] \in quar'[d]
    BY <1>1 DEF Kept, ToMe
  <2>1. CASE i \in 1..seen[d][f]
    <3>1. hub[f][i].ev.key \in Keys(held[d]) \/ [from |-> f, ev |-> hub[f][i].ev] \in quar[d]
      BY <2>1 DEF FleetInv, Kept
    <3> QED
      BY <1>13, <3>1
  <2>2. CASE i \notin 1..seen[d][f]
    <3>1. f = e /\ i \in 1..n /\ i > seen[d][e]
      <4>1. seen[d][f] \in Nat
        BY <1>3
      <4>2. f = e
        BY <1>12, <2>2
      <4> QED
        BY <1>12, <2>2, <4>1, <4>2
    <3>2. CASE VerifiedGrant(d, e)
      BY <1>17, <3>1, <3>2
    <3>3. CASE ~VerifiedGrant(d, e)
      <4>1. i \in Unread(d, e) /\ i <= n
        BY <1>4, <1>17, <3>1 DEF Unread
      <4>2. hub[e][i].ev \in grants
        BY <3>1, <3>3, <4>1 DEF ToMe
      <4> QED
        BY <1>13, <3>1, <4>2
    <3> QED BY <3>2, <3>3
  <2> QED BY <2>1, <2>2
<1>20. \A f \in Device : VerifiedGrant(d, f)' => VerifiedGrant(d, f)
  <2>1. hasEnrolledDevices(d) => hasEnrolledDevices(d)'
    BY <1>9 DEF hasEnrolledDevices
  <2> QED
    BY <1>9, <2>1 DEF VerifiedGrant
<1>21. Ready(d)'
  <2> SUFFICES ASSUME NEW t \in proc[d].todo, t # s
               PROVE  /\ t[1] # d /\ t[2] <= Len(hub[t[1]]) /\ \A u \in proc[d].todo : t[1] = u[1] => t = u
                      /\ VerifiedGrant(d, t[1])' => \A i \in 1..t[2] :
                          (i > seen'[d][t[1]] /\ ToMe(d, t[1], i)) => hub[t[1]][i].ev.key \in Keys(held[d])
    BY <1>1, <1>10, <1>11 DEF Ready, ToMe
  <2>1. t[1] \in Device /\ t[1] # e
    BY <1>5, <1>17
  <2>2. seen'[d][t[1]] = seen[d][t[1]]
    BY <1>12, <2>1
  <2> QED
    BY <1>1, <1>20, <2>1, <2>2 DEF FleetInv, Ready
<1> QED
  BY <1>14, <1>15, <1>16, <1>18, <1>19, <1>21, Frame

\* What a log has beyond the pushed prefix.
LEMMA Rest ==
    ASSUME NEW T, NEW s \in Seq(T), NEW n \in Nat, n <= Len(s)
    PROVE  /\ SubSeq(s, n + 1, Len(s)) \in Seq(T) /\ Len(SubSeq(s, n + 1, Len(s))) = Len(s) - n
           /\ \A i \in 1..(Len(s) - n) : SubSeq(s, n + 1, Len(s))[i] = s[n + i]
<1>1. Len(s) \in Nat /\ \A i \in 1..Len(s) : s[i] \in T
  OBVIOUS
<1>2. \A i \in (n + 1)..Len(s) : s[i] \in T
  BY <1>1
<1>3. SubSeq(s, n + 1, Len(s)) = [i \in 1..(Len(s) - n) |-> s[n + i]]
  <2>1. SubSeq(s, n + 1, Len(s)) = [i \in 1..(1 + Len(s) - (n + 1)) |-> s[i + (n + 1) - 1]]
    BY <1>1, <1>2
  <2>2. 1 + Len(s) - (n + 1) = Len(s) - n /\ \A i \in 1..(Len(s) - n) : i + (n + 1) - 1 = n + i
    BY <1>1
  <2> QED
    BY <2>1, <2>2
<1>4. Len(s) - n \in Nat /\ \A i \in 1..(Len(s) - n) : s[n + i] \in T
  BY <1>1
<1> QED
  BY <1>3, <1>4

\* A push appends to the hub what the log has beyond it.
LEMMA pushKeeps ==
    ASSUME NEW B \in Nat \ {0}, FleetInv(B), NEW d \in Device, pushLocalEventsGated(d)
    PROVE  FleetInv(B)'
<1> DEFINE neverSynced == proc[d].flag /\ hub[d] = <<>> /\ \A e \in Device : seen[d][e] = 0
           founds == mayFound(d, neverSynced)
           new == IF founds THEN {[key |-> [epoch |-> 1, by |-> d], origin |-> "self"]} ELSE {}
           key == IF founds THEN [epoch |-> 1, by |-> d] ELSE PushKey(d)
           pending == LocalPendingEventsBySeq(d)
           pushed == hub[d] \o encryptEvents(pending, key)
<1>1. UNCHANGED <<trust, owed, contain, log, seen, quar>> /\ RecordKeyEpoch(d, new) /\ proc' = [proc EXCEPT ![d] = Idle]
  BY DEF pushLocalEventsGated, trustvars
<1>2. \/ (founds \/ CurrentKeyEpoch(d) > 0) /\ hub' = [hub EXCEPT ![d] = pushed]
      \/ UNCHANGED hub
  BY DEF pushLocalEventsGated
<1>3. /\ held \in [Device -> SUBSET Holding(B)] /\ proc \in [Device -> Task(B)] /\ proc[d] \in Task(B)
      /\ hub \in [Device -> Seq(Sealed(B))] /\ log \in [Device -> Seq(Told(B))]
  BY DEF FleetInv, Typed
<1>4. new \in SUBSET Holding(B)
  <2> HIDE DEF neverSynced
  <2> QED
    BY FirstKey DEF mayFound
<1>5. (founds \/ CurrentKeyEpoch(d) > 0) => key \in Minted(B)
  <2>1. CASE founds
    <3>1. d \notin Joiner
      BY <2>1 DEF mayFound
    <3>2. [epoch |-> 1, by |-> d] \in Minted(B)
      BY <3>1 DEF Minted, Key
    <3> HIDE DEF founds
    <3> QED
      BY <2>1, <3>2
  <2>2. CASE ~founds /\ CurrentKeyEpoch(d) > 0
    <3>1. KeysAt(d, CurrentKeyEpoch(d)) # {}
      BY <1>3, <2>2, CurrentEpoch
    <3>2. KeysAt(d, CurrentKeyEpoch(d)) \in SUBSET Holding(B)
      BY <1>3 DEF KeysAt
    <3>3. PushKey(d) \in Minted(B)
      BY <3>1, <3>2, PreferredIn DEF PushKey
    <3> HIDE DEF founds
    <3> QED
      BY <2>2, <3>3
  <2> QED BY <2>1, <2>2
<1> HIDE DEF new, key, founds
<1>6. held' \in [Device -> SUBSET Holding(B)] /\ \A e \in Device : held[e] \subseteq held'[e]
  BY <1>1, <1>3, <1>4, Records
<1>7. proc' \in [Device -> Task(B)] /\ proc'[d] = Idle /\ Idle.at = "idle" /\ \A e \in Device \ {d} : proc'[e] = proc[e]
  <2>1. Idle \in Task(B) /\ Idle.at = "idle"
    BY <1>3, TaskMoves
  <2> QED
    BY <1>1, <1>3, <2>1
<1>8. Len(hub[d]) <= Len(log[d]) /\ \A i \in 1..Len(hub[d]) : hub[d][i].ev = log[d][i]
  BY DEF FleetInv, Streams
<1>9. hub[d] \in Seq(Sealed(B)) /\ log[d] \in Seq(Told(B)) /\ Len(hub[d]) \in Nat /\ Len(log[d]) \in Nat
  BY <1>3
<1>10. /\ pending \in Seq(Told(B)) /\ Len(pending) = Len(log[d]) - Len(hub[d])
       /\ \A i \in 1..Len(pending) : pending[i] = log[d][Len(hub[d]) + i]
  <2> DEFINE rest == SubSeq(log[d], Len(hub[d]) + 1, Len(log[d]))
  <2>1. /\ rest \in Seq(Told(B)) /\ Len(rest) = Len(log[d]) - Len(hub[d])
        /\ \A i \in 1..(Len(log[d]) - Len(hub[d])) : rest[i] = log[d][Len(hub[d]) + i]
    BY <1>8, <1>9, Rest
  <2>2. pending = rest
    BY DEF LocalPendingEventsBySeq
  <2> HIDE DEF pending, rest
  <2> QED
    BY <2>1, <2>2
<1> HIDE DEF pending
<1>11. ASSUME key \in Minted(B)
       PROVE  /\ encryptEvents(pending, key) \in Seq(Sealed(B)) /\ Len(encryptEvents(pending, key)) = Len(pending)
              /\ \A i \in 1..Len(pending) : encryptEvents(pending, key)[i].ev = pending[i]
  <2>1. Len(pending) \in Nat
    BY <1>10
  <2>2. \A i \in 1..Len(pending) :
          [ev |-> pending[i], key |-> IF pending[i].type = "grant" THEN None ELSE key] \in Sealed(B)
    <3>1. \A i \in 1..Len(pending) : pending[i] \in Told(B)
      BY <1>10
    <3> QED
      BY <1>11, <3>1 DEF Sealed
  <2> QED
    BY <2>1, <2>2 DEF encryptEvents
<1>12. ASSUME key \in Minted(B)
       PROVE  /\ pushed \in Seq(Sealed(B)) /\ Len(pushed) = Len(log[d])
              /\ \A i \in 1..Len(hub[d]) : pushed[i] = hub[d][i]
              /\ \A i \in 1..Len(pushed) : pushed[i].ev = log[d][i]
  <2> DEFINE added == encryptEvents(pending, key)
  <2>1. added \in Seq(Sealed(B)) /\ Len(added) = Len(log[d]) - Len(hub[d]) /\ \A i \in 1..Len(added) : added[i].ev = log[d][Len(hub[d]) + i]
    BY <1>10, <1>11, <1>12
  <2> HIDE DEF added
  <2>2. (hub[d] \o added) \in Seq(Sealed(B)) /\ Len(hub[d] \o added) = Len(log[d])
    BY <1>8, <1>9, <2>1
  <2>3. \A i \in 1..Len(hub[d]) : (hub[d] \o added)[i] = hub[d][i]
    BY <1>9, <2>1
  <2>4. \A i \in 1..Len(log[d]) : i > Len(hub[d]) => (hub[d] \o added)[i] = added[i - Len(hub[d])] /\ i - Len(hub[d]) \in 1..Len(added)
    <3> TAKE i \in 1..Len(log[d])
    <3> SUFFICES ASSUME i > Len(hub[d]) PROVE (hub[d] \o added)[i] = added[i - Len(hub[d])] /\ i - Len(hub[d]) \in 1..Len(added)
      OBVIOUS
    <3>1. i \in Nat /\ i - Len(hub[d]) \in 1..Len(added) /\ i \in (Len(hub[d]) + 1)..(Len(hub[d]) + Len(added))
      <4> DEFINE h == Len(hub[d])
                 l == Len(log[d])
                 k == Len(added)
      <4>1. h \in Nat /\ l \in Nat /\ k = l - h /\ i \in 1..l /\ i > h
        BY <1>9, <2>1
      <4> HIDE DEF h, l, k
      <4>2. i \in Nat /\ i - h \in 1..k /\ i \in (h + 1)..(h + k)
        BY ONLY <4>1
      <4> QED
        BY <4>2 DEF h, l, k
    <3>2. hub[d] \in Seq(Sealed(B)) /\ added \in Seq(Sealed(B))
      BY <1>9, <2>1
    <3> QED
      BY ONLY <3>1, <3>2
  <2>5. \A i \in 1..Len(log[d]) : (hub[d] \o added)[i].ev = log[d][i]
    <3> SUFFICES ASSUME NEW i \in 1..Len(log[d]) PROVE (hub[d] \o added)[i].ev = log[d][i]
      OBVIOUS
    <3>1. CASE i <= Len(hub[d])
      BY <1>8, <1>9, <2>3, <3>1
    <3>2. CASE i > Len(hub[d])
      <4>1. added[i - Len(hub[d])].ev = log[d][Len(hub[d]) + (i - Len(hub[d]))]
        BY <2>1, <2>4, <3>2
      <4>2. Len(hub[d]) + (i - Len(hub[d])) = i
        BY <1>9
      <4> QED
        BY <2>4, <3>2, <4>1, <4>2, Zenon
    <3>3. i <= Len(hub[d]) \/ i > Len(hub[d])
      BY <1>9
    <3> QED BY <3>1, <3>2, <3>3, Zenon
  <2> QED
    BY <2>2, <2>3, <2>5 DEF added
<1> HIDE DEF pushed
<1>13. /\ hub' \in [Device -> Seq(Sealed(B))]
       /\ \A e \in Device : /\ Len(hub[e]) <= Len(hub'[e]) /\ Len(hub'[e]) <= Len(log[e])
                            /\ \A i \in 1..Len(hub[e]) : hub'[e][i] = hub[e][i]
                            /\ \A i \in 1..Len(hub'[e]) : hub'[e][i].ev = log[e][i]
  <2>1. \A e \in Device : Len(hub[e]) \in Nat /\ Len(log[e]) \in Nat
    BY <1>3
  <2>2. \A e \in Device : Len(hub[e]) <= Len(log[e]) /\ \A i \in 1..Len(hub[e]) : hub[e][i].ev = log[e][i]
    BY DEF FleetInv, Streams
  <2>3. CASE UNCHANGED hub
    BY <1>3, <2>1, <2>2, <2>3
  <2>4. CASE (founds \/ CurrentKeyEpoch(d) > 0) /\ hub' = [hub EXCEPT ![d] = pushed]
    <3>1. /\ pushed \in Seq(Sealed(B)) /\ Len(pushed) = Len(log[d])
          /\ \A i \in 1..Len(hub[d]) : pushed[i] = hub[d][i]
          /\ \A i \in 1..Len(pushed) : pushed[i].ev = log[d][i]
      BY <1>5, <1>12, <2>4
    <3>2. hub' \in [Device -> Seq(Sealed(B))] /\ \A e \in Device : hub'[e] = IF e = d THEN pushed ELSE hub[e]
      BY <1>3, <2>4, <3>1
    <3>3. ASSUME NEW e \in Device
          PROVE  /\ Len(hub[e]) <= Len(hub'[e]) /\ Len(hub'[e]) <= Len(log[e])
                 /\ \A i \in 1..Len(hub[e]) : hub'[e][i] = hub[e][i]
                 /\ \A i \in 1..Len(hub'[e]) : hub'[e][i].ev = log[e][i]
      <4>1. CASE e = d
        <5>1. hub'[d] = pushed
          BY <3>2, <4>1
        <5> QED
          BY ONLY <2>1, <2>2, <3>1, <4>1, <5>1, e \in Device
      <4>2. CASE e # d
        <5>1. hub'[e] = hub[e]
          BY <3>2, <4>2
        <5> QED
          BY ONLY <2>1, <2>2, <5>1, e \in Device
      <4> QED
        BY <4>1, <4>2
    <3> QED
      BY <3>2, <3>3
  <2> QED BY <1>2, <2>3, <2>4
<1>14. Typed(B)'
  BY <1>1, <1>6, <1>7, <1>13 DEF FleetInv, Typed
<1>15. Growing
  BY <1>6, <1>13 DEF Growing
<1>16. Alone(d)
  BY <1>1, <1>7 DEF Alone
<1>17. Streams'
  <2>1. \A e, f \in Device : seen[e][f] <= Len(hub[f]) /\ seen[e][f] \in Nat /\ Len(hub[f]) \in Nat /\ Len(hub'[f]) \in Nat
    <3>1. \A f \in Device : Len(hub[f]) \in Nat /\ Len(hub'[f]) \in Nat
      BY <1>3, <1>13
    <3>2. \A e, f \in Device : seen[e][f] \in Nat
      BY DEF FleetInv, Typed
    <3>3. \A e, f \in Device : seen[e][f] <= Len(hub[f])
      BY DEF FleetInv, Streams
    <3> QED
      BY <3>1, <3>2, <3>3
  <2>2. \A e, f \in Device : seen[e][f] <= Len(hub'[f])
    <3>1. \A f \in Device : Len(hub[f]) <= Len(hub'[f])
      BY <1>13
    <3> QED
      BY <2>1, <3>1
  <2> QED
    BY <1>1, <1>13, <2>2 DEF Streams
<1>18. Kept(d)'
  BY <1>1, <1>15, KeptStays
<1>19. Ready(d)'
  BY <1>7 DEF Ready
<1> QED
  BY <1>14, <1>15, <1>16, <1>17, <1>18, <1>19, Frame

-----------------------------------------------------------------------------
(* Initial states, the induction step and the theorems.                    *)

\* A fleet of fresh inits and joins.
LEMMA FreshStart ==
    ASSUME NEW pins \in [Joiner -> {"pending", "approved"}], runInit(pins),
           owed = [d \in Device |-> FALSE], contain = [d \in Device |-> {}],
           quar = [d \in Device |-> {}], proc = [d \in Device |-> Idle]
    PROVE  FleetInv(1)
<1>1. Idle \in Task(1) /\ Idle.at = "idle"
  BY DEF Task, Idle, Approving
<1>2. trust \in [Device -> [Device -> {"none", "pending", "approved", "revoked"}]]
  BY DEF runInit
<1>3. log \in [Device -> Seq(Told(1))] /\ hub \in [Device -> Seq(Sealed(1))]
  BY DEF runInit
<1>4. Typed(1)
  BY <1>1, <1>2, <1>3 DEF Typed, runInit
<1>5. Streams
  BY DEF runInit, Streams
<1>6. \A d \in Device : Kept(d)
  BY DEF runInit, Kept
<1>7. \A d \in Device : Ready(d)
  BY <1>1 DEF Ready
<1> QED
  BY <1>4, <1>5, <1>6, <1>7 DEF FleetInv

\* A fleet that finished pairing.
LEMMA EstablishedStart ==
    ASSUME NEW f \in Device \ Joiner, Established(f),
           owed = [d \in Device |-> FALSE], contain = [d \in Device |-> {}],
           quar = [d \in Device |-> {}], proc = [d \in Device |-> Idle]
    PROVE  FleetInv(1)
<1> DEFINE first == [epoch |-> 1, by |-> f]
           rest == Device \ {f}
           grant(e) == [type |-> "grant", key |-> first, to |-> e]
           G == {grant(e) : e \in rest}
           grants == SetToSeq(G)
<1>1. first \in Minted(1)
  BY DEF Minted, Key
<1>2. G \subseteq Told(1)
  BY <1>1 DEF Told
<1>3. IsFiniteSet(G)
  <2>1. IsFiniteSet(rest)
    BY FleetAssumption, FS_Subset DEF FleetAssumption
  <2> DEFINE image == [e \in rest |-> grant(e)]
  <2>2. image \in Surjection(rest, G)
    BY DEF Surjection
  <2> HIDE DEF image, G, rest
  <2> QED
    BY <2>1, <2>2, FS_Surjection
<1>4. grants \in Seq(G)
  <2> HIDE DEF G
  <2> QED
    BY <1>3, SeqOfSet
<1>5. Len(grants) \in Nat /\ \A i \in 1..Len(grants) : grants[i] \in G /\ grants[i].key = first
  <2>1. \A g \in G : g.key = first
    OBVIOUS
  <2> HIDE DEF G, grants
  <2> QED
    BY <1>4, <2>1
<1>6. grants \in Seq(Told(1))
  <2> HIDE DEF G, grants
  <2> QED
    BY <1>2, <1>4
<1>7. /\ trust = [d \in Device |-> [e \in Device |-> IF d = e THEN "none" ELSE "approved"]]
      /\ held = [d \in Device |-> {[key |-> first, origin |-> IF d = f THEN "self" ELSE "grant"]}]
      /\ log = [d \in Device |-> IF d = f THEN grants ELSE <<>>]
      /\ hub = [d \in Device |-> [i \in 1..Len(log[d]) |-> [ev |-> log[d][i], key |-> None]]]
      /\ seen = [d \in Device |-> [e \in Device |-> IF e = f /\ d # f THEN Len(grants) ELSE 0]]
  BY DEF Established
<1> HIDE DEF first, grants
<1>8. held \in [Device -> SUBSET Holding(1)] /\ \A d \in Device : first \in Keys(held[d])
  BY <1>1, <1>7 DEF Holding, Keys
<1>9. log \in [Device -> Seq(Told(1))]
  BY <1>6, <1>7
<1>10. \A d \in Device : /\ Len(log[d]) \in Nat /\ hub[d] \in Seq(Sealed(1)) /\ Len(hub[d]) = Len(log[d])
                         /\ \A i \in 1..Len(log[d]) : hub[d][i].ev = log[d][i]
  <2> TAKE d \in Device
  <2>1. hub[d] = [i \in 1..Len(log[d]) |-> [ev |-> log[d][i], key |-> None]]
    BY <1>7
  <2>2. log[d] \in Seq(Told(1)) /\ Len(log[d]) \in Nat /\ \A i \in 1..Len(log[d]) : log[d][i] \in Told(1)
    BY <1>9
  <2>3. \A i \in 1..Len(log[d]) : [ev |-> log[d][i], key |-> None] \in Sealed(1)
    BY <2>2 DEF Sealed
  <2> QED
    BY <2>1, <2>2, <2>3
<1>11. hub \in [Device -> Seq(Sealed(1))]
  BY <1>7, <1>10
<1>12. Idle \in Task(1) /\ Idle.at = "idle"
  BY DEF Task, Idle, Approving
<1>13. trust \in [Device -> [Device -> {"none", "pending", "approved", "revoked"}]]
       /\ seen \in [Device -> [Device -> Nat]]
  BY <1>5, <1>7
<1>14. Typed(1)
  BY <1>8, <1>9, <1>11, <1>12, <1>13 DEF Typed
<1>15. \A d, e \in Device : seen[d][e] <= Len(hub[e])
  <2>1. Len(hub[f]) = Len(grants)
    BY <1>7, <1>10
  <2>2. \A e \in Device : Len(hub[e]) \in Nat
    BY <1>10
  <2> QED
    BY <1>5, <1>7, <2>1, <2>2
<1>16. Streams
  BY <1>10, <1>15 DEF Streams
<1>17. \A d \in Device : Kept(d)
  <2> SUFFICES ASSUME NEW d \in Device, NEW e \in Device \ {d}, NEW i \in 1..seen[d][e]
               PROVE  hub[e][i].ev.key \in Keys(held[d])
    BY DEF Kept
  <2>1. e = f /\ i \in 1..Len(grants)
    BY <1>7
  <2>2. hub[e][i].ev = grants[i]
    BY <1>7, <1>10, <2>1
  <2> QED
    BY <1>5, <1>8, <2>1, <2>2
<1>18. \A d \in Device : Ready(d)
  BY <1>12 DEF Ready
<1> QED
  BY <1>14, <1>16, <1>17, <1>18 DEF FleetInv

\* The epochs that exist are bounded in every state, by a bound that rotations raise.
FleetAlways == \E B \in Nat \ {0} : FleetInv(B)

\* Every initial state satisfies the invariant.
LEMMA FleetStarts == Init => FleetAlways
<1> SUFFICES ASSUME Init PROVE FleetInv(1)
  BY DEF FleetAlways
<1>1. owed = [d \in Device |-> FALSE] /\ contain = [d \in Device |-> {}] /\ quar = [d \in Device |-> {}]
      /\ proc = [d \in Device |-> Idle]
  BY DEF Init
<1>2. (\E pins \in [Joiner -> {"pending", "approved"}] : runInit(pins)) \/ (\E f \in Device \ Joiner : Established(f))
  BY DEF Init
<1> QED
  BY <1>1, <1>2, FreshStart, EstablishedStart

\* Every step keeps it.
LEMMA FleetSteps == FleetAlways /\ [Next]_vars => FleetAlways'
<1> SUFFICES ASSUME NEW B \in Nat \ {0}, FleetInv(B), [Next]_vars PROVE FleetInv(B)' \/ FleetInv(B + 1)'
  BY DEF FleetAlways
<1>1. CASE UNCHANGED vars
  <2>1. UNCHANGED <<trust, held, owed, contain, log, hub, seen, quar, proc>>
    BY <1>1 DEF vars
  <2>2. Typed(B)' /\ Streams'
    BY <2>1 DEF FleetInv, Typed, Streams
  <2>3. \A d \in Device : Kept(d)' /\ Ready(d)'
    BY <2>1 DEF FleetInv, Kept, Ready, ToMe, VerifiedGrant, hasEnrolledDevices
  <2> QED
    BY <2>2, <2>3 DEF FleetInv
<1>2. ASSUME NEW d \in Device, NEW e \in Device,
             approve(d, e) \/ runDeviceEnroll(d, e, "approve") \/ pair(d, e) \/ revoke(d, e)
      PROVE  FleetInv(B)'
  BY <1>2, ApprovalKeeps, revokeKeeps
<1>3. ASSUME NEW d \in Device, SyncStep(d) PROVE FleetInv(B)'
  BY <1>3, syncPullKeeps, applyStreamKeeps, maybeRotateKeeps, pushKeeps DEF SyncStep
<1>4. ASSUME NEW d \in Device, CommandStep(d) PROVE FleetInv(B)' \/ FleetInv(B + 1)'
  BY <1>4, grantWorkspaceKeyKeeps, insertGrantKeeps, replayKeeps, RotateKeeps, skipRotationKeeps,
     rotationDoneKeeps, ContainmentKeeps DEF CommandStep
<1>5. ASSUME NEW d \in Device, Edit(d) \/ keysRotate(d) \/ Crash(d) PROVE FleetInv(B)'
  BY <1>5, EditKeeps, keysRotateKeeps, CrashKeeps
<1>6. ASSUME NEW d \in Device, \/ maybeRotateWorkspaceKey(d, TRUE) \/ rotateWorkspaceKeyOnRevoke(d) \/ rotationFails(d)
                               \/ revokeContainment(d, FALSE) \/ resumeRevokeContainment(d, FALSE)
      PROVE  FleetInv(B)'
  BY <1>6, maybeRotateKeeps, rotateOnRevokeKeeps, rotationFailsKeeps, ContainmentKeeps
<1> QED
  BY <1>1, <1>2, <1>3, <1>4, <1>5, <1>6 DEF Next

\* With one founder there is one first key.
LEMMA OneFounder == FleetAlways => OneFoundingKey
<1> SUFFICES ASSUME NEW B \in Nat \ {0}, FleetInv(B), Cardinality(Device \ Joiner) = 1
             PROVE  Cardinality({k \in UNION {Keys(held[d]) : d \in Device} : k.epoch = 1}) <= 1
  BY DEF FleetAlways, OneFoundingKey
<1> DEFINE K == {k \in UNION {Keys(held[d]) : d \in Device} : k.epoch = 1}
<1>1. IsFiniteSet(Device \ Joiner)
  BY FleetAssumption, FS_Subset DEF FleetAssumption
<1>2. PICK f : Device \ Joiner = {f}
  BY <1>1, FS_Singleton
<1>3. \A d \in Device : held[d] \in SUBSET Holding(B)
  BY DEF FleetInv, Typed
<1>4. \A k \in K : k \in Minted(B) /\ k.epoch = 1
  BY <1>3 DEF Keys, Holding
<1>5. \A k \in K : k \in Key /\ k.epoch = 1 /\ k.by \in Device \ Joiner
  BY <1>4 DEF Minted, Key
<1>6. K \in SUBSET {[epoch |-> 1, by |-> f]}
  <2> HIDE DEF K
  <2> QED
    BY <1>2, <1>5 DEF Key
<1>7. Cardinality(K) <= 1
  <2> DEFINE one == {[epoch |-> 1, by |-> f]}
  <2>1. IsFiniteSet(one) /\ Cardinality(one) = 1 /\ K \in SUBSET one
    BY <1>6, FS_Singleton
  <2> HIDE DEF K, one
  <2>2. Cardinality(K) <= Cardinality(one)
    BY <2>1, FS_Subset
  <2> QED
    BY <2>1, <2>2
<1> QED
  BY <1>7

\* The invariant implies what the run checks.
LEMMA FleetKeeps == FleetAlways => KeysKept
<1> SUFFICES ASSUME NEW B \in Nat \ {0}, FleetInv(B) PROVE TypeOK /\ GrantNeverLost
  BY OneFounder DEF FleetAlways, KeysKept
<1>1. Minted(B) \subseteq Key
  BY DEF Minted
<1>2. Told(B) \subseteq Event
  BY <1>1 DEF Told, Event
<1>3. \A d \in Device : log[d] \in Seq(Event)
  <2>1. \A d \in Device : log[d] \in Seq(Told(B))
    BY DEF FleetInv, Typed
  <2>2. Seq(Told(B)) \subseteq Seq(Event)
    BY <1>2
  <2> QED
    BY <2>1, <2>2
<1>4. \A d \in Device : \A h \in held[d] : h \in [key : Key, origin : {"self", "grant"}]
  BY <1>1 DEF FleetInv, Typed, Holding
<1>5. TypeOK
  BY <1>3, <1>4 DEF FleetInv, Typed, Streams, TypeOK
<1>6. GrantNeverLost
  BY DEF FleetInv, Kept, ToMe, GrantNeverLost
<1> QED
  BY <1>5, <1>6

\* No key of a workspace is founded twice when one device founds, and no key
\* that was granted is lost, whatever is approved, revoked, rotated, deferred
\* or crashes, in fleets of any size (the founder gate of the push, and the
\* pull that ingests grants before it applies and quarantines).
THEOREM FleetKeepsItsKeys == Spec => []KeysKept
<1>1. Spec => []FleetAlways
  BY FleetStarts, FleetSteps, PTL DEF Spec
<1> QED
  BY <1>1, FleetKeeps, PTL

\* The same for the specification the run explores, where the fleet's devices
\* share the state space with the blobs.
THEOREM KeysAreKept == FleetSpec => []KeysKept
<1>1. FleetInit => FleetAlways
  BY FleetStarts DEF FleetInit
<1>2. FleetAlways /\ [FleetNext]_fleetvars => FleetAlways'
  <2>1. [FleetNext]_fleetvars => [Next]_vars
    BY DEF FleetNext, fleetvars
  <2> QED
    BY <2>1, FleetSteps
<1>3. FleetSpec => []FleetAlways
  BY <1>1, <1>2, PTL DEF FleetSpec
<1> QED
  BY <1>3, FleetKeeps, PTL

-----------------------------------------------------------------------------
(* The blobs (module Blobs): events, rows, claims and the hub.             *)

\* Where each host's naming events are, and those h has: its own, and its
\* peers' up to its cursors.
BlobEvents(o) == {i \in 1..Len(told[o]) : told[o][i].type = "blob"}
Noted(h, o) == IF o = h THEN BlobEvents(o) ELSE {i \in BlobEvents(o) : i <= got[h][o]}
AllNaming == UNION {{told[o][i] : i \in BlobEvents(o)} : o \in Host}
Noticed(h) == UNION {{told[o][i] : i \in Noted(h, o)} : o \in Host}

\* A later event or row for the same project exists.
Succeeded(e) == \E n \in AllNaming : envCoordLess(e, n)

Claiming == {"emit", "repoint", "putnew", "publish"}
Replacing == {"putnew", "publish", "unlink", "queue"}
Wrapping == {"rewrap"} \cup Claiming \cup Replacing
Phases == {"idle", "fetch", "resume", "mark", "put", "push", "watermark", "drain", "reap", "gate", "sweep", "delete"} \cup Wrapping

BlobEvent == [type : {"blob", "revoked"}, ref : Nat, hlc : Nat, dev : Host]
Job == [at : Phases, cmd : {"none", "sync", "gc", "revoke"}, todo : SUBSET Nat, old : Nat, new : Nat,
        events : SUBSET Nat, base : SUBSET Nat, whole : BOOLEAN, now : Nat]
Budget == [kind : {"env", "draft"}, captures : [Host -> Nat], revokes : SUBSET Host, rotates : Nat,
           gcs : SUBSET Host, mishaps : Nat, ticks : Nat, direct : BOOLEAN]
Capture == [at : {"idle", "written", "clear"}, ref : Nat, rotate : BOOLEAN]

\* Events are stamped up to some bound; cursors and watermarks stay behind what
\* is on the hub.
EventTypes ==
    /\ told \in [Host -> Seq(BlobEvent)] /\ \A o \in Host : \A i \in 1..Len(told[o]) : told[o][i].dev = o
    /\ \E B \in Nat : \A o \in Host : \A i \in 1..Len(told[o]) : told[o][i].hlc <= B
    /\ stored \in [Host -> SUBSET Nat] /\ \A o \in Host : stored[o] \subseteq 1..Len(told[o])
    /\ sent \in [Host -> Nat] /\ \A o \in Host : 1..sent[o] \subseteq stored[o]
    /\ got \in [Host -> [Host -> Nat]] /\ \A h \in Host : \A o \in Host \ {h} : 1..got[h][o] \subseteq stored[o]

LocalTypes ==
    /\ budget \in Budget /\ made \in Seq([value : Nat, open : BOOLEAN])
    /\ rows \in [Host -> SUBSET BlobEvent]
    /\ cache \in [Host -> SUBSET Nat] /\ doomed \in [Host -> SUBSET Nat]
    /\ flag \in [Host -> BOOLEAN] /\ knows \in [Host -> BOOLEAN] /\ contains \in [Host -> BOOLEAN]
    /\ hand \in [Host -> Capture] /\ valued \in [Host -> SUBSET Nat]

HubTypes ==
    /\ DOMAIN blobs \subseteq Nat /\ \A r \in DOMAIN blobs : blobs[r] \in Nat /\ blobs[r] <= tick
    /\ tick \in Nat /\ job \in [Host -> Job] /\ \A h \in Host : job[h].now <= tick

\* A job that pushes has the events behind its watermark, and advances it over
\* what it stored.
EventsReady(h) ==
    /\ job[h].at \in {"put", "push", "watermark"} \/ (job[h].cmd = "sync" /\ job[h].at \in {"mark"} \cup Wrapping) =>
          \E n \in 0..Len(told[h]) : job[h].events = (sent[h] + 1)..n
    /\ job[h].at = "watermark" => job[h].events \subseteq stored[h]

\* A ref is named by one event; a ref encrypted by a capture or a rewrap that is
\* not named yet belongs to that command alone.
NamedOnce ==
    /\ \A o \in Host : \A i \in BlobEvents(o) : told[o][i].ref \in 1..Len(made)
    /\ \A o, p \in Host : \A i \in BlobEvents(o) : \A j \in BlobEvents(p) :
          told[o][i].ref = told[p][j].ref => o = p /\ i = j
Captured(h) ==
    hand[h].at = "written" =>
        /\ hand[h].ref \in 1..Len(made)
        /\ \A o \in Host : \A i \in BlobEvents(o) : told[o][i].ref # hand[h].ref
        /\ \A o \in Host \ {h} : hand[o].at = "written" => hand[o].ref # hand[h].ref
        /\ \A o \in Host : job[o].at \in Claiming => job[o].new # hand[h].ref
Rewrapped(h) ==
    job[h].at \in Claiming =>
        /\ job[h].new \in 1..Len(made)
        /\ \A o \in Host : \A i \in BlobEvents(o) : told[o][i].ref = job[h].new => job[h].at # "emit" /\ o = h
        /\ \A o \in Host \ {h} : job[o].at \in Claiming => job[o].new # job[h].new

\* A row has the coordinates of an event the device has and the ref of one, and
\* each of those events is a row or came before one.
RowsStand(h) ==
    /\ \A r \in rows[h] : \E e \in Noticed(h) : r.hlc = e.hlc /\ r.dev = e.dev
    /\ \A r \in rows[h] : \E e \in Noticed(h) : r.ref = e.ref
    /\ \A e \in Noticed(h) : e \in rows[h] \/ \E r \in rows[h] : envCoordLess(e, r)

\* A ref that is replaced is one the device had; by then a later row stands for
\* it, and once the rows are moved no row names it again.
Replaced(h) ==
    /\ job[h].at \in Wrapping => job[h].todo \subseteq Refs(Noticed(h))
    /\ job[h].at \in Claiming \cup Replacing => job[h].old \in Refs(Noticed(h)) /\ job[h].old # job[h].new
    /\ job[h].at = "repoint" => \A r \in rows[h] : r.ref = job[h].old =>
          /\ \E s \in rows[h] : envCoordLess(r, s)
          /\ job[h].new \in Refs(Noticed(h))
    /\ job[h].at \in {"emit", "repoint"} => job[h].new \notin doomed[h]
    /\ job[h].at \in Replacing => job[h].old \notin Refs(rows[h])
    /\ doomed[h] \subseteq Refs(Noticed(h)) /\ doomed[h] \cap Refs(rows[h]) = {}
    /\ job[h].at = "drain" => job[h].todo \subseteq doomed[h]

\* What was encrypted is cached until it is pushed, but for the collector's windows.
Cached(h) ==
    /\ hand[h].at = "written" => hand[h].ref \in cache[h] \cup raced
    /\ job[h].at = "emit" => job[h].new \in cache[h] \cup raced
    /\ \A e \in Unsent(h) : e.ref \in cache[h] \cup raced

\* Values known to be exposed are flagged, once their command has got that far.
Flagged(h) ==
    budget.kind = "env" /\ valued[h] # {} =>
        /\ rows[h] # {}
        /\ ~contains[h] \/ job[h].at \in Wrapping => flag[h]

\* What is put on the hub to be named there stays there until it is.
Pushing(h) == IF job[h].at = "push" THEN ToPush(h) ELSE IF job[h].at = "publish" THEN {job[h].new} ELSE {}
Young(r) == r \notin DOMAIN blobs \/ blobs[r] = tick
PushedWhole(h) ==
    \A r \in Pushing(h) : r \in Refs(Published) \/ (r \in DOMAIN blobs \cup raced /\ Young(r))

\* The blob of a published event is there, unless a later event is on its way.
PublishedKept == \A e \in Published : e.ref \in DOMAIN blobs \cup raced \/ Succeeded(e)

\* What hub gc works on: it has all that was published, but what is younger than
\* its view, and it deletes nothing that young.
ViewWhole(h) ==
    /\ (job[h].at = "gate" \/ (job[h].at = "fetch" /\ job[h].cmd = "gc")) /\ job[h].whole =>
          \A e \in Published \ Noticed(h) : Young(e.ref)
    /\ job[h].at \in {"sweep", "delete"} =>
          \A r \in job[h].todo \cup (IF job[h].at = "delete" THEN {job[h].old} ELSE {}) : \A e \in Published :
              e.ref = r => Succeeded(e) \/ r \notin DOMAIN blobs \/ blobs[r] >= job[h].now
    /\ job[h].at = "delete" => \A t \in job[h].base : t < job[h].now

BlobsHeld ==
    /\ EventTypes /\ LocalTypes /\ HubTypes
    /\ NamedOnce /\ \A h \in Host : Captured(h) /\ Rewrapped(h)
    /\ \A h \in Host : EventsReady(h) /\ RowsStand(h) /\ Replaced(h) /\ Cached(h) /\ Flagged(h)
    /\ \A h \in Host : PushedWhole(h) /\ ViewWhole(h)
    /\ PublishedKept /\ OldCiphertextRemembered

-----------------------------------------------------------------------------
(* The order of rows and events.                                           *)

\* Rows and events that carry coordinates of this project, stamped up to B.
Coord(B, r) == r.hlc \in Nat /\ r.hlc <= B /\ r.dev \in Host

LEMMA Precedes ==
    ASSUME NEW B, NEW r, NEW s, NEW t, Coord(B, r), Coord(B, s), Coord(B, t)
    PROVE  /\ ~envCoordLess(r, r)
           /\ envCoordLess(r, s) /\ envCoordLess(s, t) => envCoordLess(r, t)
           /\ envCoordLess(r, s) => ~envCoordLess(s, r)
<1>1. r.hlc \in Nat /\ s.hlc \in Nat /\ t.hlc \in Nat
  BY DEF Coord
<1>2. r.dev \in Nat /\ s.dev \in Nat /\ t.dev \in Nat
  BY BlobAssumption DEF Coord
<1> QED BY <1>1, <1>2 DEF envCoordLess

\* Finitely many numbers have a highest one.
LEMMA HostBounded == \E D \in Nat : \A h \in Host : h <= D
<1> DEFINE Bounded(S) == \E D \in Nat : \A h \in S : h <= D
           Unbounded == {S \in SUBSET Host : ~Bounded(S)}
           Sizes == {Cardinality(S) : S \in Unbounded}
<1>1. \A S \in SUBSET Host : IsFiniteSet(S) /\ Cardinality(S) \in Nat
  BY BlobAssumption, FS_Subset, FS_CardinalityType
<1>2. SUFFICES ASSUME Unbounded # {} PROVE FALSE
  <2> HIDE DEF Bounded
  <2>1. Bounded(Host)
    BY <1>2
  <2> QED BY <2>1 DEF Bounded
<1>3. Sizes \subseteq Nat /\ Sizes # {}
  BY <1>1, <1>2
<1>4. PICK n \in Sizes : \A m \in Sizes : ~(<<m, n>> \in OpToRel(<, Nat))
  <2> HIDE DEF Sizes
  <2> QED BY <1>3, NatLessThanWellFounded, WFMin
<1>5. PICK S \in Unbounded : n = Cardinality(S)
  OBVIOUS
<1>6. S # {}
  <2>1. Bounded({})
    <3>1. 0 \in Nat
      OBVIOUS
    <3> QED BY <3>1
  <2> HIDE DEF Bounded
  <2> QED BY <1>5, <2>1
<1>7. PICK x : x \in S
  BY <1>6
<1>8. Cardinality(S \ {x}) = n - 1 /\ n \in Nat
  BY <1>1, <1>5, <1>7, FS_RemoveElement
<1>9. S \ {x} \notin Unbounded
  <2>1. S \ {x} \in Unbounded => n - 1 \in Sizes
    BY <1>8
  <2> HIDE DEF Sizes, Unbounded
  <2>2. n - 1 \in Sizes => ~(n - 1 < n)
    BY <1>3, <1>4 DEF OpToRel
  <2> QED BY <1>8, <2>1, <2>2
<1>10. Bounded(S \ {x})
  <2> HIDE DEF Bounded
  <2> QED BY <1>5, <1>9
<1>11. PICK D \in Nat : \A h \in S \ {x} : h <= D
  BY <1>10
<1>12. x \in Nat /\ \A h \in S : h \in Nat
  BY <1>5, <1>7, BlobAssumption
<1>13. D + x \in Nat /\ \A h \in S : h <= D + x
  BY <1>11, <1>12
<1>14. Bounded(S)
  BY <1>13
<1> HIDE DEF Bounded
<1> QED BY <1>5, <1>14

\* Each row is among the latest, or one of the latest is later.
LEMMA LatestAbove ==
    ASSUME NEW S, NEW B \in Nat, \A r \in S : Coord(B, r), NEW x \in S
    PROVE  \E y \in LatestDraftSnapshot(S) : y = x \/ envCoordLess(x, y)
<1> DEFINE T == {s \in S : s = x \/ envCoordLess(x, s)}
           H == {s.hlc : s \in T}
<1>1. PICK n \in H : \A m \in H : m <= n
  <2>1. H \in SUBSET Nat /\ H # {} /\ \A m \in H : m <= B
    BY DEF Coord
  <2> HIDE DEF H
  <2> QED BY <2>1, Largest
<1> DEFINE V == {s.dev : s \in {t \in T : t.hlc = n}}
<1>2. PICK D \in Nat : \A h \in Host : h <= D
  BY HostBounded
<1>3. PICK v \in V : \A w \in V : w <= v
  <2>1. V \in SUBSET Nat /\ V # {} /\ \A w \in V : w <= D
    BY <1>1, <1>2, BlobAssumption DEF Coord
  <2> HIDE DEF V
  <2> QED BY <1>2, <2>1, Largest
<1>4. PICK y \in T : y.hlc = n /\ y.dev = v
  BY <1>3
<1>5. \A s \in T : ~envCoordLess(y, s)
  <2> SUFFICES ASSUME NEW s \in T PROVE ~envCoordLess(y, s)
    OBVIOUS
  <2>1. s.hlc <= n /\ (s.hlc = n => s.dev <= v)
    BY <1>1, <1>3
  <2>2. s.hlc \in Nat /\ y.hlc \in Nat /\ s.dev \in Nat /\ y.dev \in Nat
    BY <1>4, BlobAssumption DEF Coord
  <2> QED BY <1>4, <2>1, <2>2 DEF envCoordLess
<1>6. \A s \in S : ~envCoordLess(y, s)
  <2> SUFFICES ASSUME NEW s \in S, envCoordLess(y, s) PROVE FALSE
    OBVIOUS
  <2>1. Coord(B, s) /\ Coord(B, y) /\ Coord(B, x)
    BY <1>4
  <2>2. y = x \/ envCoordLess(x, y)
    BY <1>4
  <2>3. envCoordLess(x, s)
    BY <2>1, <2>2, Precedes
  <2>4. s \in T
    BY <2>3
  <2> QED BY <1>5, <2>4
<1> QED BY <1>4, <1>6 DEF LatestDraftSnapshot

\* What recording keeps: nothing is invented, and what is dropped has a later row.
LEMMA Recorded ==
    ASSUME NEW S, NEW E, NEW B \in Nat, \A r \in S \cup E : Coord(B, r)
    PROVE  /\ RecordAll(S, E) \subseteq S \cup E
           /\ \A x \in S \cup E : x \in RecordAll(S, E) \/ \E y \in RecordAll(S, E) : envCoordLess(x, y)
           /\ budget.kind = "env" => \A x \in RecordAll(S, E) : \A y \in S \cup E : ~envCoordLess(x, y)
<1>1. CASE budget.kind = "env"
  <2>1. RecordAll(S, E) = LatestDraftSnapshot(S \cup E)
    BY <1>1 DEF RecordAll
  <2>2. LatestDraftSnapshot(S \cup E) \subseteq S \cup E
        /\ \A x \in LatestDraftSnapshot(S \cup E) : \A y \in S \cup E : ~envCoordLess(x, y)
    BY DEF LatestDraftSnapshot
  <2>3. \A x \in S \cup E : \E y \in LatestDraftSnapshot(S \cup E) : y = x \/ envCoordLess(x, y)
    BY LatestAbove
  <2> QED BY <2>1, <2>2, <2>3
<1>2. CASE budget.kind # "env"
  BY <1>2 DEF RecordAll
<1> QED BY <1>1, <1>2

-----------------------------------------------------------------------------
(* Who changes what.                                                       *)

HostActs(h) ==
    \/ SyncWork(h) \/ HubGC(h) \/ revokeBlobs(h) \/ rewrapFails(h) \/ CrashBlobs(h)
    \/ \E rotate \in BOOLEAN : captureEnvProfile(h, rotate)
    \/ CommitCapture(h) \/ ClearRotationForProject(h)

LEMMA Acting == BlobNext => (\E h \in Host : HostActs(h)) \/ TickBlobs
  BY DEF BlobNext, HostActs

LEMMA WritesMade ==
    ASSUME NEW h \in Host, HostActs(h)
    PROVE  UNCHANGED made \/ (\E r \in job[h].todo : rewrapBlob(h, r)) \/
           (\E rotate \in BOOLEAN : captureEnvProfile(h, rotate))
  BY DEF HostActs, SyncWork, SyncBlobs, HubGC, pullReferencedBlobs, resumeContainment,
         MarkEncryptedBindingsNeedingRotation, drainPendingHubDelete, gcStat, emitSuperseding,
         UpdateBlobRef, rewrapPut, rewrapPush, rewrapDelete, QueuePendingHubDelete,
         clearContainment, pushReferencedBlobs, PushNaming, AdvancePushSeqCursor, BlobRefCount,
         gcUnreferencedBlobs, gcMark, gcDelete, gcDone, revokeBlobs, rewrapFails, CrashBlobs,
         CommitCapture, ClearRotationForProject, pullAndApply, hubvars, localvars, history

LEMMA WritesBlobs ==
    ASSUME NEW h \in Host, HostActs(h)
    PROVE  UNCHANGED blobs \/ (\E r \in job[h].todo : drainPendingHubDelete(h, r)) \/
           rewrapPut(h) \/ rewrapDelete(h) \/ pushReferencedBlobs(h) \/ gcDelete(h)
  BY DEF HostActs, SyncWork, SyncBlobs, HubGC, pullReferencedBlobs, resumeContainment,
         MarkEncryptedBindingsNeedingRotation, rewrapBlob, gcStat, emitSuperseding, UpdateBlobRef,
         rewrapPush, QueuePendingHubDelete, clearContainment, PushNaming, AdvancePushSeqCursor,
         BlobRefCount, gcUnreferencedBlobs, gcMark, gcDone, revokeBlobs, rewrapFails, CrashBlobs,
         captureEnvProfile, CommitCapture, ClearRotationForProject, pullAndApply, hubvars,
         localvars, history

LEMMA WritesQueued ==
    ASSUME NEW h \in Host, HostActs(h)
    PROVE  UNCHANGED queued \/ rewrapPut(h) \/ QueuePendingHubDelete(h) \/ pushReferencedBlobs(h)
  BY DEF HostActs, SyncWork, SyncBlobs, HubGC, pullReferencedBlobs, resumeContainment,
         MarkEncryptedBindingsNeedingRotation, rewrapBlob, drainPendingHubDelete, gcStat,
         emitSuperseding, UpdateBlobRef, rewrapPush, rewrapDelete, clearContainment, PushNaming,
         AdvancePushSeqCursor, BlobRefCount, gcUnreferencedBlobs, gcMark, gcDelete, gcDone,
         revokeBlobs, rewrapFails, CrashBlobs, captureEnvProfile, CommitCapture,
         ClearRotationForProject, pullAndApply, hubvars, localvars, history, DeleteBlob

LEMMA WritesStored ==
    ASSUME NEW h \in Host, HostActs(h)
    PROVE  UNCHANGED stored \/ rewrapPush(h) \/ PushNaming(h)
  BY DEF HostActs, SyncWork, SyncBlobs, HubGC, pullReferencedBlobs, resumeContainment,
         MarkEncryptedBindingsNeedingRotation, rewrapBlob, drainPendingHubDelete, gcStat,
         emitSuperseding, UpdateBlobRef, rewrapPut, rewrapDelete, QueuePendingHubDelete,
         clearContainment, pushReferencedBlobs, AdvancePushSeqCursor, BlobRefCount,
         gcUnreferencedBlobs, gcMark, gcDelete, gcDone, revokeBlobs, rewrapFails, CrashBlobs,
         captureEnvProfile, CommitCapture, ClearRotationForProject, pullAndApply, hubvars,
         localvars, history

LEMMA WritesTold ==
    ASSUME NEW h \in Host, HostActs(h)
    PROVE  UNCHANGED told \/ emitSuperseding(h) \/ revokeBlobs(h) \/ CommitCapture(h)
  BY DEF HostActs, SyncWork, SyncBlobs, HubGC, pullReferencedBlobs, resumeContainment,
         MarkEncryptedBindingsNeedingRotation, rewrapBlob, drainPendingHubDelete, gcStat,
         UpdateBlobRef, rewrapPut, rewrapPush, rewrapDelete, QueuePendingHubDelete,
         clearContainment, pushReferencedBlobs, PushNaming, AdvancePushSeqCursor, BlobRefCount,
         gcUnreferencedBlobs, gcMark, gcDelete, gcDone, rewrapFails, CrashBlobs, captureEnvProfile,
         ClearRotationForProject, pullAndApply, hubvars, localvars, history

LEMMA WritesSent ==
    ASSUME NEW h \in Host, HostActs(h)
    PROVE  UNCHANGED sent \/ AdvancePushSeqCursor(h)
  BY DEF HostActs, SyncWork, SyncBlobs, HubGC, pullReferencedBlobs, resumeContainment,
         MarkEncryptedBindingsNeedingRotation, rewrapBlob, drainPendingHubDelete, gcStat,
         emitSuperseding, UpdateBlobRef, rewrapPut, rewrapPush, rewrapDelete, QueuePendingHubDelete,
         clearContainment, pushReferencedBlobs, PushNaming, BlobRefCount, gcUnreferencedBlobs,
         gcMark, gcDelete, gcDone, revokeBlobs, rewrapFails, CrashBlobs, captureEnvProfile,
         CommitCapture, ClearRotationForProject, pullAndApply, hubvars, localvars, history

LEMMA WritesGot ==
    ASSUME NEW h \in Host, HostActs(h)
    PROVE  UNCHANGED got \/ SyncBlobs(h) \/ HubGC(h)
  BY DEF HostActs, SyncWork, pullReferencedBlobs, resumeContainment,
         MarkEncryptedBindingsNeedingRotation, rewrapBlob, drainPendingHubDelete, gcStat,
         emitSuperseding, UpdateBlobRef, rewrapPut, rewrapPush, rewrapDelete, QueuePendingHubDelete,
         clearContainment, pushReferencedBlobs, PushNaming, AdvancePushSeqCursor, BlobRefCount,
         gcUnreferencedBlobs, gcMark, gcDelete, gcDone, revokeBlobs, rewrapFails, CrashBlobs,
         captureEnvProfile, CommitCapture, ClearRotationForProject, hubvars, localvars, history

LEMMA WritesRows ==
    ASSUME NEW h \in Host, HostActs(h)
    PROVE  UNCHANGED rows \/ SyncBlobs(h) \/ HubGC(h) \/ emitSuperseding(h) \/ UpdateBlobRef(h) \/
           gcMark(h) \/ CommitCapture(h)
  BY DEF HostActs, SyncWork, pullReferencedBlobs, resumeContainment,
         MarkEncryptedBindingsNeedingRotation, rewrapBlob, drainPendingHubDelete, gcStat, rewrapPut,
         rewrapPush, rewrapDelete, QueuePendingHubDelete, clearContainment, pushReferencedBlobs,
         PushNaming, AdvancePushSeqCursor, BlobRefCount, gcUnreferencedBlobs, gcDelete, gcDone,
         revokeBlobs, rewrapFails, CrashBlobs, captureEnvProfile, ClearRotationForProject, hubvars,
         localvars, history

LEMMA WritesCache ==
    ASSUME NEW h \in Host, HostActs(h)
    PROVE  UNCHANGED cache \/ pullReferencedBlobs(h) \/ (\E r \in job[h].todo : rewrapBlob(h, r)) \/
           gcUnreferencedBlobs(h) \/ (\E rotate \in BOOLEAN : captureEnvProfile(h, rotate))
  BY DEF HostActs, SyncWork, SyncBlobs, HubGC, resumeContainment,
         MarkEncryptedBindingsNeedingRotation, drainPendingHubDelete, gcStat, emitSuperseding,
         UpdateBlobRef, rewrapPut, rewrapPush, rewrapDelete, QueuePendingHubDelete,
         clearContainment, pushReferencedBlobs, PushNaming, AdvancePushSeqCursor, BlobRefCount,
         gcMark, gcDelete, gcDone, revokeBlobs, rewrapFails, CrashBlobs, CommitCapture,
         ClearRotationForProject, pullAndApply, hubvars, localvars, history

LEMMA WritesDoomed ==
    ASSUME NEW h \in Host, HostActs(h)
    PROVE  UNCHANGED doomed \/ (\E r \in job[h].todo : drainPendingHubDelete(h, r)) \/
           QueuePendingHubDelete(h)
  BY DEF HostActs, SyncWork, SyncBlobs, HubGC, pullReferencedBlobs, resumeContainment,
         MarkEncryptedBindingsNeedingRotation, rewrapBlob, gcStat, emitSuperseding, UpdateBlobRef,
         rewrapPut, rewrapPush, rewrapDelete, clearContainment, pushReferencedBlobs, PushNaming,
         AdvancePushSeqCursor, BlobRefCount, gcUnreferencedBlobs, gcMark, gcDelete, gcDone,
         revokeBlobs, rewrapFails, CrashBlobs, captureEnvProfile, CommitCapture,
         ClearRotationForProject, pullAndApply, hubvars, localvars, history

LEMMA WritesFlag ==
    ASSUME NEW h \in Host, HostActs(h)
    PROVE  UNCHANGED flag \/ SyncBlobs(h) \/ HubGC(h) \/ MarkEncryptedBindingsNeedingRotation(h) \/
           emitSuperseding(h) \/ CommitCapture(h) \/ ClearRotationForProject(h)
  BY DEF HostActs, SyncWork, pullReferencedBlobs, resumeContainment, rewrapBlob,
         drainPendingHubDelete, gcStat, UpdateBlobRef, rewrapPut, rewrapPush, rewrapDelete,
         QueuePendingHubDelete, clearContainment, pushReferencedBlobs, PushNaming,
         AdvancePushSeqCursor, BlobRefCount, gcUnreferencedBlobs, gcMark, gcDelete, gcDone,
         revokeBlobs, rewrapFails, CrashBlobs, captureEnvProfile, hubvars, localvars, history

LEMMA WritesKnows ==
    ASSUME NEW h \in Host, HostActs(h)
    PROVE  UNCHANGED knows \/ SyncBlobs(h) \/ HubGC(h) \/ revokeBlobs(h)
  BY DEF HostActs, SyncWork, pullReferencedBlobs, resumeContainment,
         MarkEncryptedBindingsNeedingRotation, rewrapBlob, drainPendingHubDelete, gcStat,
         emitSuperseding, UpdateBlobRef, rewrapPut, rewrapPush, rewrapDelete, QueuePendingHubDelete,
         clearContainment, pushReferencedBlobs, PushNaming, AdvancePushSeqCursor, BlobRefCount,
         gcUnreferencedBlobs, gcMark, gcDelete, gcDone, rewrapFails, CrashBlobs, captureEnvProfile,
         CommitCapture, ClearRotationForProject, hubvars, localvars, history

LEMMA WritesContains ==
    ASSUME NEW h \in Host, HostActs(h)
    PROVE  UNCHANGED contains \/ clearContainment(h) \/ revokeBlobs(h)
  BY DEF HostActs, SyncWork, SyncBlobs, HubGC, pullReferencedBlobs, resumeContainment,
         MarkEncryptedBindingsNeedingRotation, rewrapBlob, drainPendingHubDelete, gcStat,
         emitSuperseding, UpdateBlobRef, rewrapPut, rewrapPush, rewrapDelete, QueuePendingHubDelete,
         pushReferencedBlobs, PushNaming, AdvancePushSeqCursor, BlobRefCount, gcUnreferencedBlobs,
         gcMark, gcDelete, gcDone, rewrapFails, CrashBlobs, captureEnvProfile, CommitCapture,
         ClearRotationForProject, pullAndApply, hubvars, localvars, history

LEMMA WritesHand ==
    ASSUME NEW h \in Host, HostActs(h)
    PROVE  UNCHANGED hand \/ CrashBlobs(h) \/
           (\E rotate \in BOOLEAN : captureEnvProfile(h, rotate)) \/ CommitCapture(h) \/
           ClearRotationForProject(h)
  BY DEF HostActs, SyncWork, SyncBlobs, HubGC, pullReferencedBlobs, resumeContainment,
         MarkEncryptedBindingsNeedingRotation, rewrapBlob, drainPendingHubDelete, gcStat,
         emitSuperseding, UpdateBlobRef, rewrapPut, rewrapPush, rewrapDelete, QueuePendingHubDelete,
         clearContainment, pushReferencedBlobs, PushNaming, AdvancePushSeqCursor, BlobRefCount,
         gcUnreferencedBlobs, gcMark, gcDelete, gcDone, revokeBlobs, rewrapFails, pullAndApply,
         hubvars, localvars, history

LEMMA WritesValued ==
    ASSUME NEW h \in Host, HostActs(h)
    PROVE  UNCHANGED valued \/ SyncBlobs(h) \/ HubGC(h) \/ revokeBlobs(h) \/
           ClearRotationForProject(h)
  BY DEF HostActs, SyncWork, pullReferencedBlobs, resumeContainment,
         MarkEncryptedBindingsNeedingRotation, rewrapBlob, drainPendingHubDelete, gcStat,
         emitSuperseding, UpdateBlobRef, rewrapPut, rewrapPush, rewrapDelete, QueuePendingHubDelete,
         clearContainment, pushReferencedBlobs, PushNaming, AdvancePushSeqCursor, BlobRefCount,
         gcUnreferencedBlobs, gcMark, gcDelete, gcDone, rewrapFails, CrashBlobs, captureEnvProfile,
         CommitCapture, hubvars, localvars, history

LEMMA WritesRaced ==
    ASSUME NEW h \in Host, HostActs(h)
    PROVE  UNCHANGED raced \/ gcUnreferencedBlobs(h) \/ gcDelete(h)
  BY DEF HostActs, SyncWork, SyncBlobs, HubGC, pullReferencedBlobs, resumeContainment,
         MarkEncryptedBindingsNeedingRotation, rewrapBlob, drainPendingHubDelete, gcStat,
         emitSuperseding, UpdateBlobRef, rewrapPut, rewrapPush, rewrapDelete, QueuePendingHubDelete,
         clearContainment, pushReferencedBlobs, PushNaming, AdvancePushSeqCursor, BlobRefCount,
         gcMark, gcDone, revokeBlobs, rewrapFails, CrashBlobs, captureEnvProfile, CommitCapture,
         ClearRotationForProject, pullAndApply, hubvars, localvars, history

LEMMA WritesTick ==
    ASSUME NEW h \in Host, HostActs(h)
    PROVE  UNCHANGED tick
  BY DEF HostActs, SyncWork, SyncBlobs, HubGC, pullReferencedBlobs, resumeContainment,
         MarkEncryptedBindingsNeedingRotation, rewrapBlob, drainPendingHubDelete, gcStat,
         emitSuperseding, UpdateBlobRef, rewrapPut, rewrapPush, rewrapDelete, QueuePendingHubDelete,
         clearContainment, pushReferencedBlobs, PushNaming, AdvancePushSeqCursor, BlobRefCount,
         gcUnreferencedBlobs, gcMark, gcDelete, gcDone, revokeBlobs, rewrapFails, CrashBlobs,
         captureEnvProfile, CommitCapture, ClearRotationForProject, pullAndApply, hubvars,
         localvars, history, SpendB

LEMMA BudgetTyped ==
    ASSUME budget \in Budget, NEW h \in Host, HostActs(h)
    PROVE  budget' \in Budget /\ UNCHANGED budget.kind
<1>1. CASE HubGC(h)
  BY <1>1 DEF HubGC, Budget
<1>2. CASE revokeBlobs(h)
  BY <1>2 DEF revokeBlobs, Budget
<1>3. CASE \E rotate \in BOOLEAN : captureEnvProfile(h, rotate)
  <2>1. PICK rotate \in BOOLEAN : captureEnvProfile(h, rotate)
    BY <1>3
  <2>2. /\ budget.captures[h] > 0 /\ (rotate => budget.rotates > 0)
        /\ budget' = [budget EXCEPT !.captures[h] = @ - 1, !.rotates = @ - IF rotate THEN 1 ELSE 0]
    BY <2>1 DEF captureEnvProfile
  <2>3. budget.captures \in [Host -> Nat] /\ budget.captures[h] - 1 \in Nat
        /\ budget.rotates - (IF rotate THEN 1 ELSE 0) \in Nat
    BY <2>2 DEF Budget
  <2>4. budget' = [budget EXCEPT !.captures = [budget.captures EXCEPT ![h] = @ - 1],
                                 !.rotates = budget.rotates - IF rotate THEN 1 ELSE 0]
    BY <2>2 DEF Budget
  <2>5. [budget.captures EXCEPT ![h] = @ - 1] \in [Host -> Nat]
    BY <2>3
  <2> QED BY <2>3, <2>4, <2>5 DEF Budget
<1>4. CASE UNCHANGED budget \/ SpendB("mishaps")
  BY <1>4 DEF SpendB, Budget
<1> QED
  BY <1>1, <1>2, <1>3, <1>4 DEF HostActs, SyncWork, SyncBlobs, pullReferencedBlobs,
         resumeContainment, MarkEncryptedBindingsNeedingRotation, rewrapBlob, drainPendingHubDelete,
         gcStat, emitSuperseding, UpdateBlobRef, rewrapPut, rewrapPush, rewrapDelete,
         QueuePendingHubDelete, clearContainment, pushReferencedBlobs, PushNaming,
         AdvancePushSeqCursor, BlobRefCount, gcUnreferencedBlobs, gcMark, gcDelete, gcDone,
         rewrapFails, CrashBlobs, CommitCapture, ClearRotationForProject

\* What a pull brings to h, and what it finds there when it flags.
Coming(h) == {e \in Arrived(h) : e.type = "blob"}
Revoking(h) == {e \in Arrived(h) : e.type = "revoked"}
RowsThen(h) == RecordAll(rows[h], {e \in Coming(h) : \A r \in Revoking(h) : envCoordLess(e, r)})
Pulls(h) ==
    /\ job[h] = NoJob
    /\ got' = [got EXCEPT ![h] = [o \in Host |-> IF o = h THEN 0 ELSE Reach(o)]]
    /\ rows' = [rows EXCEPT ![h] = RecordAll(rows[h], Coming(h))]
    /\ flag' = [flag EXCEPT ![h] = IF Revoking(h) = {} THEN flag[h] ELSE budget.kind = "env" /\ RowsThen(h) # {}]
    /\ valued' = [valued EXCEPT ![h] = IF Revoking(h) = {} THEN valued[h] ELSE {made[r.ref].value : r \in RowsThen(h)}]
    /\ knows' = [knows EXCEPT ![h] = knows[h] \/ Revoking(h) # {}]
    /\ \E cmd \in {"sync", "gc"} :
          job' = [job EXCEPT ![h] = [NoJob EXCEPT !.at = "fetch", !.cmd = cmd, !.todo = Refs(Coming(h)) \ cache[h],
                                     !.whole = \A o \in Host \ {h} : stored[o] \subseteq 1..Reach(o)]]
    /\ UNCHANGED <<made, hubvars, told, sent, cache, doomed, contains, hand, tick, raced>>

LEMMA PullDoes ==
    ASSUME NEW h \in Host, SyncBlobs(h) \/ HubGC(h)
    PROVE  Pulls(h)
<1>1. PICK cmd \in {"sync", "gc"} : pullAndApply(h, cmd)
  BY DEF SyncBlobs, HubGC
<1>2. /\ job[h] = NoJob
      /\ got' = [got EXCEPT ![h] = [o \in Host |-> IF o = h THEN 0 ELSE Reach(o)]]
      /\ UNCHANGED <<made, hubvars, told, sent, cache, doomed, contains, hand, tick, raced>>
  BY <1>1 DEF pullAndApply
<1>3. rows' = [rows EXCEPT ![h] = RecordAll(rows[h], Coming(h))]
  BY <1>1 DEF pullAndApply, Coming
<1>4. flag' = [flag EXCEPT ![h] = IF Revoking(h) = {} THEN flag[h] ELSE budget.kind = "env" /\ RowsThen(h) # {}]
  BY <1>1 DEF pullAndApply, Coming, Revoking, RowsThen, UpsertEnvProfileTx
<1>5. valued' = [valued EXCEPT ![h] = IF Revoking(h) = {} THEN valued[h] ELSE {made[r.ref].value : r \in RowsThen(h)}]
  BY <1>1 DEF pullAndApply, Coming, Revoking, RowsThen
<1>6. knows' = [knows EXCEPT ![h] = knows[h] \/ Revoking(h) # {}]
  BY <1>1 DEF pullAndApply, Revoking
<1>7. job' = [job EXCEPT ![h] = [NoJob EXCEPT !.at = "fetch", !.cmd = cmd, !.todo = Refs(Coming(h)) \ cache[h],
                                 !.whole = \A o \in Host \ {h} : stored[o] \subseteq 1..Reach(o)]]
  BY <1>1 DEF pullAndApply, Coming
<1> QED BY <1>2, <1>3, <1>4, <1>5, <1>6, <1>7 DEF Pulls

\* A command that names a blob appends an event and records it.
Names(h, e) ==
    /\ told' = [told EXCEPT ![h] = Append(@, e)]
    /\ rows' = [rows EXCEPT ![h] = RecordAll(@, {e})]
    /\ UNCHANGED flag

LEMMA NamingDoes ==
    ASSUME NEW h \in Host, NEW ref, LocalTypes, InsertNaming(h, ref)
    PROVE  Names(h, EventB(h, "blob", ref))
<1>1. flag' = [flag EXCEPT ![h] = flag[h]] /\ flag \in [Host -> BOOLEAN]
  BY DEF InsertNaming, UpsertEnvProfileTx, LocalTypes
<1> QED BY <1>1 DEF InsertNaming, Names

\* A host's own state is its own business.
LEMMA Others ==
    ASSUME EventTypes, LocalTypes, HubTypes, NEW h \in Host, HostActs(h), NEW g \in Host \ {h}
    PROVE  /\ UNCHANGED <<told[g], stored[g], sent[g], got[g], rows[g], cache[g], doomed[g], flag[g]>>
           /\ UNCHANGED <<knows[g], contains[g], job[g], hand[g], valued[g]>>
<1>0. told \in [Host -> Seq(BlobEvent)] /\ stored \in [Host -> SUBSET Nat] /\ sent \in [Host -> Nat]
      /\ got \in [Host -> [Host -> Nat]]
  BY DEF EventTypes
<1>20. rows \in [Host -> SUBSET BlobEvent] /\ cache \in [Host -> SUBSET Nat] /\ doomed \in [Host -> SUBSET Nat]
      /\ flag \in [Host -> BOOLEAN] /\ knows \in [Host -> BOOLEAN] /\ contains \in [Host -> BOOLEAN]
      /\ hand \in [Host -> Capture] /\ valued \in [Host -> SUBSET Nat]
  BY DEF LocalTypes
<1>19. emitSuperseding(h) \/ CommitCapture(h) => \E e : Names(h, e)
  BY NamingDoes DEF emitSuperseding, CommitCapture
<1>18. ASSUME SyncBlobs(h) \/ HubGC(h)
       PROVE  /\ \E x : got' = [got EXCEPT ![h] = x]
              /\ \E x : rows' = [rows EXCEPT ![h] = x]
              /\ \E x : flag' = [flag EXCEPT ![h] = x]
              /\ \E x : knows' = [knows EXCEPT ![h] = x]
              /\ \E x : valued' = [valued EXCEPT ![h] = x]
  <2>1. Pulls(h)
    BY <1>18, PullDoes
  <2> QED BY <2>1, Zenon DEF Pulls
<1>17. UpdateBlobRef(h) \/ gcMark(h) => \E x : rows' = [rows EXCEPT ![h] = x]
  <2>1. rows = [rows EXCEPT ![h] = rows[h]]
    BY <1>20
  <2> QED BY <2>1 DEF UpdateBlobRef, gcMark
<1>16. revokeBlobs(h) => \E x : knows' = [knows EXCEPT ![h] = x]
  BY DEF revokeBlobs
<1>1. UNCHANGED told[g]
  BY <1>0, <1>20, WritesTold, <1>19 DEF revokeBlobs, Names
<1>2. UNCHANGED stored[g]
  BY <1>0, <1>20, WritesStored DEF rewrapPush, PushNaming
<1>3. UNCHANGED sent[g]
  BY <1>0, <1>20, WritesSent DEF AdvancePushSeqCursor
<1>4. UNCHANGED got[g]
  BY <1>0, <1>20, WritesGot, <1>18
<1>5. UNCHANGED rows[g]
  <2>1. rows' = rows \/ \E x : rows' = [rows EXCEPT ![h] = x]
    BY WritesRows, <1>17, <1>18, <1>19 DEF Names
  <2>2. DOMAIN rows = Host
    BY <1>20
  <2> QED BY <2>1, <2>2
<1>6. UNCHANGED cache[g]
  <2>1. cache' = cache \/ \E x : cache' = [cache EXCEPT ![h] = x]
    BY WritesCache DEF pullReferencedBlobs, rewrapBlob, gcUnreferencedBlobs, captureEnvProfile
  <2>2. DOMAIN cache = Host
    BY <1>20
  <2> QED BY <2>1, <2>2
<1>7. UNCHANGED doomed[g]
  BY <1>0, <1>20, WritesDoomed DEF drainPendingHubDelete, QueuePendingHubDelete
<1>8. UNCHANGED flag[g]
  BY <1>0, <1>20, WritesFlag, <1>18, <1>19, ZenonT(30) DEF MarkEncryptedBindingsNeedingRotation, ClearRotationForProject, Names
<1>9. UNCHANGED knows[g]
  <2>1. knows' = knows \/ \E x : knows' = [knows EXCEPT ![h] = x]
    BY WritesKnows, <1>16, <1>18
  <2>2. DOMAIN knows = Host
    BY <1>20
  <2> QED BY <2>1, <2>2
<1>10. UNCHANGED contains[g]
  <2>1. contains' = contains \/ \E x : contains' = [contains EXCEPT ![h] = x]
    BY WritesContains DEF clearContainment, revokeBlobs
  <2>2. DOMAIN contains = Host
    BY <1>20
  <2> QED BY <2>1, <2>2
<1>11. UNCHANGED hand[g]
  BY <1>0, <1>20, WritesHand, ZenonT(30) DEF CrashBlobs, captureEnvProfile, CommitCapture, ClearRotationForProject
<1>12. UNCHANGED valued[g]
  BY <1>0, <1>20, WritesValued, <1>18 DEF revokeBlobs, ClearRotationForProject
<1>13. UNCHANGED job[g]
  BY DEF HostActs, SyncWork, SyncBlobs, HubGC, pullReferencedBlobs, resumeContainment,
         MarkEncryptedBindingsNeedingRotation, rewrapBlob, drainPendingHubDelete, gcStat,
         emitSuperseding, UpdateBlobRef, rewrapPut, rewrapPush, rewrapDelete, QueuePendingHubDelete,
         clearContainment, pushReferencedBlobs, PushNaming, AdvancePushSeqCursor, BlobRefCount,
         gcUnreferencedBlobs, gcMark, gcDelete, gcDone, revokeBlobs, rewrapFails, CrashBlobs,
         pullAndApply, Step, HubTypes, CommitCapture, ClearRotationForProject, captureEnvProfile
<1> QED BY <1>1, <1>2, <1>3, <1>4, <1>5, <1>6, <1>7, <1>8, <1>9, <1>10, <1>11, <1>12, <1>13

-----------------------------------------------------------------------------
(* Events only accumulate.                                                 *)

LEMMA Placed ==
    ASSUME EventTypes, NEW o \in Host
    PROVE  /\ told[o] \in Seq(BlobEvent) /\ Len(told[o]) \in Nat /\ sent[o] \in Nat
           /\ \A i \in 1..Len(told[o]) : told[o][i] \in BlobEvent /\ told[o][i].dev = o
           /\ \A i \in stored[o] : i \in 1..Len(told[o])
           /\ \A i \in 1..sent[o] : i \in stored[o]
           /\ \A h \in Host \ {o} : got[h][o] \in Nat /\ \A i \in 1..got[h][o] : i \in stored[o] /\ i \in 1..Len(told[o])
<1>1. told[o] \in Seq(BlobEvent) /\ sent[o] \in Nat /\ stored[o] \subseteq 1..Len(told[o]) /\ 1..sent[o] \subseteq stored[o]
      /\ \A i \in 1..Len(told[o]) : told[o][i].dev = o
  BY DEF EventTypes
<1>2. \A h \in Host \ {o} : got[h][o] \in Nat /\ 1..got[h][o] \subseteq stored[o]
  BY DEF EventTypes
<1>3. Len(told[o]) \in Nat /\ \A i \in 1..Len(told[o]) : told[o][i] \in BlobEvent
  BY <1>1
<1> QED BY <1>1, <1>2, <1>3

\* A new event is stamped above all its device has seen.
LEMMA StampAbove ==
    ASSUME EventTypes, NEW h \in Host
    PROVE  /\ StampB(h) \in Nat
           /\ \A i \in 1..Len(told[h]) : told[h][i].hlc < StampB(h)
           /\ \A o \in Host \ {h} : \A i \in 1..got[h][o] : told[o][i].hlc < StampB(h)
<1> DEFINE own == {told[h][i].hlc : i \in 1..Len(told[h])}
           of(o) == {told[o][i].hlc : i \in 1..got[h][o]}
           others == UNION {{told[o][i].hlc : i \in 1..got[h][o]} : o \in Host \ {h}}
           H == {0} \cup own \cup others
<1>1. PICK B \in Nat : \A o \in Host : \A i \in 1..Len(told[o]) : told[o][i].hlc <= B
  BY DEF EventTypes
<1>2. \A n \in H : n \in Nat /\ n <= B
  <2>1. \A n \in own : n \in Nat /\ n <= B
    BY <1>1, Placed DEF BlobEvent
  <2>2. \A o \in Host \ {h} : \A n \in of(o) : n \in Nat /\ n <= B
    <3> SUFFICES ASSUME NEW o \in Host \ {h}, NEW i \in 1..got[h][o]
                 PROVE  told[o][i].hlc \in Nat /\ told[o][i].hlc <= B
      OBVIOUS
    <3>1. i \in 1..Len(told[o]) /\ told[o][i] \in BlobEvent
      BY Placed
    <3> QED BY <1>1, <3>1 DEF BlobEvent
  <2>3. \A n \in others : n \in Nat /\ n <= B
    <3>1. \A n \in others : \E o \in Host \ {h} : n \in of(o)
      OBVIOUS
    <3> HIDE DEF of, others
    <3> QED BY <2>2, <3>1
  <2> HIDE DEF own, others
  <2> QED BY <1>1, <2>1, <2>3
<1>3. 0 \in H
  <2> HIDE DEF own, others
  <2> QED OBVIOUS
<1> DEFINE top == CHOOSE n \in H : \A m \in H : m <= n
<1>4. top \in H /\ \A m \in H : m <= top
  <2> HIDE DEF H
  <2>1. \E n \in H : \A m \in H : m <= n
    BY <1>2, <1>3, Largest
  <2> QED BY <2>1
<1>5. StampB(h) = 1 + top
  BY DEF StampB
<1>6. \A m \in H : m < StampB(h)
  <2> HIDE DEF H, top
  <2> QED BY <1>2, <1>4, <1>5
<1>7. StampB(h) \in Nat
  <2> HIDE DEF H, top
  <2> QED BY <1>2, <1>4, <1>5
<1>8. \A i \in 1..Len(told[h]) : told[h][i].hlc \in H
  <2>1. \A i \in 1..Len(told[h]) : told[h][i].hlc \in own
    OBVIOUS
  <2> HIDE DEF own, others
  <2> QED BY <2>1
<1>9. \A o \in Host \ {h} : \A i \in 1..got[h][o] : told[o][i].hlc \in H
  <2>1. \A o \in Host \ {h} : \A i \in 1..got[h][o] : told[o][i].hlc \in of(o)
    OBVIOUS
  <2>2. \A o \in Host \ {h} : of(o) \subseteq others
    OBVIOUS
  <2> HIDE DEF own, of, others
  <2> QED BY <2>1, <2>2
<1> QED BY <1>6, <1>7, <1>8, <1>9

\* What a host may append: an event of its own, stamped now.
Fresh(h, e) == e \in BlobEvent /\ e.dev = h /\ e.hlc = StampB(h)

LEMMA EventMade ==
    ASSUME EventTypes, NEW h \in Host, NEW type \in {"blob", "revoked"}, NEW ref \in Nat
    PROVE  Fresh(h, EventB(h, type, ref)) /\ EventB(h, type, ref).ref = ref /\ EventB(h, type, ref).type = type
  BY StampAbove DEF Fresh, EventB, BlobEvent

LEMMA Tells ==
    ASSUME EventTypes, LocalTypes, HubTypes, NEW h \in Host, HostActs(h)
    PROVE  \/ UNCHANGED told
           \/ \E e : Fresh(h, e) /\ told' = [told EXCEPT ![h] = Append(@, e)]
<1>1. CASE UNCHANGED told
  BY <1>1
<1>2. CASE revokeBlobs(h)
  <2>1. told' = [told EXCEPT ![h] = Append(@, EventB(h, "revoked", 0))]
    BY <1>2 DEF revokeBlobs
  <2> QED BY <2>1, EventMade
<1>3. CASE emitSuperseding(h)
  <2>1. told' = [told EXCEPT ![h] = Append(@, EventB(h, "blob", job[h].new))]
    BY <1>3, NamingDoes DEF emitSuperseding, Names
  <2>2. job[h].new \in Nat
    BY DEF HubTypes, Job
  <2> QED BY <2>1, <2>2, EventMade
<1>4. CASE CommitCapture(h)
  <2>1. told' = [told EXCEPT ![h] = Append(@, EventB(h, "blob", hand[h].ref))]
    BY <1>4, NamingDoes DEF CommitCapture, Names
  <2>2. hand[h].ref \in Nat
    BY DEF LocalTypes, Capture
  <2> QED BY <2>1, <2>2, EventMade
<1> QED BY <1>1, <1>2, <1>3, <1>4, WritesTold

\* What is told stays told.
Lasting ==
    \A o \in Host : /\ told'[o] \in Seq(BlobEvent) /\ Len(told[o]) <= Len(told'[o])
                    /\ \A i \in 1..Len(told[o]) : told'[o][i] = told[o][i]

LEMMA ToldTyped ==
    ASSUME EventTypes, LocalTypes, HubTypes, NEW h \in Host, HostActs(h)
    PROVE  /\ Lasting
           /\ told' \in [Host -> Seq(BlobEvent)] /\ \A o \in Host : \A i \in 1..Len(told'[o]) : told'[o][i].dev = o
           /\ \E B \in Nat : \A o \in Host : \A i \in 1..Len(told'[o]) : told'[o][i].hlc <= B
<1>1. CASE UNCHANGED told
  <2>1. \A o \in Host : told[o] \in Seq(BlobEvent) /\ Len(told[o]) \in Nat
    BY Placed
  <2>2. Lasting
    BY <1>1, <2>1 DEF Lasting
  <2>3. \A o \in Host : \A i \in 1..Len(told'[o]) : told'[o][i].dev = o
    BY <1>1 DEF EventTypes
  <2>4. \E B \in Nat : \A o \in Host : \A i \in 1..Len(told'[o]) : told'[o][i].hlc <= B
    BY <1>1 DEF EventTypes
  <2>5. told' \in [Host -> Seq(BlobEvent)]
    BY <1>1 DEF EventTypes
  <2> QED BY <2>2, <2>3, <2>4, <2>5
<1>2. ASSUME NEW e, Fresh(h, e), told' = [told EXCEPT ![h] = Append(@, e)]
      PROVE  /\ Lasting
             /\ told' \in [Host -> Seq(BlobEvent)] /\ \A o \in Host : \A i \in 1..Len(told'[o]) : told'[o][i].dev = o
             /\ \E B \in Nat : \A o \in Host : \A i \in 1..Len(told'[o]) : told'[o][i].hlc <= B
  <2>1. e \in BlobEvent /\ e.dev = h /\ e.hlc \in Nat
    BY <1>2 DEF Fresh, BlobEvent
  <2>2. told \in [Host -> Seq(BlobEvent)]
    BY DEF EventTypes
  <2>3. /\ told'[h] = Append(told[h], e) /\ told'[h] \in Seq(BlobEvent)
        /\ \A o \in Host \ {h} : told'[o] = told[o]
        /\ told' \in [Host -> Seq(BlobEvent)]
    BY <1>2, <2>1, <2>2
  <2>4. /\ Len(told'[h]) = Len(told[h]) + 1 /\ told'[h][Len(told[h]) + 1] = e
        /\ \A i \in 1..Len(told[h]) : told'[h][i] = told[h][i]
    BY <2>1, <2>2, <2>3
  <2>5. \A o \in Host : Len(told[o]) \in Nat /\ told[o] \in Seq(BlobEvent)
    BY Placed
  <2>6. Lasting
    BY <2>3, <2>4, <2>5, SMTT(30) DEF Lasting
  <2>7. \A o \in Host : \A i \in 1..Len(told'[o]) : (i \in 1..Len(told[o]) /\ told'[o][i] = told[o][i]) \/ (o = h /\ told'[o][i] = e)
    BY <2>3, <2>4, <2>5
  <2>8. PICK B \in Nat : \A o \in Host : \A i \in 1..Len(told[o]) : told[o][i].hlc <= B
    BY DEF EventTypes
  <2>9. \A o \in Host : \A i \in 1..Len(told[o]) : told[o][i].dev = o /\ told[o][i].hlc \in Nat
    BY Placed DEF BlobEvent
  <2>10. \A o \in Host : \A i \in 1..Len(told'[o]) : told'[o][i].dev = o /\ told'[o][i].hlc <= B + e.hlc
    BY <2>1, <2>7, <2>8, <2>9, SMTT(30)
  <2>11. B + e.hlc \in Nat
    BY <2>1, <2>8
  <2> QED BY <2>3, <2>6, <2>10, <2>11
<1> QED BY <1>1, <1>2, Tells

\* The chain a pull admits.
LEMMA ReachOf ==
    ASSUME EventTypes, NEW o \in Host
    PROVE  /\ Reach(o) \in 0..Len(told[o])
           /\ \A i \in 1..Reach(o) : i \in stored[o]
           /\ \A h \in Host \ {o} : got[h][o] <= Reach(o)
<1>1. Chained(o) \in SUBSET Nat /\ 0 \in Chained(o) /\ \A n \in Chained(o) : n <= Len(told[o])
  BY Placed DEF Chained
<1>2. \E n \in Chained(o) : \A m \in Chained(o) : m <= n
  BY <1>1, Placed, Largest
<1>3. Reach(o) \in Chained(o) /\ \A m \in Chained(o) : m <= Reach(o)
  BY <1>2 DEF Reach
<1>4. \A h \in Host \ {o} : got[h][o] \in Chained(o)
  <2> SUFFICES ASSUME NEW h \in Host \ {o} PROVE got[h][o] \in Chained(o)
    OBVIOUS
  <2>1. got[h][o] \in Nat /\ 1..got[h][o] \subseteq stored[o] /\ \A i \in 1..got[h][o] : i \in 1..Len(told[o])
    BY Placed
  <2>2. got[h][o] \in 0..Len(told[o])
    BY <2>1, Placed
  <2> QED BY <2>1, <2>2 DEF Chained
<1> QED BY <1>3, <1>4 DEF Chained

\* What h has, element by element.
LEMMA NoticedIs ==
    ASSUME NEW h \in Host
    PROVE  /\ \A e \in Noticed(h) : \E o \in Host : \E i \in Noted(h, o) : e = told[o][i]
           /\ \A o \in Host : \A i \in Noted(h, o) : told[o][i] \in Noticed(h)
           /\ \A o \in Host : \A i \in BlobEvents(o) : told[o][i] \in AllNaming
           /\ \A e \in AllNaming : \E o \in Host : \E i \in BlobEvents(o) : e = told[o][i]
           /\ \A o \in Host : \A i \in Noted(h, o) : i \in BlobEvents(o)
           /\ Noticed(h) \subseteq AllNaming
<1>1. \A o \in Host : \A i \in Noted(h, o) : i \in BlobEvents(o)
  BY DEF Noted
<1>2. \A e \in Noticed(h) : \E o \in Host : \E i \in Noted(h, o) : e = told[o][i]
  BY DEF Noticed
<1>3. \A o \in Host : \A i \in Noted(h, o) : told[o][i] \in Noticed(h)
  BY DEF Noticed
<1>4. \A o \in Host : \A i \in BlobEvents(o) : told[o][i] \in AllNaming
  BY DEF AllNaming
<1>5. \A e \in AllNaming : \E o \in Host : \E i \in BlobEvents(o) : e = told[o][i]
  BY DEF AllNaming
<1>6. Noticed(h) \subseteq AllNaming
  BY <1>1, <1>2, <1>4
<1> QED BY <1>1, <1>2, <1>3, <1>4, <1>5, <1>6

LEMMA PublishedIs ==
    /\ \A e \in Published : \E o \in Host : \E i \in stored[o] : e = told[o][i] /\ e.type = "blob"
    /\ \A o \in Host : \A i \in stored[o] : told[o][i].type = "blob" => told[o][i] \in Published
<1>1. \A e \in Published : \E o \in Host : \E i \in {i \in stored[o] : told[o][i].type = "blob"} : e = told[o][i]
  BY DEF Published
<1>2. \A o \in Host : \A i \in {i \in stored[o] : told[o][i].type = "blob"} : told[o][i] \in Published
  BY DEF Published
<1> QED BY <1>1, <1>2

LEMMA PublishedNamed == ASSUME EventTypes PROVE Published \subseteq AllNaming
<1> SUFFICES ASSUME NEW e \in Published PROVE e \in AllNaming
  OBVIOUS
<1>1. PICK o \in Host : \E i \in stored[o] : e = told[o][i] /\ e.type = "blob"
  BY PublishedIs
<1>1a. PICK i \in stored[o] : e = told[o][i] /\ e.type = "blob"
  BY <1>1
<1>2. i \in BlobEvents(o)
  BY <1>1a, Placed DEF BlobEvents
<1> QED BY <1>1a, <1>2 DEF AllNaming

LEMMA RefIn == ASSUME NEW S, NEW r PROVE r \in Refs(S) <=> \E e \in S : e.ref = r
  BY DEF Refs

\* A naming event is an event, and its ref tells it from all others.
LEMMA NamingTyped ==
    ASSUME EventTypes, NEW e \in AllNaming
    PROVE  e \in BlobEvent /\ e.type = "blob" /\ e.hlc \in Nat /\ e.dev \in Host /\ e.ref \in Nat
<1>1. PICK o \in Host : \E i \in BlobEvents(o) : e = told[o][i]
  BY DEF AllNaming
<1>1a. PICK i \in BlobEvents(o) : e = told[o][i]
  BY <1>1
<1>2. i \in 1..Len(told[o]) /\ e.type = "blob"
  BY <1>1a DEF BlobEvents
<1>3. e \in BlobEvent
  BY <1>1a, <1>2, Placed
<1> QED BY <1>2, <1>3 DEF BlobEvent

LEMMA OneName ==
    ASSUME NamedOnce, NEW e \in AllNaming, NEW f \in AllNaming, e.ref = f.ref
    PROVE  e = f
<1>1. PICK o \in Host : \E i \in BlobEvents(o) : e = told[o][i]
  BY DEF AllNaming
<1>1a. PICK i \in BlobEvents(o) : e = told[o][i]
  BY <1>1
<1>2. PICK p \in Host : \E j \in BlobEvents(p) : f = told[p][j]
  BY DEF AllNaming
<1>2a. PICK j \in BlobEvents(p) : f = told[p][j]
  BY <1>2
<1> QED BY <1>1a, <1>2a DEF NamedOnce

LEMMA MadeRefs ==
    ASSUME NamedOnce, NEW h \in Host, NEW r \in Refs(Noticed(h))
    PROVE  r \in 1..Len(made)
<1>1. PICK e \in Noticed(h) : e.ref = r
  BY RefIn
<1>2. PICK o \in Host : \E i \in BlobEvents(o) : e = told[o][i]
  BY <1>1, NoticedIs
<1>2a. PICK i \in BlobEvents(o) : e = told[o][i]
  BY <1>2
<1> QED BY <1>1, <1>2a DEF NamedOnce

\* What a pull brings.
LEMMA ComingIs ==
    ASSUME EventTypes, NEW h \in Host
    PROVE  /\ \A e \in Arrived(h) : \E o \in Host \ {h} : \E i \in (got[h][o] + 1)..Reach(o) :
                  e = told[o][i] /\ i \in stored[o] /\ i \in 1..Len(told[o])
           /\ Arrived(h) \subseteq BlobEvent
           /\ Coming(h) \subseteq AllNaming
           /\ \A o \in Host \ {h} : \A i \in (got[h][o] + 1)..Reach(o) : told[o][i] \in Arrived(h)
<1>1. \A e \in Arrived(h) : \E o \in Host \ {h} : \E i \in (got[h][o] + 1)..Reach(o) : e = told[o][i]
  BY DEF Arrived
<1>2. \A o \in Host \ {h} : \A i \in (got[h][o] + 1)..Reach(o) : told[o][i] \in Arrived(h)
  BY DEF Arrived
<1>3. \A o \in Host \ {h} : \A i \in (got[h][o] + 1)..Reach(o) : i \in stored[o] /\ i \in 1..Len(told[o])
  <2> SUFFICES ASSUME NEW o \in Host \ {h}, NEW i \in (got[h][o] + 1)..Reach(o)
               PROVE  i \in stored[o] /\ i \in 1..Len(told[o])
    OBVIOUS
  <2>1. got[h][o] \in Nat /\ Reach(o) \in Nat
    BY Placed, ReachOf
  <2>2. i \in 1..Reach(o)
    BY <2>1
  <2> QED BY <2>2, Placed, ReachOf
<1>4. Arrived(h) \subseteq BlobEvent
  BY <1>1, <1>3, Placed
<1>5. Coming(h) \subseteq AllNaming
  <2> SUFFICES ASSUME NEW e \in Coming(h) PROVE e \in AllNaming
    OBVIOUS
  <2>1. e \in Arrived(h) /\ e.type = "blob"
    BY DEF Coming
  <2>2. PICK o \in Host \ {h} : \E i \in (got[h][o] + 1)..Reach(o) : e = told[o][i]
    BY <1>1, <2>1
  <2>2a. PICK i \in (got[h][o] + 1)..Reach(o) : e = told[o][i]
    BY <2>2
  <2>3. i \in BlobEvents(o)
    BY <1>3, <2>1, <2>2a DEF BlobEvents
  <2> QED BY <2>2a, <2>3 DEF AllNaming
<1> QED BY <1>1, <1>2, <1>3, <1>4, <1>5

-----------------------------------------------------------------------------
(* Every variable stays in its type.                                       *)

LEMMA ReadyIn ==
    ASSUME EventTypes, NEW h \in Host, EventsReady(h), job[h].at \in {"put", "push", "watermark"}
    PROVE  \A i \in job[h].events : i \in 1..Len(told[h])
<1>1. PICK n \in 0..Len(told[h]) : job[h].events = (sent[h] + 1)..n
  BY DEF EventsReady
<1> QED BY <1>1, Placed

LEMMA PushedIn ==
    ASSUME EventTypes, NEW h \in Host, EventsReady(h), job[h].at \in {"put", "push", "watermark"}
    PROVE  /\ \A r \in ToPush(h) : \E i \in job[h].events : i \in BlobEvents(h) /\ r = told[h][i].ref
           /\ \A i \in job[h].events : told[h][i].type = "blob" => told[h][i].ref \in ToPush(h)
           /\ ToPush(h) \subseteq Nat
<1>1. \A r \in ToPush(h) : \E i \in job[h].events : told[h][i].type = "blob" /\ r = told[h][i].ref
  BY DEF ToPush
<1>2. \A i \in job[h].events : told[h][i].type = "blob" => told[h][i].ref \in ToPush(h)
  BY DEF ToPush
<1>3. \A i \in job[h].events : i \in 1..Len(told[h])
  BY ReadyIn
<1>4. ToPush(h) \subseteq Nat
  BY <1>1, <1>3, Placed DEF BlobEvent
<1> QED BY <1>1, <1>2, <1>3, <1>4 DEF BlobEvents

LEMMA StoredGrows ==
    ASSUME EventTypes, LocalTypes, HubTypes, NEW h \in Host, HostActs(h), EventsReady(h)
    PROVE  stored' \in [Host -> SUBSET Nat] /\ \A o \in Host : stored[o] \subseteq stored'[o] /\ stored'[o] \subseteq 1..Len(told'[o])
<1>1. \A o \in Host : stored[o] \subseteq 1..Len(told[o]) /\ 1..Len(told[o]) \subseteq 1..Len(told'[o])
  <2>1. \A o \in Host : Len(told[o]) \in Nat /\ Len(told'[o]) \in Nat /\ Len(told[o]) <= Len(told'[o])
    BY ToldTyped, Placed DEF Lasting
  <2> QED BY <2>1, Placed
<1>2. stored \in [Host -> SUBSET Nat]
  BY DEF EventTypes
<1>3. CASE UNCHANGED stored
  BY <1>1, <1>2, <1>3
<1>4. ASSUME NEW new, new \subseteq 1..Len(told[h]), stored' = [stored EXCEPT ![h] = @ \cup new]
      PROVE  stored' \in [Host -> SUBSET Nat] /\ \A o \in Host : stored[o] \subseteq stored'[o] /\ stored'[o] \subseteq 1..Len(told'[o])
  <2>1. new \subseteq Nat
    BY <1>4, Placed
  <2>2. /\ stored'[h] = stored[h] \cup new /\ \A o \in Host \ {h} : stored'[o] = stored[o]
        /\ stored' \in [Host -> SUBSET Nat]
    BY <1>2, <1>4, <2>1
  <2> QED BY <1>1, <1>4, <2>2
<1>5. CASE rewrapPush(h)
  BY <1>4, <1>5 DEF rewrapPush, OwnNaming
<1>6. CASE PushNaming(h)
  <2>1. stored' = [stored EXCEPT ![h] = @ \cup job[h].events] /\ job[h].at = "push"
    BY <1>6 DEF PushNaming
  <2>2. job[h].events \subseteq 1..Len(told[h])
    BY <2>1, ReadyIn
  <2> QED BY <1>4, <2>1, <2>2
<1> QED BY <1>3, <1>5, <1>6, WritesStored

LEMMA Advances ==
    ASSUME EventTypes, NEW h \in Host, EventsReady(h), AdvancePushSeqCursor(h)
    PROVE  /\ sent[h] <= sent'[h] /\ sent'[h] \in Nat /\ \A i \in 1..sent'[h] : i \in stored[h]
           /\ sent' = [sent EXCEPT ![h] = sent'[h]]
<1>1. /\ job[h].at = "watermark" /\ sent' = [sent EXCEPT ![h] = @ + Cardinality(job[h].events)]
      /\ sent \in [Host -> Nat]
  BY DEF AdvancePushSeqCursor, EventTypes
<1>2. PICK n \in 0..Len(told[h]) : job[h].events = (sent[h] + 1)..n
  BY <1>1 DEF EventsReady
<1>3. sent'[h] = sent[h] + Cardinality(job[h].events) /\ sent[h] \in Nat /\ n \in Nat
  BY <1>1, <1>2, Placed
<1>4. Cardinality(job[h].events) = IF sent[h] + 1 > n THEN 0 ELSE n - (sent[h] + 1) + 1
  <2>1. sent[h] + 1 \in Int /\ n \in Int
    BY <1>3
  <2> QED BY <1>2, <2>1, FS_Interval
<1>5. sent'[h] = IF sent[h] + 1 > n THEN sent[h] ELSE n
  BY <1>3, <1>4
<1>6. \A i \in (sent[h] + 1)..n : i \in stored[h]
  BY <1>1, <1>2 DEF EventsReady
<1>7. \A i \in 1..sent[h] : i \in stored[h]
  BY Placed
<1>8. \A i \in 1..sent'[h] : i \in stored[h]
  BY <1>3, <1>5, <1>6, <1>7
<1>9. sent' = [sent EXCEPT ![h] = sent'[h]]
  BY <1>1
<1> QED BY <1>3, <1>5, <1>8, <1>9

LEMMA EventTypesKept ==
    ASSUME EventTypes, LocalTypes, HubTypes, NEW h \in Host, HostActs(h), EventsReady(h)
    PROVE  EventTypes'
<1>1. /\ told' \in [Host -> Seq(BlobEvent)] /\ \A o \in Host : \A i \in 1..Len(told'[o]) : told'[o][i].dev = o
      /\ \E B \in Nat : \A o \in Host : \A i \in 1..Len(told'[o]) : told'[o][i].hlc <= B
  BY ToldTyped
<1>2. stored' \in [Host -> SUBSET Nat] /\ \A o \in Host : stored[o] \subseteq stored'[o] /\ stored'[o] \subseteq 1..Len(told'[o])
  BY StoredGrows
<1>3. sent' \in [Host -> Nat] /\ \A o \in Host : 1..sent'[o] \subseteq stored'[o]
  <2>1. sent \in [Host -> Nat] /\ \A o \in Host : 1..sent[o] \subseteq stored[o]
    BY DEF EventTypes
  <2>2. CASE UNCHANGED sent
    BY <1>2, <2>1, <2>2
  <2>3. CASE AdvancePushSeqCursor(h)
    <3>1. sent' = [sent EXCEPT ![h] = sent'[h]] /\ sent'[h] \in Nat /\ \A i \in 1..sent'[h] : i \in stored[h]
      BY <2>3, Advances
    <3>2. sent' \in [Host -> Nat] /\ \A o \in Host \ {h} : sent'[o] = sent[o]
      BY <2>1, <3>1
    <3>3. 1..sent'[h] \subseteq stored'[h]
      BY <1>2, <3>1
    <3>4. \A o \in Host \ {h} : 1..sent'[o] \subseteq stored'[o]
      BY <1>2, <2>1, <3>2
    <3> QED BY <3>2, <3>3, <3>4
  <2> QED BY <2>2, <2>3, WritesSent
<1>4. got' \in [Host -> [Host -> Nat]] /\ \A g \in Host : \A o \in Host \ {g} : 1..got'[g][o] \subseteq stored'[o]
  <2>1. got \in [Host -> [Host -> Nat]] /\ \A g \in Host : \A o \in Host \ {g} : 1..got[g][o] \subseteq stored[o]
    BY DEF EventTypes
  <2>2. CASE UNCHANGED got
    BY <1>2, <2>1, <2>2
  <2>3. CASE SyncBlobs(h) \/ HubGC(h)
    <3> DEFINE new == [o \in Host |-> IF o = h THEN 0 ELSE Reach(o)]
    <3>1. got' = [got EXCEPT ![h] = new]
      BY <2>3, PullDoes DEF Pulls
    <3>2. new \in [Host -> Nat] /\ \A o \in Host \ {h} : 1..new[o] \subseteq stored[o]
      BY ReachOf
    <3> HIDE DEF new
    <3>3. got' \in [Host -> [Host -> Nat]] /\ got'[h] = new /\ \A g \in Host \ {h} : got'[g] = got[g]
      BY <2>1, <3>1, <3>2
    <3>4. ASSUME NEW g \in Host, NEW o \in Host \ {g} PROVE 1..got'[g][o] \subseteq stored'[o]
      <4>1. CASE g = h
        BY <1>2, <3>2, <3>3, <4>1
      <4>2. CASE g # h
        BY <1>2, <2>1, <3>3, <4>2
      <4> QED BY <4>1, <4>2
    <3> QED BY <3>3, <3>4
  <2> QED BY <2>2, <2>3, WritesGot
<1> QED BY <1>1, <1>2, <1>3, <1>4 DEF EventTypes

\* The state as far as types go, and what its own host needs.
Sound(h) ==
    /\ EventTypes /\ LocalTypes /\ HubTypes /\ NamedOnce
    /\ Captured(h) /\ Rewrapped(h) /\ EventsReady(h) /\ RowsStand(h) /\ Replaced(h)

LEMMA RowsNamed ==
    ASSUME NEW h \in Host, Sound(h), NEW r \in rows[h]
    PROVE  r.ref \in Refs(Noticed(h)) /\ r.ref \in 1..Len(made)
<1>1. PICK e \in Noticed(h) : r.ref = e.ref
  BY DEF Sound, RowsStand
<1>2. r.ref \in Refs(Noticed(h))
  BY <1>1, RefIn
<1> QED BY <1>2, MadeRefs DEF Sound

LEMMA MadeTyped ==
    ASSUME NEW h \in Host, Sound(h), HostActs(h)
    PROVE  made' \in Seq([value : Nat, open : BOOLEAN]) /\ Len(made) \in Nat /\ Len(made') \in Nat /\ Len(made) <= Len(made')
<1>1. made \in Seq([value : Nat, open : BOOLEAN]) /\ Len(made) \in Nat /\ \A r \in 1..Len(made) : made[r].value \in Nat
  <2>1. made \in Seq([value : Nat, open : BOOLEAN])
    BY DEF Sound, LocalTypes
  <2> DEFINE Blob == [value : Nat, open : BOOLEAN]
  <2>2. \A b \in Blob : b.value \in Nat
    OBVIOUS
  <2>3. Len(made) \in Nat /\ \A r \in 1..Len(made) : made[r] \in Blob
    <3> HIDE DEF Blob
    <3>1. made \in Seq(Blob)
      BY <2>1 DEF Blob
    <3> QED BY <3>1
  <2> HIDE DEF Blob
  <2> QED BY <2>1, <2>2, <2>3
<1>2. CASE UNCHANGED made
  BY <1>1, <1>2
<1>3. ASSUME NEW new \in [value : Nat, open : BOOLEAN], made' = Append(made, new)
      PROVE  made' \in Seq([value : Nat, open : BOOLEAN]) /\ Len(made) \in Nat /\ Len(made') \in Nat /\ Len(made) <= Len(made')
  BY <1>1, <1>3
<1>4. CASE \E r \in job[h].todo : rewrapBlob(h, r)
  <2>1. PICK r \in job[h].todo : rewrapBlob(h, r)
    BY <1>4
  <2>2. r \in 1..Len(made)
    <3>1. job[h].at = "rewrap"
      BY <2>1 DEF rewrapBlob
    <3>2. job[h].todo \subseteq Refs(Noticed(h))
      BY <3>1 DEF Sound, Replaced, Wrapping
    <3> QED BY <3>2, MadeRefs DEF Sound
  <2>3. UNCHANGED made \/ made' = Append(made, [value |-> made[r].value, open |-> FALSE])
    BY <2>1 DEF rewrapBlob
  <2>4. [value |-> made[r].value, open |-> FALSE] \in [value : Nat, open : BOOLEAN]
    BY <1>1, <2>2
  <2> QED BY <1>2, <1>3, <2>3, <2>4
<1>5. CASE \E rotate \in BOOLEAN : captureEnvProfile(h, rotate)
  <2>1. made' = Append(made, [value |-> Len(made) + 1, open |-> ~knows[h]])
    BY <1>5 DEF captureEnvProfile
  <2>2. [value |-> Len(made) + 1, open |-> ~knows[h]] \in [value : Nat, open : BOOLEAN]
    BY <1>1 DEF Sound, LocalTypes
  <2> QED BY <1>3, <2>1, <2>2
<1> QED BY <1>2, <1>4, <1>5, WritesMade

LEMMA RowsTyped ==
    ASSUME NEW h \in Host, Sound(h), HostActs(h)
    PROVE  rows' \in [Host -> SUBSET BlobEvent]
<1>1. rows \in [Host -> SUBSET BlobEvent] /\ rows[h] \subseteq BlobEvent
  BY DEF Sound, LocalTypes
<1>2. \A S, E : RecordAll(S, E) \subseteq S \cup E
  BY DEF RecordAll, LatestDraftSnapshot
<1>3. CASE UNCHANGED rows
  BY <1>1, <1>3
<1>4. ASSUME NEW new, new \subseteq BlobEvent, rows' = [rows EXCEPT ![h] = new]
      PROVE  rows' \in [Host -> SUBSET BlobEvent]
  BY <1>1, <1>4
<1>5. CASE SyncBlobs(h) \/ HubGC(h)
  <2>1. rows' = [rows EXCEPT ![h] = RecordAll(rows[h], Coming(h))]
    BY <1>5, PullDoes DEF Pulls
  <2>2. RecordAll(rows[h], Coming(h)) \subseteq BlobEvent
    <3>1. Coming(h) \subseteq BlobEvent
      BY ComingIs DEF Coming, Sound
    <3> QED BY <1>1, <1>2, <3>1
  <2> QED BY <1>4, <2>1, <2>2
<1>6. ASSUME NEW ref \in Nat, InsertNaming(h, ref)
      PROVE  rows' \in [Host -> SUBSET BlobEvent]
  <2>1. rows' = [rows EXCEPT ![h] = RecordAll(rows[h], {EventB(h, "blob", ref)})]
    BY <1>6, NamingDoes DEF Names, Sound
  <2>2. EventB(h, "blob", ref) \in BlobEvent
    BY EventMade DEF Fresh, Sound
  <2>3. RecordAll(rows[h], {EventB(h, "blob", ref)}) \subseteq BlobEvent
    BY <1>1, <1>2, <2>2
  <2> QED BY <1>4, <2>1, <2>3
<1>7. CASE emitSuperseding(h)
  BY <1>6, <1>7 DEF emitSuperseding, Sound, HubTypes, Job
<1>8. CASE CommitCapture(h)
  BY <1>6, <1>8 DEF CommitCapture, Sound, LocalTypes, Capture
<1>9. CASE UpdateBlobRef(h)
  <2> DEFINE moved(r) == IF r.ref = job[h].old THEN [r EXCEPT !.ref = job[h].new] ELSE r
  <2>1. rows' = [rows EXCEPT ![h] = {moved(r) : r \in rows[h]}]
    BY <1>9 DEF UpdateBlobRef
  <2>2. job[h].new \in Nat
    BY DEF Sound, HubTypes, Job
  <2>3. \A r \in rows[h] : moved(r) \in BlobEvent
    BY <1>1, <2>2 DEF BlobEvent
  <2> HIDE DEF moved
  <2>4. {moved(r) : r \in rows[h]} \subseteq BlobEvent
    BY <2>3
  <2> QED BY <1>4, <2>1, <2>4
<1>10. CASE gcMark(h)
  <2>1. UNCHANGED rows \/ rows' = [rows EXCEPT ![h] = LatestDraftSnapshot(rows[h])]
    BY <1>10 DEF gcMark
  <2>2. LatestDraftSnapshot(rows[h]) \subseteq BlobEvent
    BY <1>1 DEF LatestDraftSnapshot
  <2> QED BY <1>3, <1>4, <2>1, <2>2
<1> QED BY <1>3, <1>5, <1>7, <1>8, <1>9, <1>10, WritesRows

LEMMA SetsTyped ==
    ASSUME NEW h \in Host, Sound(h), HostActs(h)
    PROVE  cache' \in [Host -> SUBSET Nat] /\ doomed' \in [Host -> SUBSET Nat]
<1>1. cache \in [Host -> SUBSET Nat] /\ doomed \in [Host -> SUBSET Nat] /\ Len(made) + 1 \in Nat
      /\ job[h].old \in Nat /\ DOMAIN blobs \subseteq Nat
  BY MadeTyped DEF Sound, LocalTypes, HubTypes, Job
<1>2. \/ UNCHANGED cache
      \/ \E S : cache' = [cache EXCEPT ![h] = S] /\ S \subseteq cache[h] \cup {Len(made) + 1} \cup DOMAIN blobs
  <2>1. CASE pullReferencedBlobs(h)
    BY <2>1 DEF pullReferencedBlobs
  <2>2. CASE \E r \in job[h].todo : rewrapBlob(h, r)
    BY <2>2 DEF rewrapBlob
  <2>3. CASE gcUnreferencedBlobs(h)
    BY <2>3 DEF gcUnreferencedBlobs
  <2>4. CASE \E rotate \in BOOLEAN : captureEnvProfile(h, rotate)
    BY <2>4 DEF captureEnvProfile
  <2> QED BY <2>1, <2>2, <2>3, <2>4, WritesCache
<1>3. cache' \in [Host -> SUBSET Nat]
  <2>1. ASSUME NEW S, cache' = [cache EXCEPT ![h] = S], S \subseteq cache[h] \cup {Len(made) + 1} \cup DOMAIN blobs
        PROVE  cache' \in [Host -> SUBSET Nat]
    <3>1. S \in SUBSET Nat
      BY <1>1, <2>1
    <3> QED BY <1>1, <2>1, <3>1
  <2> QED BY <1>1, <1>2, <2>1
<1>4. \/ UNCHANGED doomed
      \/ \E S : doomed' = [doomed EXCEPT ![h] = S] /\ S \subseteq doomed[h] \cup {job[h].old}
  BY WritesDoomed DEF drainPendingHubDelete, QueuePendingHubDelete
<1>5. doomed' \in [Host -> SUBSET Nat]
  <2>1. ASSUME NEW S, doomed' = [doomed EXCEPT ![h] = S], S \subseteq doomed[h] \cup {job[h].old}
        PROVE  doomed' \in [Host -> SUBSET Nat]
    <3>1. S \in SUBSET Nat
      BY <1>1, <2>1
    <3> QED BY <1>1, <2>1, <3>1
  <2> QED BY <1>1, <1>4, <2>1
<1> QED BY <1>3, <1>5

LEMMA FlagsTyped ==
    ASSUME NEW h \in Host, Sound(h), HostActs(h)
    PROVE  flag' \in [Host -> BOOLEAN] /\ knows' \in [Host -> BOOLEAN] /\ contains' \in [Host -> BOOLEAN]
<1>1. flag \in [Host -> BOOLEAN] /\ knows \in [Host -> BOOLEAN] /\ contains \in [Host -> BOOLEAN]
  BY DEF Sound, LocalTypes
<1>2. CASE SyncBlobs(h) \/ HubGC(h)
  <2>1. flag' = [flag EXCEPT ![h] = IF Revoking(h) = {} THEN flag[h] ELSE budget.kind = "env" /\ RowsThen(h) # {}]
        /\ knows' = [knows EXCEPT ![h] = knows[h] \/ Revoking(h) # {}] /\ UNCHANGED contains
    BY <1>2, PullDoes DEF Pulls
  <2> QED BY <1>1, <2>1
<1>3. CASE emitSuperseding(h) \/ CommitCapture(h)
  <2>1. UNCHANGED <<flag, knows, contains>>
    BY <1>3, NamingDoes DEF emitSuperseding, CommitCapture, Names, Sound
  <2> QED BY <1>1, <2>1
<1>4. CASE MarkEncryptedBindingsNeedingRotation(h)
  BY <1>1, <1>4 DEF MarkEncryptedBindingsNeedingRotation
<1>5. CASE ClearRotationForProject(h)
  BY <1>1, <1>5 DEF ClearRotationForProject
<1>6. CASE revokeBlobs(h)
  <2>1. knows' = [knows EXCEPT ![h] = TRUE] /\ contains' = [contains EXCEPT ![h] = TRUE] /\ UNCHANGED flag
    BY <1>6 DEF revokeBlobs
  <2> QED BY <1>1, <2>1
<1>7. CASE clearContainment(h)
  <2>1. contains' = [contains EXCEPT ![h] = FALSE] /\ UNCHANGED <<flag, knows>>
    BY <1>7 DEF clearContainment, localvars
  <2> QED BY <1>1, <2>1
<1>8. CASE UNCHANGED <<flag, knows, contains>>
  BY <1>1, <1>8
<1> QED BY <1>2, <1>3, <1>4, <1>5, <1>6, <1>7, <1>8, WritesFlag, WritesKnows, WritesContains

LEMMA HandTyped ==
    ASSUME NEW h \in Host, Sound(h), HostActs(h)
    PROVE  hand' \in [Host -> Capture]
<1>1. hand \in [Host -> Capture] /\ Len(made) + 1 \in Nat /\ hand[h] \in Capture
  BY MadeTyped DEF Sound, LocalTypes
<1>2. NoHand \in Capture
  BY DEF NoHand, Capture
<1>3. ASSUME NEW rotate \in BOOLEAN, captureEnvProfile(h, rotate) PROVE hand' \in [Host -> Capture]
  <2>1. [at |-> "written", ref |-> Len(made) + 1, rotate |-> rotate] \in Capture
    BY <1>1 DEF Capture
  <2> QED BY <1>1, <1>3, <2>1 DEF captureEnvProfile
<1>4. CASE CommitCapture(h)
  <2>1. [hand[h] EXCEPT !.at = "clear"] \in Capture
    BY <1>1 DEF Capture
  <2> QED BY <1>1, <1>2, <1>4, <2>1 DEF CommitCapture
<1>5. CASE ClearRotationForProject(h) \/ CrashBlobs(h)
  BY <1>1, <1>2, <1>5 DEF ClearRotationForProject, CrashBlobs
<1> QED BY <1>1, <1>3, <1>4, <1>5, WritesHand

LEMMA ValuedTyped ==
    ASSUME NEW h \in Host, Sound(h), HostActs(h)
    PROVE  valued' \in [Host -> SUBSET Nat]
<1>1. valued \in [Host -> SUBSET Nat] /\ \A r \in 1..Len(made) : made[r].value \in Nat
  <2>1. made \in Seq([value : Nat, open : BOOLEAN]) /\ valued \in [Host -> SUBSET Nat]
    BY DEF Sound, LocalTypes
  <2> DEFINE Blob == [value : Nat, open : BOOLEAN]
  <2>2. \A b \in Blob : b.value \in Nat
    OBVIOUS
  <2>3. Len(made) \in Nat /\ \A r \in 1..Len(made) : made[r] \in Blob
    <3> HIDE DEF Blob
    <3>1. made \in Seq(Blob)
      BY <2>1 DEF Blob
    <3> QED BY <3>1
  <2> HIDE DEF Blob
  <2> QED BY <2>1, <2>2, <2>3
<1>2. ASSUME NEW S, \A r \in S : r.ref \in 1..Len(made), valued' = [valued EXCEPT ![h] = {made[r.ref].value : r \in S}]
      PROVE  valued' \in [Host -> SUBSET Nat]
  <2>1. {made[r.ref].value : r \in S} \in SUBSET Nat
    BY <1>1, <1>2
  <2> QED BY <1>1, <1>2, <2>1
<1>3. \A r \in rows[h] : r.ref \in 1..Len(made)
  BY RowsNamed
<1>4. CASE UNCHANGED valued
  BY <1>1, <1>4
<1>5. CASE ClearRotationForProject(h)
  <2>1. valued' = [valued EXCEPT ![h] = {}] /\ {} \in SUBSET Nat
    BY <1>5 DEF ClearRotationForProject
  <2> QED BY <1>1, <2>1
<1>6. CASE revokeBlobs(h)
  BY <1>2, <1>3, <1>6 DEF revokeBlobs
<1>7. CASE SyncBlobs(h) \/ HubGC(h)
  <2>1. \A e \in Coming(h) : e.ref \in 1..Len(made)
    <3> SUFFICES ASSUME NEW e \in Coming(h) PROVE e.ref \in 1..Len(made)
      OBVIOUS
    <3>1. PICK o \in Host : \E i \in BlobEvents(o) : e = told[o][i]
      BY ComingIs, NoticedIs DEF Sound
    <3>2. PICK i \in BlobEvents(o) : e = told[o][i]
      BY <3>1
    <3> QED BY <3>2 DEF Sound, NamedOnce
  <2>2. \A r \in RowsThen(h) : r.ref \in 1..Len(made)
    <3>1. RowsThen(h) \subseteq rows[h] \cup Coming(h)
      BY DEF RowsThen, RecordAll, LatestDraftSnapshot
    <3> QED BY <1>3, <2>1, <3>1
  <2>3. valued' = [valued EXCEPT ![h] = IF Revoking(h) = {} THEN valued[h] ELSE {made[r.ref].value : r \in RowsThen(h)}]
    BY <1>7, PullDoes DEF Pulls
  <2>4. CASE Revoking(h) = {}
    BY <1>1, <2>3, <2>4
  <2>5. CASE Revoking(h) # {}
    BY <1>2, <2>2, <2>3, <2>5
  <2> QED BY <2>4, <2>5
<1> QED BY <1>4, <1>5, <1>6, <1>7, WritesValued

LEMMA LocalTypesKept ==
    ASSUME NEW h \in Host, Sound(h), HostActs(h)
    PROVE  LocalTypes'
<1>1. budget' \in Budget
  BY BudgetTyped DEF Sound, LocalTypes
<1> QED BY <1>1, MadeTyped, RowsTyped, SetsTyped, FlagsTyped, HandTyped, ValuedTyped DEF LocalTypes

LEMMA JobMoves ==
    ASSUME HubTypes, NEW h \in Host, NEW j \in Job, j.now <= tick, job' = [job EXCEPT ![h] = j]
    PROVE  job' \in [Host -> Job] /\ \A g \in Host : job'[g].now <= tick
  BY DEF HubTypes

\* What the sets a command works on are made of.
LEMMA Numbers ==
    ASSUME NEW h \in Host, Sound(h)
    PROVE  /\ Refs(rows[h]) \subseteq Nat /\ Refs(Coming(h)) \subseteq Nat /\ doomed[h] \subseteq Nat
           /\ DOMAIN blobs \subseteq Nat /\ \A r \in DOMAIN blobs : blobs[r] \in Nat
           /\ Len(made) + 1 \in Nat /\ (sent[h] + 1)..Len(told[h]) \subseteq Nat
<1>1. Len(made) \in Nat
  <2>1. made \in Seq([value : Nat, open : BOOLEAN])
    BY DEF Sound, LocalTypes
  <2> QED BY <2>1
<1>2. \A e \in Coming(h) : e \in BlobEvent
  BY ComingIs DEF Coming, Sound
<1>3. \A r \in rows[h] : r \in BlobEvent
  BY DEF Sound, LocalTypes
<1>4. Refs(rows[h]) \subseteq Nat /\ Refs(Coming(h)) \subseteq Nat
  BY <1>2, <1>3 DEF Refs, BlobEvent
<1>5. sent[h] \in Nat /\ Len(told[h]) \in Nat
  BY Placed DEF Sound
<1> QED BY <1>1, <1>4, <1>5 DEF Sound, LocalTypes, HubTypes

LEMMA NoJobTyped == NoJob \in Job
  BY DEF NoJob, Job, Phases, Wrapping

LEMMA JobStarts ==
    /\ \A cmd \in {"sync", "gc"} : \A todo \in SUBSET Nat : \A whole \in BOOLEAN :
          LET j == [NoJob EXCEPT !.at = "fetch", !.cmd = cmd, !.todo = todo, !.whole = whole] IN j \in Job /\ j.now = 0
    /\ LET j == [NoJob EXCEPT !.at = "mark", !.cmd = "revoke"] IN j \in Job /\ j.now = 0
<1>1. NoJob \in Job /\ NoJob.now = 0
  BY NoJobTyped DEF NoJob
<1>2. "fetch" \in Phases /\ "mark" \in Phases
  BY DEF Phases
<1> QED BY <1>1, <1>2 DEF Job

LEMMA JobTyped ==
    ASSUME NEW h \in Host, Sound(h), HostActs(h)
    PROVE  job' \in [Host -> Job] /\ \A g \in Host : job'[g].now <= tick
<1> DEFINE Good(j) == j \in Job /\ j.now <= tick
           Done == \E j : Good(j) /\ job' = [job EXCEPT ![h] = j]
<1> SUFFICES Done
  BY JobMoves DEF Sound
<1>0. /\ job \in [Host -> Job] /\ job[h] \in Job /\ tick \in Nat /\ job[h].now <= tick
      /\ job = [job EXCEPT ![h] = job[h]]
  BY DEF Sound, HubTypes
<1>1. NoJob \in Job /\ NoJob.now = 0
  BY NoJobTyped DEF NoJob
<1>2. ASSUME NEW at \in Phases, Step(h, at) PROVE Done
  <2>1. Good([job[h] EXCEPT !.at = at])
    BY <1>0 DEF Job
  <2>2. job' = [job EXCEPT ![h] = [job[h] EXCEPT !.at = at]]
    BY <1>0, <1>2 DEF Step
  <2> QED BY <2>1, <2>2
<1>3. CASE job' = [job EXCEPT ![h] = NoJob] \/ UNCHANGED job
  BY <1>0, <1>1, <1>3
<1>4. CASE \/ emitSuperseding(h) \/ UpdateBlobRef(h) \/ rewrapPut(h) \/ rewrapPush(h) \/ rewrapDelete(h)
          \/ rewrapFails(h) \/ QueuePendingHubDelete(h) \/ PushNaming(h) \/ gcDelete(h)
  <2>1. \E at \in Phases : Step(h, at)
    <3>1. {"repoint", "putnew", "queue", "publish", "unlink", "rewrap", "watermark", "sweep"} \subseteq Phases
      BY DEF Phases, Wrapping, Claiming, Replacing
    <3> QED BY <1>4, <3>1 DEF emitSuperseding, UpdateBlobRef, rewrapPut, rewrapPush, rewrapDelete, rewrapFails,
                              QueuePendingHubDelete, PushNaming, gcDelete
  <2> QED BY <1>2, <2>1
<1> DEFINE Moved(at, todo, old, new, events, base, now) ==
        job' = [job EXCEPT ![h] = [job[h] EXCEPT !.at = at, !.todo = todo, !.old = old, !.new = new,
                                                 !.events = events, !.base = base, !.now = now]]
<1>5. ASSUME NEW at \in Phases, NEW todo \in SUBSET Nat, NEW old \in Nat, NEW new \in Nat, NEW events \in SUBSET Nat,
             NEW base \in SUBSET Nat, NEW now \in Nat, now <= tick,
             Moved(at, todo, old, new, events, base, now)
      PROVE  Done
  <2>1. Good([job[h] EXCEPT !.at = at, !.todo = todo, !.old = old, !.new = new, !.events = events, !.base = base, !.now = now])
    BY <1>0, <1>5 DEF Job
  <2> QED BY <1>5, <2>1
<1>6. /\ job[h].at \in Phases /\ job[h].todo \in SUBSET Nat /\ job[h].old \in Nat /\ job[h].new \in Nat
      /\ job[h].events \in SUBSET Nat /\ job[h].base \in SUBSET Nat /\ job[h].now \in Nat /\ job[h].whole \in BOOLEAN
  BY <1>0 DEF Job
<1>7. {"idle", "fetch", "resume", "mark", "rewrap", "emit", "repoint", "put", "push", "drain", "reap", "gate", "sweep", "delete"} \subseteq Phases
  BY DEF Phases, Wrapping, Claiming, Replacing
<1>8. \A S \in SUBSET Nat : \A r : S \ {r} \in SUBSET Nat /\ S \cap r \in SUBSET Nat
  OBVIOUS
<1> HIDE DEF Good, Done, Moved
<1>9. CASE pullReferencedBlobs(h)
  <2>1. Moved(IF job[h].cmd = "gc" THEN "gate" ELSE "resume", {}, job[h].old, job[h].new, job[h].events, job[h].base, job[h].now)
    BY <1>0, <1>9 DEF pullReferencedBlobs, Job, Moved
  <2> QED BY <1>0, <1>5, <1>6, <1>7, <1>8, <2>1
<1>10. CASE resumeContainment(h)
  <2>1. Moved(IF contains[h] THEN "mark" ELSE "put", job[h].todo, job[h].old, job[h].new, (sent[h] + 1)..Len(told[h]), job[h].base, job[h].now)
    BY <1>0, <1>10 DEF resumeContainment, Job, Moved
  <2> QED BY <1>0, <1>5, <1>6, <1>7, <1>8, <2>1, Numbers
<1>11. CASE MarkEncryptedBindingsNeedingRotation(h)
  <2>1. Moved("rewrap", Refs(rows[h]), job[h].old, job[h].new, job[h].events, job[h].base, job[h].now)
    BY <1>0, <1>11 DEF MarkEncryptedBindingsNeedingRotation, Job, Moved
  <2> QED BY <1>0, <1>5, <1>6, <1>7, <1>8, <2>1, Numbers
<1>12. CASE AdvancePushSeqCursor(h)
  <2>1. Moved("drain", doomed[h], job[h].old, job[h].new, {}, job[h].base, job[h].now)
    BY <1>0, <1>12 DEF AdvancePushSeqCursor, Job, Moved
  <2> QED BY <1>0, <1>5, <1>6, <1>7, <1>8, <2>1, Numbers
<1>13. CASE BlobRefCount(h)
  <2>1. Moved("reap", job[h].todo, job[h].old, job[h].new, job[h].events, Refs(rows[h]), job[h].now)
    BY <1>0, <1>13 DEF BlobRefCount, Job, Moved
  <2> QED BY <1>0, <1>5, <1>6, <1>7, <1>8, <2>1, Numbers
<1>14. CASE \E r \in job[h].todo : rewrapBlob(h, r)
  <2>1. PICK r \in job[h].todo : rewrapBlob(h, r)
    BY <1>14
  <2>2. \/ Moved(IF r \in Refs(rows[h]) THEN "emit" ELSE "repoint", job[h].todo \ {r}, r, Len(made) + 1, job[h].events, job[h].base, job[h].now)
        \/ Moved(job[h].at, job[h].todo \ {r}, job[h].old, job[h].new, job[h].events, job[h].base, job[h].now)
    <3>1. \/ job' = [job EXCEPT ![h].at = IF r \in Refs(rows[h]) THEN "emit" ELSE "repoint", ![h].todo = @ \ {r},
                             ![h].old = r, ![h].new = Len(made) + 1]
          \/ job' = [job EXCEPT ![h].todo = @ \ {r}]
      BY <2>1 DEF rewrapBlob
    <3>2. CASE job' = [job EXCEPT ![h].at = IF r \in Refs(rows[h]) THEN "emit" ELSE "repoint", ![h].todo = @ \ {r},
                             ![h].old = r, ![h].new = Len(made) + 1]
      BY <1>0, <3>2 DEF Job, Moved
    <3>3. CASE job' = [job EXCEPT ![h].todo = @ \ {r}]
      BY <1>0, <3>3 DEF Job, Moved
    <3> QED BY <3>1, <3>2, <3>3
  <2>3. r \in Nat
    BY <1>6, <2>1
  <2> QED BY <1>0, <1>5, <1>6, <1>7, <1>8, <2>2, <2>3, Numbers
<1>15. CASE \E r \in job[h].todo : drainPendingHubDelete(h, r)
  <2>1. PICK r \in job[h].todo : drainPendingHubDelete(h, r)
    BY <1>15
  <2>2. Moved(job[h].at, job[h].todo \ {r}, job[h].old, job[h].new, job[h].events, job[h].base, job[h].now)
    BY <1>0, <2>1 DEF drainPendingHubDelete, Job, Moved
  <2> QED BY <1>0, <1>5, <1>6, <1>7, <1>8, <2>2
<1>16. CASE \E r \in job[h].todo : gcStat(h, r)
  <2>1. PICK r \in job[h].todo : gcStat(h, r)
    BY <1>16
  <2> DEFINE times == {blobs[s] : s \in {r} \cap DOMAIN blobs}
  <2>2. Moved(IF StillOld(h, r) THEN "delete" ELSE "sweep", job[h].todo \ {r}, r, job[h].new, job[h].events, times, job[h].now)
    BY <1>0, <2>1, ZenonT(30) DEF gcStat, Job, Moved
  <2>3. r \in Nat
    BY <1>6, <2>1
  <2>4. times \in SUBSET Nat
    BY Numbers
  <2> HIDE DEF times
  <2> QED BY <1>0, <1>5, <1>6, <1>7, <1>8, <2>2, <2>3, <2>4
<1>17. CASE gcMark(h)
  <2> DEFINE old == {r \in DOMAIN blobs \ Refs(rows'[h]) : tick - blobs[r] >= Grace}
  <2>1. job' = [job EXCEPT ![h] = NoJob] \/ Moved("sweep", old, job[h].old, job[h].new, job[h].events, job[h].base, tick)
    <3>1. job' = [job EXCEPT ![h] = NoJob] \/ job' = [job EXCEPT ![h].at = "sweep", ![h].now = tick, ![h].todo = old]
      BY <1>17 DEF gcMark
    <3> HIDE DEF old
    <3> QED BY <1>0, <3>1, ZenonT(30) DEF Job, Moved
  <2>2. old \in SUBSET Nat
    BY Numbers
  <2> HIDE DEF old
  <2> QED BY <1>0, <1>3, <1>5, <1>6, <1>7, <2>1, <2>2
<1>18. CASE SyncBlobs(h) \/ HubGC(h)
  <2> DEFINE whole == \A o \in Host \ {h} : stored[o] \subseteq 1..Reach(o)
             todo == Refs(Coming(h)) \ cache[h]
             new(cmd) == [NoJob EXCEPT !.at = "fetch", !.cmd = cmd, !.todo = todo, !.whole = whole]
  <2>1. PICK cmd \in {"sync", "gc"} : job' = [job EXCEPT ![h] = new(cmd)]
    BY <1>18, PullDoes DEF Pulls
  <2>2. todo \in SUBSET Nat /\ whole \in BOOLEAN
    BY Numbers
  <2>3. Good(new(cmd))
    <3> HIDE DEF todo, whole
    <3>1. new(cmd) \in Job /\ new(cmd).now = 0
      BY <2>2, JobStarts, ZenonT(30)
    <3> HIDE DEF new
    <3> QED BY <1>0, <3>1 DEF Good
  <2> HIDE DEF new
  <2> QED BY <2>1, <2>3 DEF Done
<1>19. CASE revokeBlobs(h)
  <2>1. job' = [job EXCEPT ![h] = [NoJob EXCEPT !.at = "mark", !.cmd = "revoke"]]
    BY <1>19 DEF revokeBlobs
  <2>2. Good([NoJob EXCEPT !.at = "mark", !.cmd = "revoke"])
    <3>1. [NoJob EXCEPT !.at = "mark", !.cmd = "revoke"] \in Job /\ [NoJob EXCEPT !.at = "mark", !.cmd = "revoke"].now = 0
      BY JobStarts
    <3> QED BY <1>0, <3>1 DEF Good
  <2> QED BY <2>1, <2>2 DEF Done
<1>20. CASE clearContainment(h)
  <2>1. job' = [job EXCEPT ![h] = NoJob] \/ Step(h, "put")
    BY <1>20 DEF clearContainment, Step
  <2> QED BY <1>2, <1>3, <1>7, <2>1
<1>21. CASE pushReferencedBlobs(h)
  <2>1. job' = [job EXCEPT ![h] = NoJob] \/ Step(h, "push")
    BY <1>21 DEF pushReferencedBlobs
  <2> QED BY <1>2, <1>3, <1>7, <2>1
<1>22. CASE \/ gcUnreferencedBlobs(h) \/ gcDone(h) \/ CrashBlobs(h) \/ CommitCapture(h) \/ ClearRotationForProject(h)
           \/ \E rotate \in BOOLEAN : captureEnvProfile(h, rotate)
  <2>1. job' = [job EXCEPT ![h] = NoJob] \/ UNCHANGED job
    BY <1>22 DEF gcUnreferencedBlobs, gcDone, CrashBlobs, CommitCapture, ClearRotationForProject, captureEnvProfile
  <2> QED BY <1>3, <2>1
<1> HIDE DEF Done
<1> QED
  BY <1>4, <1>9, <1>10, <1>11, <1>12, <1>13, <1>14, <1>15, <1>16, <1>17, <1>18, <1>19, <1>20, <1>21,
         <1>22 DEF HostActs, SyncWork

\* A put refreshes what it puts, a delete takes what it deletes, and the rest
\* is left alone.
LEMMA Puts ==
    ASSUME NEW S, PutBlobs(S)
    PROVE  /\ DOMAIN blobs' = DOMAIN blobs \cup S /\ \A r \in S : blobs'[r] = tick
           /\ \A r \in DOMAIN blobs \ S : blobs'[r] = blobs[r]
           /\ queued' = queued \ S
  BY DEF PutBlobs

LEMMA Deletes ==
    ASSUME NEW r, DeleteBlob(r)
    PROVE  DOMAIN blobs' = DOMAIN blobs \ {r} /\ (\A s \in DOMAIN blobs' : blobs'[s] = blobs[s]) /\ UNCHANGED queued
  BY DEF DeleteBlob

\* What h does to the hub's blobs.
PutsOwn(h) ==
    \/ rewrapPut(h) /\ PutBlobs({job[h].new})
    \/ pushReferencedBlobs(h) /\ job'[h].at = "push" /\ PutBlobs(ToPush(h))
DeletesOld(h) ==
    \/ rewrapDelete(h) /\ job[h].old \notin Refs(rows[h]) /\ DeleteBlob(job[h].old)
    \/ \E r \in job[h].todo : drainPendingHubDelete(h, r) /\ r \notin Refs(rows[h]) /\ DeleteBlob(r)
Sweeps(h) == gcDelete(h) /\ DeleteBlob(job[h].old)

LEMMA HubMoves ==
    ASSUME HubTypes, NEW h \in Host, HostActs(h)
    PROVE  UNCHANGED blobs \/ PutsOwn(h) \/ DeletesOld(h) \/ Sweeps(h)
<1>1. CASE rewrapPut(h)
  BY <1>1 DEF rewrapPut, PutsOwn
<1>2. CASE pushReferencedBlobs(h)
  <2>1. UNCHANGED blobs \/ (PutBlobs(ToPush(h)) /\ Step(h, "push"))
    BY <1>2 DEF pushReferencedBlobs
  <2>2. Step(h, "push") => job'[h].at = "push"
    BY DEF Step, HubTypes, Job
  <2> QED BY <1>2, <2>1, <2>2 DEF PutsOwn
<1>3. CASE rewrapDelete(h)
  <2>1. UNCHANGED blobs \/ (job[h].old \notin Refs(rows[h]) /\ DeleteBlob(job[h].old))
    BY <1>3 DEF rewrapDelete
  <2> QED BY <1>3, <2>1 DEF DeletesOld
<1>4. CASE \E r \in job[h].todo : drainPendingHubDelete(h, r)
  <2>1. PICK r \in job[h].todo : drainPendingHubDelete(h, r)
    BY <1>4
  <2>2. UNCHANGED blobs \/ (r \notin Refs(rows[h]) /\ DeleteBlob(r))
    BY <2>1 DEF drainPendingHubDelete
  <2> QED BY <2>1, <2>2 DEF DeletesOld
<1>5. CASE gcDelete(h)
  BY <1>5 DEF gcDelete, Sweeps
<1> QED BY <1>1, <1>2, <1>3, <1>4, <1>5, WritesBlobs

LEMMA HubTypesKept ==
    ASSUME NEW h \in Host, Sound(h), HostActs(h)
    PROVE  HubTypes'
<1>1. DOMAIN blobs \subseteq Nat /\ (\A r \in DOMAIN blobs : blobs[r] \in Nat /\ blobs[r] <= tick) /\ tick \in Nat /\ tick' = tick
  BY WritesTick DEF Sound, HubTypes
<1>2. DOMAIN blobs' \subseteq Nat /\ \A r \in DOMAIN blobs' : blobs'[r] \in Nat /\ blobs'[r] <= tick'
  <2>1. CASE UNCHANGED blobs
    BY <1>1, <2>1
  <2>2. ASSUME NEW S \in SUBSET Nat, PutBlobs(S)
        PROVE  DOMAIN blobs' \subseteq Nat /\ \A r \in DOMAIN blobs' : blobs'[r] \in Nat /\ blobs'[r] <= tick'
    <3>1. DOMAIN blobs' = DOMAIN blobs \cup S /\ (\A r \in S : blobs'[r] = tick) /\ \A r \in DOMAIN blobs \ S : blobs'[r] = blobs[r]
      BY <2>2, Puts
    <3>2. \A r \in DOMAIN blobs' : r \in S \/ r \in DOMAIN blobs \ S
      BY <3>1
    <3>3. tick <= tick'
      BY <1>1
    <3>4. \A r \in DOMAIN blobs' : blobs'[r] \in Nat /\ blobs'[r] <= tick'
      BY <1>1, <3>1, <3>2, <3>3
    <3>5. DOMAIN blobs' \subseteq Nat
      BY <1>1, <3>1
    <3> QED BY <3>4, <3>5
  <2>3. ASSUME NEW r, DeleteBlob(r)
        PROVE  DOMAIN blobs' \subseteq Nat /\ \A s \in DOMAIN blobs' : blobs'[s] \in Nat /\ blobs'[s] <= tick'
    BY <1>1, <2>3, Deletes
  <2>4. CASE PutsOwn(h)
    <3>1. {job[h].new} \in SUBSET Nat
      BY DEF Sound, HubTypes, Job
    <3>2. pushReferencedBlobs(h) => ToPush(h) \in SUBSET Nat
      BY PushedIn DEF pushReferencedBlobs, Sound
    <3> QED BY <2>2, <2>4, <3>1, <3>2 DEF PutsOwn
  <2> QED BY <2>1, <2>3, <2>4, HubMoves DEF DeletesOld, Sweeps, Sound
<1> QED BY <1>1, <1>2, JobTyped DEF HubTypes

LEMMA TypesKept ==
    ASSUME NEW h \in Host, Sound(h), HostActs(h)
    PROVE  EventTypes' /\ LocalTypes' /\ HubTypes' /\ Lasting
  BY EventTypesKept, LocalTypesKept, HubTypesKept, ToldTyped DEF Sound

-----------------------------------------------------------------------------
(* Where a command goes next.                                              *)

Becomes(h, at, todo, old, new, events, base, now) ==
    /\ job'[h].at = at /\ job'[h].todo = todo /\ job'[h].old = old /\ job'[h].new = new
    /\ job'[h].events = events /\ job'[h].base = base /\ job'[h].now = now
    /\ job'[h].cmd = job[h].cmd /\ job'[h].whole = job[h].whole

Starts(h) ==
    /\ job[h] = NoJob /\ job'[h].at = "fetch" /\ job'[h].todo = Refs(Coming(h)) \ cache[h]
    /\ job'[h].whole = (\A o \in Host \ {h} : stored[o] \subseteq 1..Reach(o))
Fetches(h) ==
    /\ job[h].at = "fetch" /\ Becomes(h, IF job[h].cmd = "gc" THEN "gate" ELSE "resume", {}, job[h].old, job[h].new, job[h].events, job[h].base, job[h].now)
Resumes(h) ==
    /\ job[h].at = "resume" /\ Becomes(h, IF contains[h] THEN "mark" ELSE "put", job[h].todo, job[h].old, job[h].new, (sent[h] + 1)..Len(told[h]), job[h].base, job[h].now)
Marks(h) ==
    /\ job[h].at = "mark" /\ Becomes(h, "rewrap", Refs(rows[h]), job[h].old, job[h].new, job[h].events, job[h].base, job[h].now)
Emits(h) ==
    /\ job[h].at = "emit" /\ Becomes(h, "repoint", job[h].todo, job[h].old, job[h].new, job[h].events, job[h].base, job[h].now)
Repoints(h) ==
    /\ job[h].at = "repoint" /\ Becomes(h, IF HasHub(h) THEN "putnew" ELSE "queue", job[h].todo, job[h].old, job[h].new, job[h].events, job[h].base, job[h].now)
Putting(h) ==
    /\ job[h].at = "putnew" /\ Becomes(h, "publish", job[h].todo, job[h].old, job[h].new, job[h].events, job[h].base, job[h].now)
Publishes(h) ==
    /\ job[h].at = "publish" /\ Becomes(h, "unlink", job[h].todo, job[h].old, job[h].new, job[h].events, job[h].base, job[h].now)
Unlinks(h) ==
    /\ job[h].at = "unlink" /\ Becomes(h, "rewrap", job[h].todo, job[h].old, job[h].new, job[h].events, job[h].base, job[h].now)
Queues(h) ==
    /\ job[h].at = "queue" /\ Becomes(h, "rewrap", job[h].todo, job[h].old, job[h].new, job[h].events, job[h].base, job[h].now)
Pushes(h) ==
    /\ job[h].at = "push" /\ Becomes(h, "watermark", job[h].todo, job[h].old, job[h].new, job[h].events, job[h].base, job[h].now)
Watermarks(h) ==
    /\ job[h].at = "watermark" /\ Becomes(h, "drain", doomed[h], job[h].old, job[h].new, {}, job[h].base, job[h].now)
Counts(h) ==
    /\ job[h].at = "drain" /\ Becomes(h, "reap", job[h].todo, job[h].old, job[h].new, job[h].events, Refs(rows[h]), job[h].now)
Deleting(h) ==
    /\ job[h].at = "delete" /\ Becomes(h, "sweep", job[h].todo, job[h].old, job[h].new, job[h].events, job[h].base, job[h].now)
Gives(h) ==
    /\ job[h].at \in {"putnew", "publish", "unlink"} /\ Becomes(h, "rewrap", job[h].todo, job[h].old, job[h].new, job[h].events, job[h].base, job[h].now)
Clears(h) ==
    /\ job[h].at = "rewrap" /\ job[h].todo = {}
    /\ (job'[h] = NoJob \/ (job[h].cmd = "sync" /\ Becomes(h, "put", job[h].todo, job[h].old, job[h].new, job[h].events, job[h].base, job[h].now)))
Admits(h) ==
    /\ job[h].at = "put"
    /\ (job'[h] = NoJob \/ (ToPush(h) \subseteq cache[h] /\ PutBlobs(ToPush(h)) /\ Becomes(h, "push", job[h].todo, job[h].old, job[h].new, job[h].events, job[h].base, job[h].now)))
Listing(h) ==
    /\ job[h].at = "gate"
    /\ \/ job'[h] = NoJob /\ UNCHANGED rows
       \/ /\ job[h].whole /\ rows' = [rows EXCEPT ![h] = LatestDraftSnapshot(@)]
          /\ Becomes(h, "sweep", {r \in DOMAIN blobs \ Refs(rows'[h]) : tick - blobs[r] >= Grace}, job[h].old, job[h].new, job[h].events, job[h].base, tick)
Reaps(h) ==
    job[h].at = "reap" /\ job'[h] = NoJob
Finishes(h) ==
    job[h].at = "sweep" /\ job'[h] = NoJob
Revokes(h) ==
    /\ job[h] = NoJob /\ job'[h].at = "mark" /\ job'[h].cmd = "revoke"
Stays(h) ==
    UNCHANGED job[h]
Dies(h) ==
    (UNCHANGED job[h] \/ (job'[h] = NoJob /\ UNCHANGED hand))
Wraps(h, r) ==
    /\ job[h].at = "rewrap"
    /\ \/ /\ made' = Append(made, [value |-> made[r].value, open |-> FALSE]) /\ cache' = [cache EXCEPT ![h] = @ \cup {Len(made) + 1}]
          /\ Becomes(h, IF r \in Refs(rows[h]) THEN "emit" ELSE "repoint", job[h].todo \ {r}, r, Len(made) + 1, job[h].events, job[h].base, job[h].now)
       \/ UNCHANGED <<made, cache>> /\ Becomes(h, job[h].at, job[h].todo \ {r}, job[h].old, job[h].new, job[h].events, job[h].base, job[h].now)
Drains(h, r) ==
    /\ job[h].at = "drain" /\ Becomes(h, job[h].at, job[h].todo \ {r}, job[h].old, job[h].new, job[h].events, job[h].base, job[h].now)
Looks(h, r) ==
    /\ job[h].at = "sweep" /\ Becomes(h, IF StillOld(h, r) THEN "delete" ELSE "sweep", job[h].todo \ {r}, r, job[h].new, job[h].events, {blobs[s] : s \in {r} \cap DOMAIN blobs}, job[h].now)

\* Where each action takes the command that executes it.
Turns(h) ==
    /\ (SyncBlobs(h) \/ HubGC(h)) => Starts(h)
    /\ pullReferencedBlobs(h) => Fetches(h)
    /\ resumeContainment(h) => Resumes(h)
    /\ MarkEncryptedBindingsNeedingRotation(h) => Marks(h)
    /\ emitSuperseding(h) => Emits(h)
    /\ UpdateBlobRef(h) => Repoints(h)
    /\ rewrapPut(h) => Putting(h)
    /\ rewrapPush(h) => Publishes(h)
    /\ rewrapDelete(h) => Unlinks(h)
    /\ QueuePendingHubDelete(h) => Queues(h)
    /\ PushNaming(h) => Pushes(h)
    /\ AdvancePushSeqCursor(h) => Watermarks(h)
    /\ BlobRefCount(h) => Counts(h)
    /\ gcDelete(h) => Deleting(h)
    /\ rewrapFails(h) => Gives(h)
    /\ clearContainment(h) => Clears(h)
    /\ pushReferencedBlobs(h) => Admits(h)
    /\ gcMark(h) => Listing(h)
    /\ gcUnreferencedBlobs(h) => Reaps(h)
    /\ gcDone(h) => Finishes(h)
    /\ revokeBlobs(h) => Revokes(h)
    /\ CommitCapture(h) => Stays(h)
    /\ ClearRotationForProject(h) => Stays(h)
    /\ CrashBlobs(h) => Dies(h)
    /\ (\E rotate \in BOOLEAN : captureEnvProfile(h, rotate)) => Stays(h)
    /\ \A r \in job[h].todo : rewrapBlob(h, r) => Wraps(h, r)
    /\ \A r \in job[h].todo : drainPendingHubDelete(h, r) => Drains(h, r)
    /\ \A r \in job[h].todo : gcStat(h, r) => Looks(h, r)

LEMMA Turning ==
    ASSUME HubTypes, NEW h \in Host
    PROVE  Turns(h)
<1>0. job \in [Host -> Job] /\ job[h] \in Job
  BY DEF HubTypes
<1>1. ASSUME (SyncBlobs(h) \/ HubGC(h))
      PROVE  Starts(h)
  <2>1. Pulls(h)
    BY <1>1, PullDoes
  <2>2. job[h] = NoJob
    BY <2>1 DEF Pulls
  <2> DEFINE todo == Refs(Coming(h)) \ cache[h]
             whole == \A o \in Host \ {h} : stored[o] \subseteq 1..Reach(o)
  <2>3. \E cmd \in {"sync", "gc"} : job' = [job EXCEPT ![h] = [NoJob EXCEPT !.at = "fetch", !.cmd = cmd, !.todo = todo, !.whole = whole]]
    BY <2>1 DEF Pulls
  <2> HIDE DEF todo, whole
  <2>4. job'[h].at = "fetch" /\ job'[h].todo = todo /\ job'[h].whole = whole
    BY <1>0, <2>3 DEF NoJob
  <2> QED BY <2>2, <2>4 DEF todo, whole, Starts
<1>2. ASSUME pullReferencedBlobs(h)
      PROVE  Fetches(h)
  BY <1>0, <1>2 DEF pullReferencedBlobs, Becomes, Job, Fetches
<1>3. ASSUME resumeContainment(h)
      PROVE  Resumes(h)
  BY <1>0, <1>3 DEF resumeContainment, Becomes, Job, Resumes
<1>4. ASSUME MarkEncryptedBindingsNeedingRotation(h)
      PROVE  Marks(h)
  BY <1>0, <1>4 DEF MarkEncryptedBindingsNeedingRotation, Becomes, Job, Marks
<1>5. ASSUME emitSuperseding(h)
      PROVE  Emits(h)
  BY <1>0, <1>5 DEF emitSuperseding, Step, Becomes, Job, Emits
<1>6. ASSUME UpdateBlobRef(h)
      PROVE  Repoints(h)
  BY <1>0, <1>6 DEF UpdateBlobRef, Step, Becomes, Job, Repoints
<1>7. ASSUME rewrapPut(h)
      PROVE  Putting(h)
  BY <1>0, <1>7 DEF rewrapPut, Step, Becomes, Job, Putting
<1>8. ASSUME rewrapPush(h)
      PROVE  Publishes(h)
  BY <1>0, <1>8 DEF rewrapPush, Step, Becomes, Job, Publishes
<1>9. ASSUME rewrapDelete(h)
      PROVE  Unlinks(h)
  BY <1>0, <1>9 DEF rewrapDelete, Step, Becomes, Job, Unlinks
<1>10. ASSUME QueuePendingHubDelete(h)
      PROVE  Queues(h)
  BY <1>0, <1>10 DEF QueuePendingHubDelete, Step, Becomes, Job, Queues
<1>11. ASSUME PushNaming(h)
      PROVE  Pushes(h)
  BY <1>0, <1>11 DEF PushNaming, Step, Becomes, Job, Pushes
<1>12. ASSUME AdvancePushSeqCursor(h)
      PROVE  Watermarks(h)
  BY <1>0, <1>12 DEF AdvancePushSeqCursor, Becomes, Job, Watermarks
<1>13. ASSUME BlobRefCount(h)
      PROVE  Counts(h)
  BY <1>0, <1>13 DEF BlobRefCount, Becomes, Job, Counts
<1>14. ASSUME gcDelete(h)
      PROVE  Deleting(h)
  BY <1>0, <1>14 DEF gcDelete, Step, Becomes, Job, Deleting
<1>15. ASSUME rewrapFails(h)
      PROVE  Gives(h)
  BY <1>0, <1>15 DEF rewrapFails, Step, Becomes, Job, Gives
<1>16. ASSUME clearContainment(h)
      PROVE  Clears(h)
  BY <1>0, <1>16 DEF clearContainment, Becomes, Job, Clears
<1>17. ASSUME pushReferencedBlobs(h)
      PROVE  Admits(h)
  BY <1>0, <1>17 DEF pushReferencedBlobs, Step, Becomes, Job, Admits
<1>18. ASSUME gcMark(h)
      PROVE  Listing(h)
  <2> DEFINE old == {r \in DOMAIN blobs \ Refs(rows'[h]) : tick - blobs[r] >= Grace}
  <2>1. CASE ~job[h].whole
    BY <1>0, <1>18, <2>1 DEF gcMark, refuseIfIncompleteView, Listing
  <2>2. CASE job[h].whole
    <3>1. /\ job[h].at = "gate" /\ rows' = [rows EXCEPT ![h] = LatestDraftSnapshot(@)]
          /\ job' = [job EXCEPT ![h].at = "sweep", ![h].now = tick, ![h].todo = old]
      BY <1>18, <2>2 DEF gcMark, refuseIfIncompleteView
    <3> HIDE DEF old
    <3>2. Becomes(h, "sweep", old, job[h].old, job[h].new, job[h].events, job[h].base, tick)
      BY <1>0, <3>1 DEF Becomes, Job
    <3> QED BY <2>2, <3>1, <3>2 DEF old, Listing
  <2> QED BY <2>1, <2>2
<1>19. ASSUME gcUnreferencedBlobs(h)
      PROVE  Reaps(h)
  BY <1>0, <1>19 DEF gcUnreferencedBlobs, Becomes, Job, Reaps
<1>20. ASSUME gcDone(h)
      PROVE  Finishes(h)
  BY <1>0, <1>20 DEF gcDone, Becomes, Job, Finishes
<1>21. ASSUME revokeBlobs(h)
      PROVE  Revokes(h)
  BY <1>0, <1>21 DEF revokeBlobs, NoJob, Becomes, Job, Revokes
<1>22. ASSUME CommitCapture(h)
      PROVE  Stays(h)
  BY <1>0, <1>22 DEF CommitCapture, Becomes, Job, Stays
<1>23. ASSUME ClearRotationForProject(h)
      PROVE  Stays(h)
  BY <1>0, <1>23 DEF ClearRotationForProject, Becomes, Job, Stays
<1>24. ASSUME CrashBlobs(h)
      PROVE  Dies(h)
  BY <1>0, <1>24 DEF CrashBlobs, Becomes, Job, Dies
<1>25. ASSUME (\E rotate \in BOOLEAN : captureEnvProfile(h, rotate))
      PROVE  Stays(h)
  BY <1>0, <1>25 DEF captureEnvProfile, Becomes, Job, Stays
<1>26. ASSUME NEW r \in job[h].todo, rewrapBlob(h, r)
      PROVE  Wraps(h, r)
  BY <1>0, <1>26 DEF rewrapBlob, Wraps, Becomes, Job
<1>27. ASSUME NEW r \in job[h].todo, drainPendingHubDelete(h, r)
      PROVE  Drains(h, r)
  BY <1>0, <1>27 DEF drainPendingHubDelete, Drains, Becomes, Job
<1>28. ASSUME NEW r \in job[h].todo, gcStat(h, r)
      PROVE  Looks(h, r)
  BY <1>0, <1>28 DEF gcStat, Looks, Becomes, Job
<1> QED
  BY <1>1, <1>2, <1>3, <1>4, <1>5, <1>6, <1>7, <1>8, <1>9, <1>10, <1>11, <1>12, <1>13, <1>14, <1>15, <1>16, <1>17, <1>18, <1>19, <1>20, <1>21, <1>22, <1>23, <1>24, <1>25, <1>26, <1>27, <1>28 DEF Turns

-----------------------------------------------------------------------------
(* What a step names.                                                      *)

LEMMA HeldSound == ASSUME BlobsHeld, NEW h \in Host PROVE Sound(h)
  BY DEF BlobsHeld, Sound

\* A command of h names ref.
Naming(h, ref) == (emitSuperseding(h) /\ ref = job[h].new) \/ (CommitCapture(h) /\ ref = hand[h].ref)

LEMMA NamingMakes ==
    ASSUME NEW h \in Host, Sound(h), NEW ref, Naming(h, ref)
    PROVE  LET e == EventB(h, "blob", ref) IN Names(h, e) /\ Fresh(h, e) /\ e.ref = ref /\ e.type = "blob" /\ ref \in Nat
<1>1. InsertNaming(h, ref)
  BY DEF Naming, emitSuperseding, CommitCapture
<1>2. ref \in Nat
  BY DEF Naming, Sound, HubTypes, Job, LocalTypes, Capture
<1> QED BY <1>1, <1>2, NamingDoes, EventMade DEF Sound

\* What a naming leaves alone.
LEMMA NamingLeaves ==
    ASSUME NEW h \in Host, NEW ref, Naming(h, ref)
    PROVE  UNCHANGED <<made, blobs, queued, stored, sent, got, cache, doomed, knows, contains, tick, budget, valued, raced>>
  BY DEF Naming, emitSuperseding, CommitCapture, hubvars, history

\* The event a naming appends.
LEMMA NamingAppends ==
    ASSUME NEW h \in Host, Sound(h), NEW ref, Naming(h, ref)
    PROVE  /\ Len(told'[h]) = Len(told[h]) + 1 /\ told'[h][Len(told[h]) + 1] = EventB(h, "blob", ref)
           /\ \A i \in 1..Len(told[h]) : told'[h][i] = told[h][i]
           /\ \A o \in Host \ {h} : told'[o] = told[o]
           /\ Len(told[h]) \in Nat
<1> DEFINE e == EventB(h, "blob", ref)
<1>1. told' = [told EXCEPT ![h] = Append(@, e)] /\ e \in BlobEvent
  BY NamingMakes DEF Names, Fresh
<1>2. told \in [Host -> Seq(BlobEvent)] /\ told[h] \in Seq(BlobEvent)
  BY DEF Sound, EventTypes
<1> HIDE DEF e
<1>3. told'[h] = Append(told[h], e) /\ \A o \in Host \ {h} : told'[o] = told[o]
  BY <1>1, <1>2
<1> QED BY <1>1, <1>2, <1>3 DEF e

LEMMA EventsAfter ==
    ASSUME NEW h \in Host, Sound(h), HostActs(h)
    PROVE  /\ \A o \in Host : \A i \in BlobEvents(o) : i \in BlobEvents(o)' /\ told'[o][i] = told[o][i]
           /\ \A o \in Host : \A i \in BlobEvents(o)' :
                 \/ i \in BlobEvents(o) /\ told'[o][i] = told[o][i]
                 \/ o = h /\ i = Len(told[h]) + 1 /\ \E ref : Naming(h, ref) /\ told'[o][i] = EventB(h, "blob", ref)
<1>0. \A o \in Host : Len(told[o]) \in Nat
  BY Placed DEF Sound
<1>1. CASE UNCHANGED told
  BY <1>1 DEF BlobEvents
<1>2. ASSUME NEW ref, Naming(h, ref)
      PROVE  /\ \A o \in Host : \A i \in BlobEvents(o) : i \in BlobEvents(o)' /\ told'[o][i] = told[o][i]
             /\ \A o \in Host : \A i \in BlobEvents(o)' :
                   \/ i \in BlobEvents(o) /\ told'[o][i] = told[o][i]
                   \/ o = h /\ i = Len(told[h]) + 1 /\ told'[o][i] = EventB(h, "blob", ref)
  <2>1. /\ Len(told'[h]) = Len(told[h]) + 1 /\ told'[h][Len(told[h]) + 1] = EventB(h, "blob", ref)
        /\ \A i \in 1..Len(told[h]) : told'[h][i] = told[h][i]
        /\ \A o \in Host \ {h} : told'[o] = told[o]
    BY <1>2, NamingAppends
  <2>2. \A o \in Host : /\ Len(told'[o]) \in Nat /\ Len(told[o]) <= Len(told'[o])
                        /\ \A i \in 1..Len(told[o]) : told'[o][i] = told[o][i]
                        /\ \A i \in 1..Len(told'[o]) : i \in 1..Len(told[o]) \/ (o = h /\ i = Len(told[h]) + 1)
    BY <1>0, <2>1
  <2>3. \A o \in Host : \A i \in 1..Len(told[o]) : i \in 1..Len(told'[o])
    BY <1>0, <2>2
  <2> QED BY <1>2, <2>1, <2>2, <2>3, Zenon DEF BlobEvents
<1>3. CASE revokeBlobs(h)
  <2> DEFINE e == EventB(h, "revoked", 0)
  <2>1. told' = [told EXCEPT ![h] = Append(@, e)]
    BY <1>3 DEF revokeBlobs
  <2>2. e \in BlobEvent /\ e.type = "revoked"
    BY EventMade DEF Fresh, Sound
  <2>3. told \in [Host -> Seq(BlobEvent)] /\ told[h] \in Seq(BlobEvent)
    BY DEF Sound, EventTypes
  <2> HIDE DEF e
  <2>4. told'[h] = Append(told[h], e) /\ \A o \in Host \ {h} : told'[o] = told[o]
    BY <2>1, <2>3
  <2>5. /\ Len(told'[h]) = Len(told[h]) + 1 /\ told'[h][Len(told[h]) + 1] = e
        /\ \A i \in 1..Len(told[h]) : told'[h][i] = told[h][i]
    BY <2>2, <2>3, <2>4
  <2>6. \A o \in Host : /\ Len(told'[o]) \in Nat /\ Len(told[o]) <= Len(told'[o])
                        /\ \A i \in 1..Len(told[o]) : told'[o][i] = told[o][i]
                        /\ \A i \in 1..Len(told'[o]) : i \in 1..Len(told[o]) \/ told'[o][i] = e
    BY <1>0, <2>4, <2>5
  <2>7. \A o \in Host : \A i \in 1..Len(told[o]) : i \in 1..Len(told'[o])
    BY <1>0, <2>6
  <2>8. "revoked" # "blob"
    OBVIOUS
  <2> QED BY <2>2, <2>6, <2>7, <2>8, Zenon DEF BlobEvents
<1>4. CASE emitSuperseding(h) \/ CommitCapture(h)
  <2>1. \E ref : Naming(h, ref)
    BY <1>4 DEF Naming
  <2> QED BY <1>2, <2>1
<1> QED BY <1>1, <1>3, <1>4, WritesTold

\* What h has after a step: what it had, and what a pull or a naming brings it.
LEMMA NoticedAfter ==
    ASSUME NEW h \in Host, Sound(h), HostActs(h), NEW g \in Host
    PROVE  /\ \A e \in Noticed(g) : e \in Noticed(g)'
           /\ \A e \in Noticed(g)' : \/ e \in Noticed(g)
                                     \/ g = h /\ (SyncBlobs(h) \/ HubGC(h)) /\ e \in Coming(h)
                                     \/ g = h /\ \E ref : Naming(h, ref) /\ e = EventB(h, "blob", ref)
           /\ \A ref : g = h /\ Naming(h, ref) => EventB(h, "blob", ref) \in Noticed(g)'
           /\ \A e \in AllNaming : e \in AllNaming'
<1>0. /\ \A o \in Host : \A i \in BlobEvents(o) : i \in BlobEvents(o)' /\ told'[o][i] = told[o][i]
      /\ \A o \in Host : \A i \in BlobEvents(o)' :
            \/ i \in BlobEvents(o) /\ told'[o][i] = told[o][i]
            \/ o = h /\ i = Len(told[h]) + 1 /\ \E ref : Naming(h, ref) /\ told'[o][i] = EventB(h, "blob", ref)
  BY EventsAfter
<1>1. /\ \A e \in Noticed(g)' : \E o \in Host : \E i \in Noted(g, o)' : e = told'[o][i]
      /\ \A o \in Host : \A i \in Noted(g, o)' : told'[o][i] \in Noticed(g)'
  BY DEF Noticed
<1>2. /\ \A e \in Noticed(g) : \E o \in Host : \E i \in Noted(g, o) : e = told[o][i]
      /\ \A o \in Host : \A i \in Noted(g, o) : told[o][i] \in Noticed(g)
      /\ \A o \in Host : \A i \in Noted(g, o) : i \in BlobEvents(o)
  BY NoticedIs
<1>3. \A o \in Host \ {g} : got[g][o] \in Nat /\ got'[g][o] \in Nat /\ got[g][o] <= got'[g][o]
  <2>1. CASE g # h
    <3>1. got'[g] = got[g]
      BY <2>1, Others DEF Sound
    <3> QED BY <3>1, Placed DEF Sound
  <2>2. CASE g = h /\ UNCHANGED got
    BY <2>2, Placed DEF Sound
  <2>3. CASE g = h /\ (SyncBlobs(h) \/ HubGC(h))
    <3>1. got' = [got EXCEPT ![h] = [o \in Host |-> IF o = h THEN 0 ELSE Reach(o)]] /\ got \in [Host -> [Host -> Nat]]
      BY <2>3, PullDoes DEF Pulls, Sound, EventTypes
    <3>2. \A o \in Host \ {h} : got'[h][o] = Reach(o) /\ Reach(o) \in Nat /\ got[h][o] \in Nat /\ got[h][o] <= Reach(o)
      BY <3>1, ReachOf, Placed DEF Sound
    <3> QED BY <2>3, <3>2
  <2> QED BY <2>1, <2>2, <2>3, WritesGot
<1>4. \A o \in Host : \A i \in Noted(g, o) : i \in Noted(g, o)'
  <2> SUFFICES ASSUME NEW o \in Host, NEW i \in Noted(g, o) PROVE i \in Noted(g, o)'
    OBVIOUS
  <2>1. i \in BlobEvents(o)' /\ i \in BlobEvents(o)
    BY <1>0, <1>2
  <2>2. o # g => i <= got[g][o] /\ i \in Nat
    BY Placed DEF Noted, BlobEvents, Sound
  <2> QED BY <1>3, <2>1, <2>2 DEF Noted
<1>5. \A e \in Noticed(g) : e \in Noticed(g)'
  BY <1>0, <1>1, <1>2, <1>4
<1>6. ASSUME NEW e \in Noticed(g)'
      PROVE  \/ e \in Noticed(g)
             \/ g = h /\ (SyncBlobs(h) \/ HubGC(h)) /\ e \in Coming(h)
             \/ g = h /\ \E ref : Naming(h, ref) /\ e = EventB(h, "blob", ref)
  <2>1. PICK o \in Host : \E i \in Noted(g, o)' : e = told'[o][i]
    BY <1>1
  <2>1a. PICK i \in Noted(g, o)' : e = told'[o][i]
    BY <2>1
  <2>2. i \in BlobEvents(o)' /\ (o # g => i <= got'[g][o])
    BY <2>1a DEF Noted
  <2>3. CASE ~(i \in BlobEvents(o) /\ told'[o][i] = told[o][i])
    <3>1. o = h /\ i = Len(told[h]) + 1 /\ \E ref : Naming(h, ref) /\ e = EventB(h, "blob", ref)
      BY <1>0, <2>1a, <2>2, <2>3
    <3>2. CASE g = h
      BY <3>1, <3>2
    <3>3. CASE g # h
      <4>1. got'[g] = got[g]
        BY <3>3, Others DEF Sound
      <4>2. got[g][h] \in Nat /\ Len(told[h]) \in Nat /\ \A j \in 1..got[g][h] : j \in 1..Len(told[h])
        BY <3>3, Placed DEF Sound
      <4> QED BY <2>2, <3>1, <3>3, <4>1, <4>2
    <3> QED BY <3>2, <3>3
  <2>4. CASE i \in BlobEvents(o) /\ told'[o][i] = told[o][i] /\ (o = g \/ i <= got[g][o])
    <3>1. i \in Noted(g, o)
      BY <2>4 DEF Noted
    <3> QED BY <1>2, <2>1a, <2>4, <3>1
  <2>5. CASE i \in BlobEvents(o) /\ told'[o][i] = told[o][i] /\ ~(o = g \/ i <= got[g][o])
    <3>1. got'[g] # got[g]
      BY <2>2, <2>5
    <3>2. g = h
      BY <3>1, Others DEF Sound
    <3>3. SyncBlobs(h) \/ HubGC(h)
      BY <3>1, WritesGot
    <3>4. got' = [got EXCEPT ![h] = [p \in Host |-> IF p = h THEN 0 ELSE Reach(p)]] /\ got \in [Host -> [Host -> Nat]]
      BY <3>3, PullDoes DEF Pulls, Sound, EventTypes
    <3>5. got'[h][o] = Reach(o)
      BY <2>5, <3>2, <3>4
    <3>6. i \in Nat /\ Reach(o) \in Nat /\ got[h][o] \in Nat /\ told[o][i].type = "blob"
      BY <1>3, <2>5, <3>2, <3>5, Placed DEF BlobEvents, Sound
    <3>7. i \in (got[h][o] + 1)..Reach(o)
      BY <2>2, <2>5, <3>2, <3>5, <3>6
    <3>8. told[o][i] \in Arrived(h)
      BY <2>5, <3>2, <3>7, ComingIs DEF Sound
    <3> QED BY <2>1a, <2>5, <3>2, <3>3, <3>6, <3>8 DEF Coming
  <2> QED BY <2>3, <2>4, <2>5
<1>7. ASSUME NEW ref, g = h, Naming(h, ref) PROVE EventB(h, "blob", ref) \in Noticed(g)'
  <2>1. Len(told'[h]) = Len(told[h]) + 1 /\ told'[h][Len(told[h]) + 1] = EventB(h, "blob", ref) /\ Len(told[h]) \in Nat
    BY <1>7, NamingAppends
  <2>2. EventB(h, "blob", ref).type = "blob"
    BY <1>7, NamingMakes
  <2>3. Len(told[h]) + 1 \in BlobEvents(h)'
    BY <2>1, <2>2 DEF BlobEvents
  <2>4. Len(told[h]) + 1 \in Noted(g, h)'
    BY <1>7, <2>3 DEF Noted
  <2> QED BY <1>1, <2>1, <2>4
<1>8. \A e \in AllNaming : e \in AllNaming'
  <2>1. \A e \in AllNaming : \E o \in Host : \E i \in BlobEvents(o) : e = told[o][i]
    BY NoticedIs
  <2>2. \A o \in Host : \A i \in BlobEvents(o)' : told'[o][i] \in AllNaming'
    BY DEF AllNaming
  <2> QED BY <1>0, <2>1, <2>2
<1> QED BY <1>5, <1>6, <1>7, <1>8

-----------------------------------------------------------------------------
(* Refs are named once.                                                    *)

\* A ref that is encrypted is new.
LEMMA Encrypting ==
    ASSUME NEW h \in Host, Sound(h)
    PROVE  /\ \A r \in job[h].todo : rewrapBlob(h, r) =>
                  UNCHANGED <<told, hand>> /\ (UNCHANGED made \/ Len(made') = Len(made) + 1)
           /\ \A rotate \in BOOLEAN : captureEnvProfile(h, rotate) =>
                  /\ UNCHANGED <<told, job>> /\ Len(made') = Len(made) + 1
                  /\ hand'[h].ref = Len(made) + 1 /\ hand'[h].at = "written" /\ hand[h] = NoHand
                  /\ cache'[h] = cache[h] \cup {Len(made) + 1}
<1>1. made \in Seq([value : Nat, open : BOOLEAN]) /\ hand \in [Host -> Capture] /\ cache \in [Host -> SUBSET Nat]
  BY DEF Sound, LocalTypes
<1>2. \A x : Len(Append(made, x)) = Len(made) + 1
  <2> DEFINE Blob == [value : Nat, open : BOOLEAN]
  <2>1. made \in Seq(Blob)
    BY <1>1
  <2> HIDE DEF Blob
  <2> QED BY <2>1
<1>3. ASSUME NEW r \in job[h].todo, rewrapBlob(h, r)
      PROVE  UNCHANGED <<told, hand>> /\ (UNCHANGED made \/ Len(made') = Len(made) + 1)
  BY <1>2, <1>3 DEF rewrapBlob
<1>4. ASSUME NEW rotate \in BOOLEAN, captureEnvProfile(h, rotate)
      PROVE  /\ UNCHANGED <<told, job>> /\ Len(made') = Len(made) + 1
             /\ hand'[h].ref = Len(made) + 1 /\ hand'[h].at = "written" /\ hand[h] = NoHand
             /\ cache'[h] = cache[h] \cup {Len(made) + 1}
  <2>1. /\ UNCHANGED <<told, job>> /\ hand[h] = NoHand
        /\ made' = Append(made, [value |-> Len(made) + 1, open |-> ~knows[h]])
        /\ hand' = [hand EXCEPT ![h] = [at |-> "written", ref |-> Len(made) + 1, rotate |-> rotate]]
        /\ cache' = [cache EXCEPT ![h] = @ \cup {Len(made) + 1}]
    BY <1>4 DEF captureEnvProfile
  <2>2. hand'[h] = [at |-> "written", ref |-> Len(made) + 1, rotate |-> rotate] /\ cache'[h] = cache[h] \cup {Len(made) + 1}
    BY <1>1, <2>1
  <2> QED BY <1>2, <2>1, <2>2
<1> QED BY <1>3, <1>4

\* Where the ref of a written capture comes from.
LEMMA HandFrom ==
    ASSUME NEW h \in Host, Sound(h), HostActs(h), NEW g \in Host, hand'[g].at = "written"
    PROVE  \/ /\ hand[g].at = "written" /\ hand'[g].ref = hand[g].ref /\ ~(g = h /\ CommitCapture(h))
           \/ /\ g = h /\ UNCHANGED <<told, job>> /\ Len(made') = Len(made) + 1 /\ hand'[g].ref = Len(made) + 1
              /\ hand'[g].ref \in cache'[g]
<1>0. hand \in [Host -> Capture] /\ job \in [Host -> Job] /\ NoHand.at # "written"
  BY DEF Sound, LocalTypes, HubTypes, NoHand
<1>1. CASE g # h
  <2>1. hand'[g] = hand[g]
    BY <1>1, Others DEF Sound
  <2> QED BY <1>1, <2>1
<1>2. CASE g = h /\ CommitCapture(h)
  <2>1. hand' = [hand EXCEPT ![h] = IF @.rotate THEN [@ EXCEPT !.at = "clear"] ELSE NoHand]
    BY <1>2 DEF CommitCapture
  <2>2. hand'[h].at # "written"
    BY <1>0, <2>1 DEF Capture
  <2> QED BY <1>2, <2>2
<1>3. CASE g = h /\ (CrashBlobs(h) \/ ClearRotationForProject(h)) /\ ~CommitCapture(h)
  <2>1. hand' = [hand EXCEPT ![h] = NoHand] \/ UNCHANGED hand
    BY <1>3 DEF CrashBlobs, ClearRotationForProject
  <2> QED BY <1>0, <1>3, <2>1
<1>4. CASE g = h /\ \E rotate \in BOOLEAN : captureEnvProfile(h, rotate)
  BY <1>0, <1>4, Encrypting, MadeTyped
<1>5. CASE g = h /\ UNCHANGED hand /\ ~CommitCapture(h)
  BY <1>5
<1> QED BY <1>1, <1>2, <1>3, <1>4, <1>5, WritesHand

\* Where the ref of a claim comes from.
LEMMA ClaimFrom ==
    ASSUME NEW h \in Host, Sound(h), HostActs(h), NEW g \in Host, job'[g].at \in Claiming
    PROVE  \/ /\ job[g].at \in Claiming /\ job'[g].new = job[g].new /\ job'[g].old = job[g].old
              /\ job'[g].at = "emit" => job'[g] = job[g] /\ ~(g = h /\ emitSuperseding(h))
           \/ /\ g = h /\ job[h].at = "rewrap" /\ UNCHANGED <<told, hand>> /\ Len(made') = Len(made) + 1 /\ job'[g].new = Len(made) + 1
              /\ job'[g].new \in cache'[g] /\ \E r \in job[h].todo : rewrapBlob(h, r) /\ job'[g].old = r
<1>0. HubTypes
  BY DEF Sound
<1>1. CASE g # h
  <2>1. job'[g] = job[g]
    BY <1>1, Others DEF Sound
  <2> QED BY <1>1, <2>1
<1>2. CASE g = h /\ \E r \in job[h].todo : rewrapBlob(h, r)
  <2>1. PICK r \in job[h].todo : rewrapBlob(h, r)
    BY <1>2
  <2>2. job[h].at = "rewrap" /\ "rewrap" \notin Claiming
    BY <2>1 DEF rewrapBlob, Claiming
  <2>3. \/ /\ made' = Append(made, [value |-> made[r].value, open |-> FALSE]) /\ cache' = [cache EXCEPT ![h] = @ \cup {Len(made) + 1}]
           /\ job'[h].old = r /\ job'[h].new = Len(made) + 1
        \/ job'[h].at = job[h].at
    BY <2>1, Turning DEF Turns, Wraps, Becomes, Sound
  <2>4. CASE job'[h].at = job[h].at
    BY <1>2, <2>2, <2>4
  <2>5. CASE job'[h].at # job[h].at
    <3>1. Len(made') = Len(made) + 1
      <4>1. made \in Seq([value : Nat, open : BOOLEAN])
        BY DEF Sound, LocalTypes
      <4> DEFINE Blob == [value : Nat, open : BOOLEAN]
      <4>2. made \in Seq(Blob)
        BY <4>1
      <4> HIDE DEF Blob
      <4> QED BY <2>3, <2>5, <4>2
    <3>2. UNCHANGED <<told, hand>>
      BY <2>1, Encrypting
    <3>3. cache'[h] = cache[h] \cup {Len(made) + 1}
      BY <2>3, <2>5 DEF Sound, LocalTypes
    <3> QED BY <1>2, <2>1, <2>2, <2>3, <2>5, <3>1, <3>2, <3>3
  <2> QED BY <2>4, <2>5
<1>3. CASE g = h /\ ~\E r \in job[h].todo : rewrapBlob(h, r)
  <2> DEFINE Goal == \/ job'[h] = job[h] /\ ~emitSuperseding(h)
                     \/ job[h].at \in Claiming /\ job'[h].new = job[h].new /\ job'[h].old = job[h].old /\ job'[h].at # "emit"
                     \/ job'[h].at \notin Claiming
  <2> SUFFICES Goal
    BY <1>3
  <2>0. Claiming = {"emit", "repoint", "putnew", "publish"} /\ NoJob.at = "idle" /\ Turns(h) /\ (emitSuperseding(h) => job'[h].at # job[h].at)
    BY <1>0, Turning DEF Claiming, NoJob, Turns, Emits, Becomes
  <2>1. CASE SyncBlobs(h) \/ HubGC(h)
    BY <2>1, <2>0 DEF Turns, Starts, Becomes
  <2>2. CASE pullReferencedBlobs(h)
    BY <2>2, <2>0 DEF Turns, Fetches, Becomes
  <2>3. CASE resumeContainment(h)
    BY <2>3, <2>0 DEF Turns, Resumes, Becomes
  <2>4. CASE MarkEncryptedBindingsNeedingRotation(h)
    BY <2>4, <2>0 DEF Turns, Marks, Becomes
  <2>5. CASE \E r \in job[h].todo : drainPendingHubDelete(h, r)
    BY <2>5, <2>0 DEF Turns, Drains, Becomes
  <2>6. CASE \E r \in job[h].todo : gcStat(h, r)
    BY <2>6, <2>0 DEF Turns, Looks, Becomes
  <2>7. CASE emitSuperseding(h)
    BY <2>7, <2>0 DEF Turns, Emits, Becomes
  <2>8. CASE UpdateBlobRef(h)
    BY <2>8, <2>0 DEF Turns, Repoints, Becomes
  <2>9. CASE rewrapPut(h)
    BY <2>9, <2>0 DEF Turns, Putting, Becomes
  <2>10. CASE rewrapPush(h)
    BY <2>10, <2>0 DEF Turns, Publishes, Becomes
  <2>11. CASE rewrapDelete(h)
    BY <2>11, <2>0 DEF Turns, Unlinks, Becomes
  <2>12. CASE QueuePendingHubDelete(h)
    BY <2>12, <2>0 DEF Turns, Queues, Becomes
  <2>13. CASE clearContainment(h)
    BY <2>13, <2>0 DEF Turns, Clears, Becomes
  <2>14. CASE pushReferencedBlobs(h)
    BY <2>14, <2>0 DEF Turns, Admits, Becomes
  <2>15. CASE PushNaming(h)
    BY <2>15, <2>0 DEF Turns, Pushes, Becomes
  <2>16. CASE AdvancePushSeqCursor(h)
    BY <2>16, <2>0 DEF Turns, Watermarks, Becomes
  <2>17. CASE BlobRefCount(h)
    BY <2>17, <2>0 DEF Turns, Counts, Becomes
  <2>18. CASE gcUnreferencedBlobs(h)
    BY <2>18, <2>0 DEF Turns, Reaps
  <2>19. CASE gcMark(h)
    BY <2>19, <2>0 DEF Turns, Listing, Becomes
  <2>20. CASE gcDelete(h)
    BY <2>20, <2>0 DEF Turns, Deleting, Becomes
  <2>21. CASE gcDone(h)
    BY <2>21, <2>0 DEF Turns, Finishes
  <2>22. CASE revokeBlobs(h)
    BY <2>22, <2>0 DEF Turns, Revokes, Becomes
  <2>23. CASE rewrapFails(h)
    BY <2>23, <2>0 DEF Turns, Gives, Becomes
  <2>24. CASE CrashBlobs(h)
    BY <2>24, <2>0 DEF Turns, Dies
  <2>25. CASE \E rotate \in BOOLEAN : captureEnvProfile(h, rotate)
    BY <2>25, <2>0 DEF Turns, Stays
  <2>26. CASE CommitCapture(h)
    BY <2>26, <2>0 DEF Turns, Stays
  <2>27. CASE ClearRotationForProject(h)
    BY <2>27, <2>0 DEF Turns, Stays
  <2> QED
    BY <1>3, <2>1, <2>2, <2>3, <2>4, <2>5, <2>6, <2>7, <2>8, <2>9, <2>10, <2>11, <2>12, <2>13, <2>14, <2>15,
       <2>16, <2>17, <2>18, <2>19, <2>20, <2>21, <2>22, <2>23, <2>24, <2>25, <2>26, <2>27 DEF HostActs,
       SyncWork
<1> QED BY <1>1, <1>2, <1>3

LEMMA NamingFresh ==
    ASSUME NEW h \in Host, Sound(h), NEW ref, Naming(h, ref)
    PROVE  ref \in 1..Len(made) /\ \A o \in Host : \A i \in BlobEvents(o) : told[o][i].ref # ref
<1>1. CASE emitSuperseding(h) /\ ref = job[h].new
  <2>1. job[h].at = "emit" /\ job[h].at \in Claiming
    BY <1>1 DEF emitSuperseding, Claiming
  <2> QED BY <1>1, <2>1 DEF Sound, Rewrapped
<1>2. CASE CommitCapture(h) /\ ref = hand[h].ref
  BY <1>2 DEF CommitCapture, Sound, Captured
<1> QED BY <1>1, <1>2 DEF Naming

LEMMA NamedOnceKept ==
    ASSUME NEW h \in Host, Sound(h), HostActs(h)
    PROVE  NamedOnce'
<1>0. Len(made) \in Nat /\ Len(made') \in Nat /\ Len(made) <= Len(made')
  BY MadeTyped
<1>1. \A o \in Host : \A i \in BlobEvents(o)' :
          \/ i \in BlobEvents(o) /\ told'[o][i] = told[o][i]
          \/ o = h /\ i = Len(told[h]) + 1 /\ \E ref : Naming(h, ref) /\ told'[o][i] = EventB(h, "blob", ref)
  BY EventsAfter
<1>2. \A ref : Naming(h, ref) => EventB(h, "blob", ref).ref = ref
  BY NamingMakes
<1>3. \A ref : Naming(h, ref) => ref \in 1..Len(made) /\ \A o \in Host : \A i \in BlobEvents(o) : told[o][i].ref # ref
  BY NamingFresh
<1>4. \A o \in Host : \A i \in BlobEvents(o) : told[o][i].ref \in 1..Len(made)
  BY DEF Sound, NamedOnce
<1>5. ASSUME NEW o \in Host, NEW i \in BlobEvents(o)' PROVE told'[o][i].ref \in 1..Len(made')
  <2>1. told'[o][i].ref \in 1..Len(made)
    BY <1>1, <1>2, <1>3, <1>4
  <2> QED BY <1>0, <2>1
<1>6. ASSUME NEW o \in Host, NEW p \in Host, NEW i \in BlobEvents(o)', NEW j \in BlobEvents(p)', told'[o][i].ref = told'[p][j].ref
      PROVE  o = p /\ i = j
  <2>1. CASE i \in BlobEvents(o) /\ told'[o][i] = told[o][i] /\ j \in BlobEvents(p) /\ told'[p][j] = told[p][j]
    BY <1>6, <2>1 DEF Sound, NamedOnce
  <2>2. CASE ~(i \in BlobEvents(o) /\ told'[o][i] = told[o][i]) /\ j \in BlobEvents(p) /\ told'[p][j] = told[p][j]
    BY <1>1, <1>2, <1>3, <1>6, <2>2
  <2>3. CASE i \in BlobEvents(o) /\ told'[o][i] = told[o][i] /\ ~(j \in BlobEvents(p) /\ told'[p][j] = told[p][j])
    BY <1>1, <1>2, <1>3, <1>6, <2>3
  <2>4. CASE ~(i \in BlobEvents(o) /\ told'[o][i] = told[o][i]) /\ ~(j \in BlobEvents(p) /\ told'[p][j] = told[p][j])
    BY <1>1, <2>4
  <2> QED BY <2>1, <2>2, <2>3, <2>4
<1> QED BY <1>5, <1>6 DEF NamedOnce

LEMMA CapturedKept ==
    ASSUME BlobsHeld, NEW h \in Host, HostActs(h), NEW g \in Host
    PROVE  Captured(g)'
<1>0. Sound(h) /\ Captured(g) /\ Captured(h) /\ \A o \in Host : Rewrapped(o)
  BY HeldSound DEF BlobsHeld
<1> SUFFICES ASSUME hand'[g].at = "written"
             PROVE  /\ hand'[g].ref \in 1..Len(made')
                    /\ \A o \in Host : \A i \in BlobEvents(o)' : told'[o][i].ref # hand'[g].ref
                    /\ \A o \in Host \ {g} : hand'[o].at = "written" => hand'[o].ref # hand'[g].ref
                    /\ \A o \in Host : job'[o].at \in Claiming => job'[o].new # hand'[g].ref
  BY DEF Captured
<1>1. Len(made) \in Nat /\ Len(made') \in Nat /\ Len(made) <= Len(made')
  BY <1>0, MadeTyped
<1>2. \A o \in Host : \A i \in BlobEvents(o)' :
          \/ i \in BlobEvents(o) /\ told'[o][i] = told[o][i]
          \/ o = h /\ i = Len(told[h]) + 1 /\ \E ref : Naming(h, ref) /\ told'[o][i] = EventB(h, "blob", ref)
  BY <1>0, EventsAfter
<1>3. \A ref : Naming(h, ref) => EventB(h, "blob", ref).ref = ref
  BY <1>0, NamingMakes
<1>4. \A o \in Host : \A i \in BlobEvents(o) : told[o][i].ref \in 1..Len(made)
  BY <1>0 DEF Sound, NamedOnce
<1>5. CASE hand[g].at = "written" /\ hand'[g].ref = hand[g].ref /\ ~(g = h /\ CommitCapture(h))
  <2>0. /\ hand[g].ref \in 1..Len(made)
        /\ \A o \in Host : \A i \in BlobEvents(o) : told[o][i].ref # hand[g].ref
        /\ \A o \in Host \ {g} : hand[o].at = "written" => hand[o].ref # hand[g].ref
        /\ \A o \in Host : job[o].at \in Claiming => job[o].new # hand[g].ref
    BY <1>0, <1>5 DEF Captured
  <2>1. \A ref : Naming(h, ref) => ref # hand[g].ref
    <3>1. emitSuperseding(h) => job[h].new # hand[g].ref
      BY <2>0 DEF emitSuperseding, Claiming
    <3>2. CommitCapture(h) => hand[h].ref # hand[g].ref
      BY <1>5, <2>0 DEF CommitCapture
    <3> QED BY <3>1, <3>2 DEF Naming
  <2>2. hand'[g].ref \in 1..Len(made') /\ hand'[g].ref # Len(made) + 1
    BY <1>1, <1>5, <2>0
  <2>3. \A o \in Host : \A i \in BlobEvents(o)' : told'[o][i].ref # hand'[g].ref
    BY <1>2, <1>3, <1>5, <2>0, <2>1
  <2>4. ASSUME NEW o \in Host \ {g}, hand'[o].at = "written" PROVE hand'[o].ref # hand'[g].ref
    <3>1. (hand[o].at = "written" /\ hand'[o].ref = hand[o].ref) \/ hand'[o].ref = Len(made) + 1
      BY <1>0, <2>4, HandFrom
    <3> QED BY <1>5, <2>0, <2>2, <3>1
  <2>5. ASSUME NEW o \in Host, job'[o].at \in Claiming PROVE job'[o].new # hand'[g].ref
    <3>1. (job[o].at \in Claiming /\ job'[o].new = job[o].new) \/ job'[o].new = Len(made) + 1
      BY <1>0, <2>5, ClaimFrom
    <3> QED BY <1>5, <2>0, <2>2, <3>1
  <2> QED BY <2>2, <2>3, <2>4, <2>5
<1>6. CASE g = h /\ UNCHANGED <<told, job>> /\ Len(made') = Len(made) + 1 /\ hand'[g].ref = Len(made) + 1
  <2>1. hand'[g].ref \in 1..Len(made') /\ hand'[g].ref \notin 1..Len(made)
    BY <1>1, <1>6
  <2>2. \A o \in Host : \A i \in BlobEvents(o)' : told'[o][i].ref # hand'[g].ref
    BY <1>4, <1>6, <2>1 DEF BlobEvents
  <2>3. ASSUME NEW o \in Host \ {g}, hand'[o].at = "written" PROVE hand'[o].ref # hand'[g].ref
    <3>1. hand[o].at = "written" /\ hand'[o].ref = hand[o].ref
      BY <1>0, <1>6, <2>3, HandFrom
    <3> QED BY <2>1, <3>1 DEF BlobsHeld, Captured
  <2>4. ASSUME NEW o \in Host, job'[o].at \in Claiming PROVE job'[o].new # hand'[g].ref
    <3>1. job[o].at \in Claiming /\ job'[o].new = job[o].new
      BY <1>6, <2>4
    <3> QED BY <1>0, <2>1, <3>1 DEF Rewrapped
  <2> QED BY <2>1, <2>2, <2>3, <2>4
<1> QED BY <1>0, <1>5, <1>6, HandFrom

LEMMA RewrappedKept ==
    ASSUME BlobsHeld, NEW h \in Host, HostActs(h), NEW g \in Host
    PROVE  Rewrapped(g)'
<1>0. Sound(h) /\ Rewrapped(g) /\ \A o \in Host : Captured(o) /\ Rewrapped(o)
  BY HeldSound DEF BlobsHeld
<1> SUFFICES ASSUME job'[g].at \in Claiming
             PROVE  /\ job'[g].new \in 1..Len(made')
                    /\ \A o \in Host : \A i \in BlobEvents(o)' : told'[o][i].ref = job'[g].new => job'[g].at # "emit" /\ o = g
                    /\ \A o \in Host \ {g} : job'[o].at \in Claiming => job'[o].new # job'[g].new
  BY DEF Rewrapped
<1>1. Len(made) \in Nat /\ Len(made') \in Nat /\ Len(made) <= Len(made')
  BY <1>0, MadeTyped
<1>2. \A o \in Host : \A i \in BlobEvents(o)' :
          \/ i \in BlobEvents(o) /\ told'[o][i] = told[o][i]
          \/ o = h /\ i = Len(told[h]) + 1 /\ \E ref : Naming(h, ref) /\ told'[o][i] = EventB(h, "blob", ref)
  BY <1>0, EventsAfter
<1>3. \A ref : Naming(h, ref) => EventB(h, "blob", ref).ref = ref
  BY <1>0, NamingMakes
<1>4. \A o \in Host : \A i \in BlobEvents(o) : told[o][i].ref \in 1..Len(made)
  BY <1>0 DEF Sound, NamedOnce
<1>5. CASE job[g].at \in Claiming /\ job'[g].new = job[g].new /\ (job'[g].at = "emit" => job'[g] = job[g] /\ ~(g = h /\ emitSuperseding(h)))
  <2>0. /\ job[g].new \in 1..Len(made)
        /\ \A o \in Host : \A i \in BlobEvents(o) : told[o][i].ref = job[g].new => job[g].at # "emit" /\ o = g
        /\ \A o \in Host \ {g} : job[o].at \in Claiming => job[o].new # job[g].new
    BY <1>0, <1>5 DEF Rewrapped
  <2>1. \A ref : Naming(h, ref) /\ ref = job[g].new => g = h /\ job'[g].at # "emit"
    <3>1. CommitCapture(h) => hand[h].ref # job[g].new
      BY <1>0, <1>5 DEF CommitCapture, Captured
    <3>2. emitSuperseding(h) /\ job[h].new = job[g].new => g = h
      BY <2>0 DEF emitSuperseding, Claiming
    <3> QED BY <1>5, <3>1, <3>2 DEF Naming
  <2>2. job'[g].new \in 1..Len(made') /\ job'[g].new # Len(made) + 1
    BY <1>1, <1>5, <2>0
  <2>3. ASSUME NEW o \in Host, NEW i \in BlobEvents(o)', told'[o][i].ref = job'[g].new PROVE job'[g].at # "emit" /\ o = g
    <3>1. CASE i \in BlobEvents(o) /\ told'[o][i] = told[o][i]
      BY <1>5, <2>0, <2>3, <3>1
    <3>2. CASE o = h /\ \E ref : Naming(h, ref) /\ told'[o][i] = EventB(h, "blob", ref)
      BY <1>3, <1>5, <2>1, <2>3, <3>2
    <3> QED BY <1>2, <3>1, <3>2
  <2>4. ASSUME NEW o \in Host \ {g}, job'[o].at \in Claiming PROVE job'[o].new # job'[g].new
    <3>1. (job[o].at \in Claiming /\ job'[o].new = job[o].new) \/ job'[o].new = Len(made) + 1
      BY <1>0, <2>4, ClaimFrom
    <3> QED BY <1>5, <2>0, <2>2, <3>1
  <2> QED BY <2>2, <2>3, <2>4
<1>6. CASE g = h /\ UNCHANGED told /\ Len(made') = Len(made) + 1 /\ job'[g].new = Len(made) + 1
  <2>1. job'[g].new \in 1..Len(made') /\ job'[g].new \notin 1..Len(made)
    BY <1>1, <1>6
  <2>2. \A o \in Host : \A i \in BlobEvents(o)' : told'[o][i].ref # job'[g].new
    BY <1>4, <1>6, <2>1 DEF BlobEvents
  <2>3. ASSUME NEW o \in Host \ {g}, job'[o].at \in Claiming PROVE job'[o].new # job'[g].new
    <3>1. job[o].at \in Claiming /\ job'[o].new = job[o].new
      BY <1>0, <1>6, <2>3, ClaimFrom
    <3> QED BY <1>0, <2>1, <3>1 DEF Rewrapped
  <2> QED BY <2>1, <2>2, <2>3
<1> QED BY <1>0, <1>5, <1>6, ClaimFrom

-----------------------------------------------------------------------------
(* A push has the events behind its watermark.                             *)

LEMMA WrappingIs ==
    /\ Claiming = {"emit", "repoint", "putnew", "publish"}
    /\ Replacing = {"putnew", "publish", "unlink", "queue"}
    /\ Wrapping = {"rewrap", "emit", "repoint", "putnew", "publish", "unlink", "queue"}
    /\ NoJob.at = "idle"
  BY DEF Wrapping, Claiming, Replacing, NoJob

\* What EventsReady asks of a job.
Reads(j) == j.at \in {"put", "push", "watermark"} \/ (j.cmd = "sync" /\ j.at \in {"mark"} \cup Wrapping)

LEMMA EventsFrom ==
    ASSUME NEW h \in Host, Sound(h), HostActs(h), Reads(job'[h])
    PROVE  \/ resumeContainment(h) /\ job'[h].events = (sent[h] + 1)..Len(told[h]) /\ job'[h].at # "watermark"
           \/ Reads(job[h]) /\ job'[h].events = job[h].events /\ (job'[h].at = "watermark" => job[h].at = "watermark" \/ PushNaming(h))
<1> DEFINE Goal == \/ ~Reads(job'[h])
                   \/ resumeContainment(h) /\ job'[h].events = (sent[h] + 1)..Len(told[h]) /\ job'[h].at # "watermark"
                   \/ Reads(job[h]) /\ job'[h].events = job[h].events /\ (job'[h].at = "watermark" => job[h].at = "watermark" \/ PushNaming(h))
<1> SUFFICES Goal
  OBVIOUS
<1>0. /\ Turns(h) /\ NoJob.at = "idle"
      /\ Wrapping = {"rewrap", "emit", "repoint", "putnew", "publish", "unlink", "queue"}
  BY Turning, WrappingIs DEF Sound

<1>1. CASE SyncBlobs(h) \/ HubGC(h)
  BY <1>1, <1>0 DEF Turns, Starts, Becomes, Reads
<1>2. CASE pullReferencedBlobs(h)
  BY <1>2, <1>0 DEF Turns, Fetches, Becomes, Reads
<1>3. CASE resumeContainment(h)
  BY <1>3, <1>0 DEF Turns, Resumes, Becomes, Reads
<1>4. CASE MarkEncryptedBindingsNeedingRotation(h)
  BY <1>4, <1>0 DEF Turns, Marks, Becomes, Reads
<1>5. CASE \E r \in job[h].todo : rewrapBlob(h, r)
  BY <1>5, <1>0 DEF Turns, Wraps, Becomes, Reads
<1>6. CASE \E r \in job[h].todo : drainPendingHubDelete(h, r)
  BY <1>6, <1>0 DEF Turns, Drains, Becomes, Reads
<1>7. CASE \E r \in job[h].todo : gcStat(h, r)
  BY <1>7, <1>0 DEF Turns, Looks, Becomes, Reads
<1>8. CASE emitSuperseding(h)
  BY <1>8, <1>0 DEF Turns, Emits, Becomes, Reads
<1>9. CASE UpdateBlobRef(h)
  BY <1>9, <1>0 DEF Turns, Repoints, Becomes, Reads
<1>10. CASE rewrapPut(h)
  BY <1>10, <1>0 DEF Turns, Putting, Becomes, Reads
<1>11. CASE rewrapPush(h)
  BY <1>11, <1>0 DEF Turns, Publishes, Becomes, Reads
<1>12. CASE rewrapDelete(h)
  BY <1>12, <1>0 DEF Turns, Unlinks, Becomes, Reads
<1>13. CASE QueuePendingHubDelete(h)
  BY <1>13, <1>0 DEF Turns, Queues, Becomes, Reads
<1>14. CASE clearContainment(h)
  BY <1>14, <1>0 DEF Turns, Clears, Becomes, Reads
<1>15. CASE pushReferencedBlobs(h)
  BY <1>15, <1>0 DEF Turns, Admits, Becomes, Reads
<1>16. CASE PushNaming(h)
  BY <1>16, <1>0 DEF Turns, Pushes, Becomes, Reads
<1>17. CASE AdvancePushSeqCursor(h)
  BY <1>17, <1>0 DEF Turns, Watermarks, Becomes, Reads
<1>18. CASE BlobRefCount(h)
  BY <1>18, <1>0 DEF Turns, Counts, Becomes, Reads
<1>19. CASE gcUnreferencedBlobs(h)
  BY <1>19, <1>0 DEF Turns, Reaps, Reads
<1>20. CASE gcMark(h)
  BY <1>20, <1>0 DEF Turns, Listing, Becomes, Reads
<1>21. CASE gcDelete(h)
  BY <1>21, <1>0 DEF Turns, Deleting, Becomes, Reads
<1>22. CASE gcDone(h)
  BY <1>22, <1>0 DEF Turns, Finishes, Reads
<1>23. CASE revokeBlobs(h)
  BY <1>23, <1>0 DEF Turns, Revokes, Becomes, Reads
<1>24. CASE rewrapFails(h)
  BY <1>24, <1>0 DEF Turns, Gives, Becomes, Reads
<1>25. CASE CrashBlobs(h)
  BY <1>25, <1>0 DEF Turns, Dies, Reads
<1>26. CASE \E rotate \in BOOLEAN : captureEnvProfile(h, rotate)
  BY <1>26, <1>0 DEF Turns, Stays, Reads
<1>27. CASE CommitCapture(h)
  BY <1>27, <1>0 DEF Turns, Stays, Reads
<1>28. CASE ClearRotationForProject(h)
  BY <1>28, <1>0 DEF Turns, Stays, Reads
<1> QED
  BY <1>1, <1>2, <1>3, <1>4, <1>5, <1>6, <1>7, <1>8, <1>9, <1>10, <1>11, <1>12, <1>13, <1>14, <1>15, <1>16,
     <1>17, <1>18, <1>19, <1>20, <1>21, <1>22, <1>23, <1>24, <1>25, <1>26, <1>27, <1>28 DEF HostActs, SyncWork

LEMMA EventsReadyKept ==
    ASSUME BlobsHeld, NEW h \in Host, HostActs(h), NEW g \in Host
    PROVE  EventsReady(g)'
<1>0. Sound(h) /\ EventsReady(g)
  BY HeldSound DEF BlobsHeld
<1>1. CASE g # h
  <2>1. UNCHANGED <<told[g], stored[g], sent[g], job[g]>>
    BY <1>0, <1>1, Others DEF Sound
  <2> QED BY <1>0, <2>1 DEF EventsReady
<1>2. CASE g = h /\ Reads(job'[h])
  <2>1. /\ Len(told[h]) \in Nat /\ Len(told'[h]) \in Nat /\ Len(told[h]) <= Len(told'[h])
        /\ stored' \in [Host -> SUBSET Nat] /\ stored[h] \subseteq stored'[h]
    BY <1>0, ToldTyped, Placed, StoredGrows DEF Lasting, Sound
  <2>2. 0..Len(told[h]) \subseteq 0..Len(told'[h])
    BY <2>1
  <2>3. UNCHANGED sent
    <3>1. AdvancePushSeqCursor(h) => job'[h].at = "drain"
      BY <1>0, Turning DEF Turns, Watermarks, Becomes, Sound
    <3>2. AdvancePushSeqCursor(h) => ~Reads(job'[h])
      BY <3>1, WrappingIs DEF Reads
    <3> QED BY <1>2, <3>2, WritesSent
  <2>4. CASE resumeContainment(h) /\ job'[h].events = (sent[h] + 1)..Len(told[h]) /\ job'[h].at # "watermark"
    <3>1. Len(told[h]) \in 0..Len(told'[h])
      BY <2>1
    <3> QED BY <1>2, <2>3, <2>4, <3>1 DEF EventsReady
  <2>5. CASE Reads(job[h]) /\ job'[h].events = job[h].events /\ (job'[h].at = "watermark" => job[h].at = "watermark" \/ PushNaming(h))
    <3>1. PICK n \in 0..Len(told[h]) : job[h].events = (sent[h] + 1)..n
      BY <1>0, <1>2, <2>5 DEF EventsReady, Reads
    <3>2. job'[h].events = (sent'[h] + 1)..n /\ n \in 0..Len(told'[h])
      BY <2>2, <2>3, <2>5, <3>1
    <3>3. job'[h].at = "watermark" => job'[h].events \subseteq stored'[h]
      <4>1. job[h].at = "watermark" => job[h].events \subseteq stored[h]
        BY <1>0, <1>2 DEF EventsReady
      <4>2. PushNaming(h) => job[h].events \subseteq stored'[h]
        BY <1>0 DEF PushNaming, Sound, EventTypes
      <4> QED BY <2>1, <2>5, <4>1, <4>2
    <3> QED BY <1>2, <3>2, <3>3 DEF EventsReady
  <2> QED BY <1>0, <1>2, <2>4, <2>5, EventsFrom
<1>3. CASE g = h /\ ~Reads(job'[h])
  BY <1>3 DEF EventsReady, Reads
<1> QED BY <1>1, <1>2, <1>3

-----------------------------------------------------------------------------
(* The rows stand for what the device has.                                 *)

\* All that h may order is stamped up to some bound.
LEMMA Ordered ==
    ASSUME NEW h \in Host, Sound(h)
    PROVE  \E B \in Nat : /\ \A x \in rows[h] : Coord(B, x)
                          /\ \A x \in AllNaming : Coord(B, x)
                          /\ \A ref : Naming(h, ref) => Coord(B, EventB(h, "blob", ref))
<1>1. PICK A \in Nat : \A o \in Host : \A i \in 1..Len(told[o]) : told[o][i].hlc <= A
  BY DEF Sound, EventTypes
<1>2. StampB(h) \in Nat
  BY StampAbove DEF Sound
<1> DEFINE B == A + StampB(h)
<1>3. B \in Nat /\ A <= B /\ StampB(h) <= B
  BY <1>1, <1>2
<1>4. ASSUME NEW x \in AllNaming PROVE Coord(B, x)
  <2>1. x.hlc \in Nat /\ x.dev \in Host
    BY NamingTyped DEF Sound
  <2>2. PICK o \in Host : \E i \in BlobEvents(o) : x = told[o][i]
    BY DEF AllNaming
  <2>2a. PICK i \in BlobEvents(o) : x = told[o][i]
    BY <2>2
  <2>3. x.hlc <= A
    BY <1>1, <2>2a DEF BlobEvents
  <2> QED BY <1>1, <1>3, <2>1, <2>3 DEF Coord
<1>5. ASSUME NEW x \in rows[h] PROVE Coord(B, x)
  <2>1. PICK e \in Noticed(h) : x.hlc = e.hlc /\ x.dev = e.dev
    BY DEF Sound, RowsStand
  <2>2. e \in AllNaming
    BY <2>1, NoticedIs
  <2> QED BY <1>4, <2>1, <2>2 DEF Coord
<1>6. ASSUME NEW ref, Naming(h, ref) PROVE Coord(B, EventB(h, "blob", ref))
  BY <1>2, <1>3, <1>6, NamingMakes DEF Fresh, Coord
<1> QED BY <1>3, <1>4, <1>5, <1>6

\* What a step does to the rows of its host.
Repointed(h) == {IF r.ref = job[h].old THEN [r EXCEPT !.ref = job[h].new] ELSE r : r \in rows[h]}
LEMMA RowsMove ==
    ASSUME NEW h \in Host, Sound(h), HostActs(h)
    PROVE  \/ UNCHANGED rows
           \/ (SyncBlobs(h) \/ HubGC(h)) /\ rows'[h] = RecordAll(rows[h], Coming(h))
           \/ \E ref : Naming(h, ref) /\ rows'[h] = RecordAll(rows[h], {EventB(h, "blob", ref)})
           \/ UpdateBlobRef(h) /\ rows'[h] = Repointed(h)
           \/ gcMark(h) /\ rows'[h] = LatestDraftSnapshot(rows[h])
<1>0. rows \in [Host -> SUBSET BlobEvent]
  BY DEF Sound, LocalTypes
<1>1. CASE SyncBlobs(h) \/ HubGC(h)
  <2>1. rows' = [rows EXCEPT ![h] = RecordAll(rows[h], Coming(h))]
    BY <1>1, PullDoes DEF Pulls
  <2> QED BY <1>0, <1>1, <2>1
<1>2. CASE emitSuperseding(h) \/ CommitCapture(h)
  <2>1. PICK ref : Naming(h, ref)
    BY <1>2 DEF Naming
  <2>2. rows' = [rows EXCEPT ![h] = RecordAll(@, {EventB(h, "blob", ref)})]
    BY <2>1, NamingMakes DEF Names
  <2> QED BY <1>0, <2>1, <2>2
<1>3. CASE UpdateBlobRef(h)
  <2>1. rows' = [rows EXCEPT ![h] = Repointed(h)]
    BY <1>3 DEF UpdateBlobRef, Repointed
  <2> QED BY <1>0, <1>3, <2>1
<1>4. CASE gcMark(h)
  <2>1. UNCHANGED rows \/ rows' = [rows EXCEPT ![h] = LatestDraftSnapshot(rows[h])]
    BY <1>4 DEF gcMark
  <2> QED BY <1>0, <1>4, <2>1
<1> QED BY <1>1, <1>2, <1>3, <1>4, WritesRows

\* A pull brings what it says.
LEMMA ComingNoticed ==
    ASSUME NEW h \in Host, Sound(h), SyncBlobs(h) \/ HubGC(h), NEW e \in Coming(h)
    PROVE  e \in Noticed(h)'
<1>1. e \in Arrived(h) /\ e.type = "blob"
  BY DEF Coming
<1>2. PICK o \in Host \ {h} : \E i \in (got[h][o] + 1)..Reach(o) : e = told[o][i] /\ i \in stored[o] /\ i \in 1..Len(told[o])
  BY <1>1, ComingIs DEF Sound
<1>2a. PICK i \in (got[h][o] + 1)..Reach(o) : e = told[o][i] /\ i \in stored[o] /\ i \in 1..Len(told[o])
  BY <1>2
<1>3. got' = [got EXCEPT ![h] = [p \in Host |-> IF p = h THEN 0 ELSE Reach(p)]] /\ got \in [Host -> [Host -> Nat]] /\ UNCHANGED told
  BY PullDoes DEF Pulls, Sound, EventTypes
<1>4. got'[h][o] = Reach(o) /\ Reach(o) \in Nat /\ got[h][o] \in Nat
  BY <1>3, ReachOf DEF Sound
<1>5. i <= got'[h][o]
  BY <1>2a, <1>4
<1>6. i \in BlobEvents(o)'
  BY <1>1, <1>2a, <1>3 DEF BlobEvents
<1>7. i \in Noted(h, o)'
  BY <1>5, <1>6 DEF Noted
<1>8. told'[o][i] \in Noticed(h)'
  BY <1>7 DEF Noticed
<1> QED BY <1>2a, <1>3, <1>8

\* A pull brings nothing twice.
LEMMA ComingNew ==
    ASSUME NEW h \in Host, Sound(h), NEW e \in Coming(h)
    PROVE  e.ref \notin Refs(Noticed(h))
<1> SUFFICES ASSUME NEW f \in Noticed(h), e.ref = f.ref PROVE FALSE
  BY RefIn
<1>1. e \in Arrived(h) /\ e.type = "blob"
  BY DEF Coming
<1>2. PICK o \in Host \ {h} : \E i \in (got[h][o] + 1)..Reach(o) : e = told[o][i] /\ i \in stored[o] /\ i \in 1..Len(told[o])
  BY <1>1, ComingIs DEF Sound
<1>2a. PICK i \in (got[h][o] + 1)..Reach(o) : e = told[o][i] /\ i \in stored[o] /\ i \in 1..Len(told[o])
  BY <1>2
<1>3. PICK p \in Host : \E j \in Noted(h, p) : f = told[p][j]
  BY NoticedIs
<1>3a. PICK j \in Noted(h, p) : f = told[p][j]
  BY <1>3
<1>4. i \in BlobEvents(o) /\ j \in BlobEvents(p)
  BY <1>1, <1>2a, <1>3a, NoticedIs DEF BlobEvents
<1>5. o = p /\ i = j
  BY <1>2a, <1>3a, <1>4 DEF Sound, NamedOnce
<1>6. i <= got[h][o]
  BY <1>3a, <1>5 DEF Noted
<1>7. got[h][o] \in Nat /\ Reach(o) \in Nat
  BY Placed, ReachOf DEF Sound
<1> QED BY <1>2a, <1>6, <1>7

\* Where a row comes from.
LEMMA RowsFrom ==
    ASSUME NEW h \in Host, Sound(h), HostActs(h), NEW r \in rows'[h]
    PROVE  \/ r \in rows[h] /\ (UpdateBlobRef(h) => r.ref # job[h].old)
           \/ (SyncBlobs(h) \/ HubGC(h)) /\ r \in Coming(h)
           \/ \E ref : Naming(h, ref) /\ r = EventB(h, "blob", ref)
           \/ UpdateBlobRef(h) /\ r.ref = job[h].new /\ \E s \in rows[h] : s.ref = job[h].old /\ r.hlc = s.hlc /\ r.dev = s.dev
<1>0. \A S, E : RecordAll(S, E) \subseteq S \cup E
  BY DEF RecordAll, LatestDraftSnapshot
<1>1. UpdateBlobRef(h) => rows'[h] = Repointed(h)
  BY DEF UpdateBlobRef, Repointed, Sound, LocalTypes
<1>2. CASE UpdateBlobRef(h)
  <2>1. PICK s \in rows[h] : r = IF s.ref = job[h].old THEN [s EXCEPT !.ref = job[h].new] ELSE s
    BY <1>1, <1>2 DEF Repointed
  <2>2. s \in BlobEvent
    BY DEF Sound, LocalTypes
  <2>3. CASE s.ref = job[h].old
    BY <1>2, <2>1, <2>2, <2>3 DEF BlobEvent
  <2>4. CASE s.ref # job[h].old
    BY <2>1, <2>4
  <2> QED BY <2>3, <2>4
<1>3. CASE UNCHANGED rows /\ ~UpdateBlobRef(h)
  BY <1>3
<1>4. CASE (SyncBlobs(h) \/ HubGC(h)) /\ rows'[h] = RecordAll(rows[h], Coming(h)) /\ ~UpdateBlobRef(h)
  BY <1>0, <1>4
<1>5. CASE (\E ref : Naming(h, ref) /\ rows'[h] = RecordAll(rows[h], {EventB(h, "blob", ref)})) /\ ~UpdateBlobRef(h)
  BY <1>0, <1>5
<1>6. CASE gcMark(h) /\ rows'[h] = LatestDraftSnapshot(rows[h]) /\ ~UpdateBlobRef(h)
  BY <1>6 DEF LatestDraftSnapshot
<1> QED BY <1>2, <1>3, <1>4, <1>5, <1>6, RowsMove

\* What was a row, or is news, is one or has a later one.
LEMMA RowsLater ==
    ASSUME NEW h \in Host, Sound(h), HostActs(h), ~UpdateBlobRef(h), NEW x,
           \/ x \in rows[h]
           \/ (SyncBlobs(h) \/ HubGC(h)) /\ x \in Coming(h)
           \/ \E ref : Naming(h, ref) /\ x = EventB(h, "blob", ref)
    PROVE  x \in rows'[h] \/ \E s \in rows'[h] : envCoordLess(x, s)
<1>0. rows \in [Host -> SUBSET BlobEvent]
  BY DEF Sound, LocalTypes
<1>1. PICK B \in Nat : /\ \A y \in rows[h] : Coord(B, y)
                       /\ \A y \in AllNaming : Coord(B, y)
                       /\ \A ref : Naming(h, ref) => Coord(B, EventB(h, "blob", ref))
  BY Ordered
<1>2. Coming(h) \subseteq AllNaming
  BY ComingIs DEF Sound
<1>3. CASE SyncBlobs(h) \/ HubGC(h)
  <2>1. rows'[h] = RecordAll(rows[h], Coming(h))
    <3>1. rows' = [rows EXCEPT ![h] = RecordAll(rows[h], Coming(h))]
      BY <1>3, PullDoes DEF Pulls
    <3> QED BY <1>0, <3>1
  <2>2. \A r \in rows[h] \cup Coming(h) : Coord(B, r)
    BY <1>1, <1>2
  <2>3. \A r \in rows[h] \cup Coming(h) : r \in rows'[h] \/ \E s \in rows'[h] : envCoordLess(r, s)
    BY <2>1, <2>2, Recorded
  <2>4. \A ref : ~Naming(h, ref)
    <3>1. job[h].at = "idle"
      BY <1>3, Turning, WrappingIs DEF Turns, Starts, Sound
    <3>2. ~emitSuperseding(h)
      BY <3>1 DEF emitSuperseding
    <3>3. UNCHANGED hand
      BY <1>3, PullDoes DEF Pulls
    <3>4. CommitCapture(h) => hand' # hand
      <4>1. CommitCapture(h) => hand[h].at = "written" /\ hand' = [hand EXCEPT ![h] = IF @.rotate THEN [@ EXCEPT !.at = "clear"] ELSE NoHand]
        BY DEF CommitCapture
      <4>2. CommitCapture(h) => hand'[h].at # "written"
        BY <4>1 DEF Sound, LocalTypes, Capture, NoHand
      <4> QED BY <4>1, <4>2
    <3> QED BY <3>2, <3>3, <3>4 DEF Naming
  <2> QED BY <2>3, <2>4
<1>4. ASSUME NEW ref, Naming(h, ref), ~(SyncBlobs(h) \/ HubGC(h))
      PROVE  x \in rows'[h] \/ \E s \in rows'[h] : envCoordLess(x, s)
  <2> DEFINE e == EventB(h, "blob", ref)
  <2>1. rows'[h] = RecordAll(rows[h], {e})
    <3>1. rows' = [rows EXCEPT ![h] = RecordAll(@, {e})]
      BY <1>4, NamingMakes DEF Names
    <3> QED BY <1>0, <3>1
  <2>2. \A r \in rows[h] \cup {e} : Coord(B, r)
    BY <1>1, <1>4
  <2> HIDE DEF e
  <2>3. \A r \in rows[h] \cup {e} : r \in rows'[h] \/ \E s \in rows'[h] : envCoordLess(r, s)
    <3> DEFINE E == {e}
    <3>1. rows'[h] = RecordAll(rows[h], E) /\ \A r \in rows[h] \cup E : Coord(B, r)
      BY <2>1, <2>2
    <3> HIDE DEF E
    <3>2. \A r \in rows[h] \cup E : r \in rows'[h] \/ \E s \in rows'[h] : envCoordLess(r, s)
      BY <1>1, <3>1, Recorded
    <3> QED BY <3>2 DEF E
  <2>4. \A other : Naming(h, other) => other = ref
    <3>1. emitSuperseding(h) => job'[h].at # job[h].at
      BY Turning DEF Turns, Emits, Becomes, Sound
    <3>2. CommitCapture(h) => UNCHANGED job
      BY DEF CommitCapture
    <3> QED BY <1>4, <3>1, <3>2 DEF Naming
  <2> QED BY <1>4, <2>3, <2>4 DEF e
<1>5. CASE gcMark(h) /\ rows'[h] = LatestDraftSnapshot(rows[h]) /\ ~(SyncBlobs(h) \/ HubGC(h)) /\ \A ref : ~Naming(h, ref)
  <2>1. x \in rows[h]
    BY <1>5
  <2>2. \E s \in LatestDraftSnapshot(rows[h]) : s = x \/ envCoordLess(x, s)
    BY <1>1, <2>1, LatestAbove
  <2> QED BY <1>5, <2>2
<1>6. CASE UNCHANGED rows /\ ~(SyncBlobs(h) \/ HubGC(h)) /\ \A ref : ~Naming(h, ref)
  BY <1>6
<1> QED BY <1>3, <1>4, <1>5, <1>6, RowsMove

\* Later events and rows: the order carries over a step.
LEMMA RowsStandKept ==
    ASSUME NEW h \in Host, Sound(h), HostActs(h)
    PROVE  RowsStand(h)'
<1>0. /\ \A r \in rows[h] : \E e \in Noticed(h) : r.hlc = e.hlc /\ r.dev = e.dev
      /\ \A r \in rows[h] : \E e \in Noticed(h) : r.ref = e.ref
      /\ \A e \in Noticed(h) : e \in rows[h] \/ \E r \in rows[h] : envCoordLess(e, r)
  BY DEF Sound, RowsStand
<1>1. /\ \A e \in Noticed(h) : e \in Noticed(h)'
      /\ \A e \in Noticed(h)' : \/ e \in Noticed(h)
                                \/ (SyncBlobs(h) \/ HubGC(h)) /\ e \in Coming(h)
                                \/ \E ref : Naming(h, ref) /\ e = EventB(h, "blob", ref)
      /\ \A ref : Naming(h, ref) => EventB(h, "blob", ref) \in Noticed(h)'
  BY NoticedAfter
<1>2. \A e \in Coming(h) : SyncBlobs(h) \/ HubGC(h) => e \in Noticed(h)'
  BY ComingNoticed
<1>3. PICK B \in Nat : /\ \A y \in rows[h] : Coord(B, y)
                       /\ \A y \in AllNaming : Coord(B, y)
                       /\ \A ref : Naming(h, ref) => Coord(B, EventB(h, "blob", ref))
  BY Ordered
<1>4. UpdateBlobRef(h) => job[h].new \in Refs(Noticed(h)) \/ \A r \in rows[h] : r.ref # job[h].old
  BY DEF UpdateBlobRef, Sound, Replaced
<1>5. ASSUME NEW r \in rows'[h] PROVE \E e \in Noticed(h)' : r.hlc = e.hlc /\ r.dev = e.dev
  <2>1. CASE r \in rows[h] \/ \E s \in rows[h] : r.hlc = s.hlc /\ r.dev = s.dev
    BY <1>0, <1>1, <2>1
  <2>2. CASE r \in Noticed(h)'
    BY <2>2
  <2> QED BY <1>1, <1>2, <2>1, <2>2, RowsFrom
<1>6. ASSUME NEW r \in rows'[h] PROVE \E e \in Noticed(h)' : r.ref = e.ref
  <2>1. CASE r \in rows[h]
    BY <1>0, <1>1, <2>1
  <2>2. CASE r \in Noticed(h)'
    BY <2>2
  <2>3. CASE UpdateBlobRef(h) /\ r.ref = job[h].new /\ \E s \in rows[h] : s.ref = job[h].old
    <3>1. job[h].new \in Refs(Noticed(h))
      BY <1>4, <2>3
    <3> QED BY <1>1, <2>3, <3>1, RefIn
  <2> QED BY <1>1, <1>2, <2>1, <2>2, <2>3, RowsFrom
<1>7. \A r \in rows'[h] : Coord(B, r)
  <2> SUFFICES ASSUME NEW r \in rows'[h] PROVE Coord(B, r)
    OBVIOUS
  <2>1. Coming(h) \subseteq AllNaming
    BY ComingIs DEF Sound
  <2>2. CASE \E s \in rows[h] : r.hlc = s.hlc /\ r.dev = s.dev
    BY <1>3, <2>2 DEF Coord
  <2> QED BY <1>3, <2>1, <2>2, RowsFrom
<1>8. CASE ~UpdateBlobRef(h)
  <2>1. ASSUME NEW e \in Noticed(h)' PROVE e \in rows'[h] \/ \E r \in rows'[h] : envCoordLess(e, r)
    <3>1. CASE e \in Noticed(h) /\ e \notin rows[h]
      <4>1. PICK r \in rows[h] : envCoordLess(e, r)
        BY <1>0, <3>1
      <4>2. r \in rows'[h] \/ \E s \in rows'[h] : envCoordLess(r, s)
        BY <1>8, RowsLater
      <4>3. e \in AllNaming
        BY <3>1, NoticedIs
      <4> QED BY <1>3, <1>7, <4>1, <4>2, <4>3, Precedes
    <3>2. CASE ~(e \in Noticed(h) /\ e \notin rows[h])
      BY <1>1, <1>8, <3>2, RowsLater
    <3> QED BY <3>1, <3>2
  <2> QED BY <1>5, <1>6, <2>1 DEF RowsStand
<1>9. CASE UpdateBlobRef(h)
  <2>1. rows'[h] = Repointed(h)
    BY <1>9 DEF UpdateBlobRef, Repointed, Sound, LocalTypes
  <2>2. /\ \A s \in rows[h] : s.ref # job[h].old => s \in rows'[h]
        /\ \A s \in rows[h] : \E r \in rows'[h] : r.hlc = s.hlc /\ r.dev = s.dev
    <3>1. ASSUME NEW s \in rows[h] PROVE (IF s.ref = job[h].old THEN [s EXCEPT !.ref = job[h].new] ELSE s) \in rows'[h]
      BY <2>1 DEF Repointed
    <3>2. \A s \in rows[h] : s \in BlobEvent
      BY DEF Sound, LocalTypes
    <3>3. \A s \in BlobEvent : [s EXCEPT !.ref = job[h].new].hlc = s.hlc /\ [s EXCEPT !.ref = job[h].new].dev = s.dev
      BY DEF BlobEvent
    <3> QED BY <3>1, <3>2, <3>3
  <2>3. job[h].at = "repoint"
    BY <1>9 DEF UpdateBlobRef
  <2>4. \A r \in rows[h] : r.ref = job[h].old => \E s \in rows[h] : envCoordLess(r, s)
    BY <2>3 DEF Sound, Replaced
  <2>5. ASSUME NEW e \in Noticed(h)' PROVE e \in rows'[h] \/ \E r \in rows'[h] : envCoordLess(e, r)
    <3>1. e \in Noticed(h)
      <4>1. ~(SyncBlobs(h) \/ HubGC(h))
        <5>1. SyncBlobs(h) \/ HubGC(h) => job[h].at = "idle"
          BY Turning, WrappingIs DEF Turns, Starts, Sound
        <5> QED BY <2>3, <5>1
      <4>2. \A ref : ~Naming(h, ref)
        <5>1. ~emitSuperseding(h)
          BY <2>3 DEF emitSuperseding
        <5>2. CommitCapture(h) => UNCHANGED job
          BY DEF CommitCapture
        <5>3. job'[h].at # job[h].at
          BY <1>9, <2>3, Turning DEF Turns, Repoints, Becomes, Sound
        <5> QED BY <5>1, <5>2, <5>3 DEF Naming
      <4> QED BY <1>1, <4>1, <4>2
    <3>2. e \in rows'[h] \/ \E s \in rows[h] : envCoordLess(e, s)
      BY <1>0, <2>2, <2>4, <3>1
    <3> QED BY <2>2, <3>2 DEF envCoordLess
  <2> QED BY <1>5, <1>6, <2>5 DEF RowsStand
<1> QED BY <1>8, <1>9

LEMMA RowsStandEverywhere ==
    ASSUME BlobsHeld, NEW h \in Host, HostActs(h), NEW g \in Host
    PROVE  RowsStand(g)'
<1>0. Sound(h) /\ RowsStand(g)
  BY HeldSound DEF BlobsHeld
<1>1. CASE g # h
  <2>1. rows'[g] = rows[g]
    BY <1>0, <1>1, Others DEF Sound
  <2>2. /\ \A e \in Noticed(g) : e \in Noticed(g)'
        /\ \A e \in Noticed(g)' : e \in Noticed(g)
    BY <1>0, <1>1, NoticedAfter
  <2> QED BY <1>0, <2>1, <2>2 DEF RowsStand
<1>2. CASE g = h
  BY <1>0, <1>2, RowsStandKept
<1> QED BY <1>1, <1>2

-----------------------------------------------------------------------------
(* Refs that are replaced.                                                 *)

\* Where the refs to be rewrapped come from.
LEMMA WrapFrom ==
    ASSUME NEW h \in Host, Sound(h), HostActs(h), job'[h].at \in Wrapping
    PROVE  \/ job[h].at \in Wrapping /\ job'[h].todo \subseteq job[h].todo
           \/ MarkEncryptedBindingsNeedingRotation(h) /\ job'[h].todo = Refs(rows[h])
<1> DEFINE Goal == \/ job'[h].at \notin Wrapping
                   \/ job[h].at \in Wrapping /\ job'[h].todo \subseteq job[h].todo
                   \/ MarkEncryptedBindingsNeedingRotation(h) /\ job'[h].todo = Refs(rows[h])
<1> SUFFICES Goal
  OBVIOUS
<1>0. /\ Turns(h) /\ NoJob.at = "idle"
      /\ Wrapping = {"rewrap", "emit", "repoint", "putnew", "publish", "unlink", "queue"}
  BY Turning, WrappingIs DEF Sound

<1>1. CASE SyncBlobs(h) \/ HubGC(h)
  BY <1>1, <1>0 DEF Turns, Starts, Becomes
<1>2. CASE pullReferencedBlobs(h)
  BY <1>2, <1>0 DEF Turns, Fetches, Becomes
<1>3. CASE resumeContainment(h)
  BY <1>3, <1>0 DEF Turns, Resumes, Becomes
<1>4. CASE MarkEncryptedBindingsNeedingRotation(h)
  BY <1>4, <1>0 DEF Turns, Marks, Becomes
<1>5. CASE \E r \in job[h].todo : rewrapBlob(h, r)
  BY <1>5, <1>0 DEF Turns, Wraps, Becomes
<1>6. CASE \E r \in job[h].todo : drainPendingHubDelete(h, r)
  BY <1>6, <1>0 DEF Turns, Drains, Becomes
<1>7. CASE \E r \in job[h].todo : gcStat(h, r)
  BY <1>7, <1>0 DEF Turns, Looks, Becomes
<1>8. CASE emitSuperseding(h)
  BY <1>8, <1>0 DEF Turns, Emits, Becomes
<1>9. CASE UpdateBlobRef(h)
  BY <1>9, <1>0 DEF Turns, Repoints, Becomes
<1>10. CASE rewrapPut(h)
  BY <1>10, <1>0 DEF Turns, Putting, Becomes
<1>11. CASE rewrapPush(h)
  BY <1>11, <1>0 DEF Turns, Publishes, Becomes
<1>12. CASE rewrapDelete(h)
  BY <1>12, <1>0 DEF Turns, Unlinks, Becomes
<1>13. CASE QueuePendingHubDelete(h)
  BY <1>13, <1>0 DEF Turns, Queues, Becomes
<1>14. CASE clearContainment(h)
  BY <1>14, <1>0 DEF Turns, Clears, Becomes
<1>15. CASE pushReferencedBlobs(h)
  BY <1>15, <1>0 DEF Turns, Admits, Becomes
<1>16. CASE PushNaming(h)
  BY <1>16, <1>0 DEF Turns, Pushes, Becomes
<1>17. CASE AdvancePushSeqCursor(h)
  BY <1>17, <1>0 DEF Turns, Watermarks, Becomes
<1>18. CASE BlobRefCount(h)
  BY <1>18, <1>0 DEF Turns, Counts, Becomes
<1>19. CASE gcUnreferencedBlobs(h)
  BY <1>19, <1>0 DEF Turns, Reaps
<1>20. CASE gcMark(h)
  BY <1>20, <1>0 DEF Turns, Listing, Becomes
<1>21. CASE gcDelete(h)
  BY <1>21, <1>0 DEF Turns, Deleting, Becomes
<1>22. CASE gcDone(h)
  BY <1>22, <1>0 DEF Turns, Finishes
<1>23. CASE revokeBlobs(h)
  BY <1>23, <1>0 DEF Turns, Revokes, Becomes
<1>24. CASE rewrapFails(h)
  BY <1>24, <1>0 DEF Turns, Gives, Becomes
<1>25. CASE CrashBlobs(h)
  BY <1>25, <1>0 DEF Turns, Dies
<1>26. CASE \E rotate \in BOOLEAN : captureEnvProfile(h, rotate)
  BY <1>26, <1>0 DEF Turns, Stays
<1>27. CASE CommitCapture(h)
  BY <1>27, <1>0 DEF Turns, Stays
<1>28. CASE ClearRotationForProject(h)
  BY <1>28, <1>0 DEF Turns, Stays
<1> QED
  BY <1>1, <1>2, <1>3, <1>4, <1>5, <1>6, <1>7, <1>8, <1>9, <1>10, <1>11, <1>12, <1>13, <1>14, <1>15, <1>16,
     <1>17, <1>18, <1>19, <1>20, <1>21, <1>22, <1>23, <1>24, <1>25, <1>26, <1>27, <1>28 DEF HostActs, SyncWork

\* Where the refs being replaced come from.
LEMMA OldFrom ==
    ASSUME NEW h \in Host, Sound(h), HostActs(h), job'[h].at \in Claiming \cup Replacing
    PROVE  \/ /\ job[h].at \in Claiming \cup Replacing /\ job'[h].old = job[h].old /\ job'[h].new = job[h].new
              /\ job'[h].at \in {"emit", "repoint"} => job[h].at \in {"emit", "repoint"}
              /\ job'[h].at = "repoint" => emitSuperseding(h) \/ (job'[h] = job[h] /\ \A r \in job[h].todo : ~rewrapBlob(h, r))
              /\ job'[h].at \in Replacing => job[h].at \in Replacing \/ UpdateBlobRef(h)
           \/ \E r \in job[h].todo : /\ rewrapBlob(h, r) /\ job[h].at = "rewrap" /\ job'[h].old = r /\ job'[h].new = Len(made) + 1
                                     /\ job'[h].at \in {"emit", "repoint"} /\ (job'[h].at = "repoint" => r \notin Refs(rows[h]))
<1> DEFINE Goal == \/ job'[h].at \notin Claiming \cup Replacing
                   \/ /\ job[h].at \in Claiming \cup Replacing /\ job'[h].old = job[h].old /\ job'[h].new = job[h].new
                      /\ job'[h].at \in {"emit", "repoint"} => job[h].at \in {"emit", "repoint"}
                      /\ job'[h].at = "repoint" => emitSuperseding(h) \/ (job'[h] = job[h] /\ \A r \in job[h].todo : ~rewrapBlob(h, r))
                      /\ job'[h].at \in Replacing => job[h].at \in Replacing \/ UpdateBlobRef(h)
                   \/ \E r \in job[h].todo : /\ rewrapBlob(h, r) /\ job[h].at = "rewrap" /\ job'[h].old = r /\ job'[h].new = Len(made) + 1
                                             /\ job'[h].at \in {"emit", "repoint"} /\ (job'[h].at = "repoint" => r \notin Refs(rows[h]))
<1> SUFFICES Goal
  OBVIOUS
<1>0. /\ Turns(h) /\ NoJob.at = "idle"
      /\ Claiming = {"emit", "repoint", "putnew", "publish"}
      /\ Replacing = {"putnew", "publish", "unlink", "queue"}
      /\ \A r \in job[h].todo : rewrapBlob(h, r) => job[h].at = "rewrap"
  BY Turning, WrappingIs DEF Sound, rewrapBlob

<1>1. CASE SyncBlobs(h) \/ HubGC(h)
  BY <1>1, <1>0 DEF Turns, Starts, Becomes
<1>2. CASE pullReferencedBlobs(h)
  BY <1>2, <1>0 DEF Turns, Fetches, Becomes
<1>3. CASE resumeContainment(h)
  BY <1>3, <1>0 DEF Turns, Resumes, Becomes
<1>4. CASE MarkEncryptedBindingsNeedingRotation(h)
  BY <1>4, <1>0 DEF Turns, Marks, Becomes
<1>5. CASE \E r \in job[h].todo : rewrapBlob(h, r)
  BY <1>5, <1>0 DEF Turns, Wraps, Becomes
<1>6. CASE \E r \in job[h].todo : drainPendingHubDelete(h, r)
  BY <1>6, <1>0 DEF Turns, Drains, Becomes
<1>7. CASE \E r \in job[h].todo : gcStat(h, r)
  BY <1>7, <1>0 DEF Turns, Looks, Becomes
<1>8. CASE emitSuperseding(h)
  BY <1>8, <1>0 DEF Turns, Emits, Becomes
<1>9. CASE UpdateBlobRef(h)
  BY <1>9, <1>0 DEF Turns, Repoints, Becomes
<1>10. CASE rewrapPut(h)
  BY <1>10, <1>0 DEF Turns, Putting, Becomes
<1>11. CASE rewrapPush(h)
  BY <1>11, <1>0 DEF Turns, Publishes, Becomes
<1>12. CASE rewrapDelete(h)
  BY <1>12, <1>0 DEF Turns, Unlinks, Becomes
<1>13. CASE QueuePendingHubDelete(h)
  BY <1>13, <1>0 DEF Turns, Queues, Becomes
<1>14. CASE clearContainment(h)
  BY <1>14, <1>0 DEF Turns, Clears, Becomes
<1>15. CASE pushReferencedBlobs(h)
  BY <1>15, <1>0 DEF Turns, Admits, Becomes
<1>16. CASE PushNaming(h)
  BY <1>16, <1>0 DEF Turns, Pushes, Becomes
<1>17. CASE AdvancePushSeqCursor(h)
  BY <1>17, <1>0 DEF Turns, Watermarks, Becomes
<1>18. CASE BlobRefCount(h)
  BY <1>18, <1>0 DEF Turns, Counts, Becomes
<1>19. CASE gcUnreferencedBlobs(h)
  BY <1>19, <1>0 DEF Turns, Reaps
<1>20. CASE gcMark(h)
  BY <1>20, <1>0 DEF Turns, Listing, Becomes
<1>21. CASE gcDelete(h)
  BY <1>21, <1>0 DEF Turns, Deleting, Becomes
<1>22. CASE gcDone(h)
  BY <1>22, <1>0 DEF Turns, Finishes
<1>23. CASE revokeBlobs(h)
  BY <1>23, <1>0 DEF Turns, Revokes, Becomes
<1>24. CASE rewrapFails(h)
  BY <1>24, <1>0 DEF Turns, Gives, Becomes
<1>25. CASE CrashBlobs(h)
  BY <1>25, <1>0 DEF Turns, Dies
<1>26. CASE \E rotate \in BOOLEAN : captureEnvProfile(h, rotate)
  BY <1>26, <1>0 DEF Turns, Stays
<1>27. CASE CommitCapture(h)
  BY <1>27, <1>0 DEF Turns, Stays
<1>28. CASE ClearRotationForProject(h)
  BY <1>28, <1>0 DEF Turns, Stays
<1> QED
  BY <1>1, <1>2, <1>3, <1>4, <1>5, <1>6, <1>7, <1>8, <1>9, <1>10, <1>11, <1>12, <1>13, <1>14, <1>15, <1>16,
     <1>17, <1>18, <1>19, <1>20, <1>21, <1>22, <1>23, <1>24, <1>25, <1>26, <1>27, <1>28 DEF HostActs, SyncWork

\* What a drain works on.
LEMMA DrainFrom ==
    ASSUME NEW h \in Host, Sound(h), HostActs(h), job'[h].at = "drain"
    PROVE  \/ AdvancePushSeqCursor(h) /\ job'[h].todo = doomed[h]
           \/ \E r \in job[h].todo : drainPendingHubDelete(h, r) /\ job[h].at = "drain" /\ job'[h].todo = job[h].todo \ {r}
           \/ job[h].at = "drain" /\ job'[h] = job[h]
<1> DEFINE Goal == \/ job'[h].at # "drain"
                   \/ AdvancePushSeqCursor(h) /\ job'[h].todo = doomed[h]
                   \/ \E r \in job[h].todo : drainPendingHubDelete(h, r) /\ job[h].at = "drain" /\ job'[h].todo = job[h].todo \ {r}
                   \/ job[h].at = "drain" /\ job'[h] = job[h]
<1> SUFFICES Goal
  OBVIOUS
<1>0. Turns(h) /\ NoJob.at = "idle"
  BY Turning, WrappingIs DEF Sound

<1>1. CASE SyncBlobs(h) \/ HubGC(h)
  BY <1>1, <1>0 DEF Turns, Starts, Becomes
<1>2. CASE pullReferencedBlobs(h)
  BY <1>2, <1>0 DEF Turns, Fetches, Becomes
<1>3. CASE resumeContainment(h)
  BY <1>3, <1>0 DEF Turns, Resumes, Becomes
<1>4. CASE MarkEncryptedBindingsNeedingRotation(h)
  BY <1>4, <1>0 DEF Turns, Marks, Becomes
<1>5. CASE \E r \in job[h].todo : rewrapBlob(h, r)
  BY <1>5, <1>0 DEF Turns, Wraps, Becomes
<1>6. CASE \E r \in job[h].todo : drainPendingHubDelete(h, r)
  BY <1>6, <1>0 DEF Turns, Drains, Becomes
<1>7. CASE \E r \in job[h].todo : gcStat(h, r)
  BY <1>7, <1>0 DEF Turns, Looks, Becomes
<1>8. CASE emitSuperseding(h)
  BY <1>8, <1>0 DEF Turns, Emits, Becomes
<1>9. CASE UpdateBlobRef(h)
  BY <1>9, <1>0 DEF Turns, Repoints, Becomes
<1>10. CASE rewrapPut(h)
  BY <1>10, <1>0 DEF Turns, Putting, Becomes
<1>11. CASE rewrapPush(h)
  BY <1>11, <1>0 DEF Turns, Publishes, Becomes
<1>12. CASE rewrapDelete(h)
  BY <1>12, <1>0 DEF Turns, Unlinks, Becomes
<1>13. CASE QueuePendingHubDelete(h)
  BY <1>13, <1>0 DEF Turns, Queues, Becomes
<1>14. CASE clearContainment(h)
  BY <1>14, <1>0 DEF Turns, Clears, Becomes
<1>15. CASE pushReferencedBlobs(h)
  BY <1>15, <1>0 DEF Turns, Admits, Becomes
<1>16. CASE PushNaming(h)
  BY <1>16, <1>0 DEF Turns, Pushes, Becomes
<1>17. CASE AdvancePushSeqCursor(h)
  BY <1>17, <1>0 DEF Turns, Watermarks, Becomes
<1>18. CASE BlobRefCount(h)
  BY <1>18, <1>0 DEF Turns, Counts, Becomes
<1>19. CASE gcUnreferencedBlobs(h)
  BY <1>19, <1>0 DEF Turns, Reaps
<1>20. CASE gcMark(h)
  BY <1>20, <1>0 DEF Turns, Listing, Becomes
<1>21. CASE gcDelete(h)
  BY <1>21, <1>0 DEF Turns, Deleting, Becomes
<1>22. CASE gcDone(h)
  BY <1>22, <1>0 DEF Turns, Finishes
<1>23. CASE revokeBlobs(h)
  BY <1>23, <1>0 DEF Turns, Revokes, Becomes
<1>24. CASE rewrapFails(h)
  BY <1>24, <1>0 DEF Turns, Gives, Becomes
<1>25. CASE CrashBlobs(h)
  BY <1>25, <1>0 DEF Turns, Dies
<1>26. CASE \E rotate \in BOOLEAN : captureEnvProfile(h, rotate)
  BY <1>26, <1>0 DEF Turns, Stays
<1>27. CASE CommitCapture(h)
  BY <1>27, <1>0 DEF Turns, Stays
<1>28. CASE ClearRotationForProject(h)
  BY <1>28, <1>0 DEF Turns, Stays
<1> QED
  BY <1>1, <1>2, <1>3, <1>4, <1>5, <1>6, <1>7, <1>8, <1>9, <1>10, <1>11, <1>12, <1>13, <1>14, <1>15, <1>16,
     <1>17, <1>18, <1>19, <1>20, <1>21, <1>22, <1>23, <1>24, <1>25, <1>26, <1>27, <1>28 DEF HostActs, SyncWork

\* What h still owes deletions for.
LEMMA DoomedMoves ==
    ASSUME NEW h \in Host, Sound(h), HostActs(h)
    PROVE  \/ UNCHANGED doomed
           \/ QueuePendingHubDelete(h) /\ doomed'[h] = doomed[h] \cup {job[h].old} /\ job[h].at = "queue"
           \/ \E r \in job[h].todo : drainPendingHubDelete(h, r) /\ doomed'[h] = doomed[h] \ {r}
<1>0. doomed \in [Host -> SUBSET Nat]
  BY DEF Sound, LocalTypes
<1>1. CASE QueuePendingHubDelete(h)
  BY <1>0, <1>1 DEF QueuePendingHubDelete
<1>2. ASSUME NEW r \in job[h].todo, drainPendingHubDelete(h, r)
      PROVE  UNCHANGED doomed \/ doomed'[h] = doomed[h] \ {r}
  BY <1>0, <1>2 DEF drainPendingHubDelete
<1> QED BY <1>1, <1>2, WritesDoomed

LEMMA ReplacedKept ==
    ASSUME NEW h \in Host, Sound(h), HostActs(h)
    PROVE  Replaced(h)'
<1>0. /\ job[h].at \in Wrapping => job[h].todo \subseteq Refs(Noticed(h))
      /\ job[h].at \in Claiming \cup Replacing => job[h].old \in Refs(Noticed(h)) /\ job[h].old # job[h].new
      /\ job[h].at = "repoint" => \A r \in rows[h] : r.ref = job[h].old =>
             (\E s \in rows[h] : envCoordLess(r, s)) /\ job[h].new \in Refs(Noticed(h))
      /\ job[h].at \in {"emit", "repoint"} => job[h].new \notin doomed[h]
      /\ job[h].at \in Replacing => job[h].old \notin Refs(rows[h])
      /\ doomed[h] \subseteq Refs(Noticed(h)) /\ doomed[h] \cap Refs(rows[h]) = {}
      /\ job[h].at = "drain" => job[h].todo \subseteq doomed[h]
  BY DEF Sound, Replaced
<1>1. /\ \A e \in Noticed(h) : e \in Noticed(h)'
      /\ \A ref : Naming(h, ref) => EventB(h, "blob", ref) \in Noticed(h)'
  BY NoticedAfter
<1>2. \A r \in Refs(Noticed(h)) : r \in Refs(Noticed(h)')
  BY <1>1, RefIn
<1>3. \A r \in Refs(Noticed(h)) : r \in 1..Len(made) /\ \A ref : Naming(h, ref) => ref # r
  <2> SUFFICES ASSUME NEW r \in Refs(Noticed(h)) PROVE r \in 1..Len(made) /\ \A ref : Naming(h, ref) => ref # r
    OBVIOUS
  <2>1. r \in 1..Len(made)
    BY MadeRefs DEF Sound
  <2>2. PICK e \in Noticed(h) : e.ref = r
    BY RefIn
  <2>3. PICK o \in Host : \E i \in BlobEvents(o) : e = told[o][i]
    BY <2>2, NoticedIs
  <2> QED BY <2>1, <2>2, <2>3, NamingFresh
<1>4. \A ref : Naming(h, ref) => EventB(h, "blob", ref).ref = ref
  BY NamingMakes
<1>5. Refs(rows[h]) \subseteq Refs(Noticed(h))
  BY RowsNamed DEF Refs
<1>6. Len(made) \in Nat
  BY MadeTyped
\* A ref the device has and no row names stays without a row, unless its host repoints rows to it.
<1>7. ASSUME NEW x \in Refs(Noticed(h)), x \notin Refs(rows[h]), UpdateBlobRef(h) => x # job[h].new
      PROVE  x \notin Refs(rows'[h])
  <2> SUFFICES ASSUME NEW r \in rows'[h], r.ref = x PROVE FALSE
    BY RefIn
  <2>1. CASE r \in rows[h]
    BY <1>7, <2>1, RefIn
  <2>2. CASE r \in Coming(h)
    BY <2>2, ComingNew
  <2>3. CASE \E ref : Naming(h, ref) /\ r = EventB(h, "blob", ref)
    BY <1>3, <1>4, <2>3
  <2>4. CASE UpdateBlobRef(h) /\ r.ref = job[h].new
    BY <1>7, <2>4
  <2> QED BY <2>1, <2>2, <2>3, <2>4, RowsFrom
<1>8. job'[h].at \in Wrapping => job'[h].todo \subseteq Refs(Noticed(h)')
  BY <1>0, <1>2, <1>5, WrapFrom
<1>9. job'[h].at \in Claiming \cup Replacing => job'[h].old \in Refs(Noticed(h)') /\ job'[h].old # job'[h].new
  <2>1. ASSUME NEW r \in job[h].todo, job[h].at = "rewrap", job'[h].old = r, job'[h].new = Len(made) + 1
        PROVE  job'[h].old \in Refs(Noticed(h)') /\ job'[h].old # job'[h].new
    <3>1. r \in Refs(Noticed(h))
      BY <1>0, <2>1, WrappingIs
    <3> QED BY <1>2, <1>3, <1>6, <2>1, <3>1
  <2> QED BY <1>0, <1>2, <2>1, OldFrom
<1>10. ASSUME job'[h].at = "repoint", NEW r \in rows'[h], r.ref = job'[h].old
       PROVE  (\E s \in rows'[h] : envCoordLess(r, s)) /\ job'[h].new \in Refs(Noticed(h)')
  <2>0. job'[h].at \in Claiming \cup Replacing /\ ~UpdateBlobRef(h)
    <3>1. UpdateBlobRef(h) => job'[h].at # "repoint"
      BY Turning DEF Turns, Repoints, Becomes, Sound
    <3> QED BY <1>10, <3>1, WrappingIs
  <2>1. PICK B \in Nat : /\ \A y \in rows[h] : Coord(B, y)
                         /\ \A y \in AllNaming : Coord(B, y)
                         /\ \A ref : Naming(h, ref) => Coord(B, EventB(h, "blob", ref))
    BY Ordered
  <2>2. \A s \in rows'[h] : Coord(B, s)
    <3>1. Coming(h) \subseteq AllNaming
      BY ComingIs DEF Sound
    <3> QED BY <2>0, <2>1, <3>1, RowsFrom
  <2>3. ASSUME r \in rows[h], NEW s, Coord(B, s), envCoordLess(r, s), s \in rows'[h] \/ \E t \in rows'[h] : envCoordLess(s, t)
        PROVE  \E t \in rows'[h] : envCoordLess(r, t)
    BY <2>1, <2>2, <2>3, Precedes
  <2>4. ASSUME NEW old \in job[h].todo, rewrapBlob(h, old), job[h].at = "rewrap", job'[h].old = old, old \notin Refs(rows[h])
        PROVE  FALSE
    <3>1. old \in Refs(Noticed(h))
      BY <1>0, <2>4, WrappingIs
    <3>2. old \notin Refs(rows'[h])
      BY <1>7, <2>0, <2>4, <3>1
    <3> QED BY <1>10, <2>4, <3>2, RefIn
  <2>5. CASE /\ job[h].at \in Claiming \cup Replacing /\ job'[h].old = job[h].old /\ job'[h].new = job[h].new
             /\ emitSuperseding(h) \/ job'[h] = job[h]
    <3>1. job[h].old \in Refs(Noticed(h)) /\ job[h].old # job[h].new
      BY <1>0, <2>5
    <3>2. r \in rows[h]
      <4>1. job[h].at # "idle"
        BY <2>5, WrappingIs
      <4>2. ~(SyncBlobs(h) \/ HubGC(h))
        BY <4>1, Turning, WrappingIs DEF Turns, Starts, Sound
      <4>3. \A ref : Naming(h, ref) => EventB(h, "blob", ref) # r
        BY <1>3, <1>4, <1>10, <2>5, <3>1
      <4> QED BY <2>0, <4>2, <4>3, RowsFrom
    <3>3. CASE emitSuperseding(h)
      <4> DEFINE e == EventB(h, "blob", job[h].new)
      <4>1. Naming(h, job[h].new)
        BY <3>3 DEF Naming
      <4>2. e \in Noticed(h)' /\ e.ref = job[h].new /\ Coord(B, e)
        BY <1>1, <1>4, <2>1, <4>1
      <4>3. envCoordLess(r, e)
        <5>1. e.hlc = StampB(h) /\ StampB(h) \in Nat
          BY <4>1, NamingMakes, StampAbove DEF Fresh, Sound
        <5>2. PICK n \in Noticed(h) : r.hlc = n.hlc
          BY <3>2 DEF Sound, RowsStand
        <5>3. PICK o \in Host : \E i \in Noted(h, o) : n = told[o][i]
          BY NoticedIs
        <5>3a. PICK i \in Noted(h, o) : n = told[o][i]
          BY <5>3
        <5>4. i \in 1..Len(told[o]) /\ (o # h => i \in 1..got[h][o])
          BY <5>3a, Placed DEF Noted, BlobEvents, Sound
        <5>5. n.hlc < StampB(h)
          BY <5>3a, <5>4, StampAbove DEF Sound
        <5> HIDE DEF e
        <5> QED BY <5>1, <5>2, <5>5 DEF envCoordLess
      <4>4. e \in rows'[h] \/ \E t \in rows'[h] : envCoordLess(e, t)
        BY <2>0, <4>1, RowsLater
      <4>5. job'[h].new \in Refs(Noticed(h)')
        BY <2>5, <4>2, RefIn
      <4> HIDE DEF e
      <4> QED BY <2>3, <3>2, <4>2, <4>3, <4>4, <4>5
    <3>4. CASE job'[h] = job[h]
      <4>1. PICK s \in rows[h] : envCoordLess(r, s)
        BY <1>0, <1>10, <3>2, <3>4
      <4>2. s \in rows'[h] \/ \E t \in rows'[h] : envCoordLess(s, t)
        BY <2>0, RowsLater
      <4>3. job[h].new \in Refs(Noticed(h))
        BY <1>0, <1>10, <3>2, <3>4
      <4> QED BY <1>2, <2>1, <2>3, <3>2, <3>4, <4>1, <4>2, <4>3
    <3> QED BY <2>5, <3>3, <3>4
  <2> QED BY <1>10, <2>0, <2>4, <2>5, OldFrom
<1>11. doomed'[h] \subseteq Refs(Noticed(h)) /\ \A x \in doomed'[h] : x \in doomed[h] \/ (QueuePendingHubDelete(h) /\ x = job[h].old /\ job[h].at = "queue")
  BY <1>0, DoomedMoves, WrappingIs
<1>12. job'[h].at \in {"emit", "repoint"} => job'[h].new \notin doomed'[h]
  <2> SUFFICES ASSUME job'[h].at \in {"emit", "repoint"} PROVE job'[h].new \notin doomed'[h]
    OBVIOUS
  <2>1. job'[h].at \in Claiming \cup Replacing
    BY WrappingIs
  <2>2. job'[h].new = Len(made) + 1 => job'[h].new \notin Refs(Noticed(h))
    BY <1>3, <1>6
  <2>3. CASE job[h].at \in {"emit", "repoint"} /\ job'[h].new = job[h].new
    BY <1>0, <1>11, <2>3
  <2> QED BY <1>11, <2>1, <2>2, <2>3, OldFrom
<1>13. job'[h].at \in Replacing => job'[h].old \notin Refs(rows'[h])
  <2> SUFFICES ASSUME job'[h].at \in Replacing PROVE job'[h].old \notin Refs(rows'[h])
    OBVIOUS
  <2>0. "emit" \notin Replacing /\ "repoint" \notin Replacing
    BY WrappingIs
  <2>1. /\ job[h].at \in Claiming \cup Replacing /\ job'[h].old = job[h].old
        /\ job[h].at \in Replacing \/ UpdateBlobRef(h)
    BY <2>0, OldFrom
  <2>2. job[h].old \in Refs(Noticed(h)) /\ job[h].old # job[h].new
    BY <1>0, <2>1
  <2>3. CASE job[h].at \in Replacing /\ ~UpdateBlobRef(h)
    BY <1>0, <1>7, <2>1, <2>2, <2>3
  <2>4. CASE UpdateBlobRef(h)
    <3> SUFFICES ASSUME NEW r \in rows'[h], r.ref = job[h].old PROVE FALSE
      BY <2>1, RefIn
    <3>1. ~(SyncBlobs(h) \/ HubGC(h))
      <4>1. job[h].at = "repoint"
        BY <2>4 DEF UpdateBlobRef
      <4> QED BY <4>1, Turning, WrappingIs DEF Turns, Starts, Sound
    <3>2. \A ref : Naming(h, ref) => EventB(h, "blob", ref) # r
      BY <1>3, <1>4, <2>2
    <3> QED BY <2>2, <2>4, <3>1, <3>2, RowsFrom
  <2> QED BY <2>1, <2>3, <2>4
<1>14. doomed'[h] \cap Refs(rows'[h]) = {}
  <2> SUFFICES ASSUME NEW x \in doomed'[h] PROVE x \notin Refs(rows'[h])
    OBVIOUS
  <2>1. x \in Refs(Noticed(h)) /\ x \notin Refs(rows[h])
    BY <1>0, <1>11, WrappingIs
  <2>2. UpdateBlobRef(h) => x # job[h].new
    <3>1. UpdateBlobRef(h) => job[h].at = "repoint"
      BY DEF UpdateBlobRef
    <3> QED BY <1>0, <1>11, <3>1
  <2> QED BY <1>7, <2>1, <2>2
<1>15. job'[h].at = "drain" => job'[h].todo \subseteq doomed'[h]
  <2> SUFFICES ASSUME job'[h].at = "drain" PROVE job'[h].todo \subseteq doomed'[h]
    OBVIOUS
  <2>1. CASE AdvancePushSeqCursor(h) /\ job'[h].todo = doomed[h]
    BY <2>1 DEF AdvancePushSeqCursor
  <2>2. ASSUME NEW r \in job[h].todo, drainPendingHubDelete(h, r), job[h].at = "drain", job'[h].todo = job[h].todo \ {r}
        PROVE  job'[h].todo \subseteq doomed'[h]
    <3>1. UNCHANGED doomed \/ doomed'[h] = doomed[h] \ {r}
      BY <2>2 DEF drainPendingHubDelete, Sound, LocalTypes
    <3> QED BY <1>0, <2>2, <3>1
  <2>3. CASE job[h].at = "drain" /\ job'[h] = job[h]
    <3>1. ASSUME NEW r \in job[h].todo, drainPendingHubDelete(h, r) PROVE FALSE
      <4>1. job'[h].todo = job[h].todo \ {r}
        BY <3>1, Turning DEF Turns, Drains, Becomes, Sound
      <4> QED BY <2>3, <3>1, <4>1
    <3>2. UNCHANGED doomed
      BY <2>3, <3>1, DoomedMoves
    <3> QED BY <1>0, <2>3, <3>2
  <2> QED BY <2>1, <2>2, <2>3, DrainFrom
<1>16. doomed'[h] \subseteq Refs(Noticed(h)')
  BY <1>2, <1>11
<1> QED BY <1>8, <1>9, <1>10, <1>12, <1>13, <1>14, <1>15, <1>16 DEF Replaced

LEMMA ReplacedEverywhere ==
    ASSUME BlobsHeld, NEW h \in Host, HostActs(h), NEW g \in Host
    PROVE  Replaced(g)'
<1>0. Sound(h) /\ Replaced(g)
  BY HeldSound DEF BlobsHeld
<1>1. CASE g # h
  <2>1. UNCHANGED <<rows[g], doomed[g], job[g]>>
    BY <1>0, <1>1, Others DEF Sound
  <2>2. Refs(Noticed(g)') = Refs(Noticed(g))
    <3>1. /\ \A e \in Noticed(g) : e \in Noticed(g)'
          /\ \A e \in Noticed(g)' : e \in Noticed(g)
      BY <1>0, <1>1, NoticedAfter
    <3> QED BY <3>1
  <2> QED BY <1>0, <2>1, <2>2 DEF Replaced
<1>2. CASE g = h
  BY <1>0, <1>2, ReplacedKept
<1> QED BY <1>1, <1>2

-----------------------------------------------------------------------------
(* What is still to be pushed is cached.                                   *)

LEMMA UnsentIs ==
    ASSUME EventTypes, NEW h \in Host
    PROVE  /\ \A e \in Unsent(h) : \E i \in (sent[h] + 1)..Len(told[h]) : i \in BlobEvents(h) /\ e = told[h][i]
           /\ \A i \in BlobEvents(h) : i > sent[h] => told[h][i] \in Unsent(h)
           /\ Unsent(h) \subseteq Noticed(h)
<1>0. sent[h] \in Nat /\ Len(told[h]) \in Nat
  BY Placed
<1>1. \A i \in (sent[h] + 1)..Len(told[h]) : i \in 1..Len(told[h])
  BY <1>0
<1>2. \A e \in Unsent(h) : \E i \in (sent[h] + 1)..Len(told[h]) : told[h][i].type = "blob" /\ e = told[h][i]
  BY DEF Unsent
<1>3. \A i \in (sent[h] + 1)..Len(told[h]) : told[h][i].type = "blob" => told[h][i] \in Unsent(h)
  BY DEF Unsent
<1>4. \A i \in BlobEvents(h) : i > sent[h] => i \in (sent[h] + 1)..Len(told[h]) /\ told[h][i].type = "blob"
  BY <1>0 DEF BlobEvents
<1>5. \A i \in (sent[h] + 1)..Len(told[h]) : told[h][i].type = "blob" => i \in BlobEvents(h) /\ i \in Noted(h, h)
  BY <1>1 DEF BlobEvents, Noted
<1>6. Unsent(h) \subseteq Noticed(h)
  BY <1>2, <1>5, NoticedIs
<1> QED BY <1>2, <1>3, <1>4, <1>5, <1>6

LEMMA UnsentAfter ==
    ASSUME NEW h \in Host, Sound(h), HostActs(h), NEW e \in Unsent(h)'
    PROVE  e \in Unsent(h) \/ \E ref : Naming(h, ref) /\ e = EventB(h, "blob", ref)
<1>0. sent[h] \in Nat /\ sent'[h] \in Nat /\ sent[h] <= sent'[h]
  BY WritesSent, Advances, Placed DEF Sound
<1>1. \E i \in (sent'[h] + 1)..Len(told'[h]) : told'[h][i].type = "blob" /\ e = told'[h][i]
  BY DEF Unsent
<1>2. PICK i \in (sent'[h] + 1)..Len(told'[h]) : told'[h][i].type = "blob" /\ e = told'[h][i]
  BY <1>1
<1>3. Len(told'[h]) \in Nat
  BY TypesKept, ToldTyped DEF Sound
<1>4. i \in 1..Len(told'[h]) /\ i > sent[h]
  BY <1>0, <1>2, <1>3
<1>5. i \in BlobEvents(h)'
  BY <1>2, <1>4 DEF BlobEvents
<1>6. \/ i \in BlobEvents(h) /\ told'[h][i] = told[h][i]
      \/ \E ref : Naming(h, ref) /\ told'[h][i] = EventB(h, "blob", ref)
  BY <1>5, EventsAfter
<1> QED BY <1>2, <1>4, <1>6, UnsentIs DEF Sound

LEMMA RacedGrows == ASSUME NEW h \in Host, HostActs(h) PROVE raced \subseteq raced'
  BY WritesRaced DEF gcUnreferencedBlobs, gcDelete

\* Only the collector takes something from the cache, and only in its windows
\* something that is needed.
LEMMA CacheKeeps ==
    ASSUME NEW h \in Host, Sound(h), HostActs(h), NEW r \in cache[h] \cup raced,
           gcUnreferencedBlobs(h) /\ r \in cache[h] \ job[h].base => r \in CaptureWindow(h) \cup Superseded(h)
    PROVE  r \in cache'[h] \cup raced'
<1>0. cache \in [Host -> SUBSET Nat]
  BY DEF Sound, LocalTypes
<1>1. CASE r \in raced
  BY <1>1, RacedGrows
<1>2. CASE gcUnreferencedBlobs(h) /\ r \in cache[h]
  <2>1. /\ cache' = [cache EXCEPT ![h] = @ \cap job[h].base]
        /\ raced' = raced \cup ((cache[h] \ job[h].base) \cap (CaptureWindow(h) \cup Superseded(h)))
    BY <1>2 DEF gcUnreferencedBlobs
  <2>2. cache'[h] = cache[h] \cap job[h].base
    BY <1>0, <2>1
  <2> QED BY <1>2, <2>1, <2>2
<1>3. CASE ~gcUnreferencedBlobs(h) /\ r \in cache[h]
  <2>1. UNCHANGED cache \/ \E S : cache' = [cache EXCEPT ![h] = S] /\ cache[h] \subseteq S
    <3>1. pullReferencedBlobs(h) => \E S : cache' = [cache EXCEPT ![h] = S] /\ cache[h] \subseteq S
      BY ZenonT(30) DEF pullReferencedBlobs
    <3>2. ASSUME NEW n, cache' = [cache EXCEPT ![h] = @ \cup {n}] PROVE \E S : cache' = [cache EXCEPT ![h] = S] /\ cache[h] \subseteq S
      <4>1. cache' = [cache EXCEPT ![h] = cache[h] \cup {n}] /\ cache[h] \subseteq cache[h] \cup {n}
        BY <3>2
      <4> QED BY <4>1
    <3>3. \A x \in job[h].todo : rewrapBlob(h, x) => UNCHANGED cache \/ \E n : cache' = [cache EXCEPT ![h] = @ \cup {n}]
      BY DEF rewrapBlob
    <3>4. \A rotate \in BOOLEAN : captureEnvProfile(h, rotate) => \E n : cache' = [cache EXCEPT ![h] = @ \cup {n}]
      BY DEF captureEnvProfile
    <3> QED BY <1>3, <3>1, <3>2, <3>3, <3>4, WritesCache
  <2> QED BY <1>0, <1>3, <2>1
<1> QED BY <1>1, <1>2, <1>3

LEMMA CachedKept ==
    ASSUME BlobsHeld, NEW h \in Host, HostActs(h), NEW g \in Host
    PROVE  Cached(g)'
<1>0. Sound(h) /\ Cached(g)
  BY HeldSound DEF BlobsHeld
<1>1. CASE g # h
  <2>1. UNCHANGED <<told[g], sent[g], cache[g], job[g], hand[g]>> /\ raced \subseteq raced'
    BY <1>0, <1>1, Others, RacedGrows DEF Sound
  <2>2. UNCHANGED Unsent(g)
    BY <2>1 DEF Unsent
  <2> QED BY <1>0, <2>1, <2>2 DEF Cached
<1>2. CASE g = h
  <2>0. /\ hand[h].at = "written" => hand[h].ref \in cache[h] \cup raced
        /\ job[h].at = "emit" => job[h].new \in cache[h] \cup raced
        /\ \A e \in Unsent(h) : e.ref \in cache[h] \cup raced
    BY <1>0, <1>2 DEF Cached
  <2>1. ASSUME NEW r \in cache[h] \cup raced, ~gcUnreferencedBlobs(h) PROVE r \in cache'[h] \cup raced'
    BY <1>0, <2>1, CacheKeeps
  <2>2. hand'[h].at = "written" => hand'[h].ref \in cache'[h] \cup raced'
    <3> SUFFICES ASSUME hand'[h].at = "written" PROVE hand'[h].ref \in cache'[h] \cup raced'
      OBVIOUS
    <3>1. CASE hand[h].at = "written" /\ hand'[h].ref = hand[h].ref
      <4>1. hand[h].ref \in CaptureWindow(h)
        BY DEF CaptureWindow
      <4> QED BY <1>0, <2>0, <3>1, <4>1, CacheKeeps
    <3> QED BY <1>0, <3>1, HandFrom
  <2>3. job'[h].at = "emit" => job'[h].new \in cache'[h] \cup raced'
    <3> SUFFICES ASSUME job'[h].at = "emit" PROVE job'[h].new \in cache'[h] \cup raced'
      OBVIOUS
    <3>1. ~gcUnreferencedBlobs(h)
      BY <1>0, Turning, WrappingIs DEF Turns, Reaps, Sound
    <3>2. job'[h].at \in Claiming
      BY WrappingIs
    <3>3. CASE job'[h] = job[h]
      BY <2>0, <2>1, <3>1, <3>3
    <3> QED BY <1>0, <3>2, <3>3, ClaimFrom
  <2>4. ASSUME NEW e \in Unsent(h)' PROVE e.ref \in cache'[h] \cup raced'
    <3>1. CASE e \in Unsent(h)
      <4>1. e \in Noticed(h)
        BY <1>0, <3>1, UnsentIs DEF Sound
      <4>2. ASSUME gcUnreferencedBlobs(h), e.ref \in cache[h] \ job[h].base
            PROVE  e.ref \in CaptureWindow(h) \cup Superseded(h)
        <5>1. CASE e \in rows[h]
          BY <4>2, <5>1, RefIn DEF CaptureWindow
        <5>2. CASE \E r \in rows[h] : envCoordLess(e, r)
          <6>1. \E i \in (sent[h] + 1)..Len(told[h]) : i \in BlobEvents(h) /\ e = told[h][i]
            BY <1>0, <3>1, UnsentIs DEF Sound
          <6>2. e \in {told[h][i] : i \in {i \in (sent[h] + 1)..Len(told[h]) : \E r \in rows[h] : envCoordLess(told[h][i], r)}}
            BY <5>2, <6>1
          <6> QED BY <6>2 DEF Superseded
        <5> QED BY <1>0, <4>1, <5>1, <5>2 DEF Sound, RowsStand
      <4> QED BY <1>0, <2>0, <3>1, <4>2, CacheKeeps
    <3>2. ASSUME NEW ref, Naming(h, ref), e = EventB(h, "blob", ref) PROVE e.ref \in cache'[h] \cup raced'
      <4>1. e.ref = ref
        BY <1>0, <3>2, NamingMakes
      <4>2. ref \in cache[h] \cup raced
        BY <2>0, <3>2 DEF Naming, emitSuperseding, CommitCapture
      <4>3. UNCHANGED <<cache, raced>>
        BY <3>2, NamingLeaves
      <4> QED BY <4>1, <4>2, <4>3
    <3> QED BY <1>0, <3>1, <3>2, UnsentAfter
  <2> QED BY <1>2, <2>2, <2>3, <2>4 DEF Cached
<1> QED BY <1>1, <1>2

-----------------------------------------------------------------------------
(* Old ciphertext is remembered.                                           *)

LEMMA OldCiphertextKept ==
    ASSUME BlobsHeld, NEW h \in Host, HostActs(h)
    PROVE  OldCiphertextRemembered'
<1>0. Sound(h) /\ queued \cap DOMAIN blobs \subseteq UNION {doomed[g] : g \in Host} /\ doomed \in [Host -> SUBSET Nat]
  BY HeldSound DEF BlobsHeld, OldCiphertextRemembered, Sound, LocalTypes
<1> SUFFICES ASSUME NEW x \in queued', x \in DOMAIN blobs' PROVE \E g \in Host : x \in doomed'[g]
  BY DEF OldCiphertextRemembered
<1>1. ASSUME x \in queued, x \in DOMAIN blobs, \A r \in job[h].todo : drainPendingHubDelete(h, r) => UNCHANGED doomed \/ x # r
      PROVE  \E g \in Host : x \in doomed'[g]
  <2>1. PICK g \in Host : x \in doomed[g]
    BY <1>0, <1>1
  <2>2. CASE g # h
    BY <1>0, <2>1, <2>2, Others DEF Sound
  <2>3. CASE g = h
    BY <1>0, <1>1, <2>1, <2>3, DoomedMoves
  <2> QED BY <2>2, <2>3
<1>2. CASE QueuePendingHubDelete(h)
  <2>1. /\ doomed' = [doomed EXCEPT ![h] = @ \cup {job[h].old}] /\ queued' = queued \cup {job[h].old}
        /\ UNCHANGED blobs
    BY <1>2 DEF QueuePendingHubDelete
  <2>2. CASE x = job[h].old
    BY <1>0, <2>1, <2>2
  <2>3. CASE x \in queued
    <3>1. PICK g \in Host : x \in doomed[g]
      BY <1>0, <2>1, <2>3
    <3> QED BY <1>0, <2>1, <3>1
  <2> QED BY <2>1, <2>2, <2>3
<1>3. ASSUME NEW r \in job[h].todo, drainPendingHubDelete(h, r) PROVE \E g \in Host : x \in doomed'[g]
  <2>1. r \notin Refs(rows[h])
    <3>1. job[h].at = "drain"
      BY <1>3 DEF drainPendingHubDelete
    <3>2. r \in doomed[h] /\ doomed[h] \cap Refs(rows[h]) = {}
      BY <1>0, <3>1 DEF Sound, Replaced
    <3> QED BY <3>2
  <2>2. \/ DeleteBlob(r) /\ doomed' = [doomed EXCEPT ![h] = @ \ {r}]
        \/ UNCHANGED <<blobs, queued, doomed>>
    BY <1>3, <2>1 DEF drainPendingHubDelete
  <2>3. CASE UNCHANGED <<blobs, queued, doomed>>
    BY <1>0, <2>3
  <2>4. CASE DeleteBlob(r) /\ doomed' = [doomed EXCEPT ![h] = @ \ {r}]
    <3>1. x \in queued /\ x \in DOMAIN blobs /\ x # r
      BY <2>4, Deletes
    <3>2. PICK g \in Host : x \in doomed[g]
      BY <1>0, <3>1
    <3> QED BY <1>0, <2>4, <3>1, <3>2
  <2> QED BY <2>2, <2>3, <2>4
<1>4. ASSUME NEW S, PutBlobs(S), ~QueuePendingHubDelete(h), \A r \in job[h].todo : ~drainPendingHubDelete(h, r)
      PROVE  \E g \in Host : x \in doomed'[g]
  <2>1. x \in queued /\ x \in DOMAIN blobs
    BY <1>4, Puts
  <2> QED BY <1>1, <1>4, <2>1
<1>5. ASSUME UNCHANGED queued, DOMAIN blobs' \subseteq DOMAIN blobs, \A r \in job[h].todo : ~drainPendingHubDelete(h, r)
      PROVE  \E g \in Host : x \in doomed'[g]
  BY <1>1, <1>5
<1>6. CASE ~QueuePendingHubDelete(h) /\ \A r \in job[h].todo : ~drainPendingHubDelete(h, r)
  <2>1. CASE rewrapPut(h)
    BY <1>4, <1>6, <2>1 DEF rewrapPut
  <2>2. CASE pushReferencedBlobs(h)
    <3>1. PutBlobs(ToPush(h)) \/ UNCHANGED <<blobs, queued>>
      BY <2>2 DEF pushReferencedBlobs
    <3> QED BY <1>4, <1>5, <1>6, <3>1
  <2>3. CASE ~rewrapPut(h) /\ ~pushReferencedBlobs(h)
    <3>1. UNCHANGED queued
      BY <1>6, <2>3, WritesQueued
    <3>2. DOMAIN blobs' \subseteq DOMAIN blobs
      <4>1. UNCHANGED blobs \/ DeletesOld(h) \/ Sweeps(h)
        BY <1>0, <2>3, HubMoves DEF PutsOwn, Sound
      <4>2. \A r : DeleteBlob(r) => DOMAIN blobs' \subseteq DOMAIN blobs
        BY DEF DeleteBlob
      <4> QED BY <4>1, <4>2 DEF DeletesOld, Sweeps
    <3> QED BY <1>5, <1>6, <3>1, <3>2
  <2> QED BY <2>1, <2>2, <2>3
<1> QED BY <1>2, <1>3, <1>6

-----------------------------------------------------------------------------
(* Exposed values are flagged.                                             *)

LEMMA RowsStay ==
    ASSUME NEW h \in Host, Sound(h), HostActs(h), rows[h] # {}
    PROVE  rows'[h] # {}
<1>1. CASE UpdateBlobRef(h)
  <2>1. rows' = [rows EXCEPT ![h] = Repointed(h)] /\ rows \in [Host -> SUBSET BlobEvent]
    BY <1>1 DEF UpdateBlobRef, Repointed, Sound, LocalTypes
  <2>2. Repointed(h) # {}
    BY DEF Repointed
  <2> QED BY <2>1, <2>2
<1>2. CASE ~UpdateBlobRef(h)
  BY <1>2, RowsLater
<1> QED BY <1>1, <1>2

LEMMA FlaggedKept ==
    ASSUME BlobsHeld, NEW h \in Host, HostActs(h), NEW g \in Host
    PROVE  Flagged(g)'
<1>0. /\ Sound(h) /\ Flagged(g) /\ UNCHANGED budget.kind
      /\ flag \in [Host -> BOOLEAN] /\ contains \in [Host -> BOOLEAN] /\ valued \in [Host -> SUBSET Nat]
  BY HeldSound, BudgetTyped DEF BlobsHeld, Sound, LocalTypes
<1>1. CASE g # h
  <2>1. UNCHANGED <<rows[g], flag[g], contains[g], job[g], valued[g]>>
    BY <1>0, <1>1, Others DEF Sound
  <2> QED BY <1>0, <2>1 DEF Flagged
<1>2. CASE g = h
  <2> SUFFICES ASSUME budget.kind = "env", valued'[h] # {}
               PROVE  rows'[h] # {} /\ (~contains'[h] \/ job'[h].at \in Wrapping => flag'[h])
    BY <1>0, <1>2 DEF Flagged
  <2>0. valued[h] # {} => rows[h] # {} /\ (~contains[h] \/ job[h].at \in Wrapping => flag[h])
    BY <1>0, <1>2 DEF Flagged
  <2>1. CASE SyncBlobs(h) \/ HubGC(h)
    <3>1. /\ flag' = [flag EXCEPT ![h] = IF Revoking(h) = {} THEN flag[h] ELSE budget.kind = "env" /\ RowsThen(h) # {}]
          /\ valued' = [valued EXCEPT ![h] = IF Revoking(h) = {} THEN valued[h] ELSE {made[r.ref].value : r \in RowsThen(h)}]
          /\ UNCHANGED contains
      BY <2>1, PullDoes DEF Pulls
    <3>2. job'[h].at \notin Wrapping
      BY <1>0, <2>1, Turning, WrappingIs DEF Turns, Starts, Sound
    <3>3. CASE Revoking(h) = {}
      <4>1. flag'[h] = flag[h] /\ valued'[h] = valued[h]
        BY <1>0, <3>1, <3>3
      <4> QED BY <1>0, <2>0, <3>1, <3>2, <4>1, RowsStay
    <3>4. CASE Revoking(h) # {}
      <4>1. flag'[h] = (RowsThen(h) # {}) /\ valued'[h] = {made[r.ref].value : r \in RowsThen(h)}
        BY <1>0, <3>1, <3>4
      <4>2. PICK x : x \in RowsThen(h)
        BY <4>1
      <4>3. x \in rows[h] \/ x \in Coming(h)
        BY <4>2 DEF RowsThen, RecordAll, LatestDraftSnapshot
      <4>4. ~UpdateBlobRef(h)
        <5>1. SyncBlobs(h) \/ HubGC(h) => job[h].at = "idle"
          BY <1>0, Turning, WrappingIs DEF Turns, Starts, Sound
        <5> QED BY <2>1, <5>1 DEF UpdateBlobRef
      <4>5. rows'[h] # {}
        BY <1>0, <2>1, <4>3, <4>4, RowsLater
      <4> QED BY <4>1, <4>2, <4>5
    <3> QED BY <3>3, <3>4
  <2>2. CASE revokeBlobs(h)
    <3>1. /\ contains' = [contains EXCEPT ![h] = TRUE] /\ UNCHANGED rows
          /\ valued' = [valued EXCEPT ![h] = {made[r.ref].value : r \in rows[h]}]
      BY <2>2 DEF revokeBlobs
    <3>2. job'[h].at \notin Wrapping
      BY <1>0, <2>2, Turning, WrappingIs DEF Turns, Revokes, Sound
    <3>3. contains'[h] = TRUE /\ valued'[h] = {made[r.ref].value : r \in rows[h]}
      BY <1>0, <3>1
    <3> QED BY <3>1, <3>2, <3>3
  <2>3. CASE MarkEncryptedBindingsNeedingRotation(h)
    <3>1. flag' = [flag EXCEPT ![h] = budget.kind = "env" /\ rows[h] # {}] /\ UNCHANGED <<rows, valued>>
      BY <2>3 DEF MarkEncryptedBindingsNeedingRotation, history
    <3>2. flag'[h] = (rows[h] # {})
      BY <1>0, <3>1
    <3> QED BY <2>0, <3>1, <3>2
  <2>4. CASE ClearRotationForProject(h)
    <3>1. valued'[h] = {}
      BY <1>0, <2>4 DEF ClearRotationForProject
    <3> QED BY <3>1
  <2>5. CASE ~(SyncBlobs(h) \/ HubGC(h)) /\ ~revokeBlobs(h) /\ ~MarkEncryptedBindingsNeedingRotation(h) /\ ~ClearRotationForProject(h)
    <3>1. UNCHANGED valued
      BY <2>5, WritesValued
    <3>2. UNCHANGED flag
      <4>1. emitSuperseding(h) \/ CommitCapture(h) => \E ref : Naming(h, ref)
        BY DEF Naming
      <4>2. \A ref : Naming(h, ref) => UNCHANGED flag
        BY <1>0, NamingMakes DEF Names
      <4> QED BY <2>5, <4>1, <4>2, WritesFlag
    <3>3. rows[h] # {} /\ rows'[h] # {} /\ (~contains[h] \/ job[h].at \in Wrapping => flag[h])
      BY <1>0, <2>0, <3>1, RowsStay
    <3>4. job'[h].at \in Wrapping => job[h].at \in Wrapping
      BY <1>0, <2>5, WrapFrom
    <3>5. contains'[h] = contains[h] \/ job[h].at \in Wrapping
      <4>1. clearContainment(h) => job[h].at \in Wrapping
        BY WrappingIs DEF clearContainment
      <4> QED BY <2>5, <4>1, WritesContains
    <3> QED BY <3>2, <3>3, <3>4, <3>5
  <2> QED BY <2>1, <2>2, <2>3, <2>4, <2>5
<1> QED BY <1>1, <1>2

-----------------------------------------------------------------------------
(* What a step does to the hub: publications and blobs.                    *)

\* What is newly published is an event of the host that acts, whose blob it put
\* there before.
LEMMA PublishedAfter ==
    ASSUME NEW h \in Host, Sound(h), HostActs(h)
    PROVE  /\ \A e \in Published : e \in Published'
           /\ \A e \in Published' : \/ e \in Published
                                    \/ e \in AllNaming /\ e.ref \in Pushing(h) /\ UNCHANGED <<blobs, raced>>
<1>0. /\ \A o \in Host : stored[o] \subseteq stored'[o]
      /\ \A o \in Host : \A i \in 1..Len(told[o]) : told'[o][i] = told[o][i]
      /\ \A o \in Host : \A i \in stored[o] : i \in 1..Len(told[o])
  BY StoredGrows, ToldTyped, Placed DEF Lasting, Sound
<1>1. /\ \A e \in Published' : \E o \in Host : \E i \in stored'[o] : e = told'[o][i] /\ e.type = "blob"
      /\ \A o \in Host : \A i \in stored'[o] : told'[o][i].type = "blob" => told'[o][i] \in Published'
  BY DEF Published
<1>2. \A e \in Published : e \in Published'
  BY <1>0, <1>1, PublishedIs
<1>3. ASSUME NEW e \in Published', e \notin Published
      PROVE  e \in AllNaming /\ e.ref \in Pushing(h) /\ UNCHANGED <<blobs, raced>>
  <2>1. PICK o \in Host : \E i \in stored'[o] : e = told'[o][i] /\ e.type = "blob"
    BY <1>1
  <2>2. PICK i \in stored'[o] : e = told'[o][i] /\ e.type = "blob"
    BY <2>1
  <2>3. stored \in [Host -> SUBSET Nat]
    BY DEF Sound, EventTypes
  <2>4. i \notin stored[o]
    BY <1>0, <1>3, <2>2, PublishedIs
  <2>5. rewrapPush(h) \/ PushNaming(h)
    BY <2>2, <2>4, WritesStored
  <2>6. UNCHANGED <<told, blobs, raced>>
    BY <2>5 DEF rewrapPush, PushNaming, localvars, history
  <2>7. CASE rewrapPush(h)
    <3>1. stored' = [stored EXCEPT ![h] = @ \cup OwnNaming(h, job[h].new)] /\ job[h].at = "publish"
      BY <2>7 DEF rewrapPush
    <3>2. o = h /\ i \in OwnNaming(h, job[h].new)
      BY <2>2, <2>3, <2>4, <3>1
    <3>3. i \in BlobEvents(h) /\ e = told[h][i] /\ e.ref = job[h].new
      BY <2>2, <2>6, <3>2 DEF OwnNaming, BlobEvents
    <3>4. e.ref \in Pushing(h)
      BY <3>1, <3>3 DEF Pushing
    <3> QED BY <2>6, <3>3, <3>4, NoticedIs
  <2>8. CASE PushNaming(h)
    <3>1. stored' = [stored EXCEPT ![h] = @ \cup job[h].events] /\ job[h].at = "push"
      BY <2>8 DEF PushNaming
    <3>2. o = h /\ i \in job[h].events
      BY <2>2, <2>3, <2>4, <3>1
    <3>3. i \in 1..Len(told[h]) /\ e = told[h][i] /\ e.ref \in ToPush(h)
      BY <2>2, <2>6, <3>1, <3>2, ReadyIn, PushedIn DEF Sound
    <3>4. i \in BlobEvents(h) /\ e.ref \in Pushing(h)
      BY <2>2, <3>1, <3>3 DEF BlobEvents, Pushing
    <3> QED BY <2>6, <3>3, <3>4, NoticedIs
  <2> QED BY <2>5, <2>7, <2>8
<1> QED BY <1>2, <1>3

\* A deletion takes what the device noticed and no row of it names.
LEMMA DeletedOld ==
    ASSUME NEW h \in Host, Sound(h), DeletesOld(h)
    PROVE  /\ \E r \in Refs(Noticed(h)) \ Refs(rows[h]) : DeleteBlob(r)
           /\ UNCHANGED <<rows, raced>> /\ job[h].at \in {"unlink", "drain"}
<1>1. CASE rewrapDelete(h) /\ job[h].old \notin Refs(rows[h]) /\ DeleteBlob(job[h].old)
  <2>1. job[h].at = "unlink" /\ UNCHANGED <<rows, raced>>
    BY <1>1 DEF rewrapDelete, localvars, history
  <2>2. job[h].old \in Refs(Noticed(h))
    BY <2>1, WrappingIs DEF Replaced, Sound
  <2> QED BY <1>1, <2>1, <2>2
<1>2. ASSUME NEW r \in job[h].todo, drainPendingHubDelete(h, r), r \notin Refs(rows[h]), DeleteBlob(r)
      PROVE  /\ \E x \in Refs(Noticed(h)) \ Refs(rows[h]) : DeleteBlob(x)
             /\ UNCHANGED <<rows, raced>> /\ job[h].at \in {"unlink", "drain"}
  <2>1. job[h].at = "drain" /\ UNCHANGED <<rows, raced>>
    BY <1>2 DEF drainPendingHubDelete, localvars, history
  <2>2. r \in Refs(Noticed(h))
    BY <1>2, <2>1 DEF Replaced, Sound
  <2> QED BY <1>2, <2>1, <2>2
<1> QED BY <1>1, <1>2 DEF DeletesOld

\* A blob that is lost was deleted: by its host, which had it, or by hub gc, for
\* which it was too old.  What is put is young.
LEMMA HubAfter ==
    ASSUME NEW h \in Host, Sound(h), ViewWhole(h), HostActs(h)
    PROVE  /\ \A r \in DOMAIN blobs' : (r \in DOMAIN blobs /\ blobs'[r] = blobs[r]) \/ blobs'[r] = tick
           /\ \A r \in DOMAIN blobs \cup raced :
                 \/ r \in DOMAIN blobs' \cup raced'
                 \/ DeletesOld(h) /\ r \in Refs(Noticed(h)) \ Refs(rows[h])
                 \/ Sweeps(h) /\ job[h].at = "delete" /\ r = job[h].old /\ r \in DOMAIN blobs /\ blobs[r] < job[h].now
           /\ \A r : Young(r) => Young(r)'
<1>0. raced \subseteq raced' /\ UNCHANGED tick
  BY RacedGrows, WritesTick
<1>2. ASSUME NEW S, PutBlobs(S)
      PROVE  /\ \A r \in DOMAIN blobs' : (r \in DOMAIN blobs /\ blobs'[r] = blobs[r]) \/ blobs'[r] = tick
             /\ DOMAIN blobs \subseteq DOMAIN blobs'
  BY <1>2, Puts
<1>3. ASSUME NEW x, DeleteBlob(x)
      PROVE  /\ \A r \in DOMAIN blobs' : r \in DOMAIN blobs /\ blobs'[r] = blobs[r]
             /\ \A r \in DOMAIN blobs : r \in DOMAIN blobs' \/ r = x
  BY <1>3, Deletes
<1> DEFINE Times == \A r \in DOMAIN blobs' : (r \in DOMAIN blobs /\ blobs'[r] = blobs[r]) \/ blobs'[r] = tick
           Lost(r) == \/ r \in DOMAIN blobs' \cup raced'
                      \/ DeletesOld(h) /\ r \in Refs(Noticed(h)) \ Refs(rows[h])
                      \/ Sweeps(h) /\ job[h].at = "delete" /\ r = job[h].old /\ r \in DOMAIN blobs /\ blobs[r] < job[h].now
           Losses == \A r \in DOMAIN blobs \cup raced : Lost(r)
<1>a. Times => \A r : Young(r) => Young(r)'
  BY <1>0 DEF Young
<1> SUFFICES Times /\ Losses
  BY <1>a
<1>4. CASE UNCHANGED blobs
  BY <1>0, <1>4
<1>5. CASE PutsOwn(h)
  <2>1. PICK S : PutBlobs(S)
    BY <1>5 DEF PutsOwn
  <2> QED BY <1>0, <1>2, <2>1
<1>6. CASE DeletesOld(h)
  <2>1. PICK x \in Refs(Noticed(h)) \ Refs(rows[h]) : DeleteBlob(x)
    BY <1>6, DeletedOld
  <2> QED BY <1>0, <1>3, <1>6, <2>1
<1>7. CASE Sweeps(h)
  <2>1. /\ job[h].at = "delete" /\ DeleteBlob(job[h].old)
        /\ raced' = raced \cup {r \in {job[h].old} \cap DOMAIN blobs : blobs[r] \notin job[h].base}
    BY <1>7 DEF Sweeps, gcDelete
  <2>2. \A t \in job[h].base : t < job[h].now
    BY <2>1 DEF ViewWhole
  <2>3. /\ \A r \in DOMAIN blobs' : r \in DOMAIN blobs /\ blobs'[r] = blobs[r]
        /\ \A r \in DOMAIN blobs : r \in DOMAIN blobs' \/ r = job[h].old
    BY <1>3, <2>1
  <2>4. job[h].old \in DOMAIN blobs => job[h].old \in raced' \/ blobs[job[h].old] \in job[h].base
    BY <2>1
  <2>5. \A r \in DOMAIN blobs : Lost(r)
    BY <1>7, <2>1, <2>2, <2>3, <2>4
  <2> QED BY <1>0, <2>3, <2>5
<1> QED BY <1>4, <1>5, <1>6, <1>7, HubMoves DEF Sound

\* An event the device has and no row names is followed by a later one.
LEMMA OffRows ==
    ASSUME NEW h \in Host, Sound(h), HostActs(h), NEW e \in Noticed(h)', e.ref \notin Refs(rows'[h])
    PROVE  Succeeded(e)'
<1>1. /\ \A r \in rows'[h] : \E n \in Noticed(h)' : r.hlc = n.hlc /\ r.dev = n.dev
      /\ \A n \in Noticed(h)' : n \in rows'[h] \/ \E r \in rows'[h] : envCoordLess(n, r)
  BY RowsStandKept DEF RowsStand
<1>2. e \notin rows'[h]
  BY RefIn
<1>3. PICK r \in rows'[h] : envCoordLess(e, r)
  BY <1>1, <1>2
<1>4. PICK n \in Noticed(h)' : r.hlc = n.hlc /\ r.dev = n.dev
  BY <1>1
<1>5. envCoordLess(e, n)
  BY <1>3, <1>4 DEF envCoordLess
<1>6. n \in AllNaming'
  <2>1. \A o \in Host : Noted(h, o)' \subseteq BlobEvents(o)'
    BY DEF Noted
  <2> QED BY <1>4, <2>1 DEF Noticed, AllNaming
<1> QED BY <1>5, <1>6 DEF Succeeded

\* The later event stays.
LEMMA SucceededStays ==
    ASSUME NEW h \in Host, Sound(h), HostActs(h), NEW e, Succeeded(e)
    PROVE  Succeeded(e)'
<1>1. \A n \in AllNaming : n \in AllNaming'
  BY NoticedAfter
<1>2. PICK n \in AllNaming : envCoordLess(e, n)
  BY DEF Succeeded
<1>3. n \in AllNaming' /\ envCoordLess(e, n)
  BY <1>1, <1>2
<1> QED BY <1>3 DEF Succeeded

\* What a device pushes is named by itself only.
LEMMA PushesOwn ==
    ASSUME NEW g \in Host, EventTypes, NamedOnce, EventsReady(g), Rewrapped(g),
           NEW o \in Host, NEW i \in BlobEvents(o), told[o][i].ref \in Pushing(g)
    PROVE  o = g
<1>1. CASE job[g].at = "push"
  <2>1. told[o][i].ref \in ToPush(g)
    BY <1>1 DEF Pushing
  <2>2. PICK j \in job[g].events : j \in BlobEvents(g) /\ told[o][i].ref = told[g][j].ref
    BY <1>1, <2>1, PushedIn
  <2> QED BY <2>2 DEF NamedOnce
<1>2. CASE job[g].at = "publish"
  <2>1. told[o][i].ref = job[g].new
    BY <1>2 DEF Pushing
  <2> QED BY <1>2, <2>1, WrappingIs DEF Rewrapped
<1> QED BY <1>1, <1>2 DEF Pushing

-----------------------------------------------------------------------------
(* A published blob is there, or has a successor.                          *)

LEMMA PushFrom ==
    ASSUME NEW h \in Host, Sound(h), HostActs(h), job'[h].at \in {"push", "publish"}
    PROVE  \/ job[h].at = job'[h].at /\ job'[h].events = job[h].events /\ job'[h].new = job[h].new
           \/ pushReferencedBlobs(h) /\ job[h].at = "put" /\ job'[h].at = "push" /\ PutBlobs(ToPush(h)) /\ job'[h].events = job[h].events
           \/ rewrapPut(h) /\ job'[h].at = "publish" /\ job'[h].new = job[h].new
<1> DEFINE Goal == \/ job'[h].at \notin {"push", "publish"}
                   \/ job[h].at = job'[h].at /\ job'[h].events = job[h].events /\ job'[h].new = job[h].new
                   \/ pushReferencedBlobs(h) /\ job[h].at = "put" /\ job'[h].at = "push" /\ PutBlobs(ToPush(h)) /\ job'[h].events = job[h].events
                   \/ rewrapPut(h) /\ job'[h].at = "publish" /\ job'[h].new = job[h].new
<1> SUFFICES Goal
  OBVIOUS
<1>0. Turns(h) /\ NoJob.at = "idle"
  BY Turning, WrappingIs DEF Sound

<1>1. CASE SyncBlobs(h) \/ HubGC(h)
  BY <1>1, <1>0 DEF Turns, Starts, Becomes
<1>2. CASE pullReferencedBlobs(h)
  BY <1>2, <1>0 DEF Turns, Fetches, Becomes
<1>3. CASE resumeContainment(h)
  BY <1>3, <1>0 DEF Turns, Resumes, Becomes
<1>4. CASE MarkEncryptedBindingsNeedingRotation(h)
  BY <1>4, <1>0 DEF Turns, Marks, Becomes
<1>5. CASE \E r \in job[h].todo : rewrapBlob(h, r)
  BY <1>5, <1>0 DEF Turns, Wraps, Becomes
<1>6. CASE \E r \in job[h].todo : drainPendingHubDelete(h, r)
  BY <1>6, <1>0 DEF Turns, Drains, Becomes
<1>7. CASE \E r \in job[h].todo : gcStat(h, r)
  BY <1>7, <1>0 DEF Turns, Looks, Becomes
<1>8. CASE emitSuperseding(h)
  BY <1>8, <1>0 DEF Turns, Emits, Becomes
<1>9. CASE UpdateBlobRef(h)
  BY <1>9, <1>0 DEF Turns, Repoints, Becomes
<1>10. CASE rewrapPut(h)
  BY <1>10, <1>0 DEF Turns, Putting, Becomes
<1>11. CASE rewrapPush(h)
  BY <1>11, <1>0 DEF Turns, Publishes, Becomes
<1>12. CASE rewrapDelete(h)
  BY <1>12, <1>0 DEF Turns, Unlinks, Becomes
<1>13. CASE QueuePendingHubDelete(h)
  BY <1>13, <1>0 DEF Turns, Queues, Becomes
<1>14. CASE clearContainment(h)
  BY <1>14, <1>0 DEF Turns, Clears, Becomes
<1>15. CASE pushReferencedBlobs(h)
  BY <1>15, <1>0 DEF Turns, Admits, Becomes
<1>16. CASE PushNaming(h)
  BY <1>16, <1>0 DEF Turns, Pushes, Becomes
<1>17. CASE AdvancePushSeqCursor(h)
  BY <1>17, <1>0 DEF Turns, Watermarks, Becomes
<1>18. CASE BlobRefCount(h)
  BY <1>18, <1>0 DEF Turns, Counts, Becomes
<1>19. CASE gcUnreferencedBlobs(h)
  BY <1>19, <1>0 DEF Turns, Reaps
<1>20. CASE gcMark(h)
  BY <1>20, <1>0 DEF Turns, Listing, Becomes
<1>21. CASE gcDelete(h)
  BY <1>21, <1>0 DEF Turns, Deleting, Becomes
<1>22. CASE gcDone(h)
  BY <1>22, <1>0 DEF Turns, Finishes
<1>23. CASE revokeBlobs(h)
  BY <1>23, <1>0 DEF Turns, Revokes, Becomes
<1>24. CASE rewrapFails(h)
  BY <1>24, <1>0 DEF Turns, Gives, Becomes
<1>25. CASE CrashBlobs(h)
  BY <1>25, <1>0 DEF Turns, Dies
<1>26. CASE \E rotate \in BOOLEAN : captureEnvProfile(h, rotate)
  BY <1>26, <1>0 DEF Turns, Stays
<1>27. CASE CommitCapture(h)
  BY <1>27, <1>0 DEF Turns, Stays
<1>28. CASE ClearRotationForProject(h)
  BY <1>28, <1>0 DEF Turns, Stays
<1> QED
  BY <1>1, <1>2, <1>3, <1>4, <1>5, <1>6, <1>7, <1>8, <1>9, <1>10, <1>11, <1>12, <1>13, <1>14, <1>15, <1>16,
     <1>17, <1>18, <1>19, <1>20, <1>21, <1>22, <1>23, <1>24, <1>25, <1>26, <1>27, <1>28 DEF HostActs, SyncWork

LEMMA Placing == ASSUME NEW S, PutBlobs(S), NEW r \in S PROVE r \in DOMAIN blobs' /\ blobs'[r] = tick
  BY DEF PutBlobs

\* What a device is pushing it was pushing, or has just put on the hub.
LEMMA PushingFrom ==
    ASSUME BlobsHeld, NEW h \in Host, HostActs(h), NEW g \in Host, NEW r \in Pushing(g)'
    PROVE  r \in Pushing(g) \/ (g = h /\ r \in DOMAIN blobs' /\ blobs'[r] = tick)
<1>0. Sound(h) /\ EventTypes /\ EventsReady(g)
  BY HeldSound DEF BlobsHeld
<1>1. CASE g # h
  <2>1. UNCHANGED <<told[g], job[g]>>
    BY <1>0, <1>1, Others DEF Sound
  <2>2. Pushing(g)' = Pushing(g)
    BY <2>1 DEF Pushing, ToPush
  <2> QED BY <2>2
<1>2. CASE g = h /\ job'[h].at = "push"
  <2>1. /\ job'[h].events = job[h].events /\ job[h].at \in {"put", "push"}
        /\ job[h].at = "push" \/ PutBlobs(ToPush(h))
    BY <1>0, <1>2, PushFrom
  <2>2. \A i \in job[h].events : told'[h][i] = told[h][i]
    BY <1>0, <1>2, <2>1, ReadyIn, ToldTyped DEF Lasting, Sound
  <2>3. Pushing(h)' = {told'[h][i].ref : i \in {i \in job'[h].events : told'[h][i].type = "blob"}}
    BY <1>2 DEF Pushing, ToPush
  <2>4. r \in ToPush(h)
    BY <1>2, <2>1, <2>2, <2>3 DEF ToPush
  <2>5. ASSUME PutBlobs(ToPush(h)) PROVE r \in DOMAIN blobs' /\ blobs'[r] = tick
    BY <2>4, <2>5, Placing
  <2>6. job[h].at = "push" => r \in Pushing(h)
    BY <2>4 DEF Pushing
  <2> QED BY <1>2, <2>1, <2>5, <2>6
<1>3. CASE g = h /\ job'[h].at = "publish"
  <2>1. Pushing(h)' = {job'[h].new}
    BY <1>3 DEF Pushing
  <2>2. job'[h].new = job[h].new /\ (job[h].at = "publish" \/ rewrapPut(h))
    BY <1>0, <1>3, PushFrom
  <2>3. rewrapPut(h) => PutBlobs({job[h].new})
    BY DEF rewrapPut
  <2> DEFINE new == {job[h].new}
  <2>4. r \in new
    BY <1>3, <2>1, <2>2
  <2> HIDE DEF new
  <2>5. ASSUME PutBlobs(new) PROVE r \in DOMAIN blobs' /\ blobs'[r] = tick
    BY <2>4, <2>5, Placing
  <2>6. job[h].at = "publish" => r \in Pushing(h)
    BY <2>4 DEF Pushing, new
  <2> QED BY <1>3, <2>2, <2>3, <2>5, <2>6 DEF new
<1> QED BY <1>1, <1>2, <1>3 DEF Pushing

\* A device that deletes what it noticed and does not push itself deletes nothing
\* that is being pushed and not published yet.
LEMMA NoticedPushed ==
    ASSUME BlobsHeld, NEW h \in Host, NEW g \in Host \ {h}, NEW r \in Pushing(g), r \in Refs(Noticed(h))
    PROVE  r \in Refs(Published)
<1>0. EventTypes /\ NamedOnce /\ EventsReady(g) /\ Rewrapped(g)
  BY DEF BlobsHeld
<1>1. PICK e \in Noticed(h) : e.ref = r
  BY RefIn
<1>2. PICK o \in Host : \E i \in Noted(h, o) : e = told[o][i]
  BY NoticedIs
<1>3. PICK i \in Noted(h, o) : e = told[o][i]
  BY <1>2
<1>4. i \in BlobEvents(o)
  BY NoticedIs
<1>5. o = g
  BY <1>0, <1>1, <1>3, <1>4, PushesOwn
<1>6. i <= got[h][g] /\ i \in 1..Len(told[g]) /\ told[g][i].type = "blob"
  BY <1>5 DEF Noted, BlobEvents
<1>7. i \in stored[g]
  BY <1>0, <1>6, Placed
<1>8. e \in Published
  BY <1>3, <1>5, <1>6, <1>7, PublishedIs
<1> QED BY <1>1, <1>8, RefIn

LEMMA PushedWholeKept ==
    ASSUME BlobsHeld, NEW h \in Host, HostActs(h), NEW g \in Host
    PROVE  PushedWhole(g)'
<1>0. Sound(h) /\ PushedWhole(g) /\ ViewWhole(h) /\ HubTypes
  BY HeldSound DEF BlobsHeld
<1>1. /\ \A r \in DOMAIN blobs \cup raced :
            \/ r \in DOMAIN blobs' \cup raced'
            \/ DeletesOld(h) /\ r \in Refs(Noticed(h)) \ Refs(rows[h])
            \/ Sweeps(h) /\ job[h].at = "delete" /\ r = job[h].old /\ r \in DOMAIN blobs /\ blobs[r] < job[h].now
      /\ \A r : Young(r) => Young(r)'
  BY <1>0, HubAfter
<1>2. UNCHANGED tick
  BY WritesTick
<1>3. \A r \in Refs(Published) : r \in Refs(Published')
  BY <1>0, PublishedAfter, RefIn
<1> SUFFICES ASSUME NEW r \in Pushing(g)'
             PROVE  r \in Refs(Published') \/ (r \in DOMAIN blobs' \cup raced' /\ Young(r)')
  BY DEF PushedWhole
<1>4. CASE r \in DOMAIN blobs' /\ blobs'[r] = tick
  BY <1>2, <1>4 DEF Young
<1>5. CASE r \in Pushing(g)
  <2>1. r \in Refs(Published) \/ (r \in DOMAIN blobs \cup raced /\ Young(r))
    BY <1>0, <1>5 DEF PushedWhole
  <2>2. CASE r \in Refs(Published)
    BY <1>3, <2>2
  <2>3. CASE r \in DOMAIN blobs \cup raced /\ Young(r)
    <3>1. CASE DeletesOld(h) /\ r \in Refs(Noticed(h))
      <4>1. job[h].at \in {"unlink", "drain"}
        BY <1>0, <3>1, DeletedOld
      <4>2. g # h
        BY <1>5, <4>1 DEF Pushing
      <4> QED BY <1>3, <1>5, <3>1, <4>2, NoticedPushed
    <3>2. ~(r \in DOMAIN blobs /\ blobs[r] < job[h].now)
      <4>1. job[h].now <= tick /\ tick \in Nat /\ job[h].now \in Nat
        BY <1>0 DEF HubTypes, Job
      <4> QED BY <2>3, <4>1 DEF Young
    <3> QED BY <1>1, <2>3, <3>1, <3>2
  <2> QED BY <2>1, <2>2, <2>3
<1> QED BY <1>4, <1>5, PushingFrom

LEMMA PublishedStays ==
    ASSUME BlobsHeld, NEW h \in Host, HostActs(h)
    PROVE  PublishedKept'
<1>0. Sound(h) /\ PushedWhole(h) /\ ViewWhole(h) /\ PublishedKept /\ EventTypes /\ NamedOnce
  BY HeldSound DEF BlobsHeld
<1>1. Published \subseteq AllNaming /\ Noticed(h) \subseteq AllNaming
  BY <1>0, PublishedNamed, NoticedIs
<1>2. ASSUME NEW e \in Published
      PROVE  e.ref \in DOMAIN blobs' \cup raced' \/ Succeeded(e)'
  <2>1. CASE Succeeded(e)
    BY <1>0, <2>1, SucceededStays
  <2>2. CASE DeletesOld(h) /\ e.ref \in Refs(Noticed(h)) \ Refs(rows[h])
    <3>1. PICK f \in Noticed(h) : f.ref = e.ref
      BY <2>2, RefIn
    <3>2. f = e
      BY <1>0, <1>1, <3>1, OneName
    <3>3. e \in Noticed(h)'
      BY <1>0, <3>2, NoticedAfter
    <3>4. UNCHANGED rows
      BY <1>0, <2>2, DeletedOld
    <3> QED BY <1>0, <2>2, <3>3, <3>4, OffRows
  <2>3. CASE Sweeps(h) /\ job[h].at = "delete" /\ e.ref = job[h].old /\ e.ref \in DOMAIN blobs /\ blobs[e.ref] < job[h].now
    <3>1. Succeeded(e) \/ e.ref \notin DOMAIN blobs \/ blobs[e.ref] >= job[h].now
      BY <1>0, <2>3 DEF ViewWhole
    <3>2. blobs[e.ref] \in Nat /\ job[h].now \in Nat
      BY <1>0, <2>3 DEF HubTypes, Job, Sound
    <3> QED BY <2>1, <2>3, <3>1, <3>2
  <2> QED BY <1>0, <2>1, <2>2, <2>3, HubAfter DEF PublishedKept
<1>3. ASSUME NEW e \in Published', e \notin Published
      PROVE  e.ref \in DOMAIN blobs' \cup raced' \/ Succeeded(e)'
  <2>1. e \in AllNaming /\ e.ref \in Pushing(h) /\ UNCHANGED <<blobs, raced>>
    BY <1>0, <1>3, PublishedAfter
  <2>2. e.ref \notin Refs(Published)
    <3> SUFFICES ASSUME NEW f \in Published, f.ref = e.ref PROVE FALSE
      BY RefIn
    <3> QED BY <1>0, <1>1, <1>3, <2>1, OneName
  <2> QED BY <1>0, <2>1, <2>2 DEF PushedWhole
<1> QED BY <1>2, <1>3 DEF PublishedKept

-----------------------------------------------------------------------------
(* Hub gc deletes nothing that is needed.                                  *)

\* A hub gc between its pull and its listing, and the refs it may still delete.
Viewing(j) == j.at = "gate" \/ (j.at = "fetch" /\ j.cmd = "gc")
Sweeping(j) == j.todo \cup (IF j.at = "delete" THEN {j.old} ELSE {})

LEMMA ViewFrom ==
    ASSUME NEW h \in Host, Sound(h), HostActs(h), Viewing(job'[h])
    PROVE  \/ Starts(h) /\ (SyncBlobs(h) \/ HubGC(h))
           \/ Viewing(job[h]) /\ job'[h].whole = job[h].whole
<1> DEFINE Goal == \/ ~Viewing(job'[h])
                   \/ Starts(h) /\ (SyncBlobs(h) \/ HubGC(h))
                   \/ Viewing(job[h]) /\ job'[h].whole = job[h].whole
<1> SUFFICES Goal
  OBVIOUS
<1>0. /\ Turns(h) /\ NoJob.at = "idle"
      /\ Wrapping = {"rewrap", "emit", "repoint", "putnew", "publish", "unlink", "queue"}
  BY Turning, WrappingIs DEF Sound

<1>1. CASE SyncBlobs(h) \/ HubGC(h)
  BY <1>1, <1>0 DEF Turns, Starts, Becomes, Viewing
<1>2. CASE pullReferencedBlobs(h)
  BY <1>2, <1>0 DEF Turns, Fetches, Becomes, Viewing
<1>3. CASE resumeContainment(h)
  BY <1>3, <1>0 DEF Turns, Resumes, Becomes, Viewing
<1>4. CASE MarkEncryptedBindingsNeedingRotation(h)
  BY <1>4, <1>0 DEF Turns, Marks, Becomes, Viewing
<1>5. CASE \E r \in job[h].todo : rewrapBlob(h, r)
  BY <1>5, <1>0 DEF Turns, Wraps, Becomes, Viewing
<1>6. CASE \E r \in job[h].todo : drainPendingHubDelete(h, r)
  BY <1>6, <1>0 DEF Turns, Drains, Becomes, Viewing
<1>7. CASE \E r \in job[h].todo : gcStat(h, r)
  BY <1>7, <1>0 DEF Turns, Looks, Becomes, Viewing
<1>8. CASE emitSuperseding(h)
  BY <1>8, <1>0 DEF Turns, Emits, Becomes, Viewing
<1>9. CASE UpdateBlobRef(h)
  BY <1>9, <1>0 DEF Turns, Repoints, Becomes, Viewing
<1>10. CASE rewrapPut(h)
  BY <1>10, <1>0 DEF Turns, Putting, Becomes, Viewing
<1>11. CASE rewrapPush(h)
  BY <1>11, <1>0 DEF Turns, Publishes, Becomes, Viewing
<1>12. CASE rewrapDelete(h)
  BY <1>12, <1>0 DEF Turns, Unlinks, Becomes, Viewing
<1>13. CASE QueuePendingHubDelete(h)
  BY <1>13, <1>0 DEF Turns, Queues, Becomes, Viewing
<1>14. CASE clearContainment(h)
  BY <1>14, <1>0 DEF Turns, Clears, Becomes, Viewing
<1>15. CASE pushReferencedBlobs(h)
  BY <1>15, <1>0 DEF Turns, Admits, Becomes, Viewing
<1>16. CASE PushNaming(h)
  BY <1>16, <1>0 DEF Turns, Pushes, Becomes, Viewing
<1>17. CASE AdvancePushSeqCursor(h)
  BY <1>17, <1>0 DEF Turns, Watermarks, Becomes, Viewing
<1>18. CASE BlobRefCount(h)
  BY <1>18, <1>0 DEF Turns, Counts, Becomes, Viewing
<1>19. CASE gcUnreferencedBlobs(h)
  BY <1>19, <1>0 DEF Turns, Reaps, Viewing
<1>20. CASE gcMark(h)
  BY <1>20, <1>0 DEF Turns, Listing, Becomes, Viewing
<1>21. CASE gcDelete(h)
  BY <1>21, <1>0 DEF Turns, Deleting, Becomes, Viewing
<1>22. CASE gcDone(h)
  BY <1>22, <1>0 DEF Turns, Finishes, Viewing
<1>23. CASE revokeBlobs(h)
  BY <1>23, <1>0 DEF Turns, Revokes, Becomes, Viewing
<1>24. CASE rewrapFails(h)
  BY <1>24, <1>0 DEF Turns, Gives, Becomes, Viewing
<1>25. CASE CrashBlobs(h)
  BY <1>25, <1>0 DEF Turns, Dies, Viewing
<1>26. CASE \E rotate \in BOOLEAN : captureEnvProfile(h, rotate)
  BY <1>26, <1>0 DEF Turns, Stays, Viewing
<1>27. CASE CommitCapture(h)
  BY <1>27, <1>0 DEF Turns, Stays, Viewing
<1>28. CASE ClearRotationForProject(h)
  BY <1>28, <1>0 DEF Turns, Stays, Viewing
<1> QED
  BY <1>1, <1>2, <1>3, <1>4, <1>5, <1>6, <1>7, <1>8, <1>9, <1>10, <1>11, <1>12, <1>13, <1>14, <1>15, <1>16,
     <1>17, <1>18, <1>19, <1>20, <1>21, <1>22, <1>23, <1>24, <1>25, <1>26, <1>27, <1>28 DEF HostActs, SyncWork

LEMMA SweepFrom ==
    ASSUME NEW h \in Host, Sound(h), HostActs(h), job'[h].at \in {"sweep", "delete"}
    PROVE  \/ gcMark(h) /\ Listing(h) /\ job'[h].at = "sweep"
           \/ /\ job[h].at \in {"sweep", "delete"} /\ job'[h].now = job[h].now
              /\ \A r \in Sweeping(job'[h]) : r \in Sweeping(job[h])
<1> DEFINE Goal == \/ job'[h].at \notin {"sweep", "delete"}
                   \/ gcMark(h) /\ Listing(h) /\ job'[h].at = "sweep"
                   \/ /\ job[h].at \in {"sweep", "delete"} /\ job'[h].now = job[h].now
                      /\ \A r \in Sweeping(job'[h]) : r \in Sweeping(job[h])
<1> SUFFICES Goal
  OBVIOUS
<1>0. Turns(h) /\ NoJob.at = "idle"
  BY Turning, WrappingIs DEF Sound

<1>1. CASE SyncBlobs(h) \/ HubGC(h)
  BY <1>1, <1>0 DEF Turns, Starts, Becomes, Sweeping
<1>2. CASE pullReferencedBlobs(h)
  BY <1>2, <1>0 DEF Turns, Fetches, Becomes, Sweeping
<1>3. CASE resumeContainment(h)
  BY <1>3, <1>0 DEF Turns, Resumes, Becomes, Sweeping
<1>4. CASE MarkEncryptedBindingsNeedingRotation(h)
  BY <1>4, <1>0 DEF Turns, Marks, Becomes, Sweeping
<1>5. CASE \E r \in job[h].todo : rewrapBlob(h, r)
  BY <1>5, <1>0 DEF Turns, Wraps, Becomes, Sweeping
<1>6. CASE \E r \in job[h].todo : drainPendingHubDelete(h, r)
  BY <1>6, <1>0 DEF Turns, Drains, Becomes, Sweeping
<1>7. CASE \E r \in job[h].todo : gcStat(h, r)
  BY <1>7, <1>0 DEF Turns, Looks, Becomes, Sweeping
<1>8. CASE emitSuperseding(h)
  BY <1>8, <1>0 DEF Turns, Emits, Becomes, Sweeping
<1>9. CASE UpdateBlobRef(h)
  BY <1>9, <1>0 DEF Turns, Repoints, Becomes, Sweeping
<1>10. CASE rewrapPut(h)
  BY <1>10, <1>0 DEF Turns, Putting, Becomes, Sweeping
<1>11. CASE rewrapPush(h)
  BY <1>11, <1>0 DEF Turns, Publishes, Becomes, Sweeping
<1>12. CASE rewrapDelete(h)
  BY <1>12, <1>0 DEF Turns, Unlinks, Becomes, Sweeping
<1>13. CASE QueuePendingHubDelete(h)
  BY <1>13, <1>0 DEF Turns, Queues, Becomes, Sweeping
<1>14. CASE clearContainment(h)
  BY <1>14, <1>0 DEF Turns, Clears, Becomes, Sweeping
<1>15. CASE pushReferencedBlobs(h)
  BY <1>15, <1>0 DEF Turns, Admits, Becomes, Sweeping
<1>16. CASE PushNaming(h)
  BY <1>16, <1>0 DEF Turns, Pushes, Becomes, Sweeping
<1>17. CASE AdvancePushSeqCursor(h)
  BY <1>17, <1>0 DEF Turns, Watermarks, Becomes, Sweeping
<1>18. CASE BlobRefCount(h)
  BY <1>18, <1>0 DEF Turns, Counts, Becomes, Sweeping
<1>19. CASE gcUnreferencedBlobs(h)
  BY <1>19, <1>0 DEF Turns, Reaps, Sweeping
<1>20. CASE gcMark(h)
  BY <1>20, <1>0 DEF Turns, Listing, Becomes, Sweeping
<1>21. CASE gcDelete(h)
  BY <1>21, <1>0 DEF Turns, Deleting, Becomes, Sweeping
<1>22. CASE gcDone(h)
  BY <1>22, <1>0 DEF Turns, Finishes, Sweeping
<1>23. CASE revokeBlobs(h)
  BY <1>23, <1>0 DEF Turns, Revokes, Becomes, Sweeping
<1>24. CASE rewrapFails(h)
  BY <1>24, <1>0 DEF Turns, Gives, Becomes, Sweeping
<1>25. CASE CrashBlobs(h)
  BY <1>25, <1>0 DEF Turns, Dies, Sweeping
<1>26. CASE \E rotate \in BOOLEAN : captureEnvProfile(h, rotate)
  BY <1>26, <1>0 DEF Turns, Stays, Sweeping
<1>27. CASE CommitCapture(h)
  BY <1>27, <1>0 DEF Turns, Stays, Sweeping
<1>28. CASE ClearRotationForProject(h)
  BY <1>28, <1>0 DEF Turns, Stays, Sweeping
<1> QED
  BY <1>1, <1>2, <1>3, <1>4, <1>5, <1>6, <1>7, <1>8, <1>9, <1>10, <1>11, <1>12, <1>13, <1>14, <1>15, <1>16,
     <1>17, <1>18, <1>19, <1>20, <1>21, <1>22, <1>23, <1>24, <1>25, <1>26, <1>27, <1>28 DEF HostActs, SyncWork

\* What is about to be deleted was looked at and is older than the listing.
LEMMA LookedAt ==
    ASSUME NEW h \in Host, Sound(h), HostActs(h), job'[h].at = "delete"
    PROVE  \/ job[h].at = "delete" /\ job'[h].base = job[h].base /\ job'[h].now = job[h].now
           \/ \A t \in job'[h].base : t < job'[h].now
<1> DEFINE Goal == \/ job'[h].at # "delete"
                   \/ job[h].at = "delete" /\ job'[h].base = job[h].base /\ job'[h].now = job[h].now
                   \/ \A t \in job'[h].base : t < job'[h].now
<1> SUFFICES Goal
  OBVIOUS
<1>0. Turns(h) /\ NoJob.at = "idle"
  BY Turning, WrappingIs DEF Sound
<1>a. ASSUME NEW r \in job[h].todo, gcStat(h, r) PROVE Goal
  <2>1. /\ job'[h].at = IF StillOld(h, r) THEN "delete" ELSE "sweep"
        /\ job'[h].base = {blobs[s] : s \in {r} \cap DOMAIN blobs} /\ job'[h].now = job[h].now
    BY <1>0, <1>a DEF Turns, Looks, Becomes
  <2>2. CASE StillOld(h, r)
    <3>1. blobs[r] \in Nat /\ job[h].now \in Nat /\ Grace \in Nat \ {0} /\ job[h].now - blobs[r] >= Grace
      BY <2>2, BlobAssumption DEF StillOld, Sound, HubTypes, Job
    <3>2. blobs[r] < job[h].now
      BY <3>1
    <3> QED BY <2>1, <3>2
  <2>3. CASE ~StillOld(h, r)
    <3>1. job'[h].at # "delete"
      BY <2>1, <2>3
    <3> QED BY <3>1
  <2> QED BY <2>2, <2>3

<1>1. CASE SyncBlobs(h) \/ HubGC(h)
  BY <1>1, <1>0 DEF Turns, Starts, Becomes
<1>2. CASE pullReferencedBlobs(h)
  BY <1>2, <1>0 DEF Turns, Fetches, Becomes
<1>3. CASE resumeContainment(h)
  BY <1>3, <1>0 DEF Turns, Resumes, Becomes
<1>4. CASE MarkEncryptedBindingsNeedingRotation(h)
  BY <1>4, <1>0 DEF Turns, Marks, Becomes
<1>5. CASE \E r \in job[h].todo : rewrapBlob(h, r)
  BY <1>5, <1>0 DEF Turns, Wraps, Becomes
<1>6. CASE \E r \in job[h].todo : drainPendingHubDelete(h, r)
  BY <1>6, <1>0 DEF Turns, Drains, Becomes
<1>7. CASE \E r \in job[h].todo : gcStat(h, r)
  BY <1>7, <1>a
<1>8. CASE emitSuperseding(h)
  BY <1>8, <1>0 DEF Turns, Emits, Becomes
<1>9. CASE UpdateBlobRef(h)
  BY <1>9, <1>0 DEF Turns, Repoints, Becomes
<1>10. CASE rewrapPut(h)
  BY <1>10, <1>0 DEF Turns, Putting, Becomes
<1>11. CASE rewrapPush(h)
  BY <1>11, <1>0 DEF Turns, Publishes, Becomes
<1>12. CASE rewrapDelete(h)
  BY <1>12, <1>0 DEF Turns, Unlinks, Becomes
<1>13. CASE QueuePendingHubDelete(h)
  BY <1>13, <1>0 DEF Turns, Queues, Becomes
<1>14. CASE clearContainment(h)
  BY <1>14, <1>0 DEF Turns, Clears, Becomes
<1>15. CASE pushReferencedBlobs(h)
  BY <1>15, <1>0 DEF Turns, Admits, Becomes
<1>16. CASE PushNaming(h)
  BY <1>16, <1>0 DEF Turns, Pushes, Becomes
<1>17. CASE AdvancePushSeqCursor(h)
  BY <1>17, <1>0 DEF Turns, Watermarks, Becomes
<1>18. CASE BlobRefCount(h)
  BY <1>18, <1>0 DEF Turns, Counts, Becomes
<1>19. CASE gcUnreferencedBlobs(h)
  BY <1>19, <1>0 DEF Turns, Reaps
<1>20. CASE gcMark(h)
  BY <1>20, <1>0 DEF Turns, Listing, Becomes
<1>21. CASE gcDelete(h)
  BY <1>21, <1>0 DEF Turns, Deleting, Becomes
<1>22. CASE gcDone(h)
  BY <1>22, <1>0 DEF Turns, Finishes
<1>23. CASE revokeBlobs(h)
  BY <1>23, <1>0 DEF Turns, Revokes, Becomes
<1>24. CASE rewrapFails(h)
  BY <1>24, <1>0 DEF Turns, Gives, Becomes
<1>25. CASE CrashBlobs(h)
  BY <1>25, <1>0 DEF Turns, Dies
<1>26. CASE \E rotate \in BOOLEAN : captureEnvProfile(h, rotate)
  BY <1>26, <1>0 DEF Turns, Stays
<1>27. CASE CommitCapture(h)
  BY <1>27, <1>0 DEF Turns, Stays
<1>28. CASE ClearRotationForProject(h)
  BY <1>28, <1>0 DEF Turns, Stays
<1> QED
  BY <1>1, <1>2, <1>3, <1>4, <1>5, <1>6, <1>7, <1>8, <1>9, <1>10, <1>11, <1>12, <1>13, <1>14, <1>15, <1>16,
     <1>17, <1>18, <1>19, <1>20, <1>21, <1>22, <1>23, <1>24, <1>25, <1>26, <1>27, <1>28 DEF HostActs, SyncWork

\* A pull that finds nothing missing has all that is published.
LEMMA WholeView ==
    ASSUME NEW h \in Host, Sound(h), HostActs(h), SyncBlobs(h) \/ HubGC(h), Starts(h), job'[h].whole, NEW e \in Published
    PROVE  e \in Noticed(h)'
<1>1. PICK o \in Host : \E i \in stored[o] : e = told[o][i] /\ e.type = "blob"
  BY PublishedIs
<1>2. PICK i \in stored[o] : e = told[o][i] /\ e.type = "blob"
  BY <1>1
<1>3. i \in 1..Len(told[o]) /\ i \in BlobEvents(o)
  BY <1>2, Placed DEF Sound, BlobEvents
<1>4. CASE i \in Noted(h, o)
  BY <1>2, <1>4, NoticedIs, NoticedAfter
<1>5. CASE i \notin Noted(h, o)
  <2>1. o # h /\ ~(i <= got[h][o])
    BY <1>3, <1>5 DEF Noted
  <2>2. i \in 1..Reach(o)
    BY <1>2, <2>1 DEF Starts
  <2>3. got[h][o] \in Nat /\ Reach(o) \in Nat /\ i \in Nat
    BY <1>3, <2>1, ReachOf, Placed DEF Sound
  <2>4. i \in (got[h][o] + 1)..Reach(o)
    BY <2>1, <2>2, <2>3
  <2>5. e \in Coming(h)
    BY <1>2, <2>1, <2>4, ComingIs DEF Coming, Sound
  <2> QED BY <2>5, ComingNoticed
<1> QED BY <1>4, <1>5

\* A listing takes no blob of a published event without a successor.
LEMMA ListedSucceeded ==
    ASSUME BlobsHeld, NEW h \in Host, HostActs(h), gcMark(h), Listing(h), job'[h].at = "sweep",
           NEW e \in Published, e.ref \in job'[h].todo
    PROVE  Succeeded(e)'
<1>0. Sound(h) /\ ViewWhole(h) /\ HubTypes
  BY HeldSound DEF BlobsHeld
<1>1. /\ job[h].at = "gate" /\ job[h].whole
      /\ job'[h].todo = {r \in DOMAIN blobs \ Refs(rows'[h]) : tick - blobs[r] >= Grace}
  BY WrappingIs DEF Listing, Becomes
<1>2. e.ref \in DOMAIN blobs /\ e.ref \notin Refs(rows'[h]) /\ tick - blobs[e.ref] >= Grace
  BY <1>1
<1>3. ~Young(e.ref)
  BY <1>0, <1>2, BlobAssumption DEF Young, HubTypes
<1>4. e \in Noticed(h)
  BY <1>0, <1>1, <1>3 DEF ViewWhole
<1>5. e \in Noticed(h)'
  BY <1>0, <1>4, NoticedAfter
<1> QED BY <1>0, <1>2, <1>5, OffRows

LEMMA ViewWholeKept ==
    ASSUME BlobsHeld, NEW h \in Host, HostActs(h), NEW g \in Host
    PROVE  ViewWhole(g)'
<1>0. Sound(h) /\ PushedWhole(h) /\ ViewWhole(h) /\ ViewWhole(g) /\ HubTypes /\ EventTypes /\ NamedOnce
  BY HeldSound DEF BlobsHeld
<1>1. /\ \A r \in DOMAIN blobs' : (r \in DOMAIN blobs /\ blobs'[r] = blobs[r]) \/ blobs'[r] = tick
      /\ \A r : Young(r) => Young(r)'
  BY <1>0, HubAfter
<1>2. g # h => UNCHANGED job[g]
  BY <1>0, Others DEF Sound
<1>3. UNCHANGED tick /\ tick \in Nat
  BY <1>0, WritesTick DEF HubTypes
\* What is newly published is young.
<1>4. ASSUME NEW e \in Published', e \notin Published PROVE Young(e.ref)
  <2>1. e \in AllNaming /\ e.ref \in Pushing(h)
    BY <1>0, <1>4, PublishedAfter
  <2>2. e.ref \notin Refs(Published)
    <3> SUFFICES ASSUME NEW f \in Published, f.ref = e.ref PROVE FALSE
      BY RefIn
    <3> QED BY <1>0, <1>4, <2>1, OneName, PublishedNamed
  <2> QED BY <1>0, <2>1, <2>2 DEF PushedWhole
<1>5. ASSUME Viewing(job'[g]), job'[g].whole, NEW e \in Published', e \notin Noticed(g)'
      PROVE  Young(e.ref)'
  <2>1. e \notin Noticed(g)
    BY <1>0, <1>5, NoticedAfter
  <2>2. CASE e \notin Published
    BY <1>1, <1>4, <2>2
  <2>3. CASE e \in Published /\ Viewing(job[g]) /\ job[g].whole
    <3>1. Young(e.ref)
      BY <1>0, <2>1, <2>3 DEF ViewWhole, Viewing
    <3> QED BY <1>1, <3>1
  <2>4. CASE e \in Published /\ g = h /\ Starts(h) /\ (SyncBlobs(h) \/ HubGC(h))
    BY <1>0, <1>5, <2>4, WholeView
  <2> QED BY <1>0, <1>2, <1>5, <2>2, <2>3, <2>4, ViewFrom
<1>6. ASSUME job'[g].at \in {"sweep", "delete"}, NEW r \in Sweeping(job'[g]), NEW e \in Published', e.ref = r
      PROVE  Succeeded(e)' \/ r \notin DOMAIN blobs' \/ blobs'[r] >= job'[g].now
  <2>1. job'[g] \in Job /\ job'[g].now <= tick /\ job'[g].now \in Nat
    BY <1>0, <1>3, HubTypesKept DEF HubTypes, Job
  <2>2. CASE e \notin Published
    <3>1. Young(e.ref)'
      BY <1>1, <1>4, <2>2
    <3> QED BY <1>3, <1>6, <2>1, <3>1 DEF Young
  <2>3. CASE e \in Published /\ g = h /\ gcMark(h) /\ Listing(h) /\ job'[h].at = "sweep"
    BY <1>6, <2>3, ListedSucceeded DEF Sweeping
  <2>4. CASE e \in Published /\ job[g].at \in {"sweep", "delete"} /\ job'[g].now = job[g].now /\ r \in Sweeping(job[g])
    <3>1. Succeeded(e) \/ r \notin DOMAIN blobs \/ blobs[r] >= job[g].now
      BY <1>0, <1>6, <2>4 DEF ViewWhole, Sweeping
    <3>2. CASE Succeeded(e)
      BY <1>0, <3>2, SucceededStays
    <3> QED BY <1>1, <1>3, <2>1, <2>4, <3>1, <3>2
  <2> QED BY <1>0, <1>2, <1>6, <2>2, <2>3, <2>4, SweepFrom
<1>7. ASSUME job'[g].at = "delete" PROVE \A t \in job'[g].base : t < job'[g].now
  <2>1. job[g].at = "delete" => \A t \in job[g].base : t < job[g].now
    BY <1>0 DEF ViewWhole
  <2> QED BY <1>0, <1>2, <1>7, <2>1, LookedAt
<1> QED BY <1>5, <1>6, <1>7 DEF ViewWhole, Viewing, Sweeping

-----------------------------------------------------------------------------
(* The invariant is kept.                                                  *)

\* Time alone, or the fleet's keys: nothing of the blobs moves but the clock and
\* what is left of the world.
Idles ==
    /\ UNCHANGED <<made, blobs, stored, told, sent, got, rows, cache, doomed, flag, knows, contains, job, hand, valued, raced, queued>>
    /\ UNCHANGED budget.kind /\ budget' \in Budget
    /\ \/ UNCHANGED tick
       \/ tick' = tick + 1 /\ \A h \in Host : job[h].at \notin {"push", "publish"} /\ ~Viewing(job[h])

LEMMA TimeIdles == ASSUME BlobsHeld, TickBlobs PROVE Idles
<1>1. budget \in Budget /\ budget.ticks \in Nat
  BY DEF BlobsHeld, LocalTypes, Budget
<1>2. budget.ticks > 0 /\ budget' = [budget EXCEPT !.ticks = @ - 1]
  BY DEF TickBlobs, SpendB
<1>3. budget' \in Budget /\ UNCHANGED budget.kind
  BY <1>1, <1>2 DEF Budget
<1> QED BY <1>3 DEF TickBlobs, Idles, Viewing, hubvars, localvars, history

LEMMA IdleHeld == ASSUME BlobsHeld, Idles PROVE BlobsHeld'
<1>1. UNCHANGED <<made, blobs, stored, told, sent, got, rows, cache, doomed, flag, knows, contains, job, hand, valued, raced, queued>>
  BY DEF Idles
<1>2. EventTypes'
  BY <1>1 DEF BlobsHeld, EventTypes
<1>3. LocalTypes'
  BY <1>1 DEF BlobsHeld, LocalTypes, Idles
<1>4. HubTypes'
  <2>1. tick \in Nat /\ tick' \in Nat /\ tick <= tick'
    BY DEF BlobsHeld, HubTypes, Idles
  <2>2. /\ DOMAIN blobs \subseteq Nat /\ (\A r \in DOMAIN blobs : blobs[r] \in Nat /\ blobs[r] <= tick)
        /\ job \in [Host -> Job] /\ (\A h \in Host : job[h].now \in Nat /\ job[h].now <= tick)
    BY DEF BlobsHeld, HubTypes, Job
  <2>3. (\A r \in DOMAIN blobs : blobs[r] <= tick') /\ \A h \in Host : job[h].now <= tick'
    BY <2>1, <2>2
  <2> QED BY <1>1, <2>1, <2>2, <2>3 DEF HubTypes
<1>5. /\ NamedOnce' = NamedOnce /\ Published' = Published /\ AllNaming' = AllNaming
      /\ \A h \in Host : Noticed(h)' = Noticed(h) /\ Unsent(h)' = Unsent(h) /\ Pushing(h)' = Pushing(h)
  BY <1>1 DEF NamedOnce, Published, AllNaming, Noticed, Unsent, Pushing, ToPush, Noted, BlobEvents
<1>6. \A e : Succeeded(e)' = Succeeded(e)
  BY <1>5 DEF Succeeded
<1>7. ASSUME NEW h \in Host PROVE Captured(h)' /\ Rewrapped(h)' /\ EventsReady(h)'
  BY <1>1 DEF BlobsHeld, Captured, Rewrapped, EventsReady, BlobEvents
<1>8. ASSUME NEW h \in Host PROVE RowsStand(h)' /\ Replaced(h)' /\ Cached(h)'
  BY <1>1, <1>5 DEF BlobsHeld, RowsStand, Replaced, Cached
<1>9. ASSUME NEW h \in Host PROVE Flagged(h)'
  BY <1>1 DEF BlobsHeld, Flagged, Idles
<1>10. UNCHANGED tick => \A r : Young(r)' = Young(r)
  BY <1>1 DEF Young
<1>11. ASSUME NEW h \in Host PROVE PushedWhole(h)'
  <2>1. PushedWhole(h)
    BY DEF BlobsHeld
  <2>2. CASE UNCHANGED tick
    BY <1>1, <1>5, <1>10, <2>1, <2>2 DEF PushedWhole
  <2>3. CASE job[h].at \notin {"push", "publish"}
    <3>1. Pushing(h) = {}
      BY <2>3 DEF Pushing
    <3> QED BY <1>5, <3>1 DEF PushedWhole
  <2> QED BY <2>2, <2>3 DEF Idles
<1>12. ASSUME NEW h \in Host PROVE ViewWhole(h)'
  <2>1. ViewWhole(h)
    BY DEF BlobsHeld
  <2>2. UNCHANGED tick \/ ~Viewing(job[h])
    BY DEF Idles
  <2> QED BY <1>1, <1>5, <1>6, <1>10, <2>1, <2>2 DEF ViewWhole, Viewing
<1>13. PublishedKept' /\ OldCiphertextRemembered'
  BY <1>1, <1>5, <1>6 DEF BlobsHeld, PublishedKept, OldCiphertextRemembered
<1> QED BY <1>2, <1>3, <1>4, <1>5, <1>7, <1>8, <1>9, <1>11, <1>12, <1>13 DEF BlobsHeld

\* The type invariant, and everything a command relies on, at the start.
LEMMA BlobsStart == BlobInit => BlobsHeld
<1> SUFFICES ASSUME BlobInit PROVE BlobsHeld
  OBVIOUS
<1>1. /\ made = <<>> /\ blobs = <<>> /\ raced = {} /\ queued = {} /\ tick = 0
      /\ stored = [h \in Host |-> {}] /\ told = [h \in Host |-> <<>>]
      /\ sent = [h \in Host |-> 0] /\ got = [h \in Host |-> [o \in Host |-> 0]]
      /\ rows = [h \in Host |-> {}] /\ cache = [h \in Host |-> {}] /\ doomed = [h \in Host |-> {}]
      /\ flag = [h \in Host |-> FALSE] /\ knows = [h \in Host |-> FALSE] /\ contains = [h \in Host |-> FALSE]
      /\ job = [h \in Host |-> NoJob] /\ hand = [h \in Host |-> NoHand]
      /\ valued = [h \in Host |-> {}] /\ budget \in Budget
  BY BlobAssumption DEF BlobInit, Budget
<1>2. Len(<<>>) = 0 /\ DOMAIN <<>> = {}
  OBVIOUS
<1>3. \A h \in Host : /\ told[h] = <<>> /\ Len(told[h]) = 0 /\ stored[h] = {} /\ sent[h] = 0 /\ rows[h] = {} /\ doomed[h] = {}
                      /\ valued[h] = {} /\ job[h] = NoJob /\ hand[h] = NoHand /\ 1..Len(told[h]) = {}
  BY <1>1, <1>2
<1>4. NoJob.at = "idle" /\ NoJob.cmd = "none" /\ NoJob.now = 0 /\ NoHand.at = "idle" /\ NoHand \in Capture /\ NoJob \in Job
  BY NoJobTyped DEF NoJob, NoHand, Capture
<1>5. \A h \in Host : BlobEvents(h) = {}
  BY <1>3 DEF BlobEvents
<1>6. /\ AllNaming = {} /\ Published = {}
      /\ \A h \in Host : Noticed(h) = {} /\ Unsent(h) = {} /\ Pushing(h) = {}
  <2>1. AllNaming = {} /\ Published = {}
    BY <1>3, <1>5 DEF AllNaming, Published
  <2>2. \A h \in Host : Noticed(h) = {}
    BY <2>1, NoticedIs
  <2>3. \A h \in Host : Unsent(h) = {}
    BY <1>3 DEF Unsent
  <2>4. \A h \in Host : Pushing(h) = {}
    BY <1>3, <1>4 DEF Pushing
  <2> QED BY <2>1, <2>2, <2>3, <2>4
<1>7. EventTypes
  <2>1. told \in [Host -> Seq(BlobEvent)]
    BY <1>1
  <2>2. stored \in [Host -> SUBSET Nat] /\ sent \in [Host -> Nat] /\ got \in [Host -> [Host -> Nat]]
    BY <1>1
  <2>3. \A h \in Host : \A o \in Host : got[h][o] = 0
    BY <1>1
  <2>4. \E B \in Nat : \A o \in Host : \A i \in 1..Len(told[o]) : told[o][i].hlc <= B
    <3>1. 0 \in Nat
      OBVIOUS
    <3> QED BY <1>3, <3>1
  <2>5. 1..0 = {}
    OBVIOUS
  <2> QED BY <1>3, <2>1, <2>2, <2>3, <2>4, <2>5 DEF EventTypes
<1>8. LocalTypes
  <2>1. made \in Seq([value : Nat, open : BOOLEAN])
    BY <1>1
  <2> QED BY <1>1, <1>4, <2>1 DEF LocalTypes
<1>9. HubTypes
  BY <1>1, <1>2, <1>4 DEF HubTypes
<1>10. NamedOnce
  BY <1>5 DEF NamedOnce
<1>11. ASSUME NEW h \in Host PROVE Captured(h) /\ Rewrapped(h) /\ EventsReady(h)
  BY <1>3, <1>4, WrappingIs DEF Captured, Rewrapped, EventsReady
<1>12. ASSUME NEW h \in Host PROVE RowsStand(h) /\ Replaced(h) /\ Cached(h) /\ Flagged(h)
  <2>1. RowsStand(h) /\ Flagged(h)
    BY <1>3, <1>6 DEF RowsStand, Flagged
  <2>2. Cached(h)
    BY <1>3, <1>4, <1>6 DEF Cached
  <2>3. Replaced(h)
    BY <1>3, <1>4, WrappingIs DEF Replaced
  <2> QED BY <2>1, <2>2, <2>3
<1>13. ASSUME NEW h \in Host PROVE PushedWhole(h) /\ ViewWhole(h)
  BY <1>3, <1>4, <1>6 DEF PushedWhole, ViewWhole
<1>14. PublishedKept /\ OldCiphertextRemembered
  BY <1>1, <1>6 DEF PublishedKept, OldCiphertextRemembered
<1> QED BY <1>7, <1>8, <1>9, <1>10, <1>11, <1>12, <1>13, <1>14 DEF BlobsHeld

LEMMA BlobsStep == ASSUME BlobsHeld, [BlobNext]_blobvars PROVE BlobsHeld'
<1>1. ASSUME NEW h \in Host, HostActs(h) PROVE BlobsHeld'
  <2>1. Sound(h)
    BY HeldSound
  <2>2. EventTypes' /\ LocalTypes' /\ HubTypes'
    BY <1>1, <2>1, TypesKept
  <2>3. NamedOnce' /\ \A g \in Host : Captured(g)' /\ Rewrapped(g)'
    BY <1>1, <2>1, NamedOnceKept, CapturedKept, RewrappedKept
  <2>4. \A g \in Host : EventsReady(g)' /\ RowsStand(g)' /\ Replaced(g)' /\ Cached(g)' /\ Flagged(g)'
    BY <1>1, EventsReadyKept, RowsStandEverywhere, ReplacedEverywhere, CachedKept, FlaggedKept
  <2>5. \A g \in Host : PushedWhole(g)' /\ ViewWhole(g)'
    BY <1>1, PushedWholeKept, ViewWholeKept
  <2>6. PublishedKept' /\ OldCiphertextRemembered'
    BY <1>1, PublishedStays, OldCiphertextKept
  <2> QED BY <2>2, <2>3, <2>4, <2>5, <2>6 DEF BlobsHeld
<1>2. CASE TickBlobs
  BY <1>2, TimeIdles, IdleHeld
<1>3. CASE UNCHANGED blobvars
  <2>1. budget \in Budget
    BY DEF BlobsHeld, LocalTypes
  <2>2. Idles
    BY <1>3, <2>1 DEF blobvars, Idles
  <2> QED BY <2>2, IdleHeld
<1> QED BY <1>1, <1>2, <1>3, Acting

-----------------------------------------------------------------------------
(* Whoever needs a blob finds it, and what was exposed is remembered.      *)

LEMMA HeldBlobs == ASSUME BlobsHeld PROVE BlobsAvailable /\ ExposureRemembered
<1>0. EventTypes /\ PublishedKept /\ OldCiphertextRemembered /\ \A h \in Host : Cached(h) /\ Flagged(h)
  BY DEF BlobsHeld
<1>1. PendingPushable
  BY <1>0 DEF PendingPushable, Cached
<1>2. CurrentBlobKept
  <2> SUFFICES ASSUME NEW e \in LatestDraftSnapshot(Published), e.ref \notin DOMAIN blobs \cup raced
               PROVE  \E h \in Host : \E n \in Unsent(h) : envCoordLess(e, n) /\ n.ref \in cache[h] \cup raced
    BY DEF CurrentBlobKept
  <2>1. e \in Published /\ \A s \in Published : ~envCoordLess(e, s)
    BY DEF LatestDraftSnapshot
  <2>2. PICK n \in AllNaming : envCoordLess(e, n)
    BY <1>0, <2>1 DEF PublishedKept, Succeeded
  <2>3. PICK o \in Host : \E i \in BlobEvents(o) : n = told[o][i]
    BY <2>2 DEF AllNaming
  <2>4. PICK i \in BlobEvents(o) : n = told[o][i]
    BY <2>3
  <2>5. told[o][i].type = "blob" /\ i \in 1..Len(told[o])
    BY DEF BlobEvents
  <2>6. i \notin stored[o]
    BY <2>1, <2>2, <2>4, <2>5, PublishedIs
  <2>7. i > sent[o]
    BY <1>0, <2>5, <2>6, Placed
  <2>8. n \in Unsent(o)
    BY <1>0, <2>4, <2>7, UnsentIs
  <2> QED BY <1>0, <2>2, <2>8 DEF Cached
<1>3. ExposedFlagged
  BY <1>0 DEF ExposedFlagged, Flagged
<1> QED BY <1>0, <1>1, <1>2, <1>3 DEF BlobsAvailable, ExposureRemembered

\* Whatever is captured, rewrapped, drained and swept, by any number of hosts, with
\* crashes and failed deletions: the blob of the latest published event is on the
\* hub, or the event that replaces it is waiting on a host that has its blob; and
\* what a host has yet to push is in its cache, but for the windows the code leaves
\* open (blobs.gcUnreferencedBlobs beside a capture, hub gc's last look).
THEOREM BlobsStayAvailable == BlobSpec => []BlobsAvailable
<1>1. BlobSpec => []BlobsHeld
  BY BlobsStart, BlobsStep, PTL DEF BlobSpec
<1>2. BlobsHeld => BlobsAvailable
  BY HeldBlobs
<1> QED
  BY <1>1, <1>2, PTL

\* A value that a revoked device could read stays flagged for rotation where it was
\* valued, and ciphertext queued for deletion stays queued while it is on the hub.
THEOREM ExposureIsRemembered == BlobSpec => []ExposureRemembered
<1>1. BlobSpec => []BlobsHeld
  BY BlobsStart, BlobsStep, PTL DEF BlobSpec
<1>2. BlobsHeld => ExposureRemembered
  BY HeldBlobs
<1> QED
  BY <1>1, <1>2, PTL

\* The same for the specification the run explores, where the blobs share the
\* state space with the fleet's keys.
THEOREM SharedBlobsAreKept == FleetSpec => [](BlobsAvailable /\ ExposureRemembered)
<1>1. FleetInit => BlobsHeld
  BY BlobsStart DEF FleetInit
<1>2. BlobsHeld /\ [FleetNext]_fleetvars => BlobsHeld'
  <2>1. [FleetNext]_fleetvars => [BlobNext]_blobvars
    BY DEF FleetNext, fleetvars
  <2> QED
    BY <2>1, BlobsStep
<1>3. FleetSpec => []BlobsHeld
  BY <1>1, <1>2, PTL DEF FleetSpec
<1>4. BlobsHeld => BlobsAvailable /\ ExposureRemembered
  BY HeldBlobs
<1> QED
  BY <1>3, <1>4, PTL

=============================================================================
