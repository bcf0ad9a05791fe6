----------------------------- MODULE HubsProofs -----------------------------
(***************************************************************************)
(* Proofs about the signed heads (module Omission) and the git carrier     *)
(* (module GitCarrier), for any streams, restores, compactions, clones and *)
(* worlds.                                                                 *)
(***************************************************************************)
EXTENDS MCHubs, FiniteSetTheorems, WellFoundedInduction, TLAPS

-----------------------------------------------------------------------------
(* Signed heads: the invariant.                                            *)

Log == Seq(Nat)
Fold == [seq : Nat, fold : Log]
Origin == [log : Log, pushed : Nat, acked : Nat, era : Nat, backup : [log : Log, pushed : Nat, acked : Nat]]
View == [rows : SUBSET Log, anchor : Fold, cursor : Nat, declined : SUBSET Nat, waiting : BOOLEAN,
         head : [seq : Nat, fold : Log, pending : BOOLEAN], alarms : SUBSET {"fork", "withheld_tail"},
         vouched : Nat, at : {"idle", "pulled"}]
Omen1 == [mints : 0..MaxSeq, restores : Nat, compacts : Nat, declines : Nat, honest : BOOLEAN]

OmTyped ==
    /\ origin \in Origin /\ published \in Seq(Fold) /\ objects \subseteq Log
    /\ floor \in Nat /\ snap \in Fold /\ cap \in 0..MaxSeq
    /\ view \in View /\ omen \in Omen1

\* A log has what is pushed of it; an ack and an anchor are folds of what they say.
StreamsOK ==
    /\ origin.pushed <= Len(origin.log) /\ origin.backup.pushed <= Len(origin.backup.log)
    /\ \A i \in 1..Len(published) : Len(published[i].fold) = published[i].seq /\ published[i].seq > 0
    /\ \A e \in objects : Len(e) > 0
    /\ Len(snap.fold) = snap.seq /\ floor = (IF snap.seq = 0 THEN 0 ELSE snap.seq + 1)
    /\ omen.honest => cap = MaxSeq

\* The rows of a verifier: at most one of a length, none beyond the cursor, and
\* above the anchor each continues the one before.
RowsOK(v) ==
    /\ Len(v.anchor.fold) = v.anchor.seq /\ v.anchor.seq <= v.cursor
    /\ \A r \in v.rows : Len(r) > 0 /\ Len(r) <= v.cursor
    /\ \A r, q \in v.rows : Len(r) = Len(q) => r = q
    /\ \A r \in v.rows : Len(r) >= v.anchor.seq =>
         /\ SubSeq(r, 1, v.anchor.seq) = v.anchor.fold
         /\ \A i \in (v.anchor.seq + 1)..Len(r) : SubSeq(r, 1, i) \in v.rows

\* The promise is an ack, and what was found complete is one.
PromiseOK ==
    /\ view.head.seq = 0 => ~view.head.pending
    /\ view.head.seq > 0 => \E i \in 1..Len(published) :
           published[i].seq = view.head.seq /\ published[i].fold = view.head.fold
    /\ view.vouched <= view.cursor
    /\ Vouched

\* An origin that never lost its log: all there is of its stream is a beginning
\* of that log, and what it pushed is on the hub or below the floor.
Begins(s, l) == Len(s) <= Len(l) /\ s = SubSeq(l, 1, Len(s))
FirstEra == origin.era = 0 =>
    /\ Len(origin.log) + omen.mints <= MaxSeq
    /\ \A e \in objects : Begins(e, origin.log)
    /\ Begins(snap.fold, origin.log) /\ Begins(view.anchor.fold, origin.log)
    /\ \A r \in view.rows : Begins(r, origin.log)
    /\ \A i \in 1..Len(published) : Begins(published[i].fold, origin.log) /\ published[i].seq <= origin.pushed
    /\ \A i \in 1..origin.pushed : i >= floor => SubSeq(origin.log, 1, i) \in objects

\* On an honest hub a pull holds all it passed, and gets as far as the promise,
\* unless it declined an event or waits for a key.
Through0(v) == (omen.honest /\ origin.era = 0 /\ 0 \notin v.declined) =>
    /\ \A i \in (v.anchor.seq + 1)..v.cursor : \E r \in v.rows : Len(r) = i
    /\ v.at = "pulled" /\ ~v.waiting => v.cursor >= v.head.seq

OmInv == OmTyped /\ StreamsOK /\ RowsOK(view) /\ PromiseOK /\ FirstEra /\ Through0(view)

-----------------------------------------------------------------------------
(* Beginnings of sequences, and highest numbers.                           *)

\* The length of a log is a number, and logs with the same elements are the same.
LEMMA LogLength == ASSUME NEW s \in Log PROVE Len(s) \in Nat /\ s \in [1..Len(s) -> Nat] /\ DOMAIN s = 1..Len(s)
  BY DEF Log

LEMMA SameLog ==
    ASSUME NEW s \in Log, NEW t \in Log, Len(s) = Len(t), \A i \in 1..Len(s) : s[i] = t[i]
    PROVE  s = t
  BY DEF Log

\* What a beginning of a log is.
LEMMA Begin ==
    ASSUME NEW s \in Log, NEW n \in Nat, n <= Len(s)
    PROVE  SubSeq(s, 1, n) \in Log /\ Len(SubSeq(s, 1, n)) = n /\ \A i \in 1..n : SubSeq(s, 1, n)[i] = s[i]
  BY DEF Log

\* A beginning of a beginning is one.
LEMMA BeginTwice ==
    ASSUME NEW s \in Log, NEW n \in Nat, n <= Len(s), NEW m \in Nat, m <= n
    PROVE  SubSeq(SubSeq(s, 1, n), 1, m) = SubSeq(s, 1, m)
<1>1. SubSeq(s, 1, n) \in Log /\ Len(SubSeq(s, 1, n)) = n /\ \A i \in 1..n : SubSeq(s, 1, n)[i] = s[i]
  BY Begin
<1>2. Len(s) \in Nat
  BY LogLength
<1>3. SubSeq(s, 1, m) \in Log /\ Len(SubSeq(s, 1, m)) = m /\ \A i \in 1..m : SubSeq(s, 1, m)[i] = s[i]
  BY <1>2, Begin
<1> DEFINE t == SubSeq(s, 1, n)
<1>4. t \in Log /\ Len(t) = n /\ \A i \in 1..n : t[i] = s[i]
  BY <1>1
<1> HIDE DEF t
<1>5. SubSeq(t, 1, m) \in Log /\ Len(SubSeq(t, 1, m)) = m /\ \A i \in 1..m : SubSeq(t, 1, m)[i] = t[i]
  BY <1>4, Begin
<1>6. \A i \in 1..m : SubSeq(t, 1, m)[i] = SubSeq(s, 1, m)[i]
  BY <1>3, <1>4, <1>5
<1>7. SubSeq(t, 1, m) = SubSeq(s, 1, m)
  BY <1>3, <1>5, <1>6, SameLog
<1> QED
  BY <1>7 DEF t

\* The whole is a beginning of itself.
LEMMA BeginWhole == ASSUME NEW s \in Log PROVE SubSeq(s, 1, Len(s)) = s
  BY LogLength, Begin, SameLog

\* A log that grows keeps its beginnings.
LEMMA BeginGrows ==
    ASSUME NEW s \in Log, NEW x \in Nat
    PROVE  /\ Append(s, x) \in Log /\ Len(Append(s, x)) = Len(s) + 1
           /\ \A n \in Nat : n <= Len(s) => SubSeq(Append(s, x), 1, n) = SubSeq(s, 1, n)
<1>1. Append(s, x) \in Log /\ Len(Append(s, x)) = Len(s) + 1 /\ \A i \in 1..Len(s) : Append(s, x)[i] = s[i]
  BY DEF Log
<1> DEFINE t == Append(s, x)
<1>2. t \in Log /\ Len(t) = Len(s) + 1 /\ \A i \in 1..Len(s) : t[i] = s[i]
  BY <1>1
<1> HIDE DEF t
<1>3. ASSUME NEW n \in Nat, n <= Len(s) PROVE SubSeq(t, 1, n) = SubSeq(s, 1, n)
  <2>1. Len(s) \in Nat /\ n <= Len(t)
    BY <1>2, <1>3, LogLength
  <2>2. SubSeq(t, 1, n) \in Log /\ Len(SubSeq(t, 1, n)) = n /\ \A i \in 1..n : SubSeq(t, 1, n)[i] = t[i]
    BY <1>2, <2>1, Begin
  <2>3. SubSeq(s, 1, n) \in Log /\ Len(SubSeq(s, 1, n)) = n /\ \A i \in 1..n : SubSeq(s, 1, n)[i] = s[i]
    BY <1>3, Begin
  <2>4. \A i \in 1..n : SubSeq(t, 1, n)[i] = SubSeq(s, 1, n)[i]
    BY <1>2, <1>3, <2>1, <2>2, <2>3
  <2> QED BY <2>2, <2>3, <2>4, SameLog
<1> QED
  BY <1>1, <1>3 DEF t

\* Two sequences, one after the other.
LEMMA Joined ==
    ASSUME NEW S, NEW s \in Seq(S), NEW t \in Seq(S)
    PROVE  /\ s \o t \in Seq(S) /\ Len(s \o t) = Len(s) + Len(t)
           /\ \A i \in 1..Len(s) : (s \o t)[i] = s[i]
           /\ \A i \in 1..Len(t) : (s \o t)[Len(s) + i] = t[i]
  OBVIOUS

\* One more in front.
LEMMA InFront ==
    ASSUME NEW S, NEW s \in Seq(S), NEW t \in Seq(S), NEW r \in Seq(S), Len(s) = 1, Len(r) = Len(t) + 1, r[1] = s[1],
           \A i \in 1..Len(t) : r[i + 1] = t[i]
    PROVE  s \o t = r
<1> DEFINE w == s \o t
<1>1. w \in Seq(S) /\ Len(w) = Len(t) + 1 /\ w[1] = s[1] /\ \A i \in 1..Len(t) : w[1 + i] = t[i]
  <2>1. w \in Seq(S) /\ Len(w) = Len(s) + Len(t) /\ (\A i \in 1..Len(s) : w[i] = s[i])
        /\ \A i \in 1..Len(t) : w[Len(s) + i] = t[i]
    BY ONLY Joined, s \in Seq(S), t \in Seq(S)
  <2> HIDE DEF w
  <2> QED BY <2>1
<1> HIDE DEF w
<1>2. \A i \in 1..Len(w) : w[i] = r[i]
  <2> TAKE i \in 1..Len(w)
  <2>1. CASE i = 1
    BY <1>1, <2>1
  <2>2. CASE i # 1
    <3>1. i - 1 \in 1..Len(t) /\ (i - 1) + 1 = i /\ 1 + (i - 1) = i
      BY <1>1, <2>2
    <3> QED BY <1>1, <3>1
  <2> QED BY <2>1, <2>2
<1>3. w = r
  BY <1>1, <1>2
<1> QED BY <1>3 DEF w

\* A bounded set of numbers has a highest one.
LEMMA Largest ==
    ASSUME NEW S \in SUBSET Nat, S # {}, NEW B \in Nat, \A n \in S : n <= B
    PROVE  \E n \in S : \A m \in S : m <= n
<1> DEFINE T == {B - n : n \in S}
<1>0. PICK k : k \in S
  OBVIOUS
<1>1. T \subseteq Nat /\ T # {}
  <2>1. \A n \in S : B - n \in Nat
    OBVIOUS
  <2>2. B - k \in T
    BY <1>0
  <2> QED BY <2>1, <2>2
<1>2. PICK x \in T : \A y \in T : ~(<<y, x>> \in OpToRel(<, Nat))
  BY <1>1, NatLessThanWellFounded, WFMin
<1>3. \A y \in T : ~(y < x)
  BY <1>1, <1>2 DEF OpToRel
<1>4. PICK n \in S : x = B - n
  OBVIOUS
<1>5. \A m \in S : B - m \in T
  OBVIOUS
<1>6. \A m \in S : m <= n
  BY <1>3, <1>4, <1>5
<1> QED
  BY <1>6

-----------------------------------------------------------------------------
(* The invariant holds at the start and through the steps of origin and hub. *)

LEMMA OmStarts == OmissionInit => OmInv
<1> SUFFICES ASSUME OmissionInit PROVE OmInv
  OBVIOUS
<1>1. << >> \in Log /\ Len(<< >>) = 0 /\ << >> \in Seq(Fold)
  BY DEF Log
<1>2. origin = [log |-> << >>, pushed |-> 0, acked |-> 0, era |-> 0, backup |-> [log |-> << >>, pushed |-> 0, acked |-> 0]]
  BY DEF OmissionInit
<1>3. published = << >> /\ objects = {} /\ floor = 0 /\ snap = NoAnchor /\ cap = MaxSeq
  BY DEF OmissionInit
<1>4. view = [rows |-> {}, anchor |-> NoAnchor, cursor |-> 0, declined |-> {}, waiting |-> FALSE,
              head |-> NoHead, alarms |-> {}, vouched |-> 0, at |-> "idle"]
  BY DEF OmissionInit
<1>5. omen \in Omen1 /\ MaxSeq \in Nat
  BY OmissionAssumption DEF OmissionInit, Omen1
<1>6. NoAnchor \in Fold /\ NoHead \in [seq : Nat, fold : Log, pending : BOOLEAN]
  BY <1>1 DEF NoAnchor, NoHead, Fold
<1>7. OmTyped
  BY <1>1, <1>2, <1>3, <1>4, <1>5, <1>6 DEF OmTyped, Origin, View
<1>8. StreamsOK
  BY <1>1, <1>2, <1>3 DEF StreamsOK, NoAnchor
<1>9. RowsOK(view) /\ Through0(view)
  BY <1>1, <1>4 DEF RowsOK, Through0, NoAnchor
<1>10. PromiseOK
  BY <1>4 DEF PromiseOK, NoHead, Vouched
<1>11. FirstEra
  <2>1. SubSeq(<< >>, 1, 0) = << >>
    BY <1>1, BeginWhole
  <2>2. omen.mints \in 0..MaxSeq
    BY <1>5 DEF Omen1
  <2>3. Begins(<< >>, << >>) /\ Len(<< >>) + omen.mints <= MaxSeq
    BY <1>1, <1>5, <2>1, <2>2 DEF Begins
  <2>4. origin.log = << >> /\ origin.pushed = 0 /\ snap.fold = << >> /\ view.anchor.fold = << >> /\ view.rows = {} /\ objects = {}
    BY <1>2, <1>3, <1>4 DEF NoAnchor
  <2>5. Len(published) = 0
    BY <1>3
  <2> QED
    BY <2>3, <2>4, <2>5 DEF FirstEra
<1> QED
  BY <1>7, <1>8, <1>9, <1>10, <1>11 DEF OmInv

\* The types of the parts.
LEMMA OmTypes ==
    ASSUME OmTyped
    PROVE  /\ origin.log \in Log /\ origin.pushed \in Nat /\ origin.acked \in Nat /\ origin.era \in Nat
           /\ origin.backup \in [log : Log, pushed : Nat, acked : Nat]
           /\ Len(published) \in Nat /\ DOMAIN published = 1..Len(published)
           /\ \A i \in 1..Len(published) : published[i].seq \in Nat /\ published[i].fold \in Log
           /\ objects \subseteq Log /\ floor \in Nat /\ snap.seq \in Nat /\ snap.fold \in Log
           /\ cap \in Nat /\ MaxSeq \in Nat
           /\ view.rows \subseteq Log /\ view.anchor.seq \in Nat /\ view.anchor.fold \in Log /\ view.cursor \in Nat
           /\ view.head.seq \in Nat /\ view.head.fold \in Log /\ view.vouched \in Nat
           /\ omen.mints \in Nat /\ Len(origin.log) \in Nat
<1>1. published \in Seq(Fold)
  BY DEF OmTyped
<1>2. Len(published) \in Nat /\ DOMAIN published = 1..Len(published) /\ \A i \in 1..Len(published) : published[i] \in Fold
  BY <1>1
<1>3. \A i \in 1..Len(published) : published[i].seq \in Nat /\ published[i].fold \in Log
  BY <1>2 DEF Fold
<1>4. MaxSeq \in Nat /\ cap \in Nat
  BY OmissionAssumption DEF OmTyped
<1>5. origin.log \in Log
  BY DEF OmTyped, Origin
<1>6. Len(origin.log) \in Nat
  BY <1>5, LogLength
<1>7. /\ origin.pushed \in Nat /\ origin.acked \in Nat /\ origin.era \in Nat
      /\ origin.backup \in [log : Log, pushed : Nat, acked : Nat]
  BY DEF OmTyped, Origin
<1>8. objects \subseteq Log /\ floor \in Nat /\ snap.seq \in Nat /\ snap.fold \in Log /\ omen.mints \in Nat
  BY <1>4 DEF OmTyped, Fold, Omen1
<1>9. view.rows \subseteq Log /\ view.anchor \in Fold /\ view.cursor \in Nat /\ view.head.seq \in Nat
      /\ view.head.fold \in Log /\ view.vouched \in Nat
  BY DEF OmTyped, View
<1>10. view.anchor.seq \in Nat /\ view.anchor.fold \in Log
  BY <1>9 DEF Fold
<1> QED
  BY ONLY <1>2, <1>3, <1>4, <1>5, <1>6, <1>7, <1>8, <1>9, <1>10

\* The verifier keeps what it has while the others go on.
LEMMA ViewKeeps ==
    ASSUME OmInv, view' = view, omen'.honest = omen.honest, origin'.era = 0 => origin.era = 0,
           \A i \in 1..Len(published) : i \in 1..Len(published') /\ published'[i] = published[i],
           DOMAIN published' = 1..Len(published')
    PROVE  RowsOK(view)' /\ Through0(view)' /\ PromiseOK'
<1> USE DEF OmInv
<1>1. RowsOK(view)'
  BY DEF RowsOK
<1>2. Through0(view)'
  BY DEF Through0
<1>3. DOMAIN published = 1..Len(published)
  BY OmTypes
<1>4. Vouched'
  BY <1>3 DEF PromiseOK, Vouched
<1>5. view.head.seq > 0 => \E i \in 1..Len(published') : published'[i].seq = view.head.seq /\ published'[i].fold = view.head.fold
  BY DEF PromiseOK
<1>6. PromiseOK'
  BY <1>4, <1>5 DEF PromiseOK
<1> QED BY <1>1, <1>2, <1>6

\* InsertLocalEventTx: the log of the origin grows, and what began it still does.
LEMMA MintKeeps == OmInv /\ MintEvent => OmInv'
<1> SUFFICES ASSUME OmInv, MintEvent PROVE OmInv'
  OBVIOUS
<1> USE DEF OmInv
<1>1. /\ origin' = [origin EXCEPT !.log = Append(@, origin.era)] /\ omen.mints > 0 /\ omen' = [omen EXCEPT !.mints = @ - 1]
      /\ UNCHANGED <<published, objects, floor, snap, cap, view>>
  BY DEF MintEvent
<1>2. origin \in Origin /\ omen \in Omen1 /\ origin.log \in Log /\ origin.era \in Nat /\ origin.pushed \in Nat
  BY DEF OmTyped, Origin
<1>3. /\ Append(origin.log, origin.era) \in Log /\ Len(Append(origin.log, origin.era)) = Len(origin.log) + 1
      /\ \A n \in Nat : n <= Len(origin.log) => SubSeq(Append(origin.log, origin.era), 1, n) = SubSeq(origin.log, 1, n)
  BY <1>2, BeginGrows
<1>4. /\ origin'.log = Append(origin.log, origin.era) /\ origin'.pushed = origin.pushed
      /\ origin'.era = origin.era /\ origin'.backup = origin.backup
  BY <1>1, <1>2 DEF Origin
<1>5. omen'.mints = omen.mints - 1 /\ omen'.honest = omen.honest /\ MaxSeq \in Nat /\ omen.mints \in 0..MaxSeq
  BY <1>1, <1>2, OmissionAssumption DEF Omen1
<1>6. OmTyped'
  <2>1. origin' \in Origin
    BY <1>1, <1>2, <1>3 DEF Origin
  <2>2. omen' \in Omen1
    <3> DEFINE m == omen.mints - 1
    <3>1. m \in 0..MaxSeq
      BY <1>1, <1>5
    <3>2. omen' = [omen EXCEPT !.mints = m]
      BY <1>1
    <3> HIDE DEF m
    <3> QED BY ONLY <1>2, <3>1, <3>2 DEF Omen1
  <2> QED BY <1>1, <2>1, <2>2 DEF OmTyped
<1>7. Len(origin.log) \in Nat
  BY <1>2, LogLength
<1>8. StreamsOK'
  BY <1>1, <1>2, <1>3, <1>4, <1>5, <1>7 DEF StreamsOK
<1>9. \A s \in Log : Begins(s, origin.log) => Begins(s, origin'.log)
  <2> TAKE s \in Log
  <2>1. Len(s) \in Nat
    BY LogLength
  <2> QED BY <1>3, <1>4, <1>7, <2>1 DEF Begins
<1>10. FirstEra'
  <2> SUFFICES ASSUME origin.era = 0 PROVE FirstEra'
    BY <1>4 DEF FirstEra
  <2>1. Len(origin'.log) + omen'.mints <= MaxSeq
    BY <1>3, <1>4, <1>5, <1>7 DEF FirstEra
  <2>2. snap.fold \in Log /\ view.anchor.fold \in Log /\ view.rows \subseteq Log /\ objects \subseteq Log
    BY DEF OmTyped, Fold, View
  <2>3. \A i \in 1..Len(published) : published[i].fold \in Log
    BY OmTypes
  <2>4. \A i \in 1..origin.pushed : SubSeq(origin'.log, 1, i) = SubSeq(origin.log, 1, i)
    BY <1>2, <1>3, <1>4, <1>7 DEF StreamsOK
  <2>5. /\ \A e \in objects' : Begins(e, origin'.log)
        /\ Begins(snap'.fold, origin'.log) /\ Begins(view'.anchor.fold, origin'.log) /\ \A r \in view'.rows : Begins(r, origin'.log)
        /\ \A i \in 1..Len(published') : Begins(published'[i].fold, origin'.log) /\ published'[i].seq <= origin'.pushed
    <3>1. /\ \A e \in objects' : Begins(e, origin.log)
          /\ Begins(snap'.fold, origin.log) /\ Begins(view'.anchor.fold, origin.log) /\ \A r \in view'.rows : Begins(r, origin.log)
          /\ \A i \in 1..Len(published') : Begins(published'[i].fold, origin.log) /\ published'[i].seq <= origin'.pushed
      BY <1>1, <1>4 DEF FirstEra
    <3>2. \A i \in 1..Len(published') : Begins(published'[i].fold, origin'.log)
      BY <1>1, <1>9, <2>3, <3>1
    <3> QED BY <1>1, <1>9, <2>2, <3>1, <3>2
  <2>6. \A i \in 1..origin'.pushed : i >= floor' => SubSeq(origin'.log, 1, i) \in objects'
    <3>1. \A i \in 1..origin.pushed : i >= floor => SubSeq(origin.log, 1, i) \in objects
      BY DEF FirstEra
    <3>2. origin'.pushed = origin.pushed /\ floor' = floor /\ objects' = objects
      BY <1>1, <1>4
    <3> QED BY <2>4, <3>1, <3>2
  <2> QED BY <2>1, <2>5, <2>6 DEF FirstEra
<1>11. RowsOK(view)' /\ Through0(view)' /\ PromiseOK'
  BY <1>1, <1>4, <1>5, ViewKeeps, OmTypes
<1> QED
  BY <1>6, <1>8, <1>10, <1>11

\* pushLocalEventsToHub: objects land one by one, the watermark moves with the last.
LEMMA PushKeeps == OmInv /\ PushEvents => OmInv'
<1> SUFFICES ASSUME OmInv, PushEvents PROVE OmInv'
  OBVIOUS
<1> USE DEF OmInv
<1>0. /\ origin \in Origin /\ origin.log \in Log /\ origin.pushed \in Nat /\ Len(origin.log) \in Nat
      /\ objects \subseteq Log /\ published \in Seq(Fold) /\ floor \in Nat
      /\ origin.pushed <= Len(origin.log)
  BY OmTypes DEF OmTyped, StreamsOK
<1>1. PICK k \in (origin.pushed + 1)..Len(origin.log) :
         /\ objects' = objects \cup {SubSeq(origin.log, 1, i) : i \in (origin.pushed + 1)..k}
         /\ origin' = [origin EXCEPT !.pushed = IF k = Len(origin.log) THEN k ELSE @]
  BY DEF PushEvents
<1>2. UNCHANGED <<published, floor, snap, cap, view, omen>>
  BY DEF PushEvents
<1>3. /\ origin'.log = origin.log /\ origin'.era = origin.era /\ origin'.backup = origin.backup
      /\ origin'.pushed \in {k, origin.pushed} /\ origin' \in Origin
  BY <1>0, <1>1 DEF Origin
<1>4. origin.pushed <= origin'.pushed /\ origin'.pushed <= k /\ k <= Len(origin.log)
  BY <1>0, <1>1, <1>3
<1>5. \A i \in (origin.pushed + 1)..k : /\ SubSeq(origin.log, 1, i) \in Log /\ Len(SubSeq(origin.log, 1, i)) = i
                                       /\ Begins(SubSeq(origin.log, 1, i), origin.log)
  BY <1>0, <1>1, Begin DEF Begins
<1>6. \A e \in objects' : e \in objects \/ \E i \in (origin.pushed + 1)..k : e = SubSeq(origin.log, 1, i)
  BY <1>1
<1>7. OmTyped'
  <2>1. objects' \subseteq Log
    BY <1>0, <1>5, <1>6
  <2> QED BY <1>2, <1>3, <2>1 DEF OmTyped
<1>8. StreamsOK'
  <2>1. \A e \in objects' : Len(e) > 0
    BY <1>0, <1>5, <1>6 DEF StreamsOK
  <2>2. origin'.pushed <= Len(origin'.log)
    BY <1>0, <1>3, <1>4
  <2> QED BY <1>2, <1>3, <2>1, <2>2 DEF StreamsOK
<1>9. FirstEra'
  <2> SUFFICES ASSUME origin.era = 0 PROVE FirstEra'
    BY <1>3 DEF FirstEra
  <2>1. \A e \in objects' : Begins(e, origin'.log)
    BY <1>3, <1>5, <1>6 DEF FirstEra
  <2>2. \A i \in 1..origin'.pushed : i >= floor' => SubSeq(origin'.log, 1, i) \in objects'
    <3> SUFFICES ASSUME NEW i \in 1..origin'.pushed, i >= floor' PROVE SubSeq(origin.log, 1, i) \in objects'
      BY <1>3
    <3>1. CASE i <= origin.pushed
      <4>1. SubSeq(origin.log, 1, i) \in objects
        BY <1>0, <1>2, <3>1 DEF FirstEra
      <4> QED BY <1>1, <4>1
    <3>2. CASE i > origin.pushed
      <4>1. i \in (origin.pushed + 1)..k
        BY <1>0, <1>3, <1>4, <3>2
      <4> QED BY <1>1, <4>1
    <3> QED BY <1>0, <1>3, <3>1, <3>2
  <2>3. \A i \in 1..Len(published) : published[i].seq <= origin'.pushed
    <3>1. \A i \in 1..Len(published) : published[i].seq <= origin.pushed /\ published[i].seq \in Nat
      BY OmTypes DEF FirstEra
    <3> QED BY <1>0, <1>3, <1>4, <3>1
  <2> QED BY <1>2, <1>3, <2>1, <2>2, <2>3 DEF FirstEra
<1>10. RowsOK(view)' /\ Through0(view)' /\ PromiseOK'
  BY <1>2, <1>3, ViewKeeps, OmTypes
<1> QED
  BY <1>7, <1>8, <1>9, <1>10

\* maybeWriteSyncAck: the ack is the fold of what is pushed.
LEMMA AckKeeps == OmInv /\ maybeWriteSyncAck => OmInv'
<1> SUFFICES ASSUME OmInv, maybeWriteSyncAck PROVE OmInv'
  OBVIOUS
<1> USE DEF OmInv
<1> DEFINE m == AckMarker(origin.pushed)
<1>0. /\ origin \in Origin /\ origin.log \in Log /\ origin.pushed \in Nat /\ Len(origin.log) \in Nat
      /\ published \in Seq(Fold) /\ origin.pushed <= Len(origin.log) /\ origin.pushed > 0
  BY OmTypes DEF OmTyped, StreamsOK, maybeWriteSyncAck, AckSeq
<1>1. /\ published' = Append(published, m) /\ origin' = [origin EXCEPT !.acked = origin.pushed]
      /\ UNCHANGED <<objects, floor, snap, cap, view, omen>>
  BY DEF maybeWriteSyncAck, AckSeq
<1>2. /\ origin'.log = origin.log /\ origin'.era = origin.era /\ origin'.backup = origin.backup
      /\ origin'.pushed = origin.pushed /\ origin' \in Origin
  BY <1>0, <1>1 DEF Origin
<1>3. /\ SubSeq(origin.log, 1, origin.pushed) \in Log /\ Len(SubSeq(origin.log, 1, origin.pushed)) = origin.pushed
      /\ Begins(SubSeq(origin.log, 1, origin.pushed), origin.log)
  BY <1>0, Begin DEF Begins
<1>4. m.seq = origin.pushed /\ m.fold = SubSeq(origin.log, 1, origin.pushed) /\ m \in Fold
  <2>1. << >> \o SubSeq(origin.log, 1, origin.pushed) = SubSeq(origin.log, 1, origin.pushed)
    BY <1>3 DEF Log
  <2> QED BY <1>0, <1>3, <2>1 DEF AckMarker, Folded, Fold
<1> HIDE DEF m
<1>5. /\ published' \in Seq(Fold) /\ Len(published') = Len(published) + 1 /\ DOMAIN published' = 1..Len(published')
      /\ \A i \in 1..Len(published) : published'[i] = published[i]
      /\ published'[Len(published) + 1] = m /\ Len(published) \in Nat
  BY <1>0, <1>1, <1>4
<1>6. \A i \in 1..Len(published') : i \in 1..Len(published) \/ published'[i] = m
  BY <1>5
<1>7. OmTyped'
  BY <1>1, <1>2, <1>5 DEF OmTyped
<1>8. StreamsOK'
  <2>1. \A i \in 1..Len(published') : Len(published'[i].fold) = published'[i].seq /\ published'[i].seq > 0
    BY <1>0, <1>3, <1>4, <1>5, <1>6 DEF StreamsOK
  <2> QED BY <1>1, <1>2, <2>1 DEF StreamsOK
<1>9. FirstEra'
  <2> SUFFICES ASSUME origin.era = 0 PROVE FirstEra'
    BY <1>2 DEF FirstEra
  <2>1. \A i \in 1..Len(published') : Begins(published'[i].fold, origin.log) /\ published'[i].seq <= origin.pushed
    <3>1. \A i \in 1..Len(published) : Begins(published[i].fold, origin.log) /\ published[i].seq <= origin.pushed
      BY DEF FirstEra
    <3>2. Begins(m.fold, origin.log) /\ m.seq <= origin.pushed
      BY <1>0, <1>3, <1>4
    <3> QED BY <1>5, <1>6, <3>1, <3>2
  <2> QED BY <1>1, <1>2, <2>1 DEF FirstEra
<1>10. \A i \in 1..Len(published) : i \in 1..Len(published')
  BY <1>5
<1>11. RowsOK(view)' /\ Through0(view)' /\ PromiseOK'
  BY <1>1, <1>2, <1>5, <1>10, ViewKeeps
<1> QED
  BY <1>7, <1>8, <1>9, <1>11

\* db backup and db restore: after a restore the origin is another one.
LEMMA BackUpKeeps == OmInv /\ (BackUp \/ RestoreOrigin) => OmInv'
<1> SUFFICES ASSUME OmInv, BackUp \/ RestoreOrigin PROVE OmInv'
  OBVIOUS
<1> USE DEF OmInv
<1>0. origin \in Origin /\ omen \in Omen1
  BY DEF OmTyped
<1>1. UNCHANGED <<published, objects, floor, snap, cap, view>>
  BY DEF BackUp, RestoreOrigin
<1>2. CASE BackUp
  <2>1. origin' = [origin EXCEPT !.backup = Kept(origin)] /\ omen' = omen
    BY <1>2 DEF BackUp
  <2>2. /\ origin'.log = origin.log /\ origin'.era = origin.era /\ origin'.pushed = origin.pushed
        /\ origin'.backup.log = origin.log /\ origin'.backup.pushed = origin.pushed /\ origin' \in Origin
    BY <1>0, <2>1 DEF Origin, Kept
  <2>3. OmTyped' /\ StreamsOK' /\ FirstEra'
    <3>1. OmTyped'
      BY <1>1, <2>1, <2>2 DEF OmTyped
    <3>2. StreamsOK'
      BY <1>1, <2>1, <2>2 DEF StreamsOK
    <3>3. FirstEra'
      BY <1>1, <2>1, <2>2 DEF FirstEra
    <3> QED BY <3>1, <3>2, <3>3
  <2>4. RowsOK(view)' /\ Through0(view)' /\ PromiseOK'
    BY <1>1, <2>1, <2>2, ViewKeeps, OmTypes
  <2> QED BY <2>3, <2>4
<1>3. CASE RestoreOrigin
  <2>1. /\ omen.restores > 0 /\ omen' = [omen EXCEPT !.restores = @ - 1]
        /\ origin' = [log |-> origin.backup.log, pushed |-> origin.backup.pushed, acked |-> origin.backup.acked,
                      era |-> origin.era + 1, backup |-> origin.backup]
    BY <1>3 DEF RestoreOrigin
  <2>2. /\ origin'.log = origin.backup.log /\ origin'.era = origin.era + 1 /\ origin'.pushed = origin.backup.pushed
        /\ origin'.backup = origin.backup /\ origin' \in Origin /\ origin'.era # 0
    BY <1>0, <2>1 DEF Origin
  <2>3. omen' \in Omen1 /\ omen'.honest = omen.honest
    BY <1>0, <2>1 DEF Omen1
  <2>4. OmTyped' /\ StreamsOK' /\ FirstEra'
    <3>1. OmTyped'
      BY <1>1, <2>2, <2>3 DEF OmTyped
    <3>2. StreamsOK'
      BY <1>1, <2>2, <2>3 DEF StreamsOK
    <3>3. FirstEra'
      BY <2>2 DEF FirstEra
    <3> QED BY <3>1, <3>2, <3>3
  <2>5. RowsOK(view)' /\ Through0(view)' /\ PromiseOK'
    BY <1>1, <2>2, <2>3, ViewKeeps, OmTypes
  <2> QED BY <2>4, <2>5
<1> QED BY <1>2, <1>3

\* A hub that withholds, and one that serves again.
LEMMA WithholdKeeps == OmInv /\ (Withhold \/ Relent) => OmInv'
<1> SUFFICES ASSUME OmInv, Withhold \/ Relent PROVE OmInv'
  OBVIOUS
<1> USE DEF OmInv
<1>1. UNCHANGED <<origin, published, objects, floor, snap, view, omen>> /\ cap' \in 0..MaxSeq /\ (omen.honest => cap' = MaxSeq)
  <2>1. MaxSeq \in Nat
    BY OmTypes
  <2>2. CASE Withhold
    <3>1. PICK n \in 0..(MaxSeq - 1) : cap' = n
      BY <2>2 DEF Withhold
    <3> QED BY <2>1, <2>2, <3>1 DEF Withhold
  <2>3. CASE Relent
    BY <2>1, <2>3 DEF Relent
  <2> QED BY <2>2, <2>3
<1>2. OmTyped' /\ StreamsOK' /\ FirstEra'
  <2>1. OmTyped'
    BY <1>1 DEF OmTyped
  <2>2. StreamsOK'
    BY <1>1 DEF StreamsOK
  <2>3. FirstEra'
    BY <1>1 DEF FirstEra
  <2> QED BY <2>1, <2>2, <2>3
<1>3. RowsOK(view)' /\ Through0(view)' /\ PromiseOK'
  BY <1>1, ViewKeeps, OmTypes
<1> QED BY <1>2, <1>3

\* hub compact: what leaves the stream is below the new floor.
LEMMA CompactKeeps == OmInv /\ CompactStream => OmInv'
<1> SUFFICES ASSUME OmInv, CompactStream PROVE OmInv'
  OBVIOUS
<1> USE DEF OmInv
<1>0. omen \in Omen1 /\ objects \subseteq Log /\ floor \in Nat
  BY OmTypes DEF OmTyped
<1>1. /\ omen.compacts > 0 /\ omen' = [omen EXCEPT !.compacts = @ - 1]
      /\ UNCHANGED <<origin, published, cap, view>>
  BY DEF CompactStream
<1>2. PICK e \in objects : /\ Len(e) >= floor /\ floor' = Len(e) + 1 /\ snap' = [seq |-> Len(e), fold |-> e]
                           /\ objects' = {x \in objects : Len(x) > Len(e)}
  BY DEF CompactStream
<1>3. omen' \in Omen1 /\ omen'.honest = omen.honest /\ omen'.mints = omen.mints
  BY <1>0, <1>1 DEF Omen1
<1>4. e \in Log /\ Len(e) \in Nat /\ Len(e) > 0
  BY <1>0, LogLength DEF StreamsOK
<1>5. snap'.seq = Len(e) /\ snap'.fold = e /\ snap' \in Fold
  BY <1>2, <1>4 DEF Fold
<1>6. OmTyped'
  BY <1>0, <1>1, <1>2, <1>3, <1>4, <1>5 DEF OmTyped
<1>7. StreamsOK'
  BY <1>1, <1>2, <1>3, <1>4, <1>5 DEF StreamsOK
<1>8. FirstEra'
  <2> SUFFICES ASSUME origin.era = 0 PROVE FirstEra'
    BY <1>1 DEF FirstEra
  <2>1. Begins(e, origin.log) /\ \A x \in objects' : Begins(x, origin.log)
    BY <1>2 DEF FirstEra
  <2>2. \A i \in 1..origin.pushed : i >= floor' => SubSeq(origin.log, 1, i) \in objects'
    <3> SUFFICES ASSUME NEW i \in 1..origin.pushed, i >= floor' PROVE SubSeq(origin.log, 1, i) \in objects'
      OBVIOUS
    <3>1. i > Len(e) /\ i >= floor
      BY <1>0, <1>2, <1>4
    <3>2. SubSeq(origin.log, 1, i) \in objects
      BY <3>1 DEF FirstEra
    <3>3. Len(SubSeq(origin.log, 1, i)) = i
      BY OmTypes, Begin DEF StreamsOK
    <3> QED BY <1>2, <3>1, <3>2, <3>3
  <2> QED BY <1>1, <1>3, <1>5, <2>1, <2>2 DEF FirstEra
<1>9. RowsOK(view)' /\ Through0(view)' /\ PromiseOK'
  BY <1>1, <1>3, ViewKeeps, OmTypes
<1> QED BY <1>6, <1>7, <1>8, <1>9

-----------------------------------------------------------------------------
(* The verifier's pull.                                                    *)

\* What the rows in the middle of a pull are, and how they follow from the rows
\* at its beginning.
Good(v) ==
    /\ v \in View /\ RowsOK(v)
    /\ origin.era = 0 => Begins(v.anchor.fold, origin.log) /\ \A r \in v.rows : Begins(r, origin.log)
    /\ (omen.honest /\ origin.era = 0 /\ 0 \notin v.declined) =>
          \A i \in (v.anchor.seq + 1)..v.cursor : \E r \in v.rows : Len(r) = i
Follows(v) ==
    /\ v.head = view.head /\ v.vouched = view.vouched /\ v.alarms = view.alarms /\ v.at = view.at
    /\ view.cursor <= v.cursor /\ floor <= v.cursor + 1
    /\ \A r \in v.rows : r \in view.rows \/ Len(r) > view.cursor
    /\ v.anchor = view.anchor \/ v.anchor.seq > view.cursor

\* UpsertChainAnchor: an anchor is imported above everything that was applied.
LEMMA AnchorGood ==
    ASSUME OmInv, NEW v, v = UpsertChainAnchor([view EXCEPT !.waiting = FALSE])
    PROVE  Good(v) /\ Follows(v) /\ ~v.waiting
<1> USE DEF OmInv
<1>0. /\ view \in View /\ view.cursor \in Nat /\ floor \in Nat /\ snap \in Fold /\ snap.seq \in Nat
      /\ view.anchor.seq \in Nat /\ view.rows \subseteq Log
  BY OmTypes DEF OmTyped
<1> DEFINE u == [view EXCEPT !.waiting = FALSE]
<1>1. /\ u \in View /\ u.rows = view.rows /\ u.anchor = view.anchor /\ u.cursor = view.cursor /\ u.declined = view.declined
      /\ u.head = view.head /\ u.vouched = view.vouched /\ u.alarms = view.alarms /\ u.at = view.at /\ ~u.waiting
  BY <1>0 DEF View
<1> HIDE DEF u
<1>2. CASE view.cursor + 1 < floor
  <2>1. floor = snap.seq + 1 /\ snap.seq > view.cursor
    BY <1>0, <1>2 DEF StreamsOK
  <2>2. v = [u EXCEPT !.anchor = snap, !.cursor = floor - 1]
    <3>1. view.anchor.seq < snap.seq
      BY <1>0, <2>1 DEF RowsOK
    <3> QED BY <1>1, <1>2, <3>1 DEF UpsertChainAnchor, u
  <2>3. /\ v.rows = view.rows /\ v.anchor = snap /\ v.cursor = snap.seq /\ v.declined = view.declined
        /\ v.head = view.head /\ v.vouched = view.vouched /\ v.alarms = view.alarms /\ v.at = view.at /\ ~v.waiting
        /\ v \in View
    <3>1. floor - 1 = snap.seq
      BY <1>0, <2>1
    <3>2. v = [u EXCEPT !.anchor = snap, !.cursor = snap.seq] /\ u \in View /\ snap \in Fold /\ snap.seq \in Nat
      BY <1>0, <1>1, <2>2, <3>1
    <3>3. /\ v \in View /\ v.rows = u.rows /\ v.anchor = snap /\ v.cursor = snap.seq /\ v.declined = u.declined /\ v.waiting = u.waiting
          /\ v.head = u.head /\ v.vouched = u.vouched /\ v.alarms = u.alarms /\ v.at = u.at
      BY ONLY <3>2 DEF View
    <3> QED BY <1>1, <3>3
  <2>4. RowsOK(v)
    <3>1. \A r \in v.rows : Len(r) \in Nat /\ Len(r) > 0 /\ Len(r) <= view.cursor
      BY <1>0, <2>3, LogLength DEF RowsOK
    <3>2. Len(snap.fold) = snap.seq
      BY DEF StreamsOK
    <3>3. \A r, q \in v.rows : Len(r) = Len(q) => r = q
      BY <2>3 DEF RowsOK
    <3>0. v.anchor.seq = snap.seq /\ snap.seq \in Nat /\ view.cursor \in Nat /\ view.cursor < snap.seq
      BY <1>0, <2>1, <2>3
    <3>4. \A r \in v.rows : ~(Len(r) >= v.anchor.seq)
      BY ONLY <3>0, <3>1
    <3>5. v.anchor.fold = snap.fold /\ v.cursor = snap.seq
      BY <2>3
    <3>6. \A r \in v.rows : Len(r) > 0 /\ Len(r) <= v.cursor
      BY ONLY <3>0, <3>1, <3>5
    <3>7. Len(v.anchor.fold) = v.anchor.seq /\ v.anchor.seq <= v.cursor
      BY ONLY <3>0, <3>2, <3>5
    <3> QED BY ONLY <3>3, <3>4, <3>6, <3>7 DEF RowsOK
  <2>5. Good(v)
    <3>1. origin.era = 0 => Begins(v.anchor.fold, origin.log) /\ \A r \in v.rows : Begins(r, origin.log)
      BY <2>3 DEF FirstEra
    <3>2. \A i \in (v.anchor.seq + 1)..v.cursor : FALSE
      BY <1>0, <2>3
    <3> QED BY <2>3, <2>4, <3>1, <3>2 DEF Good
  <2>6. view.cursor <= v.cursor /\ floor <= v.cursor + 1 /\ v.anchor.seq > view.cursor
    BY <1>0, <2>1, <2>3
  <2> QED BY <2>3, <2>5, <2>6 DEF Follows
<1>3. CASE ~(view.cursor + 1 < floor)
  <2>1. v = u
    BY <1>1, <1>3 DEF UpsertChainAnchor, u
  <2>2. RowsOK(v)
    BY <1>1, <2>1 DEF RowsOK
  <2>3. Good(v)
    <3>1. origin.era = 0 => Begins(v.anchor.fold, origin.log) /\ \A r \in v.rows : Begins(r, origin.log)
      BY <1>1, <2>1 DEF FirstEra
    <3> QED BY <1>1, <2>1, <2>2, <3>1 DEF Good, Through0
  <2>4. view.cursor <= v.cursor /\ floor <= v.cursor + 1
    BY <1>0, <1>1, <1>3, <2>1
  <2> QED BY <1>1, <2>1, <2>3, <2>4 DEF Follows
<1> QED BY <1>2, <1>3

\* ApplyEventsWithStats: a run of events that chains to what is there.
LEMMA AppliedGood ==
    ASSUME OmInv, NEW v, Good(v), Follows(v), NEW e \in Ends(v), NEW w, w = Applied(v, e)
    PROVE  /\ Good(w) /\ Follows(w) /\ w.cursor = Len(e) /\ Len(e) \in Nat /\ v.cursor < Len(e)
           /\ w.waiting = v.waiting /\ w.declined = v.declined /\ e \in objects
<1> USE DEF OmInv
<1>0. /\ v \in View /\ v.cursor \in Nat /\ v.anchor.seq \in Nat /\ v.anchor.fold \in Log /\ v.rows \subseteq Log
      /\ objects \subseteq Log /\ view.cursor \in Nat /\ floor \in Nat /\ v.anchor.seq <= v.cursor
  BY OmTypes DEF Good, View, Fold, RowsOK
<1>1. /\ e \in objects /\ e \in Log /\ Len(e) \in Nat /\ Len(e) > v.cursor
      /\ Run(e, v.cursor + 1) \subseteq objects /\ Chained(v, SubSeq(e, 1, v.cursor + 1))
  BY <1>0, LogLength DEF Ends, Served
<1>2. /\ w.rows = v.rows \cup Run(e, v.cursor + 1) /\ w.cursor = Len(e) /\ w.anchor = v.anchor /\ w.declined = v.declined
      /\ w.head = v.head /\ w.vouched = v.vouched /\ w.alarms = v.alarms /\ w.at = v.at /\ w.waiting = v.waiting
      /\ w \in View
  <2>1. Run(e, v.cursor + 1) \subseteq Log
    BY <1>0, <1>1
  <2>2. w = [v EXCEPT !.rows = v.rows \cup Run(e, v.cursor + 1), !.cursor = Len(e)]
    BY DEF Applied
  <2>3. v.rows \cup Run(e, v.cursor + 1) \in SUBSET Log
    BY <1>0, <2>1
  <2>4. v \in View /\ Len(e) \in Nat
    BY <1>0, <1>1
  <2> QED BY ONLY <2>2, <2>3, <2>4 DEF View
<1>3. \A r \in w.rows : r \in v.rows \/ \E i \in (v.cursor + 1)..Len(e) : r = SubSeq(e, 1, i)
  BY <1>2 DEF Run
<1>4. \A i \in (v.cursor + 1)..Len(e) : /\ SubSeq(e, 1, i) \in w.rows /\ SubSeq(e, 1, i) \in objects
                                     /\ Len(SubSeq(e, 1, i)) = i
  <2> TAKE i \in (v.cursor + 1)..Len(e)
  <2>1. i \in Nat /\ i <= Len(e)
    BY <1>0, <1>1
  <2>2. SubSeq(e, 1, i) \in Run(e, v.cursor + 1)
    BY DEF Run
  <2> QED BY <1>1, <1>2, <2>1, <2>2, Begin
<1>5. \A i \in Nat, j \in Nat : j <= i /\ i <= Len(e) => SubSeq(SubSeq(e, 1, i), 1, j) = SubSeq(e, 1, j)
  BY <1>1, BeginTwice
<1>6. \A r \in v.rows : Len(r) \in Nat /\ Len(r) > 0 /\ Len(r) <= v.cursor
  BY <1>0, LogLength DEF Good, RowsOK
<1>7. /\ SubSeq(e, 1, v.anchor.seq) = v.anchor.fold
      /\ \A j \in (v.anchor.seq + 1)..v.cursor : SubSeq(e, 1, j) \in v.rows
  <2> DEFINE c1 == SubSeq(e, 1, v.cursor + 1)
             before == SubSeq(e, 1, v.cursor)
  <2>1. Len(c1) = v.cursor + 1 /\ before \in Log /\ Len(before) = v.cursor
    BY <1>0, <1>1, Begin
  <2>2. SubSeq(c1, 1, Len(c1) - 1) = before
    BY <1>0, <1>1, <1>5, <2>1
  <2>3. Len(c1) = 1 \/ before \in v.rows \/ v.anchor = [seq |-> v.cursor, fold |-> before]
    <3>1. v.cursor + 1 - 1 = v.cursor
      BY <1>0
    <3>2. Len(c1) - 1 = v.cursor /\ Chained(v, c1)
      BY <1>0, <1>1, <2>1
    <3> HIDE DEF c1
    <3> QED BY <2>2, <3>2 DEF Chained
  <2>4. CASE Len(c1) = 1
    <3>1. v.cursor = 0 /\ v.anchor.seq = 0
      <4>1. v.cursor + 1 = 1
        BY <2>1, <2>4
      <4> QED BY ONLY <1>0, <4>1
    <3>3. Len(v.anchor.fold) = 0
      BY <3>1 DEF Good, RowsOK
    <3>2. before = v.anchor.fold
      <4> HIDE DEF before
      <4> QED BY <1>0, <2>1, <3>1, <3>3, SameLog
    <3> QED BY <3>1, <3>2
  <2>5. CASE before \in v.rows
    <3>1. /\ SubSeq(before, 1, v.anchor.seq) = v.anchor.fold
          /\ \A j \in (v.anchor.seq + 1)..v.cursor : SubSeq(before, 1, j) \in v.rows
      <4>1. Len(before) = v.cursor /\ v.anchor.seq <= v.cursor
        BY <1>0, <2>1
      <4>2. \A x \in v.rows : Len(x) >= v.anchor.seq =>
              /\ SubSeq(x, 1, v.anchor.seq) = v.anchor.fold
              /\ \A j \in (v.anchor.seq + 1)..Len(x) : SubSeq(x, 1, j) \in v.rows
        BY DEF Good, RowsOK
      <4>3. Len(before) >= v.anchor.seq
        BY <1>0, <4>1
      <4> QED BY ONLY <2>5, <4>1, <4>2, <4>3
    <3>2. SubSeq(before, 1, v.anchor.seq) = SubSeq(e, 1, v.anchor.seq)
      BY <1>0, <1>1, <1>5
    <3>3. \A j \in (v.anchor.seq + 1)..v.cursor : SubSeq(before, 1, j) = SubSeq(e, 1, j)
      BY <1>0, <1>1, <1>5
    <3> QED BY <3>1, <3>2, <3>3
  <2>6. CASE v.anchor = [seq |-> v.cursor, fold |-> before]
    BY <1>0, <2>6
  <2> QED BY <2>3, <2>4, <2>5, <2>6
<1>8. RowsOK(w)
  <2>1. \A r \in w.rows : Len(r) > 0 /\ Len(r) <= w.cursor
    BY <1>0, <1>1, <1>2, <1>3, <1>4, <1>6
  <2>2. \A r, q \in w.rows : Len(r) = Len(q) => r = q
    <3> SUFFICES ASSUME NEW r \in w.rows, NEW q \in w.rows, Len(r) = Len(q) PROVE r = q
      OBVIOUS
    <3>1. CASE r \in v.rows /\ q \in v.rows
      BY <3>1 DEF Good, RowsOK
    <3>2. CASE r \notin v.rows \/ q \notin v.rows
      BY <1>0, <1>1, <1>3, <1>4, <1>6, <3>2
    <3> QED BY <3>1, <3>2
  <2>3. ASSUME NEW r \in w.rows, Len(r) >= w.anchor.seq
        PROVE  /\ SubSeq(r, 1, w.anchor.seq) = w.anchor.fold
               /\ \A i \in (w.anchor.seq + 1)..Len(r) : SubSeq(r, 1, i) \in w.rows
    <3>1. CASE r \in v.rows
      <4>1. /\ SubSeq(r, 1, v.anchor.seq) = v.anchor.fold
            /\ \A i \in (v.anchor.seq + 1)..Len(r) : SubSeq(r, 1, i) \in v.rows
        BY <1>2, <2>3, <3>1 DEF Good, RowsOK
      <4> QED BY <1>2, <4>1
    <3>2. CASE r \notin v.rows
      <4>1. PICK i \in (v.cursor + 1)..Len(e) : r = SubSeq(e, 1, i)
        BY <1>3, <3>2
      <4>2. Len(r) = i
        BY <1>4, <4>1
      <4>3. SubSeq(r, 1, v.anchor.seq) = SubSeq(e, 1, v.anchor.seq)
        BY <1>0, <1>1, <1>5, <4>1
      <4>4. ASSUME NEW j \in (v.anchor.seq + 1)..i PROVE SubSeq(r, 1, j) \in w.rows
        <5>1. SubSeq(r, 1, j) = SubSeq(e, 1, j)
          BY <1>0, <1>1, <1>5, <4>1
        <5>2. CASE j <= v.cursor
          <6>1. j \in (v.anchor.seq + 1)..v.cursor
            BY <1>0, <1>1, <5>2
          <6> QED BY <1>2, <1>7, <5>1, <6>1
        <5>3. CASE j > v.cursor
          <6>1. j \in (v.cursor + 1)..Len(e)
            BY <1>0, <1>1, <5>3
          <6> QED BY <1>4, <5>1, <6>1
        <5> QED BY <1>0, <5>2, <5>3
      <4> QED BY <1>2, <1>7, <4>2, <4>3, <4>4
    <3> QED BY <3>1, <3>2
  <2>4. Len(w.anchor.fold) = w.anchor.seq /\ w.anchor.seq <= w.cursor
    BY <1>0, <1>1, <1>2 DEF Good, RowsOK
  <2> QED BY <2>1, <2>2, <2>3, <2>4 DEF RowsOK
<1>9. Good(w)
  <2>1. origin.era = 0 => Begins(w.anchor.fold, origin.log) /\ \A r \in w.rows : Begins(r, origin.log)
    BY <1>2, <1>3, <1>4 DEF Good, FirstEra
  <2>2. (omen.honest /\ origin.era = 0 /\ 0 \notin w.declined) =>
          \A i \in (w.anchor.seq + 1)..w.cursor : \E r \in w.rows : Len(r) = i
    <3> SUFFICES ASSUME omen.honest, origin.era = 0, 0 \notin w.declined, NEW i \in (w.anchor.seq + 1)..w.cursor
                 PROVE  \E r \in w.rows : Len(r) = i
      OBVIOUS
    <3>1. CASE i <= v.cursor
      <4>1. \E r \in v.rows : Len(r) = i
        BY <1>0, <1>2, <3>1 DEF Good
      <4> QED BY <1>2, <4>1
    <3>2. CASE i > v.cursor
      <4>1. i \in (v.cursor + 1)..Len(e)
        BY <1>0, <1>1, <1>2, <3>2
      <4> QED BY <1>4, <4>1
    <3> QED BY <1>0, <1>1, <1>2, <3>1, <3>2
  <2> QED BY <1>2, <1>8, <2>1, <2>2 DEF Good
<1>10. Follows(w)
  <2>1. \A r \in w.rows : r \in view.rows \/ Len(r) > view.cursor
    BY <1>0, <1>1, <1>3, <1>4 DEF Follows
  <2> QED BY <1>0, <1>1, <1>2, <2>1 DEF Follows
<1> QED BY <1>1, <1>2, <1>9, <1>10

\* What could not be applied is left as a conflict; the rows stay.
LEMMA ConflictsGood ==
    ASSUME OmInv, NEW v, Good(v), Follows(v), NEW w, w = LeaveConflicts(v)
    PROVE  /\ Good(w) /\ Follows(w) /\ w.cursor = v.cursor /\ w.waiting = v.waiting
           /\ v.declined \subseteq w.declined
<1> DEFINE D == v.declined \cup {Len(e) : e \in {x \in Served(v) : Len(x) = v.cursor + 1}}
                           \cup {Len(e) : e \in {x \in objects \ v.rows : Len(x) \in {Len(r) : r \in v.rows}
                                                                         /\ Len(x) > view.cursor /\ Len(x) <= cap}}
<1>1. v \in View /\ objects \subseteq Log
  BY OmTypes DEF Good, OmInv
<1>2. \A e \in objects : Len(e) \in Nat
  BY <1>1, LogLength
<1>3. D \in SUBSET Nat
  <2>1. v.declined \subseteq Nat
    BY <1>1 DEF View
  <2> QED BY <1>2, <2>1 DEF Served
<1>4. w = [v EXCEPT !.declined = D]
  BY DEF LeaveConflicts
<1>5. v.declined \subseteq D
  OBVIOUS
<1> HIDE DEF D
<1>6. /\ w \in View /\ w.rows = v.rows /\ w.anchor = v.anchor /\ w.cursor = v.cursor /\ w.declined = D /\ w.waiting = v.waiting
      /\ w.head = v.head /\ w.vouched = v.vouched /\ w.alarms = v.alarms /\ w.at = v.at
  BY ONLY <1>1, <1>3, <1>4 DEF View
<1>7. RowsOK(w)
  BY <1>6 DEF Good, RowsOK
<1>8. Good(w)
  BY <1>5, <1>6, <1>7 DEF Good
<1>9. Follows(w)
  BY <1>6 DEF Follows
<1> QED BY <1>5, <1>6, <1>8, <1>9

\* An event consumed by a quarantine, and one whose key is not there.
LEMMA DeclineGood ==
    ASSUME OmInv, NEW v, Good(v), Follows(v), NEW o \in Declines(v)
    PROVE  /\ Good(o.view) /\ Follows(o.view) /\ o.left \in Nat
           /\ o.view.waiting \/ 0 \in o.view.declined
<1>0. /\ v \in View /\ v.cursor \in Nat /\ v.anchor.seq \in Nat /\ view.cursor \in Nat /\ floor \in Nat
      /\ v.rows \subseteq Log /\ v.declined \subseteq Nat
  BY OmTypes DEF OmInv, Good, View, Fold
<1>1. omen.declines \in Nat /\ omen.declines # 0
  <2>1. omen \in Omen1
    BY DEF OmInv, OmTyped
  <2> QED BY <2>1 DEF Omen1, Declines
<1>2. PICK e \in {x \in Served(v) : Len(x) = v.cursor + 1 /\ Chained(v, x)} :
         /\ o.view \in {LeaveConflicts([v EXCEPT !.cursor = Len(e), !.declined = @ \cup {0}]), [v EXCEPT !.waiting = TRUE]}
         /\ o.left = omen.declines - 1
  <2> DEFINE E == {x \in Served(v) : Len(x) = v.cursor + 1 /\ Chained(v, x)}
             W(e) == {LeaveConflicts([v EXCEPT !.cursor = Len(e), !.declined = @ \cup {0}]), [v EXCEPT !.waiting = TRUE]}
  <2>1. o \in {[view |-> w, left |-> omen.declines - 1] : w \in UNION {W(e) : e \in E}}
    BY <1>1 DEF Declines
  <2> HIDE DEF E, W
  <2>2. PICK w \in UNION {W(e) : e \in E} : o = [view |-> w, left |-> omen.declines - 1]
    BY <2>1
  <2>3. PICK e \in E : w \in W(e)
    BY <2>2
  <2> QED BY <2>2, <2>3 DEF E, W
<1>3. CASE o.view = [v EXCEPT !.waiting = TRUE]
  <2> DEFINE w == o.view
  <2>0. w = [v EXCEPT !.waiting = TRUE]
    BY <1>3
  <2> HIDE DEF w
  <2>1. /\ w \in View /\ w.rows = v.rows /\ w.anchor = v.anchor /\ w.cursor = v.cursor /\ w.declined = v.declined /\ w.waiting
        /\ w.head = v.head /\ w.vouched = v.vouched /\ w.alarms = v.alarms /\ w.at = v.at
    BY ONLY <1>0, <2>0 DEF View
  <2>2. RowsOK(w)
    BY <2>1 DEF Good, RowsOK
  <2>3. Good(w)
    BY <2>1, <2>2 DEF Good
  <2>4. Follows(w)
    BY <2>1 DEF Follows
  <2> QED BY <1>1, <1>2, <2>1, <2>3, <2>4 DEF w
<1>4. CASE o.view = LeaveConflicts([v EXCEPT !.cursor = Len(e), !.declined = @ \cup {0}])
  <2> DEFINE u == [v EXCEPT !.cursor = Len(e), !.declined = @ \cup {0}]
             n == v.cursor + 1
             D == v.declined \cup {0}
  <2>1. Len(e) = n /\ n \in Nat /\ D \in SUBSET Nat /\ n > v.cursor /\ 0 \in D
    BY <1>0, <1>2
  <2>2. u = [v EXCEPT !.cursor = n, !.declined = D]
    BY <2>1
  <2> HIDE DEF u, n, D
  <2>3. /\ u \in View /\ u.rows = v.rows /\ u.anchor = v.anchor /\ u.cursor = n /\ u.declined = D /\ u.waiting = v.waiting
        /\ u.head = v.head /\ u.vouched = v.vouched /\ u.alarms = v.alarms /\ u.at = v.at
    BY ONLY <1>0, <2>1, <2>2 DEF View
  <2>4. RowsOK(u)
    <3>1. \A r \in u.rows : Len(r) > 0 /\ Len(r) <= u.cursor
      <4>1. \A r \in v.rows : Len(r) \in Nat /\ Len(r) > 0 /\ Len(r) <= v.cursor
        BY <1>0, LogLength DEF Good, RowsOK
      <4> QED BY <1>0, <2>1, <2>3, <4>1
    <3>2. Len(u.anchor.fold) = u.anchor.seq /\ u.anchor.seq <= u.cursor
      BY <1>0, <2>1, <2>3 DEF Good, RowsOK
    <3> QED BY <2>3, <3>1, <3>2 DEF Good, RowsOK
  <2>5. Good(u)
    BY <2>1, <2>3, <2>4 DEF Good
  <2>6. view.cursor <= u.cursor /\ floor <= u.cursor + 1
    BY <1>0, <2>1, <2>3 DEF Follows
  <2>7. Follows(u)
    BY <2>3, <2>6 DEF Follows
  <2>8. o.view = LeaveConflicts(u)
    BY <1>4 DEF u
  <2>9. Good(o.view) /\ Follows(o.view) /\ u.declined \subseteq o.view.declined
    BY <2>5, <2>7, <2>8, ConflictsGood
  <2> QED BY <1>1, <1>2, <2>1, <2>3, <2>9
<1> QED BY <1>2, <1>3, <1>4

\* On an honest hub a run that cannot be continued reaches what was pushed.
LEMMA Reaches ==
    ASSUME OmInv, NEW v, Good(v), Follows(v), omen.honest, origin.era = 0, 0 \notin v.declined
    PROVE  /\ Ends(v) = {} => origin.pushed <= v.cursor
           /\ \A e \in Ends(v) :
                (\A x \in Ends(v) : ~(Len(x) > Len(e) /\ SubSeq(x, 1, Len(e)) = e)) => origin.pushed <= Len(e)
<1> USE DEF OmInv
<1>0. /\ v \in View /\ v.cursor \in Nat /\ v.anchor.seq \in Nat /\ v.anchor.fold \in Log /\ v.rows \subseteq Log
      /\ objects \subseteq Log /\ floor \in Nat /\ v.anchor.seq <= v.cursor /\ floor <= v.cursor + 1
      /\ origin.log \in Log /\ origin.pushed \in Nat /\ Len(origin.log) \in Nat /\ origin.pushed <= Len(origin.log)
      /\ v.anchor \in Fold /\ MaxSeq \in Nat /\ cap = MaxSeq /\ Len(origin.log) <= MaxSeq
  <2>1. Len(origin.log) + omen.mints <= MaxSeq /\ omen.mints \in Nat
    BY OmTypes DEF FirstEra
  <2>2. v \in View /\ v.anchor.seq <= v.cursor /\ floor <= v.cursor + 1
    BY DEF Good, RowsOK, Follows
  <2>3. v.cursor \in Nat /\ v.anchor \in Fold /\ v.anchor.seq \in Nat /\ v.anchor.fold \in Log /\ v.rows \subseteq Log
    BY <2>2 DEF View, Fold
  <2>4. origin.pushed <= Len(origin.log) /\ cap = MaxSeq
    BY DEF StreamsOK
  <2>5. /\ objects \subseteq Log /\ floor \in Nat /\ origin.log \in Log /\ origin.pushed \in Nat
        /\ Len(origin.log) \in Nat /\ MaxSeq \in Nat
    BY OmTypes
  <2>6. Len(origin.log) <= MaxSeq
    BY ONLY <2>1, <2>5
  <2> QED BY ONLY <2>2, <2>3, <2>4, <2>5, <2>6
<1>1. \A i \in Nat : i <= Len(origin.log) => SubSeq(origin.log, 1, i) \in Log /\ Len(SubSeq(origin.log, 1, i)) = i
  BY <1>0, Begin
<1>2. \A i, j \in Nat : j <= i /\ i <= Len(origin.log) =>
        SubSeq(SubSeq(origin.log, 1, i), 1, j) = SubSeq(origin.log, 1, j)
  BY <1>0, BeginTwice
<1>3. \A i \in (v.cursor + 1)..origin.pushed : SubSeq(origin.log, 1, i) \in Served(v)
  <2> TAKE i \in (v.cursor + 1)..origin.pushed
  <2>1. i \in 1..origin.pushed /\ i >= floor /\ i > v.cursor /\ i <= Len(origin.log) /\ i <= cap
    BY <1>0
  <2>2. SubSeq(origin.log, 1, i) \in objects
    BY <2>1 DEF FirstEra
  <2> QED BY <1>1, <2>1, <2>2 DEF Served
<1>4. ASSUME v.cursor < Len(origin.log) PROVE Chained(v, SubSeq(origin.log, 1, v.cursor + 1))
  <2> DEFINE c1 == SubSeq(origin.log, 1, v.cursor + 1)
             before == SubSeq(origin.log, 1, v.cursor)
  <2>1. c1 \in Log /\ Len(c1) = v.cursor + 1 /\ before \in Log /\ Len(before) = v.cursor /\ Len(c1) - 1 = v.cursor
    BY <1>0, <1>1, <1>4
  <2>2. SubSeq(c1, 1, v.cursor) = before
    BY <1>0, <1>2, <1>4
  <2>3. Len(c1) = 1 \/ before \in v.rows \/ v.anchor = [seq |-> v.cursor, fold |-> before]
    <3>1. CASE v.cursor = 0
      BY <2>1, <3>1
    <3>2. CASE v.cursor > v.anchor.seq
      <4>1. v.cursor \in (v.anchor.seq + 1)..v.cursor
        BY <1>0, <3>2
      <4>2. PICK r \in v.rows : Len(r) = v.cursor
        BY <4>1 DEF Good
      <4>3. r = before
        BY <4>2 DEF Good, Begins
      <4> QED BY <4>3
    <3>3. CASE v.cursor = v.anchor.seq
      <4>1. v.anchor.fold = before
        BY <3>3 DEF Good, RowsOK, Begins
      <4> QED BY <1>0, <3>3, <4>1 DEF Fold
    <3> QED BY <1>0, <3>1, <3>2, <3>3
  <2> HIDE DEF c1, before
  <2>4. Chained(v, c1)
    BY <2>1, <2>2, <2>3 DEF Chained
  <2> QED BY <2>4 DEF c1
<1>5. ASSUME NEW k \in (v.cursor + 1)..origin.pushed,
             \A i \in (v.cursor + 1)..k : SubSeq(origin.log, 1, i) \in Served(v)
      PROVE  SubSeq(origin.log, 1, k) \in Ends(v)
  <2> DEFINE e == SubSeq(origin.log, 1, k)
  <2>1. k \in Nat /\ k <= Len(origin.log) /\ v.cursor + 1 <= k /\ v.cursor < Len(origin.log)
    BY <1>0
  <2>2. e \in Log /\ Len(e) = k /\ e \in Served(v)
    BY <1>0, <1>1, <1>5, <2>1
  <2>3. \A i \in (v.cursor + 1)..k : SubSeq(e, 1, i) = SubSeq(origin.log, 1, i)
    BY <1>0, <1>2, <2>1
  <2>4. v.cursor + 1 \in (v.cursor + 1)..k
    BY <1>0, <2>1
  <2>5. Chained(v, SubSeq(e, 1, v.cursor + 1))
    BY <1>4, <2>1, <2>3, <2>4
  <2> HIDE DEF e
  <2>6. Run(e, v.cursor + 1) \subseteq Served(v)
    BY <1>5, <2>2, <2>3 DEF Run
  <2>7. e \in Ends(v)
    BY <2>2, <2>5, <2>6 DEF Ends
  <2> QED BY <2>7 DEF e
<1>6. ASSUME Ends(v) = {} PROVE origin.pushed <= v.cursor
  <2> SUFFICES ASSUME ~(origin.pushed <= v.cursor) PROVE FALSE
    OBVIOUS
  <2>1. v.cursor + 1 \in (v.cursor + 1)..origin.pushed
    BY <1>0
  <2>2. \A i \in (v.cursor + 1)..(v.cursor + 1) : i \in (v.cursor + 1)..origin.pushed
    BY <1>0, <2>1
  <2> QED BY <1>3, <1>5, <1>6, <2>1, <2>2
<1>7. ASSUME NEW e \in Ends(v), \A x \in Ends(v) : ~(Len(x) > Len(e) /\ SubSeq(x, 1, Len(e)) = e)
      PROVE  origin.pushed <= Len(e)
  <2>1. e \in objects /\ e \in Log /\ Len(e) \in Nat /\ Len(e) > v.cursor
    BY <1>0, LogLength DEF Ends, Served
  <2>2. Len(e) <= Len(origin.log) /\ e = SubSeq(origin.log, 1, Len(e))
    BY <2>1 DEF FirstEra, Begins
  <2> SUFFICES ASSUME ~(origin.pushed <= Len(e)) PROVE FALSE
    OBVIOUS
  <2>3. origin.pushed \in (v.cursor + 1)..origin.pushed
    BY <1>0, <2>1
  <2>4. SubSeq(origin.log, 1, origin.pushed) \in Ends(v)
    BY <1>3, <1>5, <2>3
  <2>5. Len(SubSeq(origin.log, 1, origin.pushed)) = origin.pushed
    BY <1>0, <1>1
  <2>6. SubSeq(SubSeq(origin.log, 1, origin.pushed), 1, Len(e)) = e
    BY <1>0, <1>2, <2>1, <2>2
  <2>7. origin.pushed > Len(e)
    BY <1>0, <2>1
  <2> DEFINE x == SubSeq(origin.log, 1, origin.pushed)
  <2>8. x \in Ends(v) /\ Len(x) > Len(e) /\ SubSeq(x, 1, Len(e)) = e
    BY <2>4, <2>5, <2>6, <2>7
  <2> HIDE DEF x
  <2> QED BY <1>7, <2>8
<1> QED BY <1>6, <1>7

\* pullAndApplyEvents: every way a pull can end.
LEMMA ThroughGood ==
    ASSUME OmInv, NEW v, Good(v), Follows(v), ~v.waiting, NEW o \in Through(v)
    PROVE  /\ Good(o.view) /\ Follows(o.view) /\ o.left \in Nat
           /\ (omen.honest /\ origin.era = 0 /\ 0 \notin o.view.declined /\ ~o.view.waiting) => origin.pushed <= o.view.cursor
<1> DEFINE ends == Ends(v)
           full == {e \in ends : \A x \in ends : ~(Len(x) > Len(e) /\ SubSeq(x, 1, Len(e)) = e)}
<1>0. omen.declines \in Nat /\ cap \in Nat /\ \A e \in ends : e \in Log /\ Len(e) \in Nat /\ Len(e) <= cap
  <2>1. omen \in Omen1 /\ objects \subseteq Log /\ cap \in Nat
    BY OmTypes DEF OmInv, OmTyped
  <2> QED BY <2>1, LogLength DEF Omen1, Ends, Served
<1>1. ASSUME full = {} PROVE ends = {}
  <2> SUFFICES ASSUME ends # {} PROVE FALSE
    OBVIOUS
  <2> DEFINE S == {Len(e) : e \in ends}
  <2>0. S \in SUBSET Nat /\ S # {} /\ \A n \in S : n <= cap
    <3> HIDE DEF ends
    <3> QED BY <1>0
  <2> HIDE DEF S
  <2>1. \E n \in S : \A m \in S : m <= n
    BY <1>0, <2>0, Largest
  <2>2. PICK e \in ends : \A x \in ends : Len(x) <= Len(e)
    <3> HIDE DEF ends
    <3> QED BY <2>1 DEF S
  <2>3. e \in full
    BY <1>0, <2>2
  <2> QED BY <1>1, <2>3
<1>2. \/ full = {} /\ o.view = LeaveConflicts(v) /\ o.left = omen.declines
      \/ \E e \in full : o.view = LeaveConflicts(Applied(v, e)) /\ o.left = omen.declines
      \/ o \in Declines(v)
      \/ \E e \in ends : o \in Declines(Applied(v, e))
  <2> HIDE DEF full
  <2>1. Through(v) = (IF full = {} THEN {[view |-> LeaveConflicts(v), left |-> omen.declines]}
                      ELSE {[view |-> LeaveConflicts(Applied(v, e)), left |-> omen.declines] : e \in full})
                     \cup Declines(v) \cup UNION {Declines(Applied(v, e)) : e \in ends}
    BY DEF Through, full
  <2> HIDE DEF ends
  <2> QED BY <2>1
<1> DEFINE reached == (omen.honest /\ origin.era = 0 /\ 0 \notin o.view.declined /\ ~o.view.waiting) => origin.pushed <= o.view.cursor
<1>3. CASE full = {} /\ o.view = LeaveConflicts(v) /\ o.left = omen.declines
  <2>1. Good(o.view) /\ Follows(o.view) /\ o.view.cursor = v.cursor /\ v.declined \subseteq o.view.declined
    BY <1>3, ConflictsGood
  <2>2. reached
    BY <1>1, <1>3, <2>1, Reaches
  <2> QED BY <1>0, <1>3, <2>1, <2>2
<1>4. CASE \E e \in full : o.view = LeaveConflicts(Applied(v, e)) /\ o.left = omen.declines
  <2>1. PICK e \in full : o.view = LeaveConflicts(Applied(v, e)) /\ o.left = omen.declines
    BY <1>4
  <2> DEFINE w == Applied(v, e)
  <2>2. Good(w) /\ Follows(w) /\ w.cursor = Len(e) /\ w.declined = v.declined
    BY AppliedGood
  <2> HIDE DEF w
  <2>3. Good(o.view) /\ Follows(o.view) /\ o.view.cursor = w.cursor /\ w.declined \subseteq o.view.declined
    BY <2>1, <2>2, ConflictsGood DEF w
  <2>4. reached
    <3> SUFFICES ASSUME omen.honest, origin.era = 0, 0 \notin o.view.declined PROVE origin.pushed <= o.view.cursor
      OBVIOUS
    <3>1. 0 \notin v.declined
      BY <2>2, <2>3
    <3>2. origin.pushed <= Len(e)
      BY <3>1, Reaches
    <3> QED BY <2>2, <2>3, <3>2
  <2> QED BY <1>0, <2>1, <2>3, <2>4
<1>5. CASE o \in Declines(v)
  BY <1>5, DeclineGood
<1>6. CASE \E e \in ends : o \in Declines(Applied(v, e))
  <2>1. PICK e \in ends : o \in Declines(Applied(v, e))
    BY <1>6
  <2> DEFINE w == Applied(v, e)
  <2>2. Good(w) /\ Follows(w)
    BY AppliedGood
  <2>3. o \in Declines(w)
    BY <2>1
  <2> HIDE DEF w
  <2> QED BY <2>2, <2>3, DeclineGood
<1> QED BY <1>2, <1>3, <1>4, <1>5, <1>6

\* A pull keeps the invariant.
LEMMA PullKeeps == OmInv /\ pullAndApplyEvents => OmInv'
<1> SUFFICES ASSUME OmInv, pullAndApplyEvents PROVE OmInv'
  OBVIOUS
<1> USE DEF OmInv
<1> DEFINE v == UpsertChainAnchor([view EXCEPT !.waiting = FALSE])
<1>1. PICK o \in Through(v) : /\ view' = [o.view EXCEPT !.at = "pulled"] /\ omen' = [omen EXCEPT !.declines = o.left]
  BY DEF pullAndApplyEvents
<1>2. UNCHANGED <<origin, published, objects, floor, snap, cap>>
  BY DEF pullAndApplyEvents
<1>3. Good(v) /\ Follows(v) /\ ~v.waiting
  BY AnchorGood
<1> HIDE DEF v
<1>4. /\ Good(o.view) /\ Follows(o.view) /\ o.left \in Nat
      /\ (omen.honest /\ origin.era = 0 /\ 0 \notin o.view.declined /\ ~o.view.waiting) => origin.pushed <= o.view.cursor
  BY <1>3, ThroughGood
<1>5. o.view \in View
  BY <1>4 DEF Good
<1>6. /\ view' \in View /\ view'.rows = o.view.rows /\ view'.anchor = o.view.anchor /\ view'.cursor = o.view.cursor
      /\ view'.declined = o.view.declined /\ view'.waiting = o.view.waiting /\ view'.head = o.view.head
      /\ view'.vouched = o.view.vouched /\ view'.alarms = o.view.alarms
  BY ONLY <1>1, <1>5 DEF View
<1>7. omen \in Omen1 /\ omen' \in Omen1 /\ omen'.honest = omen.honest /\ omen'.mints = omen.mints
  <2>1. omen \in Omen1
    BY DEF OmTyped
  <2>2. omen' = [omen EXCEPT !.declines = o.left] /\ o.left \in Nat
    BY <1>1, <1>4
  <2> QED BY ONLY <2>1, <2>2 DEF Omen1
<1>8. OmTyped'
  BY <1>2, <1>6, <1>7 DEF OmTyped
<1>9. StreamsOK'
  BY <1>2, <1>7 DEF StreamsOK
<1>10. RowsOK(view)'
  BY <1>4, <1>6 DEF Good, RowsOK
<1>11. FirstEra'
  <2>1. origin.era = 0 => Begins(view'.anchor.fold, origin.log) /\ \A r \in view'.rows : Begins(r, origin.log)
    BY <1>4, <1>6 DEF Good
  <2> QED BY <1>2, <1>7, <2>1 DEF FirstEra
<1>12. view.cursor \in Nat /\ view.vouched \in Nat /\ view.anchor.seq \in Nat /\ DOMAIN published = 1..Len(published)
       /\ o.view.rows \subseteq Log /\ o.view.cursor \in Nat /\ view.head.seq \in Nat /\ origin.pushed \in Nat /\ o.view.anchor.seq \in Nat
  BY <1>5, OmTypes DEF View, Fold
<1>13. PromiseOK'
  <2>1. view'.head = view.head /\ view'.vouched = view.vouched /\ view.cursor <= view'.cursor
    BY <1>4, <1>6 DEF Follows
  <2>2. view'.vouched <= view'.cursor
    BY <1>6, <1>12, <2>1 DEF PromiseOK
  <2>3. Vouched'
    <3> SUFFICES ASSUME view.vouched > 0
                 PROVE  \E i \in DOMAIN published :
                           /\ published[i].seq = view.vouched
                           /\ \A r \in view'.rows : Len(r) <= view.vouched /\ (origin.era = 0 \/ Len(r) > view'.anchor.seq)
                                                    => r = SubSeq(published[i].fold, 1, Len(r))
      BY <1>2, <2>1 DEF Vouched
    <3>1. PICK i \in DOMAIN published :
             /\ published[i].seq = view.vouched
             /\ \A r \in view.rows : Len(r) <= view.vouched /\ (origin.era = 0 \/ Len(r) > view.anchor.seq)
                                      => r = SubSeq(published[i].fold, 1, Len(r))
      BY DEF PromiseOK, Vouched
    <3>2. ASSUME NEW r \in view'.rows, Len(r) <= view.vouched, origin.era = 0 \/ Len(r) > view'.anchor.seq
          PROVE  r = SubSeq(published[i].fold, 1, Len(r))
      <4>1. Len(r) \in Nat
        BY <1>6, <1>12, LogLength
      <4>2. view.vouched <= view.cursor
        BY DEF PromiseOK
      <4>3. r \in view.rows
        <5>1. r \in view.rows \/ Len(r) > view.cursor
          BY <1>4, <1>6 DEF Follows
        <5> QED BY <1>12, <3>2, <4>1, <4>2, <5>1
      <4>4. origin.era = 0 \/ Len(r) > view.anchor.seq
        <5>1. view'.anchor = view.anchor \/ view'.anchor.seq > view.cursor
          BY <1>4, <1>6 DEF Follows
        <5>2. view'.anchor.seq \in Nat
          BY <1>6, <1>12
        <5> QED BY <1>12, <3>2, <4>1, <4>2, <5>1, <5>2
      <4> QED BY <3>1, <3>2, <4>3, <4>4
    <3> QED BY <3>1, <3>2
  <2>4. view.head.seq > 0 => \E i \in 1..Len(published) :
           published[i].seq = view.head.seq /\ published[i].fold = view.head.fold
    BY DEF PromiseOK
  <2> QED BY <1>2, <2>1, <2>2, <2>3, <2>4 DEF PromiseOK
<1>14. Through0(view)'
  <2> SUFFICES ASSUME omen.honest, origin.era = 0, 0 \notin o.view.declined
               PROVE  /\ \A i \in (o.view.anchor.seq + 1)..o.view.cursor : \E r \in o.view.rows : Len(r) = i
                      /\ ~o.view.waiting => o.view.cursor >= view.head.seq
    <3>1. view'.head = view.head
      BY <1>4, <1>6 DEF Follows
    <3> QED BY <1>2, <1>6, <1>7, <3>1 DEF Through0
  <2>1. \A i \in (o.view.anchor.seq + 1)..o.view.cursor : \E r \in o.view.rows : Len(r) = i
    BY <1>4 DEF Good
  <2>2. view.head.seq <= origin.pushed
    <3>1. CASE view.head.seq = 0
      BY <1>12, <3>1
    <3>2. CASE view.head.seq > 0
      BY <3>2 DEF PromiseOK, FirstEra
    <3> QED BY <1>12, <3>1, <3>2
  <2> QED BY <1>4, <1>12, <2>1, <2>2
<1> QED BY <1>8, <1>9, <1>10, <1>11, <1>13, <1>14

-----------------------------------------------------------------------------
(* The verdict.                                                            *)

\* DeviceFold: how far the rows go without a gap, and the contents they fold.
LEMMA FoldTop ==
    ASSUME OmInv, NEW upto \in Nat
    PROVE  /\ DeviceFold(upto).seq \in Nat /\ view.anchor.seq <= DeviceFold(upto).seq
           /\ DeviceFold(upto).seq <= MaxSeen(upto, view.anchor.seq + 1)
           /\ \A i \in (view.anchor.seq + 1)..DeviceFold(upto).seq : i \in SeqsHeld
           /\ \A n \in Nat : /\ view.anchor.seq <= n /\ n <= MaxSeen(upto, view.anchor.seq + 1)
                             /\ \A i \in (view.anchor.seq + 1)..n : i \in SeqsHeld
                             => n <= DeviceFold(upto).seq
           /\ DeviceFold(upto).fold =
                view.anchor.fold \o [i \in 1..(DeviceFold(upto).seq - view.anchor.seq) |->
                                       RowAt(view.anchor.seq + i)[view.anchor.seq + i]]
<1> DEFINE low == view.anchor.seq
           high == MaxSeen(upto, low + 1)
           reach == {n \in low..high : \A i \in (low + 1)..n : i \in SeqsHeld}
           top == CHOOSE n \in reach : \A i \in reach : i <= n
<1>1. low \in Nat /\ high \in Nat /\ low <= high
  <2>1. low \in Nat
    BY OmTypes DEF OmInv
  <2> HIDE DEF low
  <2> QED BY <2>1 DEF MaxSeen
<1>2. DeviceFold(upto).seq = top
  BY DEF DeviceFold
<1>3. DeviceFold(upto).fold = view.anchor.fold \o [i \in 1..(top - low) |-> RowAt(low + i)[low + i]]
  BY DEF DeviceFold, Folded
<1> HIDE DEF low, high
<1>4. reach \in SUBSET Nat /\ low \in reach /\ \A n \in reach : n <= high
  BY <1>1
<1>5. \E n \in reach : \A i \in reach : i <= n
  <2>1. reach \in SUBSET Nat /\ reach # {} /\ high \in Nat /\ \A n \in reach : n <= high
    BY <1>1, <1>4
  <2> HIDE DEF reach
  <2> QED BY <2>1, Largest
<1>6. top \in reach /\ \A i \in reach : i <= top
  BY <1>5
<1>7. top \in Nat /\ low <= top /\ top <= high /\ \A i \in (low + 1)..top : i \in SeqsHeld
  BY <1>1, <1>6
<1>8. \A n \in Nat : low <= n /\ n <= high /\ (\A i \in (low + 1)..n : i \in SeqsHeld) => n <= top
  BY <1>1, <1>6
<1> HIDE DEF top, reach
<1>9. /\ top = DeviceFold(upto).seq /\ low = view.anchor.seq /\ high = MaxSeen(upto, view.anchor.seq + 1)
  BY <1>2 DEF low, high
<1> QED BY <1>3, <1>7, <1>8, <1>9

\* The contents folded are those of the rows above the anchor; the stream of an
\* origin that never lost its log folds to a beginning of that log.
LEMMA FoldRows ==
    ASSUME OmInv, NEW upto \in Nat, NEW top, top = DeviceFold(upto).seq, NEW f, f = DeviceFold(upto).fold
    PROVE  /\ top \in Nat /\ f \in Log /\ Len(f) = top /\ top <= view.cursor
           /\ \A r \in view.rows : Len(r) > view.anchor.seq /\ Len(r) <= top => r = SubSeq(f, 1, Len(r))
           /\ origin.era = 0 => Begins(f, origin.log)
<1> USE DEF OmInv
<1> DEFINE low == view.anchor.seq
           tail == [i \in 1..(top - low) |-> RowAt(low + i)[low + i]]
<1>1. /\ low \in Nat /\ view.anchor.fold \in Log /\ view.rows \subseteq Log /\ view.cursor \in Nat
      /\ Len(view.anchor.fold) = low /\ low <= view.cursor
      /\ origin.log \in Log /\ Len(origin.log) \in Nat
  BY OmTypes DEF RowsOK
<1>2. top \in Nat /\ low <= top /\ (\A i \in (low + 1)..top : i \in SeqsHeld) /\ f = view.anchor.fold \o tail
  BY FoldTop
<1> HIDE DEF low
<1>3. \A r \in view.rows : Len(r) \in Nat /\ Len(r) > 0 /\ Len(r) <= view.cursor
  BY <1>1, LogLength DEF RowsOK
<1>4. \A i \in (low + 1)..top : RowAt(i) \in view.rows /\ Len(RowAt(i)) = i
  BY <1>2 DEF SeqsHeld, RowAt
<1>5. \A r \in view.rows : RowAt(Len(r)) = r
  BY DEF RowsOK, RowAt
<1>6. tail \in Log /\ Len(tail) = top - low
  <2>1. \A i \in 1..(top - low) : RowAt(low + i)[low + i] \in Nat
    <3> TAKE i \in 1..(top - low)
    <3>1. low + i \in (low + 1)..top /\ low + i \in Nat /\ low + i > 0
      BY <1>1, <1>2
    <3> DEFINE r == RowAt(low + i)
    <3>2. r \in view.rows /\ Len(r) = low + i
      BY <1>4, <3>1
    <3> HIDE DEF r
    <3>5. r \in Log
      BY <1>1, <3>2
    <3>3. r \in [1..Len(r) -> Nat] /\ low + i \in 1..Len(r)
      BY <3>1, <3>2, <3>5, LogLength
    <3>4. r[low + i] \in Nat
      BY <3>3
    <3> QED BY <3>4 DEF r
  <2>2. top - low \in Nat
    BY <1>1, <1>2
  <2>3. tail \in [1..(top - low) -> Nat]
    BY <2>1
  <2> HIDE DEF tail
  <2> QED BY <2>2, <2>3 DEF Log
<1>7. \A i \in 1..(top - low) : tail[i] = RowAt(low + i)[low + i]
  OBVIOUS
<1> HIDE DEF tail
<1>8. f \in Log /\ Len(f) = top /\ (\A i \in 1..low : f[i] = view.anchor.fold[i])
      /\ \A i \in 1..(top - low) : f[low + i] = tail[i]
  <2> DEFINE s == view.anchor.fold
  <2>1. s \in Log /\ Len(s) = low /\ f = s \o tail
    BY <1>1, <1>2
  <2> HIDE DEF s
  <2>3. f \in Log /\ Len(f) = Len(s) + Len(tail) /\ (\A i \in 1..Len(s) : f[i] = s[i])
        /\ \A i \in 1..Len(tail) : f[Len(s) + i] = tail[i]
    <3>1. s \in Seq(Nat) /\ tail \in Seq(Nat)
      BY <1>6, <2>1 DEF Log
    <3>2. /\ s \o tail \in Seq(Nat) /\ Len(s \o tail) = Len(s) + Len(tail)
          /\ \A i \in 1..Len(s) : (s \o tail)[i] = s[i]
          /\ \A i \in 1..Len(tail) : (s \o tail)[Len(s) + i] = tail[i]
      BY ONLY <3>1, Joined
    <3> QED BY ONLY <2>1, <3>2 DEF Log
  <2>2. f \in Log /\ Len(f) = top /\ (\A i \in 1..low : f[i] = s[i]) /\ \A i \in 1..(top - low) : f[low + i] = tail[i]
    BY ONLY <1>1, <1>2, <1>6, <2>1, <2>3
  <2> QED BY <2>2 DEF s
<1>9. \A i \in (low + 1)..top : f[i] = RowAt(i)[i]
  <2> TAKE i \in (low + 1)..top
  <2>1. i - low \in 1..(top - low) /\ low + (i - low) = i
    BY <1>1, <1>2
  <2>2. f[low + (i - low)] = RowAt(low + (i - low))[low + (i - low)]
    BY <1>7, <1>8, <2>1
  <2> QED BY <2>1, <2>2
<1>10. top <= view.cursor
  <2>1. CASE top = low
    BY <1>1, <2>1
  <2>2. CASE top # low
    <3>1. top \in (low + 1)..top
      BY <1>1, <1>2, <2>2
    <3> QED BY <1>3, <1>4, <3>1
  <2> QED BY <2>1, <2>2
<1>11. ASSUME NEW r \in view.rows, Len(r) > low, Len(r) <= top PROVE r = SubSeq(f, 1, Len(r))
  <2>1. r \in Log /\ Len(r) \in Nat
    BY <1>1, <1>3
  <2>2. SubSeq(f, 1, Len(r)) \in Log /\ Len(SubSeq(f, 1, Len(r))) = Len(r)
        /\ \A i \in 1..Len(r) : SubSeq(f, 1, Len(r))[i] = f[i]
    BY <1>8, <1>11, <2>1, Begin
  <2>3. SubSeq(r, 1, low) = view.anchor.fold /\ \A i \in (low + 1)..Len(r) : SubSeq(r, 1, i) \in view.rows
    <3>1. Len(r) >= view.anchor.seq
      BY <1>1, <1>11, <2>1 DEF low
    <3> QED BY <3>1 DEF RowsOK, low
  <2>4. \A i \in 1..Len(r) : f[i] = r[i]
    <3> TAKE i \in 1..Len(r)
    <3>1. CASE i <= low
      <4>1. i \in 1..low /\ low <= Len(r)
        BY <1>1, <1>11, <2>1, <3>1
      <4>2. SubSeq(r, 1, low)[i] = r[i]
        BY <1>1, <2>1, <4>1, Begin
      <4> QED BY <1>8, <2>3, <4>1, <4>2
    <3>2. CASE i > low
      <4>1. i \in (low + 1)..Len(r) /\ i \in (low + 1)..top /\ i \in Nat /\ i <= Len(r) /\ i \in 1..i
        BY <1>1, <1>2, <1>11, <2>1, <3>2
      <4> DEFINE q == SubSeq(r, 1, i)
      <4>2. q \in view.rows /\ Len(q) = i /\ q[i] = r[i]
        BY <2>1, <2>3, <4>1, Begin
      <4> HIDE DEF q
      <4>3. RowAt(i) = q
        BY <1>5, <4>2
      <4> QED BY <1>9, <4>1, <4>2, <4>3
    <3> QED BY <1>1, <2>1, <3>1, <3>2
  <2> QED BY <2>1, <2>2, <2>4, SameLog
<1>12. ASSUME origin.era = 0 PROVE Begins(f, origin.log)
  <2>1. CASE top = low
    <3>1. \A i \in 1..Len(f) : f[i] = view.anchor.fold[i]
      BY <1>8, <2>1
    <3>2. f = view.anchor.fold
      BY <1>1, <1>8, <2>1, <3>1, SameLog
    <3> QED BY <1>12, <3>2 DEF FirstEra
  <2>2. CASE top # low
    <3>1. top \in (low + 1)..top
      BY <1>1, <1>2, <2>2
    <3> DEFINE r == RowAt(top)
    <3>2. r \in view.rows /\ Len(r) = top /\ Len(r) > low /\ Len(r) <= top /\ r \in Log
      BY <1>1, <1>2, <1>4, <3>1
    <3> HIDE DEF r
    <3>3. r = SubSeq(f, 1, Len(r))
      BY <1>11, <3>2
    <3>4. r = f
      BY <1>8, <3>2, <3>3, BeginWhole
    <3> QED BY <1>12, <3>2, <3>4 DEF FirstEra
  <2> QED BY <2>1, <2>2
<1> QED BY <1>2, <1>8, <1>10, <1>11, <1>12 DEF low

\* verifyOnePeerHead, outcome by outcome.
LEMMA Verdict ==
    ASSUME OmInv, NEW m \in Fold, NEW w, w = verifyOnePeerHead(m),
           NEW next, next = Promise(view.head, m), NEW local, local = DeviceFold(next.seq)
    PROVE  /\ w \in View /\ w.rows = view.rows /\ w.anchor = view.anchor /\ w.cursor = view.cursor
           /\ w.declined = view.declined /\ w.at = "idle"
           /\ \/ /\ w.head = view.head /\ w.vouched = 0
                 /\ view.head.seq > 0 /\ m.seq = view.head.seq /\ m.fold # view.head.fold
              \/ /\ w.head.seq = next.seq /\ w.head.fold = next.fold
                 /\ \/ w.vouched = 0 /\ w.alarms \subseteq view.alarms
                    \/ /\ w.vouched = next.seq /\ w.alarms \subseteq view.alarms
                       /\ local.seq >= next.seq /\ local.fold = next.fold
                    \/ w.vouched = 0 /\ local.seq >= next.seq /\ local.fold # next.fold
                    \/ /\ w.vouched = 0 /\ ~(local.seq >= next.seq) /\ ~view.waiting /\ 0 \notin view.declined
                       /\ view.head.pending /\ ~(view.head.seq > 0 /\ local.seq >= view.head.seq)
<1> DEFINE Marker == [seq : Nat, fold : Log, pending : BOOLEAN]
           calm == [view EXCEPT !.at = "idle", !.head = [next EXCEPT !.pending = FALSE], !.vouched = 0]
           short == [view EXCEPT !.at = "idle", !.head = [next EXCEPT !.pending = TRUE], !.vouched = 0]
           kept(x) == /\ x \in View /\ x.rows = view.rows /\ x.anchor = view.anchor /\ x.cursor = view.cursor
                      /\ x.declined = view.declined /\ x.at = "idle"
<1>1. view \in View /\ view.head \in Marker /\ view.alarms \in SUBSET {"fork", "withheld_tail"}
  BY DEF OmInv, OmTyped, View
<1>2. next \in Marker
  BY <1>1 DEF Promise, Fold
<1>3. next.seq \in Nat
  BY <1>2
<1>4. /\ kept(calm) /\ calm.head.seq = next.seq /\ calm.head.fold = next.fold /\ calm.vouched = 0 /\ calm.alarms = view.alarms
      /\ kept(short) /\ short.head.seq = next.seq /\ short.head.fold = next.fold /\ short.vouched = 0 /\ short.alarms = view.alarms
  BY ONLY <1>1, <1>2 DEF View
<1>7. w = IF view.head.seq > 0 /\ m.seq = view.head.seq /\ m.fold # view.head.fold
            THEN [view EXCEPT !.at = "idle", !.alarms = @ \cup {"fork"}, !.vouched = 0]
          ELSE IF ~local.seeded THEN calm
          ELSE IF local.seq >= next.seq
            THEN IF SameFold(local, next)
                   THEN [calm EXCEPT !.alarms = resolveOmission(@), !.vouched = next.seq]
                   ELSE [calm EXCEPT !.alarms = @ \cup {"fork"}]
          ELSE IF DeviceGapLocallyDeclined(local.seq + 1) THEN [calm EXCEPT !.alarms = resolveOmission(@)]
          ELSE IF Withheld(view.head, local) THEN [short EXCEPT !.alarms = @ \cup {"withheld_tail"}]
          ELSE short
  BY DEF verifyOnePeerHead
<1> DEFINE fine == w.head.seq = next.seq /\ w.head.fold = next.fold /\ w.vouched = 0 /\ w.alarms \subseteq view.alarms
<1>8. CASE view.head.seq > 0 /\ m.seq = view.head.seq /\ m.fold # view.head.fold
  <2>1. w = [view EXCEPT !.at = "idle", !.alarms = view.alarms \cup {"fork"}, !.vouched = 0]
    BY <1>7, <1>8
  <2>2. kept(w) /\ w.head = view.head /\ w.vouched = 0
    BY ONLY <1>1, <2>1 DEF View
  <2> QED BY <1>8, <2>2
<1>9. CASE ~(view.head.seq > 0 /\ m.seq = view.head.seq /\ m.fold # view.head.fold) /\ ~local.seeded
  BY <1>4, <1>7, <1>9
<1>10. CASE /\ ~(view.head.seq > 0 /\ m.seq = view.head.seq /\ m.fold # view.head.fold) /\ local.seeded
            /\ local.seq >= next.seq
  <2>1. CASE SameFold(local, next)
    <3>1. w = [calm EXCEPT !.alarms = resolveOmission(@), !.vouched = next.seq]
      BY <1>7, <1>10, <2>1
    <3>2. w = [calm EXCEPT !.alarms = resolveOmission(calm.alarms), !.vouched = next.seq]
      BY <3>1
    <3>3. resolveOmission(calm.alarms) \in SUBSET {"fork", "withheld_tail"} /\ resolveOmission(calm.alarms) \subseteq view.alarms
      BY <1>1, <1>4 DEF resolveOmission
    <3> HIDE DEF calm
    <3>4. kept(w) /\ w.head = calm.head /\ w.alarms = resolveOmission(calm.alarms) /\ w.vouched = next.seq
      BY ONLY <1>3, <1>4, <3>2, <3>3 DEF View
    <3> HIDE DEF kept
    <3>5. local.fold = next.fold
      BY <2>1 DEF SameFold
    <3> QED BY <1>4, <1>10, <3>3, <3>4, <3>5 DEF kept
  <2>2. CASE ~SameFold(local, next)
    <3>1. w = [calm EXCEPT !.alarms = calm.alarms \cup {"fork"}]
      BY <1>7, <1>10, <2>2
    <3>2. calm.alarms \cup {"fork"} \in SUBSET {"fork", "withheld_tail"}
      BY <1>1, <1>4
    <3> HIDE DEF calm
    <3>3. kept(w) /\ w.head = calm.head /\ w.vouched = calm.vouched
      BY ONLY <1>4, <3>1, <3>2 DEF View
    <3> HIDE DEF kept
    <3>4. local.fold # next.fold
      BY <2>2 DEF SameFold
    <3> QED BY <1>4, <1>10, <3>3, <3>4 DEF kept
  <2> QED BY <2>1, <2>2
<1>11. CASE /\ ~(view.head.seq > 0 /\ m.seq = view.head.seq /\ m.fold # view.head.fold) /\ local.seeded
            /\ ~(local.seq >= next.seq)
  <2>1. CASE DeviceGapLocallyDeclined(local.seq + 1)
    <3>1. w = [calm EXCEPT !.alarms = resolveOmission(calm.alarms)]
      BY <1>7, <1>11, <2>1
    <3>2. resolveOmission(calm.alarms) \in SUBSET {"fork", "withheld_tail"} /\ resolveOmission(calm.alarms) \subseteq view.alarms
      BY <1>1, <1>4 DEF resolveOmission
    <3> HIDE DEF calm
    <3>3. kept(w) /\ w.head = calm.head /\ w.alarms = resolveOmission(calm.alarms) /\ w.vouched = calm.vouched
      BY ONLY <1>4, <3>1, <3>2 DEF View
    <3> HIDE DEF kept
    <3> QED BY <1>4, <3>2, <3>3 DEF kept
  <2>2. CASE ~DeviceGapLocallyDeclined(local.seq + 1) /\ Withheld(view.head, local)
    <3>1. w = [short EXCEPT !.alarms = short.alarms \cup {"withheld_tail"}]
      BY <1>7, <1>11, <2>2
    <3>2. short.alarms \cup {"withheld_tail"} \in SUBSET {"fork", "withheld_tail"}
      BY <1>1, <1>4
    <3> HIDE DEF short
    <3>3. kept(w) /\ w.head = short.head /\ w.vouched = short.vouched
      BY ONLY <1>4, <3>1, <3>2 DEF View
    <3> HIDE DEF kept
    <3>4. ~view.waiting /\ 0 \notin view.declined /\ view.head.pending /\ ~(view.head.seq > 0 /\ local.seq >= view.head.seq)
      BY <2>2 DEF DeviceGapLocallyDeclined, Withheld
    <3> QED BY <1>4, <1>11, <3>3, <3>4 DEF kept
  <2>3. CASE ~DeviceGapLocallyDeclined(local.seq + 1) /\ ~Withheld(view.head, local)
    <3>1. w = short
      BY <1>7, <1>11, <2>3
    <3> QED BY <1>4, <3>1
  <2> QED BY <2>1, <2>2, <2>3
<1> QED BY <1>8, <1>9, <1>10, <1>11

\* The promise after a marker is an ack.
LEMMA PromiseIsAck ==
    ASSUME OmInv, published # << >>, NEW m \in AcksListed, NEW next, next = Promise(view.head, m)
    PROVE  /\ m \in Fold /\ m.seq > 0 /\ next.seq \in Nat /\ next.seq > 0 /\ view.head.seq <= next.seq
           /\ \E i \in 1..Len(published) : m = published[i]
           /\ \E i \in 1..Len(published) : published[i].seq = next.seq /\ published[i].fold = next.fold
<1> USE DEF OmInv
<1>1. /\ published \in Seq(Fold) /\ Len(published) \in Nat /\ DOMAIN published = 1..Len(published)
      /\ view.head.seq \in Nat /\ view.head \in [seq : Nat, fold : Log, pending : BOOLEAN]
  BY OmTypes DEF OmTyped, View
<1>2. Len(published) \in 1..Len(published)
  BY <1>1
<1>3. PICK i \in 1..Len(published) : m = published[i]
  BY <1>1, <1>2 DEF AcksListed
<1>4. m \in Fold /\ m.seq \in Nat /\ m.seq > 0
  <2>1. published[i] \in Fold
    BY <1>1
  <2>2. published[i].seq > 0
    BY DEF StreamsOK
  <2> QED BY <1>3, <2>1, <2>2 DEF Fold
<1>5. CASE m.seq > view.head.seq
  <2>1. next.seq = m.seq /\ next.fold = m.fold
    BY <1>1, <1>5 DEF Promise
  <2> QED BY <1>1, <1>3, <1>4, <1>5, <2>1
<1>6. CASE ~(m.seq > view.head.seq)
  <2>1. next = view.head /\ view.head.seq > 0
    BY <1>1, <1>4, <1>6 DEF Promise
  <2>2. \E j \in 1..Len(published) : published[j].seq = view.head.seq /\ published[j].fold = view.head.fold
    BY <2>1 DEF PromiseOK
  <2> QED BY <1>1, <1>3, <1>4, <2>1, <2>2
<1> QED BY <1>5, <1>6

\* What is folded up to the promise is an ack, so what is found complete is one.
LEMMA VerifyKeeps == OmInv /\ VerifyPeerHeads => OmInv'
<1> SUFFICES ASSUME OmInv, VerifyPeerHeads PROVE OmInv'
  OBVIOUS
<1> USE DEF OmInv
<1>1. UNCHANGED <<origin, published, objects, floor, snap, cap, omen>>
  BY DEF VerifyPeerHeads
<1>2. /\ view.vouched \in Nat /\ view.cursor \in Nat /\ view.anchor.seq \in Nat /\ view.rows \subseteq Log
      /\ DOMAIN published = 1..Len(published) /\ view \in View /\ omen \in Omen1 /\ origin.log \in Log
      /\ \A i \in 1..Len(published) : published[i].seq \in Nat /\ published[i].fold \in Log
  BY OmTypes DEF OmTyped
<1>3. CASE published = << >>
  <2>1. view' = [view EXCEPT !.at = "idle"]
    BY <1>3 DEF VerifyPeerHeads
  <2>2. /\ view' \in View /\ view'.rows = view.rows /\ view'.anchor = view.anchor /\ view'.cursor = view.cursor
        /\ view'.declined = view.declined /\ view'.head = view.head /\ view'.vouched = view.vouched /\ view'.at = "idle"
    BY ONLY <1>2, <2>1 DEF View
  <2>3. OmTyped' /\ StreamsOK' /\ FirstEra'
    BY <1>1, <2>2 DEF OmTyped, StreamsOK, FirstEra
  <2>4. RowsOK(view)'
    BY <2>2 DEF RowsOK
  <2>5. PromiseOK'
    BY <1>1, <2>2 DEF PromiseOK, Vouched
  <2>6. Through0(view)'
    BY <1>1, <2>2 DEF Through0
  <2> QED BY <2>3, <2>4, <2>5, <2>6
<1>4. CASE published # << >>
  <2>1. PICK m \in AcksListed : view' = verifyOnePeerHead(m)
    BY <1>4 DEF VerifyPeerHeads
  <2> DEFINE next == Promise(view.head, m)
             local == DeviceFold(next.seq)
  <2>2. /\ m \in Fold /\ next.seq \in Nat /\ next.seq > 0
        /\ \E i \in 1..Len(published) : published[i].seq = next.seq /\ published[i].fold = next.fold
    BY <1>4, PromiseIsAck
  <2>3. /\ view' \in View /\ view'.rows = view.rows /\ view'.anchor = view.anchor /\ view'.cursor = view.cursor
        /\ view'.declined = view.declined /\ view'.at = "idle"
        /\ view'.head = view.head \/ (view'.head.seq = next.seq /\ view'.head.fold = next.fold)
        /\ \/ view'.vouched = 0
           \/ view'.vouched = next.seq /\ local.seq >= next.seq /\ local.fold = next.fold
    BY <2>1, <2>2, Verdict
  <2>4. /\ local.seq \in Nat /\ local.fold \in Log /\ Len(local.fold) = local.seq /\ local.seq <= view.cursor
        /\ \A r \in view.rows : Len(r) > view.anchor.seq /\ Len(r) <= local.seq => r = SubSeq(local.fold, 1, Len(r))
    BY <2>2, FoldRows
  <2> HIDE DEF next, local
  <2>5. OmTyped' /\ StreamsOK' /\ FirstEra'
    BY <1>1, <2>3 DEF OmTyped, StreamsOK, FirstEra
  <2>6. RowsOK(view)'
    BY <2>3 DEF RowsOK
  <2>7. Through0(view)'
    BY <1>1, <2>3 DEF Through0
  <2>8. PromiseOK'
    <3>1. view'.head.seq = 0 => ~view'.head.pending
      BY <2>2, <2>3 DEF PromiseOK
    <3>2. view'.head.seq > 0 => \E i \in 1..Len(published) :
            published[i].seq = view'.head.seq /\ published[i].fold = view'.head.fold
      BY <2>2, <2>3 DEF PromiseOK
    <3>3. view'.vouched <= view'.cursor
      BY <1>2, <2>2, <2>3, <2>4
    <3>4. Vouched'
      <4> SUFFICES ASSUME view'.vouched > 0
                   PROVE  \E i \in DOMAIN published :
                             /\ published[i].seq = view'.vouched
                             /\ \A r \in view.rows : Len(r) <= view'.vouched /\ (origin.era = 0 \/ Len(r) > view.anchor.seq)
                                                      => r = SubSeq(published[i].fold, 1, Len(r))
        BY <1>1, <2>3 DEF Vouched
      <4>1. view'.vouched = next.seq /\ local.seq >= next.seq /\ local.fold = next.fold
        BY <2>3
      <4>2. PICK i \in 1..Len(published) : published[i].seq = next.seq /\ published[i].fold = next.fold
        BY <2>2
      <4> DEFINE f == published[i].fold
      <4>3. f \in Log /\ Len(f) = next.seq /\ f = local.fold
        BY <1>2, <4>1, <4>2 DEF StreamsOK
      <4> HIDE DEF f
      <4>4. ASSUME NEW r \in view.rows, Len(r) <= next.seq, origin.era = 0 \/ Len(r) > view.anchor.seq
            PROVE  r = SubSeq(f, 1, Len(r))
        <5>1. r \in Log /\ Len(r) \in Nat
          BY <1>2, LogLength
        <5>2. CASE Len(r) > view.anchor.seq
          BY <2>2, <2>4, <4>1, <4>3, <4>4, <5>1, <5>2
        <5>3. CASE origin.era = 0
          <6>1. Begins(r, origin.log) /\ Begins(f, origin.log)
            BY <5>3 DEF FirstEra, f
          <6>2. f = SubSeq(origin.log, 1, next.seq) /\ next.seq <= Len(origin.log) /\ r = SubSeq(origin.log, 1, Len(r))
            BY <4>3, <6>1 DEF Begins
          <6>3. SubSeq(SubSeq(origin.log, 1, next.seq), 1, Len(r)) = SubSeq(origin.log, 1, Len(r))
            BY <1>2, <2>2, <4>4, <5>1, <6>2, BeginTwice
          <6> QED BY <6>2, <6>3
        <5> QED BY <4>4, <5>2, <5>3
      <4>5. published[i].seq = view'.vouched /\ i \in DOMAIN published
        BY <1>2, <4>1, <4>2
      <4> QED BY <4>1, <4>4, <4>5 DEF f
    <3> QED BY <1>1, <3>1, <3>2, <3>3, <3>4 DEF PromiseOK
  <2> QED BY <2>5, <2>6, <2>7, <2>8
<1> QED BY <1>3, <1>4

\* Every step of the signed heads keeps the invariant.
LEMMA OmStep == OmInv /\ [OmissionNext]_omvars => OmInv'
<1> SUFFICES ASSUME OmInv, [OmissionNext]_omvars PROVE OmInv'
  OBVIOUS
<1>1. CASE OmissionNext
  BY <1>1, MintKeeps, PushKeeps, AckKeeps, BackUpKeeps, WithholdKeeps, CompactKeeps, PullKeeps, VerifyKeeps DEF OmissionNext
<1>2. CASE UNCHANGED omvars
  BY <1>2 DEF omvars, OmInv, OmTyped, StreamsOK, RowsOK, PromiseOK, FirstEra, Through0, Vouched
<1> QED BY <1>1, <1>2

-----------------------------------------------------------------------------
(* Nobody honest is accused.                                               *)

\* The two outcomes that accuse need a hub that withholds, an origin that lost
\* its log, or an anchor at or above the promise.
LEMMA AccusedForCause ==
    ASSUME OmInv, VerifyPeerHeads, omen.honest, origin.era = 0, view'.alarms \ view.alarms # {}
    PROVE  view.anchor.seq >= view'.head.seq
<1> USE DEF OmInv
<1>0. /\ view.cursor \in Nat /\ view.anchor.seq \in Nat /\ view.rows \subseteq Log /\ view \in View
      /\ view.head.seq \in Nat /\ origin.log \in Log /\ Len(origin.log) \in Nat
  BY OmTypes DEF OmTyped
<1>1. published # << >>
  <2> SUFFICES ASSUME published = << >> PROVE FALSE
    OBVIOUS
  <2>1. view' = [view EXCEPT !.at = "idle"]
    BY DEF VerifyPeerHeads
  <2>2. view'.alarms = view.alarms
    BY ONLY <1>0, <2>1 DEF View
  <2> QED BY <2>2
<1>2. PICK m \in AcksListed : view' = verifyOnePeerHead(m)
  BY <1>1 DEF VerifyPeerHeads
<1> DEFINE next == Promise(view.head, m)
           local == DeviceFold(next.seq)
<1>3. /\ m \in Fold /\ next.seq \in Nat /\ next.seq > 0 /\ view.head.seq <= next.seq
      /\ \E i \in 1..Len(published) : m = published[i]
      /\ \E i \in 1..Len(published) : published[i].seq = next.seq /\ published[i].fold = next.fold
  BY <1>1, PromiseIsAck
<1>4. \/ /\ view'.head = view.head
         /\ view.head.seq > 0 /\ m.seq = view.head.seq /\ m.fold # view.head.fold
      \/ /\ view'.head.seq = next.seq
         /\ \/ local.seq >= next.seq /\ local.fold # next.fold
            \/ /\ ~(local.seq >= next.seq) /\ ~view.waiting /\ 0 \notin view.declined
               /\ view.head.pending /\ ~(view.head.seq > 0 /\ local.seq >= view.head.seq)
  <2>1. ~(view'.alarms \subseteq view.alarms)
    OBVIOUS
  <2> QED BY <1>2, <1>3, <2>1, Verdict
<1>5. local.seq \in Nat /\ local.fold \in Log /\ Len(local.fold) = local.seq /\ Begins(local.fold, origin.log)
  <2>1. local.seq \in Nat /\ local.fold \in Log /\ Len(local.fold) = local.seq
    BY <1>3, FoldRows
  <2>2. origin.era = 0 => Begins(local.fold, origin.log)
    BY <1>3, FoldRows
  <2> QED BY <2>1, <2>2
<1>6. /\ local.seq <= MaxSeen(next.seq, view.anchor.seq + 1)
      /\ \A n \in Nat : /\ view.anchor.seq <= n /\ n <= MaxSeen(next.seq, view.anchor.seq + 1)
                        /\ \A i \in (view.anchor.seq + 1)..n : i \in SeqsHeld
                        => n <= local.seq
  BY <1>3, FoldTop
<1> HIDE DEF next, local
<1>7. \A i, j \in 1..Len(published) : published[i].seq = published[j].seq => published[i].fold = published[j].fold
  <2>1. \A i \in 1..Len(published) : Len(published[i].fold) = published[i].seq
    BY DEF StreamsOK
  <2>2. \A i \in 1..Len(published) : published[i].fold = SubSeq(origin.log, 1, Len(published[i].fold))
    BY DEF FirstEra, Begins
  <2>3. \A i \in 1..Len(published) : published[i].fold = SubSeq(origin.log, 1, published[i].seq)
    BY <2>1, <2>2
  <2> QED BY ONLY <2>3
<1>8. ASSUME view'.head = view.head /\ view.head.seq > 0 /\ m.seq = view.head.seq /\ m.fold # view.head.fold
      PROVE  FALSE
  <2>1. \E j \in 1..Len(published) : published[j].seq = view.head.seq /\ published[j].fold = view.head.fold
    BY <1>8 DEF PromiseOK
  <2> QED BY <1>3, <1>7, <1>8, <2>1
<1> SUFFICES ASSUME view'.head.seq = next.seq, view.anchor.seq < next.seq PROVE FALSE
  BY <1>0, <1>3, <1>4, <1>8
<1>9. MaxSeen(next.seq, view.anchor.seq + 1) = next.seq
  BY <1>0, <1>3 DEF MaxSeen
<1>10. CASE local.seq >= next.seq /\ local.fold # next.fold
  <2>1. local.seq = next.seq
    BY <1>3, <1>5, <1>6, <1>9, <1>10
  <2>2. PICK i \in 1..Len(published) : published[i].seq = next.seq /\ published[i].fold = next.fold
    BY <1>3
  <2>3. Begins(next.fold, origin.log) /\ Len(next.fold) = next.seq
    BY <2>2 DEF FirstEra, StreamsOK
  <2> QED BY <1>5, <1>10, <2>1, <2>3 DEF Begins
<1>11. CASE /\ ~(local.seq >= next.seq) /\ ~view.waiting /\ 0 \notin view.declined
            /\ view.head.pending /\ ~(view.head.seq > 0 /\ local.seq >= view.head.seq)
  <2>1. view.head.seq > 0 /\ local.seq < view.head.seq
    BY <1>0, <1>5, <1>11 DEF PromiseOK
  <2>2. (\A i \in (view.anchor.seq + 1)..view.cursor : i \in SeqsHeld) /\ view.cursor >= view.head.seq
    <3>1. view.at = "pulled"
      BY DEF VerifyPeerHeads
    <3>2. \A i \in (view.anchor.seq + 1)..view.cursor : \E r \in view.rows : Len(r) = i
      BY <1>11 DEF Through0
    <3>3. view.cursor >= view.head.seq
      BY <1>11, <3>1 DEF Through0
    <3> QED BY <3>2, <3>3 DEF SeqsHeld
  <2>3. CASE view.cursor >= next.seq
    <3>1. \A i \in (view.anchor.seq + 1)..next.seq : i \in SeqsHeld
      BY <1>0, <1>3, <2>2, <2>3
    <3>2. next.seq <= local.seq
      BY <1>0, <1>3, <1>6, <1>9, <3>1
    <3> QED BY <1>3, <1>5, <1>11, <3>2
  <2>4. CASE ~(view.cursor >= next.seq)
    <3>1. view.anchor.seq <= view.cursor /\ view.cursor <= next.seq
      BY <1>0, <1>3, <2>4 DEF RowsOK
    <3>2. view.cursor <= local.seq
      BY <1>0, <1>6, <1>9, <2>2, <3>1
    <3> QED BY <1>0, <1>5, <2>1, <2>2, <3>2
  <2> QED BY <2>3, <2>4
<1> QED BY <1>4, <1>8, <1>10, <1>11

\* Only the check of the heads raises an alarm.
LEMMA OnlyHeadsAccuse ==
    ASSUME OmInv, [OmissionNext]_omvars, ~VerifyPeerHeads
    PROVE  view'.alarms = view.alarms
<1>1. CASE pullAndApplyEvents
  <2> USE DEF OmInv
  <2> DEFINE v == UpsertChainAnchor([view EXCEPT !.waiting = FALSE])
  <2>1. PICK o \in Through(v) : view' = [o.view EXCEPT !.at = "pulled"]
    BY <1>1 DEF pullAndApplyEvents
  <2>2. Good(v) /\ Follows(v) /\ ~v.waiting
    BY AnchorGood
  <2> HIDE DEF v
  <2>3. o.view \in View /\ o.view.alarms = view.alarms
    BY <2>2, ThroughGood DEF Good, Follows
  <2>4. view'.alarms = o.view.alarms
    BY ONLY <2>1, <2>3 DEF View
  <2> QED BY <2>3, <2>4
<1>2. CASE ~pullAndApplyEvents
  BY <1>2 DEF OmissionNext, omvars, MintEvent, PushEvents, maybeWriteSyncAck, BackUp, RestoreOrigin, CompactStream, Withhold, Relent
<1> QED BY <1>1, <1>2

\* The invariant of the signed heads holds on every behaviour.
LEMMA HeadsAlways == HubsSpec => []OmInv
<1>1. HubsInit => OmInv
  BY OmStarts DEF HubsInit
<1>2. OmInv /\ [HubsNext]_hubvars => OmInv'
  <2>1. [HubsNext]_hubvars => [OmissionNext]_omvars
    BY DEF HubsNext, hubvars, omvars
  <2> QED BY <2>1, OmStep
<1> QED BY <1>1, <1>2, PTL DEF HubsSpec

\* Neither an honest hub nor an origin that keeps its log is ever accused, for
\* any streams, pushes, quarantines, missing keys and compactions
\* (sync/head.go verifyOnePeerHead).
THEOREM HeadsNeverAccuse == HubsSpec => NeverAccused
<1>1. OmInv /\ [HubsNext]_hubvars =>
        [omen.honest /\ origin.era = 0 /\ view'.alarms \ view.alarms # {} => view.anchor.seq >= view'.head.seq]_omvars
  <2> SUFFICES ASSUME OmInv, [HubsNext]_hubvars, omen.honest, origin.era = 0, view'.alarms \ view.alarms # {}
               PROVE  view.anchor.seq >= view'.head.seq
    OBVIOUS
  <2>1. [OmissionNext]_omvars
    BY DEF HubsNext, hubvars, omvars
  <2>2. VerifyPeerHeads
    BY <2>1, OnlyHeadsAccuse
  <2> QED BY <2>2, AccusedForCause
<1> QED BY <1>1, HeadsAlways, PTL DEF HubsSpec, NeverAccused

-----------------------------------------------------------------------------
(* The git carrier: the invariant.                                         *)

\* What is left to do of a command: of the end of a compaction, of one that
\* reads the manifest again, of a compaction, of a sync.
Releasing == <<"unlock">>
Dropping == <<"drop", "unlock">>
Squashing == <<"squash", "drop", "unlock">>
Confirming == <<"confirm", "squash", "drop", "unlock">>
Retaining == <<"retain", "confirm", "squash", "drop", "unlock">>
Rereading == <<"retention", "retain", "confirm", "squash", "drop", "unlock">>
Locking == <<"lock", "retain", "confirm", "squash", "drop", "unlock">>
Reading == <<"retention", "lock", "retain", "confirm", "squash", "drop", "unlock">>
Catching == <<"push", "retention", "lock", "retain", "confirm", "squash", "drop", "unlock">>
Compacting == <<"pull", "push", "retention", "lock", "retain", "confirm", "squash", "drop", "unlock">>
Pushing == <<"push">>
Syncing == <<"pull", "push">>
Held == {Releasing, Dropping, Squashing, Confirming, Retaining, Rereading}
Jobs == Held \cup {Locking, Reading, Catching, Compacting, Pushing, Syncing}

Proc == [job : Jobs \cup {<<>>}, at : {"idle", "fetch", "push"}, base : Nat, tree : Trees, tries : Nat,
         etag : Manifests, mine : Manifests, locked : BOOLEAN, again : BOOLEAN]
Entry == [past : SUBSET Nat, tree : Trees]

CarrierTyped ==
    /\ commits \in Seq(Entry) /\ remote \in 0..Len(commits) /\ head \in [Device -> 0..Len(commits)]
    /\ proc \in [Device -> Proc] /\ seen \in [Device -> [Device -> 0..Limit]]
    /\ minted \in [Device -> 0..Limit] /\ pushed \in [Device -> 0..Limit]
    /\ refused \in [Device -> BOOLEAN] /\ honest \in BOOLEAN

\* Tree u goes on from tree t: no floor goes down, no manifest is older, and
\* what is missing is accounted for.
Continues(t, u) ==
    /\ t.man.n <= u.man.n
    /\ \A o \in Device : t.man.floors[o] <= u.man.floors[o]
    /\ \A e \in t.ev \ u.ev : e[2] < u.man.floors[e[1]] \/ e[1] \in Revoked

\* A commit goes on from each of its ancestors; only the first may be no carrier's.
CommitsOK == \A l \in 1..Len(commits) :
    /\ commits[l].past \subseteq 1..(l - 1)
    /\ \A k \in commits[l].past : Continues(commits[k].tree, commits[l].tree)
    /\ commits[l].tree.man.n = 0 => commits[l].tree.man.floors = [o \in Device |-> 0]
    /\ l > 1 => commits[l].tree.mark # "other"

\* On an honest host the commits are one line, manifests are numbered along it,
\* and the history is only cut where there is one.
Follow(t, u) == Continues(t, u) /\ (t.man.n = u.man.n => t.man = u.man)
LineOK == honest =>
    /\ remote = Len(commits)
    /\ \A i, j \in 1..Len(commits) : i <= j => Follow(commits[i].tree, commits[j].tree)
    /\ \A l \in 1..Len(commits) : commits[l].tree.man.n = 0 => commits[l].past = 1..(l - 1)

\* The manifest a compaction built follows the one it read; the sweep lock is
\* held from the lock to its release.
Built(p) == p.mine.n = p.etag.n + 1 /\ \A o \in Device : p.etag.floors[o] <= p.mine.floors[o]
JobOK(p) ==
    /\ p.job = <<>> => p.at = "idle"
    /\ p.at # "push" => p.base = 0
    /\ p.job \in {Locking, Retaining, Confirming, Squashing, Dropping} => Built(p)
    /\ p.locked => p.job \in Held

\* Deletions run under floors that were seen in force; t is the tree verified last.
Confirmed(p, t) == p.job \in {Squashing, Dropping} =>
    t.man.n > 0 /\ \A o \in Device : p.mine.floors[o] <= t.man.floors[o]

\* What a write of d made of the tree it was based on; lo and hi are its push
\* watermark and what it has minted.
Change(d, p, t, lo, hi) ==
    LET op == Head(p.job)
        u == p.tree
    IN /\ Continues(t, u) /\ u.mark # "other"
       /\ op # "retain" => u.man = t.man
       /\ op = "retain" => u.man = p.mine /\ (t.man = p.etag \/ t.man = p.mine)
       /\ op \notin {"lock", "unlock"} => u.lock = t.lock
       /\ op = "lock" => t.lock = None /\ u.lock = d
       /\ op = "unlock" => u.lock = (IF t.lock = d THEN None ELSE t.lock)
       /\ op \in {"retain", "lock", "unlock"} => u.ev = t.ev
       /\ op = "push" => t.ev \subseteq u.ev /\ \A k \in (lo + 1)..hi : <<d, k>> \in u.ev
       /\ op \in {"squash", "drop"} => u.ev \subseteq t.ev
       /\ op = "squash" => t.man.n > 0
Writes == {"push", "retain", "lock", "unlock", "squash", "drop"}
Staged(d, p, h, t, lo, hi) == p.at = "push" => p.base = h /\ Head(p.job) \in Writes /\ Change(d, p, t, lo, hi)

ProcOK == \A d \in Device :
    /\ JobOK(proc[d]) /\ Confirmed(proc[d], Tree(head[d]))
    /\ Staged(d, proc[d], head[d], Tree(head[d]), pushed[d], minted[d])

LockOK == honest => \A d \in Device : proc[d].locked /\ proc[d].job # Releasing => Tree(remote).lock = d

\* What accounts for a refusal.
Explained ==
    \/ \E i, j \in 1..Len(commits) :
         /\ commits[i].tree.man.n < commits[j].tree.man.n
         /\ commits[i].tree.man.at >= commits[j].tree.man.at
         /\ commits[i].tree.man.n > 0
    \/ \E l \in 1..Len(commits) : \E e \in commits[l].tree.ev : e[1] \in Revoked
    \/ commits[1].tree.mark = "other"
RefusalOK == honest /\ (\E d \in Device : refused[d]) => Len(commits) > 0 /\ Explained

CarrierInv == CarrierTyped /\ CommitsOK /\ LineOK /\ ProcOK /\ LockOK /\ Acknowledged /\ RefusalOK

-----------------------------------------------------------------------------
(* Trees and jobs.                                                         *)

\* An empty tree is one.
LEMMA Empty == EmptyTree \in Trees /\ NoMan \in Manifests /\ Limit \in Nat
  BY GitCarrierAssumption DEF EmptyTree, NoMan, Trees, Manifests

\* The parts of a tree.
LEMMA TreeParts ==
    ASSUME NEW t \in Trees
    PROVE  /\ t.ev \subseteq Ids /\ t.man \in Manifests /\ t.man.n \in Nat /\ t.man.at \in Nat
           /\ t.lock \in Device \cup {None} /\ t.mark \in {"carrier", "empty", "other"}
           /\ \A o \in Device : t.man.floors[o] \in 0..(Limit + 1) /\ t.man.floors[o] \in Nat
           /\ \A e \in t.ev : e[1] \in Device /\ e[2] \in 1..Limit /\ e[2] \in Nat
<1>1. t.man \in Manifests /\ t.ev \subseteq Ids /\ t.lock \in Device \cup {None} /\ t.mark \in {"carrier", "empty", "other"}
  BY DEF Trees
<1>2. t.man.n \in Nat /\ t.man.at \in Nat /\ \A o \in Device : t.man.floors[o] \in 0..(Limit + 1)
  BY <1>1 DEF Manifests
<1>3. \A e \in t.ev : e[1] \in Device /\ e[2] \in 1..Limit
  BY <1>1 DEF Ids
<1>4. Limit \in Nat
  BY Empty
<1> QED BY <1>1, <1>2, <1>3, <1>4

\* Going on is reflexive and transitive.
LEMMA ContinuesSame == ASSUME NEW t \in Trees PROVE Continues(t, t)
  BY TreeParts DEF Continues

LEMMA ContinuesOn ==
    ASSUME NEW t \in Trees, NEW u \in Trees, NEW w \in Trees, Continues(t, u), Continues(u, w)
    PROVE  Continues(t, w)
<1>1. t.man.n <= w.man.n
  BY TreeParts DEF Continues
<1>2. \A o \in Device : t.man.floors[o] <= w.man.floors[o]
  BY TreeParts DEF Continues
<1>3. ASSUME NEW e \in t.ev \ w.ev PROVE e[2] < w.man.floors[e[1]] \/ e[1] \in Revoked
  <2>1. CASE e \in u.ev
    BY <1>3, <2>1 DEF Continues
  <2>2. CASE e \notin u.ev
    <3>1. e[2] < u.man.floors[e[1]] \/ e[1] \in Revoked
      BY <1>3, <2>2 DEF Continues
    <3>2. e[1] \in Device /\ e[2] \in Nat
      BY <1>3, TreeParts
    <3>3. u.man.floors[e[1]] <= w.man.floors[e[1]] /\ u.man.floors[e[1]] \in Nat /\ w.man.floors[e[1]] \in Nat
      BY <3>2, TreeParts DEF Continues
    <3> QED BY <3>1, <3>2, <3>3
  <2> QED BY <2>1, <2>2
<1> QED BY <1>1, <1>2, <1>3 DEF Continues

\* Every tree goes on from the empty one.
LEMMA ContinuesEmpty == ASSUME NEW t \in Trees PROVE Continues(EmptyTree, t)
  BY TreeParts DEF Continues, EmptyTree, NoMan

\* The jobs, their first calls and what follows them.
LEMMA JobLengths ==
    /\ Len(<<>>) = 0 /\ Len(Releasing) = 1 /\ Len(Dropping) = 2 /\ Len(Squashing) = 3 /\ Len(Confirming) = 4
    /\ Len(Retaining) = 5 /\ Len(Rereading) = 6 /\ Len(Locking) = 6 /\ Len(Reading) = 7 /\ Len(Catching) = 8
    /\ Len(Compacting) = 9 /\ Len(Pushing) = 1 /\ Len(Syncing) = 2
  BY DEF Releasing, Dropping, Squashing, Confirming, Retaining, Rereading, Locking, Reading, Catching, Compacting, Pushing, Syncing

LEMMA JobHeads ==
    /\ Head(Releasing) = "unlock" /\ Head(Dropping) = "drop" /\ Head(Squashing) = "squash" /\ Head(Confirming) = "confirm"
    /\ Head(Retaining) = "retain" /\ Head(Rereading) = "retention" /\ Head(Locking) = "lock" /\ Head(Reading) = "retention"
    /\ Head(Catching) = "push" /\ Head(Compacting) = "pull" /\ Head(Pushing) = "push" /\ Head(Syncing) = "pull"
  BY DEF Releasing, Dropping, Squashing, Confirming, Retaining, Rereading, Locking, Reading, Catching, Compacting, Pushing, Syncing

LEMMA JobTails ==
    /\ Tail(Dropping) = Releasing /\ Tail(Squashing) = Dropping /\ Tail(Confirming) = Squashing
    /\ Tail(Retaining) = Confirming /\ Tail(Rereading) = Retaining /\ Tail(Locking) = Retaining
    /\ Tail(Reading) = Locking /\ Tail(Catching) = Reading /\ Tail(Compacting) = Catching /\ Tail(Syncing) = Pushing
  BY DEF Releasing, Dropping, Squashing, Confirming, Retaining, Rereading, Locking, Reading, Catching, Compacting, Pushing, Syncing

\* A lost race for the manifest reads again.
LEMMA JobAgain == <<"retention">> \o Retaining = Rereading
<1> DEFINE Calls == Writes \cup {"retention", "confirm"}
<1>1. Rereading \in Seq(Calls) /\ Len(Rereading) = 6 /\ Rereading[1] = "retention"
  BY DEF Rereading, Writes
<1>2. Retaining \in Seq(Calls) /\ Len(Retaining) = 5
  BY DEF Retaining, Writes
<1>3. <<"retention">> \in Seq(Calls) /\ Len(<<"retention">>) = 1 /\ <<"retention">>[1] = "retention"
  BY DEF Writes
<1>4. \A i \in 1..5 : Rereading[i + 1] = Retaining[i]
  BY DEF Rereading, Retaining
<1> DEFINE s == <<"retention">>
           t == Retaining
           r == Rereading
<1>5. /\ s \in Seq(Calls) /\ t \in Seq(Calls) /\ r \in Seq(Calls) /\ Len(s) = 1 /\ Len(r) = Len(t) + 1 /\ r[1] = s[1]
      /\ \A i \in 1..Len(t) : r[i + 1] = t[i]
  BY <1>1, <1>2, <1>3, <1>4
<1> HIDE DEF s, t, r, Calls
<1>6. s \o t = r
  BY <1>5, InFront
<1> QED BY <1>6 DEF s, t, r

\* A command that is over has no job.
LEMMA NoJob == <<>> \notin Jobs
<1>1. \A j \in Jobs : Len(j) \in 1..9
  BY JobLengths DEF Jobs, Held
<1>2. Len(<<>>) = 0
  OBVIOUS
<1> QED BY ONLY <1>1, <1>2

\* A job is told by its first call, the ends of a compaction are told apart.
LEMMA JobOf ==
    ASSUME NEW j \in Jobs
    PROVE  /\ j # <<>>
           /\ Head(j) = "pull" => j \in {Compacting, Syncing}
           /\ Head(j) = "push" => j \in {Catching, Pushing}
           /\ Head(j) = "retention" => j \in {Reading, Rereading}
           /\ Head(j) = "lock" => j = Locking
           /\ Head(j) = "retain" => j = Retaining
           /\ Head(j) = "confirm" => j = Confirming
           /\ Head(j) = "squash" => j = Squashing
           /\ Head(j) = "drop" => j = Dropping
           /\ Head(j) = "unlock" => j = Releasing
           /\ Head(j) \in Writes \cup {"pull", "retention", "confirm"}
  BY JobHeads, JobLengths DEF Jobs, Held, Writes

\* What may be handed to the next call: the manifest is built, a lock is on its
\* way to its release, and deletions come after a confirmation.
Ready(p, t) ==
    /\ p.job \in Jobs
    /\ p.job \in {Reading, Rereading, Locking, Retaining, Confirming, Squashing, Dropping} => Built(p)
    /\ p.locked => p.job \in Held \cup {Locking}
    /\ p.job \in {Confirming, Squashing} => t.man.n > 0 /\ \A o \in Device : p.mine.floors[o] <= t.man.floors[o]

\* A command that does nothing.
LEMMA IdleOK == Idle \in Proc /\ \A t : JobOK(Idle) /\ Confirmed(Idle, t)
<1>1. <<>> \notin Jobs
  BY NoJob
<1>2. Idle \in Proc
  BY Empty DEF Idle, Proc
<1>3. Idle.job = <<>> /\ Idle.at = "idle" /\ ~Idle.locked /\ Idle.base = 0
  BY DEF Idle
<1> QED BY <1>1, <1>2, <1>3 DEF JobOK, Confirmed, Jobs, Held

\* The next call of a command, or its end.
LEMMA Onwards ==
    ASSUME NEW p \in Proc, NEW t, Ready(p, t), NEW q, q = Onward(p)
    PROVE  /\ q \in Proc /\ JobOK(q) /\ Confirmed(q, t) /\ q.at # "push"
           /\ q.locked => p.locked /\ p.job # Releasing
<1>1. CASE Len(p.job) = 1
  <2>1. q = Idle
    BY <1>1 DEF Onward
  <2>2. ~Idle.locked /\ Idle.at = "idle"
    BY DEF Idle
  <2> QED BY <2>1, <2>2, IdleOK
<1>2. CASE Len(p.job) # 1
  <2>1. p.job \in Jobs \ {Releasing, Pushing}
    BY <1>2, JobLengths DEF Ready
  <2>2. Tail(p.job) \in Jobs
    BY <2>1, JobTails DEF Jobs, Held
  <2> DEFINE j == Tail(p.job)
  <2>3. q = [p EXCEPT !.job = j, !.at = "fetch", !.base = 0, !.tree = EmptyTree, !.tries = 0] /\ j \in Jobs
    BY <1>2, <2>2 DEF Onward
  <2> HIDE DEF j
  <2>4. /\ q \in Proc /\ q.job = j /\ q.at = "fetch" /\ q.base = 0 /\ q.mine = p.mine /\ q.etag = p.etag /\ q.locked = p.locked
    BY ONLY <2>3, Empty, p \in Proc DEF Proc
  <2>5. /\ j = Locking => p.job = Reading
        /\ j = Retaining => p.job \in {Rereading, Locking}
        /\ j = Confirming => p.job = Retaining
        /\ j = Squashing => p.job = Confirming
        /\ j = Dropping => p.job = Squashing
    <3>1. /\ p.job = Dropping => Head(j) = "unlock"
          /\ p.job = Squashing => Head(j) = "drop"
          /\ p.job = Confirming => Head(j) = "squash"
          /\ p.job = Retaining => Head(j) = "confirm"
          /\ p.job = Rereading => Head(j) = "retain"
          /\ p.job = Locking => Head(j) = "retain"
          /\ p.job = Reading => Head(j) = "lock"
          /\ p.job = Catching => Head(j) = "retention"
          /\ p.job = Compacting => Head(j) = "push"
          /\ p.job = Syncing => Head(j) = "push"
      BY JobTails, JobHeads DEF j
    <3>2. /\ j = Locking => Head(j) = "lock"
          /\ j = Retaining => Head(j) = "retain"
          /\ j = Confirming => Head(j) = "confirm"
          /\ j = Squashing => Head(j) = "squash"
          /\ j = Dropping => Head(j) = "drop"
      BY JobHeads
    <3>3. p.job \in {Dropping, Squashing, Confirming, Retaining, Rereading, Locking, Reading, Catching, Compacting, Syncing}
      BY <2>1 DEF Jobs, Held
    <3> HIDE DEF j
    <3> QED BY ONLY <3>1, <3>2, <3>3
  <2>6. p.job \in Held \cup {Locking} => j \in Held
    BY <2>1, JobTails, JobLengths DEF Held, j
  <2>7. Built(p) => Built(q)
    BY <2>4 DEF Built
  <2>8. j # <<>>
    BY <2>3, JobOf
  <2>9. JobOK(q)
    BY <2>4, <2>5, <2>6, <2>7, <2>8 DEF JobOK, Ready
  <2>10. Confirmed(q, t)
    BY <2>4, <2>5 DEF Confirmed, Ready
  <2> QED BY <2>1, <2>4, <2>9, <2>10
<1> QED BY <1>1, <1>2

-----------------------------------------------------------------------------
(* The carrier at the start.                                               *)

\* The types of the parts.
LEMMA CarrierTypes ==
    ASSUME CarrierTyped
    PROVE  /\ Len(commits) \in Nat /\ DOMAIN commits = 1..Len(commits) /\ remote \in Nat /\ remote <= Len(commits)
           /\ \A l \in 1..Len(commits) : commits[l] \in Entry /\ commits[l].tree \in Trees /\ commits[l].past \subseteq Nat
           /\ \A l \in 0..Len(commits) : Tree(l) \in Trees
           /\ Tree(remote) \in Trees
           /\ \A d \in Device : /\ head[d] \in 0..Len(commits) /\ head[d] \in Nat /\ Tree(head[d]) \in Trees
                                /\ proc[d] \in Proc /\ pushed[d] \in 0..Limit /\ minted[d] \in 0..Limit
                                /\ seen[d] \in [Device -> 0..Limit]
<1>1. commits \in Seq(Entry) /\ remote \in 0..Len(commits)
  BY DEF CarrierTyped
<1>2. Len(commits) \in Nat /\ DOMAIN commits = 1..Len(commits) /\ \A l \in 1..Len(commits) : commits[l] \in Entry
  BY <1>1
<1>3. \A l \in 1..Len(commits) : commits[l].tree \in Trees /\ commits[l].past \subseteq Nat
  BY <1>2 DEF Entry
<1>4. \A l \in 0..Len(commits) : Tree(l) \in Trees
  BY <1>2, <1>3, Empty DEF Tree
<1>5. \A d \in Device : head[d] \in 0..Len(commits)
  BY DEF CarrierTyped
<1>6. \A d \in Device : proc[d] \in Proc /\ pushed[d] \in 0..Limit /\ minted[d] \in 0..Limit /\ seen[d] \in [Device -> 0..Limit]
  BY DEF CarrierTyped
<1>7. remote \in Nat /\ remote <= Len(commits) /\ \A d \in Device : head[d] \in Nat
  BY <1>1, <1>2, <1>5
<1> QED BY ONLY <1>1, <1>2, <1>3, <1>4, <1>5, <1>6, <1>7

\* What was on the carrier at the start: every device had minted what is there.
LEMMA StockCount ==
    ASSUME NEW w \in World, NEW d \in Device
    PROVE  /\ Cardinality({e \in w.stock : e[1] = d}) \in 0..Limit
           /\ \A k \in 1..Cardinality({e \in w.stock : e[1] = d}) : <<d, k>> \in w.stock
<1> DEFINE E == {e \in w.stock : e[1] = d}
           S == {k \in 1..Limit : <<d, k>> \in w.stock}
<1>1. Limit \in Nat /\ w.stock \subseteq Device \X (1..Limit) /\ \A e \in w.stock : \A k \in 1..e[2] : <<e[1], k>> \in w.stock
  BY GitCarrierAssumption
<1>2. \A e \in E : e[2] \in S /\ e = <<d, e[2]>>
  BY <1>1
<1>3. CASE S = {}
  <2>1. E = {}
    BY <1>2, <1>3
  <2>2. Cardinality(E) = 0
    BY <2>1, FS_EmptySet
  <2>3. 0 \in 0..Limit /\ 1..0 = {}
    BY <1>1
  <2> HIDE DEF E, S
  <2> QED BY <2>2, <2>3 DEF E
<1>4. CASE S # {}
  <2>1. S \in SUBSET Nat /\ \A n \in S : n <= Limit
    BY <1>1
  <2>2. PICK k \in S : \A m \in S : m <= k
    <3> HIDE DEF S
    <3> QED BY <1>1, <1>4, <2>1, Largest
  <2>3. k \in 1..Limit /\ <<d, k>> \in w.stock
    OBVIOUS
  <2>4. \A i \in 1..k : <<d, i>> \in w.stock
    BY <1>1, <2>3
  <2> DEFINE f == [i \in 1..k |-> <<d, i>>]
  <2>5. f \in Bijection(1..k, E)
    <3>1. f \in [1..k -> E]
      BY <2>4
    <3>2. \A i, j \in 1..k : f[i] = f[j] => i = j
      OBVIOUS
    <3>3. \A e \in E : e[2] \in 1..k /\ f[e[2]] = e
      BY <1>1, <1>2, <2>2, <2>3
    <3> HIDE DEF E, f
    <3>4. f \in Injection(1..k, E)
      BY <3>1, <3>2 DEF Injection, IsInjective
    <3>5. f \in Surjection(1..k, E)
      BY <3>1, <3>3 DEF Surjection
    <3> QED BY <3>4, <3>5 DEF Bijection
  <2>6. Cardinality(E) = k
    <3> HIDE DEF E, f
    <3>1. ExistsBijection(1..k, E) /\ k \in Nat
      BY <1>1, <2>3, <2>5 DEF ExistsBijection
    <3> QED BY <3>1, FS_CountingElements
  <2> QED BY <1>1, <2>3, <2>4, <2>6
<1> QED BY <1>3, <1>4

\* The invariant holds at the start.
LEMMA CarrierStarts == Init => CarrierInv
<1> SUFFICES ASSUME Init PROVE CarrierInv
  OBVIOUS
<1> DEFINE bare == left.found = "carrier" /\ left.stock = {}
           first == [EmptyTree EXCEPT !.ev = left.stock, !.mark = left.found]
           entry == [past |-> {}, tree |-> first]
<1>1. left \in World /\ left.stock \subseteq Ids /\ left.found \in {"carrier", "empty", "other"} /\ Limit \in Nat
  <2>1. left \in World
    BY DEF Init
  <2> QED BY <2>1, GitCarrierAssumption DEF Ids
<1>2. commits = (IF bare THEN <<>> ELSE <<entry>>)
  BY DEF Init
<1>3. /\ first \in Trees /\ first.ev = left.stock /\ first.man = NoMan /\ first.lock = None /\ first.mark = left.found
      /\ entry \in Entry /\ entry.past = {} /\ entry.tree = first
  <2>1. /\ first \in Trees /\ first.ev = left.stock /\ first.man = EmptyTree.man /\ first.lock = EmptyTree.lock
        /\ first.mark = left.found
    BY <1>1, Empty DEF Trees
  <2> HIDE DEF first
  <2> QED BY <2>1 DEF EmptyTree, Entry
<1> HIDE DEF first, entry, bare
<1>4. /\ commits \in Seq(Entry) /\ Len(commits) \in {0, 1} /\ (Len(commits) = 1 => commits[1] = entry)
      /\ (Len(commits) = 0 => bare)
  <2>1. CASE bare
    BY <1>2, <2>1
  <2>2. CASE ~bare
    BY <1>2, <1>3, <2>2
  <2> QED BY <2>1, <2>2
<1>5. remote = Len(commits) /\ head = [d \in Device |-> 0] /\ proc = [d \in Device |-> Idle] /\ honest = TRUE
      /\ seen = [d \in Device |-> [o \in Device |-> 0]] /\ pushed = minted /\ refused = [d \in Device |-> FALSE]
      /\ minted = [d \in Device |-> Cardinality({e \in left.stock : e[1] = d})]
  BY DEF Init
<1>6. \A d \in Device : minted[d] \in 0..Limit /\ \A k \in 1..minted[d] : <<d, k>> \in left.stock
  BY <1>1, <1>5, StockCount
<1>7. CarrierTyped
  <2>1. minted \in [Device -> 0..Limit] /\ pushed \in [Device -> 0..Limit]
    BY <1>5, <1>6
  <2>2. remote \in 0..Len(commits) /\ head \in [Device -> 0..Len(commits)]
    BY <1>4, <1>5
  <2>3. proc \in [Device -> Proc] /\ refused \in [Device -> BOOLEAN] /\ honest \in BOOLEAN
    BY <1>5, IdleOK
  <2>4. seen \in [Device -> [Device -> 0..Limit]]
    BY <1>1, <1>5
  <2> QED BY <1>4, <2>1, <2>2, <2>3, <2>4 DEF CarrierTyped
<1>14. \A l \in 1..Len(commits) : l = 1 /\ commits[l] = entry
  <2>1. CASE Len(commits) = 0
    BY <2>1
  <2>2. CASE Len(commits) = 1
    BY <1>4, <2>2
  <2> QED BY <1>4, <2>1, <2>2
<1>8. CommitsOK
  BY <1>3, <1>14 DEF CommitsOK, NoMan
<1>9. LineOK
  <2>1. \A l \in 1..Len(commits) : l = 1 /\ commits[l] = entry /\ 1..(l - 1) = {}
    BY <1>14
  <2>2. Continues(first, first)
    BY <1>3, ContinuesSame
  <2> QED BY <1>3, <1>5, <2>1, <2>2 DEF LineOK, Follow
<1>10. ProcOK
  <2>1. Idle.at = "idle"
    BY DEF Idle
  <2> QED BY <1>5, <2>1, IdleOK DEF ProcOK, Staged
<1>11. LockOK
  <2>1. ~Idle.locked
    BY DEF Idle
  <2> QED BY <1>5, <2>1 DEF LockOK
<1>12. Acknowledged
  <2> SUFFICES ASSUME NEW d \in Device, NEW k \in 1..pushed[d] PROVE <<d, k>> \in Tree(remote).ev
    BY DEF Acknowledged
  <2>1. <<d, k>> \in left.stock
    BY <1>5, <1>6
  <2>2. Len(commits) = 1
    BY <1>4, <2>1 DEF bare
  <2>3. Tree(remote) = first
    BY <1>3, <1>4, <1>5, <2>2 DEF Tree
  <2> QED BY <1>3, <2>1, <2>3
<1>13. RefusalOK
  BY <1>5 DEF RefusalOK
<1> QED BY <1>7, <1>8, <1>9, <1>10, <1>11, <1>12, <1>13 DEF CarrierInv

-----------------------------------------------------------------------------
(* A refresh, a write, a push that lands.                                  *)

\* What a refresh accepts (gitcarrier.go checkHeadContinuity): floors that went
\* down nowhere, and no event missing that is not accounted for, as far as the
\* clone can compare.
LEMMA Refreshes ==
    ASSUME CarrierInv, NEW d \in Device, RefreshOk(d)
    PROVE  /\ \A o \in Device : Tree(head[d]).man.floors[o] <= Tree(remote).man.floors[o]
           /\ Tree(head[d]).man.n > 0 => Tree(remote).man.n > 0
           /\ known[d] => \A e \in Tree(head[d]).ev \ Tree(remote).ev :
                e[2] < Tree(remote).man.floors[e[1]] \/ e[1] \in Revoked
<1> USE DEF CarrierInv
<1> DEFINE h == head[d]
           t == Tree(h)
           u == Tree(remote)
<1>1. /\ h \in Nat /\ h <= Len(commits) /\ remote \in Nat /\ remote <= Len(commits) /\ Len(commits) \in Nat
      /\ t \in Trees /\ u \in Trees
  BY CarrierTypes
<1>2. (h \in {0, remote}) \/ (remote # 0 /\ h \in commits[remote].past)
      \/ (h # 0 /\ advanced(t.man, u.man) /\ (known[d] => checkCompactionDeletes(h, remote)))
  BY DEF RefreshOk, checkHeadContinuity
<1>3. CASE h \in {0, remote}
  <2>1. h = 0 => t = EmptyTree
    BY DEF Tree
  <2>2. Continues(t, u)
    <3> HIDE DEF t, u, h
    <3>1. CASE h = 0
      BY <1>1, <2>1, <3>1, ContinuesEmpty
    <3>2. CASE h = remote
      BY <1>1, <3>2, ContinuesSame DEF t, u
    <3> QED BY <1>3, <3>1, <3>2
  <2> HIDE DEF t, u
  <2>3. t.man.n \in Nat /\ u.man.n \in Nat
    BY <1>1, TreeParts
  <2>4. (\A o \in Device : t.man.floors[o] <= u.man.floors[o]) /\ (t.man.n > 0 => u.man.n > 0)
        /\ \A e \in t.ev \ u.ev : e[2] < u.man.floors[e[1]] \/ e[1] \in Revoked
    BY <2>2, <2>3 DEF Continues
  <2> QED BY <2>4 DEF t, u
<1>4. CASE remote # 0 /\ h \in commits[remote].past
  <2>1. remote \in 1..Len(commits)
    BY <1>1, <1>4
  <2>2. h \in 1..(remote - 1) /\ Continues(commits[h].tree, commits[remote].tree)
    BY <1>4, <2>1 DEF CommitsOK
  <2>3. Continues(t, u)
    BY <1>1, <1>4, <2>2 DEF Tree
  <2> HIDE DEF t, u
  <2>4. t.man.n \in Nat /\ u.man.n \in Nat
    BY <1>1, TreeParts
  <2>5. (\A o \in Device : t.man.floors[o] <= u.man.floors[o]) /\ (t.man.n > 0 => u.man.n > 0)
        /\ \A e \in t.ev \ u.ev : e[2] < u.man.floors[e[1]] \/ e[1] \in Revoked
    BY <2>3, <2>4 DEF Continues
  <2> QED BY <2>5 DEF t, u
<1>5. CASE h # 0 /\ advanced(t.man, u.man) /\ (known[d] => checkCompactionDeletes(h, remote))
  <2>1. known[d] => \A e \in t.ev \ u.ev : e[2] < u.man.floors[e[1]]
    BY <1>5 DEF checkCompactionDeletes
  <2>2. u.man.n > 0
    BY <1>5 DEF advanced
  <2>3. t.man.n = 0 => t.man.floors = [o \in Device |-> 0]
    BY <1>1, <1>5 DEF Tree, CommitsOK
  <2> HIDE DEF t, u
  <2>4. \A o \in Device : t.man.floors[o] \in Nat /\ u.man.floors[o] \in Nat
    BY <1>1, TreeParts
  <2>5. \A o \in Device : t.man.floors[o] <= u.man.floors[o]
    BY <1>5, <2>3, <2>4 DEF advanced
  <2> QED BY <2>1, <2>2, <2>5 DEF t, u
<1> QED BY <1>2, <1>3, <1>4, <1>5

\* What was confirmed stays so when the clone is moved on.
LEMMA ConfirmedOn ==
    ASSUME NEW p \in Proc, NEW t \in Trees, NEW u \in Trees, Confirmed(p, t),
           \A o \in Device : t.man.floors[o] <= u.man.floors[o], t.man.n > 0 => u.man.n > 0
    PROVE  Confirmed(p, u)
<1>1. \A o \in Device : t.man.floors[o] \in Nat /\ u.man.floors[o] \in Nat
  BY TreeParts
<1>2. \A o \in Device : p.mine.floors[o] \in Nat
  BY Empty DEF Proc, Manifests
<1> QED BY <1>1, <1>2 DEF Confirmed

\* A manifest that is built is numbered above nothing.
LEMMA BuiltTypes ==
    ASSUME NEW p \in Proc
    PROVE  /\ p.mine \in Manifests /\ p.etag \in Manifests /\ p.mine.n \in Nat /\ p.etag.n \in Nat
           /\ \A o \in Device : p.mine.floors[o] \in 0..(Limit + 1) /\ p.mine.floors[o] \in Nat /\ p.etag.floors[o] \in Nat
<1>1. p.mine \in Manifests /\ p.etag \in Manifests /\ Limit \in Nat
  BY Empty DEF Proc
<1>2. \A x \in Manifests : x.n \in Nat /\ \A o \in Device : x.floors[o] \in 0..(Limit + 1)
  BY DEF Manifests
<1>3. \A o \in Device : p.mine.floors[o] \in 0..(Limit + 1) /\ p.etag.floors[o] \in 0..(Limit + 1)
  BY <1>1, <1>2
<1> QED BY <1>1, <1>2, <1>3

\* Every write goes on from the tree it was based on (writeLoop, and the object
\* operations of r2.go).
LEMMA Applies ==
    ASSUME CarrierInv, NEW d \in Device, NEW op \in Writes, op = Op(d), proc[d].job \in Jobs,
           NEW t \in Trees, Confirmed(proc[d], t), Apply(d, op, t).ok,
           NEW q, q = [proc[d] EXCEPT !.at = "push", !.base = remote, !.tree = [Apply(d, op, t).tree EXCEPT !.mark = "carrier"]]
    PROVE  /\ q \in Proc /\ q.at = "push" /\ q.base = remote /\ q.job = proc[d].job /\ q.mine = proc[d].mine
           /\ q.etag = proc[d].etag /\ q.locked = proc[d].locked
           /\ Change(d, q, t, pushed[d], minted[d])
<1> USE DEF CarrierInv
<1> DEFINE p == proc[d]
           r == Apply(d, op, t).tree
           u == [r EXCEPT !.mark = "carrier"]
           floors == p.mine.floors
<1>1. p \in Proc /\ remote \in Nat /\ pushed[d] \in 0..Limit /\ minted[d] \in 0..Limit /\ Limit \in Nat
  BY CarrierTypes, Empty
<1>2. p.mine \in Manifests /\ p.mine.n \in Nat /\ p.etag.n \in Nat
      /\ \A o \in Device : p.mine.floors[o] \in Nat /\ p.etag.floors[o] \in Nat
  BY <1>1, BuiltTypes
<1>3. /\ t.ev \subseteq Ids /\ t.man \in Manifests /\ t.lock \in Device \cup {None}
      /\ \A o \in Device : t.man.floors[o] \in Nat
      /\ \A e \in t.ev : e[1] \in Device /\ e[2] \in Nat
  BY TreeParts
<1>4. JobOK(p) /\ Head(p.job) = op
  BY DEF ProcOK, Op
<1>5. Continues(t, t)
  BY ContinuesSame
<1>6. /\ op = "push" => r = Push(d, t)
      /\ op = "lock" => t.lock = None /\ r = [t EXCEPT !.lock = d]
      /\ op = "retain" => (t.man = p.etag \/ t.man = p.mine) /\ r = [t EXCEPT !.man = p.mine]
      /\ op = "squash" => r = CompactEventsBelow(floors, t)
      /\ op = "drop" => r = DeleteDeviceStream(floors, t)
      /\ op = "unlock" => r = DeleteSweepLock(d, t)
  BY DEF Apply, PutSweepLock, PutObject, PutRetention, PutObjectIfMatch, Writes
<1> DEFINE good(w) == /\ w \in Trees /\ Continues(t, w)
                      /\ op # "retain" => w.man = t.man
                      /\ op = "retain" => w.man = p.mine /\ (t.man = p.etag \/ t.man = p.mine)
                      /\ op \notin {"lock", "unlock"} => w.lock = t.lock
                      /\ op = "lock" => t.lock = None /\ w.lock = d
                      /\ op = "unlock" => w.lock = (IF t.lock = d THEN None ELSE t.lock)
                      /\ op \in {"retain", "lock", "unlock"} => w.ev = t.ev
                      /\ op = "push" => t.ev \subseteq w.ev /\ \A k \in (pushed[d] + 1)..minted[d] : <<d, k>> \in w.ev
                      /\ op \in {"squash", "drop"} => w.ev \subseteq t.ev
<1> HIDE DEF p, r
<1>7. good(r)
  <2>1. CASE op = "push"
    <3> DEFINE more == {e \in Ids : e[1] = d /\ pushed[d] < e[2] /\ e[2] <= minted[d]}
    <3>1. r = [t EXCEPT !.ev = t.ev \cup more] /\ t.ev \cup more \in SUBSET Ids
      BY <1>3, <1>6, <2>1 DEF Push
    <3>2. \A k \in (pushed[d] + 1)..minted[d] : <<d, k>> \in more
      BY <1>1 DEF Ids
    <3> HIDE DEF more
    <3>3. r \in Trees /\ r.ev = t.ev \cup more /\ r.man = t.man /\ r.lock = t.lock
      BY ONLY <3>1, t \in Trees DEF Trees
    <3>4. Continues(t, r)
      BY <1>5, <3>3 DEF Continues
    <3> QED BY <2>1, <3>2, <3>3, <3>4
  <2>2. CASE op = "lock"
    <3>1. r = [t EXCEPT !.lock = d] /\ t.lock = None
      BY <1>6, <2>2
    <3>2. r \in Trees /\ r.ev = t.ev /\ r.man = t.man /\ r.lock = d
      BY ONLY <3>1, t \in Trees, d \in Device DEF Trees
    <3>3. Continues(t, r)
      BY <1>5, <3>2 DEF Continues
    <3> QED BY <2>2, <3>1, <3>2, <3>3
  <2>3. CASE op = "retain"
    <3>1. r = [t EXCEPT !.man = p.mine] /\ (t.man = p.etag \/ t.man = p.mine)
      BY <1>6, <2>3
    <3>2. r \in Trees /\ r.ev = t.ev /\ r.man = p.mine /\ r.lock = t.lock
      BY ONLY <1>2, <3>1, t \in Trees DEF Trees
    <3>3. Built(p)
      <4>1. p.job = Retaining
        BY <1>4, <2>3, JobOf DEF p
      <4> QED BY <1>4, <4>1 DEF JobOK
    <3>4. Continues(t, r)
      <4>1. t.man.n <= p.mine.n /\ \A o \in Device : t.man.floors[o] <= p.mine.floors[o]
        BY <1>2, <1>3, <3>1, <3>3 DEF Built
      <4> QED BY <3>2, <4>1 DEF Continues
    <3> QED BY <2>3, <3>1, <3>2, <3>4
  <2>4. CASE op = "squash"
    <3> DEFINE rest == {e \in t.ev : e[2] >= floors[e[1]]}
    <3>1. r = [t EXCEPT !.ev = rest] /\ rest \in SUBSET Ids
      BY <1>3, <1>6, <2>4 DEF CompactEventsBelow
    <3>2. \A e \in t.ev \ rest : e[2] < t.man.floors[e[1]]
      <4> SUFFICES ASSUME NEW e \in t.ev \ rest PROVE e[2] < t.man.floors[e[1]]
        OBVIOUS
      <4>1. p.job = Squashing
        BY <1>4, <2>4, JobOf DEF p
      <4>2. \A o \in Device : floors[o] <= t.man.floors[o]
        BY <4>1 DEF Confirmed, p
      <4>3. e[1] \in Device /\ e[2] \in Nat /\ ~(e[2] >= floors[e[1]])
        BY <1>3
      <4> QED BY <1>2, <1>3, <4>2, <4>3
    <3> HIDE DEF rest
    <3>3. r \in Trees /\ r.ev = rest /\ r.man = t.man /\ r.lock = t.lock
      BY ONLY <3>1, t \in Trees DEF Trees
    <3>4. Continues(t, r)
      BY <1>5, <3>2, <3>3 DEF Continues
    <3>5. rest \subseteq t.ev
      BY DEF rest
    <3> QED BY <2>4, <3>3, <3>4, <3>5
  <2>5. CASE op = "drop"
    <3> DEFINE rest == {e \in t.ev : ~(e[1] \in Revoked /\ floors[e[1]] > 0)}
    <3>1. r = [t EXCEPT !.ev = rest] /\ rest \in SUBSET Ids
      BY <1>3, <1>6, <2>5 DEF DeleteDeviceStream
    <3>2. (\A e \in t.ev \ rest : e[1] \in Revoked) /\ rest \subseteq t.ev
      OBVIOUS
    <3> HIDE DEF rest
    <3>3. r \in Trees /\ r.ev = rest /\ r.man = t.man /\ r.lock = t.lock
      BY ONLY <3>1, t \in Trees DEF Trees
    <3>4. Continues(t, r)
      BY <1>5, <3>2, <3>3 DEF Continues
    <3> QED BY <2>5, <3>2, <3>3, <3>4
  <2>6. CASE op = "unlock"
    <3> DEFINE w == IF t.lock = d THEN None ELSE t.lock
    <3>1. r = [t EXCEPT !.lock = w] /\ w \in Device \cup {None}
      <4>1. CASE t.lock = d
        BY <1>6, <2>6, <4>1 DEF DeleteSweepLock
      <4>2. CASE t.lock # d
        <5>1. r = t /\ w = t.lock
          BY <1>6, <2>6, <4>2 DEF DeleteSweepLock
        <5>2. t = [t EXCEPT !.lock = t.lock]
          BY ONLY t \in Trees DEF Trees
        <5> QED BY <1>3, <5>1, <5>2
      <4> QED BY <4>1, <4>2
    <3> HIDE DEF w
    <3>2. r \in Trees /\ r.ev = t.ev /\ r.man = t.man /\ r.lock = w
      BY ONLY <3>1, t \in Trees DEF Trees
    <3>3. Continues(t, r)
      BY <1>5, <3>2 DEF Continues
    <3> QED BY <2>6, <3>2, <3>3 DEF w
  <2> QED BY <2>1, <2>2, <2>3, <2>4, <2>5, <2>6 DEF Writes
<1>8. u \in Trees /\ u.ev = r.ev /\ u.man = r.man /\ u.lock = r.lock /\ u.mark = "carrier"
  <2>1. r \in Trees
    BY <1>7
  <2> QED BY ONLY <2>1 DEF Trees
<1>9. good(u)
  <2>1. Continues(t, u)
    BY <1>7, <1>8 DEF Continues
  <2> QED BY <1>7, <1>8, <2>1
<1>10. q = [p EXCEPT !.at = "push", !.base = remote, !.tree = u]
  BY DEF p, r
<1> HIDE DEF u
<1>11. /\ q \in Proc /\ q.at = "push" /\ q.base = remote /\ q.job = p.job /\ q.mine = p.mine
       /\ q.etag = p.etag /\ q.locked = p.locked /\ q.tree = u
  <2>1. u \in Trees
    BY <1>8
  <2> QED BY ONLY <1>1, <1>10, <2>1 DEF Proc
<1>12. op = "squash" => t.man.n > 0
  <2>1. op = "squash" => p.job = Squashing
    BY <1>4, JobOf DEF p
  <2> QED BY <2>1 DEF Confirmed, p
<1>13. Change(d, q, t, pushed[d], minted[d])
  BY <1>4, <1>8, <1>9, <1>11, <1>12 DEF Change
<1> QED BY <1>11, <1>13 DEF p

\* What a push that lands makes of the branch (gitcarrier.go pushBranch).
LEMMA Lands ==
    ASSUME CarrierInv, NEW d \in Device, proc[d].at = "push", Leased(d), Land(d), honest' = honest
    PROVE  /\ commits' \in Seq(Entry) /\ Len(commits') = Len(commits) + 1 /\ remote' = Len(commits) + 1
           /\ \A l \in 1..Len(commits) : commits'[l] = commits[l]
           /\ commits'[Len(commits) + 1].tree = proc[d].tree
           /\ proc[d].tree \in Trees /\ head[d] = remote
           /\ Head(proc[d].job) \in Writes /\ proc[d].job \in Jobs
           /\ Change(d, proc[d], Tree(remote), pushed[d], minted[d]) /\ Continues(Tree(remote), proc[d].tree)
           /\ CommitsOK' /\ LineOK'
<1> USE DEF CarrierInv
<1> DEFINE p == proc[d]
           t == Tree(remote)
           u == p.tree
           n == Len(commits) + 1
           new == [past |-> Past(d), tree |-> u]
<1>1. /\ p \in Proc /\ Len(commits) \in Nat /\ remote \in Nat /\ remote <= Len(commits) /\ t \in Trees /\ commits \in Seq(Entry)
      /\ u \in Trees
  BY CarrierTypes DEF CarrierTyped, Proc
<1>2. /\ p.base = head[d] /\ Head(p.job) \in Writes /\ remote = p.base
      /\ Change(d, p, t, pushed[d], minted[d])
  BY DEF ProcOK, Staged, Leased
<1>3. p.job \in Jobs
  <2>1. p.job # <<>>
    BY DEF ProcOK, JobOK
  <2> QED BY <1>1, <2>1 DEF Proc
<1>4. Past(d) = (IF Head(p.job) = "squash" \/ remote = 0 THEN {} ELSE commits[remote].past \cup {remote})
  BY <1>2 DEF Past, Op
<1>5. remote # 0 => /\ remote \in 1..Len(commits) /\ t = commits[remote].tree
                    /\ commits[remote].past \subseteq 1..(remote - 1)
                    /\ \A k \in commits[remote].past : Continues(commits[k].tree, t)
  BY <1>1 DEF Tree, CommitsOK
<1>6. Past(d) \subseteq 1..(n - 1)
  BY <1>1, <1>4, <1>5
<1>7. new \in Entry
  BY <1>1, <1>6 DEF Entry
<1>8. commits' = Append(commits, new) /\ remote' = n
  BY DEF Land
<1>9. Continues(t, u) /\ u.mark # "other"
  BY <1>2 DEF Change
<1> HIDE DEF new
<1>10. commits' \in Seq(Entry) /\ Len(commits') = n /\ (\A l \in 1..Len(commits) : commits'[l] = commits[l]) /\ commits'[n] = new
  BY ONLY <1>1, <1>7, <1>8
<1>11. new.past = Past(d) /\ new.tree = u
  BY DEF new
<1>12. u.man.n = 0 => u.man.floors = [o \in Device |-> 0] /\ t.man.n = 0 /\ u.man = t.man /\ Head(p.job) # "squash"
  <2>1. t.man.n = 0 => t.man.floors = [o \in Device |-> 0]
    <3>1. CASE remote = 0
      BY <3>1 DEF Tree, EmptyTree, NoMan
    <3>2. CASE remote # 0
      BY <1>5, <3>2 DEF CommitsOK
    <3> QED BY <3>1, <3>2
  <2>2. t.man.n \in Nat /\ u.man.n \in Nat /\ t.man.n <= u.man.n
    BY <1>1, <1>9, TreeParts DEF Continues
  <2>3. CASE Head(p.job) = "retain"
    <3>1. p.job = Retaining
      BY <1>3, <2>3, JobOf
    <3>2. u.man = p.mine /\ p.mine.n = p.etag.n + 1
      BY <1>2, <2>3, <3>1 DEF Change, ProcOK, JobOK, Built
    <3> QED BY <1>1, <3>2, BuiltTypes
  <2>4. CASE Head(p.job) # "retain"
    <3>1. u.man = t.man /\ (Head(p.job) = "squash" => t.man.n > 0)
      BY <1>2, <2>4 DEF Change
    <3> QED BY <2>1, <2>2, <3>1
  <2> QED BY <2>3, <2>4
<1>13. Follow(t, u)
  <2>1. CASE Head(p.job) = "retain"
    <3>1. p.job = Retaining
      BY <1>3, <2>1, JobOf
    <3>2. u.man = p.mine /\ p.mine.n = p.etag.n + 1 /\ (t.man = p.etag \/ t.man = p.mine)
      BY <1>2, <2>1, <3>1 DEF Change, ProcOK, JobOK, Built
    <3>3. p.etag.n \in Nat
      BY <1>1, BuiltTypes
    <3> QED BY <1>9, <3>2, <3>3 DEF Follow
  <2>2. CASE Head(p.job) # "retain"
    BY <1>2, <1>9, <2>2 DEF Change, Follow
  <2> QED BY <2>1, <2>2
<1>14. \A l \in 1..Len(commits) : commits[l].tree \in Trees
  BY CarrierTypes
<1>15. CommitsOK'
  <2> SUFFICES ASSUME NEW l \in 1..n
               PROVE  /\ commits'[l].past \subseteq 1..(l - 1)
                      /\ \A k \in commits'[l].past : Continues(commits'[k].tree, commits'[l].tree)
                      /\ commits'[l].tree.man.n = 0 => commits'[l].tree.man.floors = [o \in Device |-> 0]
                      /\ l > 1 => commits'[l].tree.mark # "other"
    BY <1>10 DEF CommitsOK, Continues
  <2>1. CASE l \in 1..Len(commits)
    <3>1. /\ commits[l].past \subseteq 1..(l - 1)
          /\ \A k \in commits[l].past : Continues(commits[k].tree, commits[l].tree)
          /\ commits[l].tree.man.n = 0 => commits[l].tree.man.floors = [o \in Device |-> 0]
          /\ l > 1 => commits[l].tree.mark # "other"
      BY <2>1 DEF CommitsOK
    <3>2. commits'[l] = commits[l] /\ \A k \in commits[l].past : commits'[k] = commits[k]
      BY <1>1, <1>10, <2>1, <3>1
    <3> QED BY <3>1, <3>2
  <2>2. CASE l = n
    <3>1. commits'[l].past = Past(d) /\ commits'[l].tree = u
      BY <1>10, <1>11, <2>2
    <3>2. ASSUME NEW k \in Past(d) PROVE Continues(commits'[k].tree, u)
      <4>1. remote # 0 /\ (k = remote \/ k \in commits[remote].past)
        BY <1>4, <3>2
      <4>2. k \in 1..Len(commits) /\ commits'[k] = commits[k]
        BY <1>1, <1>6, <1>10, <3>2
      <4>3. commits[k].tree \in Trees
        BY <1>14, <4>2
      <4>4. Continues(commits[k].tree, t)
        <5>1. CASE k = remote
          BY <1>1, <1>5, <4>1, <5>1, ContinuesSame
        <5>2. CASE k \in commits[remote].past
          BY <1>5, <4>1, <5>2
        <5> QED BY <4>1, <5>1, <5>2
      <4> HIDE DEF t, u
      <4> QED BY <1>1, <1>9, <4>2, <4>3, <4>4, ContinuesOn
    <3>3. l - 1 = n - 1
      BY <2>2
    <3> QED BY <1>6, <1>9, <1>12, <3>1, <3>2, <3>3
  <2> QED BY <1>1, <2>1, <2>2
<1>16. LineOK'
  <2> SUFFICES ASSUME honest
               PROVE  /\ remote' = Len(commits')
                      /\ \A i, j \in 1..n : i <= j => Follow(commits'[i].tree, commits'[j].tree)
                      /\ \A l \in 1..n : commits'[l].tree.man.n = 0 => commits'[l].past = 1..(l - 1)
    BY <1>10 DEF LineOK, Follow, Continues
  <2>1. /\ remote = Len(commits)
        /\ \A i, j \in 1..Len(commits) : i <= j => Follow(commits[i].tree, commits[j].tree)
        /\ \A l \in 1..Len(commits) : commits[l].tree.man.n = 0 => commits[l].past = 1..(l - 1)
    BY DEF LineOK
  <2>2. \A i \in 1..Len(commits) : Follow(commits[i].tree, u)
    <3> TAKE i \in 1..Len(commits)
    <3>1. Follow(commits[i].tree, t) /\ commits[i].tree \in Trees
      BY <1>1, <1>5, <1>14, <2>1
    <3> DEFINE s == commits[i].tree
    <3> HIDE DEF s, t, u
    <3>2. Continues(s, u)
      BY <1>1, <1>9, <3>1, ContinuesOn DEF s, Follow
    <3>3. s.man.n \in Nat /\ t.man.n \in Nat /\ u.man.n \in Nat
      BY <1>1, <3>1, TreeParts DEF s
    <3>4. s.man.n <= t.man.n /\ t.man.n <= u.man.n
      BY <1>13, <3>1 DEF Follow, Continues, s
    <3>5. s.man.n = u.man.n => s.man = u.man
      BY <1>13, <3>1, <3>3, <3>4 DEF Follow, s
    <3> QED BY <3>2, <3>5 DEF Follow, s
  <2>3. Follow(u, u)
    BY <1>1, ContinuesSame DEF Follow
  <2>4. \A i, j \in 1..n : i <= j => Follow(commits'[i].tree, commits'[j].tree)
    <3> TAKE i, j \in 1..n
    <3> SUFFICES ASSUME i <= j PROVE Follow(commits'[i].tree, commits'[j].tree)
      OBVIOUS
    <3>1. CASE j \in 1..Len(commits)
      <4>1. i \in 1..Len(commits) /\ commits'[i] = commits[i] /\ commits'[j] = commits[j]
        BY <1>1, <1>10, <3>1
      <4> QED BY <2>1, <3>1, <4>1
    <3>2. CASE j = n /\ i \in 1..Len(commits)
      BY <1>10, <1>11, <2>2, <3>2
    <3>3. CASE j = n /\ i = n
      BY <1>10, <1>11, <2>3, <3>3
    <3> QED BY <1>1, <3>1, <3>2, <3>3
  <2>5. ASSUME NEW l \in 1..n, commits'[l].tree.man.n = 0 PROVE commits'[l].past = 1..(l - 1)
    <3>1. CASE l \in 1..Len(commits)
      BY <1>10, <2>1, <2>5, <3>1
    <3>2. CASE l = n
      <4>1. u.man.n = 0 /\ commits'[l].past = Past(d)
        BY <1>10, <1>11, <2>5, <3>2
      <4>2. t.man.n = 0 /\ Head(p.job) # "squash"
        BY <1>12, <4>1
      <4>3. CASE remote = 0
        <5>1. Past(d) = {} /\ l - 1 = 0
          BY <1>4, <2>1, <3>2, <4>3
        <5> QED BY <4>1, <5>1
      <4>4. CASE remote # 0
        <5>1. commits[remote].past = 1..(remote - 1)
          BY <1>5, <2>1, <4>2, <4>4
        <5>2. Past(d) = (1..(remote - 1)) \cup {remote}
          BY <1>4, <4>2, <4>4, <5>1
        <5>3. l - 1 = remote
          BY <1>1, <2>1, <3>2
        <5>4. (1..(remote - 1)) \cup {remote} = 1..remote
          BY <1>1, <4>4
        <5> QED BY <4>1, <5>2, <5>3, <5>4
      <4> QED BY <4>3, <4>4
    <3> QED BY <1>1, <3>1, <3>2
  <2> QED BY <1>8, <1>10, <2>4, <2>5
<1> QED BY <1>1, <1>2, <1>3, <1>8, <1>9, <1>10, <1>11, <1>15, <1>16

\* A refusal on an honest host has its cause.
LEMMA RefusedForCause ==
    ASSUME CarrierInv, NEW d \in Device, ~RefreshOk(d), honest
    PROVE  Len(commits) > 0 /\ Explained
<1> USE DEF CarrierInv
<1> DEFINE h == head[d]
<1>1. /\ Len(commits) \in Nat /\ remote = Len(commits) /\ h \in 0..Len(commits) /\ h \in Nat
      /\ \A l \in 1..Len(commits) : commits[l].tree \in Trees
  BY CarrierTypes DEF LineOK
<1>2. remote # 0
  BY <1>1 DEF RefreshOk
<1> DEFINE u == commits[remote].tree
           t == commits[h].tree
<1>3. remote \in 1..Len(commits) /\ Tree(remote) = u
  BY <1>1, <1>2 DEF Tree
<1>4. CASE u.mark = "other"
  <2>1. remote = 1
    BY <1>1, <1>3, <1>4 DEF CommitsOK
  <2> QED BY <1>1, <1>4, <2>1 DEF Explained
<1>5. CASE u.mark # "other"
  <2>1. h # 0 /\ h # remote /\ h \notin commits[remote].past
        /\ ~(advanced(Tree(h).man, Tree(remote).man) /\ (known[d] => checkCompactionDeletes(h, remote)))
    BY <1>2, <1>3, <1>5 DEF RefreshOk, validateMarker, checkHeadContinuity
  <2>2. h \in 1..Len(commits) /\ h < remote /\ Tree(h) = t
    BY <1>1, <2>1 DEF Tree
  <2>3. Follow(t, u)
    BY <1>1, <1>3, <2>2 DEF LineOK
  <2>4. u.man.n > 0
    <3> SUFFICES ASSUME ~(u.man.n > 0) PROVE FALSE
      OBVIOUS
    <3>1. u.man.n \in Nat
      BY <1>1, <1>3, TreeParts
    <3>2. commits[remote].past = 1..(remote - 1)
      BY <1>3, <3>1 DEF LineOK
    <3> QED BY <1>1, <2>1, <2>2, <3>2
  <2>5. ~(advanced(t.man, u.man) /\ (known[d] => checkCompactionDeletes(h, remote)))
    BY <1>3, <2>1, <2>2
  <2>6. CASE ~checkCompactionDeletes(h, remote)
    <3>1. PICK e \in t.ev \ u.ev : ~(e[2] < u.man.floors[e[1]])
      BY <1>3, <2>2, <2>6 DEF checkCompactionDeletes
    <3>2. e[1] \in Revoked
      BY <2>3, <3>1 DEF Follow, Continues
    <3> QED BY <1>1, <2>2, <3>1, <3>2 DEF Explained
  <2>7. CASE ~advanced(t.man, u.man)
    <3> HIDE DEF t, u
    <3>1. t \in Trees /\ u \in Trees
      BY <1>1, <1>3, <2>2 DEF t, u
    <3>2. t.man.n \in Nat /\ u.man.n \in Nat /\ t.man.at \in Nat /\ u.man.at \in Nat
          /\ \A o \in Device : t.man.floors[o] \in Nat /\ u.man.floors[o] \in Nat
      BY <3>1, TreeParts
    <3>3. t.man.n <= u.man.n /\ (t.man.n = u.man.n => t.man = u.man) /\ \A o \in Device : t.man.floors[o] <= u.man.floors[o]
      BY <2>3 DEF Follow, Continues
    <3>4. t.man.n # 0 /\ u.man # t.man /\ ~(u.man.at > t.man.at /\ \A o \in Device : u.man.floors[o] >= t.man.floors[o])
      BY <2>4, <2>7 DEF advanced
    <3>5. t.man.n > 0 /\ t.man.n < u.man.n /\ t.man.at >= u.man.at
      BY <3>2, <3>3, <3>4
    <3> QED BY <1>1, <1>3, <2>2, <3>5 DEF Explained, t, u
  <2> QED BY <2>5, <2>6, <2>7
<1> QED BY <1>4, <1>5

-----------------------------------------------------------------------------
(* Steps of one device.                                                    *)

\* The records of the processes, when one device goes on.
LEMMA ProcKeeps ==
    ASSUME CarrierInv, NEW d \in Device, NEW q \in Proc, proc' = [proc EXCEPT ![d] = q],
           \A l \in 1..Len(commits) : commits'[l] = commits[l],
           \A x \in Device \ {d} : head'[x] = head[x] /\ pushed'[x] = pushed[x] /\ minted'[x] = minted[x],
           JobOK(q), NEW tr, tr = Tree(head[d])', Confirmed(q, tr),
           q.at = "push" => Staged(d, q, head'[d], tr, pushed'[d], minted'[d])
    PROVE  proc' \in [Device -> Proc] /\ proc'[d] = q /\ (\A x \in Device \ {d} : proc'[x] = proc[x]) /\ ProcOK'
<1>1. proc \in [Device -> Proc]
  BY DEF CarrierInv, CarrierTyped
<1>2. proc' \in [Device -> Proc] /\ proc'[d] = q /\ \A x \in Device \ {d} : proc'[x] = proc[x]
  BY <1>1
<1>3. \A x \in Device \ {d} : Tree(head[x])' = Tree(head[x])
  <2> TAKE x \in Device \ {d}
  <2>1. head[x] \in 0..Len(commits) /\ Len(commits) \in Nat
    BY CarrierTypes DEF CarrierInv
  <2> QED BY <2>1 DEF Tree
<1>4. ASSUME NEW x \in Device
      PROVE  /\ JobOK(proc'[x]) /\ Confirmed(proc'[x], Tree(head[x])')
             /\ Staged(x, proc'[x], head'[x], Tree(head[x])', pushed'[x], minted'[x])
  <2>1. CASE x = d
    BY <1>2, <2>1 DEF Staged
  <2>2. CASE x # d
    <3>1. /\ JobOK(proc[x]) /\ Confirmed(proc[x], Tree(head[x]))
          /\ Staged(x, proc[x], head[x], Tree(head[x]), pushed[x], minted[x])
      BY DEF CarrierInv, ProcOK
    <3> QED BY <1>2, <1>3, <2>2, <3>1
  <2> QED BY <2>1, <2>2
<1>5. ProcOK'
  BY <1>4 DEF ProcOK, JobOK, Built, Confirmed, Staged, Change, Continues
<1> QED BY <1>2, <1>5

\* A step of one device that leaves the branch alone.
LEMMA StillKeeps ==
    ASSUME CarrierInv, NEW d \in Device, NEW q \in Proc, proc' = [proc EXCEPT ![d] = q],
           commits' = commits, remote' = remote, honest' = honest,
           NEW h \in 0..Len(commits), head' = [head EXCEPT ![d] = h],
           \A x \in Device \ {d} : pushed'[x] = pushed[x] /\ minted'[x] = minted[x],
           minted' \in [Device -> 0..Limit], pushed' \in [Device -> 0..Limit],
           seen' \in [Device -> [Device -> 0..Limit]], refused' \in [Device -> BOOLEAN],
           JobOK(q), Confirmed(q, Tree(h)),
           q.at = "push" => Staged(d, q, h, Tree(h), pushed'[d], minted'[d]),
           q.locked /\ q.job # Releasing => proc[d].locked /\ proc[d].job # Releasing
    PROVE  CarrierTyped' /\ CommitsOK' /\ LineOK' /\ ProcOK' /\ LockOK'
<1> USE DEF CarrierInv
<1>1. head \in [Device -> 0..Len(commits)] /\ head' \in [Device -> 0..Len(commits)] /\ head'[d] = h
      /\ \A x \in Device \ {d} : head'[x] = head[x]
  BY DEF CarrierTyped
<1>2. Tree(head[d])' = Tree(h)
  BY <1>1 DEF Tree
<1>3. proc' \in [Device -> Proc] /\ proc'[d] = q /\ (\A x \in Device \ {d} : proc'[x] = proc[x]) /\ ProcOK'
  <2> DEFINE tr == Tree(h)
  <2>1. tr = Tree(head[d])' /\ Confirmed(q, tr) /\ (q.at = "push" => Staged(d, q, head'[d], tr, pushed'[d], minted'[d]))
    BY <1>1, <1>2
  <2>2. \A x \in Device \ {d} : head'[x] = head[x] /\ pushed'[x] = pushed[x] /\ minted'[x] = minted[x]
    BY <1>1
  <2>3. \A l \in 1..Len(commits) : commits'[l] = commits[l]
    OBVIOUS
  <2> HIDE DEF tr
  <2> QED BY <2>1, <2>2, <2>3, ProcKeeps
<1>4. CarrierTyped'
  BY <1>1, <1>3 DEF CarrierTyped
<1>5. CommitsOK' /\ LineOK'
  BY DEF CommitsOK, LineOK, Follow, Continues
<1>6. LockOK'
  <2> SUFFICES ASSUME honest, NEW x \in Device, proc'[x].locked, proc'[x].job # Releasing PROVE Tree(remote).lock = x
    BY DEF LockOK, Tree
  <2>1. proc[x].locked /\ proc[x].job # Releasing
    BY <1>3
  <2> QED BY <2>1 DEF LockOK
<1> QED BY <1>3, <1>4, <1>5, <1>6

\* What was acknowledged stays so while the branch stays.
LEMMA AckStill ==
    ASSUME CarrierInv, commits' = commits, remote' = remote, honest' = honest, pushed' = pushed
    PROVE  Acknowledged'
  BY DEF CarrierInv, Acknowledged, Tree

LEMMA RefusalStill ==
    ASSUME CarrierInv, commits' = commits, honest' = honest, \A d \in Device : refused'[d] => refused[d]
    PROVE  RefusalOK'
  BY DEF CarrierInv, RefusalOK, Explained

\* The end of a command that failed.
LEMMA FailedOK ==
    ASSUME NEW d \in Device, NEW q, q = Failed(d)
    PROVE  q \in Proc /\ JobOK(q) /\ q.at # "push" /\ ~q.locked /\ q.job \notin {Squashing, Dropping}
<1> DEFINE w == [Idle EXCEPT !.job = <<"unlock">>, !.at = "fetch"]
<1>1. Idle \in Proc /\ Idle.at = "idle" /\ ~Idle.locked /\ JobOK(Idle) /\ Idle.job = <<>> /\ Idle.base = 0
  BY IdleOK DEF Idle
<1>2. Releasing \in Jobs /\ Releasing \in Held /\ Releasing # <<>> /\ <<"unlock">> = Releasing
      /\ Releasing \notin {Locking, Retaining, Confirming, Squashing, Dropping}
  <2>1. Releasing \in Held
    BY DEF Held
  <2> QED BY <2>1, JobLengths DEF Jobs, Releasing
<1>3. w \in Proc /\ w.job = Releasing /\ w.at = "fetch" /\ ~w.locked /\ w.base = 0
  BY ONLY <1>1, <1>2 DEF Proc
<1> HIDE DEF w
<1>4. JobOK(w)
  BY <1>2, <1>3 DEF JobOK
<1>5. <<>> \notin {Squashing, Dropping}
  BY NoJob DEF Jobs, Held
<1> QED BY <1>1, <1>2, <1>3, <1>4, <1>5 DEF Failed, w

\* Another attempt, or the end of the command.
LEMMA RetryOK ==
    ASSUME CarrierInv, NEW d \in Device, proc[d].at = "push", Retry(d)
    PROVE  \E q \in Proc : /\ proc' = [proc EXCEPT ![d] = q] /\ JobOK(q) /\ q.at # "push"
                           /\ (q.locked => proc[d].locked /\ q.job = proc[d].job)
                           /\ \A t \in Trees : Confirmed(proc[d], t) => Confirmed(q, t)
<1> USE DEF CarrierInv
<1> DEFINE p == proc[d]
           w == [p EXCEPT !.at = "fetch", !.base = 0, !.tree = EmptyTree, !.tries = p.tries + 1]
           f == Failed(d)
<1>1. p \in Proc /\ JobOK(p) /\ p.tries \in Nat
  <2>1. p \in Proc
    BY CarrierTypes
  <2> QED BY <2>1 DEF ProcOK, Proc
<1>2. proc' = [proc EXCEPT ![d] = IF p.tries + 1 = Attempts THEN f ELSE w]
  BY DEF Retry
<1>3. w \in Proc /\ w.job = p.job /\ w.at = "fetch" /\ w.base = 0 /\ w.locked = p.locked /\ w.mine = p.mine /\ w.etag = p.etag
  <2> DEFINE n == p.tries + 1
  <2>1. n \in Nat
    BY <1>1
  <2>2. w = [p EXCEPT !.at = "fetch", !.base = 0, !.tree = EmptyTree, !.tries = n]
    OBVIOUS
  <2> HIDE DEF w, n
  <2> QED BY ONLY <1>1, <2>1, <2>2, Empty DEF Proc
<1>4. p.job # <<>>
  BY <1>1 DEF JobOK
<1> HIDE DEF w, f
<1>5. f \in Proc /\ JobOK(f) /\ f.at # "push" /\ ~f.locked /\ f.job \notin {Squashing, Dropping}
  BY FailedOK DEF f
<1>6. JobOK(w)
  BY <1>1, <1>3, <1>4 DEF JobOK, Built
<1>7. \A t \in Trees : Confirmed(p, t) => Confirmed(w, t) /\ Confirmed(f, t)
  BY <1>3, <1>5 DEF Confirmed
<1>8. CASE p.tries + 1 = Attempts
  BY <1>2, <1>5, <1>7, <1>8
<1>9. CASE p.tries + 1 # Attempts
  BY <1>2, <1>3, <1>6, <1>7, <1>9
<1> QED BY <1>8, <1>9

\* Mint, and the start of a command.
LEMMA StartsKeep == CarrierInv /\ (\E d \in Device : Mint(d) \/ StartSync(d) \/ StartCompact(d)) => CarrierInv'
<1> SUFFICES ASSUME CarrierInv, NEW d \in Device, Mint(d) \/ StartSync(d) \/ StartCompact(d) PROVE CarrierInv'
  OBVIOUS
<1> USE DEF CarrierInv
<1>1. /\ commits' = commits /\ remote' = remote /\ honest' = honest /\ head' = head /\ pushed' = pushed /\ seen' = seen
      /\ refused' = refused /\ proc[d] = Idle
  BY DEF Mint, StartSync, StartCompact, Start, carrier, clones, replica
<1>2. /\ head[d] \in 0..Len(commits) /\ head \in [Device -> 0..Len(commits)] /\ proc \in [Device -> Proc]
      /\ minted \in [Device -> 0..Limit] /\ pushed \in [Device -> 0..Limit] /\ Limit \in Nat
      /\ seen \in [Device -> [Device -> 0..Limit]] /\ refused \in [Device -> BOOLEAN]
  BY Empty, CarrierTypes DEF CarrierTyped
<1>3. head' = [head EXCEPT ![d] = head[d]]
  BY <1>1, <1>2
<1>4. minted' \in [Device -> 0..Limit] /\ \A x \in Device \ {d} : minted'[x] = minted[x]
  <2>1. CASE Mint(d)
    <3>1. minted' = [minted EXCEPT ![d] = @ + 1] /\ minted[d] < Limit
      BY <2>1 DEF Mint
    <3> QED BY <1>2, <3>1
  <2>2. CASE StartSync(d) \/ StartCompact(d)
    BY <1>2, <2>2 DEF StartSync, StartCompact, replica
  <2> QED BY <2>1, <2>2
<1>5. PICK q \in Proc : /\ proc' = [proc EXCEPT ![d] = q] /\ JobOK(q) /\ q.at # "push" /\ ~q.locked
                        /\ q.job \notin {Squashing, Dropping}
  <2>1. Idle \in Proc /\ JobOK(Idle) /\ Idle.at = "idle" /\ ~Idle.locked /\ Idle.job = <<>> /\ Idle.base = 0
    BY IdleOK DEF Idle
  <2>2. CASE Mint(d)
    <3>1. proc' = [proc EXCEPT ![d] = Idle]
      BY <1>1, <1>2, <2>2 DEF Mint
    <3>2. <<>> \notin {Squashing, Dropping}
      BY NoJob DEF Jobs, Held
    <3> QED BY <2>1, <3>1, <3>2
  <2>3. ASSUME NEW j \in {Syncing, Compacting}, Start(d, j)
        PROVE  \E q \in Proc : /\ proc' = [proc EXCEPT ![d] = q] /\ JobOK(q) /\ q.at # "push" /\ ~q.locked
                               /\ q.job \notin {Squashing, Dropping}
    <3> DEFINE w == [Idle EXCEPT !.job = j, !.at = "fetch"]
    <3>1. j \in Jobs /\ j # <<>> /\ j \notin {Locking, Retaining, Confirming, Squashing, Dropping}
      BY NoJob, JobLengths, JobHeads DEF Jobs
    <3>2. proc' = [proc EXCEPT ![d] = w]
      BY <2>3 DEF Start
    <3>3. w \in Proc /\ w.job = j /\ w.at = "fetch" /\ ~w.locked /\ w.base = 0
      BY ONLY <2>1, <3>1 DEF Proc
    <3> HIDE DEF w
    <3>4. JobOK(w)
      BY <3>1, <3>3 DEF JobOK
    <3> QED BY <3>1, <3>2, <3>3, <3>4
  <2> QED BY <2>2, <2>3 DEF StartSync, StartCompact, Syncing, Compacting
<1>6. Confirmed(q, Tree(head[d]))
  BY <1>5 DEF Confirmed
<1>7. CarrierTyped' /\ CommitsOK' /\ LineOK' /\ ProcOK' /\ LockOK'
  BY <1>1, <1>2, <1>3, <1>4, <1>5, <1>6, StillKeeps
<1> QED BY <1>1, <1>7, AckStill, RefusalStill

\* A device whose command fetches or pushes is in the middle of one.
LEMMA Running ==
    ASSUME CarrierInv, NEW d \in Device, proc[d].at # "idle"
    PROVE  /\ proc[d] \in Proc /\ proc[d].job \in Jobs /\ JobOK(proc[d]) /\ Confirmed(proc[d], Tree(head[d]))
           /\ Staged(d, proc[d], head[d], Tree(head[d]), pushed[d], minted[d])
<1>1. proc[d] \in Proc
  BY CarrierTypes DEF CarrierInv
<1>2. JobOK(proc[d]) /\ Confirmed(proc[d], Tree(head[d]))
      /\ Staged(d, proc[d], head[d], Tree(head[d]), pushed[d], minted[d])
  BY DEF CarrierInv, ProcOK
<1>3. proc[d].job # <<>>
  BY <1>2 DEF JobOK
<1> QED BY <1>1, <1>2, <1>3 DEF Proc

\* A step that refreshes and writes nothing.
LEMMA ReadKeeps ==
    ASSUME CarrierInv, NEW d \in Device, Refreshed(d), NEW q \in Proc, proc' = [proc EXCEPT ![d] = q],
           UNCHANGED <<carrier, refused, minted, honest>>, seen' \in [Device -> [Device -> 0..Limit]],
           pushed' \in [Device -> 0..Limit], \A x \in Device \ {d} : pushed'[x] = pushed[x],
           JobOK(q), Confirmed(q, Tree(remote)),
           q.at = "push" => Staged(d, q, remote, Tree(remote), pushed'[d], minted[d]),
           q.locked /\ q.job # Releasing => proc[d].locked /\ proc[d].job # Releasing,
           Acknowledged'
    PROVE  CarrierInv'
<1>1. commits' = commits /\ remote' = remote /\ refused' = refused /\ minted' = minted /\ honest' = honest
  BY DEF carrier
<1>2. remote \in 0..Len(commits) /\ minted' \in [Device -> 0..Limit] /\ refused' \in [Device -> BOOLEAN]
  BY <1>1 DEF CarrierInv, CarrierTyped
<1>3. head' = [head EXCEPT ![d] = remote]
  BY DEF Refreshed
<1>4. CarrierTyped' /\ CommitsOK' /\ LineOK' /\ ProcOK' /\ LockOK'
  BY <1>1, <1>2, <1>3, StillKeeps
<1>5. RefusalOK'
  BY <1>1, RefusalStill
<1> QED BY <1>4, <1>5 DEF CarrierInv

\* A clone refuses the carrier.
LEMMA RefuseKeeps == ASSUME CarrierInv, NEW d \in Device, Refuse(d) PROVE CarrierInv'
<1> DEFINE q == Failed(d)
<1>1. /\ commits' = commits /\ remote' = remote /\ honest' = honest /\ head' = head /\ pushed' = pushed /\ seen' = seen
      /\ minted' = minted /\ proc' = [proc EXCEPT ![d] = q] /\ refused' = [refused EXCEPT ![d] = TRUE] /\ ~RefreshOk(d)
  BY DEF Refuse, carrier, clones, replica
<1>2. /\ head[d] \in 0..Len(commits) /\ head \in [Device -> 0..Len(commits)]
      /\ minted \in [Device -> 0..Limit] /\ pushed \in [Device -> 0..Limit]
      /\ seen \in [Device -> [Device -> 0..Limit]] /\ refused \in [Device -> BOOLEAN]
  BY CarrierTypes DEF CarrierInv, CarrierTyped
<1>3. head' = [head EXCEPT ![d] = head[d]] /\ refused' \in [Device -> BOOLEAN]
  BY <1>1, <1>2
<1>4. q \in Proc /\ JobOK(q) /\ q.at # "push" /\ ~q.locked /\ q.job \notin {Squashing, Dropping}
  BY FailedOK
<1> HIDE DEF q
<1>5. Confirmed(q, Tree(head[d]))
  BY <1>4 DEF Confirmed
<1>6. CarrierTyped' /\ CommitsOK' /\ LineOK' /\ ProcOK' /\ LockOK'
  BY <1>1, <1>2, <1>3, <1>4, <1>5, StillKeeps
<1>7. RefusalOK'
  <2>1. honest => Len(commits) > 0 /\ Explained
    BY <1>1, RefusedForCause
  <2> QED BY <1>1, <2>1 DEF RefusalOK, Explained
<1> QED BY <1>1, <1>6, <1>7, AckStill DEF CarrierInv

\* A cursor after a pull.
LEMMA PulledType == ASSUME CarrierInv, NEW d \in Device PROVE Pulled(d) \in [Device -> 0..Limit]
<1>1. Limit \in Nat /\ seen[d] \in [Device -> 0..Limit] /\ Tree(remote) \in Trees
  BY Empty, CarrierTypes DEF CarrierInv
<1>2. ASSUME NEW lo \in 0..Limit, NEW S \in SUBSET ((lo + 1)..Limit) PROVE lo + Cardinality(S) \in 0..Limit
  <2> DEFINE k == lo + 1
  <2>1. k \in Int /\ Limit \in Int
    BY <1>1
  <2> HIDE DEF k
  <2>2. IsFiniteSet(k..Limit) /\ Cardinality(k..Limit) = IF k > Limit THEN 0 ELSE Limit - k + 1
    BY <2>1, FS_Interval
  <2>3. S \subseteq k..Limit
    BY DEF k
  <2>4. Cardinality(S) <= Cardinality(k..Limit) /\ IsFiniteSet(S)
    BY <2>2, <2>3, FS_Subset
  <2>5. Cardinality(S) \in Nat
    BY <2>4, FS_CardinalityType
  <2>6. Cardinality(k..Limit) <= Limit - lo /\ Cardinality(k..Limit) \in Int
    BY <1>1, <2>2 DEF k
  <2> QED BY <1>1, <2>4, <2>5, <2>6
<1> DEFINE from == [o \in Device |-> IF Tree(remote).man.floors[o] > 0
                                     THEN MaxOf(seen[d][o], Tree(remote).man.floors[o] - 1) ELSE seen[d][o]]
<1>3. \A o \in Device : from[o] \in 0..Limit
  <2> TAKE o \in Device
  <2>1. Tree(remote).man.floors[o] \in 0..(Limit + 1) /\ seen[d][o] \in 0..Limit
    BY <1>1, TreeParts
  <2> QED BY <1>1, <2>1 DEF MaxOf
<1>4. Pulled(d) = [o \in Device |-> from[o] + Cardinality({s \in (from[o] + 1)..Limit :
                                       \A r \in (from[o] + 1)..s : <<o, r>> \in Tree(remote).ev})]
  BY DEF Pulled
<1> HIDE DEF from
<1>5. ASSUME NEW o \in Device PROVE Pulled(d)[o] \in 0..Limit
  <2> DEFINE S == {s \in (from[o] + 1)..Limit : \A r \in (from[o] + 1)..s : <<o, r>> \in Tree(remote).ev}
  <2>1. S \in SUBSET ((from[o] + 1)..Limit)
    OBVIOUS
  <2>2. Pulled(d)[o] = from[o] + Cardinality(S)
    BY <1>4
  <2> HIDE DEF S
  <2> QED BY <1>2, <1>3, <2>1, <2>2
<1> QED BY <1>4, <1>5

\* The pull.
LEMMA ReadPullKeeps == ASSUME CarrierInv, NEW d \in Device, ReadPull(d) PROVE CarrierInv'
<1> DEFINE p == proc[d]
           q == Onward(p)
           t == Tree(remote)
<1>1. Refreshed(d) /\ p.at = "fetch" /\ Head(p.job) = "pull"
  BY DEF ReadPull, Refreshed, Fetching, Op
<1>2. p \in Proc /\ p.job \in Jobs /\ JobOK(p)
  BY <1>1, Running
<1>3. p.job \notin {Reading, Rereading, Locking, Retaining, Confirming, Squashing, Dropping}
  BY <1>1, JobHeads
<1>4. Ready(p, t)
  BY <1>2, <1>3 DEF Ready, JobOK
<1>5. proc' = [proc EXCEPT ![d] = q] /\ UNCHANGED <<carrier, minted, pushed, refused, honest>>
      /\ seen' = [seen EXCEPT ![d] = Pulled(d)]
  BY DEF ReadPull
<1> HIDE DEF q, t
<1>6. q \in Proc /\ JobOK(q) /\ Confirmed(q, t) /\ q.at # "push" /\ (q.locked => p.locked /\ p.job # Releasing)
  BY <1>2, <1>4, Onwards DEF q
<1>7. seen' \in [Device -> [Device -> 0..Limit]] /\ pushed' \in [Device -> 0..Limit]
  BY <1>5, PulledType DEF CarrierInv, CarrierTyped
<1>8. Acknowledged'
  BY <1>5, AckStill DEF carrier
<1> QED BY <1>1, <1>5, <1>6, <1>7, <1>8, ReadKeeps DEF t

\* The manifest is read and the next one built on it.
LEMMA ReadRetentionKeeps == ASSUME CarrierInv, NEW d \in Device, ReadRetention(d) PROVE CarrierInv'
<1> DEFINE p == proc[d]
           t == Tree(remote)
           cur == t.man
           floors == Floors(d, cur)
<1>1. Refreshed(d) /\ p.at = "fetch" /\ Head(p.job) = "retention"
  BY DEF ReadRetention, Refreshed, Fetching, Op
<1>2. p \in Proc /\ p.job \in Jobs /\ JobOK(p) /\ p.job \in {Reading, Rereading}
  BY <1>1, Running, JobOf
<1>3. UNCHANGED <<carrier, seen, minted, pushed, refused, honest>>
  BY DEF ReadRetention, replica
<1>4. seen' \in [Device -> [Device -> 0..Limit]] /\ pushed' \in [Device -> 0..Limit]
  BY <1>3 DEF CarrierInv, CarrierTyped
<1>5. Acknowledged'
  BY <1>3, AckStill DEF carrier
<1>6. cur \in Manifests /\ cur.n \in Nat /\ cur.at \in Nat /\ (\A o \in Device : cur.floors[o] \in 0..(Limit + 1)) /\ Limit \in Nat
  BY CarrierTypes, TreeParts, Empty DEF CarrierInv
<1>7. \A o \in Device : pushed[d] \in 0..Limit /\ seen[d][o] \in 0..Limit
  BY CarrierTypes DEF CarrierInv
<1>8. CASE \E o \in Device : floors[o] < cur.floors[o]
  <2> DEFINE q == Failed(d)
  <2>1. proc' = [proc EXCEPT ![d] = q]
    BY <1>8 DEF ReadRetention
  <2>2. q \in Proc /\ JobOK(q) /\ q.at # "push" /\ ~q.locked /\ q.job \notin {Squashing, Dropping}
    BY FailedOK
  <2> HIDE DEF q
  <2>3. Confirmed(q, t)
    BY <2>2 DEF Confirmed
  <2> QED BY <1>1, <1>3, <1>4, <1>5, <2>1, <2>2, <2>3, ReadKeeps
<1>9. CASE ~\E o \in Device : floors[o] < cur.floors[o]
  <2>1. PICK at \in ProducedAt(d, cur) :
          proc' = [proc EXCEPT ![d] = Onward([@ EXCEPT !.etag = cur,
                      !.mine = [n |-> cur.n + 1, floors |-> floors, at |-> at, by |-> d]])]
    BY <1>9 DEF ReadRetention
  <2> DEFINE m == [n |-> cur.n + 1, floors |-> floors, at |-> at, by |-> d]
             p1 == [p EXCEPT !.etag = cur, !.mine = m]
             q == Onward(p1)
  <2>2. at \in Nat
    BY <1>6 DEF ProducedAt
  <2>3. floors \in [Device -> 0..(Limit + 1)]
    BY <1>6, <1>7 DEF Floors
  <2>4. \A o \in Device : cur.floors[o] <= floors[o]
    BY <1>6, <1>9, <2>3
  <2>5. m.n = cur.n + 1 /\ m.floors = floors
    OBVIOUS
  <2>6. m \in Manifests
    BY <1>6, <2>2, <2>3 DEF Manifests
  <2>7. proc \in [Device -> Proc]
    BY DEF CarrierInv, CarrierTyped
  <2>8. proc' = [proc EXCEPT ![d] = q]
    BY <2>1, <2>7
  <2> HIDE DEF m, floors, cur, t
  <2>9. p1 \in Proc /\ p1.job = p.job /\ p1.etag = cur /\ p1.mine = m /\ p1.locked = p.locked
    BY <1>2, <1>6, <2>6 DEF Proc
  <2> HIDE DEF p1
  <2>10. Built(p1)
    BY <2>4, <2>5, <2>9 DEF Built
  <2>11. p.job \notin {Locking, Confirming, Squashing, Dropping, Releasing}
    BY <1>1, JobHeads
  <2>12. Ready(p1, t)
    BY <1>2, <2>9, <2>10, <2>11 DEF Ready, JobOK
  <2> HIDE DEF q
  <2>13. q \in Proc /\ JobOK(q) /\ Confirmed(q, t) /\ q.at # "push" /\ (q.locked => p1.locked /\ p1.job # Releasing)
    BY <2>9, <2>12, Onwards DEF q
  <2> QED BY <1>1, <1>3, <1>4, <1>5, <2>8, <2>9, <2>13, ReadKeeps DEF t
<1> QED BY <1>8, <1>9

\* The read-back.
LEMMA ReadConfirmKeeps == ASSUME CarrierInv, NEW d \in Device, ReadConfirm(d) PROVE CarrierInv'
<1> DEFINE p == proc[d]
           t == Tree(remote)
<1>1. Refreshed(d) /\ p.at = "fetch" /\ Head(p.job) = "confirm"
  BY DEF ReadConfirm, Refreshed, Fetching, Op
<1>2. p \in Proc /\ p.job \in Jobs /\ JobOK(p) /\ p.job = Confirming
  BY <1>1, Running, JobOf
<1>3. UNCHANGED <<carrier, seen, minted, pushed, refused, honest>>
  BY DEF ReadConfirm, replica
<1>4. seen' \in [Device -> [Device -> 0..Limit]] /\ pushed' \in [Device -> 0..Limit]
  BY <1>3 DEF CarrierInv, CarrierTyped
<1>5. Acknowledged'
  BY <1>3, AckStill DEF carrier
<1>6. CASE t.man # p.mine
  <2> DEFINE q == Failed(d)
  <2>1. proc' = [proc EXCEPT ![d] = q]
    BY <1>6 DEF ReadConfirm
  <2>2. q \in Proc /\ JobOK(q) /\ q.at # "push" /\ ~q.locked /\ q.job \notin {Squashing, Dropping}
    BY FailedOK
  <2> HIDE DEF q
  <2>3. Confirmed(q, t)
    BY <2>2 DEF Confirmed
  <2> QED BY <1>1, <1>3, <1>4, <1>5, <2>1, <2>2, <2>3, ReadKeeps
<1>7. CASE t.man = p.mine
  <2> DEFINE q == Onward(p)
  <2>1. proc' = [proc EXCEPT ![d] = q]
    BY <1>7 DEF ReadConfirm
  <2>2. Built(p) /\ p.mine.n = p.etag.n + 1 /\ p.etag.n \in Nat /\ \A o \in Device : p.mine.floors[o] \in Nat
    <3>1. Built(p)
      BY <1>2 DEF JobOK
    <3> QED BY <1>2, <3>1, BuiltTypes DEF Built
  <2>3. t.man.n > 0 /\ \A o \in Device : p.mine.floors[o] <= t.man.floors[o]
    BY <1>7, <2>2
  <2>4. Ready(p, t)
    BY <1>2, <2>2, <2>3 DEF Ready, JobOK
  <2> HIDE DEF q, t
  <2>5. q \in Proc /\ JobOK(q) /\ Confirmed(q, t) /\ q.at # "push" /\ (q.locked => p.locked /\ p.job # Releasing)
    BY <1>2, <2>4, Onwards DEF q
  <2> QED BY <1>1, <1>3, <1>4, <1>5, <2>1, <2>5, ReadKeeps DEF t
<1> QED BY <1>6, <1>7

\* A write that goes through hands over to the next call.
LEMMA Writing ==
    ASSUME NEW p \in Proc, p.job \in Jobs, JobOK(p), Head(p.job) \in Writes, NEW t, Confirmed(p, t),
           NEW l \in BOOLEAN, l => p.locked \/ Head(p.job) = "lock", NEW p1, p1 = [p EXCEPT !.locked = l]
    PROVE  p1 \in Proc /\ p1.job = p.job /\ p1.locked = l /\ Ready(p1, t)
<1>1. p1 \in Proc /\ p1.job = p.job /\ p1.locked = l /\ p1.mine = p.mine /\ p1.etag = p.etag
  BY DEF Proc
<1>2. p.job \notin {Reading, Rereading, Confirming}
  BY JobHeads DEF Writes
<1>3. p.job \in {Locking, Retaining, Squashing, Dropping} => Built(p1)
  BY <1>1 DEF JobOK, Built
<1>4. l => p.job \in Held \cup {Locking}
  BY JobOf DEF JobOK
<1>5. p.job \in {Confirming, Squashing} => t.man.n > 0 /\ \A o \in Device : p1.mine.floors[o] <= t.man.floors[o]
  BY <1>1, <1>2 DEF Confirmed
<1> HIDE DEF Ready
<1>6. Ready(p1, t)
  BY ONLY <1>1, <1>2, <1>3, <1>4, <1>5, p.job \in Jobs DEF Ready
<1> QED BY <1>1, <1>6

\* The watermark and the cursors after a write.
LEMMA Returns ==
    ASSUME CarrierInv, NEW d \in Device, Returned(d)
    PROVE  /\ minted' = minted /\ pushed' \in [Device -> 0..Limit] /\ seen' \in [Device -> [Device -> 0..Limit]]
           /\ \A x \in Device \ {d} : pushed'[x] = pushed[x]
           /\ pushed'[d] = (IF Op(d) = "push" THEN minted[d] ELSE pushed[d])
<1>1. /\ pushed \in [Device -> 0..Limit] /\ minted \in [Device -> 0..Limit] /\ seen \in [Device -> [Device -> 0..Limit]]
      /\ Limit \in Nat /\ proc[d] \in Proc
  BY Empty, CarrierTypes DEF CarrierInv, CarrierTyped
<1>2. pushed' = [pushed EXCEPT ![d] = IF Op(d) = "push" THEN minted[d] ELSE pushed[d]] /\ minted' = minted
  BY <1>1 DEF Returned
<1> DEFINE row == [o \in Device |-> IF Op(d) = "squash" /\ proc[d].mine.floors[o] > 0
                                    THEN MaxOf(seen[d][o], proc[d].mine.floors[o] - 1) ELSE seen[d][o]]
<1>3. seen' = [seen EXCEPT ![d] = row]
  BY <1>1 DEF Returned
<1>4. ASSUME NEW o \in Device PROVE row[o] \in 0..Limit
  <2>1. proc[d].mine.floors[o] \in 0..(Limit + 1) /\ seen[d][o] \in 0..Limit
    BY <1>1, BuiltTypes
  <2> QED BY <1>1, <2>1 DEF MaxOf
<1>5. row \in [Device -> 0..Limit]
  BY <1>4
<1> HIDE DEF row
<1>6. seen' \in [Device -> [Device -> 0..Limit]]
  BY <1>1, <1>3, <1>5
<1>7. pushed' \in [Device -> 0..Limit] /\ (\A x \in Device \ {d} : pushed'[x] = pushed[x])
      /\ pushed'[d] = (IF Op(d) = "push" THEN minted[d] ELSE pushed[d])
  BY <1>1, <1>2
<1> QED BY <1>2, <1>6, <1>7

\* One attempt of a write, up to its push.
LEMMA CommitKeeps == ASSUME CarrierInv, NEW d \in Device, Commit(d) PROVE CarrierInv'
<1> DEFINE p == proc[d]
           op == Op(d)
           t == Tree(remote)
           r == Apply(d, op, t)
           new == [r.tree EXCEPT !.mark = "carrier"]
<1>1. /\ Refreshed(d) /\ p.at = "fetch" /\ Head(p.job) = op /\ op \notin {"pull", "retention", "confirm"}
      /\ UNCHANGED <<carrier, refused, honest>> /\ RefreshOk(d)
  BY DEF Commit, Refreshed, Fetching, Op
<1>2. p \in Proc /\ p.job \in Jobs /\ JobOK(p) /\ Confirmed(p, Tree(head[d])) /\ op \in Writes
  <2>1. p \in Proc /\ p.job \in Jobs /\ JobOK(p) /\ Confirmed(p, Tree(head[d]))
    BY <1>1, Running
  <2> QED BY <1>1, <2>1, JobOf
<1>3. Confirmed(p, t) /\ t \in Trees
  <2>1. Tree(head[d]) \in Trees /\ Tree(remote) \in Trees
    BY CarrierTypes DEF CarrierInv
  <2> QED BY <1>1, <1>2, <2>1, Refreshes, ConfirmedOn
<1>4. proc \in [Device -> Proc] /\ pushed \in [Device -> 0..Limit] /\ seen \in [Device -> [Device -> 0..Limit]]
  BY DEF CarrierInv, CarrierTyped
<1>5. CASE ~r.ok
  <2>1. UNCHANGED replica
    BY <1>5 DEF Commit
  <2>2. seen' = seen /\ minted' = minted /\ pushed' = pushed /\ Acknowledged'
    BY <1>1, <2>1, AckStill DEF replica, carrier
  <2>3. PICK q \in Proc : /\ proc' = [proc EXCEPT ![d] = q] /\ JobOK(q) /\ q.at # "push" /\ Confirmed(q, t)
                          /\ (q.locked /\ q.job # Releasing => p.locked /\ p.job # Releasing)
    <3>1. CASE op = "retain" /\ ~p.again
      <4>1. p.job = Retaining
        BY <1>1, <1>2, <3>1, JobOf
      <4> DEFINE q == [p EXCEPT !.job = Rereading, !.again = TRUE]
      <4>2. proc' = [proc EXCEPT ![d] = q]
        BY <1>4, <1>5, <3>1, <4>1, JobAgain DEF Commit
      <4>3. Rereading \in Held /\ Rereading \in Jobs
        BY DEF Held, Jobs
      <4>4. q \in Proc /\ q.job = Rereading /\ q.at = p.at /\ q.base = p.base /\ q.locked = p.locked
        BY ONLY <1>2, <4>3 DEF Proc
      <4> HIDE DEF q
      <4>5. Rereading # <<>> /\ Rereading \notin {Locking, Retaining, Confirming, Squashing, Dropping}
        BY JobHeads, JobLengths
      <4>6. JobOK(q) /\ Confirmed(q, t)
        BY <1>1, <1>2, <4>3, <4>4, <4>5 DEF JobOK, Confirmed
      <4>7. p.job # Releasing
        BY <4>1, JobLengths
      <4> QED BY <1>1, <4>2, <4>4, <4>6, <4>7
    <3>2. CASE ~(op = "retain" /\ ~p.again)
      <4> DEFINE q == Failed(d)
      <4>1. proc' = [proc EXCEPT ![d] = q]
        BY <1>4, <1>5, <3>2 DEF Commit
      <4>2. q \in Proc /\ JobOK(q) /\ q.at # "push" /\ ~q.locked /\ q.job \notin {Squashing, Dropping}
        BY FailedOK
      <4> HIDE DEF q
      <4> QED BY <4>1, <4>2 DEF Confirmed
    <3> QED BY <3>1, <3>2
  <2> QED BY <1>1, <1>4, <2>2, <2>3, ReadKeeps
<1>6. CASE r.ok
  <2> DEFINE w == [p EXCEPT !.at = "push", !.base = remote, !.tree = new]
  <2>1. /\ w \in Proc /\ w.at = "push" /\ w.base = remote /\ w.job = p.job /\ w.mine = p.mine
        /\ w.etag = p.etag /\ w.locked = p.locked /\ Change(d, w, t, pushed[d], minted[d])
    BY <1>2, <1>3, <1>6, Applies
  <2>2. w.tree = new
    BY <1>2 DEF Proc
  <2>3. CASE (op = "squash" /\ remote = 0) \/ (op # "squash" /\ new = t)
    <3>1. Succeed(d) /\ Returned(d)
      BY <1>6, <2>3 DEF Commit
    <3>2. op # "lock"
      <4>1. None \notin Device
        BY GitCarrierAssumption
      <4> SUFFICES ASSUME op = "lock" PROVE FALSE
        OBVIOUS
      <4>2. w.tree = t
        BY <2>2, <2>3
      <4> HIDE DEF t, w, new, r
      <4>3. t.lock = None /\ t.lock = d
        BY <1>1, <2>1, <4>2 DEF Change
      <4> QED BY <4>1, <4>3
    <3>3. op = "push" => \A k \in (pushed[d] + 1)..minted[d] : <<d, k>> \in t.ev
      BY <1>1, <2>1, <2>2, <2>3 DEF Change
    <3> DEFINE l == p.locked
               p1 == [p EXCEPT !.locked = l]
               q == Onward(p1)
    <3>4. l \in BOOLEAN /\ l = (p.locked \/ op = "lock")
      BY <1>2, <3>2 DEF Proc
    <3>5. proc' = [proc EXCEPT ![d] = q]
      BY <1>4, <3>1, <3>4 DEF Succeed
    <3> HIDE DEF t, new, w, r
    <3>6. p1 \in Proc /\ p1.job = p.job /\ p1.locked = l /\ Ready(p1, t)
      BY <1>1, <1>2, <1>3, <3>4, Writing
    <3> HIDE DEF p1, q
    <3>7. q \in Proc /\ JobOK(q) /\ Confirmed(q, t) /\ q.at # "push" /\ (q.locked => p1.locked /\ p1.job # Releasing)
      BY <3>6, Onwards DEF q
    <3>8. /\ minted' = minted /\ pushed' \in [Device -> 0..Limit] /\ seen' \in [Device -> [Device -> 0..Limit]]
          /\ \A x \in Device \ {d} : pushed'[x] = pushed[x]
          /\ pushed'[d] = (IF op = "push" THEN minted[d] ELSE pushed[d])
      BY <3>1, Returns
    <3>9. Acknowledged'
      <4> SUFFICES ASSUME honest, NEW x \in Device, NEW k \in 1..pushed'[x]
                   PROVE  <<x, k>> \in t.ev \/ k < t.man.floors[x] \/ x \in Revoked
        BY <1>1 DEF Acknowledged, carrier, Tree, t
      <4>1. pushed[x] \in Nat /\ pushed'[x] \in Nat /\ minted[x] \in Nat
        <5>1. Limit \in Nat /\ pushed[x] \in 0..Limit /\ minted[x] \in 0..Limit
          BY CarrierTypes, Empty DEF CarrierInv
        <5>2. pushed'[x] \in 0..Limit
          BY <3>8
        <5> QED BY ONLY <5>1, <5>2
      <4>2. CASE k <= pushed[x]
        <5>1. k \in 1..pushed[x]
          BY <4>1, <4>2
        <5> QED BY <5>1 DEF CarrierInv, Acknowledged, t
      <4>3. CASE ~(k <= pushed[x])
        <5>1. x = d /\ op = "push" /\ pushed'[d] = minted[d]
          BY <3>8, <4>1, <4>3
        <5>2. k \in (pushed[d] + 1)..minted[d]
          BY <4>1, <4>3, <5>1
        <5> QED BY <3>3, <5>1, <5>2
      <4> QED BY <4>2, <4>3
    <3> QED BY <1>1, <3>5, <3>6, <3>7, <3>8, <3>9, ReadKeeps DEF t
  <2>4. CASE ~((op = "squash" /\ remote = 0) \/ (op # "squash" /\ new = t))
    <3>1. proc' = [proc EXCEPT ![d] = w] /\ UNCHANGED replica
      BY <1>4, <1>6, <2>4 DEF Commit
    <3> HIDE DEF w, new, t, r
    <3>2. seen' = seen /\ minted' = minted /\ pushed' = pushed /\ Acknowledged'
      BY <1>1, <3>1, AckStill DEF replica, carrier
    <3>3. Staged(d, w, remote, t, pushed'[d], minted[d])
      BY <1>1, <1>2, <2>1, <3>2 DEF Staged
    <3>4. JobOK(w) /\ Confirmed(w, t)
      <4>1. p.job # <<>>
        BY <1>2, JobOf
      <4> QED BY <1>2, <1>3, <2>1, <4>1 DEF JobOK, Confirmed, Built
    <3> QED BY <1>1, <1>4, <2>1, <3>1, <3>2, <3>3, <3>4, ReadKeeps DEF t
  <2> QED BY <2>3, <2>4
<1> QED BY <1>5, <1>6

\* A push that lands, whether its device learns of it or not.
LEMMA LandKeeps ==
    ASSUME CarrierInv, NEW d \in Device, proc[d].at = "push", Leased(d), Land(d), honest' = honest,
           NEW q \in Proc, proc' = [proc EXCEPT ![d] = q], JobOK(q), q.at # "push",
           NEW h \in {head[d], Len(commits) + 1}, head' = [head EXCEPT ![d] = h],
           Confirmed(q, IF h = head[d] THEN Tree(remote) ELSE proc[d].tree),
           q.locked /\ q.job # Releasing => (proc[d].locked \/ Op(d) = "lock") /\ Op(d) # "unlock",
           minted' = minted, pushed' \in [Device -> 0..Limit], seen' \in [Device -> [Device -> 0..Limit]],
           refused' \in [Device -> BOOLEAN], \A x \in Device : refused'[x] => refused[x],
           \A x \in Device \ {d} : pushed'[x] = pushed[x],
           pushed'[d] = pushed[d] \/ (Op(d) = "push" /\ pushed'[d] = minted[d])
    PROVE  CarrierInv'
<1> DEFINE p == proc[d]
           t == Tree(remote)
           u == p.tree
           n == Len(commits) + 1
           op == Op(d)
<1>1. /\ commits' \in Seq(Entry) /\ Len(commits') = n /\ remote' = n /\ \A l \in 1..Len(commits) : commits'[l] = commits[l]
      /\ commits'[n].tree = u /\ u \in Trees /\ head[d] = remote /\ Head(p.job) \in Writes /\ p.job \in Jobs
      /\ Change(d, p, t, pushed[d], minted[d]) /\ Continues(t, u) /\ CommitsOK' /\ LineOK'
  BY Lands
<1>2. /\ Len(commits) \in Nat /\ t \in Trees /\ head \in [Device -> 0..Len(commits)] /\ head[d] \in 0..Len(commits)
      /\ Limit \in Nat /\ pushed[d] \in 0..Limit /\ minted[d] \in 0..Limit /\ proc \in [Device -> Proc]
  BY CarrierTypes, Empty DEF CarrierInv, CarrierTyped
<1>3. /\ head' \in [Device -> 0..n] /\ head'[d] = h /\ \A x \in Device \ {d} : head'[x] = head[x]
  <2>1. h \in 0..n
    BY <1>2
  <2>2. \A x \in Device : head[x] \in 0..n
    BY <1>2
  <2> HIDE DEF n
  <2> QED BY <1>2, <2>1, <2>2
<1>4. Tree(remote)' = u
  BY <1>1, <1>2 DEF Tree
<1> DEFINE tr == Tree(head[d])'
<1>5. tr = IF h = head[d] THEN t ELSE u
  <2>1. CASE h = head[d]
    BY <1>1, <1>2, <1>3, <2>1 DEF Tree
  <2>2. CASE h # head[d]
    BY <1>1, <1>2, <1>3, <2>2 DEF Tree
  <2> QED BY <2>1, <2>2
<1> HIDE DEF tr
<1>6. Confirmed(q, tr)
  BY <1>5
<1>7. proc' \in [Device -> Proc] /\ proc'[d] = q /\ (\A x \in Device \ {d} : proc'[x] = proc[x]) /\ ProcOK'
  <2>1. \A x \in Device \ {d} : head'[x] = head[x] /\ pushed'[x] = pushed[x] /\ minted'[x] = minted[x]
    BY <1>3
  <2>2. tr = Tree(head[d])'
    BY DEF tr
  <2> QED BY <1>1, <1>6, <2>1, <2>2, ProcKeeps
<1>8. CarrierTyped'
  <2>1. minted' \in [Device -> 0..Limit] /\ honest' \in BOOLEAN
    BY DEF CarrierInv, CarrierTyped
  <2>2. remote' \in 0..Len(commits') /\ head' \in [Device -> 0..Len(commits')]
    BY <1>1, <1>2, <1>3
  <2> QED BY <1>1, <1>7, <2>1, <2>2 DEF CarrierTyped
<1> HIDE DEF t, u, p, op, n
<1>9. /\ op \notin {"lock", "unlock"} => u.lock = t.lock
      /\ op = "lock" => t.lock = None /\ u.lock = d
      /\ op = "unlock" => u.lock = (IF t.lock = d THEN None ELSE t.lock)
      /\ op = "push" => t.ev \subseteq u.ev /\ \A k \in (pushed[d] + 1)..minted[d] : <<d, k>> \in u.ev
  BY <1>1 DEF Change, op, Op, p, u
<1>10. LockOK'
  <2> SUFFICES ASSUME honest, NEW x \in Device, proc'[x].locked, proc'[x].job # Releasing PROVE u.lock = x
    BY <1>4 DEF LockOK
  <2>1. \A y \in Device : proc[y].locked /\ proc[y].job # Releasing => t.lock = y
    BY DEF CarrierInv, LockOK, t
  <2>2. None \notin Device
    BY GitCarrierAssumption
  <2>3. CASE x # d
    BY <1>7, <1>9, <2>1, <2>2, <2>3
  <2>4. CASE x = d
    <3>1. (p.locked \/ op = "lock") /\ op # "unlock"
      BY <1>7, <2>4 DEF p, op
    <3>2. op # "lock" => p.locked /\ p.job # Releasing
      BY <3>1, JobHeads DEF op, Op, p
    <3> QED BY <1>9, <2>1, <2>4, <3>1, <3>2 DEF p
  <2> QED BY <2>3, <2>4
<1>11. Acknowledged'
  <2> SUFFICES ASSUME honest, NEW x \in Device, NEW k \in 1..pushed'[x]
               PROVE  <<x, k>> \in u.ev \/ k < u.man.floors[x] \/ x \in Revoked
    BY <1>4 DEF Acknowledged
  <2>1. pushed[x] \in Nat /\ pushed'[x] \in Nat /\ minted[x] \in Nat /\ t.man.floors[x] \in Nat /\ u.man.floors[x] \in Nat
    <3>1. t.man.floors[x] \in Nat /\ u.man.floors[x] \in Nat
      BY <1>1, <1>2, TreeParts DEF t, u
    <3>2. pushed[x] \in 0..Limit /\ minted[x] \in 0..Limit
      BY CarrierTypes DEF CarrierInv
    <3>3. pushed'[x] \in 0..Limit /\ Limit \in Nat
      BY <1>2
    <3> QED BY <3>1, <3>2, <3>3
  <2>2. t.man.floors[x] <= u.man.floors[x] /\ \A e \in t.ev \ u.ev : e[2] < u.man.floors[e[1]] \/ e[1] \in Revoked
    BY <1>1 DEF Continues
  <2>3. CASE k <= pushed[x]
    <3>1. k \in 1..pushed[x]
      BY <2>1, <2>3
    <3>2. <<x, k>> \in t.ev \/ k < t.man.floors[x] \/ x \in Revoked
      BY <3>1 DEF CarrierInv, Acknowledged, t
    <3>3. <<x, k>> \in t.ev \ u.ev => k < u.man.floors[x] \/ x \in Revoked
      BY <2>2
    <3>4. k \in Nat /\ (k < t.man.floors[x] => k < u.man.floors[x])
      BY ONLY <2>1, <2>2, <3>1
    <3>5. <<x, k>> \in t.ev => <<x, k>> \in u.ev \/ k < u.man.floors[x] \/ x \in Revoked
      BY ONLY <3>3
    <3> QED BY ONLY <3>2, <3>4, <3>5
  <2>4. CASE ~(k <= pushed[x])
    <3>1. x = d /\ op = "push" /\ pushed'[d] = minted[d]
      BY <2>1, <2>4 DEF op
    <3>2. k \in (pushed[d] + 1)..minted[d]
      BY <2>1, <2>4, <3>1
    <3> QED BY <1>9, <3>1, <3>2
  <2> QED BY <2>3, <2>4
<1>12. RefusalOK'
  <2> SUFFICES ASSUME honest, \E x \in Device : refused[x] PROVE (Len(commits) > 0 /\ Explained)'
    BY DEF RefusalOK
  <2>1. Len(commits) > 0 /\ Explained
    BY DEF CarrierInv, RefusalOK
  <2>2. 1..Len(commits) \subseteq 1..Len(commits') /\ Len(commits') > 0 /\ 1 \in 1..Len(commits)
    BY <1>1, <1>2, <2>1 DEF n
  <2>3. CASE \E i, j \in 1..Len(commits) :
               /\ commits[i].tree.man.n < commits[j].tree.man.n
               /\ commits[i].tree.man.at >= commits[j].tree.man.at
               /\ commits[i].tree.man.n > 0
    BY <1>1, <2>2, <2>3 DEF Explained
  <2>4. CASE \E l \in 1..Len(commits) : \E e \in commits[l].tree.ev : e[1] \in Revoked
    BY <1>1, <2>2, <2>4 DEF Explained
  <2>5. CASE commits[1].tree.mark = "other"
    BY <1>1, <2>2, <2>5 DEF Explained
  <2> QED BY <2>1, <2>3, <2>4, <2>5 DEF Explained
<1> QED BY <1>1, <1>7, <1>8, <1>10, <1>11, <1>12 DEF CarrierInv

\* The push whose answer arrives.
LEMMA PushBranchKeeps == ASSUME CarrierInv, NEW d \in Device, PushBranch(d) PROVE CarrierInv'
<1> DEFINE p == proc[d]
           u == p.tree
           l == p.locked \/ Op(d) = "lock"
           p1 == [p EXCEPT !.locked = l]
           q == Onward(p1)
           h == Len(commits) + 1
<1>1. /\ p.at = "push" /\ Leased(d) /\ Land(d) /\ honest' = honest /\ refused' = refused
      /\ head' = [head EXCEPT ![d] = h] /\ Succeed(d) /\ Returned(d)
  BY DEF PushBranch
<1>2. /\ u \in Trees /\ head[d] = remote /\ Head(p.job) \in Writes /\ p.job \in Jobs
      /\ Change(d, p, Tree(remote), pushed[d], minted[d]) /\ Continues(Tree(remote), u)
  BY <1>1, Lands
<1>3. p \in Proc /\ JobOK(p) /\ Confirmed(p, Tree(remote)) /\ Tree(remote) \in Trees
  BY <1>1, <1>2, Running, CarrierTypes DEF CarrierInv
<1>4. Confirmed(p, u)
  <2>1. Tree(remote).man.n \in Nat /\ u.man.n \in Nat
    BY <1>2, <1>3, TreeParts
  <2>2. (\A o \in Device : Tree(remote).man.floors[o] <= u.man.floors[o]) /\ (Tree(remote).man.n > 0 => u.man.n > 0)
    BY <1>2, <2>1 DEF Continues
  <2> HIDE DEF u
  <2> QED BY <1>2, <1>3, <2>2, ConfirmedOn
<1>5. proc' = [proc EXCEPT ![d] = q]
  BY <1>1 DEF Succeed
<1>6. l \in BOOLEAN /\ (l => p.locked \/ Head(p.job) = "lock")
  BY <1>3 DEF Proc, Op
<1> HIDE DEF u, l
<1>7. p1 \in Proc /\ p1.job = p.job /\ p1.locked = l /\ Ready(p1, u)
  BY <1>2, <1>3, <1>4, <1>6, Writing
<1> HIDE DEF p1, q
<1>8. q \in Proc /\ JobOK(q) /\ Confirmed(q, u) /\ q.at # "push" /\ (q.locked => p1.locked /\ p1.job # Releasing)
  BY <1>7, Onwards DEF q
<1>9. q.locked /\ q.job # Releasing => (p.locked \/ Op(d) = "lock") /\ Op(d) # "unlock"
  <2>1. Head(p.job) = "unlock" => p.job = Releasing
    BY <1>2, JobOf
  <2> QED BY <1>7, <1>8, <2>1 DEF l, Op
<1>10. /\ minted' = minted /\ pushed' \in [Device -> 0..Limit] /\ seen' \in [Device -> [Device -> 0..Limit]]
       /\ \A x \in Device \ {d} : pushed'[x] = pushed[x]
       /\ pushed'[d] = pushed[d] \/ (Op(d) = "push" /\ pushed'[d] = minted[d])
  BY <1>1, Returns
<1>11. h # head[d]
  BY CarrierTypes DEF CarrierInv
<1>12. refused' \in [Device -> BOOLEAN] /\ (\A x \in Device : refused'[x] => refused[x])
  BY <1>1 DEF CarrierInv, CarrierTyped
<1>13. Confirmed(q, IF h = head[d] THEN Tree(remote) ELSE proc[d].tree)
  BY <1>8, <1>11 DEF u
<1>14. h \in {head[d], Len(commits) + 1}
  OBVIOUS
<1> HIDE DEF h
<1> QED BY <1>1, <1>5, <1>8, <1>9, <1>10, <1>12, <1>13, <1>14, LandKeeps

\* Another attempt, or the end of the command, with the push landed or not.
LEMMA AttemptKeeps ==
    ASSUME CarrierInv, NEW d \in Device, NEW q \in Proc, proc' = [proc EXCEPT ![d] = q], JobOK(q), q.at # "push",
           Confirmed(q, Tree(head[d])), q.locked => proc[d].locked /\ q.job = proc[d].job,
           UNCHANGED <<clones, replica, refused, honest>>,
           UNCHANGED carrier \/ (proc[d].at = "push" /\ Leased(d) /\ Land(d))
    PROVE  CarrierInv'
<1>1. /\ head \in [Device -> 0..Len(commits)] /\ minted \in [Device -> 0..Limit] /\ pushed \in [Device -> 0..Limit]
      /\ seen \in [Device -> [Device -> 0..Limit]] /\ refused \in [Device -> BOOLEAN] /\ head[d] \in 0..Len(commits)
  BY DEF CarrierInv, CarrierTyped
<1>2. /\ head' = [head EXCEPT ![d] = head[d]] /\ minted' = minted /\ pushed' = pushed /\ seen' = seen
      /\ refused' = refused /\ honest' = honest
  BY <1>1 DEF replica, clones
<1>3. CASE UNCHANGED carrier
  <2>1. commits' = commits /\ remote' = remote
    BY <1>3 DEF carrier
  <2>2. CarrierTyped' /\ CommitsOK' /\ LineOK' /\ ProcOK' /\ LockOK'
    BY <1>1, <1>2, <2>1, StillKeeps
  <2> QED BY <1>2, <2>1, <2>2, AckStill, RefusalStill DEF CarrierInv
<1>4. CASE proc[d].at = "push" /\ Leased(d) /\ Land(d)
  <2>1. head[d] = remote
    BY <1>2, <1>4, Lands
  <2>2. q.locked /\ q.job # Releasing => (proc[d].locked \/ Op(d) = "lock") /\ Op(d) # "unlock"
    <3>1. proc[d].job \in Jobs
      BY <1>4, Running
    <3> QED BY <3>1, JobOf DEF Op
  <2> DEFINE h == head[d]
  <2>3. h \in {head[d], Len(commits) + 1} /\ head' = [head EXCEPT ![d] = h]
        /\ Confirmed(q, IF h = head[d] THEN Tree(remote) ELSE proc[d].tree)
    BY <1>2, <2>1
  <2> HIDE DEF h
  <2> QED BY <1>1, <1>2, <1>4, <2>2, <2>3, LandKeeps
<1> QED BY <1>3, <1>4

\* A lost race, a lost answer.
LEMMA RetriesKeep == ASSUME CarrierInv, NEW d \in Device, LoseRace(d) \/ NetworkError(d) PROVE CarrierInv'
<1>1. /\ proc[d].at = "push" /\ Retry(d) /\ UNCHANGED <<clones, replica, refused, honest>>
      /\ UNCHANGED carrier \/ (Leased(d) /\ Land(d))
  BY DEF LoseRace, NetworkError
<1>2. PICK q \in Proc : /\ proc' = [proc EXCEPT ![d] = q] /\ JobOK(q) /\ q.at # "push"
                        /\ (q.locked => proc[d].locked /\ q.job = proc[d].job)
                        /\ \A t \in Trees : Confirmed(proc[d], t) => Confirmed(q, t)
  BY <1>1, RetryOK
<1>3. Confirmed(q, Tree(head[d]))
  BY <1>1, <1>2, Running, CarrierTypes DEF CarrierInv
<1> QED BY <1>1, <1>2, <1>3, AttemptKeeps

\* The process dies.
LEMMA CrashKeeps == ASSUME CarrierInv, NEW d \in Device, Crash(d) PROVE CarrierInv'
<1>1. /\ proc' = [proc EXCEPT ![d] = Idle] /\ UNCHANGED <<clones, replica, refused, honest>>
      /\ UNCHANGED carrier \/ (proc[d].at = "push" /\ Leased(d) /\ Land(d))
  BY DEF Crash
<1>2. Idle \in Proc /\ JobOK(Idle) /\ Confirmed(Idle, Tree(head[d])) /\ Idle.at # "push" /\ ~Idle.locked
  BY IdleOK DEF Idle
<1> QED BY <1>1, <1>2, AttemptKeeps

\* Nothing happens to the commands and to what their clones verified.
LEMMA ProcStill ==
    ASSUME CarrierInv, commits' = commits, head' = head, proc' = proc, pushed' = pushed, minted' = minted
    PROVE  ProcOK'
<1>1. \A d \in Device : Tree(head[d])' = Tree(head[d])
  BY DEF Tree
<1>2. \A d \in Device : /\ JobOK(proc'[d]) /\ Confirmed(proc'[d], Tree(head[d])')
                       /\ Staged(d, proc'[d], head'[d], Tree(head[d])', pushed'[d], minted'[d])
  BY <1>1 DEF CarrierInv, ProcOK
<1> QED BY <1>2 DEF ProcOK, JobOK, Built, Confirmed, Staged, Change, Continues

\* The host puts the branch back.
LEMMA RewindKeeps == ASSUME CarrierInv, Rewind PROVE CarrierInv'
<1>1. /\ commits' = commits /\ head' = head /\ proc' = proc /\ seen' = seen /\ minted' = minted /\ pushed' = pushed
      /\ refused' = refused /\ honest' = FALSE /\ remote' \in {0} \cup DOMAIN commits
  BY DEF Rewind, replica, clones
<1>2. CarrierTyped'
  <2>1. remote' \in 0..Len(commits')
    BY <1>1, CarrierTypes DEF CarrierInv
  <2> QED BY <1>1, <2>1 DEF CarrierInv, CarrierTyped
<1>3. CommitsOK' /\ ProcOK'
  BY <1>1, ProcStill DEF CarrierInv, CommitsOK, Continues
<1> QED BY <1>1, <1>2, <1>3 DEF CarrierInv, LineOK, LockOK, Acknowledged, RefusalOK

\* A user discards the clone.
LEMMA ReAdoptKeeps == ASSUME CarrierInv, NEW d \in Device, ReAdopt(d) PROVE CarrierInv'
<1>1. /\ commits' = commits /\ remote' = remote /\ honest' = honest /\ head' = [head EXCEPT ![d] = 0] /\ pushed' = pushed
      /\ seen' = seen /\ minted' = minted /\ proc' = proc /\ proc[d] = Idle /\ refused' = [refused EXCEPT ![d] = FALSE]
  BY DEF ReAdopt, carrier, replica
<1>2. /\ proc \in [Device -> Proc] /\ minted' \in [Device -> 0..Limit] /\ pushed' \in [Device -> 0..Limit]
      /\ seen' \in [Device -> [Device -> 0..Limit]] /\ refused \in [Device -> BOOLEAN] /\ 0 \in 0..Len(commits)
  BY <1>1, CarrierTypes DEF CarrierInv, CarrierTyped
<1>3. proc' = [proc EXCEPT ![d] = Idle] /\ refused' \in [Device -> BOOLEAN] /\ \A x \in Device : refused'[x] => refused[x]
  BY <1>1, <1>2
<1>4. Idle \in Proc /\ JobOK(Idle) /\ Confirmed(Idle, Tree(0)) /\ Idle.at # "push" /\ ~Idle.locked
  BY IdleOK DEF Idle
<1>5. CarrierTyped' /\ CommitsOK' /\ LineOK' /\ ProcOK' /\ LockOK'
  BY <1>1, <1>2, <1>3, <1>4, StillKeeps
<1> QED BY <1>1, <1>3, <1>5, AckStill, RefusalStill DEF CarrierInv

\* A user discards the checkout.
LEMMA LoseCheckoutKeeps == ASSUME CarrierInv, NEW d \in Device, LoseCheckout(d) PROVE CarrierInv'
<1>1. /\ commits' = commits /\ remote' = remote /\ honest' = honest /\ head' = head /\ pushed' = pushed
      /\ seen' = seen /\ minted' = minted /\ proc' = proc /\ refused' = refused
  BY DEF LoseCheckout, carrier, replica
<1>2. CarrierTyped' /\ CommitsOK' /\ LineOK'
  BY <1>1 DEF CarrierInv, CarrierTyped, CommitsOK, LineOK, Follow, Continues
<1>3. ProcOK' /\ LockOK'
  BY <1>1, ProcStill DEF CarrierInv, LockOK, Tree
<1>4. Acknowledged' /\ RefusalOK'
  BY <1>1, AckStill, RefusalStill
<1> QED BY <1>2, <1>3, <1>4 DEF CarrierInv

\* Whether a clone has the objects of its head is always yes or no.
KnownTyped == known \in [Device -> BOOLEAN]

LEMMA KnownStep == KnownTyped /\ [Next]_vars => KnownTyped'
<1> SUFFICES ASSUME KnownTyped, [Next]_vars PROVE KnownTyped'
  OBVIOUS
<1>1. CASE UNCHANGED vars \/ Rewind
  BY <1>1 DEF vars, Rewind, clones, KnownTyped
<1>2. ASSUME NEW d \in Device, Mint(d) \/ StartSync(d) \/ StartCompact(d) \/ Refuse(d) \/ LoseRace(d)
                               \/ NetworkError(d) \/ Crash(d)
      PROVE  KnownTyped'
  BY <1>2 DEF Mint, StartSync, StartCompact, Refuse, LoseRace, NetworkError, Crash, clones, KnownTyped
<1>3. ASSUME NEW d \in Device, ReadPull(d) \/ ReadRetention(d) \/ ReadConfirm(d) \/ Commit(d)
      PROVE  KnownTyped'
  BY <1>3 DEF ReadPull, ReadRetention, ReadConfirm, Commit, Refreshed, KnownTyped
<1>4. ASSUME NEW d \in Device, PushBranch(d) \/ ReAdopt(d) \/ LoseCheckout(d) PROVE KnownTyped'
  BY <1>4 DEF PushBranch, ReAdopt, LoseCheckout, KnownTyped
<1> QED BY <1>1, <1>2, <1>3, <1>4 DEF Next, Step

LEMMA KnownAlways == HubsSpec => []KnownTyped
<1>1. HubsInit => KnownTyped
  BY DEF HubsInit, Init, KnownTyped
<1>2. [HubsNext]_hubvars => [Next]_vars
  BY DEF HubsNext, hubvars, vars
<1> QED BY <1>1, <1>2, KnownStep, PTL DEF HubsSpec

\* Every step keeps the invariant.
LEMMA CarrierStep == CarrierInv /\ [Next]_vars => CarrierInv'
<1> SUFFICES ASSUME CarrierInv, [Next]_vars PROVE CarrierInv'
  OBVIOUS
<1>1. CASE UNCHANGED vars
  <2>1. /\ commits' = commits /\ remote' = remote /\ head' = head /\ proc' = proc /\ seen' = seen /\ minted' = minted
        /\ pushed' = pushed /\ refused' = refused /\ honest' = honest
    BY <1>1 DEF vars
  <2>2. CarrierTyped' /\ CommitsOK' /\ LineOK'
    BY <2>1 DEF CarrierInv, CarrierTyped, CommitsOK, LineOK, Follow, Continues
  <2>3. ProcOK' /\ LockOK'
    BY <2>1, ProcStill DEF CarrierInv, LockOK, Tree
  <2>4. Acknowledged' /\ RefusalOK'
    BY <2>1, AckStill, RefusalStill
  <2> QED BY <2>2, <2>3, <2>4 DEF CarrierInv
<1>2. CASE Rewind
  BY <1>2, RewindKeeps
<1>3. ASSUME NEW d \in Device, Mint(d) \/ StartSync(d) \/ StartCompact(d) PROVE CarrierInv'
  BY <1>3, StartsKeep
<1>4. ASSUME NEW d \in Device, Step(d) PROVE CarrierInv'
  BY <1>4, RefuseKeeps, ReadPullKeeps, ReadRetentionKeeps, ReadConfirmKeeps, CommitKeeps, PushBranchKeeps, RetriesKeep
     DEF Step
<1>5. ASSUME NEW d \in Device, NetworkError(d) PROVE CarrierInv'
  BY <1>5, RetriesKeep
<1>6. ASSUME NEW d \in Device, Crash(d) PROVE CarrierInv'
  BY <1>6, CrashKeeps
<1>7. ASSUME NEW d \in Device, ReAdopt(d) PROVE CarrierInv'
  BY <1>7, ReAdoptKeeps
<1>8. ASSUME NEW d \in Device, LoseCheckout(d) PROVE CarrierInv'
  BY <1>8, LoseCheckoutKeeps
<1> QED BY <1>1, <1>2, <1>3, <1>4, <1>5, <1>6, <1>7, <1>8 DEF Next

\* The invariant of the carrier holds on every behaviour.
LEMMA CarrierAlways == HubsSpec => []CarrierInv
<1>1. HubsInit => CarrierInv
  BY CarrierStarts DEF HubsInit
<1>2. CarrierInv /\ [HubsNext]_hubvars => CarrierInv'
  <2>1. [HubsNext]_hubvars => [Next]_vars
    BY DEF HubsNext, hubvars, vars
  <2> QED BY <2>1, CarrierStep
<1> QED BY <1>1, <1>2, PTL DEF HubsSpec

-----------------------------------------------------------------------------
(* What the hubs promise.                                                  *)

\* Acknowledged events are there, refusals have their causes, one sweeper holds
\* the lock and a stream found complete is the one its origin signed, whatever
\* the clones, the commands, the lost races, answers and processes
\* (gitcarrier.go writeLoop, r2.go, sync/head.go).
THEOREM HubsKeepTheirWord == HubsSpec => []HubsSafe
<1>1. CarrierInv /\ KnownTyped /\ OmInv => HubsSafe
  <2> SUFFICES ASSUME CarrierInv, KnownTyped, OmInv PROVE TypeOK /\ Acknowledged /\ RefusalExplained /\ SweepersExclude /\ Vouched
    BY DEF HubsSafe
  <2>1. TypeOK
    <3>1. \A l \in DOMAIN commits : commits[l].past \subseteq 1..(l - 1) /\ commits[l].tree \in Trees
      BY CarrierTypes DEF CarrierInv, CommitsOK
    <3>2. \A d \in Device : proc[d].at \in {"idle", "fetch", "push"} /\ proc[d].base \in 0..Len(commits)
      <4> TAKE d \in Device
      <4>1. proc[d].at \in {"idle", "fetch", "push"} /\ head[d] \in 0..Len(commits) /\ Len(commits) \in Nat
        BY CarrierTypes DEF CarrierInv, Proc
      <4>2. proc[d].base \in {0, head[d]}
        BY DEF CarrierInv, ProcOK, JobOK, Staged
      <4> QED BY <4>1, <4>2
    <3>3. \A d \in Device : \A o \in Device : seen[d][o] \in 0..Limit
      BY CarrierTypes DEF CarrierInv
    <3> QED BY <3>1, <3>2, <3>3 DEF TypeOK, CarrierInv, CarrierTyped, KnownTyped
  <2>2. RefusalExplained
    <3> SUFFICES ASSUME honest, \E d \in Device : refused[d]
                 PROVE  \/ \E i, j \in DOMAIN commits :
                             /\ commits[i].tree.man.n < commits[j].tree.man.n
                             /\ commits[i].tree.man.at >= commits[j].tree.man.at
                             /\ commits[i].tree.man.n > 0
                        \/ \E l \in DOMAIN commits : \E e \in commits[l].tree.ev : e[1] \in Revoked
                        \/ Tree(1).mark = "other"
      BY DEF RefusalExplained
    <3>1. Explained /\ DOMAIN commits = 1..Len(commits)
      BY CarrierTypes DEF CarrierInv, RefusalOK
    <3>2. Tree(1) = commits[1].tree
      BY DEF Tree
    <3> QED BY <3>1, <3>2 DEF Explained
  <2>3. SweepersExclude
    <3> SUFFICES ASSUME honest, NEW d \in Device, proc[d].locked, Op(d) # "unlock" PROVE Tree(remote).lock = d
      BY DEF SweepersExclude
    <3>1. proc[d].job # Releasing
      BY JobHeads DEF Op
    <3> QED BY <3>1 DEF CarrierInv, LockOK
  <2> QED BY <2>1, <2>2, <2>3 DEF CarrierInv, OmInv, PromiseOK
<1> QED BY <1>1, CarrierAlways, KnownAlways, HeadsAlways, PTL

\* A clone moves to what a refresh accepted or to what it pushed itself.
LEMMA HeadMoves ==
    ASSUME CarrierInv, [Next]_vars, NEW d \in Device
    PROVE  \/ head'[d] \in {0, head[d]}
           \/ RefreshOk(d) /\ commits' = commits /\ head'[d] = remote
           \/ PushBranch(d)
<1>1. head \in [Device -> 0..Len(commits)]
  BY DEF CarrierInv, CarrierTyped
<1>2. CASE UNCHANGED vars \/ Rewind
  BY <1>2 DEF vars, Rewind, clones
<1>3. ASSUME NEW x \in Device, Mint(x) \/ StartSync(x) \/ StartCompact(x) \/ NetworkError(x) \/ Crash(x)
                               \/ Refuse(x) \/ LoseRace(x)
      PROVE  head' = head
  BY <1>3 DEF Mint, StartSync, StartCompact, NetworkError, Crash, Refuse, LoseRace, clones
<1>4. ASSUME NEW x \in Device, ReAdopt(x) \/ LoseCheckout(x) PROVE head'[d] \in {0, head[d]}
  BY <1>1, <1>4 DEF ReAdopt, LoseCheckout
<1>5. ASSUME NEW x \in Device, ReadPull(x) \/ ReadRetention(x) \/ ReadConfirm(x) \/ Commit(x)
      PROVE  head'[d] = head[d] \/ (RefreshOk(d) /\ commits' = commits /\ head'[d] = remote)
  <2>1. Refreshed(x) /\ commits' = commits
    BY <1>5 DEF ReadPull, ReadRetention, ReadConfirm, Commit, carrier
  <2> QED BY <1>1, <2>1 DEF Refreshed
<1>6. ASSUME NEW x \in Device, PushBranch(x), x # d PROVE head'[d] = head[d]
  BY <1>1, <1>6 DEF PushBranch
<1> QED BY <1>2, <1>3, <1>4, <1>5, <1>6 DEF Next, Step

\* No clone that kept its checkout is ever moved to a head that silently lacks
\* what its last head had, whatever the host does with the branch (gitcarrier.go checkHeadContinuity,
\* checkCompactionDeletes).
THEOREM NoClonesRewind == HubsSpec => NoSilentRewind
<1>1. CarrierInv /\ [HubsNext]_hubvars =>
        [\A d \in Device : known[d] /\ head[d] # 0 /\ head'[d] \notin {0, head[d]} =>
          \A e \in Tree(head[d]).ev \ commits'[head'[d]].tree.ev :
             e[2] < commits'[head'[d]].tree.man.floors[e[1]] \/ e[1] \in Revoked]_vars
  <2> SUFFICES ASSUME CarrierInv, [HubsNext]_hubvars, NEW d \in Device, known[d], head[d] # 0, head'[d] \notin {0, head[d]},
                      NEW e \in Tree(head[d]).ev \ commits'[head'[d]].tree.ev
               PROVE  e[2] < commits'[head'[d]].tree.man.floors[e[1]] \/ e[1] \in Revoked
    OBVIOUS
  <2>1. [Next]_vars
    BY DEF HubsNext, hubvars, vars
  <2>2. CASE RefreshOk(d) /\ commits' = commits /\ head'[d] = remote
    <3>1. Tree(remote) = commits'[head'[d]].tree
      BY <2>2 DEF Tree
    <3> QED BY <2>2, <3>1, Refreshes
  <2>3. CASE PushBranch(d)
    <3>1. proc[d].at = "push" /\ Leased(d) /\ Land(d) /\ honest' = honest /\ head' = [head EXCEPT ![d] = Len(commits) + 1]
      BY <2>3 DEF PushBranch
    <3>2. commits'[Len(commits) + 1].tree = proc[d].tree /\ head[d] = remote /\ Continues(Tree(remote), proc[d].tree)
      BY <3>1, Lands
    <3>3. head'[d] = Len(commits) + 1
      BY <3>1 DEF CarrierInv, CarrierTyped
    <3> QED BY <3>2, <3>3 DEF Continues
  <2> QED BY <2>1, <2>2, <2>3, HeadMoves
<1> QED BY <1>1, CarrierAlways, PTL DEF HubsSpec, NoSilentRewind

\* A push that lands is one step of a hub, or none.
LEMMA LandedStep ==
    ASSUME CarrierInv, NEW d \in Device, proc[d].at = "push", Leased(d), Land(d), honest' = honest
    PROVE  [HubSpec!Next]_(HubSpec!vars)
<1> DEFINE p == proc[d]
           t == Tree(remote)
           u == p.tree
           op == Head(p.job)
<1>1. /\ Change(d, p, t, pushed[d], minted[d]) /\ Continues(t, u) /\ op \in Writes /\ p.job \in Jobs /\ u \in Trees
      /\ remote' = Len(commits) + 1 /\ commits'[Len(commits) + 1].tree = u
  BY Lands
<1>2. p \in Proc /\ JobOK(p) /\ t \in Trees /\ Len(commits) \in Nat
  BY Running, CarrierTypes DEF CarrierInv
<1>3. Tree(remote)' = u
  BY <1>1, <1>2 DEF Tree
<1>4. Tree(remote)'.ev = u.ev /\ Tree(remote)'.man = u.man /\ Tree(remote)'.lock = u.lock
  BY <1>3
<1>5. /\ op # "retain" => u.man = t.man
      /\ op = "retain" => u.man = p.mine /\ (t.man = p.etag \/ t.man = p.mine)
      /\ op \notin {"lock", "unlock"} => u.lock = t.lock
      /\ op = "lock" => t.lock = None /\ u.lock = d
      /\ op = "unlock" => u.lock = (IF t.lock = d THEN None ELSE t.lock)
      /\ op \in {"retain", "lock", "unlock"} => u.ev = t.ev
      /\ op = "push" => t.ev \subseteq u.ev
      /\ op \in {"squash", "drop"} => u.ev \subseteq t.ev
  BY <1>1 DEF Change
<1>6. None \notin Device
  BY GitCarrierAssumption
<1>7. CASE op = "push"
  <2>1. HubSpec!Append
    BY <1>4, <1>5, <1>7 DEF HubSpec!Append
  <2> QED BY <2>1 DEF HubSpec!Next
<1>8. CASE op \in {"squash", "drop"}
  <2>1. \A e \in t.ev \ u.ev : e[2] < t.man.floors[e[1]] \/ e[1] \in Revoked
    BY <1>1, <1>5, <1>8 DEF Continues
  <2>2. HubSpec!Compact
    BY <1>4, <1>5, <1>8, <2>1 DEF HubSpec!Compact
  <2> QED BY <2>2 DEF HubSpec!Next
<1>9. CASE op = "retain"
  <2>1. CASE t.man = p.mine
    BY <1>4, <1>5, <1>9, <2>1 DEF HubSpec!vars
  <2>2. CASE t.man = p.etag
    <3>1. p.job = Retaining
      BY <1>1, <1>9, JobOf
    <3>2. Built(p)
      BY <1>2, <3>1 DEF JobOK
    <3>3. u.man.n = t.man.n + 1 /\ \A o \in Device : t.man.floors[o] <= u.man.floors[o]
      BY <1>5, <1>9, <2>2, <3>2 DEF Built
    <3>4. \A o \in Device : u.man.floors[o] >= t.man.floors[o]
      BY <1>1, <1>2, <3>3, TreeParts
    <3>5. HubSpec!Swap
      BY <1>4, <1>5, <1>9, <3>3, <3>4 DEF HubSpec!Swap
    <3> QED BY <3>5 DEF HubSpec!Next
  <2> QED BY <1>5, <1>9, <2>1, <2>2
<1>10. CASE op = "lock"
  <2>1. HubSpec!Acquire
    BY <1>4, <1>5, <1>10 DEF HubSpec!Acquire
  <2> QED BY <2>1 DEF HubSpec!Next
<1>11. CASE op = "unlock"
  <2>1. CASE t.lock = d
    <3>1. HubSpec!Release
      BY <1>4, <1>5, <1>6, <1>11, <2>1 DEF HubSpec!Release
    <3> QED BY <3>1 DEF HubSpec!Next
  <2>2. CASE t.lock # d
    BY <1>4, <1>5, <1>11, <2>2 DEF HubSpec!vars
  <2> QED BY <2>1, <2>2
<1> QED BY <1>1, <1>7, <1>8, <1>9, <1>10, <1>11 DEF Writes

\* The git carrier is a hub: all its fetching, retrying, squashing and losing
\* of races comes down to the steps every hub may make (sync/hub.go).
THEOREM CarrierIsAHub == HubsSpec => ImplementsHub
<1>1. HubsInit => HubSpec!Init
  <2> SUFFICES ASSUME Init PROVE HubSpec!Init
    BY DEF HubsInit
  <2>1. CASE commits = <<>>
    <3>1. Tree(remote) = EmptyTree
      BY <2>1 DEF Init, Tree
    <3> QED BY <3>1 DEF Init, EmptyTree, NoMan, HubSpec!Init
  <2>2. CASE commits # <<>>
    <3> DEFINE new == [past |-> {}, tree |-> [EmptyTree EXCEPT !.ev = left.stock, !.mark = left.found]]
    <3>1. commits = <<new>> /\ remote = Len(commits) /\ honest = TRUE
      BY <2>2 DEF Init
    <3> HIDE DEF new
    <3>2. remote = 1 /\ Tree(remote) = new.tree
      BY <3>1 DEF Tree
    <3>3. new.tree.man = NoMan /\ new.tree.lock = None
      BY DEF new, EmptyTree
    <3> QED BY <3>1, <3>2, <3>3 DEF NoMan, HubSpec!Init
  <2> QED BY <2>1, <2>2
<1>2. CarrierInv /\ [HubsNext]_hubvars => [HubSpec!Next]_(HubSpec!vars)
  <2> SUFFICES ASSUME CarrierInv, [Next]_vars PROVE [HubSpec!Next]_(HubSpec!vars)
    BY DEF HubsNext, hubvars, vars
  <2>1. CASE UNCHANGED <<carrier, honest>>
    BY <2>1 DEF carrier, Tree, HubSpec!vars
  <2>2. CASE Rewind
    BY <2>2 DEF Rewind, HubSpec!Next, HubSpec!Unhinged
  <2>3. ASSUME NEW d \in Device, proc[d].at = "push", Leased(d), Land(d), honest' = honest PROVE [HubSpec!Next]_(HubSpec!vars)
    BY <2>3, LandedStep
  <2>4. ASSUME NEW d \in Device, PushBranch(d) \/ NetworkError(d) \/ Crash(d)
        PROVE  UNCHANGED <<carrier, honest>> \/ (proc[d].at = "push" /\ Leased(d) /\ Land(d) /\ honest' = honest)
    BY <2>4 DEF PushBranch, NetworkError, Crash
  <2>5. ASSUME NEW d \in Device, Mint(d) \/ StartSync(d) \/ StartCompact(d) \/ ReAdopt(d) \/ LoseCheckout(d)
        PROVE  UNCHANGED <<carrier, honest>>
    BY <2>5 DEF Mint, StartSync, StartCompact, ReAdopt, LoseCheckout
  <2>6. ASSUME NEW d \in Device, Refuse(d) \/ ReadPull(d) \/ ReadRetention(d) \/ ReadConfirm(d) \/ Commit(d) \/ LoseRace(d)
        PROVE  UNCHANGED <<carrier, honest>>
    BY <2>6 DEF Refuse, ReadPull, ReadRetention, ReadConfirm, Commit, LoseRace
  <2>7. CASE UNCHANGED vars
    BY <2>1, <2>7 DEF vars, carrier
  <2> QED BY <2>1, <2>2, <2>3, <2>4, <2>5, <2>6, <2>7 DEF Next, Step
<1> QED BY <1>1, <1>2, CarrierAlways, PTL DEF HubsSpec, ImplementsHub, HubSpec!Spec
=============================================================================
