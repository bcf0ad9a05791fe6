------------------------- MODULE SnapshotMergeProofs -------------------------
(***************************************************************************)
(* Proofs about the rows of a workspace that compacts: snapshot and events *)
(* agree, the clock covers the rows, and what a purge puts at risk.        *)
(*                                                                         *)
(* RowAt says what row a set of events gives by their stamps alone, with   *)
(* no maximum; an add, a delete, a batch and a snapshot each keep it.      *)
(***************************************************************************)
EXTENDS SnapshotMerge, WellFoundedInduction, FiniteSetTheorems, TLAPS

-----------------------------------------------------------------------------
(* The invariant.                                                          *)

\* The stamps of the events of E that do op.
Stamps(op, E) == {ev[i].hlc : i \in {j \in E : ev[j].op = op}}

\* The row that adds stamped A and deletes stamped D give: the latest add, unless
\* a delete is as late.
RowAt(A, D, r) ==
    \/ r = NoRow /\ A = {} /\ D = {}
    \/ r.status = "active" /\ r.hlc \in A /\ (\A h \in A : h <= r.hlc) /\ (\A h \in D : h < r.hlc)
    \/ r.status = "deleted" /\ r.hlc \in D /\ (\A h \in A \cup D : h <= r.hlc)

RowIs(E, r) == RowAt(Stamps("add", E), Stamps("delete", E), r)

MintedIds == {i \in Ids : i[2] <= minted[i[1]]}

\* Devices know, store and snapshot what was minted, and streams stay in bounds.
OnlyMinted ==
    /\ \A d \in Devices : minted[d] <= Limit[d] /\ known[d] \subseteq MintedIds
    /\ stored \subseteq MintedIds /\ snapshot.covers \subseteq MintedIds

\* A stamp is positive, and within the bound.
Stamped ==
    /\ \A i \in Ids : ev[i].hlc <= MaxHLC
    /\ \A i \in MintedIds : ev[i].hlc > 0
    /\ snapshot.hlc <= MaxHLC
    /\ \A d \in Devices : clock[d] <= MaxHLC /\ proc[d].hlc <= MaxHLC

\* A snapshot's clock covers its row: none is stamped between plan and publication.
SnapshotClockCovers ==
    /\ snapshot.row.hlc <= snapshot.hlc
    /\ \A d \in Devices : Compacting(d) => row[d].hlc <= proc[d].hlc

\* Until a tombstone is purged, rows and snapshot are what their events give.
RowsReplay ==
    ~purged => /\ \A d \in Devices : RowIs(known[d], row[d])
               /\ RowIs(snapshot.covers, snapshot.row)

\* Types, streams and stamps.
Kept == TypeOK /\ OnlyMinted /\ Stamped

\* A delete reaches a tombstone with a later stamp: Tombstone stores the earlier.
LowersTombstone ==
    \E d \in Devices :
        /\ row[d].status = "deleted"
        /\ \/ \E i \in known'[d] \ known[d] : ev'[i].op = "delete" /\ ev'[i].hlc < row[d].hlc
           \/ /\ Import(d)
              /\ snapshot.row.status = "deleted" /\ snapshot.row.hlc < row[d].hlc

-----------------------------------------------------------------------------
(* Numbers.                                                                *)

\* What holds at 0 and climbs by one holds up to N.
LEMMA Upward ==
    ASSUME NEW N \in Nat, NEW S, 0 \in S, \A t \in 1..N : t - 1 \in S => t \in S
    PROVE  \A t \in 0..N : t \in S
<1> DEFINE T == {t \in 0..N : t \notin S}
<1>1. SUFFICES ASSUME T # {} PROVE FALSE
  OBVIOUS
<1>2. T \subseteq Nat
  OBVIOUS
<1>3. PICK x \in T : \A y \in T : ~(<<y, x>> \in OpToRel(<, Nat))
  BY <1>1, <1>2, NatLessThanWellFounded, WFMin
<1>4. \A y \in T : ~(y < x)
  BY <1>2, <1>3 DEF OpToRel
<1>5. x \in 1..N /\ x - 1 \in 0..N
  OBVIOUS
<1> QED BY <1>4, <1>5

\* Max and Min of naturals.
LEMMA Greatest ==
    ASSUME NEW S \in SUBSET Nat, S # {}, NEW N \in Nat, \A n \in S : n <= N
    PROVE  Max(S) \in S /\ \A n \in S : n <= Max(S)
<1> DEFINE T == {N - n : n \in S}
<1>0. PICK m \in S : N - m \in T
  OBVIOUS
<1>1. T \subseteq Nat /\ T # {}
  <2>1. \A n \in S : N - n \in Nat
    OBVIOUS
  <2> QED BY <1>0, <2>1
<1>2. PICK x \in T : \A y \in T : ~(<<y, x>> \in OpToRel(<, Nat))
  BY <1>1, NatLessThanWellFounded, WFMin
<1>3. \A y \in T : ~(y < x)
  BY <1>1, <1>2 DEF OpToRel
<1>4. PICK k \in S : x = N - k
  OBVIOUS
<1>5. \A n \in S : N - n \in T
  OBVIOUS
<1>6. \A n \in S : k >= n
  <2> TAKE n \in S
  <2>1. ~(N - n < N - k)
    BY <1>3, <1>4, <1>5
  <2>2. n \in Nat /\ k \in Nat
    OBVIOUS
  <2> QED BY <2>1, <2>2
<1> HIDE DEF T
<1>7. Max(S) \in S /\ \A n \in S : Max(S) >= n
  BY <1>6 DEF Max
<1> QED BY <1>7

LEMMA Least ==
    ASSUME NEW S \in SUBSET Nat, S # {}
    PROVE  Min(S) \in S
<1>1. PICK x \in S : \A y \in S : ~(<<y, x>> \in OpToRel(<, Nat))
  BY NatLessThanWellFounded, WFMin
<1>2. \A y \in S : ~(y < x)
  BY <1>1 DEF OpToRel
<1>3. \A y \in S : x =< y
  BY <1>2
<1> QED BY <1>3 DEF Min

-----------------------------------------------------------------------------
(* One row.                                                                *)

LEMMA OneRow ==
    ASSUME NEW r \in Row, NEW hlc \in Nat, NEW ops
    PROVE  /\ Upsert(r, hlc) \in Row /\ Upsert(r, hlc).hlc \in {r.hlc, hlc}
           /\ Tombstone(r, hlc) \in Row /\ Tombstone(r, hlc).hlc \in {r.hlc, hlc}
           /\ Fold(r, hlc, ops) \in Row /\ Fold(r, hlc, ops).hlc \in {r.hlc, hlc}
<1>1. \A q \in Row : Upsert(q, hlc) \in Row /\ Upsert(q, hlc).hlc \in {q.hlc, hlc}
  BY DEF Upsert, Row
<1>2. \A q \in Row : Tombstone(q, hlc) \in Row /\ Tombstone(q, hlc).hlc \in {q.hlc, hlc}
  BY DEF Tombstone, Row
<1> QED BY <1>1, <1>2 DEF Fold

\* A run of FoldAll: the rows after each stamp.
Run(f, r, batch) ==
    /\ f \in [0..MaxHLC -> Row] /\ f[0] = r
    /\ \A t \in 1..MaxHLC : f[t] = Fold(f[t - 1], t, OpsAt(batch, t))

\* FoldAll has such a run, and returns where it ends.
LEMMA FoldRuns ==
    ASSUME NEW r \in Row, NEW batch
    PROVE  \E f : Run(f, r, batch) /\ FoldAll(r, batch) = f[MaxHLC]
<1>0. MaxHLC \in Nat
  BY MergeAssumption
<1> DEFINE Good(f, n) == /\ f \in [0..n -> Row] /\ f[0] = r
                         /\ \A t \in 1..n : f[t] = Fold(f[t - 1], t, OpsAt(batch, t))
           S == {n \in 0..MaxHLC : \E f : Good(f, n)}
<1>1. 0 \in S
  <2> DEFINE z == [t \in 0..0 |-> r]
  <2>1. Good(z, 0)
    OBVIOUS
  <2> HIDE DEF z, Good
  <2>2. \E f : Good(f, 0)
    BY <2>1
  <2> QED BY <1>0, <2>2
<1>2. ASSUME NEW n \in 1..MaxHLC, n - 1 \in S PROVE n \in S
  <2>1. PICK f : Good(f, n - 1)
    BY <1>2
  <2> DEFINE top == Fold(f[n - 1], n, OpsAt(batch, n))
             g == [t \in 0..n |-> IF t = n THEN top ELSE f[t]]
  <2>2. f[n - 1] \in Row
    BY <1>0, <2>1
  <2>3. top \in Row
    BY <1>0, <2>2, OneRow
  <2> HIDE DEF top
  <2>4. g \in [0..n -> Row] /\ g[0] = r
    BY <1>0, <2>1, <2>3
  <2>5. \A t \in 1..n : g[t] = Fold(g[t - 1], t, OpsAt(batch, t))
    <3> TAKE t \in 1..n
    <3>1. CASE t = n
      BY <1>0, <3>1 DEF top
    <3>2. CASE t # n
      <4>1. t \in 1..(n - 1) /\ g[t] = f[t] /\ g[t - 1] = f[t - 1]
        BY <1>0, <3>2
      <4> QED BY <2>1, <4>1
    <3> QED BY <3>1, <3>2
  <2>6. Good(g, n)
    BY <2>4, <2>5
  <2> HIDE DEF g, Good
  <2>7. \E h : Good(h, n)
    BY <2>6
  <2> QED BY <2>7
<1> HIDE DEF S
<1>3. \A n \in 0..MaxHLC : n \in S
  BY <1>0, <1>1, <1>2, Upward
<1>4. MaxHLC \in S
  BY <1>0, <1>3
<1>5. PICK g : Run(g, r, batch)
  BY <1>4 DEF S, Run
<1> DEFINE Fixed(f) == f = [hlc \in 0..MaxHLC |->
                            IF hlc = 0 THEN r ELSE Fold(f[hlc - 1], hlc, OpsAt(batch, hlc))]
           upto == CHOOSE f : Fixed(f)
<1>6. Fixed(g)
  <2>1. \A t \in 0..MaxHLC : g[t] = IF t = 0 THEN r ELSE Fold(g[t - 1], t, OpsAt(batch, t))
    BY <1>0, <1>5 DEF Run
  <2>2. g = [t \in 0..MaxHLC |-> g[t]]
    BY <1>5 DEF Run
  <2> QED BY <2>1, <2>2
<1>7. Fixed(upto)
  <2> HIDE DEF Fixed
  <2> QED BY <1>6
<1>8. FoldAll(r, batch) = upto[MaxHLC]
  BY DEF FoldAll
<1> HIDE DEF upto
<1>9. DOMAIN upto = 0..MaxHLC /\ \A t \in 0..MaxHLC : upto[t] = IF t = 0 THEN r ELSE Fold(upto[t - 1], t, OpsAt(batch, t))
  BY <1>7
<1> DEFINE U == {t \in 0..MaxHLC : upto[t] \in Row}
<1>10. 0 \in U
  BY <1>0, <1>9
<1>11. ASSUME NEW t \in 1..MaxHLC, t - 1 \in U PROVE t \in U
  <2>1. upto[t] = Fold(upto[t - 1], t, OpsAt(batch, t)) /\ upto[t - 1] \in Row /\ t \in Nat
    BY <1>0, <1>9, <1>11
  <2>2. upto[t] \in Row
    BY <2>1, OneRow
  <2> QED BY <1>0, <2>2
<1> HIDE DEF U
<1>12. \A t \in 0..MaxHLC : t \in U
  BY <1>0, <1>10, <1>11, Upward
<1>13. \A t \in 0..MaxHLC : upto[t] \in Row
  BY <1>12 DEF U
<1>14. upto = [t \in 0..MaxHLC |-> upto[t]]
  BY <1>7
<1>15. upto \in [0..MaxHLC -> Row]
  BY <1>13, <1>14
<1>16. Run(upto, r, batch)
  BY <1>0, <1>9, <1>15 DEF Run
<1> QED BY <1>8, <1>16

-----------------------------------------------------------------------------
(* What one add, one delete, one batch and one snapshot do to a row.       *)

LEMMA AddRow ==
    ASSUME NEW A \in SUBSET Nat, NEW D \in SUBSET Nat, NEW r \in Row, NEW h \in Nat, h > 0, RowAt(A, D, r)
    PROVE  RowAt(A \cup {h}, D, Upsert(r, h))
<1>1. CASE r.status # "none" /\ h <= r.hlc
  <2>1. Upsert(r, h) = r
    BY <1>1 DEF Upsert
  <2> QED BY <1>1, <2>1 DEF RowAt, Row, NoRow
<1>2. CASE ~(r.status # "none" /\ h <= r.hlc)
  <2>1. Upsert(r, h) = [status |-> "active", hlc |-> h]
    BY <1>2 DEF Upsert
  <2>2. r.hlc \in Nat
    BY DEF Row
  <2>3. (\A x \in A : x <= h) /\ (\A x \in D : x < h)
    BY <1>2, <2>2 DEF RowAt, NoRow
  <2> QED BY <2>1, <2>3 DEF RowAt
<1> QED BY <1>1, <1>2

LEMMA DeleteRow ==
    ASSUME NEW A \in SUBSET Nat, NEW D \in SUBSET Nat, NEW r \in Row, NEW h \in Nat, RowAt(A, D, r),
           r.status = "deleted" => r.hlc <= h
    PROVE  RowAt(A, D \cup {h}, Tombstone(r, h))
<1>0. r.hlc \in Nat
  BY DEF Row
<1>1. CASE r.status = "active" /\ r.hlc > h
  <2>1. Tombstone(r, h) = r
    BY <1>1 DEF Tombstone
  <2> QED BY <1>0, <1>1, <2>1 DEF RowAt, NoRow
<1>2. CASE ~(r.status = "active" /\ r.hlc > h)
  <2>1. Tombstone(r, h) = [status |-> "deleted", hlc |-> h]
    BY <1>2 DEF Tombstone
  <2>2. \A x \in A \cup D : x <= h
    BY <1>0, <1>2 DEF RowAt, NoRow
  <2> QED BY <2>1, <2>2 DEF RowAt
<1> QED BY <1>1, <1>2

\* An imported row counts for all the events it stands for.
LEMMA SnapshotRow ==
    ASSUME NEW A \in SUBSET Nat, NEW D \in SUBSET Nat, NEW r \in Row, RowAt(A, D, r),
           NEW P \in SUBSET Nat, NEW Q \in SUBSET Nat, NEW s \in Row, RowAt(P, Q, s),
           r.status = "deleted" /\ s.status = "deleted" => r.hlc <= s.hlc,
           0 \notin A \cup D \cup P \cup Q
    PROVE  RowAt(A \cup P, D \cup Q, MergeSnapshot(r, s))
<1>0. r.hlc \in Nat /\ s.hlc \in Nat
  BY DEF Row
<1>1. CASE s.status = "active"
  <2>1. MergeSnapshot(r, s) = Upsert(r, s.hlc)
    BY <1>1 DEF MergeSnapshot
  <2>2. s.hlc \in P /\ (\A x \in P : x <= s.hlc) /\ (\A x \in Q : x < s.hlc)
    BY <1>1 DEF RowAt, NoRow
  <2>3. CASE r.status # "none" /\ s.hlc <= r.hlc
    <3>1. Upsert(r, s.hlc) = r
      BY <2>3 DEF Upsert
    <3>2. (\A x \in P : x <= r.hlc) /\ (\A x \in Q : x < r.hlc)
      BY <1>0, <2>2, <2>3
    <3> QED BY <1>0, <2>1, <2>3, <3>1, <3>2 DEF RowAt, NoRow
  <2>4. CASE ~(r.status # "none" /\ s.hlc <= r.hlc)
    <3>1. Upsert(r, s.hlc) = [status |-> "active", hlc |-> s.hlc]
      BY <2>4 DEF Upsert
    <3>2. (\A x \in A : x <= s.hlc) /\ (\A x \in D : x < s.hlc)
      BY <1>0, <2>4 DEF RowAt, NoRow
    <3> QED BY <1>0, <2>1, <2>2, <3>1, <3>2 DEF RowAt
  <2> QED BY <2>3, <2>4
<1>2. CASE s.status = "deleted"
  <2>1. MergeSnapshot(r, s) = Tombstone(r, s.hlc)
    BY <1>2 DEF MergeSnapshot
  <2>2. s.hlc \in Q /\ \A x \in P \cup Q : x <= s.hlc
    BY <1>2 DEF RowAt, NoRow
  <2>3. CASE r.status = "active" /\ r.hlc > s.hlc
    <3>1. Tombstone(r, s.hlc) = r
      BY <2>3 DEF Tombstone
    <3>2. \A x \in P \cup Q : x < r.hlc
      BY <1>0, <2>2, <2>3
    <3> QED BY <1>0, <2>1, <2>3, <3>1, <3>2 DEF RowAt, NoRow
  <2>4. CASE ~(r.status = "active" /\ r.hlc > s.hlc)
    <3>1. Tombstone(r, s.hlc) = [status |-> "deleted", hlc |-> s.hlc]
      BY <2>4 DEF Tombstone
    <3>2. \A x \in A \cup D : x <= s.hlc
      BY <1>0, <1>2, <2>4 DEF RowAt, NoRow
    <3> QED BY <1>0, <2>1, <2>2, <3>1, <3>2 DEF RowAt
  <2> QED BY <2>3, <2>4
<1>3. CASE s.status = "none"
  <2>1. P = {} /\ Q = {} /\ MergeSnapshot(r, s) = r
    BY <1>3 DEF RowAt, MergeSnapshot
  <2> QED BY <2>1
<1> QED BY <1>1, <1>2, <1>3 DEF Row

\* The events of one stamp.
LEMMA StampRow ==
    ASSUME NEW A \in SUBSET Nat, NEW D \in SUBSET Nat, NEW r \in Row, NEW h \in Nat, h > 0, NEW ops, RowAt(A, D, r),
           r.status = "deleted" /\ "delete" \in ops => r.hlc <= h
    PROVE  RowAt(IF "add" \in ops THEN A \cup {h} ELSE A, IF "delete" \in ops THEN D \cup {h} ELSE D, Fold(r, h, ops))
<1> DEFINE added == IF "add" \in ops THEN Upsert(r, h) ELSE r
           adds == IF "add" \in ops THEN A \cup {h} ELSE A
<1>1. added \in Row /\ adds \in SUBSET Nat /\ RowAt(adds, D, added)
  BY AddRow, OneRow
<1>2. "delete" \in ops /\ added.status = "deleted" => added.hlc <= h
  BY DEF Upsert
<1>3. Fold(r, h, ops) = IF "delete" \in ops THEN Tombstone(added, h) ELSE added
  BY DEF Fold
<1> HIDE DEF added, adds
<1>4. CASE "delete" \in ops
  BY <1>1, <1>2, <1>3, <1>4, DeleteRow DEF adds
<1>5. CASE "delete" \notin ops
  BY <1>1, <1>3, <1>5 DEF adds
<1> QED BY <1>4, <1>5

-----------------------------------------------------------------------------
(* A batch.                                                                *)

LEMMA StampsOf ==
    ASSUME Kept, NEW op, NEW E \in SUBSET MintedIds, NEW F \in SUBSET MintedIds
    PROVE  /\ Stamps(op, E) \subseteq 1..MaxHLC
           /\ Stamps(op, E \cup F) = Stamps(op, E) \cup Stamps(op, F)
<1>1. \A i \in MintedIds : ev[i].hlc \in 1..MaxHLC
  <2>1. \A i \in MintedIds : ev[i].hlc \in Nat /\ ev[i].hlc <= MaxHLC /\ ev[i].hlc > 0
    BY DEF Kept, Stamped, TypeOK, MintedIds
  <2> QED BY <2>1, MergeAssumption
<1>2. Stamps(op, E) \subseteq 1..MaxHLC
  BY <1>1 DEF Stamps
<1>3. Stamps(op, E \cup F) = Stamps(op, E) \cup Stamps(op, F)
  BY DEF Stamps
<1> QED BY <1>2, <1>3

\* A batch leaves a row stamped as it was, or by an event of the batch.
LEMMA FoldAllStamp ==
    ASSUME NEW r \in Row, NEW batch
    PROVE  /\ FoldAll(r, batch) \in Row
           /\ FoldAll(r, batch).hlc = r.hlc \/ \E i \in batch : ev[i].hlc = FoldAll(r, batch).hlc
<1>0. MaxHLC \in Nat
  BY MergeAssumption
<1>1. PICK f : Run(f, r, batch) /\ FoldAll(r, batch) = f[MaxHLC]
  BY FoldRuns
<1> DEFINE S == {t \in 0..MaxHLC : f[t].hlc = r.hlc \/ \E i \in batch : ev[i].hlc = f[t].hlc}
<1>2. 0 \in S
  BY <1>0, <1>1 DEF Run
<1>3. ASSUME NEW t \in 1..MaxHLC, t - 1 \in S PROVE t \in S
  <2>1. f[t] = Fold(f[t - 1], t, OpsAt(batch, t)) /\ f[t - 1] \in Row /\ t \in Nat /\ t \in 0..MaxHLC
    BY <1>0, <1>1 DEF Run
  <2>2. CASE OpsAt(batch, t) = {}
    <3>1. f[t] = f[t - 1]
      BY <2>1, <2>2 DEF Fold
    <3> QED BY <1>3, <2>1, <3>1
  <2>3. CASE OpsAt(batch, t) # {}
    <3>1. \E i \in batch : ev[i].hlc = t
      BY <2>3 DEF OpsAt
    <3>2. f[t].hlc \in {f[t - 1].hlc, t}
      BY <2>1, OneRow
    <3> QED BY <1>3, <2>1, <3>1, <3>2
  <2> QED BY <2>2, <2>3
<1> HIDE DEF S
<1>4. \A t \in 0..MaxHLC : t \in S
  BY <1>0, <1>2, <1>3, Upward
<1>5. MaxHLC \in S /\ f[MaxHLC] \in Row
  BY <1>0, <1>1, <1>4 DEF Run
<1> QED BY <1>1, <1>5 DEF S

\* A batch takes a row that counts for E to one that counts for the batch too.
LEMMA FoldAllRow ==
    ASSUME Kept, NEW E \in SUBSET MintedIds, NEW B \in SUBSET MintedIds, NEW r \in Row, RowIs(E, r),
           r.status = "deleted" => \A i \in B : ev[i].op = "delete" => r.hlc <= ev[i].hlc
    PROVE  RowIs(E \cup B, FoldAll(r, B))
<1>0. MaxHLC \in Nat /\ r.hlc \in Nat
  BY MergeAssumption DEF Row
<1>1. PICK f : Run(f, r, B) /\ FoldAll(r, B) = f[MaxHLC]
  BY FoldRuns
<1> DEFINE A == Stamps("add", E)
           D == Stamps("delete", E)
           P == Stamps("add", B)
           Q == Stamps("delete", B)
           AddedBy(t) == A \cup {h \in P : h <= t}
           DeletedBy(t) == D \cup {h \in Q : h <= t}
           S == {t \in 0..MaxHLC : RowAt(AddedBy(t), DeletedBy(t), f[t])}
<1>2. A \subseteq 1..MaxHLC /\ D \subseteq 1..MaxHLC /\ P \subseteq 1..MaxHLC /\ Q \subseteq 1..MaxHLC
  BY StampsOf
<1>3. Stamps("add", E \cup B) = A \cup P /\ Stamps("delete", E \cup B) = D \cup Q
  BY StampsOf
<1>4. \A t \in Nat : ("add" \in OpsAt(B, t) <=> t \in P) /\ ("delete" \in OpsAt(B, t) <=> t \in Q)
  BY DEF OpsAt, Stamps
<1>5. r.status = "deleted" => \A h \in Q : r.hlc <= h
  BY DEF Stamps
<1>6. RowAt(A, D, r)
  BY DEF RowIs
<1> HIDE DEF A, D, P, Q
<1>12. \A h \in A \cup D \cup P \cup Q : h \in Nat /\ h > 0 /\ h <= MaxHLC
  BY <1>0, <1>2
<1>13. A \in SUBSET Nat /\ D \in SUBSET Nat /\ P \in SUBSET Nat /\ Q \in SUBSET Nat
  BY <1>12
<1>7. 0 \in S
  <2>0. \A h \in P \cup Q : ~(h <= 0)
    BY <1>12
  <2>1. AddedBy(0) = A /\ DeletedBy(0) = D
    BY <2>0
  <2> HIDE DEF AddedBy, DeletedBy
  <2> QED BY <1>0, <1>1, <1>6, <2>1 DEF Run
<1>8. ASSUME NEW t \in 1..MaxHLC, t - 1 \in S PROVE t \in S
  <2> DEFINE q == f[t - 1]
             ops == OpsAt(B, t)
  <2>1. f[t] = Fold(q, t, ops) /\ q \in Row /\ t \in Nat /\ t > 0 /\ t \in 0..MaxHLC /\ q.hlc \in Nat
    BY <1>0, <1>1 DEF Run, Row
  <2>2. RowAt(AddedBy(t - 1), DeletedBy(t - 1), q)
    BY <1>8
  <2>3. AddedBy(t - 1) \in SUBSET Nat /\ DeletedBy(t - 1) \in SUBSET Nat
    BY <1>13
  <2>8. \A h \in P \cup Q : h <= t <=> (h <= t - 1 \/ h = t)
    BY <1>12, <2>1
  <2>4. AddedBy(t) = IF "add" \in ops THEN AddedBy(t - 1) \cup {t} ELSE AddedBy(t - 1)
    BY <1>4, <2>1, <2>8
  <2>5. DeletedBy(t) = IF "delete" \in ops THEN DeletedBy(t - 1) \cup {t} ELSE DeletedBy(t - 1)
    BY <1>4, <2>1, <2>8
  <2> HIDE DEF q, ops
  <2>6. q.status = "deleted" /\ "delete" \in ops => q.hlc <= t
    <3> SUFFICES ASSUME q.status = "deleted", "delete" \in ops PROVE q.hlc <= t
      OBVIOUS
    <3>1. q.hlc \in DeletedBy(t - 1) /\ \A h \in AddedBy(t - 1) \cup DeletedBy(t - 1) : h <= q.hlc
      BY <2>2 DEF RowAt, NoRow
    <3>2. CASE q.hlc \in D
      <4>1. (\A h \in A \cup D : h <= q.hlc) /\ \A h \in A \cup D : h \in Nat
        BY <1>2, <3>1
      <4>2. r.status = "deleted" /\ r.hlc = q.hlc
        BY <1>0, <1>6, <2>1, <3>2, <4>1 DEF RowAt, NoRow
      <4>3. t \in Q
        BY <1>4, <2>1 DEF ops
      <4> QED BY <1>5, <4>2, <4>3
    <3>3. CASE q.hlc \notin D
      BY <1>2, <2>1, <3>1, <3>3
    <3> QED BY <3>2, <3>3
  <2> DEFINE adds == AddedBy(t - 1)
             deletes == DeletedBy(t - 1)
  <2>7. adds \in SUBSET Nat /\ deletes \in SUBSET Nat /\ RowAt(adds, deletes, q)
    BY <2>2, <2>3 DEF q
  <2> HIDE DEF adds, deletes
  <2>9. RowAt(IF "add" \in ops THEN adds \cup {t} ELSE adds, IF "delete" \in ops THEN deletes \cup {t} ELSE deletes, Fold(q, t, ops))
    BY <2>1, <2>6, <2>7, StampRow
  <2>10. RowAt(AddedBy(t), DeletedBy(t), f[t])
    BY <2>1, <2>4, <2>5, <2>9 DEF adds, deletes
  <2> QED BY <2>1, <2>10
<1> HIDE DEF S
<1>9. \A t \in 0..MaxHLC : t \in S
  BY <1>0, <1>7, <1>8, Upward
<1>10. RowAt(AddedBy(MaxHLC), DeletedBy(MaxHLC), f[MaxHLC])
  BY <1>0, <1>9 DEF S
<1>11. AddedBy(MaxHLC) = A \cup P /\ DeletedBy(MaxHLC) = D \cup Q
  BY <1>12
<1> HIDE DEF AddedBy, DeletedBy
<1> QED BY <1>1, <1>3, <1>10, <1>11 DEF RowIs

\* Only one row counts for a set of events: the one RowOf computes.
LEMMA RowDetermined ==
    ASSUME Kept, NEW E \in SUBSET MintedIds, NEW r \in Row, RowIs(E, r)
    PROVE  r = RowOf(E)
<1> DEFINE A == Stamps("add", E)
           D == Stamps("delete", E)
<1>0. MaxHLC \in Nat /\ r.hlc \in Nat
  BY MergeAssumption DEF Row
<1>1. A \subseteq 1..MaxHLC /\ D \subseteq 1..MaxHLC
  BY StampsOf
<1>2. Latest("add", E) = Max({0} \cup A) /\ Latest("delete", E) = Max({0} \cup D)
  BY DEF Latest, Stamps
<1>3. RowAt(A, D, r)
  BY DEF RowIs
<1> HIDE DEF A, D
<1>4. /\ Latest("add", E) \in {0} \cup A /\ \A h \in {0} \cup A : h <= Latest("add", E)
      /\ Latest("delete", E) \in {0} \cup D /\ \A h \in {0} \cup D : h <= Latest("delete", E)
  <2>1. /\ {0} \cup A \in SUBSET Nat /\ {0} \cup A # {} /\ \A h \in {0} \cup A : h <= MaxHLC
        /\ {0} \cup D \in SUBSET Nat /\ {0} \cup D # {} /\ \A h \in {0} \cup D : h <= MaxHLC
    BY <1>0, <1>1
  <2>2. Max({0} \cup A) \in {0} \cup A /\ \A h \in {0} \cup A : h <= Max({0} \cup A)
    BY <1>0, <2>1, Greatest
  <2>3. Max({0} \cup D) \in {0} \cup D /\ \A h \in {0} \cup D : h <= Max({0} \cup D)
    BY <1>0, <2>1, Greatest
  <2> QED BY <1>2, <2>2, <2>3
<1> DEFINE x == Latest("add", E)
           y == Latest("delete", E)
<1>5. RowOf(E) = IF x > y THEN [status |-> "active", hlc |-> x]
                 ELSE IF y > 0 THEN [status |-> "deleted", hlc |-> y] ELSE NoRow
  BY DEF RowOf
<1> HIDE DEF x, y
<1>6. /\ x \in {0} \cup A /\ (\A h \in {0} \cup A : h <= x)
      /\ y \in {0} \cup D /\ (\A h \in {0} \cup D : h <= y)
  BY <1>4 DEF x, y
<1>7. x \in Nat /\ y \in Nat
  BY <1>1, <1>6
<1>8. CASE A = {} /\ D = {}
  BY <1>3, <1>5, <1>6, <1>8 DEF RowAt
<1>9. CASE r.status = "active" /\ r.hlc \in A /\ (\A h \in A : h <= r.hlc) /\ (\A h \in D : h < r.hlc)
  <2>1. x = r.hlc /\ x > y
    BY <1>0, <1>1, <1>6, <1>7, <1>9
  <2> QED BY <1>5, <1>9, <2>1 DEF Row
<1>10. CASE r.status = "deleted" /\ r.hlc \in D /\ (\A h \in A \cup D : h <= r.hlc)
  <2>1. y = r.hlc /\ ~(x > y) /\ y > 0
    BY <1>0, <1>1, <1>6, <1>7, <1>10
  <2> QED BY <1>5, <1>10, <2>1 DEF Row
<1> QED BY <1>3, <1>8, <1>9, <1>10 DEF RowAt

-----------------------------------------------------------------------------
(* Types, streams and stamps, step by step.                                *)

\* What a device may be running.
Proc == [phase : {"idle", "pulled", "pushed", "planned", "purged"}, base : Floors, hlc : Nat, before : Nat]

LEMMA IdParts ==
    /\ \A i \in Ids : i[1] \in Devices /\ i[2] \in 1..Limit[i[1]] /\ i = <<i[1], i[2]>>
    /\ \A d \in Devices : Limit[d] \in Nat /\ \A n \in 1..Limit[d] : <<d, n>> \in Ids
  BY MergeAssumption DEF Ids

LEMMA ReadToTyped ==
    ASSUME Kept, NEW d \in Devices
    PROVE  ReadTo(d) \in Floors
<1> SUFFICES ASSUME NEW o \in Devices
             PROVE  Max({cursor[d][o]} \cup {i[2] : i \in {j \in Unread(d) : j[1] = o}}) \in Nat
  BY DEF ReadTo, Floors
<1> DEFINE S == {cursor[d][o]} \cup {i[2] : i \in {j \in Unread(d) : j[1] = o}}
<1>1. cursor[d][o] \in Nat /\ Limit[o] \in Nat
  BY IdParts DEF Kept, TypeOK, Floors
<1>2. \A i \in Unread(d) : i \in Ids
  BY DEF Kept, TypeOK, Unread
<1>3. \A n \in S : n \in Nat /\ n <= cursor[d][o] + Limit[o]
  BY <1>1, <1>2, IdParts
<1>4. S \in SUBSET Nat /\ S # {} /\ cursor[d][o] + Limit[o] \in Nat
  BY <1>1, <1>3
<1> HIDE DEF S
<1>5. Max(S) \in S
  BY <1>3, <1>4, Greatest
<1> QED BY <1>4, <1>5 DEF S

\* What applying a batch does to types, clocks and rows.
Applied(d) ==
    /\ row' \in [Devices -> Row] /\ known' \in [Devices -> SUBSET Ids] /\ clock' \in Floors
    /\ \A e \in Devices \ {d} : row'[e] = row[e] /\ known'[e] = known[e] /\ clock'[e] = clock[e]
    /\ known'[d] \subseteq MintedIds
    /\ clock'[d] <= MaxHLC /\ clock[d] <= clock'[d]
    /\ row'[d].hlc = row[d].hlc \/ row'[d].hlc <= clock'[d]

LEMMA Applies ==
    ASSUME Kept, NEW d \in Devices, Apply(d, Unread(d))
    PROVE  Applied(d)
<1> DEFINE batch == Unread(d)
           S == {clock[d]} \cup {ev[i].hlc : i \in batch}
           new == batch \ known[d]
<1>0. /\ TypeOK /\ OnlyMinted /\ Stamped /\ MaxHLC \in Nat
      /\ clock[d] \in Nat /\ clock[d] <= MaxHLC
  BY MergeAssumption DEF Kept, TypeOK, Stamped, Floors
<1>1. batch \subseteq MintedIds /\ batch \subseteq Ids
  BY <1>0 DEF Unread, OnlyMinted, TypeOK
<1>2. \A i \in batch : ev[i].hlc \in Nat /\ ev[i].hlc <= MaxHLC
  BY <1>0, <1>1 DEF TypeOK, Stamped
<1>3. /\ row' = [row EXCEPT ![d] = FoldAll(@, new)]
      /\ known' = [known EXCEPT ![d] = @ \cup batch]
      /\ clock' = [clock EXCEPT ![d] = Max(S)]
  BY DEF Apply
<1>4. S \in SUBSET Nat /\ S # {} /\ \A n \in S : n <= MaxHLC
  BY <1>0, <1>2
<1> HIDE DEF batch
<1>5. Max(S) \in S /\ \A n \in S : n <= Max(S)
  <2> HIDE DEF S
  <2> QED BY <1>0, <1>4, Greatest
<1>6. Max(S) \in Nat /\ Max(S) <= MaxHLC /\ clock[d] <= Max(S) /\ \A i \in batch : ev[i].hlc <= Max(S)
  <2>1. clock[d] \in S /\ \A i \in batch : ev[i].hlc \in S
    OBVIOUS
  <2> HIDE DEF S
  <2> QED BY <1>4, <1>5, <2>1
<1> HIDE DEF S
<1>7. FoldAll(row[d], new) \in Row /\ (FoldAll(row[d], new).hlc = row[d].hlc \/ \E i \in new : ev[i].hlc = FoldAll(row[d], new).hlc)
  <2>1. row[d] \in Row
    BY <1>0 DEF TypeOK
  <2> QED BY <2>1, FoldAllStamp
<1>8. row' \in [Devices -> Row] /\ row'[d] = FoldAll(row[d], new) /\ \A e \in Devices \ {d} : row'[e] = row[e]
  BY <1>0, <1>3, <1>7 DEF TypeOK
<1>9. clock' \in Floors /\ clock'[d] = Max(S) /\ \A e \in Devices \ {d} : clock'[e] = clock[e]
  BY <1>0, <1>3, <1>6 DEF TypeOK, Floors
<1>10. /\ known' \in [Devices -> SUBSET Ids] /\ known'[d] \subseteq MintedIds
       /\ \A e \in Devices \ {d} : known'[e] = known[e]
  BY <1>0, <1>1, <1>3 DEF TypeOK, OnlyMinted
<1>11. row'[d].hlc = row[d].hlc \/ row'[d].hlc <= clock'[d]
  BY <1>6, <1>7, <1>8, <1>9
<1> QED BY <1>6, <1>8, <1>9, <1>10, <1>11 DEF Applied

\* What stays in bounds, when nothing is minted.
LEMMA UnmintedKeeps ==
    ASSUME Kept, UNCHANGED <<ev, minted>>, TypeOK',
           \A d \in Devices : known'[d] \subseteq MintedIds /\ clock'[d] <= MaxHLC /\ proc'[d].hlc <= MaxHLC,
           stored' \subseteq MintedIds, snapshot'.covers \subseteq MintedIds, snapshot'.hlc <= MaxHLC
    PROVE  Kept'
<1>1. MintedIds' = MintedIds
  BY DEF MintedIds
<1>2. OnlyMinted'
  BY <1>1 DEF Kept, OnlyMinted
<1>3. Stamped'
  BY <1>1 DEF Kept, Stamped
<1> QED BY <1>2, <1>3 DEF Kept

LEMMA MintKeeps ==
    ASSUME Kept, NEW d \in Devices, Mint(d)
    PROVE  Kept'
<1> DEFINE i == <<d, minted[d] + 1>>
<1>0. TypeOK /\ OnlyMinted /\ Stamped /\ MaxHLC \in Nat
  BY MergeAssumption DEF Kept
<1>1. PICK op \in Ops, hlc \in (clock[d] + 1)..MaxHLC :
        /\ ev' = [ev EXCEPT ![i] = [op |-> op, hlc |-> hlc]]
        /\ row' = [row EXCEPT ![d] = CASE op = "add" -> Upsert(@, hlc)
                                       [] op = "delete" -> Tombstone(@, hlc)
                                       [] OTHER -> @]
        /\ clock' = [clock EXCEPT ![d] = hlc]
        /\ known' = [known EXCEPT ![d] = @ \cup {i}]
  BY DEF Mint
<1>2. minted' = [minted EXCEPT ![d] = @ + 1] /\ UNCHANGED <<cursor, pushed, hub, proc, purged>> /\ minted[d] < Limit[d]
  BY DEF Mint
<1>3. clock[d] \in Nat /\ minted[d] \in Nat /\ Limit[d] \in Nat
  BY <1>0, IdParts DEF TypeOK, Floors
<1>4. hlc \in Nat /\ hlc > 0 /\ hlc <= MaxHLC /\ clock[d] < hlc
  BY <1>0, <1>3
<1>5. i \in Ids /\ i \notin MintedIds
  BY <1>2, <1>3, IdParts DEF MintedIds
<1>6. MintedIds' = MintedIds \cup {i}
  <2>1. \A o \in Devices : minted[o] \in Nat /\ minted'[o] = IF o = d THEN minted[o] + 1 ELSE minted[o]
    BY <1>0, <1>2 DEF TypeOK, Floors
  <2>2. \A j \in Ids : j[2] <= minted'[j[1]] <=> (j[2] <= minted[j[1]] \/ j = i)
    <3> TAKE j \in Ids
    <3>1. j[1] \in Devices /\ j[2] \in Nat /\ j = <<j[1], j[2]>>
      BY IdParts
    <3> QED BY <1>3, <2>1, <3>1
  <2> QED BY <1>5, <2>2 DEF MintedIds
<1> HIDE DEF i
<1>7. TypeOK'
  <2>1. ev' \in [Ids -> [op : Ops, hlc : Nat]] /\ clock' \in Floors
    BY <1>0, <1>1, <1>4 DEF TypeOK, Floors
  <2>2. minted' \in Floors
    BY <1>0, <1>2, <1>3 DEF TypeOK, Floors
  <2>3. known' \in [Devices -> SUBSET Ids]
    BY <1>0, <1>1, <1>5 DEF TypeOK
  <2>4. row' \in [Devices -> Row]
    <3>1. row[d] \in Row
      BY <1>0 DEF TypeOK
    <3>2. Upsert(row[d], hlc) \in Row /\ Tombstone(row[d], hlc) \in Row
      BY <1>4, <3>1, OneRow
    <3> QED BY <1>0, <1>1, <3>1, <3>2 DEF TypeOK
  <2> QED BY <1>0, <1>2, <2>1, <2>2, <2>3, <2>4 DEF TypeOK, hub
<1>8. OnlyMinted'
  <2>1. \A e \in Devices : minted'[e] <= Limit[e]
    BY <1>0, <1>2, <1>3 DEF OnlyMinted, TypeOK, Floors
  <2>2. \A e \in Devices : known'[e] \subseteq MintedIds \cup {i}
    BY <1>0, <1>1 DEF OnlyMinted, TypeOK
  <2> QED BY <1>0, <1>2, <1>6, <2>1, <2>2 DEF OnlyMinted, hub
<1>9. Stamped'
  <2>1. \A j \in Ids : ev'[j].hlc = IF j = i THEN hlc ELSE ev[j].hlc
    BY <1>0, <1>1, <1>5 DEF TypeOK
  <2>2. \A e \in Devices : clock'[e] = IF e = d THEN hlc ELSE clock[e]
    BY <1>0, <1>1 DEF TypeOK, Floors
  <2> QED BY <1>0, <1>2, <1>4, <1>6, <2>1, <2>2 DEF Stamped, hub, MintedIds
<1> QED BY <1>7, <1>8, <1>9 DEF Kept

LEMMA PullKeeps ==
    ASSUME Kept, NEW d \in Devices, Pull(d)
    PROVE  Kept' /\ Applied(d)
<1>0. TypeOK /\ OnlyMinted /\ Stamped
  BY DEF Kept
<1>1. Applied(d)
  BY Applies DEF Pull
<1>2. /\ cursor' = [cursor EXCEPT ![d] = ReadTo(d)] /\ proc' = [proc EXCEPT ![d].phase = "pulled"]
      /\ UNCHANGED <<ev, minted, pushed, hub, purged>>
  BY DEF Pull
<1>3. cursor' \in [Devices -> Floors]
  BY <1>0, <1>2, ReadToTyped DEF TypeOK
<1>4. TypeOK'
  <2>1. proc' \in [Devices -> Proc]
    BY <1>0, <1>2 DEF TypeOK, Proc
  <2> QED BY <1>0, <1>1, <1>2, <1>3, <2>1 DEF TypeOK, Applied, hub, Proc
<1>5. \A e \in Devices : known'[e] \subseteq MintedIds /\ clock'[e] <= MaxHLC /\ proc'[e].hlc <= MaxHLC
  BY <1>0, <1>1, <1>2 DEF Applied, OnlyMinted, Stamped, TypeOK
<1>6. stored' \subseteq MintedIds /\ snapshot'.covers \subseteq MintedIds /\ snapshot'.hlc <= MaxHLC /\ UNCHANGED <<ev, minted>>
  BY <1>0, <1>2 DEF OnlyMinted, Stamped, hub
<1> QED BY <1>1, <1>4, <1>5, <1>6, UnmintedKeeps

LEMMA ImportKeeps ==
    ASSUME Kept, NEW d \in Devices, Import(d)
    PROVE  Kept'
<1>0. TypeOK /\ OnlyMinted /\ Stamped
  BY DEF Kept
<1>1. /\ row' = [row EXCEPT ![d] = MergeSnapshot(@, snapshot.row)]
      /\ known' = [known EXCEPT ![d] = @ \cup snapshot.covers]
      /\ clock' = [clock EXCEPT ![d] = ImportClock(@, snapshot)]
      /\ cursor' = [cursor EXCEPT ![d] = [o \in Devices |->
                     IF snapshot.floors[o] > 0 THEN MaxOf(@[o], snapshot.floors[o] - 1) ELSE @[o]]]
      /\ UNCHANGED <<ev, minted, pushed, hub, proc, purged>>
  BY DEF Import
<1>2. snapshot.row \in Row /\ snapshot.row.hlc \in Nat /\ snapshot.floors \in Floors /\ snapshot.hlc \in Nat /\ row[d] \in Row
  BY <1>0 DEF TypeOK, Row
<1>3. row' \in [Devices -> Row]
  <2>1. MergeSnapshot(row[d], snapshot.row) \in Row
    BY <1>2, OneRow DEF MergeSnapshot
  <2> QED BY <1>0, <1>1, <2>1 DEF TypeOK
<1>4. clock' \in Floors /\ \A e \in Devices : clock'[e] <= MaxHLC
  BY <1>0, <1>1, <1>2 DEF TypeOK, Floors, ImportClock, MaxOf, Stamped
<1>5. cursor' \in [Devices -> Floors]
  <2> DEFINE new == [o \in Devices |-> IF snapshot.floors[o] > 0 THEN MaxOf(cursor[d][o], snapshot.floors[o] - 1) ELSE cursor[d][o]]
  <2>1. \A o \in Devices : cursor[d][o] \in Nat /\ snapshot.floors[o] \in Nat
    BY <1>0, <1>2 DEF TypeOK, Floors
  <2>2. new \in Floors
    BY <2>1 DEF Floors, MaxOf
  <2>3. cursor' = [cursor EXCEPT ![d] = new]
    BY <1>1
  <2> QED BY <1>0, <2>2, <2>3 DEF TypeOK
<1>6. known' \in [Devices -> SUBSET Ids] /\ \A e \in Devices : known'[e] \subseteq MintedIds
  BY <1>0, <1>1 DEF TypeOK, OnlyMinted
<1>7. TypeOK'
  BY <1>0, <1>1, <1>3, <1>4, <1>5, <1>6 DEF TypeOK, hub
<1>8. UNCHANGED <<ev, minted, stored, snapshot, proc>>
  BY <1>1 DEF hub
<1> QED BY <1>0, <1>4, <1>6, <1>7, <1>8, UnmintedKeeps DEF OnlyMinted, Stamped

LEMMA UnsentMinted ==
    ASSUME Kept, NEW d \in Devices
    PROVE  Unsent(d) \subseteq MintedIds
  BY DEF Unsent, MintedIds

LEMMA PushKeeps ==
    ASSUME Kept, NEW d \in Devices, Push(d)
    PROVE  Kept'
<1>0. TypeOK /\ OnlyMinted /\ Stamped
  BY DEF Kept
<1>1. /\ stored' = stored \cup Unsent(d) /\ pushed' = [pushed EXCEPT ![d] = minted[d]]
      /\ proc' = [proc EXCEPT ![d].phase = "pushed"]
      /\ UNCHANGED <<ev, minted, row, clock, cursor, known, snapshot, acks, purged>>
  BY DEF Push
<1>2. proc' \in [Devices -> Proc] /\ \A e \in Devices : proc'[e].hlc <= MaxHLC
  <2>1. proc' \in [Devices -> Proc]
    BY <1>0, <1>1 DEF TypeOK, Proc
  <2>2. \A e \in Devices : proc'[e].hlc = proc[e].hlc
    BY <1>0, <1>1 DEF TypeOK, Proc
  <2> QED BY <1>0, <2>1, <2>2 DEF Stamped
<1>3. pushed' \in Floors /\ stored' \subseteq MintedIds
  BY <1>0, <1>1, UnsentMinted DEF TypeOK, Floors, OnlyMinted
<1>4. TypeOK'
  BY <1>0, <1>1, <1>2, <1>3 DEF TypeOK, Proc, MintedIds
<1> QED BY <1>0, <1>1, <1>2, <1>3, <1>4, UnmintedKeeps DEF OnlyMinted, Stamped

LEMMA WriteAckKeeps ==
    ASSUME Kept, NEW d \in Devices, WriteAck(d)
    PROVE  Kept'
<1>0. TypeOK /\ OnlyMinted /\ Stamped /\ MaxHLC \in Nat
  BY MergeAssumption DEF Kept
<1> DEFINE new == [cursor |-> cursor[d], push |-> pushed[d], hlc |-> clock[d], written |-> TRUE]
<1>1. /\ acks' = acks \/ acks' = [acks EXCEPT ![d] = new]
      /\ proc' = [proc EXCEPT ![d] = Idle]
      /\ UNCHANGED <<replica, stored, snapshot, purged>>
  BY DEF WriteAck
<1>2. new \in [cursor : Floors, push : Nat, hlc : Nat, written : BOOLEAN]
  BY <1>0 DEF TypeOK, Floors
<1>3. acks' \in [Devices -> [cursor : Floors, push : Nat, hlc : Nat, written : BOOLEAN]]
  <2> HIDE DEF new
  <2> QED BY <1>0, <1>1, <1>2 DEF TypeOK
<1>4. Idle \in Proc /\ Idle.hlc = 0
  BY DEF Idle, Proc, None, Floors
<1>5. proc' \in [Devices -> Proc] /\ \A e \in Devices : proc'[e].hlc <= MaxHLC
  BY <1>0, <1>1, <1>4 DEF TypeOK, Proc, Stamped
<1>6. UNCHANGED <<ev, minted, row, clock, cursor, pushed, known, stored, snapshot, purged>>
  BY <1>1 DEF replica
<1>7. TypeOK'
  BY <1>0, <1>3, <1>5, <1>6 DEF TypeOK, Proc
<1> QED BY <1>0, <1>5, <1>6, <1>7, UnmintedKeeps DEF OnlyMinted, Stamped

LEMMA AbandonKeeps ==
    ASSUME Kept, NEW d \in Devices, Abandon(d)
    PROVE  Kept'
<1>0. TypeOK /\ OnlyMinted /\ Stamped /\ MaxHLC \in Nat
  BY MergeAssumption DEF Kept
<1>1. proc' = [proc EXCEPT ![d] = Idle] /\ UNCHANGED <<replica, hub, purged>>
  BY DEF Abandon
<1>2. Idle \in Proc /\ Idle.hlc = 0
  BY DEF Idle, Proc, None, Floors
<1>3. proc' \in [Devices -> Proc] /\ \A e \in Devices : proc'[e].hlc <= MaxHLC
  BY <1>0, <1>1, <1>2 DEF TypeOK, Proc, Stamped
<1>4. UNCHANGED <<ev, minted, row, clock, cursor, pushed, known, stored, snapshot, acks, purged>>
  BY <1>1 DEF replica, hub
<1>5. TypeOK'
  BY <1>0, <1>3, <1>4 DEF TypeOK, Proc
<1> QED BY <1>0, <1>3, <1>4, <1>5, UnmintedKeeps DEF OnlyMinted, Stamped

\* What the plan of a compaction changes.
Planned(d) ==
    /\ \E plan \in Proc : /\ proc' = [proc EXCEPT ![d] = plan]
                          /\ plan.phase = "planned" /\ plan.hlc = clock'[d] /\ plan.before \in Nat
                          /\ TRUE \notin GCFlags => plan.before = 0
    /\ pushed' = [pushed EXCEPT ![d] = minted[d]]
    /\ stored' = stored \cup Unsent(d)
    /\ cursor' = [cursor EXCEPT ![d] = ReadTo(d)]
    /\ UNCHANGED <<ev, minted, snapshot, acks, purged>>

LEMMA TombstoneFloorTyped ==
    ASSUME Kept, NEW d \in Devices, NEW now \in Nat
    PROVE  TombstoneFloor(d, now) \in Nat
<1> DEFINE S == {now} \cup {acks[e].hlc : e \in Devices \ {d}}
<1>1. \A e \in Devices : acks[e].hlc \in Nat
  BY DEF Kept, TypeOK
<1>2. S \in SUBSET Nat /\ S # {}
  BY <1>1
<1>3. TombstoneFloor(d, now) = Min(S) \/ TombstoneFloor(d, now) = 0
  BY DEF TombstoneFloor
<1> HIDE DEF S
<1>4. Min(S) \in S
  BY <1>2, Least
<1>5. Min(S) \in Nat
  BY <1>2, <1>4
<1> QED BY <1>3, <1>5

LEMMA Plans ==
    ASSUME Kept, NEW d \in Devices, PlanCompact(d)
    PROVE  Applied(d) /\ Planned(d)
<1>0. TypeOK
  BY DEF Kept
<1>1. Applied(d)
  BY Applies DEF PlanCompact
<1>2. PICK gc \in GCFlags :
        proc' = [proc EXCEPT ![d] = [phase |-> "planned", base |-> PlannedFloors(d), hlc |-> clock'[d],
                                     before |-> IF gc THEN TombstoneFloor(d, clock'[d]) ELSE 0]]
  BY DEF PlanCompact
<1> DEFINE before == IF gc THEN TombstoneFloor(d, clock'[d]) ELSE 0
           plan == [phase |-> "planned", base |-> PlannedFloors(d), hlc |-> clock'[d], before |-> before]
<1>3. clock'[d] \in Nat
  BY <1>1 DEF Applied, Floors
<1>4. before \in Nat /\ (TRUE \notin GCFlags => before = 0)
  <2>1. TombstoneFloor(d, clock'[d]) \in Nat
    BY <1>3, TombstoneFloorTyped
  <2>2. gc \in BOOLEAN
    BY MergeAssumption
  <2> QED BY <2>1, <2>2
<1>5. PlannedFloors(d) \in Floors
  BY <1>0, ReadToTyped DEF PlannedFloors, Floors, TypeOK
<1>6. proc' = [proc EXCEPT ![d] = plan]
  BY <1>2
<1> HIDE DEF before
<1>7. plan \in Proc /\ plan.phase = "planned" /\ plan.hlc = clock'[d] /\ plan.before = before
  BY <1>3, <1>4, <1>5 DEF Proc
<1> HIDE DEF plan
<1>8. /\ pushed' = [pushed EXCEPT ![d] = minted[d]] /\ stored' = stored \cup Unsent(d)
      /\ cursor' = [cursor EXCEPT ![d] = ReadTo(d)]
      /\ UNCHANGED <<ev, minted, snapshot, acks, purged>>
  BY DEF PlanCompact
<1>9. Planned(d)
  BY <1>4, <1>6, <1>7, <1>8 DEF Planned
<1> QED BY <1>1, <1>9

LEMMA PlanCompactKeeps ==
    ASSUME Kept, NEW d \in Devices, PlanCompact(d)
    PROVE  Kept'
<1>0. TypeOK /\ OnlyMinted /\ Stamped /\ Applied(d) /\ Planned(d)
  BY Plans DEF Kept
<1>1. PICK plan \in Proc : proc' = [proc EXCEPT ![d] = plan] /\ plan.hlc = clock'[d]
  BY <1>0 DEF Planned
<1>2. proc' \in [Devices -> Proc] /\ \A e \in Devices : proc'[e].hlc <= MaxHLC
  BY <1>0, <1>1 DEF TypeOK, Proc, Stamped, Applied
<1>3. /\ pushed' \in Floors /\ stored' \subseteq MintedIds /\ cursor' \in [Devices -> Floors]
      /\ UNCHANGED <<ev, minted, snapshot, acks, purged>>
  BY <1>0, UnsentMinted, ReadToTyped DEF Planned, TypeOK, Floors, OnlyMinted
<1>4. TypeOK'
  BY <1>0, <1>2, <1>3 DEF TypeOK, Applied, Proc, MintedIds
<1>5. \A e \in Devices : known'[e] \subseteq MintedIds /\ clock'[e] <= MaxHLC
  BY <1>0 DEF Applied, OnlyMinted, Stamped
<1> QED BY <1>0, <1>2, <1>3, <1>4, <1>5, UnmintedKeeps DEF OnlyMinted, Stamped

LEMMA PurgeKeeps ==
    ASSUME Kept, NEW d \in Devices, Purge(d)
    PROVE  Kept'
<1>0. TypeOK /\ OnlyMinted /\ Stamped
  BY DEF Kept
<1>1. /\ row' = [row EXCEPT ![d] = NoRow] \/ row' = row
      /\ purged' \in BOOLEAN
      /\ proc' = [proc EXCEPT ![d].phase = "purged"]
      /\ UNCHANGED <<ev, minted, clock, cursor, pushed, known, stored, snapshot, acks>>
  BY <1>0 DEF Purge, hub, TypeOK
<1>2. row' \in [Devices -> Row]
  <2>1. NoRow \in Row
    BY DEF Row, NoRow
  <2> QED BY <1>0, <1>1, <2>1 DEF TypeOK
<1>3. proc' \in [Devices -> Proc] /\ \A e \in Devices : proc'[e].hlc <= MaxHLC
  <2>1. proc' \in [Devices -> Proc]
    BY <1>0, <1>1 DEF TypeOK, Proc
  <2>2. \A e \in Devices : proc'[e].hlc = proc[e].hlc
    BY <1>0, <1>1 DEF TypeOK, Proc
  <2> QED BY <1>0, <2>1, <2>2 DEF Stamped
<1>4. TypeOK'
  BY <1>0, <1>1, <1>2, <1>3 DEF TypeOK, Proc
<1> QED BY <1>0, <1>1, <1>3, <1>4, UnmintedKeeps DEF OnlyMinted, Stamped

LEMMA PublishKeeps ==
    ASSUME Kept, NEW d \in Devices, Publish(d)
    PROVE  Kept'
<1>0. TypeOK /\ OnlyMinted /\ Stamped /\ MaxHLC \in Nat
  BY MergeAssumption DEF Kept
<1> DEFINE floors == proc[d].base
           new == [o \in Devices |-> MaxOf(cursor[d][o], floors[o] - 1)]
           image == [floors |-> floors, covers |-> known[d], row |-> row[d], hlc |-> proc[d].hlc]
<1>1. /\ snapshot' = image
      /\ stored' = {i \in stored : i[2] >= floors[i[1]]}
      /\ cursor' = [cursor EXCEPT ![d] = new]
      /\ proc' = [proc EXCEPT ![d] = Idle]
      /\ UNCHANGED <<ev, minted, row, clock, pushed, known, acks, purged>>
  BY DEF Publish
<1>2. proc[d] \in Proc /\ floors \in Floors /\ cursor[d] \in Floors
  BY <1>0 DEF TypeOK, Proc
<1>3. new \in Floors
  <2>1. \A o \in Devices : cursor[d][o] \in Nat /\ floors[o] \in Nat
    BY <1>2 DEF Floors
  <2>2. \A o \in Devices : MaxOf(cursor[d][o], floors[o] - 1) \in Nat
    BY <2>1 DEF MaxOf
  <2> QED BY <2>2 DEF Floors
<1>4. Idle \in Proc /\ Idle.hlc = 0
  BY DEF Idle, Proc, None, Floors
<1>5. proc' \in [Devices -> Proc] /\ \A e \in Devices : proc'[e].hlc <= MaxHLC
  BY <1>0, <1>1, <1>4 DEF TypeOK, Proc, Stamped
<1>6. image \in [floors : Floors, covers : SUBSET Ids, row : Row, hlc : Nat]
  BY <1>0, <1>2 DEF TypeOK, Proc
<1>7. image.covers \subseteq MintedIds /\ image.hlc <= MaxHLC
  BY <1>0 DEF OnlyMinted, Stamped
<1>8. stored' \subseteq MintedIds /\ stored' \subseteq Ids
  BY <1>0, <1>1 DEF OnlyMinted, TypeOK
<1> HIDE DEF new, image
<1>9. TypeOK'
  BY <1>0, <1>1, <1>3, <1>5, <1>6, <1>8 DEF TypeOK, Proc
<1> QED BY <1>0, <1>1, <1>5, <1>7, <1>8, <1>9, UnmintedKeeps DEF OnlyMinted, Stamped

LEMMA KeptInitially == Init => Kept
<1> SUFFICES ASSUME Init PROVE Kept
  OBVIOUS
<1> DEFINE old == {i \in Ids : i[2] = 1}
<1>0. MaxHLC \in Nat /\ MaxHLC > 0 /\ \A d \in Devices : Limit[d] \in Nat /\ Limit[d] > 0
  BY MergeAssumption
<1>1. /\ ev = [i \in Ids |-> IF i[2] = 1 THEN [op |-> IF i[1] = Founder THEN "add" ELSE "other", hlc |-> 1] ELSE Nothing]
      /\ minted = [d \in Devices |-> 1] /\ pushed = [d \in Devices |-> 1] /\ clock = [d \in Devices |-> 1]
      /\ stored = old /\ known = [d \in Devices |-> old]
      /\ row = [d \in Devices |-> [status |-> "active", hlc |-> 1]]
      /\ cursor = [d \in Devices |-> [e \in Devices |-> 1]]
      /\ snapshot = NoSnapshot /\ acks = [d \in Devices |-> NoAck]
      /\ proc = [d \in Devices |-> Idle] /\ purged = FALSE
  BY DEF Init
<1>2. MintedIds = old
  BY <1>1, IdParts DEF MintedIds
<1>3. TypeOK
  <2>1. ev \in [Ids -> [op : Ops, hlc : Nat]]
    BY <1>1 DEF Ops, Nothing
  <2>2. None \in Floors /\ NoRow \in Row
    BY DEF None, Floors, NoRow, Row
  <2>3. Idle \in Proc /\ NoAck \in [cursor : Floors, push : Nat, hlc : Nat, written : BOOLEAN]
    BY <2>2 DEF Idle, Proc, NoAck
  <2>4. NoSnapshot \in [floors : Floors, covers : SUBSET Ids, row : Row, hlc : Nat]
    BY <2>2 DEF NoSnapshot
  <2>5. /\ minted \in Floors /\ pushed \in Floors /\ clock \in Floors /\ cursor \in [Devices -> Floors]
        /\ row \in [Devices -> Row] /\ known \in [Devices -> SUBSET Ids] /\ stored \subseteq Ids
    BY <1>1 DEF Floors, Row
  <2> QED BY <1>1, <2>1, <2>3, <2>4, <2>5 DEF TypeOK, Proc
<1>4. OnlyMinted
  BY <1>0, <1>1, <1>2 DEF OnlyMinted, NoSnapshot
<1>5. Stamped
  BY <1>0, <1>1, <1>2 DEF Stamped, NoSnapshot, Idle, Nothing
<1> QED BY <1>3, <1>4, <1>5 DEF Kept

LEMMA KeptStep == Kept /\ [Next]_vars => Kept'
<1> SUFFICES ASSUME Kept, [Next]_vars PROVE Kept'
  OBVIOUS
<1>1. CASE UNCHANGED vars
  BY <1>1 DEF vars, replica, hub, Kept, TypeOK, OnlyMinted, Stamped, MintedIds
<1>2. CASE Next
  <2>1. PICK d \in Devices :
          \/ Mint(d) \/ Pull(d) \/ Import(d) \/ Push(d) \/ WriteAck(d)
          \/ PlanCompact(d) \/ Purge(d) \/ Publish(d) \/ Abandon(d)
    BY <1>2 DEF Next
  <2> QED BY <2>1, MintKeeps, PullKeeps, ImportKeeps, PushKeeps, WriteAckKeeps, PlanCompactKeeps,
             PurgeKeeps, PublishKeeps, AbandonKeeps
<1> QED BY <1>1, <1>2

\* The state keeps its types, devices know only what was minted, and stamps stay
\* in bounds: for any number of devices and streams.
THEOREM SnapshotStateSound == Spec => []Kept
  BY KeptInitially, KeptStep, PTL DEF Spec

-----------------------------------------------------------------------------
(* The clock covers the rows.                                              *)

Covers == ClockCoversRows /\ SnapshotClockCovers

LEMMA Stamp ==
    ASSUME Kept, NEW d \in Devices
    PROVE  /\ row[d].hlc \in Nat /\ clock[d] \in Nat /\ proc[d].hlc \in Nat
           /\ snapshot.row \in Row /\ snapshot.row.hlc \in Nat /\ snapshot.hlc \in Nat /\ row[d] \in Row
  BY DEF Kept, TypeOK, Row, Floors

\* d was not compacting, or its row is no later than it was.
LEMMA CoversOthers ==
    ASSUME Kept, Covers, NEW d \in Devices, snapshot' = snapshot,
           \A e \in Devices \ {d} : row'[e] = row[e] /\ clock'[e] = clock[e] /\ proc'[e] = proc[e],
           row'[d].hlc <= clock'[d], Compacting(d)' => row'[d].hlc <= proc'[d].hlc
    PROVE  Covers'
<1>1. ClockCoversRows'
  BY DEF Covers, ClockCoversRows
<1>2. \A e \in Devices \ {d} : Compacting(e)' => Compacting(e)
  BY DEF Compacting
<1>3. SnapshotClockCovers'
  BY <1>2 DEF Covers, SnapshotClockCovers
<1> QED BY <1>1, <1>3 DEF Covers

LEMMA CoversStep ==
    ASSUME BusyCompactor = FALSE
    PROVE  Kept /\ Covers /\ [Next]_vars => Covers'
<1> SUFFICES ASSUME Kept, Covers, [Next]_vars PROVE Covers'
  OBVIOUS
<1>0. /\ TypeOK /\ \A d \in Devices : row[d].hlc <= clock[d]
      /\ snapshot.row.hlc <= snapshot.hlc
      /\ \A d \in Devices : Compacting(d) => row[d].hlc <= proc[d].hlc
  BY DEF Kept, Covers, ClockCoversRows, SnapshotClockCovers
<1>1. CASE UNCHANGED vars
  BY <1>1 DEF vars, replica, hub, Covers, ClockCoversRows, SnapshotClockCovers, Compacting
<1>2. ASSUME NEW d \in Devices, Mint(d) PROVE Covers'
  <2>1. PICK op \in Ops, hlc \in (clock[d] + 1)..MaxHLC :
          /\ row' = [row EXCEPT ![d] = CASE op = "add" -> Upsert(@, hlc)
                                         [] op = "delete" -> Tombstone(@, hlc)
                                         [] OTHER -> @]
          /\ clock' = [clock EXCEPT ![d] = hlc]
    BY <1>2 DEF Mint
  <2>2. ~Compacting(d) /\ proc' = proc /\ snapshot' = snapshot
    BY <1>2 DEF Mint, hub
  <2>3. row[d].hlc <= hlc /\ hlc \in Nat
    BY <1>0, Stamp, MergeAssumption
  <2>4. Upsert(row[d], hlc).hlc <= hlc /\ Tombstone(row[d], hlc).hlc <= hlc
    <3>1. row[d] \in Row /\ row[d].hlc \in Nat
      BY Stamp
    <3>2. Upsert(row[d], hlc).hlc \in {row[d].hlc, hlc} /\ Tombstone(row[d], hlc).hlc \in {row[d].hlc, hlc}
      BY <2>3, <3>1, OneRow
    <3> QED BY <2>3, <3>1, <3>2
  <2>5. row'[d].hlc <= hlc
    BY <1>0, <2>1, <2>3, <2>4 DEF TypeOK
  <2>6. clock'[d] = hlc /\ \A e \in Devices \ {d} : row'[e] = row[e] /\ clock'[e] = clock[e]
    BY <1>0, <2>1 DEF TypeOK, Floors
  <2>7. ~Compacting(d)'
    BY <2>2 DEF Compacting
  <2> QED BY <2>2, <2>5, <2>6, <2>7, CoversOthers
<1>3. ASSUME NEW d \in Devices, Pull(d) PROVE Covers'
  <2>1. Applied(d)
    BY <1>3, PullKeeps
  <2>2. row'[d].hlc <= clock'[d]
    BY <1>0, <2>1, Stamp DEF Applied, Floors
  <2>3. proc' = [proc EXCEPT ![d].phase = "pulled"] /\ snapshot' = snapshot
    BY <1>3 DEF Pull, hub
  <2>4. ~Compacting(d)' /\ \A e \in Devices \ {d} : proc'[e] = proc[e]
    BY <1>0, <2>3 DEF Compacting, TypeOK
  <2> QED BY <2>1, <2>2, <2>3, <2>4, CoversOthers DEF Applied
<1>4. ASSUME NEW d \in Devices, Import(d) PROVE Covers'
  <2>1. /\ row' = [row EXCEPT ![d] = MergeSnapshot(@, snapshot.row)]
        /\ clock' = [clock EXCEPT ![d] = ImportClock(@, snapshot)]
        /\ proc[d].phase = "idle" /\ proc' = proc /\ snapshot' = snapshot
    BY <1>4 DEF Import, hub
  <2>2. MergeSnapshot(row[d], snapshot.row).hlc \in {row[d].hlc, snapshot.row.hlc}
    BY Stamp, OneRow DEF MergeSnapshot
  <2>3. MergeSnapshot(row[d], snapshot.row).hlc <= ImportClock(clock[d], snapshot)
    BY <1>0, <2>2, Stamp DEF ImportClock, MaxOf
  <2>4. row'[d] = MergeSnapshot(row[d], snapshot.row) /\ clock'[d] = ImportClock(clock[d], snapshot)
    BY <1>0, <2>1 DEF TypeOK, Floors
  <2>5. \A e \in Devices \ {d} : row'[e] = row[e] /\ clock'[e] = clock[e]
    BY <1>0, <2>1 DEF TypeOK, Floors
  <2>6. ~Compacting(d)'
    BY <2>1 DEF Compacting
  <2>7. row'[d].hlc <= clock'[d]
    BY <2>3, <2>4
  <2> QED BY <2>1, <2>5, <2>6, <2>7, CoversOthers
<1>5. ASSUME NEW d \in Devices, Push(d) \/ WriteAck(d) \/ Abandon(d) PROVE Covers'
  <2>1. row' = row /\ clock' = clock /\ snapshot' = snapshot
    BY <1>5 DEF Push, WriteAck, Abandon, replica, hub
  <2>2. proc' = [proc EXCEPT ![d].phase = "pushed"] \/ proc' = [proc EXCEPT ![d] = Idle]
    BY <1>5 DEF Push, WriteAck, Abandon
  <2>3. ~Compacting(d)' /\ \A e \in Devices \ {d} : proc'[e] = proc[e]
    BY <1>0, <2>2 DEF Compacting, TypeOK, Idle
  <2>4. row'[d].hlc <= clock'[d]
    BY <1>0, <2>1
  <2> QED BY <2>1, <2>3, <2>4, CoversOthers
<1>6. ASSUME NEW d \in Devices, PlanCompact(d) PROVE Covers'
  <2>1. Applied(d) /\ Planned(d)
    BY <1>6, Plans
  <2>2. row'[d].hlc <= clock'[d]
    BY <1>0, <2>1, Stamp DEF Applied, Floors
  <2>3. proc'[d].hlc = clock'[d] /\ snapshot' = snapshot /\ \A e \in Devices \ {d} : proc'[e] = proc[e]
    BY <1>0, <2>1 DEF Planned, TypeOK
  <2> QED BY <2>1, <2>2, <2>3, CoversOthers DEF Applied
<1>7. ASSUME NEW d \in Devices, Purge(d) PROVE Covers'
  <2>1. /\ row' = [row EXCEPT ![d] = NoRow] \/ row' = row
        /\ proc[d].phase = "planned" /\ proc' = [proc EXCEPT ![d].phase = "purged"]
        /\ clock' = clock /\ snapshot' = snapshot
    BY <1>7 DEF Purge, hub
  <2>2. proc'[d].hlc = proc[d].hlc /\ \A e \in Devices \ {d} : proc'[e] = proc[e] /\ row'[e] = row[e]
    BY <1>0, <2>1 DEF TypeOK
  <2>3. row'[d].hlc = row[d].hlc \/ row'[d].hlc = 0
    BY <1>0, <2>1 DEF TypeOK, NoRow
  <2>4. row'[d].hlc <= clock'[d] /\ row'[d].hlc <= proc'[d].hlc
    BY <1>0, <2>1, <2>2, <2>3, Stamp DEF Compacting
  <2> QED BY <2>1, <2>2, <2>4, CoversOthers
<1>8. ASSUME NEW d \in Devices, Publish(d) PROVE Covers'
  <2>1. /\ snapshot'.row = row[d] /\ snapshot'.hlc = proc[d].hlc /\ proc[d].phase = "purged"
        /\ proc' = [proc EXCEPT ![d] = Idle] /\ row' = row /\ clock' = clock
    BY <1>8 DEF Publish
  <2>2. snapshot'.row.hlc <= snapshot'.hlc
    BY <1>0, <2>1 DEF Compacting
  <2>3. \A e \in Devices : Compacting(e)' => Compacting(e) /\ proc'[e] = proc[e]
    BY <1>0, <2>1 DEF Compacting, Idle, TypeOK
  <2> QED BY <1>0, <2>1, <2>2, <2>3 DEF Covers, ClockCoversRows, SnapshotClockCovers
<1>9. CASE Next
  <2>1. PICK d \in Devices :
          \/ Mint(d) \/ Pull(d) \/ Import(d) \/ Push(d) \/ WriteAck(d)
          \/ PlanCompact(d) \/ Purge(d) \/ Publish(d) \/ Abandon(d)
    BY <1>9 DEF Next
  <2> QED BY <2>1, <1>2, <1>3, <1>4, <1>5, <1>6, <1>7, <1>8
<1> QED BY <1>1, <1>9

\* Types, and after an import too every row is stamped at or below the clock of
\* its device, so the next command is stamped above what it acts on (ImportSnapshot,
\* ReceiveRemoteHLC): for any devices, imports and compactions, where no local
\* command runs beside a compaction on the same device.  One that does is stamped
\* past the clock the snapshot was planned with, and the row it writes goes into
\* the snapshot.
THEOREM ClockStaysAhead ==
    ASSUME BusyCompactor = FALSE
    PROVE  Spec => []MergeInv
<1>1. Init => Covers
  BY DEF Init, Covers, ClockCoversRows, SnapshotClockCovers, Compacting, Idle, NoSnapshot, NoRow
<1>2. Kept /\ Covers /\ [Next]_vars => Covers'
  BY CoversStep
<1>3. Kept /\ Covers => MergeInv
  BY DEF Kept, Covers, MergeInv
<1> QED BY <1>1, <1>2, <1>3, KeptInitially, KeptStep, PTL DEF Spec

-----------------------------------------------------------------------------
(* Import and replay agree.                                                *)

LEMMA ReplayOthers ==
    ASSUME Kept, RowsReplay, ~purged, UNCHANGED <<ev, snapshot>>, NEW d \in Devices,
           \A e \in Devices \ {d} : row'[e] = row[e] /\ known'[e] = known[e], RowIs(known'[d], row'[d])
    PROVE  RowsReplay'
<1>1. \A e \in Devices : RowIs(known'[e], row'[e])
  BY DEF RowsReplay
<1>2. \A e \in Devices : RowIs(known[e], row[e])'
  <2> TAKE e \in Devices
  <2>1. Stamps("add", known[e])' = Stamps("add", known'[e]) /\ Stamps("delete", known[e])' = Stamps("delete", known'[e])
    BY DEF Stamps
  <2>2. RowAt(Stamps("add", known'[e]), Stamps("delete", known'[e]), row'[e])
    BY <1>1 DEF RowIs
  <2> QED BY <2>1, <2>2 DEF RowIs
<1>3. RowIs(snapshot.covers, snapshot.row)'
  <2>1. /\ Stamps("add", snapshot.covers)' = Stamps("add", snapshot.covers)
        /\ Stamps("delete", snapshot.covers)' = Stamps("delete", snapshot.covers)
    BY DEF Stamps
  <2> QED BY <2>1 DEF RowsReplay, RowIs
<1> QED BY <1>2, <1>3 DEF RowsReplay

LEMMA ReplayMint ==
    ASSUME Kept, RowsReplay, ~purged, NEW d \in Devices, Mint(d)
    PROVE  RowsReplay'
<1> DEFINE i == <<d, minted[d] + 1>>
<1>0. TypeOK /\ OnlyMinted /\ Kept'
  BY MintKeeps DEF Kept
<1>1. PICK op \in Ops, hlc \in (clock[d] + 1)..MaxHLC :
        /\ op = "delete" => row[d].status = "active"
        /\ ev' = [ev EXCEPT ![i] = [op |-> op, hlc |-> hlc]]
        /\ row' = [row EXCEPT ![d] = CASE op = "add" -> Upsert(@, hlc)
                                       [] op = "delete" -> Tombstone(@, hlc)
                                       [] OTHER -> @]
        /\ known' = [known EXCEPT ![d] = @ \cup {i}]
  BY DEF Mint
<1>2. minted[d] < Limit[d] /\ snapshot' = snapshot
  BY DEF Mint, hub
<1>3. minted[d] \in Nat /\ Limit[d] \in Nat /\ row[d] \in Row /\ clock[d] \in Nat
  BY <1>0, IdParts, Stamp DEF TypeOK, Floors
<1>4. i \in Ids /\ i \notin MintedIds
  BY <1>2, <1>3, IdParts DEF MintedIds
<1> HIDE DEF i
<1>5. ev'[i] = [op |-> op, hlc |-> hlc] /\ \A j \in MintedIds : ev'[j] = ev[j]
  BY <1>0, <1>1, <1>4 DEF TypeOK, MintedIds
<1>6. \A E \in SUBSET MintedIds, o \in Ops : {ev'[j].hlc : j \in {k \in E : ev'[k].op = o}} = Stamps(o, E)
  BY <1>5 DEF Stamps
<1>7. \A e \in Devices \ {d} : RowIs(known[e], row[e])'
  <2> TAKE e \in Devices \ {d}
  <2>1. known'[e] = known[e] /\ row'[e] = row[e] /\ known[e] \in SUBSET MintedIds
    BY <1>0, <1>1 DEF TypeOK, OnlyMinted
  <2>2. Stamps("add", known[e])' = Stamps("add", known[e]) /\ Stamps("delete", known[e])' = Stamps("delete", known[e])
    BY <1>6, <2>1 DEF Stamps, Ops
  <2> QED BY <2>1, <2>2 DEF RowsReplay, RowIs
<1>8. RowIs(snapshot.covers, snapshot.row)'
  <2>1. snapshot.covers \in SUBSET MintedIds
    BY <1>0 DEF OnlyMinted
  <2>2. /\ Stamps("add", snapshot.covers)' = Stamps("add", snapshot.covers)
        /\ Stamps("delete", snapshot.covers)' = Stamps("delete", snapshot.covers)
    BY <1>2, <1>6, <2>1 DEF Stamps, Ops
  <2> QED BY <1>2, <2>2 DEF RowsReplay, RowIs
<1>9. RowIs(known[d], row[d])'
  <2> DEFINE A == Stamps("add", known[d])
             D == Stamps("delete", known[d])
  <2>1. known'[d] = known[d] \cup {i} /\ known[d] \in SUBSET MintedIds
    BY <1>0, <1>1 DEF TypeOK, OnlyMinted
  <2>2. /\ Stamps("add", known[d])' = IF op = "add" THEN A \cup {hlc} ELSE A
        /\ Stamps("delete", known[d])' = IF op = "delete" THEN D \cup {hlc} ELSE D
    <3>1. \A o \in Ops : {ev'[j].hlc : j \in {k \in known[d] \cup {i} : ev'[k].op = o}} = IF op = o THEN Stamps(o, known[d]) \cup {hlc} ELSE Stamps(o, known[d])
      <4> TAKE o \in Ops
      <4>1. {ev'[j].hlc : j \in {k \in known[d] : ev'[k].op = o}} = Stamps(o, known[d])
        BY <1>6, <2>1
      <4>2. CASE op = o
        <5>1. {ev'[j].hlc : j \in {k \in known[d] \cup {i} : ev'[k].op = o}} = {ev'[j].hlc : j \in {k \in known[d] : ev'[k].op = o}} \cup {hlc}
          BY <1>5, <4>2
        <5> QED BY <4>1, <4>2, <5>1
      <4>3. CASE op # o
        <5>1. {ev'[j].hlc : j \in {k \in known[d] \cup {i} : ev'[k].op = o}} = {ev'[j].hlc : j \in {k \in known[d] : ev'[k].op = o}}
          BY <1>5, <4>3
        <5> QED BY <4>1, <4>3, <5>1
      <4> QED BY <4>2, <4>3
    <3> QED BY <2>1, <3>1 DEF Stamps, Ops
  <2>3. A \in SUBSET Nat /\ D \in SUBSET Nat
    BY <2>1, StampsOf, MergeAssumption
  <2>4. RowAt(A, D, row[d])
    BY DEF RowsReplay, RowIs
  <2>5. hlc \in Nat /\ hlc > 0
    BY <1>3, MergeAssumption
  <2> HIDE DEF A, D
  <2>6. CASE op = "add"
    <3>1. row'[d] = Upsert(row[d], hlc)
      BY <1>0, <1>1, <2>6 DEF TypeOK
    <3>2. RowAt(A \cup {hlc}, D, Upsert(row[d], hlc))
      BY <1>3, <2>3, <2>4, <2>5, AddRow
    <3> QED BY <2>2, <2>6, <3>1, <3>2 DEF RowIs
  <2>7. CASE op = "delete"
    <3>1. row'[d] = Tombstone(row[d], hlc) /\ row[d].status # "deleted"
      BY <1>0, <1>1, <2>7 DEF TypeOK
    <3>2. RowAt(A, D \cup {hlc}, Tombstone(row[d], hlc))
      BY <1>3, <2>3, <2>4, <2>5, <3>1, DeleteRow
    <3> QED BY <2>2, <2>7, <3>1, <3>2 DEF RowIs
  <2>8. CASE op \notin {"add", "delete"}
    <3>1. row'[d] = row[d]
      BY <1>0, <1>1, <2>8 DEF TypeOK
    <3> QED BY <2>2, <2>4, <2>8, <3>1 DEF RowIs
  <2> QED BY <2>6, <2>7, <2>8
<1> QED BY <1>7, <1>8, <1>9 DEF RowsReplay

LEMMA ReplayBatch ==
    ASSUME Kept, RowsReplay, ~purged, NEW d \in Devices, Apply(d, Unread(d)), UNCHANGED <<ev, snapshot>>,
           ~LowersTombstone
    PROVE  RowsReplay'
<1> DEFINE batch == Unread(d)
           new == batch \ known[d]
<1>0. TypeOK /\ OnlyMinted /\ row[d] \in Row
  BY DEF Kept, TypeOK
<1>1. /\ row' = [row EXCEPT ![d] = FoldAll(@, new)]
      /\ known' = [known EXCEPT ![d] = @ \cup batch]
  BY DEF Apply
<1>2. batch \in SUBSET MintedIds /\ new \in SUBSET MintedIds /\ known[d] \in SUBSET MintedIds
  BY <1>0 DEF Unread, OnlyMinted
<1> HIDE DEF batch
<1>3. known'[d] = known[d] \cup new /\ row'[d] = FoldAll(row[d], new)
  BY <1>0, <1>1 DEF TypeOK
<1>4. \A e \in Devices \ {d} : row'[e] = row[e] /\ known'[e] = known[e]
  BY <1>0, <1>1 DEF TypeOK
<1>5. \A i \in new : i \in known'[d] \ known[d]
  BY <1>3
<1>6. row[d].status = "deleted" => \A i \in new : ev[i].op = "delete" => row[d].hlc <= ev[i].hlc
  <2>1. row[d].status = "deleted" => \A i \in known'[d] \ known[d] : ev'[i].op = "delete" => ~(ev'[i].hlc < row[d].hlc)
    BY DEF LowersTombstone
  <2>2. \A i \in new : ev[i].hlc \in Nat
    BY <1>0, <1>2 DEF TypeOK, MintedIds
  <2> QED BY <1>5, <2>1, <2>2, Stamp
<1> HIDE DEF new
<1>7. RowIs(known[d], row[d])
  BY DEF RowsReplay
<1>8. RowIs(known[d] \cup new, FoldAll(row[d], new))
  BY <1>0, <1>2, <1>6, <1>7, FoldAllRow
<1> QED BY <1>3, <1>4, <1>8, ReplayOthers

LEMMA ReplayImport ==
    ASSUME Kept, RowsReplay, ~purged, NEW d \in Devices, Import(d), ~LowersTombstone
    PROVE  RowsReplay'
<1>0. TypeOK /\ OnlyMinted /\ row[d] \in Row /\ snapshot.row \in Row /\ row[d].hlc \in Nat /\ snapshot.row.hlc \in Nat
  BY Stamp DEF Kept
<1> DEFINE E == known[d]
           F == snapshot.covers
           r == row[d]
           s == snapshot.row
<1>1. /\ row' = [row EXCEPT ![d] = MergeSnapshot(@, s)]
      /\ known' = [known EXCEPT ![d] = @ \cup F]
      /\ UNCHANGED <<ev, snapshot>>
  BY DEF Import, hub
<1>2. /\ row'[d] = MergeSnapshot(r, s) /\ known'[d] = E \cup F
      /\ \A e \in Devices \ {d} : row'[e] = row[e] /\ known'[e] = known[e]
  BY <1>0, <1>1 DEF TypeOK
<1>3. E \in SUBSET MintedIds /\ F \in SUBSET MintedIds
  BY <1>0 DEF OnlyMinted
<1>4. RowIs(E, r) /\ RowIs(F, s)
  BY DEF RowsReplay
<1>5. r.status = "deleted" /\ s.status = "deleted" => r.hlc <= s.hlc
  BY <1>0 DEF LowersTombstone
<1> HIDE DEF E, F, r, s
<1>6. /\ Stamps("add", E) \subseteq 1..MaxHLC /\ Stamps("delete", E) \subseteq 1..MaxHLC
      /\ Stamps("add", F) \subseteq 1..MaxHLC /\ Stamps("delete", F) \subseteq 1..MaxHLC
      /\ Stamps("add", E \cup F) = Stamps("add", E) \cup Stamps("add", F)
      /\ Stamps("delete", E \cup F) = Stamps("delete", E) \cup Stamps("delete", F)
  BY <1>3, StampsOf
<1> DEFINE A == Stamps("add", E)
           D == Stamps("delete", E)
           P == Stamps("add", F)
           Q == Stamps("delete", F)
<1>7. /\ A \in SUBSET Nat /\ D \in SUBSET Nat /\ P \in SUBSET Nat /\ Q \in SUBSET Nat
      /\ 0 \notin A \cup D \cup P \cup Q
  BY <1>6, MergeAssumption
<1>8. RowAt(A, D, r) /\ RowAt(P, Q, s) /\ r \in Row /\ s \in Row
  BY <1>0, <1>4 DEF RowIs, r, s
<1>9. RowIs(E \cup F, MergeSnapshot(r, s)) <=> RowAt(A \cup P, D \cup Q, MergeSnapshot(r, s))
  BY <1>6 DEF RowIs
<1> HIDE DEF A, D, P, Q
<1>10. RowAt(A \cup P, D \cup Q, MergeSnapshot(r, s))
  BY <1>5, <1>7, <1>8, SnapshotRow
<1> QED BY <1>1, <1>2, <1>9, <1>10, ReplayOthers

\* Until a purge, and unless a tombstone goes down, rows stay what their events give.
LEMMA ReplayStep ==
    ASSUME Kept, RowsReplay, [Next]_vars, purged \/ ~LowersTombstone
    PROVE  RowsReplay'
<1>1. CASE UNCHANGED vars
  <2>1. UNCHANGED <<ev, row, known, snapshot, purged>>
    BY <1>1 DEF vars, replica, hub
  <2> QED BY <2>1 DEF RowsReplay, RowIs, Stamps
<1>2. CASE purged
  <2>1. purged'
    <3>1. purged' \in BOOLEAN
      BY KeptStep DEF Kept, TypeOK
    <3> QED BY <1>1, <1>2, <3>1 DEF vars, Next, Mint, Pull, Import, Push, WriteAck, PlanCompact, Purge, Publish, Abandon
  <2> QED BY <2>1 DEF RowsReplay
<1>3. ASSUME ~purged, NEW d \in Devices,
             \/ Mint(d) \/ Pull(d) \/ Import(d) \/ Push(d) \/ WriteAck(d)
             \/ PlanCompact(d) \/ Purge(d) \/ Publish(d) \/ Abandon(d)
      PROVE  RowsReplay'
  <2>0. ~LowersTombstone
    BY <1>3
  <2>1. CASE Mint(d)
    BY <1>3, <2>1, ReplayMint
  <2>2. CASE Pull(d) \/ PlanCompact(d)
    <3>1. Apply(d, Unread(d)) /\ UNCHANGED <<ev, snapshot>>
      BY <2>2 DEF Pull, PlanCompact, hub
    <3> QED BY <1>3, <2>0, <3>1, ReplayBatch
  <2>3. CASE Import(d)
    BY <1>3, <2>0, <2>3, ReplayImport
  <2>4. CASE Push(d) \/ WriteAck(d) \/ Abandon(d)
    <3>1. UNCHANGED <<ev, row, known, snapshot, purged>>
      BY <2>4 DEF Push, WriteAck, Abandon, replica, hub
    <3> QED BY <3>1 DEF RowsReplay, RowIs, Stamps
  <2>5. CASE Purge(d)
    <3>1. SUFFICES ASSUME ~purged' PROVE RowsReplay'
      BY DEF RowsReplay
    <3>2. UNCHANGED <<ev, row, known, snapshot>>
      BY <2>5, <3>1 DEF Purge, hub
    <3> QED BY <1>3, <3>2 DEF RowsReplay, RowIs, Stamps
  <2>6. CASE Publish(d)
    <3>1. UNCHANGED <<ev, row, known>> /\ snapshot'.covers = known[d] /\ snapshot'.row = row[d]
      BY <2>6 DEF Publish
    <3>2. (\A e \in Devices : RowIs(known[e], row[e])) /\ RowIs(known[d], row[d])
      BY <1>3 DEF RowsReplay
    <3> QED BY <3>1, <3>2 DEF RowsReplay, RowIs, Stamps
  <2> QED BY <1>3, <2>1, <2>2, <2>3, <2>4, <2>5, <2>6
<1> QED BY <1>1, <1>2, <1>3 DEF Next

LEMMA ReplayInitially == Init => RowsReplay
<1> SUFFICES ASSUME Init PROVE RowsReplay
  OBVIOUS
<1> DEFINE old == {i \in Ids : i[2] = 1}
<1>1. /\ ev = [i \in Ids |-> IF i[2] = 1 THEN [op |-> IF i[1] = Founder THEN "add" ELSE "other", hlc |-> 1] ELSE Nothing]
      /\ known = [d \in Devices |-> old]
      /\ row = [d \in Devices |-> [status |-> "active", hlc |-> 1]]
      /\ snapshot = NoSnapshot
  BY DEF Init
<1>2. <<Founder, 1>> \in old
  BY IdParts, MergeAssumption
<1>3. Stamps("add", old) = {1}
  <2>1. \A i \in old : ev[i].hlc = 1
    BY <1>1
  <2>2. ev[<<Founder, 1>>].op = "add"
    BY <1>1, <1>2
  <2> HIDE DEF old
  <2> QED BY <1>2, <2>1, <2>2 DEF Stamps
<1>4. Stamps("delete", old) = {}
  BY <1>1 DEF Stamps
<1>5. RowIs(old, [status |-> "active", hlc |-> 1])
  BY <1>3, <1>4 DEF RowIs, RowAt
<1>6. RowIs({}, NoRow)
  BY DEF RowIs, RowAt, Stamps
<1> HIDE DEF old
<1>7. \A d \in Devices : known[d] = old /\ row[d] = [status |-> "active", hlc |-> 1]
  BY <1>1
<1>8. snapshot.covers = {} /\ snapshot.row = NoRow
  BY <1>1 DEF NoSnapshot
<1> QED BY <1>5, <1>6, <1>7, <1>8 DEF RowsReplay

LEMMA ReplayTells == Kept /\ RowsReplay => ImportIsReplay
<1> SUFFICES ASSUME Kept, RowsReplay, ~purged, NEW d \in Devices PROVE row[d] = RowOf(known[d])
  BY DEF ImportIsReplay
<1>1. known[d] \in SUBSET MintedIds /\ row[d] \in Row /\ RowIs(known[d], row[d])
  BY DEF Kept, OnlyMinted, TypeOK, RowsReplay
<1> QED BY <1>1, RowDetermined

\* Whatever events and snapshots a device was given, in whatever mixture and order,
\* its row is the one the events alone give (ApplyEvents, ImportSnapshot), for any
\* devices, streams, compactions and crashes, until a tombstone is purged and
\* unless a delete reaches a tombstone with a later stamp.  tombstonePath stores
\* the stamp of the delete that came last: of two deletes out of order the row
\* keeps the earlier, so the hypothesis is needed.
THEOREM ImportsAreReplays == Spec /\ [][~LowersTombstone]_vars => []ImportIsReplay
<1>1. Kept /\ RowsReplay /\ [Next]_vars /\ [~LowersTombstone]_vars => RowsReplay'
  <2> SUFFICES ASSUME Kept, RowsReplay, [Next]_vars, [~LowersTombstone]_vars PROVE RowsReplay'
    OBVIOUS
  <2>1. CASE ~LowersTombstone
    BY <2>1, ReplayStep
  <2>2. CASE UNCHANGED vars
    BY <2>2 DEF vars, replica, hub, RowsReplay, RowIs, Stamps
  <2> QED BY <2>1, <2>2
<1> QED BY <1>1, KeptInitially, KeptStep, ReplayInitially, ReplayTells, PTL DEF Spec

Deletes == {i \in Ids : ev[i].op = "delete"}

\* At most one event is a delete.
OneDelete == Deletes = {} \/ \E i \in Ids : Deletes = {i}

LEMMA EventsStay ==
    ASSUME Kept, [Next]_vars
    PROVE  \A j \in MintedIds : ev'[j] = ev[j]
<1>1. CASE ev' = ev
  BY <1>1
<1>2. ASSUME NEW d \in Devices, Mint(d) PROVE \A j \in MintedIds : ev'[j] = ev[j]
  <2> DEFINE i == <<d, minted[d] + 1>>
  <2>1. PICK new : ev' = [ev EXCEPT ![i] = new]
    BY <1>2 DEF Mint
  <2>2. minted[d] \in Nat /\ ev \in [Ids -> [op : Ops, hlc : Nat]]
    BY DEF Kept, TypeOK, Floors
  <2>3. i \notin MintedIds
    BY <2>2 DEF MintedIds
  <2> HIDE DEF i
  <2> QED BY <2>1, <2>2, <2>3 DEF MintedIds
<1> QED BY <1>1, <1>2 DEF vars, replica, hub, Next, Pull, Import, Push, WriteAck, PlanCompact, Purge, Publish, Abandon

LEMMA OneDeleteStep ==
    ASSUME MaxDeletes <= 1
    PROVE  Kept /\ OneDelete /\ [Next]_vars => OneDelete'
<1> SUFFICES ASSUME Kept, OneDelete, [Next]_vars PROVE OneDelete'
  OBVIOUS
<1>1. CASE ev' = ev
  BY <1>1 DEF OneDelete, Deletes
<1>2. ASSUME NEW d \in Devices, Mint(d) PROVE OneDelete'
  <2> DEFINE i == <<d, minted[d] + 1>>
  <2>1. PICK op \in Ops, hlc \in Nat :
          /\ ev' = [ev EXCEPT ![i] = [op |-> op, hlc |-> hlc]]
          /\ op = "delete" => Cardinality(Deletes) < MaxDeletes
    <3>1. \A hlc \in (clock[d] + 1)..MaxHLC : hlc \in Nat
      BY MergeAssumption DEF Kept, TypeOK, Floors
    <3> QED BY <1>2, <3>1 DEF Mint, Deletes
  <2>2. ev \in [Ids -> [op : Ops, hlc : Nat]] /\ i \in Ids /\ i \notin MintedIds
    <3>1. ev \in [Ids -> [op : Ops, hlc : Nat]] /\ minted[d] \in Nat /\ minted[d] < Limit[d]
      BY <1>2 DEF Kept, TypeOK, Floors, Mint
    <3> QED BY <3>1, IdParts DEF MintedIds
  <2> HIDE DEF i
  <2>3. \A j \in Ids : ev'[j].op = IF j = i THEN op ELSE ev[j].op
    BY <2>1, <2>2
  <2>4. CASE op # "delete"
    <3>1. CASE ev[i].op = "delete"
      <4>1. \A j \in Ids : ev[j].op = "delete" => j = i
        BY <2>2, <3>1 DEF OneDelete, Deletes
      <4>2. Deletes' = {}
        BY <2>3, <2>4, <4>1 DEF Deletes
      <4> QED BY <4>2 DEF OneDelete
    <3>2. CASE ev[i].op # "delete"
      <4>1. Deletes' = Deletes
        BY <2>3, <2>4, <3>2 DEF Deletes
      <4> QED BY <4>1 DEF OneDelete
    <3> QED BY <3>1, <3>2
  <2>5. CASE op = "delete"
    <3>1. Deletes = {}
      <4>1. SUFFICES ASSUME NEW j \in Ids, Deletes = {j} PROVE FALSE
        BY DEF OneDelete
      <4>2. Cardinality({j}) = 1
        BY FS_Singleton
      <4> QED BY <2>1, <2>5, <4>1, <4>2, MergeAssumption
    <3>2. Deletes' = {i}
      BY <2>2, <2>3, <2>5, <3>1 DEF Deletes
    <3> QED BY <2>2, <3>2 DEF OneDelete
  <2> QED BY <2>4, <2>5
<1> QED BY <1>1, <1>2 DEF vars, replica, hub, Next, Pull, Import, Push, WriteAck, PlanCompact, Purge, Publish, Abandon

\* One delete lowers no tombstone: the row that has it and the one that brings it
\* have the same stamp.
LEMMA OneDeleteLowersNone ==
    ASSUME Kept, Kept', RowsReplay, ~purged, [Next]_vars, OneDelete, OneDelete'
    PROVE  ~LowersTombstone
<1> SUFFICES ASSUME NEW d \in Devices, row[d].status = "deleted",
                    \/ \E i \in known'[d] \ known[d] : ev'[i].op = "delete" /\ ev'[i].hlc < row[d].hlc
                    \/ snapshot.row.status = "deleted" /\ snapshot.row.hlc < row[d].hlc
             PROVE  FALSE
  BY DEF LowersTombstone
<1>0. RowIs(known[d], row[d]) /\ RowIs(snapshot.covers, snapshot.row) /\ row[d].hlc \in Nat
  BY Stamp DEF RowsReplay
<1>1. PICK j \in known[d] : ev[j].op = "delete" /\ ev[j].hlc = row[d].hlc
  BY <1>0 DEF RowIs, RowAt, NoRow, Stamps
<1>2. j \in MintedIds /\ j \in Ids
  BY DEF Kept, OnlyMinted, MintedIds
<1>3. CASE \E i \in known'[d] \ known[d] : ev'[i].op = "delete" /\ ev'[i].hlc < row[d].hlc
  <2>1. PICK i \in known'[d] \ known[d] : ev'[i].op = "delete"
    BY <1>3
  <2>2. i \in Ids
    BY DEF Kept, TypeOK
  <2>3. ev'[j].op = "delete"
    BY <1>1, <1>2, EventsStay
  <2> QED BY <1>2, <2>1, <2>2, <2>3 DEF OneDelete, Deletes
<1>4. CASE snapshot.row.status = "deleted" /\ snapshot.row.hlc < row[d].hlc
  <2>1. PICK k \in snapshot.covers : ev[k].op = "delete" /\ ev[k].hlc = snapshot.row.hlc
    BY <1>0, <1>4 DEF RowIs, RowAt, NoRow, Stamps
  <2>2. k \in Ids
    BY DEF Kept, TypeOK
  <2>3. k = j
    BY <1>1, <1>2, <2>1, <2>2 DEF OneDelete, Deletes
  <2> QED BY <1>0, <1>1, <1>4, <2>1, <2>3
<1> QED BY <1>3, <1>4

\* With at most one delete of the path, as the run bounds it, nothing has to be
\* assumed of the order: import and replay agree until a purge (ImportSnapshot).
THEOREM OneDeleteReplays ==
    ASSUME MaxDeletes <= 1
    PROVE  Spec => []ImportIsReplay
<1>1. Init => OneDelete
  BY DEF Init, OneDelete, Deletes, Nothing
<1>2. Kept /\ OneDelete /\ [Next]_vars => OneDelete'
  BY OneDeleteStep
<1>3. Kept /\ Kept' /\ RowsReplay /\ OneDelete /\ OneDelete' /\ [Next]_vars => RowsReplay'
  <2> SUFFICES ASSUME Kept, Kept', RowsReplay, OneDelete, OneDelete', [Next]_vars PROVE RowsReplay'
    OBVIOUS
  <2>1. purged \/ ~LowersTombstone
    BY OneDeleteLowersNone
  <2> QED BY <2>1, ReplayStep
<1> QED BY <1>1, <1>2, <1>3, KeptInitially, KeptStep, ReplayInitially, ReplayTells, PTL DEF Spec

Unpurged == ~purged /\ \A d \in Devices : proc[d].before = 0

LEMMA UnpurgedStep ==
    ASSUME TRUE \notin GCFlags
    PROVE  Kept /\ Unpurged /\ [Next]_vars => Unpurged'
<1> SUFFICES ASSUME Kept, Unpurged, [Next]_vars PROVE Unpurged'
  OBVIOUS
<1>0. /\ ~purged /\ \A d \in Devices : proc[d].before = 0
      /\ proc \in [Devices -> Proc] /\ \A d \in Devices : row[d].hlc \in Nat
  BY Stamp DEF Kept, TypeOK, Proc, Unpurged
<1>1. CASE proc' = proc /\ purged' = purged
  BY <1>1 DEF Unpurged
<1>2. ASSUME NEW d \in Devices, Pull(d) \/ Push(d) \/ WriteAck(d) \/ Publish(d) \/ Abandon(d) PROVE Unpurged'
  <2>1. purged' = purged
    BY <1>2 DEF Pull, Push, WriteAck, Publish, Abandon
  <2>2. proc' = [proc EXCEPT ![d].phase = "pulled"] \/ proc' = [proc EXCEPT ![d].phase = "pushed"] \/ proc' = [proc EXCEPT ![d] = Idle]
    BY <1>2 DEF Pull, Push, WriteAck, Publish, Abandon
  <2>3. \A e \in Devices : proc'[e].before = 0
    BY <1>0, <2>2 DEF Idle, Proc
  <2> QED BY <1>0, <2>1, <2>3 DEF Unpurged
<1>3. ASSUME NEW d \in Devices, PlanCompact(d) PROVE Unpurged'
  BY <1>0, <1>3, Plans DEF Planned, Unpurged
<1>4. ASSUME NEW d \in Devices, Purge(d) PROVE Unpurged'
  <2>1. ~(row[d].hlc < proc[d].before)
    BY <1>0
  <2>2. ~purged'
    BY <1>0, <1>4, <2>1 DEF Purge
  <2>4. proc' = [proc EXCEPT ![d].phase = "purged"]
    BY <1>4 DEF Purge
  <2>3. \A e \in Devices : proc'[e].before = 0
    BY <1>0, <2>4 DEF Proc
  <2> QED BY <2>2, <2>3 DEF Unpurged
<1> QED BY <1>1, <1>2, <1>3, <1>4 DEF vars, replica, hub, Next, Mint, Import

\* Without `hub compact --gc-tombstones' a device that has the delete among what it
\* was given never shows the project again, however many compactions and imports
\* lie between: what the run that allows the flag shows can go wrong is the purge
\* alone (planTombstoneGC).  Tombstones must not go down, as above.
THEOREM UnpurgedDeletesStick ==
    ASSUME TRUE \notin GCFlags
    PROVE  Spec /\ [][~LowersTombstone]_vars => []DeletesStick
<1>1. Init => Unpurged
  BY DEF Init, Unpurged, Idle
<1>2. Kept /\ Unpurged /\ [Next]_vars => Unpurged'
  BY UnpurgedStep
<1>3. ImportIsReplay /\ Unpurged => DeletesStick
  BY DEF ImportIsReplay, Unpurged, DeletesStick
<1> QED BY <1>1, <1>2, <1>3, ImportsAreReplays, KeptInitially, KeptStep, PTL DEF Spec
=============================================================================
