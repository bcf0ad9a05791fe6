--------------------------- MODULE NamespaceProofs ---------------------------
(***************************************************************************)
(* Proofs about the namespace map: the hybrid logical clock (HLC), the     *)
(* fold of the events (ProjectionFold) and the tables of the store         *)
(* (NamespaceStore), for every set of devices, paths, remotes and events.  *)
(***************************************************************************)
EXTENDS MCNamespace, FiniteSetTheorems, TLAPS


-----------------------------------------------------------------------------
(* The order on stamps and the packing.                                    *)

\* The int64 packing of hlc.go (physical << 16 | logical) is order preserving:
\* comparing packed integers is comparing pairs.
LEMMA PackOrder ==
    ASSUME NEW a \in Stamp, NEW b \in Stamp
    PROVE  HLCLess(a, b) <=> PackHLC(a) < PackHLC(b)
<1> DEFINE W == LogicalMask + 1
           pa == Physical(a)  la == Logical(a)
           pb == Physical(b)  lb == Logical(b)
<1>0. /\ pa \in Nat /\ pb \in Nat /\ la \in Nat /\ lb \in Nat
      /\ la < W /\ lb < W /\ W \in Nat /\ W > 0
      /\ PackHLC(a) = pa * W + la /\ PackHLC(b) = pb * W + lb
      /\ HLCLess(a, b) <=> (pa < pb \/ (pa = pb /\ la < lb))
  BY HLCAssumption DEF Stamp, Physical, Logical, PackHLC, HLCLess
<1> HIDE DEF W, pa, la, pb, lb
<1>1. ASSUME NEW x \in Nat, NEW y \in Nat, x < y  PROVE x * W + W <= y * W
  <2>1. PICK k \in Nat : y = x + 1 + k
    <3>1. y - x - 1 \in Nat /\ y = x + 1 + (y - x - 1)
      BY <1>1
    <3> QED BY <3>1
  <2>2. y * W = x * W + W + k * W
    BY <2>1, <1>0
  <2>3. k * W \in Nat /\ x * W \in Nat
    BY <1>0
  <2> QED BY <2>2, <2>3, <1>0
<1>2. pa * W \in Nat /\ pb * W \in Nat
  BY <1>0
<1>3. CASE pa < pb
  <2>1. pa * W + W <= pb * W
    BY <1>1, <1>3, <1>0
  <2> QED BY <2>1, <1>3, <1>0, <1>2
<1>4. CASE pa = pb
  BY <1>4, <1>0, <1>2
<1>5. CASE pb < pa
  <2>1. pb * W + W <= pa * W
    BY <1>1, <1>5, <1>0
  <2> QED BY <2>1, <1>5, <1>0, <1>2
<1> QED BY <1>3, <1>4, <1>5, <1>0

\* The order is transitive and irreflexive; the mixed forms are what the
\* invariant proofs use.
LEMMA StampOrder ==
    ASSUME NEW a \in Stamp, NEW b \in Stamp, NEW c \in Stamp
    PROVE  /\ HLCLess(a, b) /\ HLCLess(b, c) => HLCLess(a, c)
           /\ HLCLeq(a, b) /\ HLCLess(b, c) => HLCLess(a, c)
           /\ HLCLeq(a, b) /\ HLCLeq(b, c) => HLCLeq(a, c)
           /\ ~HLCLess(a, a)
  BY HLCAssumption DEF Stamp, HLCLess, HLCLeq, Physical, Logical

\* advanceHLC yields a stamp strictly above the stored one, whatever the wall
\* clock reads.
LEMMA AdvanceStrict ==
    ASSUME NEW prev \in Stamp, NEW wall \in Nat
    PROVE  AdvanceHLC(prev, wall) \in Stamp /\ HLCLess(prev, AdvanceHLC(prev, wall))
<1>0. /\ Physical(prev) \in Nat /\ Logical(prev) \in 0..LogicalMask
      /\ LogicalMask \in Nat
  BY HLCAssumption DEF Stamp, Physical, Logical
<1>1. CASE wall > Physical(prev)
  <2>1. AdvanceHLC(prev, wall) = <<wall, 0>>
    BY <1>1 DEF AdvanceHLC
  <2> QED BY <2>1, <1>0, <1>1 DEF Stamp, HLCLess, Physical, Logical
<1>2. CASE ~(wall > Physical(prev)) /\ Logical(prev) < LogicalMask
  <2>1. AdvanceHLC(prev, wall) = <<Physical(prev), Logical(prev) + 1>>
    BY <1>2, <1>0 DEF AdvanceHLC
  <2> QED BY <2>1, <1>0, <1>2 DEF Stamp, HLCLess, Physical, Logical
<1>3. CASE ~(wall > Physical(prev)) /\ ~(Logical(prev) < LogicalMask)
  <2>1. AdvanceHLC(prev, wall) = <<Physical(prev) + 1, 0>>
    BY <1>3, <1>0 DEF AdvanceHLC
  <2> QED BY <2>1, <1>0, <1>3 DEF Stamp, HLCLess, Physical, Logical
<1> QED BY <1>1, <1>2, <1>3

\* receiveHLC yields a stamp strictly above both the stored and the observed
\* one, carries included.
LEMMA ReceiveStrict ==
    ASSUME NEW prev \in Stamp, NEW remote \in Stamp, NEW wall \in Nat
    PROVE  /\ ReceiveHLC(prev, remote, wall) \in Stamp
           /\ HLCLess(prev, ReceiveHLC(prev, remote, wall))
           /\ HLCLess(remote, ReceiveHLC(prev, remote, wall))
<1>0. /\ Physical(prev) \in Nat /\ Logical(prev) \in 0..LogicalMask
      /\ Physical(remote) \in Nat /\ Logical(remote) \in 0..LogicalMask
      /\ LogicalMask \in Nat
  BY HLCAssumption DEF Stamp, Physical, Logical
<1> DEFINE m == Larger(Larger(wall, Physical(prev)), Physical(remote))
           l == Larger(IF m = Physical(prev) THEN Logical(prev) + 1 ELSE 0,
                       IF m = Physical(remote) THEN Logical(remote) + 1 ELSE 0)
<1>1. m \in Nat /\ m >= wall /\ m >= Physical(prev) /\ m >= Physical(remote)
  BY <1>0 DEF Larger
<1>2. /\ l \in Nat
      /\ m = Physical(prev) => l > Logical(prev)
      /\ m = Physical(remote) => l > Logical(remote)
  BY <1>0, <1>1 DEF Larger
<1>3. ReceiveHLC(prev, remote, wall) = IF l > LogicalMask THEN <<m + 1, 0>> ELSE <<m, l>>
  BY DEF ReceiveHLC
<1> HIDE DEF m, l
<1>4. CASE l > LogicalMask
  <2>1. ReceiveHLC(prev, remote, wall) = <<m + 1, 0>>
    BY <1>3, <1>4
  <2> QED BY <2>1, <1>0, <1>1 DEF Stamp, HLCLess, Physical, Logical
<1>5. CASE ~(l > LogicalMask)
  <2>1. ReceiveHLC(prev, remote, wall) = <<m, l>>
    BY <1>3, <1>5
  <2> QED BY <2>1, <1>0, <1>1, <1>2, <1>5 DEF Stamp, HLCLess, Physical, Logical
<1> QED BY <1>4, <1>5

-----------------------------------------------------------------------------
(* The invariant.  StreamOrder and Causality are not inductive: a new stamp *)
(* is compared with stamps minted long ago.  ClockDominatesLog carries the  *)
(* comparison, since the stored clock dominates everything in the log and   *)
(* the next stamp strictly exceeds the stored clock.                        *)

\* Devices start with an empty log, a zero clock and nothing minted.
LEMMA ClockInitially == ClockInit => ClockIInv
<1> SUFFICES ASSUME ClockInit PROVE ClockIInv
  OBVIOUS
<1>1. ClockTypeOK
  BY HLCAssumption DEF ClockInit, ClockTypeOK, Stamp
<1>2. EventIdsUnique /\ OwnStream /\ DepsKnown /\ ClockDominatesLog /\ StreamOrder /\ Causality
  BY DEF ClockInit, EventIdsUnique, OwnStream, DepsKnown, ClockDominatesLog, StreamOrder, Causality
<1> QED BY <1>1, <1>2 DEF ClockIInv

\* A local event: its stamp is above the stored clock, hence above every stamp
\* of the log and above every earlier event of the stream.
LEMMA InsertPreserves ==
    ASSUME ClockIInv, NEW d \in Devices, InsertLocalEvent(d)
    PROVE  ClockIInv'
<1> DEFINE id == <<d, nextSeq[d]>>
           stamp == AdvanceHLC(last[d], now[d])
           new == [id |-> id, hlc |-> stamp, deps |-> applied[d]]
<1>0. /\ last' = [last EXCEPT ![d] = stamp]
      /\ nextSeq' = [nextSeq EXCEPT ![d] = @ + 1]
      /\ events' = events \cup {new}
      /\ applied' = [applied EXCEPT ![d] = @ \cup {id}]
      /\ now' = now
  BY DEF InsertLocalEvent
<1>1. ClockTypeOK /\ EventIdsUnique /\ OwnStream /\ DepsKnown /\ ClockDominatesLog /\ StreamOrder /\ Causality
  BY DEF ClockIInv
<1>2. last[d] \in Stamp /\ now[d] \in Nat /\ nextSeq[d] \in Nat \ {0} /\ applied[d] \in SUBSET EventId
  BY <1>1, HLCAssumption DEF ClockTypeOK
<1>3. stamp \in Stamp /\ HLCLess(last[d], stamp)
  BY <1>2, AdvanceStrict
<1>4. id \in EventId /\ new \in HLCEvent
  BY <1>2, <1>3 DEF EventId, HLCEvent
<1> HIDE DEF stamp
<1>5. ClockTypeOK'
  BY <1>0, <1>1, <1>2, <1>3, <1>4 DEF ClockTypeOK
<1>6. \A e \in events : e \in HLCEvent /\ e.hlc \in Stamp /\ e.id \in EventId
  BY <1>1 DEF ClockTypeOK, HLCEvent
<1>7. \A e \in events : e.id # id
  BY <1>1, <1>2 DEF OwnStream
<1>8. EventIdsUnique'
  BY <1>0, <1>1, <1>7 DEF EventIdsUnique
<1>9. OwnStream'
  <2> SUFFICES ASSUME NEW x \in Devices
               PROVE  /\ \A e \in events' : e.id[1] = x => e.id[2] < nextSeq'[x] /\ e.id \in applied'[x]
                      /\ \A i \in applied'[x] : \E e \in events' : e.id = i
    BY DEF OwnStream
  <2>1. nextSeq[x] \in Nat /\ applied'[x] = (IF x = d THEN applied[x] \cup {id} ELSE applied[x])
        /\ nextSeq'[x] = (IF x = d THEN nextSeq[x] + 1 ELSE nextSeq[x])
    BY <1>0, <1>1 DEF ClockTypeOK
  <2>2. ASSUME NEW e \in events', e.id[1] = x
        PROVE  e.id[2] < nextSeq'[x] /\ e.id \in applied'[x]
    <3>1. CASE e \in events
      <4>1. e.id[2] < nextSeq[x] /\ e.id \in applied[x]
        BY <3>1, <2>2, <1>1 DEF OwnStream
      <4>2. e.id[2] \in Nat
        BY <3>1, <1>6 DEF EventId
      <4> QED BY <4>1, <4>2, <2>1
    <3>2. CASE e = new
      BY <3>2, <2>2, <2>1, <1>2
    <3> QED BY <3>1, <3>2, <1>0
  <2>3. ASSUME NEW i \in applied'[x] PROVE \E e \in events' : e.id = i
    <3>1. CASE i \in applied[x]
      BY <3>1, <1>0, <1>1 DEF OwnStream
    <3>2. CASE i = id
      <4>1. new \in events' /\ new.id = i
        BY <3>2, <1>0
      <4> QED BY <4>1
    <3> QED BY <3>1, <3>2, <2>1
  <2> QED BY <2>2, <2>3
<1>10. ClockDominatesLog'
  <2> SUFFICES ASSUME NEW x \in Devices, NEW e \in events', e.id \in applied'[x]
               PROVE  HLCLeq(e.hlc, last'[x])
    BY DEF ClockDominatesLog
  <2>1. CASE e \in events
    <3>1. e.id \in applied[x]
      BY <2>1, <1>0, <1>1, <1>7 DEF ClockTypeOK
    <3>2. HLCLeq(e.hlc, last[x])
      BY <3>1, <2>1, <1>1 DEF ClockDominatesLog
    <3>3. CASE x = d
      <4>1. HLCLess(e.hlc, stamp)
        BY <3>2, <3>3, <2>1, <1>2, <1>3, <1>6, StampOrder
      <4>2. last'[x] = stamp
        BY <3>3, <1>0, <1>1 DEF ClockTypeOK
      <4> QED BY <4>1, <4>2 DEF HLCLeq
    <3>4. CASE x # d
      <4>1. last'[x] = last[x]
        BY <3>4, <1>0, <1>1 DEF ClockTypeOK
      <4> QED BY <4>1, <3>2
    <3> QED BY <3>3, <3>4
  <2>2. CASE e = new
    <3>1. x = d
      <4>1. x # d => id \in applied[x]
        BY <2>2, <1>0, <1>1 DEF ClockTypeOK
      <4> QED BY <4>1, <1>1, <1>7 DEF OwnStream
    <3>2. last'[x] = stamp
      BY <3>1, <1>0, <1>1 DEF ClockTypeOK
    <3> QED BY <3>2, <2>2 DEF HLCLeq
  <2> QED BY <2>1, <2>2, <1>0
<1>11. StreamOrder'
  <2> SUFFICES ASSUME NEW e \in events', NEW f \in events',
                      e.id[1] = f.id[1], e.id[2] < f.id[2]
               PROVE  HLCLess(e.hlc, f.hlc)
    BY DEF StreamOrder
  <2>1. CASE e \in events /\ f \in events
    BY <2>1, <1>1 DEF StreamOrder
  <2>2. CASE e \in events /\ f = new
    <3>1. e.id \in applied[d]
      BY <2>2, <1>1 DEF OwnStream
    <3>2. HLCLeq(e.hlc, last[d])
      BY <3>1, <2>2, <1>1 DEF ClockDominatesLog
    <3> QED BY <3>2, <2>2, <1>2, <1>3, <1>6, StampOrder
  <2>3. CASE f \in events /\ e = new
    <3>1. f.id[2] < nextSeq[d] /\ f.id[2] \in Nat
      BY <2>3, <1>1, <1>6 DEF OwnStream, EventId
    <3> QED BY <3>1, <2>3, <1>2
  <2>4. CASE e = new /\ f = new
    BY <2>4, <1>2
  <2> QED BY <2>1, <2>2, <2>3, <2>4, <1>0
<1>12. Causality'
  <2> SUFFICES ASSUME NEW e \in events', NEW f \in events', f.id \in e.deps
               PROVE  HLCLess(f.hlc, e.hlc)
    BY DEF Causality
  <2>1. CASE e \in events /\ f \in events
    BY <2>1, <1>1 DEF Causality
  <2>2. CASE e = new /\ f \in events
    <3>1. HLCLeq(f.hlc, last[d])
      BY <2>2, <1>1 DEF ClockDominatesLog
    <3> QED BY <3>1, <2>2, <1>2, <1>3, <1>6, StampOrder
  <2>3. CASE f = new
    <3>1. id \notin applied[d]
      BY <1>1, <1>7 DEF OwnStream
    <3>2. CASE e = new
      BY <3>1, <3>2, <2>3
    <3>3. CASE e \in events
      BY <3>3, <2>3, <1>1, <1>7 DEF DepsKnown
    <3> QED BY <3>2, <3>3, <1>0
  <2> QED BY <2>1, <2>2, <2>3, <1>0
<1>13. DepsKnown'
  BY <1>0, <1>1 DEF DepsKnown, OwnStream
<1> QED BY <1>5, <1>8, <1>9, <1>10, <1>11, <1>12, <1>13 DEF ClockIInv

\* A remote event: the stored clock moves above the stamp it just admitted.
LEMMA ApplyPreserves ==
    ASSUME ClockIInv, NEW d \in Devices, NEW e \in events, ApplyRemoteEvent(d, e)
    PROVE  ClockIInv'
<1> DEFINE updated == ReceiveHLC(last[d], e.hlc, now[d])
<1>0. /\ applied' = [applied EXCEPT ![d] = @ \cup {e.id}]
      /\ last' = IF HLCLess(last[d], updated) THEN [last EXCEPT ![d] = updated] ELSE last
      /\ now' = now /\ nextSeq' = nextSeq /\ events' = events
  BY DEF ApplyRemoteEvent
<1>1. ClockTypeOK /\ EventIdsUnique /\ OwnStream /\ DepsKnown /\ ClockDominatesLog /\ StreamOrder /\ Causality
  BY DEF ClockIInv
<1>2. /\ last[d] \in Stamp /\ now[d] \in Nat /\ applied[d] \in SUBSET EventId
      /\ \A f \in events : f.hlc \in Stamp /\ f.id \in EventId
  BY <1>1, HLCAssumption DEF ClockTypeOK, HLCEvent
<1>3. updated \in Stamp /\ HLCLess(last[d], updated) /\ HLCLess(e.hlc, updated)
  BY <1>2, ReceiveStrict
<1> HIDE DEF updated
<1>4. last' = [last EXCEPT ![d] = updated]
  BY <1>0, <1>3
<1>5. ClockTypeOK'
  BY <1>0, <1>1, <1>2, <1>3, <1>4 DEF ClockTypeOK
<1>6. ClockDominatesLog'
  <2> SUFFICES ASSUME NEW x \in Devices, NEW f \in events, f.id \in applied'[x]
               PROVE  HLCLeq(f.hlc, last'[x])
    BY <1>0 DEF ClockDominatesLog
  <2>1. CASE x = d
    <3>0. last'[x] = updated
      BY <2>1, <1>4, <1>1 DEF ClockTypeOK
    <3>1. CASE f.id = e.id
      <4>1. f = e
        BY <3>1, <1>1 DEF EventIdsUnique
      <4> QED BY <4>1, <3>0, <1>3 DEF HLCLeq
    <3>2. CASE f.id \in applied[d]
      <4>1. HLCLeq(f.hlc, last[d])
        BY <3>2, <1>1 DEF ClockDominatesLog
      <4>2. HLCLess(f.hlc, updated)
        BY <4>1, <1>2, <1>3, StampOrder
      <4> QED BY <4>2, <3>0 DEF HLCLeq
    <3> QED BY <3>1, <3>2, <2>1, <1>0, <1>1 DEF ClockTypeOK
  <2>2. CASE x # d
    <3>1. applied'[x] = applied[x] /\ last'[x] = last[x]
      BY <2>2, <1>0, <1>4, <1>1 DEF ClockTypeOK
    <3> QED BY <3>1, <1>1 DEF ClockDominatesLog
  <2> QED BY <2>1, <2>2
<1>7. OwnStream'
  BY <1>0, <1>1, <1>2 DEF OwnStream, ClockTypeOK
<1>8. EventIdsUnique' /\ DepsKnown' /\ StreamOrder' /\ Causality'
  BY <1>0, <1>1 DEF EventIdsUnique, DepsKnown, StreamOrder, Causality
<1> QED BY <1>5, <1>6, <1>7, <1>8 DEF ClockIInv

\* Every step of a device preserves the invariant: minting and applying by the
\* two lemmas above, a clock step because no conjunct reads the wall clock.
LEMMA ClockStep == ClockIInv /\ [ClockNext]_clockvars => ClockIInv'
<1> SUFFICES ASSUME ClockIInv, [ClockNext]_clockvars PROVE ClockIInv'
  OBVIOUS
<1>1. ASSUME NEW d \in Devices, WallClock(d) PROVE ClockIInv'
  BY <1>1 DEF WallClock, ClockIInv, ClockTypeOK, EventIdsUnique, OwnStream, DepsKnown,
              ClockDominatesLog, StreamOrder, Causality
<1>2. ASSUME NEW d \in Devices, InsertLocalEvent(d) PROVE ClockIInv'
  BY <1>2, InsertPreserves
<1>3. ASSUME NEW d \in Devices, NEW e \in events, ApplyRemoteEvent(d, e) PROVE ClockIInv'
  BY <1>3, ApplyPreserves
<1>4. CASE UNCHANGED clockvars
  BY <1>4 DEF clockvars, ClockIInv, ClockTypeOK, EventIdsUnique, OwnStream, DepsKnown,
              ClockDominatesLog, StreamOrder, Causality
<1> QED BY <1>1, <1>2, <1>3, <1>4 DEF ClockNext

\* The inductive invariant holds in every reachable state of the clock protocol
\* (InsertLocalEventTx and the apply loop under any wall clocks).
THEOREM ClockInvariant == ClockSpec => []ClockIInv
<1>1. ClockInit => ClockIInv
  BY ClockInitially
<1>2. ClockIInv /\ [ClockNext]_clockvars => ClockIInv'
  BY ClockStep
<1> QED BY <1>1, <1>2, PTL DEF ClockSpec

\* Stamps are well formed: the logical component never passes the 16-bit mask,
\* however often it is incremented (nextLocalEventStamp, receiveHLC).
THEOREM ClockTypeCorrect == ClockSpec => []ClockTypeOK
<1>1. ClockIInv => ClockTypeOK
  BY DEF ClockIInv
<1> QED BY <1>1, ClockInvariant, PTL

\* A device's stamps follow its sequence numbers strictly, for every behaviour
\* of its wall clock (advanceHLC under InsertLocalEventTx).
THEOREM StampsFollowSeq == ClockSpec => []StreamOrder
<1>1. ClockIInv => StreamOrder
  BY DEF ClockIInv
<1> QED BY <1>1, ClockInvariant, PTL

\* An event's stamp exceeds every stamp its author had applied (receiveHLC
\* under ReceiveRemoteHLC).
THEOREM StampsRespectCausality == ClockSpec => []Causality
<1>1. ClockIInv => Causality
  BY DEF ClockIInv
<1> QED BY <1>1, ClockInvariant, PTL

\* No remote stamp moves a clock more than the trusted skew (and one carry)
\* beyond the local wall clock (the skew gate of the apply loop).
THEOREM ClockNotPoisoned == ClockSpec => NoPoisoning
<1> DEFINE Bounded == \A d \in Devices :
                 last'[d] # last[d] =>
                   Physical(last'[d]) <= Larger(Physical(last[d]), now[d] + MaxSkew) + 1
<1>1. ClockTypeOK /\ [ClockNext]_clockvars => [Bounded]_clockvars
  <2> SUFFICES ASSUME ClockTypeOK, ClockNext, NEW x \in Devices, last'[x] # last[x]
               PROVE  Physical(last'[x]) <= Larger(Physical(last[x]), now[x] + MaxSkew) + 1
    OBVIOUS
  <2>0. /\ last[x] \in Stamp /\ now[x] \in Nat
        /\ Physical(last[x]) \in Nat /\ MaxSkew \in Nat
    BY HLCAssumption DEF ClockTypeOK, Stamp, Physical
  <2>1. ASSUME NEW d \in Devices, WallClock(d) PROVE FALSE
    BY <2>1 DEF WallClock
  <2>2. ASSUME NEW d \in Devices, InsertLocalEvent(d)
        PROVE  Physical(last'[x]) <= Larger(Physical(last[x]), now[x] + MaxSkew) + 1
    <3>1. d = x /\ last'[x] = AdvanceHLC(last[x], now[x])
      BY <2>2 DEF InsertLocalEvent, ClockTypeOK
    <3> QED BY <3>1, <2>0 DEF AdvanceHLC, Physical, Logical, Larger
  <2>3. ASSUME NEW d \in Devices, NEW e \in events, ApplyRemoteEvent(d, e)
        PROVE  Physical(last'[x]) <= Larger(Physical(last[x]), now[x] + MaxSkew) + 1
    <3>1. d = x /\ last'[x] = ReceiveHLC(last[x], e.hlc, now[x])
      BY <2>3 DEF ApplyRemoteEvent, ClockTypeOK
    <3>2. e.hlc \in Stamp /\ Physical(e.hlc) \in Nat
      BY DEF ClockTypeOK, HLCEvent, Stamp, Physical
    <3>3. Physical(e.hlc) - now[x] <= MaxSkew
      BY <2>3, <3>1, <3>2, <2>0 DEF ApplyRemoteEvent, TooFarAhead
    <3>4. \/ Physical(last'[x]) = Larger(Larger(now[x], Physical(last[x])), Physical(e.hlc))
          \/ Physical(last'[x]) = Larger(Larger(now[x], Physical(last[x])), Physical(e.hlc)) + 1
      BY <3>1 DEF ReceiveHLC, Physical
    <3>5. Larger(Larger(now[x], Physical(last[x])), Physical(e.hlc))
            <= Larger(Physical(last[x]), now[x] + MaxSkew)
      BY <3>2, <3>3, <2>0 DEF Larger
    <3>6. Larger(Physical(last[x]), now[x] + MaxSkew) \in Nat
          /\ Larger(Larger(now[x], Physical(last[x])), Physical(e.hlc)) \in Nat
      BY <3>2, <2>0 DEF Larger
    <3> QED BY <3>4, <3>5, <3>6
  <2> QED BY <2>1, <2>2, <2>3 DEF ClockNext
<1> QED BY <1>1, ClockTypeCorrect, PTL DEF ClockSpec, NoPoisoning

-----------------------------------------------------------------------------
(* The coordinate order.                                                   *)

\* samePathLess is a strict total order on coordinates.
LEMMA CoordOrder ==
    ASSUME NEW a \in Coord, NEW b \in Coord, NEW c \in Coord
    PROVE  /\ SamePathLess(a, b) /\ SamePathLess(b, c) => SamePathLess(a, c)
           /\ ~SamePathLess(a, a)
           /\ a = b \/ SamePathLess(a, b) \/ SamePathLess(b, a)
           /\ SamePathLess(a, b) => a[1] <= b[1]
  BY DEF Coord, SamePathLess

\* Project events are records with a coordinate.
LEMMA EventShape ==
    ASSUME NEW e \in ProjectEvent
    PROVE  /\ e.at \in Coord /\ HLC(e) \in Nat /\ e.path \in Paths
           /\ e.op = "upsert" \/ e.op = "delete"
           /\ ~(e.op = "upsert" /\ e.op = "delete")
           /\ ActiveRow(e) \in Row /\ DeletedRow(HLC(e)) \in Row
  BY DEF ProjectEvent, UpsertEvent, DeleteEvent, Coord, HLC, ActiveRow, DeletedRow, Row, NoCoord

-----------------------------------------------------------------------------
(* The fold keeps rows at the maximum of what was accepted.                *)

\* One decided and applied event takes a row that is the maximum of E to a row
\* that is the maximum of E and the event, unless the event was held back.
LEMMA DecideKeepsLatest ==
    ASSUME NEW E \in SUBSET ProjectEvent, NEW e \in ProjectEvent, e \notin E,
           NEW row \in Row, NEW dirty \in BOOLEAN,
           \A f \in E : f.at # e.at,
           IsLatest(row, E)
    PROVE  LET d == Decide(row, e, dirty)
           IN  /\ ApplyMutation(row, e, d.mutation) \in Row
               /\ IF d.conflict = "pending_delete"
                  THEN e.op = "delete" /\ ApplyMutation(row, e, d.mutation) = row
                  ELSE IsLatest(ApplyMutation(row, e, d.mutation), E \cup {e})
<1> DEFINE d == Decide(row, e, dirty)
           new == ApplyMutation(row, e, d.mutation)
           F == E \cup {e}
<1>0. /\ e \in F /\ \A v \in F : v \in E \/ v = e
      /\ \A v \in F : v \in ProjectEvent
  OBVIOUS
<1>e. /\ e.at \in Coord /\ HLC(e) \in Nat /\ HLC(e) = e.at[1]
      /\ ActiveRow(e) \in Row /\ DeletedRow(HLC(e)) \in Row
      /\ ActiveRow(e).status = "active" /\ DeletedRow(HLC(e)).status = "deleted"
  BY EventShape DEF HLC, ActiveRow, DeletedRow
<1>v. \A v \in E : v.at \in Coord /\ HLC(v) \in Nat /\ HLC(v) = v.at[1]
                    /\ (v.op = "upsert" \/ v.op = "delete")
  BY EventShape DEF HLC
<1>1. CASE E = {} /\ row = AbsentRow
  <2>1. row.status = "absent"
    BY <1>1 DEF AbsentRow
  <2>2. CASE e.op = "upsert"
    <3>1. d = Decision("upsert", "none")
      BY <2>1, <2>2 DEF Decide, DecideUpsert, CompetingRemotes
    <3>2. new = ActiveRow(e) /\ d.conflict = "none"
      BY <3>1 DEF Decision, ApplyMutation
    <3>3. \A v \in F : v = e
      BY <1>1
    <3> QED BY <3>2, <3>3, <2>2, <1>e, <1>0 DEF IsLatest
  <2>3. CASE e.op = "delete"
    <3>1. d = Decision("tombstone", "none")
      BY <2>1, <2>3 DEF Decide, DecideDelete
    <3>2. new = DeletedRow(HLC(e)) /\ d.conflict = "none"
      BY <3>1, <2>1 DEF Decision, ApplyMutation
    <3>3. \A v \in F : v = e
      BY <1>1
    <3> QED BY <3>2, <3>3, <2>3, <1>e, <1>0 DEF IsLatest
  <2> QED BY <2>2, <2>3, EventShape
<1>2. CASE \E u \in E : /\ u.op = "upsert" /\ row = ActiveRow(u)
                        /\ \A v \in E : v.op = "upsert" => v = u \/ SamePathLess(v.at, u.at)
                        /\ \A v \in E : v.op = "delete" => HLC(v) < HLC(u)
  <2>0. PICK u \in E : /\ u.op = "upsert" /\ row = ActiveRow(u)
                       /\ \A v \in E : v.op = "upsert" => v = u \/ SamePathLess(v.at, u.at)
                       /\ \A v \in E : v.op = "delete" => HLC(v) < HLC(u)
    BY <1>2
  <2>1. /\ row.status = "active" /\ row.src = u.at /\ row.src[1] = HLC(u)
        /\ u.at \in Coord /\ HLC(u) \in Nat /\ HLC(u) = u.at[1] /\ u \in F /\ u.at # e.at
    BY <2>0, <1>v DEF ActiveRow, HLC
  <2>2. CASE e.op = "upsert" /\ SamePathLess(u.at, e.at)
    <3>1. d.mutation = "upsert" /\ d.conflict # "pending_delete"
      BY <2>1, <2>2 DEF Decide, DecideUpsert, Decision
    <3>2. new = ActiveRow(e)
      BY <3>1 DEF ApplyMutation
    <3>3. \A v \in F : v.op = "upsert" => v = e \/ SamePathLess(v.at, e.at)
      BY <2>0, <2>1, <2>2, <1>0, <1>v, <1>e, CoordOrder
    <3>4. \A v \in F : v.op = "delete" => HLC(v) < HLC(e)
      <4>1. HLC(u) <= HLC(e)
        BY <2>1, <2>2, <1>e, CoordOrder
      <4> QED BY <4>1, <2>0, <2>1, <2>2, <1>0, <1>v, <1>e
    <3> QED BY <3>1, <3>2, <3>3, <3>4, <2>2, <1>e, <1>0 DEF IsLatest
  <2>3. CASE e.op = "upsert" /\ ~SamePathLess(u.at, e.at)
    <3>1. d.mutation = "none" /\ d.conflict # "pending_delete"
      BY <2>1, <2>3 DEF Decide, DecideUpsert, Decision
    <3>2. new = row
      BY <3>1 DEF ApplyMutation
    <3>3. SamePathLess(e.at, u.at)
      BY <2>1, <2>3, <1>e, CoordOrder
    <3>4. \A v \in F : v.op = "upsert" => v = u \/ SamePathLess(v.at, u.at)
      BY <3>3, <2>0, <1>0
    <3>5. \A v \in F : v.op = "delete" => HLC(v) < HLC(u)
      BY <2>0, <2>3, <1>0
    <3> QED BY <3>1, <3>2, <3>4, <3>5, <2>0, <2>1 DEF IsLatest
  <2>4. CASE e.op = "delete" /\ HLC(u) > HLC(e)
    <3>1. d = Decision("none", "none")
      BY <2>1, <2>4 DEF Decide, DecideDelete
    <3>2. new = row /\ d.conflict = "none"
      BY <3>1 DEF ApplyMutation, Decision
    <3>4. \A v \in F : v.op = "upsert" => v = u \/ SamePathLess(v.at, u.at)
      BY <2>4, <2>0, <1>0
    <3>5. \A v \in F : v.op = "delete" => HLC(v) < HLC(u)
      BY <2>0, <2>4, <1>0, <2>1, <1>e
    <3> QED BY <3>2, <3>4, <3>5, <2>0, <2>1 DEF IsLatest
  <2>5. CASE e.op = "delete" /\ ~(HLC(u) > HLC(e)) /\ dirty
    <3>1. d = Decision("none", "pending_delete")
      BY <2>1, <2>5 DEF Decide, DecideDelete
    <3> QED BY <3>1, <2>5 DEF ApplyMutation, Decision
  <2>6. CASE e.op = "delete" /\ ~(HLC(u) > HLC(e)) /\ ~dirty
    <3>1. d = Decision("tombstone", "none")
      BY <2>1, <2>6 DEF Decide, DecideDelete
    <3>2. new = DeletedRow(HLC(e)) /\ d.conflict = "none"
      BY <3>1, <2>1 DEF ApplyMutation, Decision
    <3>3. \A v \in F : HLC(v) <= HLC(e)
      <4> SUFFICES ASSUME NEW v \in F PROVE HLC(v) <= HLC(e)
        OBVIOUS
      <4>1. CASE v = e
        BY <4>1, <1>e
      <4>2. CASE v \in E
        <5>1. HLC(v) <= HLC(u)
          BY <4>2, <2>0, <2>1, <1>v, CoordOrder
        <5> QED BY <5>1, <4>2, <2>6, <2>1, <1>v, <1>e
      <4> QED BY <4>1, <4>2, <1>0
    <3> QED BY <3>2, <3>3, <2>6, <1>e, <1>0 DEF IsLatest
  <2> QED BY <2>2, <2>3, <2>4, <2>5, <2>6, EventShape
<1>3. CASE \E x \in E : /\ x.op = "delete" /\ row = DeletedRow(HLC(x))
                        /\ \A v \in E : HLC(v) <= HLC(x)
  <2>0. PICK x \in E : /\ x.op = "delete" /\ row = DeletedRow(HLC(x))
                       /\ \A v \in E : HLC(v) <= HLC(x)
    BY <1>3
  <2>1. /\ row.status = "deleted" /\ row.tombstone = HLC(x)
        /\ HLC(x) \in Nat /\ x \in F
    BY <2>0, <1>v DEF DeletedRow
  <2>2. CASE e.op = "upsert" /\ HLC(e) <= HLC(x)
    <3>1. d = Decision("none", "none")
      BY <2>1, <2>2 DEF Decide, DecideUpsert
    <3>2. new = row /\ d.conflict = "none"
      BY <3>1 DEF ApplyMutation, Decision
    <3> QED BY <3>2, <2>0, <2>1, <2>2, <1>0 DEF IsLatest
  <2>3. CASE e.op = "upsert" /\ ~(HLC(e) <= HLC(x))
    <3>1. d = Decision("upsert", "none")
      BY <2>1, <2>3 DEF Decide, DecideUpsert, CompetingRemotes
    <3>2. new = ActiveRow(e) /\ d.conflict = "none"
      BY <3>1 DEF ApplyMutation, Decision
    <3>3. \A v \in E : HLC(v) < HLC(e)
      BY <2>0, <2>1, <2>3, <1>v, <1>e
    <3>4. \A v \in E : SamePathLess(v.at, e.at)
      BY <3>3, <1>v, <1>e DEF SamePathLess
    <3> QED BY <3>2, <3>3, <3>4, <2>3, <1>e, <1>0 DEF IsLatest
  <2>4. CASE e.op = "delete"
    <3>1. d = Decision("tombstone", "none")
      BY <2>1, <2>4 DEF Decide, DecideDelete
    <3>2. /\ new = DeletedRow(IF HLC(x) > HLC(e) THEN HLC(x) ELSE HLC(e))
          /\ d.conflict = "none"
      BY <3>1, <2>1 DEF ApplyMutation, Decision
    <3>3. CASE HLC(x) > HLC(e)
      <4>1. new = DeletedRow(HLC(x)) /\ \A v \in F : HLC(v) <= HLC(x)
        BY <3>2, <3>3, <2>0, <2>1, <1>0, <1>e
      <4> QED BY <4>1, <3>2, <2>0, <2>1 DEF IsLatest
    <3>4. CASE ~(HLC(x) > HLC(e))
      <4>1. new = DeletedRow(HLC(e)) /\ \A v \in F : HLC(v) <= HLC(e)
        BY <3>2, <3>4, <2>0, <2>1, <1>0, <1>v, <1>e
      <4> QED BY <4>1, <3>2, <2>4, <1>e, <1>0 DEF IsLatest
    <3> QED BY <3>3, <3>4
  <2> QED BY <2>2, <2>3, <2>4, EventShape
<1> QED BY <1>1, <1>2, <1>3 DEF IsLatest

\* The maximum of a set of events with distinct coordinates is unique: this is
\* what makes the projection a function of the accepted set.
LEMMA LatestUnique ==
    ASSUME NEW E \in SUBSET ProjectEvent, NEW x, NEW y,
           \A e, f \in E : e.at = f.at => e = f,
           IsLatest(x, E), IsLatest(y, E)
    PROVE  x = y
<1>v. \A v \in E : v.at \in Coord /\ HLC(v) \in Nat /\ HLC(v) = v.at[1]
                    /\ (v.op = "upsert" \/ v.op = "delete")
                    /\ ~(v.op = "upsert" /\ v.op = "delete")
  BY EventShape DEF HLC
<1> DEFINE Up(row, u) == /\ u.op = "upsert" /\ row = ActiveRow(u)
                         /\ \A v \in E : v.op = "upsert" => v = u \/ SamePathLess(v.at, u.at)
                         /\ \A v \in E : v.op = "delete" => HLC(v) < HLC(u)
           Del(row, d) == /\ d.op = "delete" /\ row = DeletedRow(HLC(d))
                          /\ \A v \in E : HLC(v) <= HLC(d)
<1>1. ASSUME NEW u \in E, NEW w \in E, NEW s, NEW t, Up(s, u), Up(t, w) PROVE s = t
  <2>1. u = w \/ (SamePathLess(u.at, w.at) /\ SamePathLess(w.at, u.at))
    BY <1>1
  <2>2. u = w
    BY <2>1, <1>v, CoordOrder
  <2> QED BY <2>2, <1>1
<1>2. ASSUME NEW u \in E, NEW w \in E, NEW s, NEW t, Up(s, u), Del(t, w) PROVE FALSE
  BY <1>2, <1>v
<1>3. ASSUME NEW u \in E, NEW w \in E, NEW s, NEW t, Del(s, u), Del(t, w) PROVE s = t
  <2>1. HLC(u) = HLC(w)
    BY <1>3, <1>v
  <2> QED BY <2>1, <1>3
<1>4. /\ (E = {} /\ x = AbsentRow) \/ (\E u \in E : Up(x, u)) \/ (\E u \in E : Del(x, u))
      /\ (E = {} /\ y = AbsentRow) \/ (\E u \in E : Up(y, u)) \/ (\E u \in E : Del(y, u))
  BY DEF IsLatest
<1> HIDE DEF Up, Del
<1> QED BY <1>1, <1>2, <1>3, <1>4

-----------------------------------------------------------------------------
(* The inductive invariant.                                                *)

\* Every replica starts with an empty projection and no events.
LEMMA FoldInitially == Init => IInv
<1> SUFFICES ASSUME Init PROVE IInv
  OBVIOUS
<1>1. AbsentRow \in Row
  BY DecideAssumption DEF AbsentRow, Row, NoCoord, Coord
<1>2. TypeOK
  BY <1>1 DEF Init, TypeOK
<1>3. CoordsUnique /\ DeclinedDelivered
  BY DEF Init, CoordsUnique, DeclinedDelivered, Minted
<1>4. RowIsLatest
  <2> SUFFICES ASSUME NEW r \in Replicas, NEW p \in Paths
               PROVE  IsLatest(proj[r][p], Accepted(r, p))
    BY DEF RowIsLatest
  <2>1. Accepted(r, p) = {} /\ proj[r][p] = AbsentRow
    BY DEF Init, Accepted
  <2> QED BY <2>1 DEF IsLatest
<1> QED BY <1>2, <1>3, <1>4 DEF IInv

\* Delivering one event to one replica, with a clean or a dirty checkout, keeps
\* the invariant: the only row that changes is the one DecideKeepsLatest is about.
LEMMA DeliverPreserves ==
    ASSUME IInv, NEW r \in Replicas, NEW e \in Universe, NEW dirty \in BOOLEAN,
           Deliver(r, e, dirty)
    PROVE  IInv'
<1> DEFINE q == e.path
           row == proj[r][q]
           d == Decide(row, e, dirty)
           new == ApplyMutation(row, e, d.mutation)
           E == Accepted(r, q)
<1>0. /\ e \in ProjectEvent /\ q \in Paths /\ row \in Row
      /\ E \in SUBSET ProjectEvent /\ e \notin E
  BY EventShape, FoldAssumption DEF IInv, TypeOK, Accepted, Deliver
<1>1. \A f \in E : f.at # e.at
  <2> SUFFICES ASSUME NEW f \in E, f.at = e.at PROVE FALSE
    OBVIOUS
  <2>1. f \in Minted /\ f \in delivered[r]
    BY DEF Accepted, Minted
  <2> QED BY <2>1 DEF Deliver
<1>2. IsLatest(row, E)
  BY <1>0 DEF IInv, RowIsLatest
<1>3. /\ new \in Row
      /\ IF d.conflict = "pending_delete"
         THEN e.op = "delete" /\ new = row
         ELSE IsLatest(new, E \cup {e})
  BY <1>0, <1>1, <1>2, DecideKeepsLatest
<1>4. /\ proj' = [proj EXCEPT ![r] = [proj[r] EXCEPT ![q] = new]]
      /\ declined' = IF d.conflict = "pending_delete"
                     THEN [declined EXCEPT ![r] = @ \cup {e}] ELSE declined
      /\ delivered' = [delivered EXCEPT ![r] = @ \cup {e}]
      /\ e \notin delivered[r]
      /\ \A f \in Minted : f.at = e.at => f = e
  BY DEF Deliver
<1> HIDE DEF d, new, row
<1>5. TypeOK'
  BY <1>0, <1>3, <1>4 DEF IInv, TypeOK
<1>6. DeclinedDelivered'
  BY <1>4 DEF IInv, TypeOK, DeclinedDelivered
<1>7. CoordsUnique'
  <2>1. \A f \in Minted' : f \in Minted \/ f = e
    BY <1>4 DEF IInv, TypeOK, Minted
  <2> QED BY <2>1, <1>4 DEF IInv, CoordsUnique
<1>8. RowIsLatest'
  <2> SUFFICES ASSUME NEW s \in Replicas, NEW p \in Paths
               PROVE  IsLatest(proj'[s][p], Accepted(s, p)')
    BY DEF RowIsLatest
  <2>0. IsLatest(proj[s][p], Accepted(s, p))
    BY DEF IInv, RowIsLatest
  <2>1. CASE s # r \/ p # q
    <3>1. proj'[s][p] = proj[s][p]
      BY <2>1, <1>4 DEF IInv, TypeOK
    <3>2. Accepted(s, p)' = Accepted(s, p)
      BY <2>1, <1>4 DEF IInv, TypeOK, Accepted
    <3> QED BY <3>1, <3>2, <2>0
  <2>2. CASE s = r /\ p = q
    <3>1. proj'[s][p] = new
      BY <2>2, <1>4, <1>0 DEF IInv, TypeOK
    <3>2. CASE d.conflict = "pending_delete"
      <4>1. Accepted(s, p)' = Accepted(s, p)
        BY <3>2, <2>2, <1>4 DEF IInv, TypeOK, Accepted
      <4> QED BY <4>1, <3>1, <3>2, <2>0, <2>2, <1>3 DEF row
    <3>3. CASE d.conflict # "pending_delete"
      <4>1. e \notin declined[r]
        BY <1>4 DEF IInv, DeclinedDelivered
      <4>2. Accepted(s, p)' = E \cup {e}
        BY <4>1, <3>3, <2>2, <1>4 DEF IInv, TypeOK, Accepted
      <4> QED BY <4>2, <3>1, <3>3, <1>3
    <3> QED BY <3>2, <3>3
  <2> QED BY <2>1, <2>2
<1> QED BY <1>5, <1>6, <1>7, <1>8 DEF IInv

\* Every step keeps the invariant.
LEMMA FoldStep == IInv /\ [Next]_vars => IInv'
<1> SUFFICES ASSUME IInv, [Next]_vars PROVE IInv'
  OBVIOUS
<1>1. CASE UNCHANGED vars
  <2>1. delivered' = delivered /\ declined' = declined /\ proj' = proj
    BY <1>1 DEF vars
  <2>2. TypeOK' /\ CoordsUnique' /\ DeclinedDelivered'
    BY <2>1 DEF IInv, TypeOK, CoordsUnique, DeclinedDelivered, Minted
  <2>3. \A r \in Replicas, p \in Paths : Accepted(r, p)' = Accepted(r, p)
    BY <2>1 DEF Accepted
  <2>4. RowIsLatest'
    BY <2>1, <2>3 DEF IInv, RowIsLatest
  <2> QED BY <2>2, <2>4 DEF IInv
<1>2. CASE Next
  BY <1>2, DeliverPreserves DEF Next
<1> QED BY <1>1, <1>2

-----------------------------------------------------------------------------
(* What the invariant gives.                                               *)

\* Holding back a delete that a later accepted event dominates changes nothing:
\* the maximum of what was accepted is the maximum of what was delivered.
LEMMA SettledLatest ==
    ASSUME IInv, NEW r \in Replicas, NEW p \in Paths, Settled(r)
    PROVE  IsLatest(proj[r][p], {e \in delivered[r] : e.path = p})
<1> DEFINE row == proj[r][p]
           E == Accepted(r, p)
           D == {e \in delivered[r] : e.path = p}
<1>0. /\ IsLatest(row, E) /\ E \subseteq D
      /\ \A v \in D : v \in ProjectEvent
      /\ \A v \in D : v \in E \/ v \in declined[r]
  BY FoldAssumption DEF IInv, TypeOK, RowIsLatest, Accepted
<1>v. \A v \in D : v.at \in Coord /\ HLC(v) \in Nat /\ HLC(v) = v.at[1]
  BY <1>0, EventShape DEF HLC
<1>1. \A v \in D : v \in E \/ \E f \in E : HLC(f) > HLC(v)
  BY <1>0 DEF Settled, Accepted
<1>2. ASSUME E = {} /\ row = AbsentRow PROVE IsLatest(row, D)
  BY <1>2, <1>1 DEF IsLatest
<1>3. ASSUME NEW u \in E, u.op = "upsert", row = ActiveRow(u),
             \A v \in E : v.op = "upsert" => v = u \/ SamePathLess(v.at, u.at),
             \A v \in E : v.op = "delete" => HLC(v) < HLC(u)
      PROVE  IsLatest(row, D)
  <2>1. \A v \in E : HLC(v) <= HLC(u)
    <3> SUFFICES ASSUME NEW v \in E PROVE HLC(v) <= HLC(u)
      OBVIOUS
    <3>1. v.op = "upsert" \/ v.op = "delete"
      BY <1>0, EventShape
    <3> QED BY <3>1, <1>3, <1>0, <1>v, CoordOrder
  <2>2. \A v \in D : v \in E \/ HLC(v) < HLC(u)
    BY <2>1, <1>1, <1>0, <1>v
  <2>3. \A v \in D : v.op = "upsert" => v = u \/ SamePathLess(v.at, u.at)
    BY <2>2, <1>3, <1>0, <1>v DEF SamePathLess
  <2>4. \A v \in D : v.op = "delete" => HLC(v) < HLC(u)
    BY <2>2, <1>3
  <2> QED BY <2>3, <2>4, <1>3, <1>0 DEF IsLatest
<1>4. ASSUME NEW x \in E, x.op = "delete", row = DeletedRow(HLC(x)),
             \A v \in E : HLC(v) <= HLC(x)
      PROVE  IsLatest(row, D)
  <2>1. \A v \in D : HLC(v) <= HLC(x)
    BY <1>4, <1>1, <1>0, <1>v
  <2> QED BY <2>1, <1>4, <1>0 DEF IsLatest
<1>5. \/ E = {} /\ row = AbsentRow
      \/ \E u \in E : /\ u.op = "upsert" /\ row = ActiveRow(u)
                      /\ \A v \in E : v.op = "upsert" => v = u \/ SamePathLess(v.at, u.at)
                      /\ \A v \in E : v.op = "delete" => HLC(v) < HLC(u)
      \/ \E x \in E : /\ x.op = "delete" /\ row = DeletedRow(HLC(x))
                      /\ \A v \in E : HLC(v) <= HLC(x)
  BY <1>0 DEF IsLatest
<1> HIDE DEF D, E, row
<1>6. IsLatest(row, D)
  BY <1>2, <1>3, <1>4, <1>5
<1> QED BY <1>6 DEF D, row

\* The inductive invariant holds in every reachable state of the fold.
THEOREM FoldInvariant == Spec => []IInv
<1>1. Init => IInv
  BY FoldInitially
<1>2. IInv /\ [Next]_vars => IInv'
  BY FoldStep
<1> QED BY <1>1, <1>2, PTL DEF Spec

\* Whatever the delivery order, every row of every replica is the maximum of the
\* events accepted on its path: what Decide computes is order-free.
THEOREM RowsAreLatest == Spec => []RowIsLatest
<1>1. IInv => RowIsLatest
  BY DEF IInv
<1> QED BY <1>1, FoldInvariant, PTL

\* Strong eventual consistency of Decide and Projection.Apply: the same events
\* in any two orders give the same namespace.
THEOREM StrongEventualConsistency == Spec => []Convergence
<1>1. IInv => Convergence
  <2> SUFFICES ASSUME IInv, NEW r \in Replicas, NEW s \in Replicas,
                      delivered[r] = delivered[s], Settled(r), Settled(s)
               PROVE  proj[r] = proj[s]
    BY DEF Convergence
  <2>1. ASSUME NEW p \in Paths PROVE proj[r][p] = proj[s][p]
    <3> DEFINE D == {e \in delivered[r] : e.path = p}
    <3>1. IsLatest(proj[r][p], D) /\ IsLatest(proj[s][p], D)
      BY SettledLatest
    <3>2. D \in SUBSET ProjectEvent
      BY FoldAssumption DEF IInv, TypeOK
    <3>3. \A e, f \in D : e.at = f.at => e = f
      BY DEF IInv, CoordsUnique, Minted
    <3> HIDE DEF D
    <3> QED BY <3>1, <3>2, <3>3, LatestUnique
  <2> QED BY <2>1 DEF IInv, TypeOK
<1> QED BY <1>1, FoldInvariant, PTL

\* A tombstoned path is revived only by an event above every delete accepted on
\* it (the SYNC-03 gate), because a tombstone sits at the highest delete.
THEOREM DeletedStaysDeleted == Spec => NoResurrection
<1>1. IInv /\ [Next]_vars =>
        [\A r \in Replicas, p \in Paths :
           proj[r][p].status = "deleted" /\ proj'[r][p].status = "active" =>
              \A d \in Accepted(r, p) : d.op = "delete" => HLC(d) < proj'[r][p].src[1]]_vars
  <2> SUFFICES ASSUME IInv, Next, NEW r \in Replicas, NEW p \in Paths,
                      proj[r][p].status = "deleted", proj'[r][p].status = "active",
                      NEW d \in Accepted(r, p), d.op = "delete"
               PROVE  HLC(d) < proj'[r][p].src[1]
    OBVIOUS
  <2>1. PICK s \in Replicas, e \in Universe, dirty \in BOOLEAN : Deliver(s, e, dirty)
    BY DEF Next
  <2>2. s = r /\ e.path = p
    BY <2>1 DEF Deliver, IInv, TypeOK
  <2>3. IInv' /\ e \in ProjectEvent /\ d \in ProjectEvent
    BY <2>1, DeliverPreserves, FoldAssumption DEF IInv, TypeOK, Accepted
  <2>4. d \in Accepted(r, p)'
    BY <2>1, <2>2 DEF Deliver, IInv, TypeOK, Accepted
  <2>5. IsLatest(proj'[r][p], Accepted(r, p)')
    BY <2>3 DEF IInv, RowIsLatest
  <2>6. PICK u \in Accepted(r, p)' :
          /\ proj'[r][p] = ActiveRow(u)
          /\ \A v \in Accepted(r, p)' : v.op = "delete" => HLC(v) < HLC(u)
    <3> DEFINE Acc == Accepted(r, p)'
               R == proj'[r][p]
    <3>1. IsLatest(R, Acc) /\ R.status = "active"
      BY <2>5
    <3>2. AbsentRow.status = "absent" /\ \A h : DeletedRow(h).status = "deleted"
      BY DEF AbsentRow, DeletedRow
    <3>3. \E u \in Acc : /\ R = ActiveRow(u)
                      /\ \A v \in Acc : v.op = "delete" => HLC(v) < HLC(u)
      <4> HIDE DEF Acc, R
      <4> QED BY <3>1, <3>2 DEF IsLatest
    <3> QED BY <3>3
  <2> QED BY <2>4, <2>6 DEF ActiveRow, HLC
<1> QED BY <1>1, FoldInvariant, PTL DEF Spec, NoResurrection

-----------------------------------------------------------------------------
(* The store.  Its inductive invariant: what the logs hold, what the rows   *)
(* remember of them, and what a resolution may have read.                  *)

Claims(r, p) == {e \in log[r] : e.path = p}

\* Every logged event was minted by a host, which still has it, under a
\* coordinate of its own.
LogsSound ==
    /\ \A r \in Hosts : log[r] \subseteq Mintable
    /\ \A r, s \in Hosts : \A e \in log[s] : e.at[2] = r => e \in log[r]
    /\ \A r, s \in Hosts : \A e \in log[r], f \in log[s] : e.at = f.at => e = f

\* An active row carries the coordinate of a logged upsert, whose remote is the
\* row's unless it named none; a tombstone is the stamp of a logged delete.
RowKnown(C, row, remote) ==
    /\ row.status = "absent" => C = {}
    /\ row.status = "active" =>
          \E e \in C : e.op = "upsert" /\ e.at = row.src /\ e.remote \in {remote, NoRemote}
    /\ row.status = "deleted" => \E e \in C : e.op = "delete" /\ HLC(e) = row.tombstone

RowsKnown == \A r \in Hosts, p \in Paths : RowKnown(Claims(r, p), ns[r][p], git[r][p])

\* What `conflicts resolve' has read and not yet written.
Choice ==
    {NoChoice} \cup [act : {"upsert", "delete", "close"}, path : Paths,
                     remote : Remotes \cup {NoRemote}, conflict : Conflict]

ChoicesKnown ==
    /\ choice \in [Hosts -> Choice]
    /\ \A r \in Hosts : choice[r] # NoChoice => choice[r].conflict \in conflicts[r]

StoreIInv ==
    /\ StoreTypeOK /\ LogsSound /\ RowsKnown /\ ChoicesKnown
    /\ ConflictsRecoverable /\ OwnDisplacementFlagged

NSRow == [status : {"absent", "active", "deleted"}, tombstone : Nat, src : Coord]

\* Stamps are positive, so an event's coordinate is never the NULL coordinate.
LEMMA MintableShape ==
    ASSUME NEW e \in Mintable
    PROVE  /\ e \in ProjectEvent /\ e.at \in Coord /\ e.at # NoCoord
           /\ HLC(e) \in Nat \ {0} /\ HLC(e) = e.at[1] /\ HLC(e) \in 1..MaxHLC /\ e.at[2] \in Hosts
           /\ e.at = <<HLC(e), e.at[2], 1>>
           /\ e.path \in Paths /\ e.remote \in Remotes \cup {NoRemote}
           /\ e.op = "upsert" \/ e.op = "delete"
           /\ ~(e.op = "upsert" /\ e.op = "delete")
<1>1. /\ e.at \in (1..MaxHLC) \X Hosts \X {1} /\ e.path \in Paths /\ e.remote \in Remotes \cup {NoRemote}
      /\ e.op = "upsert" \/ e.op = "delete"
  BY DEF Mintable
<1>2. PICK h \in 1..MaxHLC, s \in Hosts : e.at = <<h, s, 1>>
  BY <1>1
<1>3. h \in Nat \ {0} /\ s \in Nat
  BY StoreAssumption
<1>4. e \in ProjectEvent
  BY <1>2, <1>3 DEF Mintable, ProjectEvent, UpsertEvent, DeleteEvent, Coord
<1> QED BY <1>1, <1>2, <1>3, <1>4 DEF Coord, NoCoord, HLC

\* What a mutation leaves in the two tables.
Written(r, e, m) ==
    /\ ns' \in [Hosts -> [Paths -> NSRow]]
    /\ git' \in [Hosts -> [Paths -> Remotes \cup {NoRemote}]]
    /\ \A s \in Hosts, p \in Paths :
          s # r \/ p # e.path => ns'[s][p] = ns[s][p] /\ git'[s][p] = git[s][p]
    /\ m = "none" => ns'[r][e.path] = ns[r][e.path]
    /\ m = "upsert" =>
          /\ ns'[r][e.path] = [status |-> "active", tombstone |-> 0, src |-> e.at]
          /\ git'[r][e.path] = IF e.remote = NoRemote THEN git[r][e.path] ELSE e.remote
    /\ m = "tombstone" =>
          ns'[r][e.path] = [status |-> "deleted", tombstone |-> HLC(e), src |-> ns[r][e.path].src]
    /\ m # "upsert" => git' = git

LEMMA PersistEffect ==
    ASSUME StoreTypeOK, NEW r \in Hosts, NEW e \in Mintable,
           NEW m \in {"upsert", "tombstone", "none"}, Persist(r, e, m)
    PROVE  Written(r, e, m)
<1> DEFINE old == ns[r][e.path]
           new == IF m = "upsert" THEN UpsertNamespace(old, e.at)
                  ELSE IF m = "tombstone" THEN TombstonePath(old, HLC(e)) ELSE old
           remote == UpsertGitRepo(git[r][e.path], e.remote)
<1>1. /\ e.path \in Paths /\ e.at \in Coord /\ e.at # NoCoord /\ HLC(e) \in Nat
      /\ e.remote \in Remotes \cup {NoRemote}
  BY MintableShape
<1>2. ns \in [Hosts -> [Paths -> NSRow]] /\ git \in [Hosts -> [Paths -> Remotes \cup {NoRemote}]]
  BY DEF StoreTypeOK, NSRow
<1>3. old \in NSRow /\ git[r][e.path] \in Remotes \cup {NoRemote}
  BY <1>1, <1>2
<1>4. ns' = [ns EXCEPT ![r] = [ns[r] EXCEPT ![e.path] = new]]
  BY DEF Persist
<1>5. git' = IF m = "upsert" THEN [git EXCEPT ![r] = [git[r] EXCEPT ![e.path] = remote]] ELSE git
  BY DEF Persist
<1>6. /\ m = "upsert" => new = [status |-> "active", tombstone |-> 0, src |-> e.at]
      /\ m = "tombstone" => new = [status |-> "deleted", tombstone |-> HLC(e), src |-> old.src]
      /\ m = "none" => new = old
      /\ remote = IF e.remote = NoRemote THEN git[r][e.path] ELSE e.remote
  BY <1>1, <1>3 DEF UpsertNamespace, TombstonePath, NSRow, UpsertGitRepo
<1>7. new \in NSRow /\ remote \in Remotes \cup {NoRemote}
  BY <1>6, <1>1, <1>3 DEF NSRow
<1> HIDE DEF new, remote
<1>8. /\ ns' \in [Hosts -> [Paths -> NSRow]]
      /\ ns'[r][e.path] = new
      /\ \A s \in Hosts, p \in Paths : s # r \/ p # e.path => ns'[s][p] = ns[s][p]
  BY <1>1, <1>2, <1>4, <1>7
<1>9. /\ git' \in [Hosts -> [Paths -> Remotes \cup {NoRemote}]]
      /\ \A s \in Hosts, p \in Paths : s # r \/ p # e.path => git'[s][p] = git[s][p]
      /\ m = "upsert" => git'[r][e.path] = remote
      /\ m # "upsert" => git' = git
  BY <1>1, <1>2, <1>5, <1>7
<1> QED BY <1>6, <1>8, <1>9 DEF Written

\* One event enters the log of r together with its effect on the rows.  fresh:
\* r mints it; otherwise it is in the log of the host that minted it.
Enters(r, e, m) ==
    /\ log' = [log EXCEPT ![r] = @ \cup {e}]
    /\ Persist(r, e, m)
    /\ m \in {"upsert", "tombstone", "none"}
    /\ m = "upsert" => e.op = "upsert"
    /\ m = "tombstone" => e.op = "delete"
    /\ m = "none" => ns[r][e.path].status # "absent"
    /\ \/ e.at[2] = r /\ \A f \in log[r] : HLC(f) < HLC(e)
       \/ e \notin log[r] /\ \E s \in Hosts : e \in log[s]

\* Logs stay sound and rows known when an event enters a log.
LEMMA EntersKeeps ==
    ASSUME StoreTypeOK, LogsSound, RowsKnown, NEW r \in Hosts, NEW e \in Mintable,
           NEW m, Enters(r, e, m)
    PROVE  /\ log' \in [Hosts -> SUBSET ProjectEvent]
           /\ LogsSound' /\ RowsKnown'
           /\ e \notin log[r] /\ \A f \in UNION {log[s] : s \in Hosts} : f.at = e.at => f = e
<1>0. /\ log' = [log EXCEPT ![r] = @ \cup {e}]
      /\ log \in [Hosts -> SUBSET ProjectEvent]
      /\ log'[r] = log[r] \cup {e} /\ \A s \in Hosts \ {r} : log'[s] = log[s]
  BY DEF Enters, StoreTypeOK
<1>1. /\ e \in ProjectEvent /\ e.path \in Paths /\ HLC(e) \in Nat /\ HLC(e) = e.at[1] /\ e.at[2] \in Hosts
  BY MintableShape
<1>2. \A s \in Hosts : \A f \in log[s] : f.at = e.at => f = e
  <2> SUFFICES ASSUME NEW s \in Hosts, NEW f \in log[s], f.at = e.at PROVE f = e
    OBVIOUS
  <2>1. CASE e.at[2] = r /\ \A g \in log[r] : HLC(g) < HLC(e)
    <3>1. f \in log[r]
      BY <2>1 DEF LogsSound
    <3>2. HLC(f) = HLC(e)
      BY DEF HLC
    <3> QED BY <3>1, <3>2, <2>1, <1>1
  <2>2. CASE \E t \in Hosts : e \in log[t]
    BY <2>2 DEF LogsSound
  <2> QED BY <2>1, <2>2 DEF Enters
<1>3. e \notin log[r]
  BY <1>1 DEF Enters
<1>4. LogsSound'
  <2>1. \A s \in Hosts : log'[s] \subseteq Mintable
    BY <1>0 DEF LogsSound
  <2>2. ASSUME NEW s \in Hosts, NEW t \in Hosts, NEW f \in log'[t], f.at[2] = s
        PROVE  f \in log'[s]
    <3>1. CASE f \in log[t]
      BY <3>1, <2>2, <1>0 DEF LogsSound
    <3>2. CASE f = e
      BY <3>2, <2>2, <1>0 DEF Enters, LogsSound
    <3> QED BY <3>1, <3>2, <1>0
  <2>3. ASSUME NEW s \in Hosts, NEW t \in Hosts, NEW f \in log'[s], NEW g \in log'[t], f.at = g.at
        PROVE  f = g
    <3>1. (f \in log[s] \/ f = e) /\ (g \in log[t] \/ g = e)
      BY <1>0
    <3> QED BY <3>1, <2>3, <1>2 DEF LogsSound
  <2> QED BY <2>1, <2>2, <2>3 DEF LogsSound
<1>5. RowsKnown'
  <2> SUFFICES ASSUME NEW s \in Hosts, NEW p \in Paths
               PROVE  RowKnown(Claims(s, p)', ns'[s][p], git'[s][p])
    BY DEF RowsKnown
  <2>0. RowKnown(Claims(s, p), ns[s][p], git[s][p])
    BY DEF RowsKnown
  <2>p. /\ Persist(r, e, m) /\ m \in {"upsert", "tombstone", "none"}
    BY DEF Enters
  <2>q. Written(r, e, m)
    BY <2>p, PersistEffect
  <2>1. CASE s # r \/ p # e.path
    <3>1. Claims(s, p)' = Claims(s, p)
      BY <2>1, <1>0 DEF Claims
    <3> QED BY <3>1, <2>1, <2>q, <2>0 DEF Written
  <2>2. CASE s = r /\ p = e.path
    <3>1. Claims(s, p)' = Claims(s, p) \cup {e}
      BY <2>2, <1>0 DEF Claims
    <3>2. CASE m = "upsert"
      BY <3>1, <3>2, <2>2, <2>q DEF RowKnown, Enters, Written
    <3>3. CASE m = "tombstone"
      BY <3>1, <3>3, <2>2, <2>q DEF RowKnown, Enters, Written
    <3>4. CASE m = "none"
      <4>1. ns'[s][p] = ns[s][p] /\ git'[s][p] = git[s][p] /\ ns[s][p].status # "absent"
        BY <3>4, <2>2, <2>q DEF Enters, Written
      <4> QED BY <4>1, <3>1, <2>0 DEF RowKnown
    <3> QED BY <3>2, <3>3, <3>4, <2>p
  <2> QED BY <2>1, <2>2
<1>6. log' \in [Hosts -> SUBSET ProjectEvent]
  BY <1>0, <1>1
<1> QED BY <1>2, <1>3, <1>4, <1>5, <1>6

\* EventAt finds the one event of a log with a coordinate.
LEMMA EventAtIs ==
    ASSUME LogsSound, NEW r \in Hosts, NEW g \in log[r]
    PROVE  EventAt(r, g.at) = g
  BY DEF LogsSound, EventAt

\* Whatever a conflict names stays in the log, so what it names stays the same.
LEMMA EventAtKept ==
    ASSUME LogsSound, LogsSound', NEW r \in Hosts, NEW g \in log[r], log[r] \subseteq log'[r]
    PROVE  EventAt(r, g.at)' = EventAt(r, g.at)
<1>1. EventAt(r, g.at) = g
  BY EventAtIs
<1>2. EventAt(r, g.at)' = g
  <2>1. g \in log'[r]
    OBVIOUS
  <2> QED BY <2>1 DEF LogsSound, EventAt
<1> QED BY <1>1, <1>2

\* Conflicts stay recoverable when logs and conflicts only grow by recoverable ones.
LEMMA RecoverableGrows ==
    ASSUME ConflictsRecoverable, \A r \in Hosts : log[r] \subseteq log'[r],
           \A r \in Hosts : \A c \in conflicts'[r] : c \in conflicts[r] \/
               (c.type = "same_path_different_remote" =>
                   \E e, f \in log'[r] : /\ e.op = "upsert" /\ e.at = c.winner /\ e.path = c.path
                                         /\ f.op = "upsert" /\ f.at = c.loser /\ f.path = c.path
                                         /\ e.remote # f.remote)
    PROVE  ConflictsRecoverable'
<1> SUFFICES ASSUME NEW r \in Hosts, NEW c \in conflicts'[r], c.type = "same_path_different_remote"
             PROVE  \E e, f \in log'[r] : /\ e.op = "upsert" /\ e.at = c.winner /\ e.path = c.path
                                          /\ f.op = "upsert" /\ f.at = c.loser /\ f.path = c.path
                                          /\ e.remote # f.remote
  BY DEF ConflictsRecoverable
<1>1. CASE c \in conflicts[r]
  <2>1. \E e, f \in log[r] : /\ e.op = "upsert" /\ e.at = c.winner /\ e.path = c.path
                             /\ f.op = "upsert" /\ f.at = c.loser /\ f.path = c.path
                             /\ e.remote # f.remote
    BY <1>1 DEF ConflictsRecoverable
  <2> QED BY <2>1
<1> QED BY <1>1

\* A displaced claim of r to p, as a predicate of the tables.
Displaced(r, p, e) ==
    LET onPath == {f \in log[r] : f.path = p}
    IN  /\ \A f \in onPath : f.op = "upsert" /\ f.remote # NoRemote
        /\ e \in onPath /\ e.at[2] = r
        /\ \A f \in onPath : f.at[2] = r => HLC(f) <= HLC(e)
        /\ git[r][p] # e.remote

Flagged(r, p, e) ==
    \E c \in conflicts[r] : /\ c.type = "same_path_different_remote" /\ c.path = p
                            /\ EventAt(r, c.loser).remote = e.remote

LEMMA DisplacedFlagged ==
    OwnDisplacementFlagged <=> \A r \in Hosts, p \in Paths : \A e \in log[r] : Displaced(r, p, e) => Flagged(r, p, e)
<1>1. ASSUME OwnDisplacementFlagged, NEW r \in Hosts, NEW p \in Paths, NEW e \in log[r], Displaced(r, p, e)
      PROVE  Flagged(r, p, e)
  BY <1>1 DEF OwnDisplacementFlagged, Displaced, Flagged
<1>2. ASSUME \A r \in Hosts, p \in Paths : \A e \in log[r] : Displaced(r, p, e) => Flagged(r, p, e)
      PROVE  OwnDisplacementFlagged
  BY <1>2 DEF OwnDisplacementFlagged, Displaced, Flagged
<1> QED BY <1>1, <1>2

\* A flag stays: the conflict stays, and so does the event it names.
LEMMA FlagKept ==
    ASSUME LogsSound, LogsSound', ConflictsRecoverable, NEW r \in Hosts, NEW p, NEW e,
           log[r] \subseteq log'[r], conflicts[r] \subseteq conflicts'[r], Flagged(r, p, e)
    PROVE  Flagged(r, p, e)'
<1>1. PICK c \in conflicts[r] : /\ c.type = "same_path_different_remote" /\ c.path = p
                                /\ EventAt(r, c.loser).remote = e.remote
  BY DEF Flagged
<1>2. PICK f \in log[r] : f.at = c.loser
  BY <1>1 DEF ConflictsRecoverable
<1>3. EventAt(r, c.loser)' = EventAt(r, c.loser)
  BY <1>2, EventAtKept
<1> QED BY <1>1, <1>3 DEF Flagged

\* Minting: the new claim is the newest of its host and the row is its own.
LEMMA MintKeeps ==
    ASSUME StoreIInv, NEW r \in Hosts, NEW e \in Mintable, NEW m, Enters(r, e, m),
           e.at[2] = r, e.op = "upsert" => m = "upsert",
           UNCHANGED <<held, conflicts, resolved>>
    PROVE  StoreTypeOK' /\ LogsSound' /\ RowsKnown' /\ ConflictsRecoverable' /\ OwnDisplacementFlagged'
<1>0. StoreTypeOK /\ LogsSound /\ RowsKnown /\ ConflictsRecoverable /\ OwnDisplacementFlagged
  BY DEF StoreIInv
<1>1. /\ log' \in [Hosts -> SUBSET ProjectEvent] /\ LogsSound' /\ RowsKnown' /\ e \notin log[r]
  BY <1>0, EntersKeeps
<1>2. /\ log' = [log EXCEPT ![r] = @ \cup {e}] /\ Persist(r, e, m) /\ m \in {"upsert", "tombstone", "none"}
      /\ m = "upsert" => e.op = "upsert"
      /\ \A s \in Hosts : log[s] \subseteq log'[s]
      /\ log'[r] = log[r] \cup {e} /\ \A s \in Hosts \ {r} : log'[s] = log[s]
  BY <1>0 DEF Enters, StoreTypeOK
<1>3. /\ e.path \in Paths /\ HLC(e) \in Nat /\ HLC(e) = e.at[1] /\ e.at[2] \in Hosts
      /\ e.op = "upsert" \/ e.op = "delete"
      /\ ~(e.op = "upsert" /\ e.op = "delete")
  BY MintableShape
<1>4. /\ ns' \in [Hosts -> [Paths -> NSRow]] /\ git' \in [Hosts -> [Paths -> Remotes \cup {NoRemote}]]
      /\ \A s \in Hosts, p \in Paths : s # r \/ p # e.path => git'[s][p] = git[s][p]
      /\ m = "upsert" => git'[r][e.path] = IF e.remote = NoRemote THEN git[r][e.path] ELSE e.remote
  <2>1. StoreTypeOK /\ Persist(r, e, m) /\ m \in {"upsert", "tombstone", "none"}
    BY <1>0, <1>2
  <2>2. Written(r, e, m)
    BY <2>1, PersistEffect
  <2> QED BY <2>2 DEF Written
<1>5. StoreTypeOK'
  BY <1>0, <1>1, <1>2, <1>4 DEF StoreTypeOK, NSRow
<1>6. ConflictsRecoverable'
  BY <1>0, <1>2, RecoverableGrows
<1>7. ASSUME NEW s \in Hosts, NEW p \in Paths, NEW g \in log'[s], Displaced(s, p, g)'
      PROVE  Flagged(s, p, g)'
  <2>1. CASE s # r \/ p # e.path
    <3>1. {f \in log'[s] : f.path = p} = {f \in log[s] : f.path = p} /\ git'[s][p] = git[s][p]
      BY <2>1, <1>2, <1>4
    <3>2. Displaced(s, p, g) /\ g \in log[s]
      BY <3>1, <1>7 DEF Displaced
    <3>3. Flagged(s, p, g)
      BY <3>2, <1>0, DisplacedFlagged
    <3> QED BY <3>3, <1>0, <1>1, <1>2, FlagKept
  <2>2. CASE s = r /\ p = e.path
    <3>1. e \in log'[r] /\ e.path = p
      BY <1>2, <2>2
    <3>2. e.op = "upsert" /\ e.remote # NoRemote /\ HLC(e) <= HLC(g) /\ g \in log'[r] /\ git'[r][p] # g.remote
      BY <3>1, <2>2, <1>7 DEF Displaced
    <3>3. g = e
      <4>1. CASE g \in log[r]
        <5>1. HLC(g) < HLC(e) /\ HLC(g) \in Nat
          <6>1. g \in Mintable
            BY <4>1, <1>0 DEF LogsSound
          <6>2. HLC(g) \in Nat
            BY <6>1, MintableShape
          <6>3. ~ \E t \in Hosts : e \in log[t]
            BY <1>0, <1>1 DEF LogsSound
          <6> QED BY <6>2, <6>3, <4>1 DEF Enters
        <5> QED BY <5>1, <3>2, <1>3
      <4> QED BY <4>1, <3>2, <1>2
    <3>4. git'[r][p] = e.remote
      BY <3>2, <2>2, <1>4
    <3> QED BY <3>2, <3>3, <3>4
  <2> QED BY <2>1, <2>2
<1>8. OwnDisplacementFlagged'
  BY <1>7 DEF OwnDisplacementFlagged, Displaced, Flagged
<1> QED BY <1>1, <1>5, <1>6, <1>8

\* What applyEventTx does with an event of another log: it enters under the
\* mutation decided, and the conflict decided is recorded.
LEMMA ApplyEnters ==
    ASSUME StoreIInv, NEW r \in Hosts, NEW e \in MintedProjects, NEW dirty \in BOOLEAN,
           ApplyEvent(r, e, dirty)
    PROVE  LET row == LoadRow(ns[r][e.path], git[r][e.path])
               d == Decide(row, e, dirty)
           IN  /\ e \in Mintable /\ e.at[2] # r /\ e \notin log[r]
               /\ Enters(r, e, d.mutation)
               /\ d.conflict = "same_path_different_remote" =>
                     e.op = "upsert" /\ CompetingRemotes(row, e)
               /\ d.conflict = "pending_delete" => e.op = "delete"
               /\ e.op = "upsert" /\ row.status = "active" /\ CompetingRemotes(row, e) =>
                     d.conflict = "same_path_different_remote"
               /\ d.conflict \in {"none", "same_path_different_remote", "pending_delete"}
<1> DEFINE row == LoadRow(ns[r][e.path], git[r][e.path])
           d == Decide(row, e, dirty)
<1>0. StoreTypeOK /\ LogsSound /\ RowsKnown
  BY DEF StoreIInv
<1>1. PICK s \in Hosts : e \in log[s]
  BY DEF MintedProjects
<1>2. e \in Mintable
  BY <1>0, <1>1 DEF LogsSound
<1>3. e \notin log[r] /\ e.at[2] # r
  BY <1>0, <1>1 DEF LogsSound, ApplyEvent
<1>4. /\ e.path \in Paths /\ (e.op = "upsert" \/ e.op = "delete") /\ ~(e.op = "upsert" /\ e.op = "delete")
      /\ HLC(e) \in Nat
  BY <1>2, MintableShape
<1>5. ns[r][e.path] \in NSRow
  BY <1>0, <1>4 DEF StoreTypeOK, NSRow
<1>6. row.status = ns[r][e.path].status
  BY <1>5 DEF LoadRow, DeletedRow, AbsentRow, NSRow
<1>7. /\ d.mutation \in {"upsert", "tombstone", "none"}
      /\ d.mutation = "upsert" => e.op = "upsert"
      /\ d.mutation = "tombstone" => e.op = "delete"
      /\ d.mutation = "none" => row.status # "absent"
      /\ d.conflict = "same_path_different_remote" => e.op = "upsert" /\ CompetingRemotes(row, e)
      /\ d.conflict = "pending_delete" => e.op = "delete"
      /\ e.op = "upsert" /\ row.status = "active" /\ CompetingRemotes(row, e) =>
            d.conflict = "same_path_different_remote"
      /\ d.conflict \in {"none", "same_path_different_remote", "pending_delete"}
  <2> HIDE DEF row
  <2> QED BY <1>4 DEF Decide, DecideUpsert, DecideDelete, Decision
<1>8. /\ log' = [log EXCEPT ![r] = @ \cup {e}]
      /\ Persist(r, e, d.mutation)
  BY DEF ApplyEvent
<1> HIDE DEF d, row
<1>9. Enters(r, e, d.mutation)
  BY <1>1, <1>3, <1>6, <1>7, <1>8 DEF Enters
<1> QED BY <1>2, <1>3, <1>7, <1>9 DEF d, row

\* Applying a peer's event.
LEMMA ApplyKeeps ==
    ASSUME StoreIInv, NEW r \in Hosts, NEW e \in MintedProjects, NEW dirty \in BOOLEAN,
           ApplyEvent(r, e, dirty)
    PROVE  StoreIInv'
<1> DEFINE old == ns[r][e.path]
           row == LoadRow(old, git[r][e.path])
           d == Decide(row, e, dirty)
           m == d.mutation
           added == CASE d.conflict = "same_path_different_remote" -> {ClashDetails(row, e)}
                      [] d.conflict = "pending_delete" -> {PendingDetails(e)}
                      [] OTHER -> {}
<1>0. StoreTypeOK /\ LogsSound /\ RowsKnown /\ ConflictsRecoverable /\ OwnDisplacementFlagged /\ ChoicesKnown
  BY DEF StoreIInv
<1>1. /\ e \in Mintable /\ e.at[2] # r /\ e \notin log[r]
      /\ Enters(r, e, m)
      /\ d.conflict = "same_path_different_remote" => e.op = "upsert" /\ CompetingRemotes(row, e)
      /\ d.conflict = "pending_delete" => e.op = "delete"
      /\ e.op = "upsert" /\ row.status = "active" /\ CompetingRemotes(row, e) =>
            d.conflict = "same_path_different_remote"
      /\ d.conflict \in {"none", "same_path_different_remote", "pending_delete"}
  BY ApplyEnters
<1>2. /\ conflicts' = [conflicts EXCEPT ![r] = @ \cup added]
      /\ held' = IF d.conflict = "pending_delete" THEN [held EXCEPT ![r] = @ \cup {e}] ELSE held
      /\ log' = [log EXCEPT ![r] = @ \cup {e}]
      /\ resolved' = resolved /\ choice' = choice
  BY DEF ApplyEvent
<1>3. /\ e.path \in Paths /\ e.at \in Coord /\ e.at # NoCoord /\ HLC(e) \in Nat /\ HLC(e) = e.at[1]
      /\ e.op = "upsert" \/ e.op = "delete"
      /\ ~(e.op = "upsert" /\ e.op = "delete")
      /\ e.remote \in Remotes \cup {NoRemote}
  BY <1>1, MintableShape
<1>4. old \in NSRow /\ git[r][e.path] \in Remotes \cup {NoRemote} /\ RowKnown(Claims(r, e.path), old, git[r][e.path])
  BY <1>0, <1>3 DEF StoreTypeOK, NSRow, RowsKnown
<1>5. /\ row.status = "active" => /\ old.status = "active" /\ row.src = old.src /\ row.remote = git[r][e.path]
      /\ old.status = "active" => row.status = "active"
  BY <1>4 DEF LoadRow, DeletedRow, AbsentRow, NSRow
<1>6. /\ m = "upsert" => e.op = "upsert" /\ (row.status = "active" => SamePathLess(row.src, e.at))
      /\ m \in {"upsert", "tombstone", "none"}
  <2>1. m \in {"upsert", "tombstone", "none"} /\ (m = "upsert" => e.op = "upsert")
    BY <1>1 DEF Enters
  <2>2. m = "upsert" => (row.status = "active" => SamePathLess(row.src, e.at))
    <3> HIDE DEF row
    <3> QED BY <2>1 DEF Decide, DecideUpsert, Decision
  <2> QED BY <2>1, <2>2
<1> HIDE DEF d, row, m, old
<1>7. log' \in [Hosts -> SUBSET ProjectEvent] /\ LogsSound' /\ RowsKnown'
  BY <1>0, <1>1, EntersKeeps
<1>8. Written(r, e, m)
  BY <1>0, <1>1, PersistEffect DEF Enters
<1>9. /\ \A s \in Hosts : log[s] \subseteq log'[s]
      /\ log'[r] = log[r] \cup {e} /\ \A s \in Hosts \ {r} : log'[s] = log[s]
      /\ conflicts'[r] = conflicts[r] \cup added /\ \A s \in Hosts \ {r} : conflicts'[s] = conflicts[s]
      /\ conflicts \in [Hosts -> SUBSET Conflict] /\ held \in [Hosts -> SUBSET ProjectEvent]
  BY <1>0, <1>2 DEF StoreTypeOK
<1>a. CompetingRemotes(row, e) =>
        \E g \in log[r] : g.op = "upsert" /\ g.path = e.path /\ g.at = row.src /\ g.remote # e.remote
  <2> SUFFICES ASSUME CompetingRemotes(row, e)
               PROVE  \E g \in log[r] : g.op = "upsert" /\ g.path = e.path /\ g.at = row.src /\ g.remote # e.remote
    OBVIOUS
  <2>1. /\ row.status = "active" /\ row.remote # NoRemote /\ e.remote # NoRemote /\ row.remote # e.remote
    BY DEF CompetingRemotes
  <2>2. PICK g \in Claims(r, e.path) : g.op = "upsert" /\ g.at = old.src /\ g.remote \in {git[r][e.path], NoRemote}
    BY <2>1, <1>4, <1>5 DEF RowKnown
  <2> QED BY <2>1, <2>2, <1>5 DEF Claims
<1>b. \A c \in added : c \in Conflict
  <2>1. d.conflict = "same_path_different_remote" => ClashDetails(row, e) \in Conflict
    <3>1. CompetingRemotes(row, e) => row.src \in Coord
      BY <1>4, <1>5 DEF CompetingRemotes, NSRow
    <3> QED BY <3>1, <1>1, <1>3 DEF ClashDetails, Conflict
  <2>2. PendingDetails(e) \in Conflict
    BY <1>3 DEF PendingDetails, Conflict, NoCoord, Coord
  <2> QED BY <2>1, <2>2, <1>1
<1>c. StoreTypeOK'
  <2>1. /\ conflicts' \in [Hosts -> SUBSET Conflict] /\ resolved' \in [Hosts -> SUBSET Conflict]
        /\ \A s \in Hosts : resolved'[s] \subseteq conflicts'[s]
    <3> HIDE DEF added
    <3> QED BY <1>2, <1>9, <1>b, <1>0 DEF StoreTypeOK
  <2>2. held' \in [Hosts -> SUBSET ProjectEvent] /\ \A s \in Hosts : held'[s] \subseteq log'[s]
    <3>1. e \in ProjectEvent
      BY <1>1, MintableShape
    <3> QED BY <3>1, <1>2, <1>9, <1>0 DEF StoreTypeOK
  <2>3. ns' \in [Hosts -> [Paths -> NSRow]] /\ git' \in [Hosts -> [Paths -> Remotes \cup {NoRemote}]]
    BY <1>8 DEF Written
  <2> QED BY <2>1, <2>2, <2>3, <1>7 DEF StoreTypeOK, NSRow
<1>d. ConflictsRecoverable'
  <2>1. ASSUME NEW c \in added, c.type = "same_path_different_remote"
        PROVE  \E f, g \in log'[r] : /\ f.op = "upsert" /\ f.at = c.winner /\ f.path = c.path
                                     /\ g.op = "upsert" /\ g.at = c.loser /\ g.path = c.path
                                     /\ f.remote # g.remote
    <3>1. c = ClashDetails(row, e) /\ CompetingRemotes(row, e)
      BY <2>1, <1>1 DEF PendingDetails
    <3>2. PICK g \in log[r] : g.op = "upsert" /\ g.path = e.path /\ g.at = row.src /\ g.remote # e.remote
      BY <3>1, <1>a
    <3>3. e \in log'[r] /\ g \in log'[r] /\ e.op = "upsert"
      BY <1>1, <1>9, <3>1, <2>1 DEF PendingDetails
    <3>4. c.path = e.path /\ \/ c.winner = e.at /\ c.loser = row.src
                             \/ c.winner = row.src /\ c.loser = e.at
      BY <3>1 DEF ClashDetails
    <3> QED BY <3>2, <3>3, <3>4
  <2>2. \A s \in Hosts : \A c \in conflicts'[s] : c \in conflicts[s] \/ (s = r /\ c \in added)
    BY <1>9
  <2> HIDE DEF added
  <2>3. \A s \in Hosts : \A c \in conflicts'[s] : c \in conflicts[s] \/
               (c.type = "same_path_different_remote" =>
                   \E f, g \in log'[s] : /\ f.op = "upsert" /\ f.at = c.winner /\ f.path = c.path
                                         /\ g.op = "upsert" /\ g.at = c.loser /\ g.path = c.path
                                         /\ f.remote # g.remote)
    BY <2>1, <2>2
  <2> QED BY <2>3, <1>0, <1>9, RecoverableGrows
<1>e. ASSUME NEW s \in Hosts, NEW p \in Paths, NEW x \in log'[s], Displaced(s, p, x)'
      PROVE  Flagged(s, p, x)'
  <2>0. conflicts[s] \subseteq conflicts'[s] /\ log[s] \subseteq log'[s]
    BY <1>9
  <2>1. ASSUME Displaced(s, p, x), x \in log[s] PROVE Flagged(s, p, x)'
    <3>1. Flagged(s, p, x)
      BY <2>1, <1>0, DisplacedFlagged
    <3> QED BY <3>1, <2>0, <1>0, <1>7, FlagKept
  <2>2. CASE s # r \/ p # e.path
    <3>1. {f \in log'[s] : f.path = p} = {f \in log[s] : f.path = p} /\ git'[s][p] = git[s][p]
      BY <2>2, <1>8, <1>9 DEF Written
    <3>2. Displaced(s, p, x) /\ x \in log[s]
      BY <3>1, <1>e DEF Displaced
    <3> QED BY <3>2, <2>1
  <2>3. CASE s = r /\ p = e.path
    <3>1. /\ \A f \in log'[r] : f.path = p => f.op = "upsert" /\ f.remote # NoRemote
          /\ x \in log'[r] /\ x.path = p /\ x.at[2] = r
          /\ \A f \in log'[r] : f.path = p /\ f.at[2] = r => HLC(f) <= HLC(x)
          /\ git'[r][p] # x.remote
      BY <2>3, <1>e DEF Displaced
    <3>2. x \in log[r] /\ e.op = "upsert" /\ e.remote # NoRemote /\ x.remote # NoRemote
      BY <3>1, <2>3, <1>9, <1>1
    <3>3. CASE git[r][p] # x.remote
      <4>1. Displaced(r, p, x)
        BY <3>1, <3>2, <3>3, <1>9 DEF Displaced
      <4> QED BY <4>1, <3>2, <2>1, <2>3
    <3>4. CASE git[r][p] = x.remote
      <4>1. m = "upsert" /\ git'[r][p] = e.remote /\ e.remote # x.remote
        BY <3>1, <3>2, <3>4, <2>3, <1>8, <1>6 DEF Written
      <4>2. old.status = "active"
        <5>1. x \in Claims(r, p) /\ \A f \in Claims(r, p) : f.op = "upsert"
          BY <3>1, <3>2, <1>9 DEF Claims
        <5>2. RowKnown(Claims(r, p), old, git[r][p])
          BY <1>4, <2>3
        <5> QED BY <5>1, <5>2, <1>4 DEF RowKnown, NSRow
      <4>3. row.status = "active" /\ row.remote = x.remote /\ row.src = old.src /\ SamePathLess(row.src, e.at)
        BY <4>2, <1>5, <1>6, <4>1, <3>4, <2>3
      <4>4. CompetingRemotes(row, e)
        BY <4>1, <4>3, <3>2 DEF CompetingRemotes
      <4>5. ClashDetails(row, e) \in conflicts'[r]
        BY <4>4, <4>3, <3>2, <1>1, <1>9
      <4>6. /\ ClashDetails(row, e).type = "same_path_different_remote"
            /\ ClashDetails(row, e).path = p /\ ClashDetails(row, e).loser = row.src
        BY <4>3, <2>3 DEF ClashDetails
      <4>7. PICK g \in Claims(r, p) : g.at = old.src /\ g.remote \in {git[r][p], NoRemote}
        BY <4>2, <1>4, <2>3 DEF RowKnown
      <4>8. g \in log'[r] /\ g.remote = x.remote
        BY <4>7, <3>1, <3>4, <1>9 DEF Claims
      <4>9. (CHOOSE f \in log'[r] : f.at = row.src) = g
        <5>1. g.at = row.src
          BY <4>7, <4>3
        <5>2. \A f \in log'[r] : f.at = g.at => f = g
          BY <4>8, <1>7 DEF LogsSound
        <5> QED BY <5>1, <5>2, <4>8
      <4>a. \E c \in conflicts'[r] : /\ c.type = "same_path_different_remote" /\ c.path = p
                                     /\ (CHOOSE f \in log'[r] : f.at = c.loser).remote = x.remote
        BY <4>5, <4>6, <4>8, <4>9
      <4> QED BY <4>a, <2>3 DEF Flagged, EventAt
    <3> QED BY <3>3, <3>4
  <2> QED BY <2>2, <2>3
<1>f. OwnDisplacementFlagged'
  BY <1>e DEF OwnDisplacementFlagged, Displaced, Flagged
<1>g. ChoicesKnown'
  BY <1>0, <1>2, <1>9 DEF ChoicesKnown
<1> QED BY <1>7, <1>c, <1>d, <1>f, <1>g DEF StoreIInv

\* A fresh upsert is an event that enters, whatever its path and remote.
LEMMA UpsertEnters ==
    ASSUME StoreIInv, NEW r \in Hosts, NEW h \in FreshStamps(r), NEW p \in Paths,
           NEW remote \in Remotes \cup {NoRemote}, EmitUpsert(r, h, p, remote)
    PROVE  /\ Event("upsert", r, h, p, remote) \in Mintable
           /\ Enters(r, Event("upsert", r, h, p, remote), "upsert")
<1> DEFINE e == Event("upsert", r, h, p, remote)
<1>1. /\ e.at = <<h, r, 1>> /\ e.op = "upsert" /\ h \in 1..MaxHLC /\ \A f \in log[r] : HLC(f) < h
      /\ HLC(e) = h /\ e.at[2] = r
  BY DEF Event, FreshStamps, HLC
<1>2. e \in Mintable
  BY DEF Event, Mintable, FreshStamps
<1>3. /\ log' = [log EXCEPT ![r] = @ \cup {e}] /\ Persist(r, e, "upsert")
  BY DEF EmitUpsert
<1> HIDE DEF e
<1>4. Enters(r, e, "upsert")
  BY <1>1, <1>3 DEF Enters
<1> QED BY <1>2, <1>4 DEF e

\* So is a fresh delete.
LEMMA DeleteEnters ==
    ASSUME StoreIInv, NEW r \in Hosts, NEW h \in FreshStamps(r), NEW p \in Paths, EmitDelete(r, h, p)
    PROVE  /\ Event("delete", r, h, p, NoRemote) \in Mintable
           /\ Enters(r, Event("delete", r, h, p, NoRemote), "tombstone")
<1> DEFINE e == Event("delete", r, h, p, NoRemote)
<1>1. /\ e.at = <<h, r, 1>> /\ e.op = "delete" /\ h \in 1..MaxHLC /\ \A f \in log[r] : HLC(f) < h
      /\ HLC(e) = h /\ e.at[2] = r
  BY DEF Event, FreshStamps, HLC
<1>2. e \in Mintable
  BY DEF Event, Mintable, FreshStamps
<1>3. /\ log' = [log EXCEPT ![r] = @ \cup {e}] /\ Persist(r, e, "tombstone")
  BY DEF EmitDelete
<1> HIDE DEF e
<1>4. Enters(r, e, "tombstone")
  BY <1>1, <1>3 DEF Enters
<1> QED BY <1>2, <1>4 DEF e

LEMMA UpsertKeeps ==
    ASSUME StoreIInv, NEW r \in Hosts, NEW h \in FreshStamps(r), NEW p \in Paths,
           NEW remote \in Remotes \cup {NoRemote}, EmitUpsert(r, h, p, remote),
           UNCHANGED <<held, conflicts, resolved>>, ChoicesKnown'
    PROVE  StoreIInv'
<1> DEFINE e == Event("upsert", r, h, p, remote)
<1>1. e \in Mintable /\ Enters(r, e, "upsert")
  BY UpsertEnters
<1>2. e.at[2] = r /\ e.op = "upsert"
  BY DEF Event
<1> HIDE DEF e
<1>3. StoreTypeOK' /\ LogsSound' /\ RowsKnown' /\ ConflictsRecoverable' /\ OwnDisplacementFlagged'
  BY <1>1, <1>2, MintKeeps
<1> QED BY <1>3 DEF StoreIInv

LEMMA DeleteKeeps ==
    ASSUME StoreIInv, NEW r \in Hosts, NEW h \in FreshStamps(r), NEW p \in Paths, EmitDelete(r, h, p),
           UNCHANGED <<held, conflicts, resolved>>, ChoicesKnown'
    PROVE  StoreIInv'
<1> DEFINE e == Event("delete", r, h, p, NoRemote)
<1>1. e \in Mintable /\ Enters(r, e, "tombstone")
  BY DeleteEnters
<1>2. e.at[2] = r /\ e.op = "delete"
  BY DEF Event
<1> HIDE DEF e
<1>3. StoreTypeOK' /\ LogsSound' /\ RowsKnown' /\ ConflictsRecoverable' /\ OwnDisplacementFlagged'
  BY <1>1, <1>2, MintKeeps
<1> QED BY <1>3 DEF StoreIInv

\* A step that touches neither logs nor tables nor the list of conflicts.
LEMMA QuietKeeps ==
    ASSUME StoreIInv, UNCHANGED <<log, ns, git, held, conflicts>>,
           resolved' \in [Hosts -> SUBSET Conflict], \A r \in Hosts : resolved'[r] \subseteq conflicts[r],
           ChoicesKnown'
    PROVE  StoreIInv'
<1>0. StoreTypeOK /\ LogsSound /\ RowsKnown /\ ConflictsRecoverable /\ OwnDisplacementFlagged
  BY DEF StoreIInv
<1>1. StoreTypeOK'
  BY <1>0 DEF StoreTypeOK
<1>2. LogsSound' /\ RowsKnown'
  <2>1. LogsSound'
    BY <1>0 DEF LogsSound
  <2>2. \A r \in Hosts, p \in Paths : Claims(r, p)' = Claims(r, p)
    BY DEF Claims
  <2>3. RowsKnown'
    BY <1>0, <2>2 DEF RowsKnown
  <2> QED BY <2>1, <2>3
<1>3. ConflictsRecoverable'
  BY <1>0 DEF ConflictsRecoverable
<1>4. OwnDisplacementFlagged'
  BY <1>0 DEF OwnDisplacementFlagged, EventAt
<1> QED BY <1>1, <1>2, <1>3, <1>4 DEF StoreIInv

\* What a resolution reads is a row of the store: the remote it will write is one
\* of the two that clashed, or the one in place.
LEMMA ReadChoice ==
    ASSUME StoreIInv, NEW r \in Hosts, NEW c \in conflicts[r], NEW keep \in {"local", "remote", "both"},
           ReadResolution(r, c, keep)
    PROVE  choice' \in [Hosts -> Choice] /\ choice'[r].conflict = c
           /\ \A s \in Hosts \ {r} : choice'[s] = choice[s]
<1>0. StoreTypeOK /\ LogsSound /\ ConflictsRecoverable /\ ChoicesKnown
  BY DEF StoreIInv
<1>1. c \in Conflict /\ c.path \in Paths
  BY <1>0 DEF StoreTypeOK, Conflict
<1>2. git[r][c.path] \in Remotes \cup {NoRemote}
  BY <1>0, <1>1 DEF StoreTypeOK
<1>3. c.type = "same_path_different_remote" => OtherVariant(r, c) \in Remotes \cup {NoRemote}
  <2> SUFFICES ASSUME c.type = "same_path_different_remote"
               PROVE  OtherVariant(r, c) \in Remotes \cup {NoRemote}
    OBVIOUS
  <2>1. PICK e \in log[r], f \in log[r] : e.at = c.winner /\ f.at = c.loser
    BY <1>0 DEF ConflictsRecoverable
  <2>2. EventAt(r, c.winner) = e /\ EventAt(r, c.loser) = f
    BY <2>1, <1>0, EventAtIs
  <2>3. e.remote \in Remotes \cup {NoRemote} /\ f.remote \in Remotes \cup {NoRemote}
    BY <1>0, MintableShape DEF LogsSound
  <2> QED BY <2>2, <2>3 DEF OtherVariant
<1>4. Sibling[c.path] \in Paths
  BY <1>1, StoreAssumption
<1>5. \E v \in Choice : choice' = [choice EXCEPT ![r] = v] /\ v.conflict = c
  <2>1. CASE ReadSamePath(r, c, keep)
    <3> DEFINE v == [act |-> IF ns[r][c.path].status = "active" THEN "upsert" ELSE "close",
                     path |-> IF keep = "both" THEN Sibling[c.path] ELSE c.path,
                     remote |-> IF keep = "local" THEN git[r][c.path] ELSE OtherVariant(r, c),
                     conflict |-> c]
    <3>1. choice' = [choice EXCEPT ![r] = v] /\ c.type = "same_path_different_remote" /\ v.conflict = c
      BY <2>1 DEF ReadSamePath
    <3>2. v \in Choice
      BY <3>1, <1>1, <1>2, <1>3, <1>4 DEF Choice
    <3> QED BY <3>1, <3>2
  <2>2. CASE ReadPendingDelete(r, c, keep)
    <3> DEFINE v == [act |-> IF keep = "remote" THEN "delete"
                             ELSE IF ns[r][c.path].status = "active" THEN "upsert" ELSE "close",
                     path |-> c.path, remote |-> git[r][c.path], conflict |-> c]
    <3>1. choice' = [choice EXCEPT ![r] = v] /\ v.conflict = c
      BY <2>2 DEF ReadPendingDelete
    <3>2. v \in Choice
      BY <3>1, <1>1, <1>2 DEF Choice
    <3> QED BY <3>1, <3>2
  <2> QED BY <2>1, <2>2 DEF ReadResolution
<1> QED BY <1>5, <1>0 DEF ChoicesKnown

\* One step of one host.
LEMMA StoreStep == StoreIInv /\ [StoreNext]_storevars => StoreIInv'
<1> SUFFICES ASSUME StoreIInv, [StoreNext]_storevars PROVE StoreIInv'
  OBVIOUS
<1>0. StoreTypeOK /\ ChoicesKnown
  BY DEF StoreIInv
<1>n. /\ NoChoice \in Choice /\ NoChoice.act = "none"
      /\ \A v \in Choice : v # NoChoice => /\ v.path \in Paths /\ v.remote \in Remotes \cup {NoRemote}
                                           /\ v.conflict \in Conflict
                                           /\ [v EXCEPT !.act = "close"] \in Choice
                                           /\ [v EXCEPT !.act = "close"].conflict = v.conflict
  BY DEF NoChoice, Choice
<1>1. ASSUME NEW r \in Hosts, NEW p \in Paths, NEW remote \in Kinds, AddProject(r, p, remote)
      PROVE  StoreIInv'
  <2>1. PICK h \in FreshStamps(r) : EmitUpsert(r, h, p, remote)
    BY <1>1 DEF AddProject
  <2>2. UNCHANGED <<held, conflicts, resolved>> /\ ChoicesKnown'
    BY <1>1, <1>0 DEF AddProject, ChoicesKnown
  <2> QED BY <2>1, <2>2, StoreAssumption, UpsertKeeps
<1>2. ASSUME NEW r \in Hosts, NEW p \in Paths, RemoveProject(r, p) PROVE StoreIInv'
  <2>1. PICK h \in FreshStamps(r) : EmitDelete(r, h, p)
    BY <1>2 DEF RemoveProject
  <2>2. UNCHANGED <<held, conflicts, resolved>> /\ ChoicesKnown'
    BY <1>2, <1>0 DEF RemoveProject, ChoicesKnown
  <2> QED BY <2>1, <2>2, DeleteKeeps
<1>3. ASSUME NEW r \in Hosts, NEW e \in MintedProjects, NEW dirty \in BOOLEAN, ApplyEvent(r, e, dirty)
      PROVE  StoreIInv'
  BY <1>3, ApplyKeeps
<1>4. ASSUME NEW r \in Hosts, NEW c \in conflicts[r], NEW keep \in {"local", "remote", "both"},
             ReadResolution(r, c, keep)
      PROVE  StoreIInv'
  <2>1. UNCHANGED <<log, ns, git, held, conflicts, resolved>>
    BY <1>4 DEF ReadResolution
  <2>2. /\ choice' \in [Hosts -> Choice] /\ choice'[r].conflict = c
        /\ \A s \in Hosts \ {r} : choice'[s] = choice[s]
    BY <1>4, ReadChoice
  <2>3. ChoicesKnown'
    BY <2>1, <2>2, <1>0 DEF ChoicesKnown
  <2> QED BY <2>1, <2>3, <1>0, QuietKeeps DEF StoreTypeOK
<1>5. ASSUME NEW r \in Hosts, EnactResolution(r) PROVE StoreIInv'
  <2>1. UNCHANGED <<held, conflicts, resolved>> /\ choice[r] # NoChoice
    BY <1>5 DEF EnactResolution
  <2>2. choice[r] \in Choice
    BY <1>0 DEF ChoicesKnown
  <2>3. choice' = [choice EXCEPT ![r] = [choice[r] EXCEPT !.act = "close"]]
    BY <1>5 DEF EnactResolution
  <2>4. ChoicesKnown'
    BY <2>1, <2>2, <2>3, <1>0, <1>n DEF ChoicesKnown
  <2>5. CASE \E h \in FreshStamps(r) : EmitUpsert(r, h, choice[r].path, choice[r].remote)
    BY <2>5, <2>1, <2>2, <2>4, <1>n, UpsertKeeps
  <2>6. CASE \E h \in FreshStamps(r) : EmitDelete(r, h, choice[r].path)
    BY <2>6, <2>1, <2>2, <2>4, <1>n, DeleteKeeps
  <2> QED BY <1>5, <2>5, <2>6 DEF EnactResolution
<1>6. ASSUME NEW r \in Hosts, CloseConflict(r) PROVE StoreIInv'
  <2>1. /\ UNCHANGED <<log, ns, git, held, conflicts>> /\ choice[r] # NoChoice
        /\ resolved' = [resolved EXCEPT ![r] = @ \cup {choice[r].conflict}]
        /\ choice' = [choice EXCEPT ![r] = NoChoice]
    BY <1>6 DEF CloseConflict
  <2>2. choice[r].conflict \in conflicts[r] /\ choice[r].conflict \in Conflict
    BY <2>1, <1>0, <1>n DEF ChoicesKnown
  <2>3. ChoicesKnown'
    BY <2>1, <1>0, <1>n DEF ChoicesKnown
  <2>4. resolved' \in [Hosts -> SUBSET Conflict] /\ \A s \in Hosts : resolved'[s] \subseteq conflicts[s]
    BY <2>1, <2>2, <1>0 DEF StoreTypeOK
  <2> QED BY <2>1, <2>3, <2>4, QuietKeeps
<1>7. ASSUME NEW r \in Hosts, AbandonResolution(r) PROVE StoreIInv'
  <2>1. /\ UNCHANGED <<log, ns, git, held, conflicts, resolved>>
        /\ choice' = [choice EXCEPT ![r] = NoChoice]
    BY <1>7 DEF AbandonResolution
  <2>3. ChoicesKnown'
    BY <2>1, <1>0, <1>n DEF ChoicesKnown
  <2> QED BY <2>1, <2>3, <1>0, QuietKeeps DEF StoreTypeOK
<1>8. ASSUME NEW r \in Hosts, NEW s \in Hosts, NEW c \in conflicts[r], ApplyConflictResolved(r, s, c)
      PROVE  StoreIInv'
  <2>1. /\ UNCHANGED <<log, ns, git, held, conflicts, choice>>
        /\ resolved' = [resolved EXCEPT ![r] = @ \cup {c}]
    BY <1>8 DEF ApplyConflictResolved
  <2>3. ChoicesKnown'
    BY <2>1, <1>0 DEF ChoicesKnown
  <2>4. resolved' \in [Hosts -> SUBSET Conflict] /\ \A t \in Hosts : resolved'[t] \subseteq conflicts[t]
    BY <2>1, <1>0 DEF StoreTypeOK
  <2> QED BY <2>1, <2>3, <2>4, QuietKeeps
<1>9. CASE UNCHANGED storevars
  <2>1. UNCHANGED <<log, ns, git, held, conflicts, resolved, choice>>
    BY <1>9 DEF storevars
  <2>3. ChoicesKnown'
    BY <2>1, <1>0 DEF ChoicesKnown
  <2> QED BY <2>1, <2>3, <1>0, QuietKeeps DEF StoreTypeOK
<1> QED BY <1>1, <1>2, <1>3, <1>4, <1>5, <1>6, <1>7, <1>8, <1>9 DEF StoreNext

\* An empty store.
LEMMA StoreInitially == StoreInit => StoreIInv
<1> SUFFICES ASSUME StoreInit PROVE StoreIInv
  OBVIOUS
<1>1. NullRow \in NSRow /\ NullRow.status = "absent"
  BY DEF NullRow, NSRow, NoCoord, Coord
<1>2. StoreTypeOK
  BY <1>1 DEF StoreInit, StoreTypeOK, NSRow
<1>3. LogsSound /\ ConflictsRecoverable /\ OwnDisplacementFlagged
  BY DEF StoreInit, LogsSound, ConflictsRecoverable, OwnDisplacementFlagged
<1>4. RowsKnown
  BY <1>1 DEF StoreInit, RowsKnown, RowKnown, Claims
<1>5. ChoicesKnown
  BY DEF StoreInit, ChoicesKnown, Choice
<1> QED BY <1>2, <1>3, <1>4, <1>5 DEF StoreIInv

\* The invariant of the store holds in every reachable state: whatever the
\* commands, the deliveries and the crashes between a resolution's transactions.
THEOREM StoreInvariant == StoreSpec => []StoreIInv
<1>1. StoreInit => StoreIInv
  BY StoreInitially
<1>2. StoreIInv /\ [StoreNext]_storevars => StoreIInv'
  BY StoreStep
<1> QED BY <1>1, <1>2, PTL DEF StoreSpec

\* The composed specification runs each part by its own specification.
LEMMA PartsRun == NamespaceSpec => ClockSpec /\ Spec /\ StoreSpec
<1>1. NamespaceInit => ClockInit /\ Init /\ StoreInit
  BY DEF NamespaceInit
<1>2. [NamespaceNext]_namespacevars => [ClockNext]_clockvars /\ [Next]_vars /\ [StoreNext]_storevars
  <2>1. CASE NamespaceNext
    BY <2>1 DEF NamespaceNext
  <2>2. CASE UNCHANGED namespacevars
    BY <2>2 DEF namespacevars
  <2> QED BY <2>1, <2>2
<1> QED BY <1>1, <1>2, PTL DEF NamespaceSpec, ClockSpec, Spec, StoreSpec

\* The types of all three parts, streams stamped in order and rows that are the
\* latest accepted event (advanceHLC, Decide and Apply, applyEventTx).
THEOREM NamespaceSound == NamespaceSpec => []NamespaceInv
<1>1. ClockIInv /\ IInv /\ StoreIInv => NamespaceInv
  BY DEF ClockIInv, IInv, StoreIInv, NamespaceInv
<1> QED BY <1>1, PartsRun, ClockInvariant, FoldInvariant, StoreInvariant, PTL

\* No variant of a project is lost unseen: both sides of a recorded clash can be
\* restored, and a device whose own claim lost has the clash on record
\* (reconcileSamePath, conflict_resolve.go), for any number of devices.
THEOREM NothingDisplacedUnseen == NamespaceSpec => []ConflictsKept
<1>1. StoreIInv => ConflictsKept
  BY DEF StoreIInv, ConflictsKept
<1> QED BY <1>1, PartsRun, StoreInvariant, PTL

-----------------------------------------------------------------------------
(* The store implements the fold.  Its mutations differ from those of Apply *)
(* in one place: tombstonePath stores the stamp of the delete it applies,   *)
(* where the projection keeps the highest.  A step that lowers a tombstone  *)
(* is the one departure; every other step of the store is a delivery of the *)
(* fold, or changes nothing the fold sees.                                  *)

LowersTombstone ==
    \E r \in Hosts, p \in Paths :
        /\ ns[r][p].status = "deleted" /\ ns'[r][p].status = "deleted"
        /\ ns'[r][p].tombstone < ns[r][p].tombstone

\* Where every project has a remote, a resolution writes one, too.
RemotesNamed ==
    /\ \A r \in Hosts : \A e \in log[r] : e.op = "upsert" => e.remote # NoRemote
    /\ \A r \in Hosts : choice[r].act = "upsert" => choice[r].remote # NoRemote

\* Loading the rows back gives what Apply computes.
LEMMA LoadedApplied ==
    ASSUME StoreIInv, NEW r \in Hosts, NEW e \in Mintable, NEW m, Enters(r, e, m),
           e.op = "upsert" => e.remote # NoRemote, ~LowersTombstone
    PROVE  LoadRow(ns'[r][e.path], git'[r][e.path])
             = ApplyMutation(LoadRow(ns[r][e.path], git[r][e.path]), e, m)
<1> DEFINE old == ns[r][e.path]
           new == ns'[r][e.path]
           row == LoadRow(old, git[r][e.path])
<1>1. e.path \in Paths /\ HLC(e) \in Nat
  BY MintableShape
<1>2. old \in NSRow
  BY <1>1 DEF StoreIInv, StoreTypeOK, NSRow
<1>3. Written(r, e, m) /\ m \in {"upsert", "tombstone", "none"} /\ (m = "upsert" => e.op = "upsert")
  BY PersistEffect DEF Enters, StoreIInv
<1>4. ~(old.status = "deleted" /\ new.status = "deleted" /\ new.tombstone < old.tombstone)
  BY <1>1 DEF LowersTombstone
<1>5. CASE m = "upsert"
  <2>1. /\ new = [status |-> "active", tombstone |-> 0, src |-> e.at] /\ git'[r][e.path] = e.remote
    BY <1>3, <1>5 DEF Written
  <2> QED BY <2>1, <1>5 DEF LoadRow, ApplyMutation, ActiveRow
<1>6. CASE m = "tombstone"
  <2>1. /\ new = [status |-> "deleted", tombstone |-> HLC(e), src |-> old.src]
    BY <1>3, <1>6 DEF Written
  <2>2. LoadRow(new, git'[r][e.path]) = DeletedRow(HLC(e))
    BY <2>1 DEF LoadRow
  <2>3. row.status = "deleted" => old.status = "deleted" /\ row.tombstone = old.tombstone
    BY <1>2 DEF LoadRow, DeletedRow, AbsentRow, NSRow
  <2>4. ~(row.status = "deleted" /\ row.tombstone > HLC(e))
    BY <2>1, <2>3, <1>1, <1>2, <1>4 DEF NSRow
  <2> HIDE DEF row
  <2>5. ApplyMutation(row, e, m) = DeletedRow(HLC(e))
    BY <2>4, <1>6 DEF ApplyMutation
  <2> QED BY <2>2, <2>5 DEF row
<1>7. CASE m = "none"
  <2>1. new = old /\ git' = git
    BY <1>3, <1>7 DEF Written
  <2> QED BY <2>1, <1>7 DEF ApplyMutation
<1> QED BY <1>3, <1>5, <1>6, <1>7

\* The fold of the instance decides and applies by the same definitions.
LEMMA SameDecide ==
    ASSUME NEW row, NEW e, NEW dirty, NEW m
    PROVE  /\ Fold!Decide(row, e, dirty) = Decide(row, e, dirty)
           /\ Fold!ApplyMutation(row, e, m) = ApplyMutation(row, e, m)
<1>1. Fold!DecideUpsert(row, e) = DecideUpsert(row, e)
  BY DEF Fold!DecideUpsert, DecideUpsert, Fold!Decision, Decision, Fold!CompetingRemotes, CompetingRemotes,
         Fold!SamePathLess, SamePathLess, Fold!HLC, HLC
<1>2. Fold!DecideDelete(row, e, dirty) = DecideDelete(row, e, dirty)
  BY DEF Fold!DecideDelete, DecideDelete, Fold!Decision, Decision, Fold!HLC, HLC
<1>3. Fold!ApplyMutation(row, e, m) = ApplyMutation(row, e, m)
  BY DEF Fold!ApplyMutation, ApplyMutation, Fold!ActiveRow, ActiveRow, Fold!DeletedRow, DeletedRow,
         Fold!HLC, HLC, Fold!NoCoord, NoCoord
<1> QED BY <1>1, <1>2, <1>3 DEF Fold!Decide, Decide

LEMMA SameCardinality ==
    ASSUME NEW S
    PROVE  Fold!Cardinality(S) = Cardinality(S)
  BY DEF Fold!Cardinality, Cardinality

\* An event that enters is a delivery of the fold when the mutation is the one
\* Decide takes and a held-back delete is remembered.
LEMMA EntersDelivers ==
    ASSUME StoreIInv, NEW r \in Hosts, NEW e \in Mintable, NEW dirty \in BOOLEAN, NEW d,
           d = Decide(LoadRow(ns[r][e.path], git[r][e.path]), e, dirty),
           Enters(r, e, d.mutation), e.op = "upsert" => e.remote # NoRemote,
           held' = IF d.conflict = "pending_delete" THEN [held EXCEPT ![r] = @ \cup {e}] ELSE held,
           e \in MintedProjects \/ Cardinality(MintedProjects) < MaxMinted,
           ~LowersTombstone
    PROVE  Fold!Next
<1> DEFINE P == [s \in Hosts |-> Projection(s)]
           Q == [s \in Hosts |-> [p \in Paths |-> LoadRow(ns'[s][p], git'[s][p])]]
           row == LoadRow(ns[r][e.path], git[r][e.path])
<1>0. StoreTypeOK /\ LogsSound /\ RowsKnown /\ e.path \in Paths
  BY MintableShape DEF StoreIInv
<1>1. /\ e \notin log[r] /\ \A f \in MintedProjects : f.at = e.at => f = e
  BY <1>0, EntersKeeps DEF MintedProjects
<1>2. log' = [log EXCEPT ![r] = @ \cup {e}]
  BY DEF Enters
<1>3. Q[r][e.path] = ApplyMutation(row, e, d.mutation)
  BY <1>0, LoadedApplied
<1>4. P[r][e.path] = row /\ P[r] \in [Paths -> {LoadRow(ns[r][p], git[r][p]) : p \in Paths}]
  BY <1>0 DEF Projection
<1>5. Written(r, e, d.mutation)
  BY <1>0, PersistEffect DEF Enters
<1>6. Q = [P EXCEPT ![r][e.path] = ApplyMutation(@, e, d.mutation)]
  <2> DEFINE R == [P EXCEPT ![r] = [P[r] EXCEPT ![e.path] = ApplyMutation(row, e, d.mutation)]]
  <2>1. ASSUME NEW s \in Hosts PROVE Q[s] = R[s]
    <3>1. CASE s # r
      <4>1. \A p \in Paths : ns'[s][p] = ns[s][p] /\ git'[s][p] = git[s][p]
        BY <1>5, <3>1 DEF Written
      <4>2. Q[s] = P[s]
        BY <4>1 DEF Projection
      <4> QED BY <4>2, <3>1
    <3>2. CASE s = r
      <4>1. \A p \in Paths \ {e.path} : ns'[r][p] = ns[r][p] /\ git'[r][p] = git[r][p]
        BY <1>5 DEF Written
      <4>2. \A p \in Paths \ {e.path} : Q[r][p] = P[r][p]
        BY <4>1 DEF Projection
      <4>3. R[r] = [P[r] EXCEPT ![e.path] = ApplyMutation(row, e, d.mutation)]
        OBVIOUS
      <4>4. P[r] = [p \in Paths |-> P[r][p]] /\ Q[r] = [p \in Paths |-> Q[r][p]]
        BY DEF Projection
      <4> HIDE DEF P, Q, row
      <4>5. \A p \in Paths : Q[r][p] = [P[r] EXCEPT ![e.path] = ApplyMutation(row, e, d.mutation)][p]
        BY <4>2, <4>4, <1>3
      <4>6. Q[r] = [P[r] EXCEPT ![e.path] = ApplyMutation(row, e, d.mutation)]
        BY <4>4, <4>5
      <4> QED BY <4>3, <4>6, <3>2
    <3> QED BY <3>1, <3>2
  <2>2. Q = R
    BY <2>1
  <2>3. R = [P EXCEPT ![r][e.path] = ApplyMutation(@, e, d.mutation)]
    BY <1>4
  <2> QED BY <2>2, <2>3
<1>7. Fold!Minted = MintedProjects
  BY DEF Fold!Minted, MintedProjects
<1>8. [s \in Hosts |-> Projection(s)]' = Q
  BY DEF Projection
<1>9. Fold!Deliver(r, e, dirty)
  <2>1. Fold!Decide(row, e, dirty) = d
    BY SameDecide
  <2>2. Fold!ApplyMutation(row, e, d.mutation) = ApplyMutation(row, e, d.mutation)
    BY SameDecide
  <2>3. Q = [P EXCEPT ![r][e.path] = Fold!ApplyMutation(@, e, d.mutation)]
    <3>1. Q = [P EXCEPT ![r][e.path] = ApplyMutation(row, e, d.mutation)]
      BY <1>4, <1>6
    <3> QED BY <3>1, <2>2, <1>4
  <2> HIDE DEF P, Q, row
  <2>4. /\ e \notin log[r]
        /\ log' = [log EXCEPT ![r] = @ \cup {e}]
        /\ \A f \in Fold!Minted : f.at = e.at => f = e
        /\ e \in Fold!Minted \/ Fold!Cardinality(Fold!Minted) < MaxMinted
    BY <1>1, <1>2, <1>7, SameCardinality
  <2>5. /\ Q = [P EXCEPT ![r][e.path] = Fold!ApplyMutation(@, e, Fold!Decide(P[r][e.path], e, dirty).mutation)]
        /\ held' = IF Fold!Decide(P[r][e.path], e, dirty).conflict = "pending_delete"
                   THEN [held EXCEPT ![r] = @ \cup {e}] ELSE held
    BY <1>4, <2>1, <2>3
  <2> QED BY <2>4, <2>5, <1>8 DEF Fold!Deliver, P
<1> QED BY <1>9 DEF Fold!Next

\* A fresh event is above every row, so a command that does not ask Decide writes
\* what Decide would have.
LEMMA FreshDecided ==
    ASSUME StoreIInv, NEW r \in Hosts, NEW e \in Mintable, \A f \in log[r] : HLC(f) < HLC(e)
    PROVE  LET d == Decide(LoadRow(ns[r][e.path], git[r][e.path]), e, FALSE)
           IN  /\ d.mutation = IF e.op = "upsert" THEN "upsert" ELSE "tombstone"
               /\ d.conflict # "pending_delete"
<1> DEFINE old == ns[r][e.path]
           row == LoadRow(old, git[r][e.path])
<1>0. e.path \in Paths /\ HLC(e) \in Nat /\ HLC(e) = e.at[1]
  BY MintableShape
<1>1. old \in NSRow /\ RowKnown(Claims(r, e.path), old, git[r][e.path])
  BY <1>0 DEF StoreIInv, StoreTypeOK, RowsKnown, NSRow
<1>2. row.status = "active" => row.src[1] < HLC(e) /\ SamePathLess(row.src, e.at)
  <2> SUFFICES ASSUME row.status = "active" PROVE row.src[1] < HLC(e) /\ SamePathLess(row.src, e.at)
    OBVIOUS
  <2>1. old.status = "active" /\ row.src = old.src
    BY <1>1 DEF LoadRow, DeletedRow, AbsentRow, NSRow
  <2>2. PICK g \in log[r] : g.at = old.src
    BY <2>1, <1>1 DEF RowKnown, Claims
  <2>3. HLC(g) < HLC(e) /\ HLC(g) = g.at[1]
    BY DEF HLC
  <2> QED BY <2>1, <2>2, <2>3, <1>0 DEF SamePathLess
<1>3. row.status = "deleted" => ~(HLC(e) <= row.tombstone)
  <2> SUFFICES ASSUME row.status = "deleted" PROVE ~(HLC(e) <= row.tombstone)
    OBVIOUS
  <2>1. old.status = "deleted" /\ row.tombstone = old.tombstone
    BY <1>1 DEF LoadRow, DeletedRow, AbsentRow, NSRow
  <2>2. PICK g \in log[r] : HLC(g) = old.tombstone
    BY <2>1, <1>1 DEF RowKnown, Claims
  <2> QED BY <2>1, <2>2, <1>0, <1>1 DEF NSRow
<1>4. row.status = "active" => row.src[1] \in Nat
  BY <1>1 DEF LoadRow, DeletedRow, AbsentRow, NSRow, Coord
<1> HIDE DEF row
<1>5. row.status = "active" => ~(row.src[1] > HLC(e))
  BY <1>0, <1>2, <1>4
<1>6. LET d == Decide(row, e, FALSE)
      IN  /\ d.mutation = IF e.op = "upsert" THEN "upsert" ELSE "tombstone"
          /\ d.conflict # "pending_delete"
  BY <1>2, <1>3, <1>5 DEF Decide, DecideUpsert, DecideDelete, Decision
<1> QED BY <1>6 DEF row

LEMMA RemotesStay ==
    ASSUME Kinds \subseteq Remotes, StoreIInv, RemotesNamed, [StoreNext]_storevars
    PROVE  RemotesNamed'
<1>0. StoreTypeOK /\ LogsSound /\ RowsKnown /\ ConflictsRecoverable /\ ChoicesKnown
  BY DEF StoreIInv
<1>n. NoChoice.act = "none" /\ NoRemote \notin Remotes
  BY DecideAssumption DEF NoChoice
<1>u. \A e : e.op = "delete" => e.op # "upsert"
  OBVIOUS
\* An event with a remote, or a delete, enters and the choice is not a new upsert.
<1>1. ASSUME NEW r \in Hosts, NEW e, log' = [log EXCEPT ![r] = @ \cup {e}],
             e.op = "upsert" => e.remote # NoRemote,
             \A s \in Hosts : choice'[s] = choice[s] \/ choice'[s].act # "upsert"
      PROVE  RemotesNamed'
  <2>1. \A s \in Hosts : \A f \in log'[s] : f \in log[s] \/ f = e
    BY <1>1, <1>0 DEF StoreTypeOK
  <2> QED BY <2>1, <1>1 DEF RemotesNamed
\* No event enters.
<1>2. ASSUME log' = log, \A s \in Hosts : choice'[s].act = "upsert" => choice'[s].remote # NoRemote
      PROVE  RemotesNamed'
  BY <1>2 DEF RemotesNamed
<1>3. ASSUME NEW r \in Hosts, NEW p \in Paths, NEW remote \in Kinds, AddProject(r, p, remote)
      PROVE  RemotesNamed'
  <2>1. PICK h \in FreshStamps(r) : EmitUpsert(r, h, p, remote)
    BY <1>3 DEF AddProject
  <2>2. log' = [log EXCEPT ![r] = @ \cup {Event("upsert", r, h, p, remote)}] /\ choice' = choice
    BY <2>1, <1>3 DEF EmitUpsert, AddProject
  <2>3. Event("upsert", r, h, p, remote).remote # NoRemote
    BY <1>n DEF Event
  <2> QED BY <2>2, <2>3, <1>1
<1>4. ASSUME NEW r \in Hosts, NEW p \in Paths, RemoveProject(r, p) PROVE RemotesNamed'
  <2>1. PICK h \in FreshStamps(r) : EmitDelete(r, h, p)
    BY <1>4 DEF RemoveProject
  <2>2. log' = [log EXCEPT ![r] = @ \cup {Event("delete", r, h, p, NoRemote)}] /\ choice' = choice
    BY <2>1, <1>4 DEF EmitDelete, RemoveProject
  <2>3. Event("delete", r, h, p, NoRemote).op # "upsert"
    BY DEF Event
  <2> QED BY <2>2, <2>3, <1>1
<1>5. ASSUME NEW r \in Hosts, NEW e \in MintedProjects, NEW dirty \in BOOLEAN, ApplyEvent(r, e, dirty)
      PROVE  RemotesNamed'
  <2>1. e.op = "upsert" => e.remote # NoRemote
    BY DEF MintedProjects, RemotesNamed
  <2>2. log' = [log EXCEPT ![r] = @ \cup {e}] /\ choice' = choice
    BY <1>5 DEF ApplyEvent
  <2> QED BY <2>1, <2>2, <1>1
<1>6. ASSUME NEW r \in Hosts, NEW c \in conflicts[r], NEW keep \in {"local", "remote", "both"},
             ReadResolution(r, c, keep)
      PROVE  RemotesNamed'
  <2>1. log' = log /\ choice \in [Hosts -> Choice]
    BY <1>6, <1>0 DEF ReadResolution, ChoicesKnown
  <2>2. c.path \in Paths
    BY <1>0 DEF StoreTypeOK, Conflict
  <2>3. ns[r][c.path].status = "active" => git[r][c.path] # NoRemote
    <3> SUFFICES ASSUME ns[r][c.path].status = "active" PROVE git[r][c.path] # NoRemote
      OBVIOUS
    <3>1. PICK e \in log[r] : e.op = "upsert" /\ e.remote \in {git[r][c.path], NoRemote}
      BY <2>2, <1>0 DEF RowsKnown, RowKnown, Claims
    <3> QED BY <3>1 DEF RemotesNamed
  <2>4. c.type = "same_path_different_remote" => OtherVariant(r, c) # NoRemote
    <3> SUFFICES ASSUME c.type = "same_path_different_remote" PROVE OtherVariant(r, c) # NoRemote
      OBVIOUS
    <3>1. PICK e \in log[r], f \in log[r] : /\ e.op = "upsert" /\ e.at = c.winner
                                            /\ f.op = "upsert" /\ f.at = c.loser
      BY <1>0 DEF ConflictsRecoverable
    <3>2. EventAt(r, c.winner) = e /\ EventAt(r, c.loser) = f
      BY <3>1, <1>0, EventAtIs
    <3> QED BY <3>1, <3>2 DEF OtherVariant, RemotesNamed
  <2>5. CASE ReadSamePath(r, c, keep)
    <3> DEFINE v == [act |-> IF ns[r][c.path].status = "active" THEN "upsert" ELSE "close",
                     path |-> IF keep = "both" THEN Sibling[c.path] ELSE c.path,
                     remote |-> IF keep = "local" THEN git[r][c.path] ELSE OtherVariant(r, c),
                     conflict |-> c]
    <3>1. choice' = [choice EXCEPT ![r] = v] /\ (v.act = "upsert" => v.remote # NoRemote)
      BY <2>5, <2>3, <2>4 DEF ReadSamePath
    <3> HIDE DEF v
    <3>2. \A s \in Hosts : choice'[s].act = "upsert" => choice'[s].remote # NoRemote
      BY <3>1, <2>1 DEF RemotesNamed
    <3> QED BY <3>2, <2>1, <1>2
  <2>6. CASE ReadPendingDelete(r, c, keep)
    <3> DEFINE v == [act |-> IF keep = "remote" THEN "delete"
                             ELSE IF ns[r][c.path].status = "active" THEN "upsert" ELSE "close",
                     path |-> c.path, remote |-> git[r][c.path], conflict |-> c]
    <3>1. choice' = [choice EXCEPT ![r] = v] /\ (v.act = "upsert" => v.remote # NoRemote)
      BY <2>6, <2>3 DEF ReadPendingDelete
    <3> HIDE DEF v
    <3>2. \A s \in Hosts : choice'[s].act = "upsert" => choice'[s].remote # NoRemote
      BY <3>1, <2>1 DEF RemotesNamed
    <3> QED BY <3>2, <2>1, <1>2
  <2> QED BY <1>6, <2>5, <2>6 DEF ReadResolution
<1>7. ASSUME NEW r \in Hosts, EnactResolution(r) PROVE RemotesNamed'
  <2>1. /\ choice' = [choice EXCEPT ![r] = [choice[r] EXCEPT !.act = "close"]]
        /\ choice \in [Hosts -> Choice] /\ choice[r] \in Choice /\ choice[r] # NoChoice
    BY <1>7, <1>0 DEF EnactResolution, ChoicesKnown
  <2>2. choice'[r].act = "close"
    BY <2>1 DEF Choice
  <2>3. \A s \in Hosts : choice'[s] = choice[s] \/ choice'[s].act # "upsert"
    BY <2>1, <2>2
  <2>4. CASE choice[r].act = "upsert" /\ \E h \in FreshStamps(r) : EmitUpsert(r, h, choice[r].path, choice[r].remote)
    <3>1. PICK h \in FreshStamps(r) : EmitUpsert(r, h, choice[r].path, choice[r].remote)
      BY <2>4
    <3>2. log' = [log EXCEPT ![r] = @ \cup {Event("upsert", r, h, choice[r].path, choice[r].remote)}]
      BY <3>1 DEF EmitUpsert
    <3>3. Event("upsert", r, h, choice[r].path, choice[r].remote).remote # NoRemote
      BY <2>4 DEF Event, RemotesNamed
    <3> QED BY <3>2, <3>3, <2>3, <1>1
  <2>5. CASE \E h \in FreshStamps(r) : EmitDelete(r, h, choice[r].path)
    <3>1. PICK h \in FreshStamps(r) : EmitDelete(r, h, choice[r].path)
      BY <2>5
    <3>2. log' = [log EXCEPT ![r] = @ \cup {Event("delete", r, h, choice[r].path, NoRemote)}]
      BY <3>1 DEF EmitDelete
    <3>3. Event("delete", r, h, choice[r].path, NoRemote).op # "upsert"
      BY DEF Event
    <3> QED BY <3>2, <3>3, <2>3, <1>1
  <2> QED BY <1>7, <2>4, <2>5 DEF EnactResolution
<1>8. ASSUME NEW r \in Hosts, log' = log, choice' = choice \/ choice' = [choice EXCEPT ![r] = NoChoice]
      PROVE  RemotesNamed'
  <2>1. \A s \in Hosts : choice'[s] = choice[s] \/ choice'[s] = NoChoice
    BY <1>8, <1>0 DEF ChoicesKnown
  <2> QED BY <2>1, <1>8, <1>n DEF RemotesNamed
<1>9. ASSUME NEW r \in Hosts, CloseConflict(r) \/ AbandonResolution(r) PROVE RemotesNamed'
  BY <1>8, <1>9 DEF CloseConflict, AbandonResolution
<1>a. ASSUME NEW r \in Hosts, NEW s \in Hosts, NEW c \in conflicts[r], ApplyConflictResolved(r, s, c)
      PROVE  RemotesNamed'
  BY <1>8, <1>a DEF ApplyConflictResolved
<1>b. CASE UNCHANGED storevars
  BY <1>b DEF storevars, RemotesNamed
<1> QED BY <1>3, <1>4, <1>5, <1>6, <1>7, <1>9, <1>a, <1>b DEF StoreNext

\* A command that mints delivers its own event.
LEMMA MintDelivers ==
    ASSUME StoreIInv, ~LowersTombstone, NEW r \in Hosts, NEW e \in Mintable, NEW m, Enters(r, e, m),
           m = IF e.op = "upsert" THEN "upsert" ELSE "tombstone",
           \A f \in log[r] : HLC(f) < HLC(e), e.op = "upsert" => e.remote # NoRemote,
           held' = held, Cardinality(MintedProjects) < MaxMinted
    PROVE  Fold!Next
<1> DEFINE d == Decide(LoadRow(ns[r][e.path], git[r][e.path]), e, FALSE)
<1>1. d.mutation = m /\ d.conflict # "pending_delete"
  BY FreshDecided
<1>2. FALSE \in BOOLEAN
  OBVIOUS
<1> HIDE DEF d
<1>3. /\ Enters(r, e, d.mutation)
      /\ held' = IF d.conflict = "pending_delete" THEN [held EXCEPT ![r] = @ \cup {e}] ELSE held
      /\ d = Decide(LoadRow(ns[r][e.path], git[r][e.path]), e, FALSE)
  BY <1>1 DEF d
<1> QED BY <1>2, <1>3, EntersDelivers

LEMMA UpsertDelivers ==
    ASSUME StoreIInv, ~LowersTombstone, NEW r \in Hosts, NEW h \in FreshStamps(r), NEW p \in Paths,
           NEW remote \in Remotes, EmitUpsert(r, h, p, remote), held' = held
    PROVE  Fold!Next
<1> DEFINE e == Event("upsert", r, h, p, remote)
<1>1. e \in Mintable /\ Enters(r, e, "upsert")
  BY UpsertEnters
<1>2. e.op = "upsert" /\ e.remote # NoRemote /\ \A f \in log[r] : HLC(f) < HLC(e)
  BY DecideAssumption DEF Event, HLC, FreshStamps
<1>3. Cardinality(MintedProjects) < MaxMinted
  BY DEF EmitUpsert
<1> HIDE DEF e
<1> QED BY <1>1, <1>2, <1>3, MintDelivers

LEMMA DeleteDelivers ==
    ASSUME StoreIInv, ~LowersTombstone, NEW r \in Hosts, NEW h \in FreshStamps(r), NEW p \in Paths,
           EmitDelete(r, h, p), held' = held
    PROVE  Fold!Next
<1> DEFINE e == Event("delete", r, h, p, NoRemote)
<1>1. e \in Mintable /\ Enters(r, e, "tombstone")
  BY DeleteEnters
<1>2. e.op = "delete" /\ \A f \in log[r] : HLC(f) < HLC(e)
  BY DEF Event, HLC, FreshStamps
<1>3. Cardinality(MintedProjects) < MaxMinted
  BY DEF EmitDelete
<1> HIDE DEF e
<1> QED BY <1>1, <1>2, <1>3, MintDelivers

\* Each step of the store is a step of the fold or a stutter of it.
LEMMA StepDelivers ==
    ASSUME Kinds \subseteq Remotes, StoreIInv, RemotesNamed, ~LowersTombstone, [StoreNext]_storevars
    PROVE  [Fold!Next]_(Fold!vars)
<1>0. StoreTypeOK /\ ChoicesKnown
  BY DEF StoreIInv
<1>s. UNCHANGED <<log, ns, git, held>> => UNCHANGED Fold!vars
  BY DEF Fold!vars, Projection
<1>1. ASSUME NEW r \in Hosts, NEW p \in Paths, NEW remote \in Kinds, AddProject(r, p, remote)
      PROVE  Fold!Next
  <2>1. PICK h \in FreshStamps(r) : EmitUpsert(r, h, p, remote)
    BY <1>1 DEF AddProject
  <2>2. held' = held /\ remote \in Remotes
    BY <1>1 DEF AddProject
  <2> QED BY <2>1, <2>2, UpsertDelivers
<1>2. ASSUME NEW r \in Hosts, NEW p \in Paths, RemoveProject(r, p) PROVE Fold!Next
  <2>1. PICK h \in FreshStamps(r) : EmitDelete(r, h, p)
    BY <1>2 DEF RemoveProject
  <2>2. held' = held
    BY <1>2 DEF RemoveProject
  <2> QED BY <2>1, <2>2, DeleteDelivers
<1>3. ASSUME NEW r \in Hosts, NEW e \in MintedProjects, NEW dirty \in BOOLEAN, ApplyEvent(r, e, dirty)
      PROVE  Fold!Next
  <2> DEFINE d == Decide(LoadRow(ns[r][e.path], git[r][e.path]), e, dirty)
  <2>1. e \in Mintable /\ Enters(r, e, d.mutation)
    BY <1>3, ApplyEnters
  <2>2. e.op = "upsert" => e.remote # NoRemote
    BY DEF MintedProjects, RemotesNamed
  <2>3. held' = IF d.conflict = "pending_delete" THEN [held EXCEPT ![r] = @ \cup {e}] ELSE held
    BY <1>3 DEF ApplyEvent
  <2> QED BY <2>1, <2>2, <2>3, EntersDelivers
<1>4. ASSUME NEW r \in Hosts, EnactResolution(r) PROVE Fold!Next
  <2>1. choice[r] # NoChoice /\ held' = held /\ choice[r] \in Choice
    BY <1>4, <1>0 DEF EnactResolution, ChoicesKnown
  <2>2. choice[r].path \in Paths /\ choice[r].remote \in Remotes \cup {NoRemote}
    BY <2>1 DEF Choice
  <2>3. CASE choice[r].act = "upsert" /\ \E h \in FreshStamps(r) : EmitUpsert(r, h, choice[r].path, choice[r].remote)
    <3>1. choice[r].remote \in Remotes
      BY <2>2, <2>3 DEF RemotesNamed
    <3> QED BY <3>1, <2>1, <2>2, <2>3, UpsertDelivers
  <2>4. CASE \E h \in FreshStamps(r) : EmitDelete(r, h, choice[r].path)
    BY <2>1, <2>2, <2>4, DeleteDelivers
  <2> QED BY <1>4, <2>3, <2>4 DEF EnactResolution
<1>5. ASSUME NEW r \in Hosts, NEW c \in conflicts[r], NEW keep \in {"local", "remote", "both"},
             ReadResolution(r, c, keep)
      PROVE  UNCHANGED <<log, ns, git, held>>
  BY <1>5 DEF ReadResolution
<1>6. ASSUME NEW r \in Hosts, CloseConflict(r) \/ AbandonResolution(r)
      PROVE  UNCHANGED <<log, ns, git, held>>
  BY <1>6 DEF CloseConflict, AbandonResolution
<1>7. ASSUME NEW r \in Hosts, NEW s \in Hosts, NEW c \in conflicts[r], ApplyConflictResolved(r, s, c)
      PROVE  UNCHANGED <<log, ns, git, held>>
  BY <1>7 DEF ApplyConflictResolved
<1>8. CASE UNCHANGED storevars
  BY <1>8, <1>s DEF storevars
<1> QED BY <1>1, <1>2, <1>3, <1>4, <1>5, <1>6, <1>7, <1>8, <1>s DEF StoreNext

LEMMA InitDelivers == StoreInit => Fold!Init /\ RemotesNamed
<1> SUFFICES ASSUME StoreInit PROVE Fold!Init /\ RemotesNamed
  OBVIOUS
<1>1. \A r \in Hosts, p \in Paths : LoadRow(ns[r][p], git[r][p]) = Fold!AbsentRow
  BY DEF StoreInit, LoadRow, NullRow, AbsentRow, Fold!AbsentRow, NoCoord, Fold!NoCoord
<1>2. [r \in Hosts |-> Projection(r)] = [r \in Hosts |-> [p \in Paths |-> Fold!AbsentRow]]
  BY <1>1 DEF Projection
<1>3. log = [r \in Hosts |-> {}] /\ held = [r \in Hosts |-> {}]
  BY DEF StoreInit
<1>4. Fold!Init
  BY <1>2, <1>3 DEF Fold!Init
<1>5. RemotesNamed
  BY DEF StoreInit, RemotesNamed, NoChoice
<1> QED BY <1>4, <1>5

\* The tables implement the fold, for any number of devices, paths and remotes,
\* as long as every project has a remote and no applied delete lowers a
\* tombstone: commands that write without asking Decide (addProject, the conflict
\* resolver) included.  Both hypotheses are needed, and are behaviour of the
\* code: UpsertProject leaves the remote of a git project below a folder, and
\* tombstonePath stores the stamp of the delete that came last.
THEOREM StoreImplementsFold ==
    ASSUME Kinds \subseteq Remotes
    PROVE  StoreSpec /\ [][~LowersTombstone]_storevars => ImplementsFold
<1>1. StoreInit => Fold!Init /\ RemotesNamed
  BY InitDelivers
<1>2. StoreIInv /\ RemotesNamed /\ [StoreNext]_storevars => RemotesNamed'
  BY RemotesStay
<1>3. StoreIInv /\ RemotesNamed /\ [StoreNext]_storevars /\ [~LowersTombstone]_storevars
        => [Fold!Next]_(Fold!vars)
  <2>1. CASE ~LowersTombstone
    BY <2>1, StepDelivers
  <2>2. CASE UNCHANGED storevars
    BY <2>2 DEF storevars, Fold!vars, Projection
  <2> QED BY <2>1, <2>2
<1> QED BY <1>1, <1>2, <1>3, StoreInvariant, PTL DEF StoreSpec, ImplementsFold, Fold!Spec
=============================================================================
