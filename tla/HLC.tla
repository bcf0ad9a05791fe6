-------------------------------- MODULE HLC --------------------------------
(***************************************************************************)
(* The hybrid logical clock that stamps every event of a device's stream   *)
(* (internal/sync/hlc.go and its persisted twin in internal/state/store.go:*)
(* advanceHLC, receiveHLC, nextLocalEventStamp, ReceiveRemoteHLC).         *)
(*                                                                         *)
(* The code packs a stamp into an int64, physical << 16 | logical.  Here a *)
(* stamp is the pair <<physical, logical>> with the lexicographic order;   *)
(* PackHLC is the packing; NamespaceProofs!PackOrder proves that packed    *)
(* integers compare exactly as the pairs do.  Wall clocks are arbitrary:   *)
(* a step of WallClock may move a device's clock backwards.                *)
(***************************************************************************)
EXTENDS Integers, FiniteSets

CONSTANTS
    Devices,        \* the devices of one workspace
    LogicalMask,    \* hlcLogicalMask: largest logical component
    MaxSkew,        \* defaultMaxSkew / defaultReceiveMaxSkew, in clock ticks
    EpochFloor,     \* epochFloorMS: least plausible physical component
    MaxTime,        \* bound: wall clocks stay in 0..MaxTime
    MaxPerDevice          \* bound: events minted per device

ASSUME HLCAssumption ==
    /\ LogicalMask \in Nat
    /\ MaxSkew \in Nat
    /\ EpochFloor \in Nat
    /\ MaxTime \in Nat
    /\ MaxPerDevice \in Nat

VARIABLES
    now,        \* now[d]: the wall clock of d, in ticks
    last,       \* last[d]: device_sync_state.last_hlc
    nextSeq,    \* nextSeq[d]: device_sync_state.next_seq
    events,     \* every event minted so far, with what its author had applied
    applied     \* applied[d]: the ids <<device, seq>> of d's events table

clockvars == <<now, last, nextSeq, events, applied>>

Stamp == Nat \X (0..LogicalMask)

EventId == Devices \X (Nat \ {0})

\* An event with its stamp; deps are the events its author held when it was
\* minted (a history component: the code does not store it).
HLCEvent == [id : EventId, hlc : Stamp, deps : SUBSET EventId]

Physical(h) == h[1]
Logical(h) == h[2]

\* The order of the packed integers.
HLCLess(a, b) ==
    \/ Physical(a) < Physical(b)
    \/ Physical(a) = Physical(b) /\ Logical(a) < Logical(b)

HLCLeq(a, b) == a = b \/ HLCLess(a, b)

PackHLC(h) == Physical(h) * (LogicalMask + 1) + Logical(h)

Larger(a, b) == IF a < b THEN b ELSE a

-----------------------------------------------------------------------------
(* The two clock rules, as functions of the stored stamp and a clock read. *)

\* Mutation of AdvanceHLC: a forgotten carry.
AdvanceHLCNoCarry(prev, wall) ==
    IF wall > Physical(prev) THEN <<wall, 0>>
                             ELSE <<Physical(prev), Logical(prev) + 1>>

\* Send / advanceHLC: the stamp of the next local event.
AdvanceHLC(prev, wall) ==
    IF wall > Physical(prev)           THEN <<wall, 0>>
    ELSE IF Logical(prev) < LogicalMask THEN <<Physical(prev), Logical(prev) + 1>>
                                       ELSE <<Physical(prev) + 1, 0>>

\* Mutation of ReceiveHLC: the remote's logical component is forgotten.
ReceiveHLCPhysicalOnly(prev, remote, wall) ==
    LET maxPhysical == Larger(Larger(wall, Physical(prev)), Physical(remote))
    IN  <<maxPhysical, IF maxPhysical = Physical(prev) THEN Logical(prev) ELSE 0>>

\* Receive / receiveHLC: the clock after observing a remote stamp.  A logical
\* component that would pass the mask carries into the physical one.
ReceiveHLC(prev, remote, wall) ==
    LET maxPhysical == Larger(Larger(wall, Physical(prev)), Physical(remote))
        logical == Larger(IF maxPhysical = Physical(prev) THEN Logical(prev) + 1 ELSE 0,
                          IF maxPhysical = Physical(remote) THEN Logical(remote) + 1 ELSE 0)
    IN  IF logical > LogicalMask THEN <<maxPhysical + 1, 0>>
                                 ELSE <<maxPhysical, logical>>

\* The two time gates of the apply loop: a stamp below the epoch floor is never
\* accepted, one too far ahead of the local wall clock not yet.
Implausible(h) == h = <<0, 0>> \/ Physical(h) < EpochFloor

\* Mutation of TooFarAhead: the skew gate dropped.
TooFarAheadNever(h, wall) == FALSE

TooFarAhead(h, wall) == Physical(h) - wall > MaxSkew

-----------------------------------------------------------------------------
ClockInit ==
    /\ now \in [Devices -> 0..MaxTime]
    /\ last = [d \in Devices |-> <<0, 0>>]
    /\ nextSeq = [d \in Devices |-> 1]
    /\ events = {}
    /\ applied = [d \in Devices |-> {}]

\* External: the operating system's clock.  Steps in both directions.
WallClock(d) ==
    /\ \E t \in 0..MaxTime : now' = [now EXCEPT ![d] = t]
    /\ UNCHANGED <<last, nextSeq, events, applied>>

\* InsertLocalEventTx: stamp, persist the clock and insert, in one transaction.
InsertLocalEvent(d) ==
    /\ nextSeq[d] <= MaxPerDevice
    /\ LET id == <<d, nextSeq[d]>>
           stamp == AdvanceHLC(last[d], now[d])
       IN  /\ last' = [last EXCEPT ![d] = stamp]
           /\ nextSeq' = [nextSeq EXCEPT ![d] = @ + 1]
           /\ events' = events \cup {[id |-> id, hlc |-> stamp, deps |-> applied[d]]}
           /\ applied' = [applied EXCEPT ![d] = @ \cup {id}]
    /\ UNCHANGED now

\* The apply loop on one delivered event: both time gates, then the insert and
\* the clock advance in one transaction.  The clock is written only when the
\* receive rule moved it forward.
ApplyRemoteEvent(d, e) ==
    /\ e.id \notin applied[d]
    /\ ~Implausible(e.hlc)
    /\ ~TooFarAhead(e.hlc, now[d])
    /\ LET updated == ReceiveHLC(last[d], e.hlc, now[d])
       IN  last' = IF HLCLess(last[d], updated) THEN [last EXCEPT ![d] = updated]
                                                ELSE last
    /\ applied' = [applied EXCEPT ![d] = @ \cup {e.id}]
    /\ UNCHANGED <<now, nextSeq, events>>

ClockNext ==
    \E d \in Devices :
        \/ WallClock(d)
        \/ InsertLocalEvent(d)
        \/ \E e \in events : ApplyRemoteEvent(d, e)

ClockSpec == ClockInit /\ [][ClockNext]_clockvars

-----------------------------------------------------------------------------
ClockTypeOK ==
    /\ now \in [Devices -> 0..MaxTime]
    /\ last \in [Devices -> Stamp]
    /\ nextSeq \in [Devices -> Nat \ {0}]
    /\ events \subseteq HLCEvent
    /\ applied \in [Devices -> SUBSET EventId]

\* One device's stamps follow its sequence numbers strictly, whatever its wall
\* clock does: no two of its events compare equal, and sorting a stream by HLC
\* (the order the apply loop uses) is sorting it by seq (the hash-chain order).
StreamOrder ==
    \A e, f \in events :
        e.id[1] = f.id[1] /\ e.id[2] < f.id[2] => HLCLess(e.hlc, f.hlc)

\* Every event is stamped above every event its author had already applied, so
\* "delete what I just pulled" always dominates what it deletes.
Causality ==
    \A e, f \in events : f.id \in e.deps => HLCLess(f.hlc, e.hlc)

\* A peer moves this device's clock at most MaxSkew beyond the local wall clock
\* (plus one tick of logical carry): one bad clock cannot drag the fleet's.
NoPoisoning ==
    [][\A d \in Devices :
         last'[d] # last[d] =>
           Physical(last'[d]) <= Larger(Physical(last[d]), now[d] + MaxSkew) + 1]_clockvars

\* The inductive strengthening: a device's stored clock dominates every stamp in
\* its log, its log holds every event it minted, and only minted events are
\* known to anybody.
ClockDominatesLog ==
    \A d \in Devices, e \in events : e.id \in applied[d] => HLCLeq(e.hlc, last[d])

OwnStream ==
    \A d \in Devices :
        /\ \A e \in events : e.id[1] = d => e.id[2] < nextSeq[d] /\ e.id \in applied[d]
        /\ \A i \in applied[d] : \E e \in events : e.id = i

EventIdsUnique == \A e, f \in events : e.id = f.id => e = f

DepsKnown == \A e \in events : \A i \in e.deps : \E f \in events : f.id = i

ClockIInv ==
    /\ ClockTypeOK
    /\ EventIdsUnique
    /\ OwnStream
    /\ DepsKnown
    /\ ClockDominatesLog
    /\ StreamOrder
    /\ Causality
=============================================================================
