--------------------------- MODULE PullApplyProofs ---------------------------
(***************************************************************************)
(* PullApply delivers causally, moves cursors forward only, strands no     *)
(* event but late ones whose chain is broken, leaves no stale flags, for   *)
(* every number of origins, syncing processes, approvals and crashes,      *)
(* whatever the streams hold and whatever is wrong with their events.      *)
(***************************************************************************)
EXTENDS PullApply, FiniteSetTheorems, WellFoundedInduction, TLAPS

\* What the first results rest on: the streams do not change, the log holds event
\* ids, the cursors are numbers.
Base ==
    /\ attr \in [Ids -> EventAttr]
    /\ log \subseteq Ids
    /\ cursor \in [Origins -> Nat]

\* An event enters the log only by passing every gate of the apply loop.
LEMMA AppliedVerdict ==
    ASSUME NEW i \in Ids, NEW isSealed \in BOOLEAN, Verdict(i, isSealed) = "applied"
    PROVE  /\ ~ChainBroken(i)
           /\ i \notin log
           /\ attr[i].needs \subseteq log
  BY DEF Verdict

\* The log, the streams and the cursors in every step: at most one of the log
\* and the cursors moves, the log by one event that passed the gates, the
\* cursors by one forward-only write.
Moves ==
    /\ attr' = attr
    /\ \/ log' = log
       \/ \E i \in Ids : /\ i \notin log /\ ~ChainBroken(i) /\ attr[i].needs \subseteq log
                         /\ log' = log \cup {i}
    /\ \/ cursor' = cursor
       \/ \E t \in Ids : cursor' = [cursor EXCEPT ![t[1]] = ForwardOnly(@, t[2])]

\* No action does more to the log and the cursors than Moves allows.
LEMMA StepMoves == Next => Moves
<1>1. ASSUME NEW o \in Origins, Publish(o) PROVE Moves
  BY <1>1 DEF Publish, Moves
<1>2. ASSUME NEW e \in Epochs, PostGrant(e) PROVE Moves
  BY <1>2 DEF PostGrant, Moves
<1>3. ASSUME NEW e \in Epochs, GraceExpires(e) PROVE Moves
  BY <1>3 DEF GraceExpires, Moves
<1>4. ASSUME ClockCatchesUp PROVE Moves
  BY <1>4 DEF ClockCatchesUp, Moves
<1>5. ASSUME NEW p \in Procs, Pull(p) PROVE Moves
  BY <1>5 DEF Pull, Moves
<1>6. ASSUME NEW p \in Procs, Step(p) PROVE Moves
  <2>1. ASSUME ListRows(p) PROVE Moves
    BY <2>1 DEF ListRows, Moves
  <2>2. ASSUME NEW i \in Ids, SkipReplay(p, i) PROVE Moves
    BY <2>2 DEF SkipReplay, Moves
  <2>3. ASSUME NEW i \in Ids, ApplyEvent(p, i) PROVE Moves
    <3> DEFINE m == [proc[p] EXCEPT !.todo = @ \ {i}]
               v == Verdict(i, m.phase = "batch" /\ i \in m.sealed)
    <3>1. attr' = attr /\ cursor' = cursor
      BY <2>3 DEF ApplyEvent
    <3>2. log' = IF v = "applied" THEN log \cup {i} ELSE log
      BY <2>3 DEF ApplyEvent
    <3>3. CASE v = "applied"
      <4>1. ~ChainBroken(i) /\ i \notin log /\ attr[i].needs \subseteq log
        BY <3>3, AppliedVerdict
      <4>2. log' = log \cup {i}
        BY <3>2, <3>3
      <4> QED BY <3>1, <4>1, <4>2 DEF Moves
    <3>4. CASE v # "applied"
      BY <3>1, <3>2, <3>4 DEF Moves
    <3> QED BY <3>3, <3>4
  <2>4. ASSUME NEW i \in Ids, Quarantine(p, i) PROVE Moves
    BY <2>4 DEF Quarantine, Moves
  <2>5. ASSUME NEW i \in Ids, ResolveRow(p, i) PROVE Moves
    BY <2>5 DEF ResolveRow, Moves
  <2>6. ASSUME BeginBatch(p) \/ EndBatch(p) \/ BeginPending(p) \/ Finish(p) PROVE Moves
    BY <2>6 DEF BeginBatch, EndBatch, BeginPending, Finish, Moves
  <2>7. ASSUME NEW t \in Ids, AdvanceCursor(p, t) PROVE Moves
    BY <2>7 DEF AdvanceCursor, Moves
  <2> QED BY <1>6, <2>1, <2>2, <2>3, <2>4, <2>5, <2>6, <2>7 DEF Step
<1>7. ASSUME NEW p \in Procs, Crash(p) PROVE Moves
  BY <1>7 DEF Crash, Moves
<1>8. ASSUME NEW p \in Procs, NEW o \in Origins, Approve(p, o) PROVE Moves
  BY <1>8 DEF Approve, Moves
<1> QED BY <1>1, <1>2, <1>3, <1>4, <1>5, <1>6, <1>7, <1>8 DEF Next

\* Base holds initially and is preserved.
LEMMA BaseInit == Init => Base
  BY PullAssumption DEF Init, Base

LEMMA BaseNext == Base /\ [Next]_vars => Base'
<1> SUFFICES ASSUME Base, [Next]_vars PROVE Base'
  OBVIOUS
<1>1. CASE UNCHANGED vars
  BY <1>1 DEF Base, vars
<1>2. CASE Next
  <2>1. Moves
    BY <1>2, StepMoves
  <2>2. log' \subseteq Ids
    BY <2>1 DEF Moves, Base
  <2>3. cursor' \in [Origins -> Nat]
    <3>1. ASSUME NEW t \in Ids, cursor' = [cursor EXCEPT ![t[1]] = ForwardOnly(@, t[2])]
          PROVE  cursor' \in [Origins -> Nat]
      <4>1. t[1] \in Origins /\ t[2] \in Nat
        BY PullAssumption DEF Ids
      <4> QED BY <3>1, <4>1 DEF Base, ForwardOnly
    <3> QED BY <2>1, <3>1 DEF Moves, Base
  <2> QED BY <2>1, <2>2, <2>3 DEF Moves, Base
<1> QED BY <1>1, <1>2

\* The streams, the log and the cursors keep their types in every behaviour.
THEOREM BaseHolds == Spec => []Base
  BY BaseInit, BaseNext, PTL DEF Spec

\* The cursor of an origin only moves forward, whoever writes it and however
\* stale the value that process computed: AdvanceHubDeviceCursor's MAX.
THEOREM CursorsNeverRewind == Spec => CursorForward
<1>1. Base /\ [Next]_vars => [\A o \in Origins : cursor'[o] >= cursor[o]]_vars
  <2> SUFFICES ASSUME Base, Next PROVE \A o \in Origins : cursor'[o] >= cursor[o]
    OBVIOUS
  <2>1. Moves
    BY StepMoves
  <2>2. CASE cursor' = cursor
    BY <2>2 DEF Base
  <2>3. ASSUME NEW t \in Ids, cursor' = [cursor EXCEPT ![t[1]] = ForwardOnly(@, t[2])]
        PROVE  \A o \in Origins : cursor'[o] >= cursor[o]
    <3>1. t[1] \in Origins /\ t[2] \in Nat
      BY PullAssumption DEF Ids
    <3> QED BY <2>3, <3>1 DEF Base, ForwardOnly
  <2> QED BY <2>1, <2>2, <2>3 DEF Moves
<1> QED BY <1>1, BaseHolds, PTL DEF Spec, CursorForward

\* The log of a device grows as CausalDelivery says, in every interleaving of
\* syncs, approvals, replays and crashes: one event at a time, each origin's in
\* seq order without a gap, none before the project it points at.
THEOREM DeliveryIsCausal == Spec => ImplementsDelivery
<1>1. Init => Delivery!Init
  <2> SUFFICES ASSUME Init PROVE Delivery!Init
    OBVIOUS
  <2>1. attr \in [Ids -> EventAttr] /\ log = {}
    BY PullAssumption DEF Init
  <2>2. [i \in Ids |-> attr[i].needs] \in [Ids -> SUBSET Ids]
    BY <2>1 DEF EventAttr
  <2> QED BY <2>1, <2>2 DEF Delivery!Init
<1>2. Base /\ [Next]_vars => [Delivery!Next]_(Delivery!vars)
  <2> SUFFICES ASSUME Base, [Next]_vars PROVE [Delivery!Next]_(Delivery!vars)
    OBVIOUS
  <2>1. CASE UNCHANGED vars
    BY <2>1 DEF vars, Delivery!vars
  <2>2. CASE Next
    <3>1. Moves
      BY <2>2, StepMoves
    <3>2. [i \in Ids |-> attr[i].needs]' = [i \in Ids |-> attr[i].needs]
      BY <3>1 DEF Moves
    <3>3. CASE log' = log
      BY <3>2, <3>3 DEF Delivery!vars
    <3>4. ASSUME NEW i \in Ids, i \notin log, ~ChainBroken(i), attr[i].needs \subseteq log,
                 log' = log \cup {i}
          PROVE  Delivery!Deliver(i)
      <4>1. i[2] > 1 => <<i[1], i[2] - 1>> \in log
        BY <3>4 DEF ChainBroken
      <4>2. [j \in Ids |-> attr[j].needs][i] \subseteq log
        BY <3>4
      <4> QED BY <3>2, <3>4, <4>1, <4>2 DEF Delivery!Deliver
    <3> QED BY <3>1, <3>3, <3>4 DEF Moves, Delivery!Next
  <2> QED BY <2>1, <2>2
<1> QED BY <1>1, <1>2, BaseHolds, PTL DEF Spec, ImplementsDelivery, Delivery!Spec

-----------------------------------------------------------------------------
(* What a step leaves in the memory of the command that takes it.          *)

\* The command's memory becomes q, the others' stay.
Becomes(p, q) == q \in Memory /\ proc' = [proc EXCEPT ![p] = q]

\* What a step does not touch: the cursors pulled from, the carriers left
\* sealed and the slots consumed; the event between its two transactions.
SameLists(q, m) == q.base = m.base /\ q.sealed = m.sealed /\ q.done = m.done
SameHand(q, m) == q.cur = m.cur /\ q.verdict = m.verdict

\* Nothing is listed or in hand.
Blank(q) ==
    /\ q.base = [o \in Origins |-> 0] /\ q.sealed = {} /\ q.done = {} /\ q.todo = {}
    /\ q.cur = {} /\ q.verdict = "none"

LEMMA IdleBlank == Idle \in Memory /\ Blank(Idle)
  BY PullAssumption DEF Idle, Memory, Blank

LEMMA PullMemory ==
    ASSUME TypeOK, NEW p \in Procs, Pull(p)
    PROVE  \E q : /\ Becomes(p, q) /\ q.phase = "undecryptable" /\ q.base = cursor
                  /\ q.todo = {} /\ q.done = {} /\ q.cur = {} /\ q.verdict = "none"
                  /\ \A i \in q.sealed : ~Decryptable(i, keys')
<1> DEFINE S == {i \in Delivered(keys') : ~Decryptable(i, keys')}
           q == [Idle EXCEPT !.phase = "undecryptable", !.base = cursor, !.batch = Delivered(keys'), !.sealed = S]
<1>1. Delivered(keys') \subseteq Ids /\ S \subseteq Ids
  BY DEF Delivered, Available
<1>2. cursor \in [Origins -> 0..StreamLen]
  BY DEF TypeOK
<1>3. proc' = [proc EXCEPT ![p] = q]
  BY DEF Pull
<1>4. \A i \in S : ~Decryptable(i, keys')
  OBVIOUS
<1> HIDE DEF S
<1>5. q \in Memory
  BY ONLY <1>1, <1>2, IdleBlank DEF Memory, Replays
<1>6. /\ q.phase = "undecryptable" /\ q.base = cursor /\ q.todo = {} /\ q.done = {} /\ q.cur = {}
      /\ q.verdict = "none" /\ q.sealed = S
  BY DEF Idle
<1> HIDE DEF q
<1> WITNESS q
<1> QED BY <1>3, <1>4, <1>5, <1>6 DEF Becomes

LEMMA ApproveMemory ==
    ASSUME TypeOK, NEW p \in Procs, NEW o \in Origins, Approve(p, o)
    PROVE  \E q : Becomes(p, q) /\ Blank(q) /\ q.phase = "verification"
<1> DEFINE q == [Idle EXCEPT !.phase = "verification", !.subject = {o}]
<1>1. q \in Memory
  BY IdleBlank DEF Memory, Replays
<1>2. Blank(q) /\ q.phase = "verification"
  BY DEF Idle, Blank
<1>3. proc' = [proc EXCEPT ![p] = q]
  BY DEF Approve
<1> HIDE DEF q
<1> WITNESS q
<1> QED BY <1>1, <1>2, <1>3 DEF Becomes

LEMMA RestMemory ==
    ASSUME TypeOK, NEW p \in Procs, BeginPending(p) \/ Finish(p) \/ Crash(p)
    PROVE  \E q : Becomes(p, q) /\ Blank(q) /\ q.phase \in {"idle", "pending"}
<1>1. CASE BeginPending(p)
  <2> DEFINE q == [Idle EXCEPT !.phase = "pending"]
  <2>1. q \in Memory
    BY IdleBlank DEF Memory, Replays
  <2>2. Blank(q) /\ q.phase = "pending"
    BY DEF Idle, Blank
  <2>3. proc' = [proc EXCEPT ![p] = q]
    BY <1>1 DEF BeginPending
  <2> HIDE DEF q
  <2> WITNESS q
  <2> QED BY <2>1, <2>2, <2>3 DEF Becomes
<1>2. CASE Finish(p) \/ Crash(p)
  <2>1. proc' = [proc EXCEPT ![p] = Idle] /\ Idle.phase = "idle"
    BY <1>2 DEF Finish, Crash, Idle
  <2> WITNESS Idle
  <2> QED BY <2>1, IdleBlank DEF Becomes
<1> QED BY <1>1, <1>2

LEMMA ListRowsMemory ==
    ASSUME TypeOK, NEW p \in Procs, ListRows(p)
    PROVE  \E q : /\ Becomes(p, q) /\ q.phase = proc[p].phase /\ SameLists(q, proc[p]) /\ SameHand(q, proc[p])
                  /\ \A i \in q.todo : <<i, q.phase>> \in rows
<1> DEFINE T == {i \in Ids : /\ <<i, proc[p].phase>> \in rows
                             /\ proc[p].phase = "verification" => i[1] \in proc[p].subject}
           m == proc[p]
           q == [m EXCEPT !.listed = TRUE, !.todo = T]
<1>1. proc \in [Procs -> Memory] /\ m \in Memory
  BY DEF TypeOK
<1>2. T \subseteq Ids /\ \A i \in T : <<i, m.phase>> \in rows
  OBVIOUS
<1>3. proc' = [proc EXCEPT ![p] = q]
  BY <1>1 DEF ListRows
<1> HIDE DEF T, m
<1>4. q \in Memory
  BY ONLY <1>1, <1>2 DEF Memory
<1>5. q.phase = m.phase /\ SameLists(q, m) /\ SameHand(q, m) /\ q.todo = T
  BY ONLY <1>1 DEF Memory, SameLists, SameHand
<1> HIDE DEF q
<1> WITNESS q
<1> QED BY <1>2, <1>3, <1>4, <1>5 DEF Becomes, m

LEMMA SkipReplayMemory ==
    ASSUME TypeOK, NEW p \in Procs, NEW i \in Ids, SkipReplay(p, i)
    PROVE  \E q : /\ Becomes(p, q) /\ q.phase = proc[p].phase /\ SameLists(q, proc[p]) /\ SameHand(q, proc[p])
                  /\ q.todo \subseteq proc[p].todo
<1> DEFINE m == proc[p]
           q == [m EXCEPT !.todo = m.todo \ {i}]
<1>1. proc \in [Procs -> Memory] /\ m \in Memory
  BY DEF TypeOK
<1>3. proc' = [proc EXCEPT ![p] = q]
  BY <1>1 DEF SkipReplay
<1> HIDE DEF m
<1>4. q \in Memory
  BY ONLY <1>1 DEF Memory
<1>5. q.phase = m.phase /\ SameLists(q, m) /\ SameHand(q, m) /\ q.todo = m.todo \ {i}
  BY ONLY <1>1 DEF Memory, SameLists, SameHand
<1> HIDE DEF q
<1> WITNESS q
<1> QED BY <1>3, <1>4, <1>5 DEF Becomes, m

LEMMA AdvanceMemory ==
    ASSUME TypeOK, NEW p \in Procs, NEW t \in Ids, AdvanceCursor(p, t)
    PROVE  \E q : /\ Becomes(p, q) /\ q.phase = proc[p].phase /\ SameLists(q, proc[p]) /\ SameHand(q, proc[p])
                  /\ q.todo \subseteq proc[p].todo
<1> DEFINE m == proc[p]
           q == [m EXCEPT !.todo = m.todo \ {t}]
<1>1. proc \in [Procs -> Memory] /\ m \in Memory
  BY DEF TypeOK
<1>3. proc' = [proc EXCEPT ![p] = q]
  BY <1>1 DEF AdvanceCursor
<1> HIDE DEF m
<1>4. q \in Memory
  BY ONLY <1>1 DEF Memory
<1>5. q.phase = m.phase /\ SameLists(q, m) /\ SameHand(q, m) /\ q.todo = m.todo \ {t}
  BY ONLY <1>1 DEF Memory, SameLists, SameHand
<1> HIDE DEF q
<1> WITNESS q
<1> QED BY <1>3, <1>4, <1>5 DEF Becomes, m

LEMMA BeginBatchMemory ==
    ASSUME TypeOK, NEW p \in Procs, BeginBatch(p)
    PROVE  \E q : /\ Becomes(p, q) /\ q.phase = "batch" /\ SameLists(q, proc[p]) /\ SameHand(q, proc[p])
<1> DEFINE m == proc[p]
           q == [m EXCEPT !.phase = "batch", !.todo = m.batch]
<1>1. proc \in [Procs -> Memory] /\ m \in Memory
  BY DEF TypeOK
<1>3. proc' = [proc EXCEPT ![p] = q]
  BY <1>1 DEF BeginBatch
<1> HIDE DEF m
<1>4. q \in Memory
  BY ONLY <1>1 DEF Memory
<1>5. q.phase = "batch" /\ SameLists(q, m) /\ SameHand(q, m)
  BY ONLY <1>1 DEF Memory, SameLists, SameHand
<1> HIDE DEF q
<1> WITNESS q
<1> QED BY <1>3, <1>4, <1>5 DEF Becomes, m

LEMMA VerdictType == ASSUME NEW i \in Ids, NEW b \in BOOLEAN PROVE Verdict(i, b) \in Verdicts
  BY DEF Verdict, Verdicts

LEMMA ApplyEventMemory ==
    ASSUME TypeOK, NEW p \in Procs, NEW i \in Ids, ApplyEvent(p, i),
           NEW v, v = Verdict(i, proc[p].phase = "batch" /\ i \in proc[p].sealed)
    PROVE  \E q : /\ Becomes(p, q)
                  /\ \/ Blank(q) /\ q.phase = "idle"
                     \/ /\ q.phase = proc[p].phase /\ q.base = proc[p].base /\ q.sealed = proc[p].sealed
                        /\ q.todo \subseteq proc[p].todo
                        /\ \/ q.cur = {} /\ q.done = proc[p].done
                           \/ q.cur = {} /\ q.done = proc[p].done \cup {i} /\ v \in {"applied", "dup"}
                           \/ q.cur = {i} /\ q.verdict = v /\ q.done = proc[p].done
<1> DEFINE o == proc[p]
           m == [o EXCEPT !.todo = o.todo \ {i}]
           r == Record(m, i, v)
           h == [m EXCEPT !.cur = {i}, !.verdict = v]
<1>1. proc \in [Procs -> Memory] /\ o \in Memory
  BY DEF TypeOK
<1>2. m \in Memory /\ m.phase = o.phase /\ SameLists(m, o) /\ m.todo = o.todo \ {i} /\ m.cur = o.cur
  BY <1>1 DEF Memory, SameLists
<1>3. o.cur = {} /\ v \in Verdicts
  BY VerdictType DEF ApplyEvent
<1>4. proc' = [proc EXCEPT ![p] = IF v = "abort" THEN IF m.phase = "verification" THEN m ELSE Idle
                                  ELSE IF m.phase = "batch" /\ v \in {"applied", "dup"} THEN r ELSE h]
  <2>1. m = [proc[p] EXCEPT !.todo = @ \ {i}]
    BY <1>1
  <2>2. Verdict(i, m.phase = "batch" /\ i \in m.sealed) = v
    BY <1>2 DEF SameLists
  <2>3. proc' = [proc EXCEPT ![p] = IF v = "abort" THEN IF m.phase = "verification" THEN m ELSE Idle
                                  ELSE IF m.phase = "batch" /\ v \in {"applied", "dup"} THEN Record(m, i, v)
                                  ELSE [m EXCEPT !.cur = {i}, !.verdict = v]]
    BY ONLY <2>1, <2>2, ApplyEvent(p, i) DEF ApplyEvent
  <2> QED BY ONLY <2>3
<1> HIDE DEF o, m
<1>5. CASE v = "abort" /\ m.phase = "verification"
  <2>1. proc' = [proc EXCEPT ![p] = m]
    BY <1>4, <1>5
  <2> WITNESS m
  <2> QED BY <2>1, <1>2, <1>3 DEF Becomes, SameLists, o
<1>6. CASE v = "abort" /\ m.phase # "verification"
  <2>1. proc' = [proc EXCEPT ![p] = Idle] /\ Idle.phase = "idle"
    BY <1>4, <1>6 DEF Idle
  <2> WITNESS Idle
  <2> QED BY <2>1, IdleBlank DEF Becomes
<1>7. CASE m.phase = "batch" /\ v \in {"applied", "dup"}
  <2>1. proc' = [proc EXCEPT ![p] = r]
    BY <1>4, <1>7
  <2>2. r \in Memory /\ r.phase = m.phase /\ r.base = m.base /\ r.sealed = m.sealed /\ r.todo = m.todo
        /\ r.cur = {} /\ r.done = m.done \cup {i}
    BY ONLY <1>2, <1>7, i \in Ids DEF Record, Holds, Memory
  <2> HIDE DEF r
  <2> WITNESS r
  <2> QED BY <2>1, <2>2, <1>2, <1>7 DEF Becomes, SameLists, o
<1>8. CASE v # "abort" /\ ~(m.phase = "batch" /\ v \in {"applied", "dup"})
  <2>1. proc' = [proc EXCEPT ![p] = h]
    BY <1>4, <1>8
  <2>2. h \in Memory /\ h.phase = m.phase /\ h.base = m.base /\ h.sealed = m.sealed /\ h.todo = m.todo
        /\ h.cur = {i} /\ h.verdict = v /\ h.done = m.done
    BY ONLY <1>2, <1>3, i \in Ids DEF Memory
  <2> HIDE DEF h
  <2> WITNESS h
  <2> QED BY <2>1, <2>2, <1>2 DEF Becomes, SameLists, o
<1> QED BY <1>5, <1>6, <1>7, <1>8

LEMMA QuarantineMemory ==
    ASSUME TypeOK, NEW p \in Procs, NEW i \in Ids, Quarantine(p, i)
    PROVE  \E q : /\ Becomes(p, q) /\ q.phase = proc[p].phase /\ q.base = proc[p].base /\ q.sealed = proc[p].sealed
                  /\ q.todo = proc[p].todo
                  /\ \/ q.cur = {} /\ q.done = proc[p].done
                     \/ q.cur = {} /\ q.done = proc[p].done \cup {i} /\ proc[p].verdict \notin {"skew", "chain"}
                     \/ q.cur = {i} /\ q.verdict = "quarantined" /\ q.done = proc[p].done
<1> DEFINE m == proc[p]
           v == m.verdict
           r == Record(m, i, v)
           h == [m EXCEPT !.verdict = "quarantined"]
<1>1. proc \in [Procs -> Memory] /\ m \in Memory
  BY DEF TypeOK
<1>2. proc' = [proc EXCEPT ![p] = IF m.phase = "batch" THEN r ELSE h] /\ m.cur = {i}
  BY <1>1 DEF Quarantine
<1> HIDE DEF m
<1>3. CASE m.phase = "batch"
  <2>1. r \in Memory /\ r.phase = m.phase /\ r.base = m.base /\ r.sealed = m.sealed /\ r.todo = m.todo /\ r.cur = {}
    BY ONLY <1>1, i \in Ids DEF Record, Memory
  <2>2. r.done = IF v \in {"skew", "chain"} THEN m.done ELSE m.done \cup {i}
    BY ONLY <1>1 DEF Record, Memory, Holds
  <2>3. proc' = [proc EXCEPT ![p] = r]
    BY <1>2, <1>3
  <2> HIDE DEF r
  <2> WITNESS r
  <2> QED BY <2>1, <2>2, <2>3 DEF Becomes, m
<1>4. CASE m.phase # "batch"
  <2>1. h \in Memory /\ h.phase = m.phase /\ h.base = m.base /\ h.sealed = m.sealed /\ h.todo = m.todo
        /\ h.cur = m.cur /\ h.done = m.done /\ h.verdict = "quarantined"
    BY ONLY <1>1 DEF Memory
  <2>2. proc' = [proc EXCEPT ![p] = h]
    BY <1>2, <1>4
  <2> HIDE DEF h
  <2> WITNESS h
  <2> QED BY <1>2, <2>1, <2>2 DEF Becomes, m
<1> QED BY <1>3, <1>4

LEMMA ResolveRowMemory ==
    ASSUME TypeOK, NEW p \in Procs, NEW i \in Ids, ResolveRow(p, i)
    PROVE  \E q : /\ Becomes(p, q) /\ q.phase = proc[p].phase /\ SameLists(q, proc[p])
                  /\ q.todo = proc[p].todo /\ q.cur = {} /\ q.verdict = "none"
<1> DEFINE m == proc[p]
           q == [m EXCEPT !.cur = {}, !.verdict = "none"]
<1>1. proc \in [Procs -> Memory] /\ m \in Memory
  BY DEF TypeOK
<1>3. proc' = [proc EXCEPT ![p] = q]
  BY <1>1 DEF ResolveRow
<1> HIDE DEF m
<1>4. q \in Memory
  BY ONLY <1>1 DEF Memory
<1>5. q.phase = m.phase /\ SameLists(q, m) /\ q.cur = {} /\ q.verdict = "none" /\ q.todo = m.todo
  BY ONLY <1>1 DEF Memory, SameLists
<1> HIDE DEF q
<1> WITNESS q
<1> QED BY <1>3, <1>4, <1>5 DEF Becomes, m

\* From any cursor there is an end of the consumed run (safeContiguousCursor).
LEMMA RunEnds ==
    ASSUME NEW D \in SUBSET Ids, NEW o \in Origins, NEW n \in 0..StreamLen
    PROVE  \E k \in n..StreamLen : (\A s \in (n + 1)..k : <<o, s>> \in D) /\ <<o, k + 1>> \notin D
<1> DEFINE T == {k \in Nat : n <= k /\ <<o, k + 1>> \notin D}
<1>0. StreamLen \in Nat /\ n \in Nat /\ n <= StreamLen
  BY PullAssumption
<1>1. StreamLen \in T
  BY <1>0 DEF Ids
<1>2. PICK k \in T : \A y \in T : ~(<<y, k>> \in OpToRel(<, Nat))
  BY <1>1, NatLessThanWellFounded, WFMin
<1>3. \A y \in T : ~(y < k)
  BY <1>2 DEF OpToRel
<1>4. k \in Nat /\ n <= k /\ k <= StreamLen /\ <<o, k + 1>> \notin D
  BY <1>0, <1>1, <1>3
<1>5. ASSUME NEW s \in (n + 1)..k PROVE <<o, s>> \in D
  <2>1. s - 1 \in Nat /\ n <= s - 1 /\ s - 1 < k /\ (s - 1) + 1 = s
    BY <1>0, <1>4
  <2>2. s - 1 \notin T
    BY <2>1, <1>3
  <2>3. s - 1 \in T \/ <<o, (s - 1) + 1>> \in D
    BY <2>1
  <2> QED BY <2>1, <2>2, <2>3
<1>6. k \in n..StreamLen
  BY <1>0, <1>4
<1> QED BY <1>4, <1>5, <1>6

LEMMA SafeCursorRun ==
    ASSUME TypeOK, NEW p \in Procs, NEW o \in Origins
    PROVE  /\ SafeCursor(p, o) \in proc[p].base[o]..StreamLen /\ proc[p].base[o] \in 0..StreamLen
           /\ \A s \in (proc[p].base[o] + 1)..SafeCursor(p, o) : <<o, s>> \in proc[p].done
<1> DEFINE D == proc[p].done \ proc[p].stuck
           n == proc[p].base[o]
<1>1. D \subseteq Ids /\ n \in 0..StreamLen
  BY DEF TypeOK, Memory
<1> HIDE DEF D, n
<1>2. \E k \in n..StreamLen : (\A s \in (n + 1)..k : <<o, s>> \in D) /\ <<o, k + 1>> \notin D
  BY <1>1, RunEnds
<1>3. SafeCursor(p, o) = CHOOSE k \in n..StreamLen : (\A s \in (n + 1)..k : <<o, s>> \in D) /\ <<o, k + 1>> \notin D
  BY DEF SafeCursor, D, n
<1>4. SafeCursor(p, o) \in n..StreamLen /\ \A s \in (n + 1)..SafeCursor(p, o) : <<o, s>> \in D
  BY ONLY <1>2, <1>3
<1> QED BY <1>1, <1>4 DEF D, n

LEMMA EndBatchMemory ==
    ASSUME TypeOK, NEW p \in Procs, EndBatch(p)
    PROVE  \E q : /\ Becomes(p, q) /\ q.phase = "advance" /\ SameLists(q, proc[p]) /\ SameHand(q, proc[p])
                  /\ \A t \in q.todo : \A s \in 1..t[2] : s <= proc[p].base[t[1]] \/ <<t[1], s>> \in proc[p].done
<1> DEFINE m == proc[p]
           T == {<<o, SafeCursor(p, o)>> : o \in {x \in Origins : SafeCursor(p, x) > proc[p].base[x]}}
           q == [m EXCEPT !.phase = "advance", !.todo = T]
<1>1. proc \in [Procs -> Memory] /\ m \in Memory
  BY DEF TypeOK
<1>2. ASSUME NEW t \in T
      PROVE  t \in Ids /\ \A s \in 1..t[2] : s <= m.base[t[1]] \/ <<t[1], s>> \in m.done
  <2>1. PICK o \in Origins : t = <<o, SafeCursor(p, o)>> /\ SafeCursor(p, o) > m.base[o]
    OBVIOUS
  <2> DEFINE c == SafeCursor(p, o)
             n == m.base[o]
  <2>2. c \in n..StreamLen /\ n \in 0..StreamLen /\ \A s \in (n + 1)..c : <<o, s>> \in m.done
    BY SafeCursorRun
  <2>3. t[1] = o /\ t[2] = c /\ c > n
    BY <2>1
  <2> HIDE DEF c, n
  <2>4. c \in 1..StreamLen /\ StreamLen \in Nat
    BY ONLY <2>2, <2>3, PullAssumption
  <2>5. t \in Ids
    BY <2>1, <2>4 DEF Ids, c
  <2>6. ASSUME NEW s \in 1..c PROVE s <= n \/ <<o, s>> \in m.done
    BY ONLY <2>2, <2>4, <2>6, s \in 1..c
  <2> QED BY <2>3, <2>5, <2>6 DEF n
<1>3. proc' = [proc EXCEPT ![p] = q]
  BY <1>1 DEF EndBatch
<1> HIDE DEF m, T
<1>4. q \in Memory
  BY ONLY <1>1, <1>2 DEF Memory
<1>5. q.phase = "advance" /\ SameLists(q, m) /\ SameHand(q, m) /\ q.todo = T
  BY ONLY <1>1 DEF Memory, SameLists, SameHand
<1> HIDE DEF q
<1> WITNESS q
<1> QED BY <1>2, <1>3, <1>4, <1>5 DEF Becomes, m

-----------------------------------------------------------------------------
(* Types.                                                                  *)

LEMMA InitType == Init => TypeOK
<1> SUFFICES ASSUME Init PROVE TypeOK
  OBVIOUS
<1>1. PICK w \in Worlds : /\ attr = w.streams /\ hub = w.hub /\ trusted = w.trusted
                          /\ cast = [procs |-> w.procs, deaths |-> w.deaths]
  BY DEF Init
<1>2. w \in [streams : [Ids -> EventAttr], hub : [Origins -> 0..StreamLen],
             trusted : SUBSET Origins, procs : SUBSET Procs, deaths : Nat]
  BY PullAssumption
<1>3. /\ attr \in [Ids -> EventAttr] /\ cast \in [procs : SUBSET Procs, deaths : Nat]
      /\ hub \in [Origins -> 0..StreamLen] /\ trusted \subseteq Origins
  BY <1>1, <1>2
<1>4. granted = HeldEpochs /\ keys = HeldEpochs /\ expired = {} /\ caughtUp = FALSE /\ log = {} /\ rows = {}
      /\ cursor = [o \in Origins |-> 0] /\ proc = [p \in Procs |-> Idle] /\ crashes = 0
  BY DEF Init
<1>5. cursor \in [Origins -> 0..StreamLen] /\ proc \in [Procs -> Memory] /\ crashes \in 0..cast.deaths
  BY <1>3, <1>4, PullAssumption, IdleBlank
<1> QED BY <1>3, <1>4, <1>5, PullAssumption DEF TypeOK

LEMMA BecomesType ==
    ASSUME TypeOK, NEW p \in Procs, \E q : Becomes(p, q)
    PROVE  proc' \in [Procs -> Memory]
  BY DEF TypeOK, Becomes

LEMMA StepType ==
    ASSUME TypeOK, NEW p \in Procs, Step(p)
    PROVE  TypeOK'
<1> USE DEF env
<1>1. CASE ListRows(p)
  <2>1. proc' \in [Procs -> Memory]
    BY <1>1, ListRowsMemory, BecomesType
  <2> QED BY <2>1, <1>1 DEF ListRows, TypeOK
<1>2. ASSUME NEW i \in Ids, SkipReplay(p, i) PROVE TypeOK'
  <2>1. proc' \in [Procs -> Memory]
    BY <1>2, SkipReplayMemory, BecomesType
  <2> QED BY <2>1, <1>2 DEF SkipReplay, TypeOK
<1>3. ASSUME NEW i \in Ids, ApplyEvent(p, i) PROVE TypeOK'
  <2>1. proc' \in [Procs -> Memory]
    BY <1>3, ApplyEventMemory, BecomesType
  <2>2. log' \subseteq log \cup {i} /\ rows' \subseteq rows
    BY <1>3 DEF ApplyEvent
  <2>3. UNCHANGED <<attr, cast, env, keys, trusted, cursor, crashes>>
    BY <1>3 DEF ApplyEvent
  <2> QED BY <2>1, <2>2, <2>3 DEF TypeOK
<1>4. ASSUME NEW i \in Ids, Quarantine(p, i) PROVE TypeOK'
  <2>1. proc' \in [Procs -> Memory]
    BY <1>4, QuarantineMemory, BecomesType
  <2>2. rows' = rows \cup {<<i, RowOf[proc[p].verdict]>>} /\ RowOf[proc[p].verdict] \in RowKinds
    BY <1>4 DEF Quarantine, RowOf, RowKinds, Verdicts
  <2>3. UNCHANGED <<attr, cast, env, keys, trusted, cursor, log, crashes>>
    BY <1>4 DEF Quarantine
  <2> QED BY <2>1, <2>2, <2>3 DEF TypeOK
<1>5. ASSUME NEW i \in Ids, ResolveRow(p, i) PROVE TypeOK'
  <2>1. proc' \in [Procs -> Memory]
    BY <1>5, ResolveRowMemory, BecomesType
  <2>2. rows' \subseteq rows
    BY <1>5 DEF ResolveRow
  <2>3. UNCHANGED <<attr, cast, env, keys, trusted, cursor, log, crashes>>
    BY <1>5 DEF ResolveRow
  <2> QED BY <2>1, <2>2, <2>3 DEF TypeOK
<1>6. CASE BeginBatch(p)
  <2>1. proc' \in [Procs -> Memory]
    BY <1>6, BeginBatchMemory, BecomesType
  <2> QED BY <2>1, <1>6 DEF BeginBatch, TypeOK
<1>7. CASE EndBatch(p)
  <2>1. proc' \in [Procs -> Memory]
    BY <1>7, EndBatchMemory, BecomesType
  <2>2. UNCHANGED <<attr, cast, env, keys, trusted, cursor, log, rows, crashes>>
    BY <1>7 DEF EndBatch
  <2> QED BY <2>1, <2>2 DEF TypeOK
<1>8. CASE BeginPending(p) \/ Finish(p)
  <2>1. proc' \in [Procs -> Memory]
    BY <1>8, RestMemory, BecomesType
  <2> QED BY <2>1, <1>8 DEF BeginPending, Finish, TypeOK
<1>9. ASSUME NEW t \in Ids, AdvanceCursor(p, t) PROVE TypeOK'
  <2>1. proc' \in [Procs -> Memory]
    BY <1>9, AdvanceMemory, BecomesType
  <2>2. cursor' = [cursor EXCEPT ![t[1]] = ForwardOnly(cursor[t[1]], t[2])] /\ t[1] \in Origins /\ t[2] \in 0..StreamLen
    BY <1>9, PullAssumption DEF AdvanceCursor, Ids
  <2>3. cursor' \in [Origins -> 0..StreamLen]
    BY <2>2 DEF TypeOK, ForwardOnly
  <2>4. UNCHANGED <<attr, cast, env, keys, trusted, log, rows, crashes>>
    BY <1>9 DEF AdvanceCursor
  <2> QED BY <2>1, <2>3, <2>4 DEF TypeOK
<1> QED BY <1>1, <1>2, <1>3, <1>4, <1>5, <1>6, <1>7, <1>8, <1>9 DEF Step

LEMMA NextType == TypeOK /\ [Next]_vars => TypeOK'
<1> SUFFICES ASSUME TypeOK, [Next]_vars PROVE TypeOK'
  OBVIOUS
<1> USE DEF env
<1>1. CASE UNCHANGED vars
  BY <1>1 DEF vars, TypeOK
<1>2. ASSUME NEW o \in Origins, Publish(o) PROVE TypeOK'
  <2>1. hub' = [hub EXCEPT ![o] = hub[o] + 1] /\ hub[o] < StreamLen /\ hub \in [Origins -> 0..StreamLen]
    BY <1>2 DEF Publish, TypeOK
  <2>2. hub' \in [Origins -> 0..StreamLen]
    BY <2>1, PullAssumption
  <2> QED BY <2>2, <1>2 DEF Publish, TypeOK
<1>3. ASSUME NEW e \in Epochs, PostGrant(e) \/ GraceExpires(e) PROVE TypeOK'
  BY <1>3 DEF PostGrant, GraceExpires, TypeOK
<1>4. CASE ClockCatchesUp
  BY <1>4 DEF ClockCatchesUp, TypeOK
<1>5. ASSUME NEW p \in Procs, Pull(p) PROVE TypeOK'
  <2>1. proc' \in [Procs -> Memory]
    BY <1>5, PullMemory, BecomesType
  <2>2. keys' = keys \cup granted /\ UNCHANGED <<attr, cast, env, trusted, cursor, log, rows, crashes>>
    BY <1>5 DEF Pull
  <2> QED BY <2>1, <2>2 DEF TypeOK
<1>6. ASSUME NEW p \in Procs, Step(p) PROVE TypeOK'
  BY <1>6, StepType
<1>7. ASSUME NEW p \in Procs, Crash(p) PROVE TypeOK'
  <2>1. proc' \in [Procs -> Memory]
    BY <1>7, RestMemory, BecomesType
  <2>2. crashes' = crashes + 1 /\ crashes < cast.deaths /\ crashes \in 0..cast.deaths /\ cast.deaths \in Nat
    BY <1>7 DEF Crash, TypeOK
  <2>3. crashes' \in 0..cast.deaths
    BY <2>2
  <2>4. UNCHANGED <<attr, cast, env, keys, trusted, cursor, log, rows>>
    BY <1>7 DEF Crash
  <2> QED BY <2>1, <2>3, <2>4 DEF TypeOK
<1>8. ASSUME NEW p \in Procs, NEW o \in Origins, Approve(p, o) PROVE TypeOK'
  <2>1. proc' \in [Procs -> Memory]
    BY <1>8, ApproveMemory, BecomesType
  <2>2. trusted' = trusted \cup {o} /\ UNCHANGED <<attr, cast, env, keys, cursor, log, rows, crashes>>
    BY <1>8 DEF Approve
  <2> QED BY <2>1, <2>2 DEF TypeOK
<1> QED BY <1>1, <1>2, <1>3, <1>4, <1>5, <1>6, <1>7, <1>8 DEF Next

-----------------------------------------------------------------------------
(* What a pull may lose.                                                   *)

\* Sealed under a key this device did not hold from the start, or damaged.
Late(i, a) == a[i].epoch \notin HeldEpochs \/ a[i].fault = "corrupt"

\* In the log l, in a row of r that only its arrival in the log resolves, never
\* to be accepted, or flagged as a broken chain after its key came late.
Settled(i, a, l, r) ==
    \/ i \in l
    \/ <<i, "verification">> \in r \/ <<i, "pending">> \in r
    \/ a[i].fault = "implausible"
    \/ a[i].epoch \notin HeldEpochs /\ <<i, "chain">> \in r

Kept(i, a, l, r) == Settled(i, a, l, r) \/ <<i, "undecryptable">> \in r

\* The lists m of a command are honest: it pulled from cursors that were there,
\* what it consumed is kept, and so is all below the cursors it will write.
ListsHonest(m, a, l, r, c) ==
    /\ \A o \in Origins : m.base[o] <= c[o]
    /\ \A i \in m.done : Kept(i, a, l, r)
    /\ m.phase = "advance" => \A t \in m.todo : \A s \in 1..t[2] : Kept(<<t[1], s>>, a, l, r)
    /\ \A i \in m.sealed : Late(i, a)
    /\ m.phase = "undecryptable" => \A i \in m.todo : Late(i, a)

\* So is its verdict on the event whose second transaction is still to come.
HandHonest(m, a, l, r) ==
    \A i \in m.cur :
        /\ m.verdict \in {"applied", "dup"} => i \in l
        /\ m.verdict = "implausible" => a[i].fault = "implausible"
        /\ m.verdict = "undecryptable" => Late(i, a)
        /\ m.phase = "undecryptable" =>
               /\ m.verdict \notin {"undecryptable", "skew"}
               /\ m.verdict = "chain" => a[i].epoch \notin HeldEpochs
               /\ m.verdict = "quarantined" => Settled(i, a, l, r)

\* Everything at or below a cursor is in the log, in a row some replay works on
\* or never to be accepted, except an event whose key came late and which was
\* flagged as a broken chain when it was recovered (ReplayUndecryptableConflicts
\* closes its row all the same).
OnlyLateChainsLost == \A i \in Ids : i[2] <= cursor[i[1]] => Kept(i, attr, log, rows)

StrandInv ==
    /\ TypeOK /\ HeldEpochs \subseteq keys
    /\ OnlyLateChainsLost
    /\ \A i \in Ids : <<i, "undecryptable">> \in rows => Late(i, attr)
    /\ \A p \in Procs : ListsHonest(proc[p], attr, log, rows, cursor) /\ HandHonest(proc[p], attr, log, rows)

\* Nothing that is kept is let go, no cursor goes back, no key is forgotten.
Stable ==
    /\ attr' = attr /\ log \subseteq log' /\ HeldEpochs \subseteq keys'
    /\ \A o \in Origins : cursor'[o] >= cursor[o]
    /\ \A i \in Ids : /\ Settled(i, attr, log, rows) => Settled(i, attr, log', rows')
                      /\ Kept(i, attr, log, rows) => Kept(i, attr, log', rows')

\* A row may go when its event is in the log; the row of an undecryptable
\* carrier already when the event is settled otherwise.
LEMMA Stability ==
    ASSUME attr' = attr, log \subseteq log', HeldEpochs \subseteq keys', \A o \in Origins : cursor'[o] >= cursor[o],
           \A i \in Ids : \A k \in RowKinds : <<i, k>> \in rows /\ <<i, k>> \notin rows' =>
               i \in log' \/ k = "skew" \/ (k = "undecryptable" /\ Settled(i, attr, log', rows'))
    PROVE  Stable
<1>1. ASSUME NEW i \in Ids, Settled(i, attr, log, rows) PROVE Settled(i, attr, log', rows')
  <2>1. CASE i \in log
    BY <2>1 DEF Settled
  <2>2. CASE <<i, "verification">> \in rows
    BY <2>2 DEF Settled, RowKinds
  <2>3. CASE <<i, "pending">> \in rows
    BY <2>3 DEF Settled, RowKinds
  <2>4. CASE attr[i].fault = "implausible"
    BY <2>4 DEF Settled
  <2>5. CASE attr[i].epoch \notin HeldEpochs /\ <<i, "chain">> \in rows
    <3>1. <<i, "chain">> \in rows' \/ i \in log'
      BY <2>5 DEF RowKinds
    <3> QED BY <2>5, <3>1 DEF Settled
  <2> QED BY ONLY <1>1, <2>1, <2>2, <2>3, <2>4, <2>5 DEF Settled
<1>2. ASSUME NEW i \in Ids, Kept(i, attr, log, rows) PROVE Kept(i, attr, log', rows')
  <2>1. i \in log' => Settled(i, attr, log', rows')
    BY DEF Settled
  <2>2. CASE <<i, "undecryptable">> \in rows
    <3>1. <<i, "undecryptable">> \in rows' \/ i \in log' \/ Settled(i, attr, log', rows')
      BY <2>2 DEF RowKinds
    <3> QED BY <2>1, <3>1 DEF Kept
  <2> QED BY <1>1, <1>2, <2>2 DEF Kept
<1> QED BY <1>1, <1>2 DEF Stable

\* What a command relies on survives a step that is not its own.
LEMMA HonestStays ==
    ASSUME NEW a, NEW l, NEW r, NEW c, NEW x, NEW y, NEW z, l \subseteq x,
           c \in [Origins -> 0..StreamLen], z \in [Origins -> 0..StreamLen], \A o \in Origins : z[o] >= c[o],
           \A i \in Ids : /\ Settled(i, a, l, r) => Settled(i, a, x, y)
                          /\ Kept(i, a, l, r) => Kept(i, a, x, y),
           NEW m \in Memory, ListsHonest(m, a, l, r, c), HandHonest(m, a, l, r)
    PROVE  ListsHonest(m, a, x, y, z) /\ HandHonest(m, a, x, y)
<1>1. /\ m.base \in [Origins -> 0..StreamLen] /\ m.done \subseteq Ids /\ m.todo \subseteq Ids /\ m.cur \subseteq Ids
  BY DEF Memory
<1>2. \A o \in Origins : m.base[o] <= z[o]
  <2> TAKE o \in Origins
  <2>1. m.base[o] <= c[o] /\ c[o] <= z[o]
    BY DEF ListsHonest
  <2>2. m.base[o] \in Nat /\ c[o] \in Nat /\ z[o] \in Nat
    BY <1>1
  <2> QED BY <2>1, <2>2
<1>3. \A i \in m.done : Kept(i, a, x, y)
  BY <1>1 DEF ListsHonest
<1>4. ASSUME m.phase = "advance", NEW t \in m.todo, NEW s \in 1..t[2] PROVE Kept(<<t[1], s>>, a, x, y)
  <2>1. Kept(<<t[1], s>>, a, l, r)
    BY <1>4 DEF ListsHonest
  <2>2. <<t[1], s>> \in Ids
    BY <1>1, PullAssumption DEF Ids
  <2> QED BY <2>1, <2>2
<1>5. ListsHonest(m, a, x, y, z)
  BY <1>2, <1>3, <1>4 DEF ListsHonest
<1>6. HandHonest(m, a, x, y)
  BY <1>1 DEF HandHonest
<1> QED BY <1>5, <1>6

\* One command's step: its own memory is what is left to show.
LEMMA StrandStep ==
    ASSUME StrandInv, TypeOK', Stable, OnlyLateChainsLost',
           \A i \in Ids : <<i, "undecryptable">> \in rows' => Late(i, attr),
           NEW p \in Procs, NEW q, Becomes(p, q),
           ListsHonest(q, attr, log', rows', cursor'), HandHonest(q, attr, log', rows')
    PROVE  StrandInv'
<1>1. ASSUME NEW x \in Procs
      PROVE  ListsHonest(proc'[x], attr, log', rows', cursor') /\ HandHonest(proc'[x], attr, log', rows')
  <2>1. CASE x = p
    <3>1. proc'[p] = q
      BY DEF Becomes, StrandInv, TypeOK
    <3> QED BY <2>1, <3>1
  <2>2. CASE x # p
    <3>1. proc'[x] = proc[x] /\ proc[x] \in Memory
      BY <2>2 DEF Becomes, StrandInv, TypeOK
    <3>2. cursor \in [Origins -> 0..StreamLen] /\ cursor' \in [Origins -> 0..StreamLen]
      BY DEF StrandInv, TypeOK
    <3>3. ListsHonest(proc[x], attr, log, rows, cursor) /\ HandHonest(proc[x], attr, log, rows)
      BY DEF StrandInv
    <3>4. /\ log \subseteq log' /\ \A o \in Origins : cursor'[o] >= cursor[o]
          /\ \A i \in Ids : /\ Settled(i, attr, log, rows) => Settled(i, attr, log', rows')
                            /\ Kept(i, attr, log, rows) => Kept(i, attr, log', rows')
      BY DEF Stable
    <3>5. ListsHonest(proc[x], attr, log', rows', cursor') /\ HandHonest(proc[x], attr, log', rows')
      BY ONLY <3>1, <3>2, <3>3, <3>4, HonestStays
    <3> QED BY <3>1, <3>5
  <2> QED BY <2>1, <2>2
<1>2. attr' = attr /\ HeldEpochs \subseteq keys'
  BY DEF Stable
<1> QED BY <1>1, <1>2 DEF StrandInv

\* A step that writes no cursor loses nothing below one.
LEMMA BelowCursors ==
    ASSUME StrandInv, Stable, cursor' = cursor
    PROVE  OnlyLateChainsLost'
<1>1. ASSUME NEW i \in Ids, i[2] <= cursor'[i[1]] PROVE Kept(i, attr', log', rows')
  BY <1>1 DEF StrandInv, OnlyLateChainsLost, Stable
<1> QED BY <1>1 DEF OnlyLateChainsLost

\* A step that leaves the tables alone.
LEMMA QuietStep ==
    ASSUME StrandInv, TypeOK', UNCHANGED <<attr, cursor, log, rows>>, keys \subseteq keys',
           NEW p \in Procs, NEW q, Becomes(p, q),
           ListsHonest(q, attr, log, rows, cursor), HandHonest(q, attr, log, rows)
    PROVE  StrandInv'
<1>1. \A o \in Origins : cursor'[o] >= cursor[o]
  BY DEF StrandInv, TypeOK
<1>2. Stable
  BY <1>1, Stability DEF StrandInv
<1>3. OnlyLateChainsLost'
  BY <1>2, BelowCursors
<1>4. \A i \in Ids : <<i, "undecryptable">> \in rows' => Late(i, attr)
  BY DEF StrandInv
<1>5. ListsHonest(q, attr, log', rows', cursor') /\ HandHonest(q, attr, log', rows')
  OBVIOUS
<1> QED BY <1>2, <1>3, <1>4, <1>5, StrandStep

\* A command that holds nothing owes nothing.
LEMMA BlankHonest ==
    ASSUME StrandInv, NEW q, Blank(q)
    PROVE  ListsHonest(q, attr, log, rows, cursor) /\ HandHonest(q, attr, log, rows)
<1>1. \A o \in Origins : cursor[o] >= 0
  BY DEF StrandInv, TypeOK
<1> QED BY <1>1 DEF Blank, ListsHonest, HandHonest

LEMMA VerdictFacts ==
    ASSUME NEW i \in Ids, NEW b \in BOOLEAN, NEW v, v = Verdict(i, b)
    PROVE  /\ v = "undecryptable" => b
           /\ v = "implausible" => attr[i].fault = "implausible"
           /\ v = "skew" => TooFarAhead(i)
           /\ v = "dup" => i \in log
           /\ v \in {"dup", "applied", "chain"} => attr[i].fault # "implausible" /\ ~TooFarAhead(i)
           /\ v = "chain" => ChainBroken(i)
           /\ v \in {"dup", "applied"} => ~ChainBroken(i)
           /\ v \in Verdicts
  BY DEF Verdict, Verdicts

\* Below the cursors: at the start nothing, no row, no list.
LEMMA StrandInit == Init => StrandInv
<1> SUFFICES ASSUME Init PROVE StrandInv
  OBVIOUS
<1>1. TypeOK
  BY InitType
<1>2. keys = HeldEpochs /\ rows = {} /\ cursor = [o \in Origins |-> 0] /\ proc = [p \in Procs |-> Idle]
  BY DEF Init
<1>3. ASSUME NEW i \in Ids PROVE ~(i[2] <= cursor[i[1]])
  BY <1>2, PullAssumption DEF Ids
<1>4. ASSUME NEW p \in Procs
      PROVE  ListsHonest(proc[p], attr, log, rows, cursor) /\ HandHonest(proc[p], attr, log, rows)
  <2>1. proc[p] = Idle /\ Blank(Idle) /\ \A o \in Origins : cursor[o] = 0
    BY <1>2, IdleBlank
  <2>2. Idle.phase = "idle"
    BY DEF Idle
  <2> QED BY <2>1, <2>2 DEF Blank, ListsHonest, HandHonest
<1> QED BY <1>1, <1>2, <1>3, <1>4 DEF StrandInv, OnlyLateChainsLost

\* Pull: from here on the command owes what lies beyond these cursors only.
LEMMA StrandPull ==
    ASSUME StrandInv, TypeOK', NEW p \in Procs, Pull(p)
    PROVE  StrandInv'
<1>0. TypeOK
  BY DEF StrandInv
<1>1. PICK q : /\ Becomes(p, q) /\ q.phase = "undecryptable" /\ q.base = cursor
               /\ q.todo = {} /\ q.done = {} /\ q.cur = {} /\ q.verdict = "none"
               /\ \A i \in q.sealed : ~Decryptable(i, keys')
  BY <1>0, PullMemory
<1>2. keys \subseteq keys' /\ UNCHANGED <<attr, cursor, log, rows>>
  BY DEF Pull
<1>3. \A i \in q.sealed : Late(i, attr)
  BY <1>1, <1>2 DEF StrandInv, Decryptable, Late
<1>4. \A o \in Origins : q.base[o] <= cursor[o]
  BY <1>0, <1>1 DEF TypeOK
<1>5. ListsHonest(q, attr, log, rows, cursor) /\ HandHonest(q, attr, log, rows)
  BY <1>1, <1>3, <1>4 DEF ListsHonest, HandHonest
<1> QED BY <1>1, <1>2, <1>5, QuietStep

\* Approve and the ends of a command leave it with nothing.
LEMMA StrandBlank ==
    ASSUME StrandInv, TypeOK', NEW p \in Procs,
           (\E o \in Origins : Approve(p, o)) \/ BeginPending(p) \/ Finish(p) \/ Crash(p)
    PROVE  StrandInv'
<1>0. TypeOK
  BY DEF StrandInv
<1>1. PICK q : Becomes(p, q) /\ Blank(q) /\ q.phase \in {"verification", "idle", "pending"}
  BY <1>0, ApproveMemory, RestMemory
<1>2. keys' = keys /\ UNCHANGED <<attr, cursor, log, rows>>
  BY DEF Approve, BeginPending, Finish, Crash
<1> QED BY <1>1, <1>2, BlankHonest, QuietStep

\* The lists a command reads, walks and passes on.
LEMMA StrandLists ==
    ASSUME StrandInv, TypeOK', NEW p \in Procs,
           ListRows(p) \/ (\E i \in Ids : SkipReplay(p, i)) \/ BeginBatch(p) \/ EndBatch(p)
    PROVE  StrandInv'
<1>0. TypeOK /\ ListsHonest(proc[p], attr, log, rows, cursor) /\ HandHonest(proc[p], attr, log, rows)
  BY DEF StrandInv
<1>1. keys' = keys /\ UNCHANGED <<attr, cursor, log, rows>>
  BY DEF ListRows, SkipReplay, BeginBatch, EndBatch
<1>2. CASE ListRows(p)
  <2>1. PICK q : /\ Becomes(p, q) /\ q.phase = proc[p].phase /\ SameLists(q, proc[p]) /\ SameHand(q, proc[p])
                 /\ \A i \in q.todo : <<i, q.phase>> \in rows
    BY <1>0, <1>2, ListRowsMemory
  <2>2. proc[p].phase \in Replays /\ q.todo \subseteq Ids
    BY <1>2, <2>1 DEF ListRows, Becomes, Memory
  <2>3. ListsHonest(q, attr, log, rows, cursor)
    <3>1. q.phase = "undecryptable" => \A i \in q.todo : Late(i, attr)
      BY <2>1, <2>2 DEF StrandInv
    <3>2. q.phase # "advance"
      BY <2>1, <2>2 DEF Replays
    <3> QED BY <1>0, <2>1, <3>1, <3>2 DEF ListsHonest, SameLists
  <2>4. HandHonest(q, attr, log, rows)
    BY <1>0, <2>1 DEF HandHonest, SameHand
  <2> QED BY <1>1, <2>1, <2>3, <2>4, QuietStep
<1>3. ASSUME NEW i \in Ids, SkipReplay(p, i) PROVE StrandInv'
  <2>1. PICK q : /\ Becomes(p, q) /\ q.phase = proc[p].phase /\ SameLists(q, proc[p]) /\ SameHand(q, proc[p])
                 /\ q.todo \subseteq proc[p].todo
    BY <1>0, <1>3, SkipReplayMemory
  <2>3. ListsHonest(q, attr, log, rows, cursor)
    BY <1>0, <2>1 DEF ListsHonest, SameLists
  <2>4. HandHonest(q, attr, log, rows)
    BY <1>0, <2>1 DEF HandHonest, SameHand
  <2> QED BY <1>1, <2>1, <2>3, <2>4, QuietStep
<1>4. CASE BeginBatch(p)
  <2>1. PICK q : Becomes(p, q) /\ q.phase = "batch" /\ SameLists(q, proc[p]) /\ SameHand(q, proc[p])
    BY <1>0, <1>4, BeginBatchMemory
  <2>3. ListsHonest(q, attr, log, rows, cursor)
    BY <1>0, <2>1 DEF ListsHonest, SameLists
  <2>4. HandHonest(q, attr, log, rows)
    BY <1>0, <2>1 DEF HandHonest, SameHand
  <2> QED BY <1>1, <2>1, <2>3, <2>4, QuietStep
<1>5. CASE EndBatch(p)
  <2>1. PICK q : /\ Becomes(p, q) /\ q.phase = "advance" /\ SameLists(q, proc[p]) /\ SameHand(q, proc[p])
                 /\ \A t \in q.todo : \A s \in 1..t[2] : s <= proc[p].base[t[1]] \/ <<t[1], s>> \in proc[p].done
    BY <1>0, <1>5, EndBatchMemory
  <2>2. ASSUME NEW t \in q.todo, NEW s \in 1..t[2] PROVE Kept(<<t[1], s>>, attr, log, rows)
    <3>1. t \in Ids
      BY <2>1 DEF Becomes, Memory
    <3>2. t[1] \in Origins /\ s \in 1..StreamLen /\ s \in Nat /\ <<t[1], s>> \in Ids
      BY <3>1, PullAssumption DEF Ids
    <3>3. CASE <<t[1], s>> \in proc[p].done
      BY <1>0, <3>3 DEF ListsHonest
    <3>4. CASE s <= proc[p].base[t[1]]
      <4>1. proc[p].base[t[1]] <= cursor[t[1]]
        BY <1>0, <3>2 DEF ListsHonest
      <4>2. proc[p].base[t[1]] \in Nat /\ cursor[t[1]] \in Nat
        BY <1>0, <3>2 DEF TypeOK, Memory
      <4>3. s <= cursor[t[1]]
        BY <3>2, <3>4, <4>1, <4>2
      <4> QED BY <3>2, <4>3 DEF StrandInv, OnlyLateChainsLost
    <3> QED BY <2>1, <3>3, <3>4
  <2>3. ListsHonest(q, attr, log, rows, cursor)
    BY <1>0, <2>1, <2>2 DEF ListsHonest, SameLists
  <2>4. HandHonest(q, attr, log, rows)
    BY <1>0, <2>1 DEF HandHonest, SameHand
  <2> QED BY <1>1, <2>1, <2>3, <2>4, QuietStep
<1> QED BY <1>2, <1>3, <1>4, <1>5

\* A cursor is written over what the batch consumed or found consumed.
LEMMA StrandAdvance ==
    ASSUME StrandInv, TypeOK', NEW p \in Procs, NEW t \in Ids, AdvanceCursor(p, t)
    PROVE  StrandInv'
<1>0. TypeOK /\ ListsHonest(proc[p], attr, log, rows, cursor) /\ HandHonest(proc[p], attr, log, rows)
  BY DEF StrandInv
<1>1. PICK q : /\ Becomes(p, q) /\ q.phase = proc[p].phase /\ SameLists(q, proc[p]) /\ SameHand(q, proc[p])
               /\ q.todo \subseteq proc[p].todo
  BY <1>0, AdvanceMemory
<1>2. /\ cursor' = [cursor EXCEPT ![t[1]] = ForwardOnly(cursor[t[1]], t[2])] /\ keys' = keys
      /\ UNCHANGED <<attr, log, rows>> /\ proc[p].phase = "advance" /\ t \in proc[p].todo
  BY DEF AdvanceCursor
<1>3. t[1] \in Origins /\ t[2] \in Nat /\ cursor \in [Origins -> 0..StreamLen]
  BY <1>0, PullAssumption DEF Ids, TypeOK
<1>4. \A o \in Origins : cursor'[o] >= cursor[o] /\ cursor'[o] = IF o = t[1] /\ t[2] > cursor[o] THEN t[2] ELSE cursor[o]
  BY <1>2, <1>3, PullAssumption DEF ForwardOnly
<1>5. Stable
  BY <1>2, <1>4, Stability DEF StrandInv
<1>6. ASSUME NEW i \in Ids, i[2] <= cursor'[i[1]] PROVE Kept(i, attr, log, rows)
  <2>1. i[1] \in Origins /\ i[2] \in Nat /\ i[2] >= 1 /\ i = <<i[1], i[2]>>
    BY PullAssumption DEF Ids
  <2>2. CASE cursor'[i[1]] = cursor[i[1]]
    BY <1>6, <2>2 DEF StrandInv, OnlyLateChainsLost
  <2>3. CASE cursor'[i[1]] # cursor[i[1]]
    <3>1. i[1] = t[1] /\ cursor'[i[1]] = t[2]
      BY <1>4, <2>1, <2>3
    <3>2. i[2] \in 1..t[2]
      BY <1>3, <1>6, <2>1, <3>1
    <3>3. Kept(<<t[1], i[2]>>, attr, log, rows)
      BY <1>0, <1>2, <3>2 DEF ListsHonest
    <3> QED BY <2>1, <3>1, <3>3
  <2> QED BY <2>2, <2>3
<1>7. OnlyLateChainsLost'
  BY <1>2, <1>6 DEF OnlyLateChainsLost
<1>8. ListsHonest(q, attr, log, rows, cursor) /\ HandHonest(q, attr, log, rows)
  BY <1>0, <1>1 DEF ListsHonest, HandHonest, SameLists, SameHand
<1>9. ListsHonest(q, attr, log', rows', cursor') /\ HandHonest(q, attr, log', rows')
  <2>1. q \in Memory /\ cursor' \in [Origins -> 0..StreamLen] /\ log' = log /\ rows' = rows
    BY <1>1, <1>2 DEF Becomes, TypeOK
  <2>2. \A o \in Origins : cursor'[o] >= cursor[o]
    BY <1>4
  <2> QED BY ONLY <1>3, <1>8, <2>1, <2>2, HonestStays
<1>10. \A i \in Ids : <<i, "undecryptable">> \in rows' => Late(i, attr)
  BY <1>2 DEF StrandInv
<1> QED BY <1>1, <1>5, <1>7, <1>9, <1>10, StrandStep

\* An event goes through the gates.
LEMMA StrandApply ==
    ASSUME StrandInv, TypeOK', NEW p \in Procs, NEW i \in Ids, ApplyEvent(p, i)
    PROVE  StrandInv'
<1> DEFINE m == proc[p]
           b == m.phase = "batch" /\ i \in m.sealed
           v == Verdict(i, b)
<1>0. TypeOK /\ ListsHonest(m, attr, log, rows, cursor) /\ HandHonest(m, attr, log, rows) /\ m \in Memory
  BY DEF StrandInv, TypeOK
<1>1. PICK q : /\ Becomes(p, q)
               /\ \/ Blank(q) /\ q.phase = "idle"
                  \/ /\ q.phase = m.phase /\ q.base = m.base /\ q.sealed = m.sealed
                     /\ q.todo \subseteq m.todo
                     /\ \/ q.cur = {} /\ q.done = m.done
                        \/ q.cur = {} /\ q.done = m.done \cup {i} /\ v \in {"applied", "dup"}
                        \/ q.cur = {i} /\ q.verdict = v /\ q.done = m.done
  BY <1>0, ApplyEventMemory
<1>2. /\ log' = IF v = "applied" THEN log \cup {i} ELSE log
      /\ rows' = IF v = "applied" THEN rows \ WaitingRows(i) ELSE rows
  <2>1. [m EXCEPT !.todo = @ \ {i}].phase = m.phase /\ [m EXCEPT !.todo = @ \ {i}].sealed = m.sealed
    BY <1>0 DEF Memory
  <2> QED BY <2>1 DEF ApplyEvent
<1>3. keys' = keys /\ UNCHANGED <<attr, cursor>> /\ m.phase \in Replays \cup {"batch"} /\ i \in m.todo
      /\ ~PassOver(p, i)
  BY DEF ApplyEvent, IsNext
<1>4. /\ v = "undecryptable" => b
      /\ v = "implausible" => attr[i].fault = "implausible"
      /\ v = "skew" => TooFarAhead(i)
      /\ v = "dup" => i \in log
      /\ v \in Verdicts
  BY VerdictFacts
<1> HIDE DEF v
<1>5. v \in {"applied", "dup"} => i \in log'
  BY <1>2, <1>4
<1>6. Stable
  <2>1. \A o \in Origins : cursor'[o] >= cursor[o]
    BY <1>0, <1>3 DEF TypeOK
  <2>2. ASSUME NEW j \in Ids, NEW k \in RowKinds, <<j, k>> \in rows, <<j, k>> \notin rows' PROVE j \in log'
    BY <1>2, <2>2 DEF WaitingRows
  <2>3. log \subseteq log' /\ HeldEpochs \subseteq keys'
    BY <1>2, <1>3 DEF StrandInv
  <2> QED BY <1>3, <2>1, <2>2, <2>3, Stability
<1>7. OnlyLateChainsLost'
  BY <1>3, <1>6, BelowCursors
<1>8. \A j \in Ids : <<j, "undecryptable">> \in rows' => Late(j, attr)
  BY <1>2 DEF StrandInv
<1>9. ListsHonest(m, attr, log', rows', cursor) /\ HandHonest(m, attr, log', rows')
  <2>1. /\ log \subseteq log' /\ \A o \in Origins : cursor[o] >= cursor[o]
        /\ \A j \in Ids : /\ Settled(j, attr, log, rows) => Settled(j, attr, log', rows')
                          /\ Kept(j, attr, log, rows) => Kept(j, attr, log', rows')
    BY <1>0, <1>6 DEF Stable, TypeOK
  <2>2. cursor \in [Origins -> 0..StreamLen]
    BY <1>0 DEF TypeOK
  <2> HIDE DEF m
  <2> QED BY ONLY <1>0, <2>1, <2>2, HonestStays
<1>10. CASE Blank(q) /\ q.phase = "idle"
  <2>1. ListsHonest(q, attr, log', rows', cursor') /\ HandHonest(q, attr, log', rows')
    <3>1. \A o \in Origins : cursor[o] >= 0
      BY <1>0 DEF TypeOK
    <3> QED BY <1>3, <1>10, <3>1 DEF Blank, ListsHonest, HandHonest
  <2> QED BY <1>1, <1>6, <1>7, <1>8, <2>1, StrandStep
<1>11. CASE /\ q.phase = m.phase /\ q.base = m.base /\ q.sealed = m.sealed /\ q.todo \subseteq m.todo
            /\ \/ q.cur = {} /\ q.done = m.done
               \/ q.cur = {} /\ q.done = m.done \cup {i} /\ v \in {"applied", "dup"}
               \/ q.cur = {i} /\ q.verdict = v /\ q.done = m.done
  <2>1. \A j \in q.done : Kept(j, attr, log', rows')
    <3>1. \A j \in m.done : Kept(j, attr, log', rows')
      BY <1>9 DEF ListsHonest
    <3>2. v \in {"applied", "dup"} => Kept(i, attr, log', rows')
      BY <1>5 DEF Kept, Settled
    <3> QED BY <1>11, <3>1, <3>2
  <2>2. ListsHonest(q, attr, log', rows', cursor')
    BY <1>3, <1>9, <1>11, <2>1 DEF ListsHonest
  <2>3. CASE q.cur = {i} /\ q.verdict = v
    <3>1. v = "undecryptable" => Late(i, attr)
      BY <1>0, <1>4 DEF ListsHonest
    <3>2. ASSUME m.phase = "undecryptable"
          PROVE  v \notin {"undecryptable", "skew", "quarantined"} /\ attr[i].epoch \notin HeldEpochs
      <4>1. Decryptable(i, keys) /\ ~TooFarAhead(i)
        BY <1>3, <3>2 DEF PassOver
      <4>2. Late(i, attr)
        BY <1>0, <1>3, <3>2 DEF ListsHonest
      <4>3. attr[i].epoch \notin HeldEpochs
        BY <4>1, <4>2 DEF Late, Decryptable
      <4>4. ~b
        BY <3>2
      <4> QED BY <1>4, <4>1, <4>3, <4>4 DEF Verdicts
    <3>3. HandHonest(q, attr, log', rows')
      BY <1>4, <1>5, <1>11, <2>3, <3>1, <3>2 DEF HandHonest
    <3> QED BY <1>1, <1>6, <1>7, <1>8, <2>2, <3>3, StrandStep
  <2>4. CASE q.cur = {}
    <3>1. HandHonest(q, attr, log', rows')
      BY <2>4 DEF HandHonest
    <3> QED BY <1>1, <1>6, <1>7, <1>8, <2>2, <3>1, StrandStep
  <2> QED BY <1>11, <2>3, <2>4
<1> QED BY <1>1, <1>10, <1>11

\* The second transaction: the slot is consumed only with its row written.
LEMMA StrandQuarantine ==
    ASSUME StrandInv, TypeOK', NEW p \in Procs, NEW i \in Ids, Quarantine(p, i)
    PROVE  StrandInv'
<1> DEFINE m == proc[p]
           v == m.verdict
           k == RowOf[v]
<1>0. TypeOK /\ ListsHonest(m, attr, log, rows, cursor) /\ HandHonest(m, attr, log, rows) /\ m \in Memory
  BY DEF StrandInv, TypeOK
<1>1. PICK q : /\ Becomes(p, q) /\ q.phase = m.phase /\ q.base = m.base /\ q.sealed = m.sealed
               /\ q.todo = m.todo
               /\ \/ q.cur = {} /\ q.done = m.done
                  \/ q.cur = {} /\ q.done = m.done \cup {i} /\ v \notin {"skew", "chain"}
                  \/ q.cur = {i} /\ q.verdict = "quarantined" /\ q.done = m.done
  BY <1>0, QuarantineMemory
<1>2. keys' = keys /\ UNCHANGED <<attr, cursor, log>> /\ rows' = rows \cup {<<i, k>>} /\ m.cur = {i}
  BY DEF Quarantine
<1>3. /\ v \in {"undecryptable", "implausible", "skew", "untrusted", "chain", "malformed", "pending"}
      /\ v \in {"implausible", "skew"} => k = "skew"
      /\ v \in {"untrusted", "malformed"} => k = "verification"
      /\ v \in {"undecryptable", "chain", "pending"} => k = v
  BY DEF Quarantine, RowOf, Verdicts
<1>4. /\ v = "implausible" => attr[i].fault = "implausible"
      /\ v = "undecryptable" => Late(i, attr)
      /\ m.phase = "undecryptable" => v \notin {"undecryptable", "skew"} /\ (v = "chain" => attr[i].epoch \notin HeldEpochs)
  BY <1>0, <1>2 DEF HandHonest
<1> HIDE DEF k
<1>5. <<i, k>> \in rows' /\ rows \subseteq rows'
  BY <1>2
<1>6. v \notin {"undecryptable", "skew", "chain"} \/ (v = "chain" /\ attr[i].epoch \notin HeldEpochs)
      => Settled(i, attr, log', rows')
  BY <1>3, <1>4, <1>5 DEF Settled
<1>7. v \notin {"skew", "chain"} => Kept(i, attr, log', rows')
  BY <1>3, <1>5, <1>6 DEF Kept
<1>8. Stable
  <2>1. \A o \in Origins : cursor'[o] >= cursor[o]
    BY <1>0, <1>2 DEF TypeOK
  <2>2. log \subseteq log' /\ HeldEpochs \subseteq keys'
    BY <1>2 DEF StrandInv
  <2> QED BY <1>2, <1>5, <2>1, <2>2, Stability
<1>9. OnlyLateChainsLost'
  BY <1>2, <1>8, BelowCursors
<1>10. \A j \in Ids : <<j, "undecryptable">> \in rows' => Late(j, attr)
  <2> TAKE j \in Ids
  <2>1. <<j, "undecryptable">> \in rows \/ (j = i /\ k = "undecryptable") \/ <<j, "undecryptable">> \notin rows'
    BY <1>2
  <2>2. k = "undecryptable" => v = "undecryptable"
    BY <1>3
  <2> QED BY <1>4, <2>1, <2>2 DEF StrandInv
<1>11. ListsHonest(m, attr, log', rows', cursor) /\ HandHonest(m, attr, log', rows')
  <2>1. /\ log \subseteq log' /\ \A o \in Origins : cursor[o] >= cursor[o]
        /\ \A j \in Ids : /\ Settled(j, attr, log, rows) => Settled(j, attr, log', rows')
                          /\ Kept(j, attr, log, rows) => Kept(j, attr, log', rows')
    BY <1>0, <1>8 DEF Stable, TypeOK
  <2>2. cursor \in [Origins -> 0..StreamLen]
    BY <1>0 DEF TypeOK
  <2> HIDE DEF m
  <2> QED BY ONLY <1>0, <2>1, <2>2, HonestStays
<1>12. ListsHonest(q, attr, log', rows', cursor')
  <2>1. \A j \in q.done : Kept(j, attr, log', rows')
    BY <1>1, <1>7, <1>11 DEF ListsHonest
  <2> QED BY <1>1, <1>2, <1>11, <2>1 DEF ListsHonest
<1>13. HandHonest(q, attr, log', rows')
  <2>1. CASE q.cur = {}
    BY <2>1 DEF HandHonest
  <2>2. CASE q.cur = {i} /\ q.verdict = "quarantined"
    <3>1. m.phase = "undecryptable" => Settled(i, attr, log', rows')
      BY <1>4, <1>6
    <3> QED BY <1>1, <2>2, <3>1 DEF HandHonest
  <2> QED BY <1>1, <2>1, <2>2
<1> QED BY <1>1, <1>8, <1>9, <1>10, <1>12, <1>13, StrandStep

\* A replay closes the row it worked on.
LEMMA StrandResolve ==
    ASSUME StrandInv, TypeOK', NEW p \in Procs, NEW i \in Ids, ResolveRow(p, i)
    PROVE  StrandInv'
<1> DEFINE m == proc[p]
<1>0. TypeOK /\ ListsHonest(m, attr, log, rows, cursor) /\ HandHonest(m, attr, log, rows) /\ m \in Memory
  BY DEF StrandInv, TypeOK
<1>1. PICK q : /\ Becomes(p, q) /\ q.phase = m.phase /\ SameLists(q, m)
               /\ q.todo = m.todo /\ q.cur = {} /\ q.verdict = "none"
  BY <1>0, ResolveRowMemory
<1>2. /\ keys' = keys /\ UNCHANGED <<attr, cursor, log>> /\ m.cur = {i} /\ m.phase \in Replays
      /\ m.verdict \in {"applied", "dup", "quarantined"}
      /\ rows' = IF MayResolve(p, i) THEN rows \ {<<i, m.phase>>} ELSE rows
  BY DEF ResolveRow
<1>3. MayResolve(p, i) /\ m.phase \in {"verification", "pending"} => i \in log
  BY <1>0, <1>2 DEF MayResolve, HandHonest
<1>4. m.phase = "undecryptable" => Settled(i, attr, log, rows)
  BY <1>0, <1>2 DEF HandHonest, Settled
<1>5. m.phase = "undecryptable" => Settled(i, attr, log', rows')
  BY <1>2, <1>4 DEF Settled
<1>6. Stable
  <2>1. \A o \in Origins : cursor'[o] >= cursor[o]
    BY <1>0, <1>2 DEF TypeOK
  <2>2. log \subseteq log' /\ HeldEpochs \subseteq keys'
    BY <1>2 DEF StrandInv
  <2>3. ASSUME NEW j \in Ids, NEW k \in RowKinds, <<j, k>> \in rows, <<j, k>> \notin rows'
        PROVE  j \in log' \/ (k = "undecryptable" /\ Settled(j, attr, log', rows'))
    <3>1. j = i /\ k = m.phase /\ MayResolve(p, i)
      BY <1>2, <2>3
    <3> QED BY <1>2, <1>3, <1>5, <3>1 DEF Replays
  <2> QED BY <1>2, <2>1, <2>2, <2>3, Stability
<1>7. OnlyLateChainsLost'
  BY <1>2, <1>6, BelowCursors
<1>8. \A j \in Ids : <<j, "undecryptable">> \in rows' => Late(j, attr)
  BY <1>2 DEF StrandInv
<1>9. ListsHonest(m, attr, log', rows', cursor)
  <2>1. /\ log \subseteq log' /\ \A o \in Origins : cursor[o] >= cursor[o]
        /\ \A j \in Ids : /\ Settled(j, attr, log, rows) => Settled(j, attr, log', rows')
                          /\ Kept(j, attr, log, rows) => Kept(j, attr, log', rows')
    BY <1>0, <1>6 DEF Stable, TypeOK
  <2>2. cursor \in [Origins -> 0..StreamLen]
    BY <1>0 DEF TypeOK
  <2> HIDE DEF m
  <2> QED BY ONLY <1>0, <2>1, <2>2, HonestStays
<1>10. ListsHonest(q, attr, log', rows', cursor') /\ HandHonest(q, attr, log', rows')
  BY <1>1, <1>2, <1>9 DEF ListsHonest, HandHonest, SameLists
<1> QED BY <1>1, <1>6, <1>7, <1>8, <1>10, StrandStep

LEMMA StrandNext == StrandInv /\ [Next]_vars => StrandInv'
<1> SUFFICES ASSUME StrandInv, [Next]_vars PROVE StrandInv'
  OBVIOUS
<1>0. TypeOK /\ TypeOK'
  BY NextType DEF StrandInv
<1>1. ASSUME UNCHANGED <<attr, cursor, log, rows, keys, proc>> PROVE StrandInv'
  BY <1>0, <1>1 DEF StrandInv, OnlyLateChainsLost
<1>2. CASE UNCHANGED vars
  BY <1>1, <1>2 DEF vars
<1>3. ASSUME NEW o \in Origins, Publish(o) PROVE StrandInv'
  BY <1>1, <1>3 DEF Publish
<1>4. ASSUME NEW e \in Epochs, PostGrant(e) \/ GraceExpires(e) PROVE StrandInv'
  BY <1>1, <1>4 DEF PostGrant, GraceExpires
<1>5. CASE ClockCatchesUp
  BY <1>1, <1>5 DEF ClockCatchesUp
<1>6. ASSUME NEW p \in Procs, Pull(p) PROVE StrandInv'
  BY <1>0, <1>6, StrandPull
<1>7. ASSUME NEW p \in Procs, Step(p) PROVE StrandInv'
  BY <1>0, <1>7, StrandBlank, StrandLists, StrandAdvance, StrandApply, StrandQuarantine, StrandResolve DEF Step
<1>8. ASSUME NEW p \in Procs, Crash(p) \/ \E o \in Origins : Approve(p, o) PROVE StrandInv'
  BY <1>0, <1>8, StrandBlank
<1> QED BY <1>2, <1>3, <1>4, <1>5, <1>6, <1>7, <1>8 DEF Next

\* Whatever the streams hold, however many commands interleave and die, and
\* whenever keys, clocks and approvals come: the pull of an event is forgotten
\* only when its key came late and its chain was broken then.
THEOREM OnlyLateChainsAreLost == Spec => []OnlyLateChainsLost
<1>1. StrandInv => OnlyLateChainsLost
  BY DEF StrandInv
<1> QED BY <1>1, StrandInit, StrandNext, PTL DEF Spec

\* The streams are those of one of the worlds.
LEMMA Streams == Spec => [](\E w \in Worlds : attr = w.streams)
<1>1. Init => \E w \in Worlds : attr = w.streams
  BY DEF Init
<1>2. (\E w \in Worlds : attr = w.streams) /\ [Next]_vars => (\E w \in Worlds : attr = w.streams)'
  BY StepMoves DEF Moves, vars
<1> QED BY <1>1, <1>2, PTL DEF Spec

\* A device that holds from the start every key its streams are sealed under
\* strands nothing, whatever else is late, damaged or concurrent.
THEOREM NothingStranded ==
    ASSUME \A w \in Worlds : \A i \in Ids : w.streams[i].epoch \in HeldEpochs
    PROVE  Spec => []NoStranding
<1>1. StrandInv /\ (\E w \in Worlds : attr = w.streams) => NoStranding
  <2> SUFFICES ASSUME StrandInv, NEW w \in Worlds, attr = w.streams, NEW i \in Ids, i[2] <= cursor[i[1]]
               PROVE  i \in log \/ (\E k \in Replays : <<i, k>> \in rows) \/ attr[i].fault = "implausible"
    BY DEF NoStranding
  <2>1. attr[i].epoch \in HeldEpochs
    OBVIOUS
  <2>2. Kept(i, attr, log, rows)
    BY DEF StrandInv, OnlyLateChainsLost
  <2> QED BY <2>1, <2>2 DEF Kept, Settled, Replays
<1> QED BY <1>1, StrandInit, StrandNext, Streams, PTL DEF Spec

-----------------------------------------------------------------------------
(* No stale flags.                                                         *)

\* What is in the log passed the gates, its predecessor before it.
Passed(i) ==
    /\ i[2] > 1 => <<i[1], i[2] - 1>> \in log
    /\ attr[i].fault # "implausible" /\ (attr[i].fault = "ahead" => caughtUp)

Waits == {"skew", "chain", "implausible"}

\* Where one process runs, no event of the log is flagged as waiting, and none
\* is in the log that the process is about to flag.
Unflagged(m, l, r) ==
    /\ \A i \in l : <<i, "skew">> \notin r /\ <<i, "chain">> \notin r
    /\ m.verdict \in Waits => \A i \in m.cur : i \notin l

FlagInv ==
    /\ TypeOK
    /\ \A i \in log : Passed(i)
    /\ \A p \in Procs \ cast.procs : proc[p] = Idle
    /\ Cardinality(cast.procs) = 1 => \A p \in Procs : Unflagged(proc[p], log, rows)

\* Of a set of one process every member is that process.
LEMMA OneProcess ==
    ASSUME NEW S \in SUBSET Procs, Cardinality(S) = 1, NEW p \in S, NEW q \in S
    PROVE  p = q
<1>1. IsFiniteSet(S)
  BY PullAssumption, FS_Subset
<1>2. \E x : S = {x}
  BY <1>1, FS_Singleton
<1> QED BY <1>2

LEMMA FlagInit == Init => FlagInv
<1> SUFFICES ASSUME Init PROVE FlagInv
  OBVIOUS
<1>1. TypeOK
  BY InitType
<1>2. log = {} /\ proc = [p \in Procs |-> Idle] /\ Idle.cur = {}
  BY DEF Init, Idle
<1> QED BY <1>1, <1>2 DEF FlagInv, Unflagged

\* A process that is not cast does nothing; neither does one at rest.
LEMMA IdleRests == ASSUME NEW p \in Procs, Step(p) \/ Crash(p) PROVE proc[p] # Idle
<1> SUFFICES ASSUME proc[p] = Idle PROVE FALSE
  OBVIOUS
<1>1. proc[p].phase = "idle" /\ proc[p].cur = {}
  BY DEF Idle
<1>2. ~Crash(p) /\ ~ListRows(p) /\ ~BeginBatch(p) /\ ~EndBatch(p) /\ ~BeginPending(p) /\ ~Finish(p)
  BY <1>1 DEF Crash, ListRows, BeginBatch, EndBatch, BeginPending, Finish, Replays
<1>3. \A i \in Ids : ~SkipReplay(p, i) /\ ~ApplyEvent(p, i) /\ ~Quarantine(p, i) /\ ~ResolveRow(p, i) /\ ~AdvanceCursor(p, i)
  BY <1>1 DEF SkipReplay, ApplyEvent, Quarantine, ResolveRow, AdvanceCursor, Replays
<1> QED BY <1>2, <1>3 DEF Step

\* A step of one cast process: the log and what that process has in hand.
LEMMA FlagStep ==
    ASSUME FlagInv, TypeOK', cast' = cast, NEW p \in cast.procs, NEW q, Becomes(p, q),
           \A i \in log' : Passed(i)',
           Cardinality(cast.procs) = 1 => Unflagged(q, log', rows')
    PROVE  FlagInv'
<1>0. TypeOK /\ p \in Procs /\ cast.procs \subseteq Procs
  BY DEF FlagInv, TypeOK
<1>1. proc'[p] = q /\ \A x \in Procs : x # p => proc'[x] = proc[x]
  BY <1>0 DEF Becomes, TypeOK
<1>2. \A x \in Procs \ cast.procs : proc'[x] = Idle
  BY <1>1 DEF FlagInv
<1>3. ASSUME Cardinality(cast.procs) = 1, NEW x \in Procs PROVE Unflagged(proc'[x], log', rows')
  <2>1. CASE x = p
    BY <1>1, <1>3, <2>1
  <2>2. CASE x # p
    <3>1. x \notin cast.procs
      BY <1>0, <1>3, <2>2, OneProcess
    <3>2. proc'[x].cur = {}
      BY <1>2, <3>1 DEF Idle
    <3> QED BY <1>3, <3>2 DEF Unflagged
  <2> QED BY <2>1, <2>2
<1> QED BY <1>2, <1>3 DEF FlagInv

\* A step that adds nothing to the log and no row, and takes nothing in hand.
LEMMA FlagQuiet ==
    ASSUME FlagInv, TypeOK', UNCHANGED <<attr, cast, caughtUp, log>>, rows' \subseteq rows,
           NEW p \in cast.procs, NEW q, Becomes(p, q), q.cur = {} \/ SameHand(q, proc[p])
    PROVE  FlagInv'
<1>1. \A i \in log' : Passed(i)'
  BY DEF FlagInv, Passed
<1>2. p \in Procs
  BY DEF FlagInv, TypeOK
<1>3. Cardinality(cast.procs) = 1 => Unflagged(q, log', rows')
  BY <1>2 DEF FlagInv, Unflagged, SameHand
<1> QED BY <1>1, <1>3, FlagStep

LEMMA FlagApply ==
    ASSUME FlagInv, TypeOK', NEW p \in Procs, p \in cast.procs, NEW i \in Ids, ApplyEvent(p, i)
    PROVE  FlagInv'
<1> DEFINE m == proc[p]
           b == m.phase = "batch" /\ i \in m.sealed
           v == Verdict(i, b)
<1>0. TypeOK /\ m \in Memory /\ p \in Procs
  BY DEF FlagInv, TypeOK
<1>1. PICK q : Becomes(p, q) /\ (q.cur = {} \/ (q.cur = {i} /\ q.verdict = v))
  <2>1. PICK q : /\ Becomes(p, q)
                 /\ \/ Blank(q) /\ q.phase = "idle"
                    \/ /\ q.phase = m.phase /\ q.base = m.base /\ q.sealed = m.sealed
                       /\ q.todo \subseteq m.todo
                       /\ \/ q.cur = {} /\ q.done = m.done
                          \/ q.cur = {} /\ q.done = m.done \cup {i} /\ v \in {"applied", "dup"}
                          \/ q.cur = {i} /\ q.verdict = v /\ q.done = m.done
    BY <1>0, ApplyEventMemory
  <2> QED BY ONLY <2>1 DEF Blank
<1>2. /\ log' = IF v = "applied" THEN log \cup {i} ELSE log
      /\ rows' = IF v = "applied" THEN rows \ WaitingRows(i) ELSE rows
  <2>1. [m EXCEPT !.todo = @ \ {i}].phase = m.phase /\ [m EXCEPT !.todo = @ \ {i}].sealed = m.sealed
    BY <1>0 DEF Memory
  <2> QED BY <2>1 DEF ApplyEvent
<1>3. UNCHANGED <<attr, cast, caughtUp>>
  BY DEF ApplyEvent, env
<1>4. /\ v = "implausible" => attr[i].fault = "implausible"
      /\ v = "skew" => TooFarAhead(i)
      /\ v = "applied" => attr[i].fault # "implausible" /\ ~TooFarAhead(i) /\ ~ChainBroken(i)
      /\ v = "chain" => ChainBroken(i)
  BY VerdictFacts
<1> HIDE DEF v
<1>5. \A j \in log : Passed(j)'
  BY <1>2, <1>3 DEF FlagInv, Passed
<1>6. v = "applied" => Passed(i)'
  BY <1>2, <1>3, <1>4 DEF Passed, TooFarAhead, ChainBroken
<1>7. \A j \in log' : Passed(j)'
  BY <1>2, <1>5, <1>6
<1>8. ASSUME Cardinality(cast.procs) = 1 PROVE Unflagged(q, log', rows')
  <2>1. \A j \in log : <<j, "skew">> \notin rows /\ <<j, "chain">> \notin rows
    BY <1>0, <1>8 DEF FlagInv, Unflagged
  <2>2. \A j \in log' : <<j, "skew">> \notin rows' /\ <<j, "chain">> \notin rows'
    BY <1>2, <2>1 DEF WaitingRows
  <2>3. ASSUME v \in Waits PROVE i \notin log'
    <3>1. SUFFICES ASSUME i \in log PROVE FALSE
      BY <1>2, <2>3 DEF Waits
    <3>2. Passed(i)
      BY <3>1 DEF FlagInv
    <3> QED BY <1>4, <2>3, <3>2 DEF Waits, Passed, TooFarAhead, ChainBroken
  <2> QED BY <1>1, <2>2, <2>3 DEF Unflagged
<1> QED BY <1>1, <1>3, <1>7, <1>8, FlagStep

LEMMA FlagQuarantine ==
    ASSUME FlagInv, TypeOK', NEW p \in cast.procs, NEW i \in Ids, Quarantine(p, i)
    PROVE  FlagInv'
<1> DEFINE m == proc[p]
           k == RowOf[m.verdict]
<1>0. TypeOK /\ m \in Memory /\ p \in Procs
  BY DEF FlagInv, TypeOK
<1>1. PICK q : Becomes(p, q) /\ (q.cur = {} \/ q.verdict = "quarantined")
  BY <1>0, QuarantineMemory
<1>2. UNCHANGED <<attr, cast, caughtUp, log>> /\ rows' = rows \cup {<<i, k>>} /\ m.cur = {i}
  BY DEF Quarantine, env
<1>3. k \in {"skew", "chain"} => m.verdict \in Waits
  BY DEF Quarantine, RowOf, Verdicts, Waits
<1> HIDE DEF k
<1>4. \A j \in log' : Passed(j)'
  BY <1>2 DEF FlagInv, Passed
<1>5. ASSUME Cardinality(cast.procs) = 1 PROVE Unflagged(q, log', rows')
  <2>1. Unflagged(m, log, rows)
    BY <1>0, <1>5 DEF FlagInv
  <2>2. k \in {"skew", "chain"} => i \notin log
    BY <1>2, <1>3, <2>1 DEF Unflagged
  <2>3. \A j \in log' : <<j, "skew">> \notin rows' /\ <<j, "chain">> \notin rows'
    BY <1>2, <2>1, <2>2 DEF Unflagged
  <2> QED BY <1>1, <2>3 DEF Unflagged, Waits
<1> QED BY <1>1, <1>2, <1>4, <1>5, FlagStep

LEMMA FlagNext == FlagInv /\ [Next]_vars => FlagInv'
<1> SUFFICES ASSUME FlagInv, [Next]_vars PROVE FlagInv'
  OBVIOUS
<1>0. TypeOK /\ TypeOK' /\ cast.procs \subseteq Procs
  BY NextType DEF FlagInv, TypeOK
<1>1. ASSUME UNCHANGED <<attr, cast, log, rows, proc>>, caughtUp => caughtUp' PROVE FlagInv'
  <2>1. \A i \in log' : Passed(i)'
    BY <1>1 DEF FlagInv, Passed
  <2> QED BY <1>0, <1>1, <2>1 DEF FlagInv
<1>2. CASE UNCHANGED vars
  BY <1>1, <1>2 DEF vars, env
<1>3. ASSUME NEW o \in Origins, Publish(o) PROVE FlagInv'
  BY <1>1, <1>3 DEF Publish
<1>4. ASSUME NEW e \in Epochs, PostGrant(e) \/ GraceExpires(e) PROVE FlagInv'
  BY <1>1, <1>4 DEF PostGrant, GraceExpires
<1>5. CASE ClockCatchesUp
  BY <1>1, <1>5 DEF ClockCatchesUp
<1>6. ASSUME NEW p \in Procs, Pull(p) PROVE FlagInv'
  <2>1. p \in cast.procs /\ UNCHANGED <<attr, cast, caughtUp, log, rows>>
    BY <1>6 DEF Pull, env
  <2>2. PICK q : Becomes(p, q) /\ q.cur = {}
    BY <1>0, <1>6, PullMemory
  <2> QED BY <1>0, <2>1, <2>2, FlagQuiet
<1>7. ASSUME NEW p \in Procs, NEW o \in Origins, Approve(p, o) PROVE FlagInv'
  <2>1. p \in cast.procs /\ UNCHANGED <<attr, cast, caughtUp, log, rows>>
    BY <1>7 DEF Approve, env
  <2>2. PICK q : Becomes(p, q) /\ q.cur = {}
    BY <1>0, <1>7, ApproveMemory DEF Blank
  <2> QED BY <1>0, <2>1, <2>2, FlagQuiet
<1>8. ASSUME NEW p \in Procs, Step(p) \/ Crash(p) PROVE FlagInv'
  <2>0. p \in cast.procs
    BY <1>8, IdleRests DEF FlagInv
  <2>1. CASE BeginPending(p) \/ Finish(p) \/ Crash(p)
    <3>1. UNCHANGED <<attr, cast, caughtUp, log, rows>>
      BY <2>1 DEF BeginPending, Finish, Crash, env
    <3>2. PICK q : Becomes(p, q) /\ q.cur = {}
      BY <1>0, <2>1, RestMemory DEF Blank
    <3> QED BY <1>0, <2>0, <3>1, <3>2, FlagQuiet
  <2>2. CASE ListRows(p) \/ BeginBatch(p) \/ EndBatch(p)
    <3>1. UNCHANGED <<attr, cast, caughtUp, log, rows>>
      BY <2>2 DEF ListRows, BeginBatch, EndBatch, env
    <3>2. PICK q : Becomes(p, q) /\ SameHand(q, proc[p])
      BY <1>0, <2>2, ListRowsMemory, BeginBatchMemory, EndBatchMemory
    <3> QED BY <1>0, <2>0, <3>1, <3>2, FlagQuiet
  <2>3. ASSUME NEW i \in Ids, SkipReplay(p, i) \/ AdvanceCursor(p, i) PROVE FlagInv'
    <3>1. UNCHANGED <<attr, cast, caughtUp, log, rows>>
      BY <2>3 DEF SkipReplay, AdvanceCursor, env
    <3>2. PICK q : Becomes(p, q) /\ SameHand(q, proc[p])
      BY <1>0, <2>3, SkipReplayMemory, AdvanceMemory
    <3> QED BY <1>0, <2>0, <3>1, <3>2, FlagQuiet
  <2>4. ASSUME NEW i \in Ids, ResolveRow(p, i) PROVE FlagInv'
    <3>1. UNCHANGED <<attr, cast, caughtUp, log>> /\ rows' \subseteq rows
      BY <2>4 DEF ResolveRow, env
    <3>2. PICK q : Becomes(p, q) /\ q.cur = {}
      BY <1>0, <2>4, ResolveRowMemory
    <3> QED BY <1>0, <2>0, <3>1, <3>2, FlagQuiet
  <2> QED BY <1>0, <1>8, <2>0, <2>1, <2>2, <2>3, <2>4, FlagApply, FlagQuarantine DEF Step
<1> QED BY <1>2, <1>3, <1>4, <1>5, <1>6, <1>7, <1>8 DEF Next

\* The types, and no stale flags: where one process syncs, an event that applied
\* is not flagged as waiting, not even between two transactions.
THEOREM PullSafe == Spec => []PullInv
<1>1. FlagInv => PullInv
  <2> SUFFICES ASSUME FlagInv PROVE PullInv
    OBVIOUS
  <2>1. TypeOK
    BY DEF FlagInv
  <2>2. ASSUME Cardinality(cast.procs) = 1 PROVE \A i \in log : <<i, "skew">> \notin rows /\ <<i, "chain">> \notin rows
    <3>1. \E p : p \in cast.procs
      <4>1. IsFiniteSet(cast.procs)
        BY <2>1, PullAssumption, FS_Subset DEF TypeOK
      <4> QED BY <2>2, <4>1, FS_Singleton
    <3>2. PICK p \in Procs : TRUE
      BY <2>1, <3>1 DEF TypeOK
    <3> QED BY <2>2, <3>2 DEF FlagInv, Unflagged
  <2> QED BY <2>1, <2>2 DEF PullInv, AppliedUnflagged
<1> QED BY <1>1, FlagInit, FlagNext, PTL DEF Spec
=============================================================================
