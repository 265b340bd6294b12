-------------------------- MODULE DelegationProofs --------------------------
(***************************************************************************)
(* What holds of Delegation for every set of requests, turns and parents,  *)
(* every continuation and notify mode, and every bound on the faults:      *)
(* types, what the store claim serialises, that requests stay on the       *)
(* thread of turns their line was handed to, and that what is delivered is *)
(* over.                                                                   *)
(***************************************************************************)
EXTENDS Delegation, DelegationStoreProofs

-----------------------------------------------------------------------------
(* Types of what the actions are built from.                               *)

\* Using one unit of a bound leaves the counters natural numbers.
LEMMA SpendType ==
  ASSUME NEW b \in DOMAIN Bound, spent \in [DOMAIN Bound -> Nat], Spend(b)
  PROVE  spent' \in [DOMAIN Bound -> Nat]
  BY DEF Spend

\* A write, landed or failed, leaves a store on disk.
LEMMA PersistType ==
  ASSUME NEW s \in Store, disk \in Store, spent \in [DOMAIN Bound -> Nat], Persist(s)
  PROVE  disk' \in Store /\ spent' \in [DOMAIN Bound -> Nat]
<1>1. "fault" \in DOMAIN Bound
  BY DEF Bound
<1> QED
  BY <1>1, SpendType, DurableType DEF Persist, PersistOk, PersistFail

\* A boundary's key is a key.
LEMMA KeyOfType ==
  ASSUME NEW d, d.turn \in Turns, d.row \in Row
  PROVE  KeyOf(d) \in Key
  BY DEF KeyOf, Key

\* A walk along the transcript visits turns.
LEMMA ChainEndsType ==
  ASSUME NEW read, NEW t
  PROVE  ChainEnds(read, t) \subseteq Turns
  BY DEF ChainEnds, Walked

\* `repair_continuation_bindings` moves a row to the end of its chain, or marks it.
LEMMA RepairRequestType ==
  ASSUME NEW read, NEW q \in Request
  PROVE  RepairRequest(read, q) \in Request
<1>1. CASE q.state \notin OpenState \/ q.turn = NoTurn
  BY <1>1 DEF RepairRequest
<1>2. CASE ~(q.state \notin OpenState \/ q.turn = NoTurn) /\ Ambiguous(read, q.turn)
  BY <1>2 DEF RepairRequest, Request
<1>3. CASE ~(q.state \notin OpenState \/ q.turn = NoTurn) /\ ~Ambiguous(read, q.turn)
  <2> DEFINE u == CHOOSE x \in ChainEnds(read, q.turn) : TRUE
  <2>1. ChainEnds(read, q.turn) # {}
    BY <1>3 DEF Ambiguous
  <2>2. u \in Turns
    BY <2>1, ChainEndsType
  <2>3. RepairRequest(read, q) = [q EXCEPT !.turn = u]
    BY <1>3 DEF RepairRequest
  <2> QED
    BY <2>2, <2>3 DEF Request
<1> QED
  BY <1>1, <1>2, <1>3

\* ... and so a repaired store is a store.
LEMMA RepairType ==
  ASSUME NEW read, NEW s \in Store
  PROVE  Repair(read, s) \in Store
<1>1. \A r \in Requests : s.req[r] \in Request
  BY DEF Store
<1>2. [r \in Requests |-> RepairRequest(read, s.req[r])] \in [Requests -> Request]
  BY <1>1, RepairRequestType
<1> QED
  BY <1>2, WithRowsType DEF Repair

\* The boundaries a reader of the transcript finds owed are boundaries.
LEMMA SettledBoundariesType ==
  ASSUME NEW who \in Actor, NEW read \in [Turns -> SUBSET Row], NEW s
  PROVE  SettledBoundaries(who, read, s) \subseteq DueBoundary
<1>1. \A t \in Turns : Missed(read, s, t) \subseteq Row
  BY DEF Missed
<1>2. \A W : LastRow(W) \in Row
  BY DEF LastRow, Row
<1> QED
  BY <1>1, <1>2 DEF SettledBoundaries, Boundary, DueBoundary, Stranded

\* Marking the requests of an opened turn as executing leaves a store.
LEMMA MarkExecutingType ==
  ASSUME NEW s \in Store, NEW t
  PROVE  MarkExecuting(s, t) \in Store
<1>1. \A r \in Requests : [s.req[r] EXCEPT !.state = "executing"] \in Request /\ s.req[r] \in Request
  BY DEF Store, Request, OpenState
<1>2. [r \in Requests |-> IF s.req[r].turn = t /\ s.req[r].state \in {"accepted", "queued", "submitted"}
                          THEN [s.req[r] EXCEPT !.state = "executing"] ELSE s.req[r]]
        \in [Requests -> Request]
  BY <1>1
<1> QED
  BY <1>2, WithRowsType DEF MarkExecuting

\* What a bind makes of the mirror is a store.
LEMMA BoundStoreType ==
  ASSUME store \in Store, receipt \in [Requests -> Turns \union {NoTurn}],
         NEW r \in Requests, NEW failed \in BOOLEAN
  PROVE  BoundStore(r, failed) \in Store
<1> DEFINE q == store.req[r]
           e == failed \/ q.bindError
           b == BoundState(disp[r])
<1>1. b \in OpenState
  BY DEF BoundState, OpenState
<1>2. e \in BOOLEAN
  OBVIOUS
<1>3. q \in Request /\ receipt[r] \in Turns \union {NoTurn}
  BY DEF Store
<1> HIDE DEF e, b, q
<1>4. [q EXCEPT !.turn = receipt[r], !.state = b, !.bindError = e] \in Request
  BY <1>1, <1>2, <1>3 DEF Request
<1>5. BoundStore(r, failed) =
        [store EXCEPT !.req[r] = [q EXCEPT !.turn = receipt[r], !.state = b, !.bindError = e]]
  BY Zenon DEF BoundStore, b, e, q
<1> QED
  BY <1>4, <1>5, WithRowType

\* What a stop makes of a row is a row.
LEMMA StoppedRequestType ==
  ASSUME NEW q \in Request
  PROVE  StoppedRequest(q) \in Request
  BY DEF StoppedRequest, Request, TerminalState

\* ... and of a store a store.
LEMMA SettledStoreType ==
  ASSUME store \in Store
  PROVE  SettledStore \in Store
<1>1. \A r \in Requests : store.req[r] \in Request
  BY DEF Store
<1>2. [r \in Requests |-> StoppedRequest(store.req[r])] \in [Requests -> Request]
  BY <1>1, StoppedRequestType
<1> QED
  BY <1>2, WithRowsType DEF SettledStore

\* What a delivery makes of a row is a row.
LEMMA ResolvedByType ==
  ASSUME NEW d \in Delivery, NEW r \in Requests, NEW q \in Request
  PROVE  ResolvedBy(d, r, q) \in Request
<1>1. Absent \in Request
  BY DEF Absent, Request, NotifyMode
<1> DEFINE st == IF Failed(d) THEN "failed" ELSE "answered"
           b  == r \in d.pushed
<1>2. st \in TerminalState /\ d.turn \in Turns
  BY DEF TerminalState, Delivery
<1>3. b \in BOOLEAN
  OBVIOUS
<1>4. ResolvedBy(d, r, q) \in {Absent, q, [q EXCEPT !.state = st, !.answered = d.turn, !.notified = b]}
  BY Zenon DEF ResolvedBy
<1> HIDE DEF st, b
<1>5. [q EXCEPT !.state = st, !.answered = d.turn, !.notified = b] \in Request
  BY <1>2, <1>3 DEF Request
<1> QED
  BY <1>1, <1>4, <1>5

\* ... and of the mirror a store.
LEMMA CommittedStoreType ==
  ASSUME store \in Store, NEW d \in Delivery
  PROVE  /\ CommittedStore(d) \in Store
         /\ CommittedStore(d).req = [r \in Requests |-> ResolvedBy(d, r, store.req[r])]
         /\ CommittedStore(d).delivering = store.delivering \ {KeyOf(d)}
<1> DEFINE s == RecordCovered(FinishDelivery(store, KeyOf(d)), d.turn, d.covered)
<1>1. KeyOf(d) \in Key /\ d.turn \in Turns
  BY KeyOfType DEF Delivery
<1>2. s \in Store /\ s.req = store.req /\ s.delivering = store.delivering \ {KeyOf(d)}
  BY <1>1, FinishType, RecordCoveredType
<1>3. CommittedStore(d) = [s EXCEPT !.req = [r \in Requests |-> ResolvedBy(d, r, s.req[r])]]
  BY DEF CommittedStore
<1> HIDE DEF s
<1>4. \A r \in Requests : s.req[r] \in Request
  BY <1>2 DEF Store
<1>5. [r \in Requests |-> ResolvedBy(d, r, s.req[r])] \in [Requests -> Request]
  BY <1>4, ResolvedByType
<1> QED
  BY <1>2, <1>3, <1>5, WithRowsType DEF Store

\* A planned delivery is a delivery.
LEMMA PlannedDeliveryType ==
  ASSUME NEW d \in DueBoundary, gen \in Nat
  PROVE  PlannedDelivery(d) \in Delivery
  BY DEF PlannedDelivery, Delivery, DueBoundary, BoundTo, Outstanding

-----------------------------------------------------------------------------
(* Type correctness.                                                       *)

\* The initial state is well typed.
LEMMA TypeInit == Init => TypeOK
<1> SUFFICES ASSUME Init PROVE TypeOK
  OBVIOUS
<1>1. /\ disk \in Store /\ saved \in Store /\ draft \in Store /\ store \in Store
      /\ scan \in [store : Store, owed : SUBSET DueBoundary]
  BY EmptyStoreType DEF Init, NoScan
<1>2. /\ pulses \in Seq(Pulse) /\ gen \in Nat /\ nextGen \in Nat
      /\ claim \in Requests \union {Free} /\ spent \in [DOMAIN Bound -> Nat]
  BY DEF Init
<1>3. /\ disp \in [Requests -> Phase] /\ receipt \in [Requests -> Turns \union {NoTurn}]
      /\ got \in [Requests -> {"nothing", "pending", "answer", "empty"}]
      /\ told \in [Requests -> SUBSET Key]
  BY DEF Init, Phase
<1> QED
  BY <1>1, <1>2, <1>3 DEF Init, TypeOK

\* Dropping a row leaves the mirror well typed.
LEMMA DropRowType ==
  ASSUME TypeOK, NEW r \in Requests, DropRow(r)
  PROVE  /\ store' \in Store /\ resident' \in BOOLEAN /\ watched' \in BOOLEAN /\ gen' \in Nat
         /\ waits' \subseteq Requests /\ suppressed' \subseteq Requests
         /\ deliveringNow' \subseteq Key /\ provisional' \subseteq DueBoundary
<1>1. Without(store, {r}) \in Store
  BY WithoutType DEF TypeOK
<1>2. CASE IsEmpty(Without(store, {r}))
  <2>1. /\ resident' = FALSE /\ store' = EmptyStore /\ gen' = 0 /\ watched' = FALSE
        /\ waits' = {} /\ suppressed' = {} /\ deliveringNow' = {} /\ provisional' = {}
    BY <1>2, Zenon DEF DropRow
  <2> QED
    BY <2>1, EmptyStoreType
<1>3. CASE ~IsEmpty(Without(store, {r}))
  BY <1>1, <1>3 DEF TypeOK, DropRow
<1> QED
  BY <1>2, <1>3

\* The dispatchers' steps keep the types.
LEMMA TypeDispatch == TypeOK /\ DispatchNext => TypeOK'
<1> USE DEF vendorVars, mirrorVars, dispVars, dlvVars, toldVars, Phase
<1> SUFFICES ASSUME TypeOK, NEW r \in Requests,
                    \/ \E p \in Parents, n \in Notifies, w \in Waiting : AcceptWrite(r, p, n, w)
                    \/ AcceptCommit(r) \/ AcceptRollback(r)
                    \/ \E t \in Turns : SubmitStarted(r, t) \/ SubmitInjected(r, t) \/ SubmitQueued(r, t)
                    \/ SubmitFail(r) \/ Bind(r) \/ Cancel(r)
                    \/ WaitClaimLapses(r) \/ WaiterReleases(r) \/ WaiterReads(r)
             PROVE  TypeOK'
  BY DEF DispatchNext
<1>1. ASSUME NEW p \in Parents, NEW n \in Notifies, NEW w \in Waiting, AcceptWrite(r, p, n, w)
      PROVE  TypeOK'
  BY <1>1, AcceptType, NotifiesAssumption DEF TypeOK, AcceptWrite
<1>2. CASE AcceptCommit(r)
  BY <1>2 DEF TypeOK, AcceptCommit
<1>3. CASE AcceptRollback(r)
  <2>1. "fault" \in DOMAIN Bound
    BY DEF Bound
  <2> QED
    BY <1>3, <2>1, SpendType DEF TypeOK, AcceptRollback, PersistFail
<1>4. ASSUME NEW t \in Turns, SubmitStarted(r, t)
      PROVE  TypeOK'
  <2>1. Opened(t, NoTurn) \in Pulse
    BY DEF Opened, Pulse, Row
  <2> QED
    BY <1>4, <2>1 DEF TypeOK, SubmitStarted
<1>5. ASSUME NEW t \in Turns, SubmitInjected(r, t)
      PROVE  TypeOK'
  BY <1>5 DEF TypeOK, SubmitInjected
<1>6. ASSUME NEW t \in Turns, SubmitQueued(r, t)
      PROVE  TypeOK'
  BY <1>6 DEF TypeOK, SubmitQueued
<1>7. CASE SubmitFail(r)
  <2>1. /\ store' \in Store /\ resident' \in BOOLEAN /\ watched' \in BOOLEAN /\ gen' \in Nat
        /\ waits' \subseteq Requests /\ suppressed' \subseteq Requests
        /\ deliveringNow' \subseteq Key /\ provisional' \subseteq DueBoundary
    BY <1>7, DropRowType DEF SubmitFail
  <2>2. disk' \in Store /\ spent' \in [DOMAIN Bound -> Nat]
    BY <1>7, <2>1, PersistType DEF TypeOK, SubmitFail
  <2>3. disp' \in [Requests -> Phase] /\ claim' \in Requests \union {Free}
    BY <1>7 DEF TypeOK, SubmitFail
  <2> QED
    BY <1>7, <2>1, <2>2, <2>3 DEF TypeOK, SubmitFail
<1>8. CASE Bind(r)
  <2>1. BoundStore(r, FALSE) \in Store /\ BoundStore(r, TRUE) \in Store
    BY BoundStoreType DEF TypeOK
  <2>2. store' \in Store /\ disk' \in Store /\ spent' \in [DOMAIN Bound -> Nat]
    BY <1>8, <2>1, PersistType DEF Bind, Persist, TypeOK
  <2> QED
    BY <1>8, <2>2 DEF TypeOK, Bind
<1>9. CASE Cancel(r)
  <2>1. "cancel" \in DOMAIN Bound
    BY DEF Bound
  <2> QED
    BY <1>9, <2>1, SpendType DEF TypeOK, Cancel, Free
<1>10. CASE WaitClaimLapses(r)
  BY <1>10 DEF TypeOK, WaitClaimLapses
<1>11. CASE WaiterReleases(r)
  BY <1>11 DEF TypeOK, WaiterReleases
<1>12. CASE WaiterReads(r)
  BY <1>12 DEF TypeOK, WaiterReads
<1> QED
  BY <1>1, <1>2, <1>3, <1>4, <1>5, <1>6, <1>7, <1>8, <1>9, <1>10, <1>11, <1>12

\* The vendor's steps keep the types.
LEMMA TypeVendor == TypeOK /\ VendorNext => TypeOK'
<1> USE DEF vendorVars, mirrorVars, dispVars, dlvVars, toldVars
<1> SUFFICES ASSUME TypeOK, NEW t \in Turns,
                    \/ HumanTurn(t) \/ OpenParked(t) \/ OpenContinuation(t)
                    \/ Narrate(t) \/ FailTurn(t)
                    \/ \E h \in Holds : EndTurn(t, h) \/ EndTurnReleased(t, h) \/ EndTurnUnrecorded(t, h)
             PROVE  TypeOK'
  BY DEF VendorNext
<1>1. ASSUME NEW phase \in {"running", "flushed"}, NEW from \in Turns \union {NoTurn},
             TurnOpens(t, phase, from)
      PROVE  TypeOK'
  <2>1. Opened(t, from) \in Pulse
    BY DEF Opened, Pulse, Row
  <2>2. from # NoTurn => root[from] \in Turns
    BY DEF TypeOK
  <2> QED
    BY <1>1, <2>1, <2>2 DEF TypeOK, TurnOpens
<1>2. ASSUME NEW h \in {"settled", "pending", "replay"}, NEW w \in Row, NEW x \in Row,
             NEW W \in SUBSET Row,
             TurnEnds(t, h), rows' = [rows EXCEPT ![t] = @ \union {x}],
             pulses' = Append(pulses, Signal(t, h, w, W)), UNCHANGED spent
      PROVE  TypeOK'
  <2>1. Signal(t, h, w, W) \in Pulse
    BY DEF Signal, Pulse
  <2> QED
    BY <1>2, <2>1 DEF TypeOK, TurnEnds
<1>3. CASE HumanTurn(t) \/ OpenParked(t) \/ OpenContinuation(t)
  BY <1>1, <1>3 DEF HumanTurn, OpenParked, OpenContinuation, TypeOK
<1>4. CASE Narrate(t)
  BY <1>4 DEF TypeOK, Narrate, Row
<1>5. CASE FailTurn(t)
  <2>1. rows'[t] \in SUBSET Row
    BY <1>5 DEF FailTurn, TypeOK, Row
  <2> QED
    BY <1>2, <1>5, <2>1 DEF FailTurn, Row
<1>6. ASSUME NEW h \in Holds, EndTurn(t, h)
      PROVE  TypeOK'
  <2>1. rows'[t] \in SUBSET Row
    BY <1>6 DEF EndTurn, TypeOK, Row
  <2> QED
    BY <1>2, <1>6, <2>1, HoldsAssumption DEF EndTurn, Row
<1>7. ASSUME NEW h \in Holds, EndTurnReleased(t, h)
      PROVE  TypeOK'
  <2>1. rows[t] \in SUBSET Row
    BY DEF TypeOK
  <2> QED
    BY <1>2, <1>7, <2>1, HoldsAssumption DEF EndTurnReleased, Row
<1>8. ASSUME NEW h \in Holds, EndTurnUnrecorded(t, h)
      PROVE  TypeOK'
  <2>1. "fault" \in DOMAIN Bound
    BY DEF Bound
  <2> QED
    BY <1>8, <2>1, SpendType, HoldsAssumption DEF TypeOK, EndTurnUnrecorded, TurnEnds
<1> QED
  BY <1>3, <1>4, <1>5, <1>6, <1>7, <1>8

\* The notifier's, the timers' and the deliveries' steps keep the types.
LEMMA TypeDeliver == TypeOK /\ DeliverNext => TypeOK'
<1> USE DEF vendorVars, mirrorVars, dispVars, dlvVars, toldVars
<1> SUFFICES ASSUME TypeOK, DeliverNext
             PROVE  TypeOK'
  OBVIOUS
<1>1. pulses # << >> => Head(pulses) \in Pulse /\ Tail(pulses) \in Seq(Pulse)
  BY DEF TypeOK
<1>2. CASE PulseIgnored
  BY <1>1, <1>2 DEF TypeOK, PulseIgnored, NotifierTakes
<1>3. CASE PulseOpened
  <2> DEFINE p     == Head(pulses)
             moved == IF p.from = NoTurn THEN store ELSE RebindContinuation(store, p.from, p.turn)
             s     == MarkExecuting(moved, p.turn)
  <2>1. pulses' \in Seq(Pulse) /\ p.turn \in Turns
    BY <1>1, <1>3 DEF PulseOpened, NotifierTakes, Pulse
  <2>2. moved \in Store
    BY <2>1, RebindType DEF TypeOK
  <2>3. s \in Store
    BY <2>2, MarkExecutingType
  <2>4. /\ store' \in {s, store}
        /\ Persist(s) \/ UNCHANGED <<disk, spent>>
        /\ provisional' \subseteq provisional
    BY <1>3 DEF PulseOpened
  <2>5. disk' \in Store /\ spent' \in [DOMAIN Bound -> Nat] /\ store' \in Store
    BY <2>3, <2>4, PersistType DEF TypeOK
  <2> QED
    BY <1>3, <2>1, <2>4, <2>5 DEF TypeOK, PulseOpened
<1>4. CASE PulseHeld
  <2> DEFINE p == Head(pulses)
             b == Boundary("grace", p.turn, p.row, p.covered)
  <2>1. pulses' \in Seq(Pulse) /\ b \in DueBoundary
    BY <1>1, <1>4 DEF PulseHeld, NotifierTakes, Pulse, Boundary, DueBoundary, Actor
  <2>2. /\ Persist(store) \/ UNCHANGED <<disk, spent>>
        /\ provisional' \in {provisional, provisional \union {b}}
    BY <1>4 DEF PulseHeld
  <2>3. disk' \in Store /\ spent' \in [DOMAIN Bound -> Nat] /\ provisional' \subseteq DueBoundary
    BY <2>1, <2>2, PersistType DEF TypeOK
  <2> QED
    BY <1>4, <2>1, <2>3 DEF TypeOK, PulseHeld
<1>5. CASE PulseSettled
  <2> DEFINE p == Head(pulses)
             b == Boundary("notifier", p.turn, p.row, p.covered)
  <2>1. pulses' \in Seq(Pulse) /\ b \in DueBoundary
    BY <1>1, <1>5 DEF PulseSettled, NotifierTakes, Pulse, Boundary, DueBoundary, Actor
  <2>2. due' \subseteq DueBoundary
    BY <1>5, <2>1 DEF PulseSettled, TypeOK
  <2> QED
    BY <1>5, <2>1, <2>2 DEF TypeOK, PulseSettled
<1>6. ASSUME NEW d \in provisional, GraceExpires(d)
      PROVE  TypeOK'
  BY <1>6 DEF TypeOK, GraceExpires
<1>7. ASSUME NEW d \in due, PlanNothing(d)
      PROVE  TypeOK'
  BY <1>7 DEF TypeOK, PlanNothing
<1>8. ASSUME NEW d \in due, Plan(d)
      PROVE  TypeOK'
  <2> DEFINE s == BeginDelivery(store, KeyOf(d))
  <2>1. d \in DueBoundary /\ KeyOf(d) \in Key
    BY KeyOfType DEF TypeOK, DueBoundary
  <2>2. s \in Store
    BY <2>1, MarkerType DEF TypeOK
  <2>3. PlannedDelivery(d) \in Delivery
    BY <2>1, PlannedDeliveryType DEF TypeOK
  <2>4. disk' \in Store /\ store' \in Store
    BY <1>8, <2>2, DurableType DEF Plan, PersistOk
  <2> QED
    BY <1>8, <2>1, <2>3, <2>4 DEF TypeOK, Plan, PersistOk, BoundTo, Outstanding
<1>9. ASSUME NEW d \in due, PlanAbandoned(d)
      PROVE  TypeOK'
  <2> DEFINE s == AbandonDelivery(store, KeyOf(d))
  <2>1. d \in DueBoundary /\ KeyOf(d) \in Key
    BY KeyOfType DEF TypeOK, DueBoundary
  <2>2. s \in Store
    BY <2>1, MarkerType DEF TypeOK
  <2>3. disk' \in Store /\ store' \in Store
    BY <1>9, <2>2, DurableType DEF PlanAbandoned, TypeOK
  <2>4. "fault" \in DOMAIN Bound
    BY DEF Bound
  <2>5. spent' \in [DOMAIN Bound -> Nat]
    BY <1>9, <2>4, SpendType DEF PlanAbandoned, TypeOK
  <2> QED
    BY <1>9, <2>1, <2>3, <2>5 DEF TypeOK, PlanAbandoned, BoundTo, Outstanding
<1>10. ASSUME NEW d \in inflight, NEW p \in Parents, NotifyParent(d, p)
       PROVE  TypeOK'
  <2>1. d \in Delivery
    BY DEF TypeOK
  <2>2. KeyOf(d) \in Key /\ d.carry[p] \subseteq Requests
    BY <2>1, KeyOfType DEF Delivery
  <2>3. [d EXCEPT !.carry[p] = {}] \in Delivery
    BY <2>1 DEF Delivery
  <2>4. told' \in [Requests -> SUBSET Key]
    BY <1>10, <2>2 DEF TypeOK, NotifyParent
  <2> QED
    BY <1>10, <2>2, <2>3, <2>4 DEF TypeOK, NotifyParent
<1>11. ASSUME NEW d \in inflight, NEW p \in Parents, ParentUnreachable(d, p)
       PROVE  TypeOK'
  <2>1. d \in Delivery
    BY DEF TypeOK
  <2>2. [d EXCEPT !.carry[p] = {}, !.dropped = @ \union d.carry[p]] \in Delivery
    BY <2>1 DEF Delivery
  <2> QED
    BY <1>11, <2>2 DEF TypeOK, ParentUnreachable
<1>12. ASSUME NEW d \in inflight, Commit(d)
       PROVE  TypeOK'
  <2>1. CommittedStore(d) \in Store
    BY CommittedStoreType DEF TypeOK
  <2>2. disk' \in Store /\ spent' \in [DOMAIN Bound -> Nat] /\ store' \in Store
    BY <1>12, <2>1, PersistType DEF Commit, TypeOK
  <2>3. watched' \in BOOLEAN /\ inflight' \subseteq Delivery /\ deliveringNow' \subseteq Key
    BY <1>12 DEF Commit, TypeOK
  <2> QED
    BY <1>12, <2>2, <2>3 DEF TypeOK, Commit
<1> QED
  BY <1>2, <1>3, <1>4, <1>5, <1>6, <1>7, <1>8, <1>9, <1>10, <1>11, <1>12 DEF DeliverNext

\* The end of a process keeps the types of what it touches.
LEMMA ProcessDiesType ==
  ASSUME TypeOK, NEW replays, ProcessDies(replays)
  PROVE  /\ live' \in BOOLEAN /\ lastTurn' \in Turns \union {NoTurn}
         /\ turnState' \in [Turns -> {"unused", "parked", "running", "flushed", "ended", "dead"}]
         /\ UNCHANGED <<hold, edge, root>>
  BY DEF TypeOK, ProcessDies

\* Restarts, releases, stops and crashes keep the types.
LEMMA TypeLife == TypeOK /\ LifeNext => TypeOK'
<1> USE DEF vendorVars, mirrorVars, dispVars, dlvVars, toldVars
<1> SUFFICES ASSUME TypeOK, LifeNext
             PROVE  TypeOK'
  OBVIOUS
<1>1. CASE ReconcileScan
  <2> DEFINE s == Repair(rows, disk)
  <2>1. s \in Store
    BY RepairType DEF TypeOK
  <2>2. SettledBoundaries("notifier", rows, s) \subseteq DueBoundary
    BY SettledBoundariesType DEF TypeOK, Actor
  <2>3. scan' \in [store : Store, owed : SUBSET DueBoundary]
    BY <1>1, <2>1, <2>2 DEF ReconcileScan
  <2> QED
    BY <1>1, <2>3 DEF TypeOK, ReconcileScan
<1>2. CASE ReconcileSeed
  <2>1. /\ scan.store \in Store /\ scan.owed \subseteq DueBoundary
        /\ NoScan \in [store : Store, owed : SUBSET DueBoundary]
    BY EmptyStoreType DEF TypeOK, NoScan
  <2> QED
    BY <1>2, <2>1 DEF TypeOK, ReconcileSeed
<1>3. CASE ReleasePick
  <2>1. "release" \in DOMAIN Bound
    BY DEF Bound
  <2> QED
    BY <1>3, <2>1, SpendType DEF TypeOK, ReleasePick
<1>4. CASE ReleaseFence
  <2>1. ProcessDies(TRUE)
    BY <1>4 DEF ReleaseFence
  <2> QED
    BY <1>4, <2>1, ProcessDiesType DEF TypeOK, ReleaseFence
<1>5. CASE ReleaseClear
  BY <1>5 DEF TypeOK, ReleaseClear
<1>6. CASE ReleaseRead
  BY <1>6 DEF TypeOK, ReleaseRead
<1>7. CASE ReleaseSettle
  <2> DEFINE s == Repair(relRows, store)
  <2>1. s \in Store
    BY RepairType DEF TypeOK
  <2>2. SettledBoundaries("release", relRows, s) \subseteq DueBoundary
    BY SettledBoundariesType DEF TypeOK, Actor
  <2>3. store' \in Store /\ due' \subseteq DueBoundary
    BY <1>7, <2>1, <2>2 DEF ReleaseSettle, TypeOK
  <2> QED
    BY <1>7, <2>3 DEF TypeOK, ReleaseSettle
<1>8. CASE EvictInPlace
  <2>1. "evict" \in DOMAIN Bound
    BY DEF Bound
  <2>2. ProcessDies(TRUE)
    BY <1>8 DEF EvictInPlace
  <2> QED
    BY <1>8, <2>1, <2>2, SpendType, ProcessDiesType DEF TypeOK, EvictInPlace
<1>9. ASSUME StopsProcess, disk' \in Store, spent' \in [DOMAIN Bound -> Nat], flush' \subseteq Store
      PROVE  TypeOK'
  <2>1. ProcessDies(FALSE)
    BY <1>9 DEF StopsProcess
  <2>2. store' \in Store
    BY <1>9, SettledStoreType DEF StopsProcess, TypeOK
  <2> QED
    BY <1>9, <2>1, <2>2, ProcessDiesType DEF TypeOK, StopsProcess
<1>10. CASE Stop
  <2>1. disk' \in Store
    BY <1>10, SettledStoreType, DurableType DEF Stop, TypeOK
  <2>2. "stop" \in DOMAIN Bound /\ "fault" \in DOMAIN Bound
    BY DEF Bound
  <2>3. spent' \in [DOMAIN Bound -> Nat]
    <3> DEFINE once  == [spent EXCEPT !["stop"] = @ + 1]
               twice == [spent EXCEPT !["stop"] = @ + 1, !["fault"] = @ + 1]
    <3>1. spent \in [DOMAIN Bound -> Nat]
      BY DEF TypeOK
    <3>2. once \in [DOMAIN Bound -> Nat] /\ twice \in [DOMAIN Bound -> Nat]
      BY <2>2, <3>1
    <3>3. spent' \in {once, twice}
      BY <1>10, Zenon DEF Stop
    <3> QED
      BY <3>2, <3>3
  <2> QED
    BY <1>9, <1>10, <2>1, <2>3 DEF Stop, TypeOK
<1>11. CASE StopDetached
  <2>1. "detached" \in DOMAIN Bound
    BY DEF Bound
  <2>2. spent' \in [DOMAIN Bound -> Nat]
    BY <1>11, <2>1, SpendType DEF StopDetached, TypeOK
  <2>3. flush' \subseteq Store
    BY <1>11, SettledStoreType DEF StopDetached, TypeOK
  <2> QED
    BY <1>9, <1>11, <2>2, <2>3 DEF StopDetached, TypeOK
<1>12. ASSUME NEW s \in flush, FlushSettlement(s)
       PROVE  TypeOK'
  <2>1. disk' \in Store /\ spent' \in [DOMAIN Bound -> Nat]
    BY <1>12, PersistType DEF FlushSettlement, TypeOK
  <2> QED
    BY <1>12, <2>1 DEF TypeOK, FlushSettlement
<1>13. CASE Crash
  <2>1. "crash" \in DOMAIN Bound
    BY DEF Bound
  <2>2. spent' \in [DOMAIN Bound -> Nat]
    BY <1>13, <2>1, SpendType DEF Crash, TypeOK
  <2>3. ProcessDies(TRUE)
    BY <1>13 DEF Crash
  <2>4. scan' \in [store : Store, owed : SUBSET DueBoundary] /\ store' \in Store /\ saved' \in Store
    BY <1>13, EmptyStoreType DEF Crash, NoScan
  <2>5. disp' \in [Requests -> Phase] /\ told' \in [Requests -> SUBSET Key]
    BY <1>13 DEF Crash, TypeOK, Phase
  <2>6. /\ live' \in BOOLEAN /\ lastTurn' \in Turns \union {NoTurn}
        /\ turnState' \in [Turns -> {"unused", "parked", "running", "flushed", "ended", "dead"}]
        /\ UNCHANGED <<hold, edge, root>>
    BY <2>3, ProcessDiesType
  <2>7. /\ pulses' \in Seq(Pulse) /\ gen' \in Nat /\ nextGen' \in Nat
        /\ resident' \in BOOLEAN /\ watched' \in BOOLEAN
        /\ waits' \subseteq Requests /\ suppressed' \subseteq Requests
        /\ deliveringNow' \subseteq Key /\ provisional' \subseteq DueBoundary
        /\ claim' \in Requests \union {Free}
    <3>1. /\ pulses' = << >> /\ gen' = 0 /\ nextGen' = 1 /\ resident' = FALSE /\ watched' = FALSE
          /\ waits' = {} /\ suppressed' = {} /\ deliveringNow' = {} /\ provisional' = {}
          /\ claim' = Free
      BY <1>13, Zenon DEF Crash
    <3>2. resident' \in BOOLEAN /\ watched' \in BOOLEAN
      BY <3>1, Zenon
    <3>3. pulses' \in Seq(Pulse) /\ gen' \in Nat /\ nextGen' \in Nat
      BY <3>1
    <3> QED
      BY <3>1, <3>2, <3>3
  <2>8. /\ due' \subseteq DueBoundary /\ inflight' \subseteq Delivery /\ flush' \subseteq Store
        /\ recon' \in {"start", "scanned", "done"}
        /\ rel' \in {"idle", "picked", "fenced", "reading", "settling"}
        /\ relRows' \in [Turns -> SUBSET Row]
    BY <1>13 DEF Crash
  <2>9. UNCHANGED <<disk, rows, wants, receipt, got, everTold>>
    BY <1>13 DEF Crash
  <2>10. draft' \in Store /\ late' \subseteq [n : Nat, store : Store]
    BY <1>13, EmptyStoreType DEF Crash
  <2> QED
    BY <2>2, <2>4, <2>5, <2>6, <2>7, <2>8, <2>9, <2>10 DEF TypeOK
<1> QED
  BY <1>1, <1>2, <1>3, <1>4, <1>5, <1>6, <1>7, <1>8, <1>10, <1>11, <1>12, <1>13 DEF LifeNext

\* Dropping a row only takes away, and what is left is a mirror without it.
LEMMA DropRowShrinks ==
  ASSUME NEW r \in Requests, DropRow(r)
  PROVE  /\ store' \in {EmptyStore, Without(store, {r})}
         /\ waits' \subseteq waits /\ suppressed' \subseteq suppressed
         /\ deliveringNow' \subseteq deliveringNow /\ provisional' \subseteq provisional
         /\ watched' => watched
         /\ resident' => UNCHANGED <<resident, gen, deliveringNow>>
<1>1. CASE IsEmpty(Without(store, {r}))
  BY <1>1, Zenon DEF DropRow
<1>2. CASE ~IsEmpty(Without(store, {r}))
  BY <1>2 DEF DropRow
<1> QED
  BY <1>1, <1>2

\* What the writes of dropped calls leave alone.
LEMMA LateLeaves ==
  ASSUME LateNext
  PROVE  /\ UNCHANGED <<rows, vendorVars, pulses, nextGen, saved, draft, wants, receipt, got, due, inflight,
                        recon, scan, rel, relRows, flush, toldVars>>
         /\ waits' \subseteq waits /\ suppressed' \subseteq suppressed
         /\ deliveringNow' \subseteq deliveringNow /\ provisional' \subseteq provisional
         /\ UNCHANGED spent \/ Spend("outlive") \/ Spend("fault")
<1> USE DEF mirrorVars, dispVars, toldVars
<1>1. CASE \E r \in Requests : SubmitFailOutlives(r)
  BY <1>1, DropRowShrinks DEF SubmitFailOutlives, Outlives
<1>2. CASE \E r \in Requests : \/ \E p \in Parents, n \in Notifies : AcceptOutlives(r, p, n)
                               \/ RollbackOutlives(r) \/ BindOutlives(r)
  BY <1>2 DEF AcceptOutlives, RollbackOutlives, BindOutlives, Outlives
<1>3. CASE \E w \in late : LateLands(w)
  BY <1>3 DEF LateLands, PersistFail
<1> QED
  BY <1>1, <1>2, <1>3 DEF LateNext

\* What they do to the copies of the store: one lands, or one is left behind, of
\* what its call had accepted, read before its accept, dropped or bound.
LEMMA LateStores ==
  ASSUME TypeOK, LateNext
  PROVE  \/ \E w \in late : disk' \in {w.store, disk} /\ store' = store /\ late' \subseteq late
         \/ \E r \in Requests, u \in Store :
              /\ disk' = disk /\ \A w \in late' : w \in late \/ w.store = u
              /\ \/ store' = store /\ disp[r] = "new" /\ disp'[r] = "gone"
                    /\ \E p \in Parents, n \in Notifies : u = Accept(disk, r, p, n)
                 \/ store' = store /\ u = saved
                 \/ store' \in {EmptyStore, Without(store, {r})} /\ u = Durable(store')
                 \/ /\ disp[r] \in {"started", "injected", "queued"}
                    /\ store' = BoundStore(r, FALSE) /\ u = Durable(store')
<1> USE DEF mirrorVars
<1>1. ASSUME NEW s \in Store, Outlives(s)
      PROVE  \A w \in late' : w \in late \/ w.store = s
  BY <1>1 DEF Outlives
<1>2. ASSUME NEW r \in Requests, NEW p \in Parents, NEW n \in Notifies, AcceptOutlives(r, p, n)
      PROVE  /\ disk' = disk /\ store' = store /\ disp[r] = "new" /\ disp'[r] = "gone"
             /\ Accept(disk, r, p, n) \in Store /\ \A w \in late' : w \in late \/ w.store = Accept(disk, r, p, n)
  <2>1. Accept(disk, r, p, n) \in Store
    BY AcceptType, NotifiesAssumption DEF TypeOK
  <2> QED
    BY <1>1, <1>2, <2>1 DEF AcceptOutlives, CallGone, TypeOK
<1>3. ASSUME NEW r \in Requests, RollbackOutlives(r)
      PROVE  disk' = disk /\ store' = store /\ saved \in Store /\ \A w \in late' : w \in late \/ w.store = saved
  BY <1>1, <1>3 DEF RollbackOutlives, TypeOK
<1>4. ASSUME NEW r \in Requests, SubmitFailOutlives(r)
      PROVE  /\ disk' = disk /\ store' \in {EmptyStore, Without(store, {r})} /\ Durable(store') \in Store
             /\ \A w \in late' : w \in late \/ w.store = Durable(store')
  <2>1. Durable(store') \in Store
    BY <1>4, DropRowType, DurableType DEF SubmitFailOutlives
  <2> QED
    BY <1>1, <1>4, <2>1, DropRowShrinks DEF SubmitFailOutlives
<1>5. ASSUME NEW r \in Requests, BindOutlives(r)
      PROVE  /\ disk' = disk /\ store' = BoundStore(r, FALSE) /\ Durable(store') \in Store
             /\ disp[r] \in {"started", "injected", "queued"}
             /\ \A w \in late' : w \in late \/ w.store = Durable(store')
  <2>1. store' = BoundStore(r, FALSE) /\ Outlives(Durable(store')) /\ disk' = disk
        /\ disp[r] \in {"started", "injected", "queued"}
    BY <1>5, Zenon DEF BindOutlives
  <2>2. Durable(store') \in Store
    BY <2>1, BoundStoreType, DurableType DEF TypeOK
  <2> QED
    BY <1>1, <2>1, <2>2
<1>6. ASSUME NEW w \in late, LateLands(w)
      PROVE  disk' \in {w.store, disk} /\ store' = store /\ late' \subseteq late
  BY <1>6 DEF LateLands, PersistFail
<1>7. CASE \E w \in late : LateLands(w)
  BY <1>6, <1>7
<1>8. CASE \E r \in Requests : \E p \in Parents, n \in Notifies : AcceptOutlives(r, p, n)
  BY <1>2, <1>8
<1>9. CASE \E r \in Requests : RollbackOutlives(r)
  BY <1>3, <1>9
<1>10. CASE \E r \in Requests : SubmitFailOutlives(r)
  BY <1>4, <1>10
<1>11. CASE \E r \in Requests : BindOutlives(r)
  BY <1>5, <1>11
<1> QED
  BY <1>7, <1>8, <1>9, <1>10, <1>11 DEF LateNext

\* A write that outlives its call is a store to come.
LEMMA OutlivesType ==
  ASSUME TypeOK, NEW s \in Store, Outlives(s)
  PROVE  late' \subseteq [n : Nat, store : Store] /\ spent' \in [DOMAIN Bound -> Nat]
<1>1. "outlive" \in DOMAIN Bound
  BY DEF Bound
<1> QED
  BY <1>1, SpendType DEF Outlives, TypeOK

\* So do the writes of dropped calls.
LEMMA TypeLate == TypeOK /\ LateNext => TypeOK'
<1> USE DEF vendorVars, mirrorVars, dispVars, toldVars, Phase
<1>1. ASSUME TypeOK, NEW r \in Requests, CallGone(r)
      PROVE  disp' \in [Requests -> Phase] /\ claim' \in Requests \union {Free}
  BY <1>1 DEF CallGone, TypeOK
<1>2. ASSUME TypeOK, NEW r \in Requests, NEW p \in Parents, NEW n \in Notifies, AcceptOutlives(r, p, n)
      PROVE  TypeOK'
  <2>1. Accept(disk, r, p, n) \in Store
    BY <1>2, AcceptType, NotifiesAssumption DEF TypeOK
  <2>2. late' \subseteq [n : Nat, store : Store] /\ spent' \in [DOMAIN Bound -> Nat]
    BY <1>2, <2>1, OutlivesType DEF AcceptOutlives
  <2>3. disp' \in [Requests -> Phase] /\ claim' \in Requests \union {Free}
    BY <1>1, <1>2 DEF AcceptOutlives
  <2> QED
    BY <1>2, <2>2, <2>3 DEF AcceptOutlives, TypeOK
<1>3. ASSUME TypeOK, NEW r \in Requests, RollbackOutlives(r)
      PROVE  TypeOK'
  <2>1. late' \subseteq [n : Nat, store : Store] /\ spent' \in [DOMAIN Bound -> Nat]
    BY <1>3, OutlivesType DEF RollbackOutlives, TypeOK
  <2>2. disp' \in [Requests -> Phase] /\ claim' \in Requests \union {Free}
    BY <1>1, <1>3 DEF RollbackOutlives
  <2> QED
    BY <1>3, <2>1, <2>2 DEF RollbackOutlives, TypeOK
<1>4. ASSUME TypeOK, NEW r \in Requests, SubmitFailOutlives(r)
      PROVE  TypeOK'
  <2>1. /\ store' \in Store /\ resident' \in BOOLEAN /\ watched' \in BOOLEAN /\ gen' \in Nat
        /\ waits' \subseteq Requests /\ suppressed' \subseteq Requests
        /\ deliveringNow' \subseteq Key /\ provisional' \subseteq DueBoundary
    BY <1>4, DropRowType DEF SubmitFailOutlives
  <2>2. late' \subseteq [n : Nat, store : Store] /\ spent' \in [DOMAIN Bound -> Nat]
    BY <1>4, <2>1, OutlivesType, DurableType DEF SubmitFailOutlives
  <2>3. disp' \in [Requests -> Phase] /\ claim' \in Requests \union {Free}
    BY <1>1, <1>4 DEF SubmitFailOutlives
  <2> QED
    BY <1>4, <2>1, <2>2, <2>3 DEF SubmitFailOutlives, TypeOK
<1>5. ASSUME TypeOK, NEW r \in Requests, BindOutlives(r)
      PROVE  TypeOK'
  <2>1. store' \in Store
    BY <1>5, BoundStoreType DEF BindOutlives, TypeOK
  <2>2. late' \subseteq [n : Nat, store : Store] /\ spent' \in [DOMAIN Bound -> Nat]
    BY <1>5, <2>1, OutlivesType, DurableType DEF BindOutlives
  <2>3. disp' \in [Requests -> Phase] /\ claim' \in Requests \union {Free}
    BY <1>1, <1>5 DEF BindOutlives
  <2> QED
    BY <1>5, <2>1, <2>2, <2>3 DEF BindOutlives, TypeOK
<1>6. ASSUME TypeOK, NEW w \in late, LateLands(w)
      PROVE  TypeOK'
  <2>1. w.store \in Store /\ "fault" \in DOMAIN Bound
    BY <1>6 DEF TypeOK, Bound
  <2> QED
    BY <1>6, <2>1, SpendType DEF LateLands, PersistFail, TypeOK
<1> QED
  BY <1>2, <1>3, <1>4, <1>5, <1>6 DEF LateNext

\* Every reachable state is well typed: in particular every row a request is
\* bound to, repaired onto or answered by names a turn that exists.
THEOREM TypeCorrect == Spec => []TypeOK
<1>1. TypeOK /\ UNCHANGED vars => TypeOK'
  BY DEF TypeOK, vars, vendorVars, mirrorVars, dispVars, dlvVars, toldVars
<1>2. TypeOK /\ [Next]_vars => TypeOK'
  BY <1>1, TypeDispatch, TypeVendor, TypeDeliver, TypeLife, TypeLate DEF Next
<1> QED
  BY <1>2, TypeInit, PTL DEF Spec

-----------------------------------------------------------------------------
(* The store claim: one dispatch at a time has a request in hand, and once  *)
(* it is accepted finds it in the mirror.                                   *)

\* The phases of a dispatch between its accept and its bind.
InHand == {"writing", "accepted", "started", "injected", "queued"}

\* The store claim serialises the dispatches (delegation_store_claim): the one in
\* hand holds it, its row is in what its accept wrote, and in the mirror once it
\* is committed.  Of the file the claim says nothing: see FileInv.
ClaimInv ==
  /\ \A r \in Requests : disp[r] \in InHand => claim = r
  /\ \A r \in Requests : disp[r] = "writing" => Present(draft.req[r])
  /\ \A r \in Requests : disp[r] \in InHand \ {"writing"} => resident /\ Present(store.req[r])

\* No request is called Free.
LEMMA FreeIsNobody == \A r \in Requests : r # Free
  BY RequestsAssumption DEF Free

\* Whoever finds the claim free finds no request in hand.
LEMMA NobodyInHand ==
  ASSUME ClaimInv, claim = Free
  PROVE  \A r \in Requests : disp[r] \notin InHand
  BY FreeIsNobody DEF ClaimInv

\* A step that leaves the dispatchers and the claim alone keeps the claim's
\* invariant if the claim is free, or the mirror stays.
LEMMA ClaimFrame ==
  ASSUME ClaimInv, UNCHANGED <<disp, claim, draft>>,
         claim = Free \/ UNCHANGED <<resident, store>>
  PROVE  ClaimInv'
<1>1. CASE claim = Free
  BY <1>1, NobodyInHand DEF ClaimInv
<1>2. CASE UNCHANGED <<resident, store>>
  BY <1>2 DEF ClaimInv
<1> QED
  BY <1>1, <1>2

\* The request just accepted is in the file, whatever is pruned.
LEMMA AcceptedIsThere ==
  ASSUME NEW s \in Store, NEW r \in Requests, NEW p, NEW n
  PROVE  Accept(s, r, p, n).req[r] = Accepted(p, n)
<1> DEFINE q == Accepted(p, n)
           u == [s EXCEPT !.req[r] = q]
<1>1. q.state = "accepted"
  BY DEF Accepted
<1> HIDE DEF q
<1>2. u.req[r] = q /\ DOMAIN u.req = Requests
  BY DEF Store
<1>3. r \notin Resolved(u)
  BY <1>1, <1>2 DEF Resolved, TerminalState
<1>4. Accept(s, r, p, n) = Prune(u)
  BY DEF Accept, q
<1> HIDE DEF u
<1>5. \A R : r \notin R => Without(u, R).req[r] = u.req[r]
  <2>1. \A R : Without(u, R).req = [x \in Requests |-> IF x \in R THEN Absent ELSE u.req[x]]
    BY DEF Without, Store, u
  <2> QED
    BY <2>1
<1> QED
  BY <1>2, <1>3, <1>4, <1>5 DEF Prune, q

\* The dispatchers keep it: only who holds the claim is in hand.
LEMMA ClaimDispatch == TypeOK /\ ClaimInv /\ DispatchNext => ClaimInv'
<1> USE DEF vendorVars, mirrorVars, dispVars, dlvVars, toldVars
<1> SUFFICES ASSUME TypeOK, ClaimInv, NEW r \in Requests,
                    \/ \E p \in Parents, n \in Notifies, w \in Waiting : AcceptWrite(r, p, n, w)
                    \/ AcceptCommit(r) \/ AcceptRollback(r)
                    \/ \E t \in Turns : SubmitStarted(r, t) \/ SubmitInjected(r, t) \/ SubmitQueued(r, t)
                    \/ SubmitFail(r) \/ Bind(r) \/ Cancel(r)
                    \/ WaitClaimLapses(r) \/ WaiterReleases(r) \/ WaiterReads(r)
             PROVE  ClaimInv'
  BY DEF DispatchNext
<1>1. ASSUME NEW p \in Parents, NEW n \in Notifies, NEW w \in Waiting, AcceptWrite(r, p, n, w)
      PROVE  ClaimInv'
  <2>1. \A q \in Requests : disp[q] \notin InHand
    BY <1>1, NobodyInHand DEF AcceptWrite
  <2>2. draft'.req[r] = Accepted(p, n)
    BY <1>1, AcceptedIsThere DEF AcceptWrite, TypeOK
  <2>3. Present(draft'.req[r])
    BY <2>2 DEF Accepted, Present
  <2>4. claim' = r /\ disp' = [disp EXCEPT ![r] = "writing"] /\ disp \in [Requests -> Phase]
    BY <1>1 DEF AcceptWrite, TypeOK
  <2> QED
    BY <2>1, <2>3, <2>4 DEF ClaimInv, InHand
<1>2. CASE AcceptCommit(r)
  BY <1>2 DEF AcceptCommit, ClaimInv, InHand, TypeOK
<1>3. CASE AcceptRollback(r) \/ SubmitFail(r) \/ Bind(r)
  <2>1. disp[r] \in InHand
    BY <1>3 DEF AcceptRollback, SubmitFail, Bind, InHand
  <2>2. \A q \in Requests : disp[q] \in InHand => q = r
    BY <2>1 DEF ClaimInv
  <2>3. disp'[r] \notin InHand /\ \A q \in Requests : q # r => disp'[q] = disp[q]
    BY <1>3 DEF AcceptRollback, SubmitFail, Bind, InHand, TypeOK
  <2> QED
    BY <2>2, <2>3 DEF ClaimInv, InHand
<1>4. ASSUME NEW t \in Turns, SubmitStarted(r, t) \/ SubmitInjected(r, t) \/ SubmitQueued(r, t)
      PROVE  ClaimInv'
  <2>1. /\ disp[r] = "accepted" /\ disp'[r] \in InHand \ {"writing"}
        /\ \A q \in Requests : q # r => disp'[q] = disp[q]
        /\ UNCHANGED <<resident, store, claim, draft>>
    BY <1>4 DEF SubmitStarted, SubmitInjected, SubmitQueued, InHand, TypeOK
  <2> QED
    BY <2>1 DEF ClaimInv, InHand
<1>5. CASE Cancel(r)
  <2>1. /\ disp'[r] = "gone" /\ \A q \in Requests : q # r => disp'[q] = disp[q]
        /\ UNCHANGED <<resident, store, draft>>
        /\ claim # r => claim' = claim
    BY <1>5 DEF Cancel, TypeOK
  <2> QED
    BY <2>1 DEF ClaimInv, InHand
<1>6. CASE WaitClaimLapses(r)
  BY <1>6, ClaimFrame DEF WaitClaimLapses
<1>7. CASE WaiterReleases(r) \/ WaiterReads(r)
  <2>1. /\ disp'[r] \in {"reading", "closed"} /\ \A q \in Requests : q # r => disp'[q] = disp[q]
        /\ UNCHANGED <<resident, store, claim, draft>>
    BY <1>7 DEF WaiterReleases, WaiterReads, TypeOK
  <2> QED
    BY <2>1 DEF ClaimInv, InHand
<1> QED
  BY <1>1, <1>2, <1>3, <1>4, <1>5, <1>6, <1>7

\* The vendor touches neither claim nor rows.
LEMMA ClaimVendor == ClaimInv /\ VendorNext => ClaimInv'
<1> USE DEF vendorVars, mirrorVars, dispVars, dlvVars, toldVars
<1>1. VendorNext => UNCHANGED <<resident, store, disp, claim, draft>>
  BY DEF VendorNext, HumanTurn, OpenParked, OpenContinuation, TurnOpens, Narrate, TurnEnds, FailTurn,
         EndTurn, EndTurnReleased, EndTurnUnrecorded
<1> QED
  BY <1>1, ClaimFrame

\* Deliveries take the claim to remove or rewrite a row.
LEMMA ClaimDeliver == ClaimInv /\ DeliverNext => ClaimInv'
<1> USE DEF vendorVars, mirrorVars, dispVars, dlvVars, toldVars
<1>1. DeliverNext => UNCHANGED <<disp, claim, draft>>
  BY DEF DeliverNext, PulseIgnored, PulseOpened, PulseHeld, PulseSettled, GraceExpires, PlanNothing,
         Plan, PlanAbandoned, NotifyParent, ParentUnreachable, Commit
<1>2. DeliverNext => claim = Free \/ UNCHANGED <<resident, store>>
  BY DEF DeliverNext, PulseIgnored, PulseOpened, PulseHeld, PulseSettled, GraceExpires, PlanNothing,
         Plan, PlanAbandoned, NotifyParent, ParentUnreachable, Commit, MayPlan
<1> QED
  BY <1>1, <1>2, ClaimFrame

\* So do stops and settlements; a detached stop removes no row.
LEMMA ClaimLife == TypeOK /\ ClaimInv /\ LifeNext => ClaimInv'
<1> USE DEF vendorVars, mirrorVars, dispVars, dlvVars, toldVars
<1> SUFFICES ASSUME TypeOK, ClaimInv, LifeNext
             PROVE  ClaimInv'
  OBVIOUS
<1>1. CASE ReconcileScan \/ ReleasePick \/ ReleaseFence \/ ReleaseClear \/ ReleaseRead \/ EvictInPlace
  <2>1. UNCHANGED <<resident, store, disp, claim, draft>>
    BY <1>1 DEF ReconcileScan, ReleasePick, ReleaseFence, ReleaseClear, ReleaseRead, EvictInPlace
  <2> QED
    BY <2>1, ClaimFrame
<1>2. CASE ReleaseSettle \/ Stop \/ \E s \in flush : FlushSettlement(s)
  <2>1. claim = Free /\ UNCHANGED <<disp, claim, draft>>
    BY <1>2 DEF ReleaseSettle, Stop, StopsProcess, FlushSettlement
  <2> QED
    BY <2>1, ClaimFrame
<1>3. CASE ReconcileSeed
  <2>1. /\ resident => resident' /\ store' = store
        /\ UNCHANGED <<disp, claim, draft>>
    BY <1>3 DEF ReconcileSeed
  <2> QED
    BY <2>1 DEF ClaimInv
<1>4. CASE StopDetached
  <2>1. UNCHANGED <<disp, claim, draft, resident>> /\ store' = SettledStore
    BY <1>4 DEF StopDetached, StopsProcess
  <2>2. ASSUME NEW r \in Requests, Present(store.req[r])
        PROVE  Present(SettledStore.req[r])
    <3>1. SettledStore.req[r] = StoppedRequest(store.req[r])
      BY DEF SettledStore, TypeOK, Store
    <3>2. store.req[r] \in Request
      BY DEF TypeOK, Store
    <3> QED
      BY <2>2, <3>1, <3>2 DEF StoppedRequest, Present, Request
  <2> QED
    BY <2>1, <2>2 DEF ClaimInv
<1>5. CASE Crash
  <2>1. \A r \in Requests : disp'[r] \in {"new", "closed", "gone"}
    BY <1>5 DEF Crash
  <2> QED
    BY <2>1 DEF ClaimInv, InHand
<1> QED
  BY <1>1, <1>2, <1>3, <1>4, <1>5 DEF LifeNext

\* A call that leaves a write behind leaves the claim with it, and a write that
\* lands late touches neither the claim nor the mirror.
LEMMA ClaimLate == TypeOK /\ ClaimInv /\ LateNext => ClaimInv'
<1> USE DEF vendorVars, mirrorVars, dispVars, toldVars
<1> SUFFICES ASSUME TypeOK, ClaimInv, LateNext
             PROVE  ClaimInv'
  OBVIOUS
<1>1. ASSUME NEW r \in Requests, CallGone(r), claim = Free \/ disp[r] \in InHand
      PROVE  ClaimInv'
  <2>1. disp'[r] = "gone" /\ \A q \in Requests : q # r => disp'[q] = disp[q]
    BY <1>1 DEF CallGone, TypeOK
  <2>2. \A q \in Requests : disp[q] \in InHand => q = r
    BY <1>1, NobodyInHand DEF ClaimInv
  <2>3. \A q \in Requests : disp'[q] \notin InHand
    BY <2>1, <2>2 DEF InHand
  <2> QED
    BY <2>3 DEF ClaimInv, InHand
<1>2. ASSUME NEW r \in Requests,
             \/ \E p \in Parents, n \in Notifies : AcceptOutlives(r, p, n)
             \/ RollbackOutlives(r) \/ SubmitFailOutlives(r) \/ BindOutlives(r)
      PROVE  ClaimInv'
  <2>1. CallGone(r) /\ (claim = Free \/ disp[r] \in InHand)
    BY <1>2 DEF AcceptOutlives, RollbackOutlives, SubmitFailOutlives, BindOutlives, InHand
  <2> QED
    BY <1>1, <2>1
<1>3. ASSUME NEW w \in late, LateLands(w)
      PROVE  ClaimInv'
  BY <1>3, ClaimFrame DEF LateLands
<1> QED
  BY <1>2, <1>3 DEF LateNext

\* The claim serialises accept to bind.
THEOREM ClaimSerialises == Spec => []ClaimInv
<1> USE DEF vendorVars, mirrorVars, dispVars, dlvVars, toldVars
<1>1. Init => ClaimInv
  BY DEF Init, ClaimInv, InHand
<1>2. ClaimInv /\ UNCHANGED vars => ClaimInv'
  BY ClaimFrame DEF vars
<1>3. TypeOK /\ ClaimInv /\ [Next]_vars => ClaimInv'
  BY <1>2, ClaimDispatch, ClaimVendor, ClaimDeliver, ClaimLife, ClaimLate DEF Next
<1> QED
  BY <1>1, <1>3, TypeCorrect, PTL DEF Spec

\* What Bind takes for granted (BindFindsItsRow): the dispatch that holds the
\* claim finds the row it accepted, whatever is delivered, stopped or released
\* between its accept and its bind.
THEOREM BindsItsRow == Spec => []BindFindsItsRow
<1>1. ClaimInv => BindFindsItsRow
  BY DEF ClaimInv, BindFindsItsRow, InHand, Present
<1> QED
  BY <1>1, ClaimSerialises, PTL

-----------------------------------------------------------------------------
(* Whose work a turn is: the threads of continuations, and the requests     *)
(* that were handed to them.                                                *)

\* Turn t was minted.
Used(t) == turnState[t] # "unused"

\* The dispatch is past its bind, or was given up.
Late(r) == disp[r] \in {"waiting", "reading", "closed", "gone"}

\* Turn t does the work the adapter took for request r, or continues it.
Own(r, t) ==
  /\ receipt[r] # NoTurn
  /\ t \in Turns /\ Used(t)
  /\ root[t] = root[receipt[r]]

\* What the row q of request r is bound to, and was answered by, is r's own work.
RowOwned(r, q) ==
  /\ q.turn # NoTurn => Own(r, q.turn)
  /\ q.answered # NoTurn => Own(r, q.answered)
  /\ q.turn # NoTurn \/ q.answered # NoTurn \/ Answered(q) => Late(r)

\* ... of every row of a store,
StoreOwned(s) == \A r \in Requests : RowOwned(r, s.req[r])

\* ... and of every request a delivery resolves.
DeliveryOwned(d) == \A r \in d.resolved : Own(r, d.turn) /\ Late(r)

\* A pulse that opens a continuation names two turns of one thread.
PulseThreaded(p) ==
  p.kind = "opened" =>
    /\ Used(p.turn)
    /\ p.from # NoTurn => Used(p.from) /\ root[p.turn] = root[p.from]

\* Who has a receipt has handed its line over, to a turn that was minted.
HandedInv ==
  \A r \in Requests : receipt[r] # NoTurn =>
    disp[r] \notin {"new", "writing", "accepted"} /\ Used(receipt[r])

\* A continuation edge stays within one thread, on disk and in the channel.
ThreadInv ==
  /\ \A u \in Turns : edge[u] # NoTurn =>
       Used(u) /\ Used(edge[u]) /\ root[u] = root[edge[u]]
  /\ \A p \in Elems(pulses) : PulseThreaded(p)
  /\ lastTurn # NoTurn => Used(lastTurn)
  /\ \A t \in Turns : turnState[t] \in {"unused", "parked", "flushed"} =>
       root[t] = t /\ edge[t] = NoTurn

\* Every copy of the store,
CopiesOwned     == \A s \in Copies : StoreOwned(s)
\* ... and every delivery on its way.
DeliveriesOwned == \A d \in inflight : DeliveryOwned(d)

\* The inductive strengthening of AnsweredByItsOwnWork.
OwnInv == HandedInv /\ ThreadInv /\ CopiesOwned /\ DeliveriesOwned

\* What no step undoes: a turn in use stays so and keeps its thread, a receipt
\* stays, and a dispatch that is over stays over.
RootsStay ==
  /\ \A t \in Turns : Used(t) => Used(t)' /\ root'[t] = root[t]
  /\ \A r \in Requests : receipt[r] # NoTurn => receipt'[r] = receipt[r]
  /\ \A r \in Requests : Late(r) => Late(r)'

-----------------------------------------------------------------------------
\* The elements of a FIFO after a receive and after a send.
LEMMA TailElems ==
  ASSUME NEW S, NEW seq \in Seq(S), seq # << >>
  PROVE  Head(seq) \in Elems(seq) /\ Elems(Tail(seq)) \subseteq Elems(seq)
<1>1. Len(seq) \in Nat \ {0} /\ Head(seq) = seq[1] /\ 1 \in DOMAIN seq
  OBVIOUS
<1>2. ASSUME NEW i \in DOMAIN Tail(seq)
      PROVE  Tail(seq)[i] = seq[i + 1] /\ i + 1 \in DOMAIN seq
  BY <1>1
<1> QED
  BY <1>1, <1>2 DEF Elems

\* ... and after a send.
LEMMA AppendElems ==
  ASSUME NEW S, NEW seq \in Seq(S), NEW x
  PROVE  Elems(Append(seq, x)) = Elems(seq) \union {x}
<1> DEFINE longer == Append(seq, x)
<1>1. DOMAIN longer = 1..(Len(seq) + 1) /\ DOMAIN seq = 1..Len(seq) /\ Len(seq) \in Nat
  OBVIOUS
<1>2. longer[Len(seq) + 1] = x /\ \A i \in 1..Len(seq) : longer[i] = seq[i]
  OBVIOUS
<1> HIDE DEF longer
<1>3. Elems(longer) \subseteq Elems(seq) \union {x}
  BY <1>1, <1>2 DEF Elems
<1>4. Elems(seq) \union {x} \subseteq Elems(longer)
  <2>1. \A i \in DOMAIN seq : i \in DOMAIN longer
    BY <1>1
  <2>2. Len(seq) + 1 \in DOMAIN longer
    BY <1>1
  <2> QED
    BY <1>1, <1>2, <2>1, <2>2 DEF Elems
<1> QED
  BY <1>3, <1>4 DEF longer

\* The turns a walk along the rows visits are of the thread it starts in.
LEMMA WalkedThread ==
  ASSUME TypeOK, ThreadInv, NEW read, NEW t \in Turns, Used(t), NEW u \in Walked(read, t)
  PROVE  u \in Turns /\ Used(u) /\ root[u] = root[t]
<1> DEFINE C == {x \in Turns : Used(x) /\ root[x] = root[t]}
<1>1. t \in C /\ C \in SUBSET Turns
  OBVIOUS
<1>2. ASSUME NEW x \in C
      PROVE  Successors(read, x) \subseteq C
  <2> SUFFICES ASSUME NEW y \in Successors(read, x)
               PROVE  y \in C
    OBVIOUS
  <2>1. y \in Turns /\ edge[y] = x /\ x \in Turns
    BY DEF Successors
  <2>2. edge[y] # NoTurn
    BY <2>1, TurnsAssumption DEF NoTurn
  <2> QED
    BY <2>1, <2>2 DEF ThreadInv
<1>3. u \in C
  BY <1>1, <1>2 DEF Walked
<1> QED
  BY <1>3

-----------------------------------------------------------------------------
(* The operations on a store keep it owned.                                 *)

\* A row whose bindings are gone, or stay as they were, is owned.
LEMMA RowKeepsOwner ==
  ASSUME NEW r, NEW q, RowOwned(r, q), NEW n,
         n.turn \in {q.turn, NoTurn}, n.answered \in {q.answered, NoTurn},
         Answered(n) => Answered(q)
  PROVE  RowOwned(r, n)
  BY DEF RowOwned

\* Writing a store,
LEMMA DurableOwned ==
  ASSUME NEW s \in Store, StoreOwned(s)
  PROVE  StoreOwned(Durable(s))
<1> SUFFICES ASSUME NEW r \in Requests PROVE RowOwned(r, Durable(s).req[r])
  BY DEF StoreOwned
<1>1. s.req[r] \in Request /\ RowOwned(r, s.req[r])
  BY DEF Store, StoreOwned
<1>2. Durable(s).req[r] = [s.req[r] EXCEPT !.bindError = FALSE]
  BY DEF Durable, Store
<1>3. /\ Durable(s).req[r].turn = s.req[r].turn
      /\ Durable(s).req[r].answered = s.req[r].answered
      /\ Durable(s).req[r].state = s.req[r].state
  BY <1>1, <1>2 DEF Request
<1> QED
  BY <1>1, <1>3, RowKeepsOwner DEF Answered

\* ... a row that is not there,
LEMMA AbsentOwned == \A r : RowOwned(r, Absent)
  BY DEF RowOwned, Absent, Answered

\* ... no file at all,
LEMMA EmptyOwned == StoreOwned(EmptyStore)
  BY AbsentOwned DEF StoreOwned, EmptyStore

\* ... removing rows,
LEMMA WithoutOwned ==
  ASSUME NEW s \in Store, StoreOwned(s), NEW R
  PROVE  StoreOwned(Without(s, R))
<1>1. \A r \in Requests : Without(s, R).req[r] = IF r \in R THEN Absent ELSE s.req[r]
  BY DEF Without, Store
<1> QED
  BY <1>1, AbsentOwned DEF StoreOwned

\* ... and accepting a request give no row to foreign work.
LEMMA AcceptOwned ==
  ASSUME NEW s \in Store, StoreOwned(s), NEW r \in Requests, NEW p \in Parents, NEW n \in NotifyMode
  PROVE  StoreOwned(Accept(s, r, p, n))
<1> DEFINE q == Accepted(p, n)
           u == [s EXCEPT !.req[r] = q]
<1>1. RowOwned(r, q) /\ q \in Request
  BY DEF Accepted, RowOwned, Answered, Request, OpenState
<1> HIDE DEF q
<1>2. u \in Store
  BY <1>1, WithRowType
<1>3. StoreOwned(u)
  BY <1>1 DEF StoreOwned, Store
<1>4. Accept(s, r, p, n) = Prune(u)
  BY DEF Accept, q
<1> HIDE DEF u
<1> QED
  BY <1>2, <1>3, <1>4, WithoutOwned DEF Prune

\* A continuation adopts the bindings of the turn it continues: the same thread.
LEMMA RebindOwned ==
  ASSUME NEW s \in Store, StoreOwned(s), NEW from, NEW to \in Turns,
         from # NoTurn, Used(to), root[to] = root[from]
  PROVE  StoreOwned(RebindContinuation(s, from, to))
<1> SUFFICES ASSUME NEW r \in Requests PROVE RowOwned(r, RebindContinuation(s, from, to).req[r])
  BY DEF StoreOwned
<1>1. s.req[r] \in Request /\ RowOwned(r, s.req[r])
  BY DEF Store, StoreOwned
<1>2. CASE r \in BoundTo(s, from)
  <2>1. RebindContinuation(s, from, to).req[r] = [s.req[r] EXCEPT !.turn = to]
    BY <1>2 DEF RebindContinuation, Store
  <2>2. s.req[r].turn = from
    BY <1>2 DEF BoundTo
  <2> DEFINE n == [s.req[r] EXCEPT !.turn = to]
  <2>3. n.turn = to /\ n.answered = s.req[r].answered /\ n.state = s.req[r].state
    BY <1>1 DEF Request
  <2> HIDE DEF n
  <2>4. RowOwned(r, n)
    BY <1>1, <2>2, <2>3 DEF RowOwned, Own, Answered
  <2> QED
    BY <2>1, <2>4 DEF n
<1>3. CASE r \notin BoundTo(s, from)
  <2>1. RebindContinuation(s, from, to).req[r] = s.req[r]
    BY <1>3 DEF RebindContinuation, Store
  <2> QED
    BY <1>1, <2>1
<1> QED
  BY <1>2, <1>3

\* Marking a turn executing moves no binding.
LEMMA MarkExecutingOwned ==
  ASSUME NEW s \in Store, StoreOwned(s), NEW t
  PROVE  StoreOwned(MarkExecuting(s, t))
<1> SUFFICES ASSUME NEW r \in Requests PROVE RowOwned(r, MarkExecuting(s, t).req[r])
  BY DEF StoreOwned
<1>1. s.req[r] \in Request /\ RowOwned(r, s.req[r])
  BY DEF Store, StoreOwned
<1> DEFINE n == [s.req[r] EXCEPT !.state = "executing"]
<1>2. MarkExecuting(s, t).req[r] \in {s.req[r], n}
  BY DEF MarkExecuting, Store
<1>3. n.turn = s.req[r].turn /\ n.answered = s.req[r].answered /\ ~Answered(n)
  BY <1>1 DEF Request, Answered
<1> HIDE DEF n
<1> QED
  BY <1>1, <1>2, <1>3, RowKeepsOwner

\* The repair from the transcript walks along one thread.
LEMMA RepairOwned ==
  ASSUME TypeOK, ThreadInv, NEW read, NEW s \in Store, StoreOwned(s)
  PROVE  StoreOwned(Repair(read, s))
<1> SUFFICES ASSUME NEW r \in Requests PROVE RowOwned(r, Repair(read, s).req[r])
  BY DEF StoreOwned
<1> DEFINE q == s.req[r]
           n == RepairRequest(read, q)
<1>1. q \in Request /\ RowOwned(r, q)
  BY DEF Store, StoreOwned
<1>2. Repair(read, s).req[r] = n
  BY DEF Repair, Store
<1> HIDE DEF q
<1>3. CASE q.state \notin OpenState \/ q.turn = NoTurn
  BY <1>1, <1>2, <1>3 DEF RepairRequest
<1>4. CASE ~(q.state \notin OpenState \/ q.turn = NoTurn) /\ Ambiguous(read, q.turn)
  <2>1. n = [q EXCEPT !.bindError = TRUE]
    BY <1>4 DEF RepairRequest
  <2>2. n.turn = q.turn /\ n.answered = q.answered /\ n.state = q.state
    BY <1>1, <2>1 DEF Request
  <2> QED
    BY <1>1, <1>2, <2>2, RowKeepsOwner DEF Answered
<1>5. CASE ~(q.state \notin OpenState \/ q.turn = NoTurn) /\ ~Ambiguous(read, q.turn)
  <2> DEFINE u == CHOOSE x \in ChainEnds(read, q.turn) : TRUE
  <2>1. u \in Walked(read, q.turn)
    BY <1>5 DEF Ambiguous, ChainEnds
  <2>2. n = [q EXCEPT !.turn = u]
    BY <1>5 DEF RepairRequest
  <2> HIDE DEF u, n
  <2>3. n.turn = u /\ n.answered = q.answered /\ n.state = q.state
    BY <1>1, <2>2 DEF Request
  <2>4. Own(r, q.turn) /\ q.turn \in Turns
    BY <1>1, <1>5 DEF RowOwned, Own
  <2>5. Own(r, u)
    BY <2>1, <2>4, WalkedThread DEF Own
  <2> QED
    BY <1>1, <1>2, <1>5, <2>3, <2>5 DEF RowOwned, Answered, n
<1> QED
  BY <1>3, <1>4, <1>5

\* A stop settles without binding anything.
LEMMA SettledOwned ==
  ASSUME TypeOK, StoreOwned(store)
  PROVE  StoreOwned(SettledStore)
<1> SUFFICES ASSUME NEW r \in Requests PROVE RowOwned(r, SettledStore.req[r])
  BY DEF StoreOwned
<1> DEFINE q == store.req[r]
           n == StoppedRequest(q)
<1>1. q \in Request /\ RowOwned(r, q)
  BY DEF TypeOK, Store, StoreOwned
<1>2. SettledStore.req[r] = n
  BY DEF SettledStore, TypeOK, Store
<1> HIDE DEF q
<1>3. n.turn = q.turn /\ n.answered = q.answered /\ (Answered(n) => Answered(q))
  BY <1>1 DEF StoppedRequest, Request, Answered, OpenState
<1> QED
  BY <1>1, <1>2, <1>3, RowKeepsOwner

\* A row bound to the turn the adapter took it for.
LEMMA BoundRowOwned ==
  ASSUME TypeOK, HandedInv, NEW r \in Requests, receipt[r] # NoTurn
  PROVE  Own(r, receipt[r])
  BY DEF Own, HandedInv, TypeOK

\* A commit answers with the turn its delivery is about.
LEMMA CommittedOwned ==
  ASSUME TypeOK, StoreOwned(store), NEW d \in Delivery, DeliveryOwned(d)
  PROVE  StoreOwned(CommittedStore(d))
<1> SUFFICES ASSUME NEW r \in Requests PROVE RowOwned(r, CommittedStore(d).req[r])
  BY DEF StoreOwned
<1> DEFINE q == store.req[r]
<1>1. CommittedStore(d).req[r] = ResolvedBy(d, r, q)
  <2>1. store \in Store
    BY DEF TypeOK
  <2>2. CommittedStore(d).req = [x \in Requests |-> ResolvedBy(d, x, store.req[x])]
    BY <2>1, CommittedStoreType
  <2> QED
    BY <2>2
<1>2. q \in Request /\ RowOwned(r, q)
  BY DEF TypeOK, Store, StoreOwned
<1> HIDE DEF q
<1> DEFINE st == IF Failed(d) THEN "failed" ELSE "answered"
           b  == r \in d.pushed
           n  == [q EXCEPT !.state = st, !.answered = d.turn, !.notified = b]
<1>3. \/ ResolvedBy(d, r, q) \in {Absent, q}
      \/ r \in d.resolved /\ ResolvedBy(d, r, q) = n
  BY Zenon DEF ResolvedBy
<1> HIDE DEF st, b
<1>4. n.turn = q.turn /\ n.answered = d.turn
  BY <1>2 DEF Request
<1> HIDE DEF n
<1>5. r \in d.resolved => RowOwned(r, n)
  BY <1>2, <1>4 DEF RowOwned, DeliveryOwned
<1> QED
  BY <1>1, <1>2, <1>3, <1>5, AbsentOwned

\* What is owned stays owned while threads, receipts and ends of dispatches stay.
LEMMA OwnStays ==
  ASSUME HandedInv, TypeOK, RootsStay
  PROVE  /\ \A r \in Requests : \A t : Own(r, t) => Own(r, t)'
         /\ \A s : StoreOwned(s) => StoreOwned(s)'
         /\ \A d \in Delivery : DeliveryOwned(d) => DeliveryOwned(d)'
<1>1. ASSUME NEW r \in Requests, NEW t, Own(r, t)
      PROVE  Own(r, t)'
  <2>1. receipt[r] # NoTurn /\ receipt[r] \in Turns /\ Used(receipt[r]) /\ t \in Turns /\ Used(t)
    BY <1>1 DEF Own, HandedInv, TypeOK
  <2>2. receipt'[r] = receipt[r] /\ root'[t] = root[t] /\ root'[receipt[r]] = root[receipt[r]] /\ Used(t)'
    BY <2>1 DEF RootsStay
  <2> QED
    BY <1>1, <2>1, <2>2 DEF Own
<1>2. ASSUME NEW s, StoreOwned(s)
      PROVE  StoreOwned(s)'
  BY <1>1, <1>2 DEF StoreOwned, RowOwned, RootsStay
<1>3. ASSUME NEW d \in Delivery, DeliveryOwned(d)
      PROVE  DeliveryOwned(d)'
  <2>1. d.resolved \subseteq Requests
    BY DEF Delivery
  <2> QED
    BY <1>1, <1>3, <2>1 DEF DeliveryOwned, RootsStay
<1> QED
  BY <1>1, <1>2, <1>3

\* Enough for the next state: threads kept, and every copy and delivery of it owned
\* already by what is true now.
LEMMA OwnNext ==
  ASSUME TypeOK, TypeOK', OwnInv, RootsStay, HandedInv', ThreadInv',
         StoreOwned(disk'), StoreOwned(store'), StoreOwned(saved'), StoreOwned(draft'),
         StoreOwned(scan'.store),
         \A s \in flush' : StoreOwned(s), \A w \in late' : StoreOwned(w.store),
         \A d \in inflight' : DeliveryOwned(d)
  PROVE  OwnInv'
<1>1. CopiesOwned'
  <2> SUFFICES ASSUME NEW s \in Copies' PROVE StoreOwned(s)'
    BY DEF CopiesOwned
  <2>1. \/ s = disk' \/ s = store' \/ s = saved' \/ s = draft' \/ s = scan'.store \/ s \in flush'
        \/ \E w \in late' : s = w.store
    BY DEF Copies
  <2>2. StoreOwned(s)
    BY <2>1
  <2> QED
    BY <2>2, OwnStays DEF OwnInv
<1>2. DeliveriesOwned'
  <2> SUFFICES ASSUME NEW d \in inflight' PROVE DeliveryOwned(d)'
    BY DEF DeliveriesOwned
  <2>1. d \in Delivery /\ DeliveryOwned(d)
    BY DEF TypeOK
  <2> QED
    BY <2>1, OwnStays DEF OwnInv
<1> QED
  BY <1>1, <1>2 DEF OwnInv

\* What is owned now.
LEMMA OwnedNow ==
  ASSUME OwnInv
  PROVE  /\ StoreOwned(disk) /\ StoreOwned(store) /\ StoreOwned(saved) /\ StoreOwned(draft)
         /\ StoreOwned(scan.store)
         /\ \A s \in flush : StoreOwned(s)
         /\ \A w \in late : StoreOwned(w.store)
         /\ \A d \in inflight : DeliveryOwned(d)
         /\ StoreOwned(EmptyStore)
  BY EmptyOwned DEF OwnInv, CopiesOwned, DeliveriesOwned, Copies

\* A dispatch only moves on.
DispMoves ==
  \A r \in Requests :
    /\ Late(r) => Late(r)'
    /\ disp[r] \notin {"new", "writing", "accepted"} => disp'[r] \notin {"new", "writing", "accepted"}

\* A step that opens and ends no turn, hands nothing over and sends no opening.
LEMMA ThreadFrame ==
  ASSUME TypeOK, HandedInv, ThreadInv, DispMoves,
         UNCHANGED <<turnState, edge, root, lastTurn, receipt>>,
         \A p \in Elems(pulses') : p \in Elems(pulses) \/ p.kind # "opened"
  PROVE  RootsStay /\ HandedInv' /\ ThreadInv'
<1>1. RootsStay
  BY DEF RootsStay, DispMoves, Used
<1>2. HandedInv'
  BY DEF HandedInv, DispMoves, Used
<1>3. \A p \in Elems(pulses') : PulseThreaded(p)'
  BY DEF ThreadInv, PulseThreaded, Used
<1>4. ThreadInv'
  BY <1>3 DEF ThreadInv, Used
<1> QED
  BY <1>1, <1>2, <1>4

\* A write of an owned store, landed or failed, leaves an owned file.
LEMMA PersistOwned ==
  ASSUME OwnInv, NEW s \in Store, StoreOwned(s), PersistOk(s) \/ PersistFail \/ UNCHANGED disk
  PROVE  StoreOwned(disk')
<1>1. StoreOwned(Durable(s))
  BY DurableOwned
<1>2. StoreOwned(disk)
  BY OwnedNow
<1> QED
  BY <1>1, <1>2 DEF PersistOk, PersistFail

\* A row dropped leaves an owned mirror.
LEMMA DropRowOwned ==
  ASSUME OwnInv, TypeOK, NEW r \in Requests, DropRow(r)
  PROVE  StoreOwned(store')
<1>1. StoreOwned(Without(store, {r})) /\ StoreOwned(EmptyStore)
  BY WithoutOwned, OwnedNow DEF TypeOK
<1>2. store' = EmptyStore \/ store' = Without(store, {r})
  BY Zenon DEF DropRow
<1> QED
  BY <1>1, <1>2

\* A bind names the turn on the receipt, in the mirror and in what it writes.
LEMMA BindOwned ==
  ASSUME TypeOK, TypeOK', OwnInv, NEW r \in Requests,
         disp[r] \in {"started", "injected", "queued"}, disp'[r] \in {"waiting", "closed", "gone"},
         disp' = [disp EXCEPT ![r] = disp'[r]],
         UNCHANGED <<turnState, edge, root, lastTurn, receipt, pulses, inflight>>,
         \A s \in Copies' : \/ s \in Copies
                            \/ \E e \in BOOLEAN : s \in {BoundStore(r, e), Durable(BoundStore(r, e))}
  PROVE  OwnInv'
<1>a. HandedInv /\ ThreadInv
  BY DEF OwnInv
<1>b. DispMoves
  BY DEF DispMoves, Late, TypeOK
<1>c. RootsStay /\ HandedInv' /\ ThreadInv'
  BY <1>a, <1>b, ThreadFrame
<1> DEFINE SameBut(s) == \A x \in Requests :
             /\ x # r => /\ s.req[x].turn = store.req[x].turn /\ s.req[x].answered = store.req[x].answered
                         /\ s.req[x].state = store.req[x].state
             /\ x = r => s.req[x].turn = receipt[r] /\ s.req[x].answered = store.req[x].answered
<1>1. ASSUME NEW e \in BOOLEAN
      PROVE  SameBut(BoundStore(r, e)) /\ SameBut(Durable(BoundStore(r, e)))
  <2> DEFINE q == store.req[r]
             b == BoundState(disp[r])
             f == e \/ q.bindError
             n == [q EXCEPT !.turn = receipt[r], !.state = b, !.bindError = f]
  <2>1. BoundStore(r, e) = [store EXCEPT !.req[r] = n]
    BY Zenon DEF BoundStore
  <2>2. q \in Request
    BY DEF TypeOK, Store
  <2> HIDE DEF b, f
  <2>3. n.turn = receipt[r] /\ n.answered = q.answered
    BY <2>2 DEF Request
  <2> HIDE DEF n
  <2>4. BoundStore(r, e).req = [store.req EXCEPT ![r] = n] /\ DOMAIN store.req = Requests
    BY <2>1 DEF TypeOK, Store
  <2>5. BoundStore(r, e) \in Store
    BY BoundStoreType DEF TypeOK
  <2>6. SameBut(BoundStore(r, e))
    BY <2>3, <2>4
  <2> DEFINE u == BoundStore(r, e)
  <2> HIDE DEF u
  <2>7. u \in Store /\ SameBut(u)
    BY <2>5, <2>6 DEF u
  <2>8. ASSUME NEW x \in Requests
        PROVE  /\ Durable(u).req[x].turn = u.req[x].turn
               /\ Durable(u).req[x].answered = u.req[x].answered
               /\ Durable(u).req[x].state = u.req[x].state
    <3>1. Durable(u).req[x] = [u.req[x] EXCEPT !.bindError = FALSE] /\ u.req[x] \in Request
      BY <2>7 DEF Durable, Store
    <3> QED
      BY <3>1 DEF Request
  <2>9. SameBut(Durable(u))
    BY <2>7, <2>8
  <2> QED
    BY <2>6, <2>9 DEF u
<1>2. ASSUME NEW s, SameBut(s)
      PROVE  StoreOwned(s)'
  <2>2. receipt[r] # NoTurn => Own(r, receipt[r])
    BY <1>a, BoundRowOwned
  <2>3. Late(r)'
    BY DEF Late, TypeOK
  <2>4. \A x \in Requests : RowOwned(x, store.req[x])
    BY OwnedNow DEF StoreOwned
  <2>5. ASSUME NEW x \in Requests
        PROVE  RowOwned(x, s.req[x])'
    <3>1. CASE x = r
      <4>1. \A t : Own(r, t) => Own(r, t)'
        BY <1>a, <1>c, OwnStays
      <4> QED
        BY <1>2, <2>2, <2>3, <2>4, <3>1, <4>1 DEF RowOwned
    <3>2. CASE x # r
      <4>1. \A t : Own(x, t) => Own(x, t)'
        BY <1>a, <1>c, OwnStays
      <4>2. Late(x) => Late(x)'
        BY <1>c DEF RootsStay
      <4> QED
        BY <1>2, <2>4, <3>2, <4>1, <4>2 DEF RowOwned, Answered
    <3> QED
      BY <3>1, <3>2
  <2> QED
    BY <2>5 DEF StoreOwned
<1> HIDE DEF SameBut
<1> HIDE DEF SameBut
<1>3. \A s \in Copies' : s \in Copies \/ SameBut(s)
  BY <1>1
<1>4. CopiesOwned'
  BY <1>a, <1>c, <1>2, <1>3, OwnStays DEF OwnInv, CopiesOwned
<1>5. DeliveriesOwned'
  BY <1>a, <1>c, OwnStays DEF OwnInv, DeliveriesOwned, TypeOK
<1> QED
  BY <1>c, <1>4, <1>5 DEF OwnInv

\* The dispatchers keep it.
LEMMA OwnDispatch == TypeOK /\ TypeOK' /\ ClaimInv /\ OwnInv /\ DispatchNext => OwnInv'
<1> USE DEF vendorVars, mirrorVars, dispVars, dlvVars, toldVars
<1> SUFFICES ASSUME TypeOK, TypeOK', ClaimInv, OwnInv, NEW r \in Requests,
                    \/ \E p \in Parents, n \in Notifies, w \in Waiting : AcceptWrite(r, p, n, w)
                    \/ AcceptCommit(r) \/ AcceptRollback(r)
                    \/ \E t \in Turns : SubmitStarted(r, t) \/ SubmitInjected(r, t) \/ SubmitQueued(r, t)
                    \/ SubmitFail(r) \/ Bind(r) \/ Cancel(r)
                    \/ WaitClaimLapses(r) \/ WaiterReleases(r) \/ WaiterReads(r)
             PROVE  OwnInv'
  BY DEF DispatchNext
<1>a. HandedInv /\ ThreadInv
  BY DEF OwnInv
<1>1. ASSUME NEW p \in Parents, NEW n \in Notifies, NEW w \in Waiting, AcceptWrite(r, p, n, w)
      PROVE  OwnInv'
  <2>1. DispMoves
    BY <1>1 DEF AcceptWrite, DispMoves, Late, TypeOK
  <2>2. RootsStay /\ HandedInv' /\ ThreadInv'
    BY <1>1, <1>a, <2>1, ThreadFrame DEF AcceptWrite
  <2>3. StoreOwned(disk')
    BY <1>1, AcceptOwned, OwnedNow, NotifiesAssumption DEF AcceptWrite, TypeOK
  <2> QED
    BY <1>1, <2>2, <2>3, OwnedNow, OwnNext DEF AcceptWrite
<1>2. CASE AcceptCommit(r)
  <2>1. DispMoves
    <3>1. receipt[r] = NoTurn
      BY <1>2, <1>a DEF AcceptCommit, HandedInv
    <3> QED
      BY <1>2 DEF AcceptCommit, DispMoves, Late, TypeOK
  <2>2. RootsStay /\ HandedInv' /\ ThreadInv'
    BY <1>2, <1>a, <2>1, ThreadFrame DEF AcceptCommit
  <2> QED
    BY <1>2, <2>2, OwnedNow, OwnNext DEF AcceptCommit
<1>3. CASE AcceptRollback(r)
  <2>1. DispMoves
    BY <1>3 DEF AcceptRollback, DispMoves, Late, TypeOK
  <2>2. RootsStay /\ HandedInv' /\ ThreadInv'
    BY <1>3, <1>a, <2>1, ThreadFrame DEF AcceptRollback
  <2>3. StoreOwned(disk')
    BY <1>3, OwnedNow DEF AcceptRollback, PersistFail
  <2> QED
    BY <1>3, <2>2, <2>3, OwnedNow, OwnNext DEF AcceptRollback
<1>4. ASSUME NEW t \in Turns, SubmitStarted(r, t) \/ SubmitInjected(r, t) \/ SubmitQueued(r, t)
      PROVE  OwnInv'
  <2>1. /\ disp[r] = "accepted" /\ disp'[r] \in {"started", "injected", "queued"}
        /\ disp' = [disp EXCEPT ![r] = disp'[r]]
        /\ receipt' = [receipt EXCEPT ![r] = t]
        /\ UNCHANGED <<edge, root, disk, store, saved, draft, scan, flush, late, inflight>>
    BY <1>4 DEF SubmitStarted, SubmitInjected, SubmitQueued, TypeOK
  <2>2. receipt[r] = NoTurn
    BY <2>1, <1>a DEF HandedInv
  <2>3. /\ turnState'[t] # "unused"
        /\ \A u \in Turns : turnState'[u] = turnState[u] \/ (u = t /\ turnState[u] = "unused")
        /\ \A u \in Turns : turnState'[u] \in {"unused", "parked", "flushed"} =>
             turnState[u] \in {"unused", "parked", "flushed"}
        /\ lastTurn' \in {lastTurn, t}
        /\ \A p \in Elems(pulses') : p \in Elems(pulses) \/ (p.turn = t /\ p.from = NoTurn)
    <3>1. CASE SubmitStarted(r, t)
      <4>1. pulses' = Append(pulses, Opened(t, NoTurn)) /\ pulses \in Seq(Pulse)
        BY <3>1 DEF SubmitStarted, TypeOK
      <4>2. Elems(pulses') = Elems(pulses) \union {Opened(t, NoTurn)}
        BY <4>1, AppendElems
      <4>3. turnState' = [turnState EXCEPT ![t] = "running"] /\ turnState[t] = "unused" /\ lastTurn' = t
        BY <3>1 DEF SubmitStarted, Fresh, Unused
      <4> QED
        BY <4>2, <4>3 DEF Opened, TypeOK
    <3>2. CASE SubmitInjected(r, t)
      BY <3>2 DEF SubmitInjected, Running, TypeOK
    <3>3. CASE SubmitQueued(r, t)
      BY <3>3 DEF SubmitQueued, Fresh, Unused, TypeOK
    <3> QED
      BY <1>4, <3>1, <3>2, <3>3
  <2>4. RootsStay
    BY <2>1, <2>2, <2>3 DEF RootsStay, Used, Late, TypeOK
  <2>5. HandedInv'
    BY <1>a, <2>1, <2>2, <2>3, <2>4 DEF HandedInv, RootsStay, Used, TypeOK
  <2>6. ThreadInv'
    <3>1. \A u \in Turns : Used(u) => Used(u)'
      BY <2>4 DEF RootsStay
    <3>2. \A u \in Turns : edge'[u] # NoTurn =>
            turnState'[u] # "unused" /\ turnState'[edge'[u]] # "unused" /\ root'[u] = root'[edge'[u]]
      BY <1>a, <2>1, <3>1 DEF ThreadInv, TypeOK, Used
    <3>3. \A p \in Elems(pulses') : PulseThreaded(p)'
      <4> SUFFICES ASSUME NEW p \in Elems(pulses') PROVE PulseThreaded(p)'
        OBVIOUS
      <4>1. CASE p.turn = t /\ p.from = NoTurn
        BY <2>3, <4>1 DEF PulseThreaded, Used
      <4>2. CASE p \in Elems(pulses)
        <5>1. PulseThreaded(p) /\ p \in Pulse
          BY <1>a, <4>2 DEF ThreadInv, TypeOK, Elems
        <5> QED
          BY <2>1, <3>1, <5>1 DEF PulseThreaded, Pulse
      <4> QED
        BY <2>3, <4>1, <4>2
    <3>4. lastTurn' # NoTurn => turnState'[lastTurn'] # "unused"
      BY <1>a, <2>3, <3>1 DEF ThreadInv, Used, TypeOK
    <3>5. \A u \in Turns : turnState'[u] \in {"unused", "parked", "flushed"} => root'[u] = u /\ edge'[u] = NoTurn
      BY <1>a, <2>1, <2>3 DEF ThreadInv
    <3> QED
      BY <3>2, <3>3, <3>4, <3>5 DEF ThreadInv, Used
  <2> QED
    BY <2>1, <2>4, <2>5, <2>6, OwnedNow, OwnNext
<1>5. CASE SubmitFail(r)
  <2>1. DispMoves
    BY <1>5 DEF SubmitFail, DispMoves, Late, TypeOK
  <2>2. RootsStay /\ HandedInv' /\ ThreadInv'
    <3>1. UNCHANGED <<turnState, edge, root, lastTurn, receipt, pulses>>
      BY <1>5 DEF SubmitFail
    <3> QED
      BY <1>a, <2>1, <3>1, ThreadFrame
  <2>3. store' \in Store /\ StoreOwned(store')
    BY <1>5, DropRowType, DropRowOwned DEF SubmitFail
  <2>4. StoreOwned(disk')
    BY <1>5, <2>3, PersistOwned DEF SubmitFail, Persist
  <2>5. UNCHANGED <<saved, draft, scan, flush, late, inflight>>
    BY <1>5 DEF SubmitFail
  <2> QED
    BY <2>2, <2>3, <2>4, <2>5, OwnedNow, OwnNext
<1>6. CASE Bind(r)
  <2>1. /\ disp[r] \in {"started", "injected", "queued"} /\ disp'[r] \in {"waiting", "closed"}
        /\ disp' = [disp EXCEPT ![r] = disp'[r]]
        /\ UNCHANGED <<turnState, edge, root, lastTurn, receipt, pulses, saved, draft, scan, flush, late,
                       inflight>>
    BY <1>6 DEF Bind, TypeOK
  <2>2. \/ store' = BoundStore(r, FALSE) /\ disk' = Durable(BoundStore(r, FALSE))
        \/ store' = BoundStore(r, TRUE) /\ disk' = disk
    BY <1>6, Zenon DEF Bind, PersistOk, PersistFail
  <2>3. \A s \in Copies' : \/ s \in Copies
                           \/ \E e \in BOOLEAN : s \in {BoundStore(r, e), Durable(BoundStore(r, e))}
    BY <2>1, <2>2 DEF Copies
  <2> QED
    BY <2>1, <2>3, BindOwned
<1>7. CASE Cancel(r) \/ WaitClaimLapses(r) \/ WaiterReleases(r) \/ WaiterReads(r)
  <2>1. /\ disp' = disp \/ (disp' = [disp EXCEPT ![r] = disp'[r]] /\ disp'[r] \in {"gone", "reading", "closed"})
        /\ UNCHANGED <<turnState, edge, root, lastTurn, receipt, pulses, disk, store, saved, draft, scan,
                       flush, late, inflight>>
    BY <1>7 DEF Cancel, WaitClaimLapses, WaiterReleases, WaiterReads, TypeOK
  <2>2. DispMoves
    BY <2>1 DEF DispMoves, Late, TypeOK
  <2>3. RootsStay /\ HandedInv' /\ ThreadInv'
    BY <1>a, <2>1, <2>2, ThreadFrame
  <2> QED
    BY <2>1, <2>3, OwnedNow, OwnNext
<1> QED
  BY <1>1, <1>2, <1>3, <1>4, <1>5, <1>6, <1>7

\* A step that ends turns, or cuts them short, keeps the threads too.
LEMMA ThreadMoves ==
  ASSUME TypeOK, HandedInv, ThreadInv, DispMoves, UNCHANGED <<edge, root, receipt>>,
         \A t \in Turns : /\ Used(t) => Used(t)'
                          /\ turnState'[t] \in {"unused", "parked", "flushed"} =>
                               turnState[t] \in {"unused", "parked", "flushed"},
         lastTurn' \in {lastTurn, NoTurn},
         \A p \in Elems(pulses') : p \in Elems(pulses) \/ p.kind # "opened"
  PROVE  RootsStay /\ HandedInv' /\ ThreadInv'
<1>1. RootsStay
  BY DEF RootsStay, DispMoves
<1>2. HandedInv'
  BY DEF HandedInv, DispMoves, TypeOK
<1>3. \A p \in Elems(pulses') : PulseThreaded(p)'
  <2> SUFFICES ASSUME NEW p \in Elems(pulses'), p.kind = "opened"
               PROVE  PulseThreaded(p)'
    BY DEF PulseThreaded
  <2>1. p \in Elems(pulses)
    OBVIOUS
  <2>2. p \in Pulse /\ PulseThreaded(p)
    BY <2>1 DEF ThreadInv, TypeOK, Elems
  <2> QED
    BY <2>2 DEF PulseThreaded, Pulse
<1>4. \A u \in Turns : edge'[u] # NoTurn =>
        turnState'[u] # "unused" /\ turnState'[edge'[u]] # "unused" /\ root'[u] = root'[edge'[u]]
  BY DEF ThreadInv, Used, TypeOK
<1>5. lastTurn' # NoTurn => turnState'[lastTurn'] # "unused"
  BY DEF ThreadInv, Used, TypeOK
<1>6. ThreadInv'
  BY <1>3, <1>4, <1>5 DEF ThreadInv, Used
<1> QED
  BY <1>1, <1>2, <1>6

\* A turn that opens joins the thread of the turn it continues, or starts one.
LEMMA ThreadOpens ==
  ASSUME TypeOK, HandedInv, ThreadInv, NEW t \in Turns, NEW phase, NEW from \in Turns \union {NoTurn},
         TurnOpens(t, phase, from),
         turnState[t] \in {"unused", "parked"}, phase \in {"running", "flushed"},
         from # NoTurn => Used(from) /\ from # t /\ phase = "running" /\ turnState[t] = "unused"
  PROVE  RootsStay /\ HandedInv' /\ ThreadInv'
<1> USE DEF vendorVars, mirrorVars, dispVars, dlvVars, toldVars
<1>1. /\ turnState' = [turnState EXCEPT ![t] = phase]
      /\ edge' = [edge EXCEPT ![t] = from]
      /\ root' = [root EXCEPT ![t] = IF from = NoTurn THEN t ELSE root[from]]
      /\ lastTurn' = t
      /\ UNCHANGED <<disp, receipt>>
  BY DEF TurnOpens
<1>2. root[t] = t /\ edge[t] = NoTurn
  BY DEF ThreadInv
<1>3. /\ \A u \in Turns : Used(u) => Used(u)'
      /\ turnState'[t] = phase
      /\ \A u \in Turns : u # t => turnState'[u] = turnState[u] /\ edge'[u] = edge[u] /\ root'[u] = root[u]
      /\ root'[t] = IF from = NoTurn THEN t ELSE root[from]
      /\ edge'[t] = from
  BY <1>1 DEF Used, TypeOK
<1>4. \A u \in Turns : Used(u) => root'[u] = root[u]
  BY <1>2, <1>3 DEF Used
<1>5. RootsStay
  BY <1>1, <1>3, <1>4 DEF RootsStay, Late
<1>6. HandedInv'
  BY <1>1, <1>3 DEF HandedInv, TypeOK
<1>7. \A p \in Elems(pulses') : PulseThreaded(p)'
  <2>1. Elems(pulses') = Elems(pulses) \union {Opened(t, from)}
    BY AppendElems DEF TurnOpens, TypeOK
  <2> SUFFICES ASSUME NEW p \in Elems(pulses')
               PROVE  PulseThreaded(p)'
    OBVIOUS
  <2>2. CASE p = Opened(t, from)
    <3>1. p.turn = t /\ p.from = from
      BY <2>2 DEF Opened
    <3>2. turnState'[t] # "unused"
      BY <1>3
    <3>3. from # NoTurn => turnState'[from] # "unused" /\ root'[t] = root'[from]
      BY <1>3 DEF Used
    <3> QED
      BY <3>1, <3>2, <3>3 DEF PulseThreaded, Used
  <2>3. CASE p \in Elems(pulses)
    <3>1. p \in Pulse /\ PulseThreaded(p)
      BY <2>3 DEF ThreadInv, TypeOK, Elems
    <3> QED
      BY <1>3, <1>4, <3>1 DEF PulseThreaded, Pulse
  <2> QED
    BY <2>1, <2>2, <2>3
<1>8. ASSUME NEW u \in Turns, edge'[u] # NoTurn
      PROVE  turnState'[u] # "unused" /\ turnState'[edge'[u]] # "unused" /\ root'[u] = root'[edge'[u]]
  <2>1. CASE u = t
    BY <1>3, <1>8, <2>1 DEF Used
  <2>2. CASE u # t
    <3>1. edge'[u] = edge[u] /\ Used(u) /\ Used(edge[u]) /\ edge[u] \in Turns /\ root[u] = root[edge[u]]
      BY <1>3, <1>8, <2>2 DEF ThreadInv, TypeOK
    <3> QED
      BY <1>3, <1>4, <3>1 DEF Used
  <2> QED
    BY <2>1, <2>2
<1>9. \A u \in Turns : turnState'[u] \in {"unused", "parked", "flushed"} => root'[u] = u /\ edge'[u] = NoTurn
  BY <1>3 DEF ThreadInv
<1>10. ThreadInv'
  BY <1>1, <1>3, <1>7, <1>8, <1>9 DEF ThreadInv, Used
<1> QED
  BY <1>5, <1>6, <1>10

\* The vendor keeps it: a continuation inherits the thread of the last turn.
LEMMA OwnVendor == TypeOK /\ TypeOK' /\ OwnInv /\ VendorNext => OwnInv'
<1> USE DEF vendorVars, mirrorVars, dispVars, dlvVars, toldVars
<1> SUFFICES ASSUME TypeOK, TypeOK', OwnInv, NEW t \in Turns,
                    \/ HumanTurn(t) \/ OpenParked(t) \/ OpenContinuation(t)
                    \/ Narrate(t) \/ FailTurn(t)
                    \/ \E h \in Holds : EndTurn(t, h) \/ EndTurnReleased(t, h) \/ EndTurnUnrecorded(t, h)
             PROVE  OwnInv'
  BY DEF VendorNext
<1>a. HandedInv /\ ThreadInv
  BY DEF OwnInv
<1>b. UNCHANGED <<disk, store, saved, draft, late, scan, flush, inflight, disp, receipt>>
  BY DEF HumanTurn, OpenParked, OpenContinuation, TurnOpens, Narrate, TurnEnds, FailTurn,
         EndTurn, EndTurnReleased, EndTurnUnrecorded
<1>c. DispMoves
  BY <1>b DEF DispMoves, Late
<1> SUFFICES RootsStay /\ HandedInv' /\ ThreadInv'
  BY <1>b, OwnedNow, OwnNext
<1>1. CASE HumanTurn(t)
  BY <1>1, <1>a, ThreadOpens DEF HumanTurn, Fresh, Unused
<1>2. CASE OpenParked(t)
  BY <1>2, <1>a, ThreadOpens DEF OpenParked
<1>3. CASE OpenContinuation(t)
  <2>1. TurnOpens(t, "running", lastTurn) /\ lastTurn # NoTurn /\ turnState[t] = "unused"
    BY <1>3 DEF OpenContinuation, Fresh, Unused
  <2>2. Used(lastTurn) /\ lastTurn \in Turns \union {NoTurn} /\ lastTurn # t
    BY <1>a, <2>1 DEF ThreadInv, TypeOK, Used
  <2> QED
    BY <1>a, <2>1, <2>2, ThreadOpens
<1>4. CASE Narrate(t)
  BY <1>4, <1>a, <1>c, ThreadFrame DEF Narrate
<1>5. ASSUME NEW h, TurnEnds(t, h), \A p \in Elems(pulses') : p \in Elems(pulses) \/ p.kind # "opened"
      PROVE  RootsStay /\ HandedInv' /\ ThreadInv'
  <2>1. turnState' = [turnState EXCEPT ![t] = "ended"] /\ t \in Running
        /\ UNCHANGED <<edge, root, receipt, lastTurn>>
    BY <1>5 DEF TurnEnds
  <2> QED
    BY <1>5, <1>a, <1>c, <2>1, ThreadMoves DEF Used, Running, TypeOK
<1>6. ASSUME NEW h, NEW w, NEW W, pulses' = Append(pulses, Signal(t, h, w, W))
      PROVE  \A p \in Elems(pulses') : p \in Elems(pulses) \/ p.kind # "opened"
  <2>1. Elems(pulses') = Elems(pulses) \union {Signal(t, h, w, W)}
    BY <1>6, AppendElems DEF TypeOK
  <2> QED
    BY <2>1 DEF Signal
<1>7. CASE FailTurn(t)
  BY <1>5, <1>6, <1>7 DEF FailTurn
<1>8. ASSUME NEW h \in Holds, EndTurn(t, h) \/ EndTurnReleased(t, h) \/ EndTurnUnrecorded(t, h)
      PROVE  RootsStay /\ HandedInv' /\ ThreadInv'
  BY <1>5, <1>6, <1>8 DEF EndTurn, EndTurnReleased, EndTurnUnrecorded
<1> QED
  BY <1>1, <1>2, <1>3, <1>4, <1>7, <1>8

\* The notifier and the deliveries keep it.
LEMMA OwnDeliver == TypeOK /\ TypeOK' /\ ClaimInv /\ OwnInv /\ DeliverNext => OwnInv'
<1> USE DEF vendorVars, mirrorVars, dispVars, dlvVars, toldVars
<1> SUFFICES ASSUME TypeOK, TypeOK', ClaimInv, OwnInv, DeliverNext
             PROVE  OwnInv'
  OBVIOUS
<1>a. HandedInv /\ ThreadInv
  BY DEF OwnInv
<1>b. UNCHANGED <<turnState, edge, root, lastTurn, receipt, disp, saved, draft, late, scan, flush>>
  BY DEF DeliverNext, PulseIgnored, PulseOpened, PulseHeld, PulseSettled, GraceExpires, PlanNothing,
         Plan, PlanAbandoned, NotifyParent, ParentUnreachable, Commit
<1>c. DispMoves
  BY <1>b DEF DispMoves, Late
<1>d. Elems(pulses') \subseteq Elems(pulses)
  <2>1. pulses' = pulses \/ (pulses # << >> /\ pulses' = Tail(pulses))
    BY DEF DeliverNext, NotifierTakes, PulseIgnored, PulseOpened, PulseHeld, PulseSettled, GraceExpires, PlanNothing,
           Plan, PlanAbandoned, NotifyParent, ParentUnreachable, Commit
  <2> QED
    BY <2>1, TailElems DEF TypeOK
<1>e. RootsStay /\ HandedInv' /\ ThreadInv'
  BY <1>a, <1>b, <1>c, <1>d, ThreadFrame
<1>f. ASSUME StoreOwned(disk'), StoreOwned(store'), \A d \in inflight' : DeliveryOwned(d)
      PROVE  OwnInv'
  BY <1>b, <1>e, <1>f, OwnedNow, OwnNext
<1>1. CASE PulseOpened
  <2> DEFINE p == Head(pulses)
             moved == IF p.from = NoTurn THEN store ELSE RebindContinuation(store, p.from, p.turn)
             s == MarkExecuting(moved, p.turn)
  <2>1. p \in Pulse /\ p.kind = "opened" /\ PulseThreaded(p)
    BY <1>1, <1>a, TailElems DEF PulseOpened, NotifierTakes, ThreadInv, TypeOK
  <2>2. /\ store' = IF resident THEN s ELSE store
        /\ Persist(s) \/ UNCHANGED disk
        /\ inflight' = inflight
    BY <1>1 DEF PulseOpened
  <2> HIDE DEF p
  <2>3. moved \in Store /\ StoreOwned(moved)
    BY <2>1, OwnedNow, RebindOwned, RebindType DEF PulseThreaded, Pulse, TypeOK
  <2> HIDE DEF moved
  <2>4. s \in Store /\ StoreOwned(s)
    BY <2>3, MarkExecutingOwned, MarkExecutingType
  <2> HIDE DEF s
  <2>5. StoreOwned(disk') /\ StoreOwned(store')
    BY <2>2, <2>4, OwnedNow, PersistOwned DEF Persist
  <2> QED
    BY <1>f, <2>2, <2>5, OwnedNow
<1>2. CASE \/ PulseIgnored \/ PulseHeld \/ PulseSettled
           \/ \E d \in provisional : GraceExpires(d)
           \/ \E d \in due : PlanNothing(d)
  <2>1. UNCHANGED <<store, inflight>> /\ (Persist(store) \/ UNCHANGED disk)
    BY <1>2 DEF PulseIgnored, PulseHeld, PulseSettled, GraceExpires, PlanNothing
  <2>2. StoreOwned(disk')
    BY <2>1, OwnedNow, PersistOwned DEF Persist, TypeOK
  <2> QED
    BY <1>f, <2>1, <2>2, OwnedNow
<1>3. ASSUME NEW d \in due, Plan(d)
      PROVE  OwnInv'
  <2> DEFINE s == BeginDelivery(store, KeyOf(d))
             e == PlannedDelivery(d)
  <2>1. KeyOf(d) \in Key
    BY <1>3, KeyOfType DEF TypeOK, DueBoundary
  <2>2. s \in Store /\ s.req = store.req
    BY <2>1, MarkerType DEF TypeOK
  <2>3. StoreOwned(s)
    BY <2>2, OwnedNow DEF StoreOwned
  <2>4. claim = Free /\ store' = s /\ PersistOk(s) /\ inflight' = inflight \union {e}
    BY <1>3 DEF Plan, MayPlan
  <2> HIDE DEF s
  <2>5. StoreOwned(disk')
    BY <2>2, <2>3, <2>4, PersistOwned
  <2>6. DeliveryOwned(e)
    <3>1. e.resolved = BoundTo(store, d.turn) /\ e.turn = d.turn
      BY DEF PlannedDelivery
    <3>2. d.turn # NoTurn
      BY TurnsAssumption DEF TypeOK, DueBoundary, NoTurn
    <3>3. \A r \in BoundTo(store, d.turn) : Own(r, d.turn) /\ Late(r)
      BY <3>2, OwnedNow DEF StoreOwned, RowOwned, BoundTo, Outstanding
    <3> QED
      BY <3>1, <3>3 DEF DeliveryOwned
  <2> QED
    BY <1>f, <2>3, <2>4, <2>5, <2>6, OwnedNow
<1>4. ASSUME NEW d \in due, PlanAbandoned(d)
      PROVE  OwnInv'
  <2> DEFINE s == AbandonDelivery(store, KeyOf(d))
  <2>1. KeyOf(d) \in Key
    BY <1>4, KeyOfType DEF TypeOK, DueBoundary
  <2>2. s \in Store /\ s.req = store.req
    BY <2>1, MarkerType DEF TypeOK
  <2>3. StoreOwned(s)
    BY <2>2, OwnedNow DEF StoreOwned
  <2>4. store' = s /\ disk' \in {Durable(s), disk} /\ inflight' = inflight
    BY <1>4 DEF PlanAbandoned
  <2> HIDE DEF s
  <2>5. StoreOwned(disk')
    BY <2>2, <2>3, <2>4, DurableOwned, OwnedNow
  <2> QED
    BY <1>f, <2>3, <2>4, <2>5, OwnedNow
<1>5. ASSUME NEW d \in inflight, NEW p \in Parents, NotifyParent(d, p) \/ ParentUnreachable(d, p)
      PROVE  OwnInv'
  <2>1. UNCHANGED <<disk, store>>
    BY <1>5 DEF NotifyParent, ParentUnreachable
  <2>2. d \in Delivery
    BY DEF TypeOK
  <2> DEFINE e == [d EXCEPT !.carry[p] = {}]
             f == [d EXCEPT !.carry[p] = {}, !.dropped = @ \union d.carry[p]]
  <2>3. inflight' = (inflight \ {d}) \union {e} \/ inflight' = (inflight \ {d}) \union {f}
    BY <1>5 DEF NotifyParent, ParentUnreachable
  <2>4. e.resolved = d.resolved /\ e.turn = d.turn /\ f.resolved = d.resolved /\ f.turn = d.turn
    BY <2>2 DEF Delivery
  <2> HIDE DEF e, f
  <2>5. DeliveryOwned(e) /\ DeliveryOwned(f)
    BY <2>4, OwnedNow DEF DeliveryOwned
  <2> QED
    BY <1>f, <2>1, <2>3, <2>5, OwnedNow
<1>6. ASSUME NEW d \in inflight, Commit(d)
      PROVE  OwnInv'
  <2> DEFINE s == CommittedStore(d)
  <2>1. d \in Delivery /\ DeliveryOwned(d)
    BY OwnedNow DEF TypeOK
  <2>2. s \in Store /\ StoreOwned(s)
    BY <2>1, CommittedOwned, CommittedStoreType, OwnedNow DEF TypeOK
  <2>3. store' = s /\ Persist(s) /\ inflight' = inflight \ {d}
    BY <1>6 DEF Commit
  <2> HIDE DEF s
  <2>4. StoreOwned(disk')
    BY <2>2, <2>3, PersistOwned DEF Persist
  <2> QED
    BY <1>f, <2>2, <2>3, <2>4, OwnedNow
<1> QED
  BY <1>1, <1>2, <1>3, <1>4, <1>5, <1>6 DEF DeliverNext

\* A process that dies cuts its turns, or leaves a flushed line to be replayed.
LEMMA DeathKeepsThreads ==
  ASSUME TypeOK, NEW replays, ProcessDies(replays)
  PROVE  /\ UNCHANGED <<edge, root>> /\ lastTurn' = NoTurn
         /\ \A t \in Turns : /\ Used(t) => Used(t)'
                             /\ turnState'[t] \in {"unused", "parked", "flushed"} =>
                                  turnState[t] \in {"unused", "parked", "flushed"}
<1> SUFFICES ASSUME NEW t \in Turns
             PROVE  /\ Used(t) => Used(t)'
                    /\ turnState'[t] \in {"unused", "parked", "flushed"} =>
                         turnState[t] \in {"unused", "parked", "flushed"}
  BY DEF ProcessDies
<1>1. turnState'[t] = IF t \notin Running THEN turnState[t]
        ELSE IF replays /\ turnState[t] = "flushed" /\ rows[t] = {} THEN "parked" ELSE "dead"
  BY DEF ProcessDies
<1>2. CASE t \notin Running
  BY <1>1, <1>2 DEF Used
<1>3. CASE t \in Running /\ turnState'[t] = "dead"
  BY <1>3 DEF Used
<1>4. CASE turnState[t] = "flushed" /\ turnState'[t] = "parked"
  BY <1>4 DEF Used
<1> QED
  BY <1>1, <1>2, <1>3, <1>4, Zenon

\* Restarts, releases, stops and crashes keep it.
LEMMA OwnLife == TypeOK /\ TypeOK' /\ ClaimInv /\ OwnInv /\ LifeNext => OwnInv'
<1> USE DEF vendorVars, mirrorVars, dispVars, dlvVars, toldVars
<1> SUFFICES ASSUME TypeOK, TypeOK', ClaimInv, OwnInv, LifeNext
             PROVE  OwnInv'
  OBVIOUS
<1>a. HandedInv /\ ThreadInv
  BY DEF OwnInv
<1>b. ASSUME UNCHANGED <<turnState, edge, root, lastTurn, receipt, disp, pulses>>
      PROVE  RootsStay /\ HandedInv' /\ ThreadInv'
  <2>1. DispMoves
    BY <1>b DEF DispMoves, Late
  <2> QED
    BY <1>a, <1>b, <2>1, ThreadFrame
<1>c. ASSUME NEW replays, ProcessDies(replays), UNCHANGED receipt, DispMoves,
             pulses' = pulses \/ pulses' = << >>
      PROVE  RootsStay /\ HandedInv' /\ ThreadInv'
  <2>1. \A p \in Elems(pulses') : p \in Elems(pulses)
    BY <1>c DEF Elems
  <2> QED
    BY <1>a, <1>c, <2>1, DeathKeepsThreads, ThreadMoves
<1>1. CASE ReconcileScan
  <2> DEFINE s == Repair(rows, disk)
  <2>1. /\ scan'.store = s
        /\ UNCHANGED <<turnState, edge, root, lastTurn, receipt, disp, pulses,
                       disk, store, saved, draft, late, flush, inflight>>
    BY <1>1 DEF ReconcileScan
  <2>2. StoreOwned(s)
    BY <1>a, RepairOwned, OwnedNow DEF TypeOK
  <2> HIDE DEF s
  <2> QED
    BY <1>b, <2>1, <2>2, OwnedNow, OwnNext
<1>2. CASE ReconcileSeed
  <2>1. /\ store' \in {store, scan.store} /\ scan' = NoScan
        /\ UNCHANGED <<turnState, edge, root, lastTurn, receipt, disp, pulses,
                       disk, saved, draft, late, flush, inflight>>
    BY <1>2 DEF ReconcileSeed
  <2> QED
    BY <1>b, <2>1, OwnedNow, OwnNext DEF NoScan
<1>3. CASE ReleasePick \/ ReleaseClear \/ ReleaseRead
  <2>1. UNCHANGED <<turnState, edge, root, lastTurn, receipt, disp, pulses,
                    disk, store, saved, draft, late, scan, flush, inflight>>
    BY <1>3 DEF ReleasePick, ReleaseClear, ReleaseRead
  <2> QED
    BY <1>b, <2>1, OwnedNow, OwnNext
<1>4. CASE ReleaseSettle
  <2> DEFINE s == Repair(relRows, store)
  <2>1. /\ store' = s
        /\ UNCHANGED <<turnState, edge, root, lastTurn, receipt, disp, pulses,
                       disk, saved, draft, late, scan, flush, inflight>>
    BY <1>4 DEF ReleaseSettle
  <2>2. StoreOwned(s)
    BY <1>a, RepairOwned, OwnedNow DEF TypeOK
  <2> HIDE DEF s
  <2> QED
    BY <1>b, <2>1, <2>2, OwnedNow, OwnNext
<1>5. CASE ReleaseFence \/ EvictInPlace
  <2>1. /\ ProcessDies(TRUE)
        /\ UNCHANGED <<receipt, disp, pulses, disk, store, saved, draft, late, scan, flush, inflight>>
    BY <1>5 DEF ReleaseFence, EvictInPlace
  <2>2. DispMoves
    BY <2>1 DEF DispMoves, Late
  <2> QED
    BY <1>c, <2>1, <2>2, OwnedNow, OwnNext
<1>6. CASE Stop \/ StopDetached
  <2>1. /\ ProcessDies(FALSE) /\ store' = SettledStore
        /\ UNCHANGED <<receipt, disp, pulses, saved, draft, late, scan, inflight>>
        /\ disk' \in {Durable(SettledStore), disk}
        /\ flush' \subseteq flush \union {SettledStore}
    BY <1>6 DEF Stop, StopDetached, StopsProcess
  <2>2. DispMoves
    BY <2>1 DEF DispMoves, Late
  <2>3. SettledStore \in Store /\ StoreOwned(SettledStore)
    BY SettledOwned, SettledStoreType, OwnedNow DEF TypeOK
  <2>4. StoreOwned(disk') /\ StoreOwned(store') /\ \A s \in flush' : StoreOwned(s)
    BY <2>1, <2>3, DurableOwned, OwnedNow
  <2> QED
    BY <1>c, <2>1, <2>2, <2>4, OwnedNow, OwnNext
<1>7. ASSUME NEW s \in flush, FlushSettlement(s)
      PROVE  OwnInv'
  <2>1. /\ flush' = flush \ {s} /\ Persist(s)
        /\ UNCHANGED <<turnState, edge, root, lastTurn, receipt, disp, pulses,
                       store, saved, draft, late, scan, inflight>>
    BY <1>7 DEF FlushSettlement
  <2>2. StoreOwned(disk')
    BY <2>1, PersistOwned, OwnedNow DEF Persist, TypeOK
  <2> QED
    BY <1>b, <2>1, <2>2, OwnedNow, OwnNext
<1>8. CASE Crash
  <2>1. /\ ProcessDies(TRUE) /\ pulses' = << >>
        /\ store' = EmptyStore /\ saved' = EmptyStore /\ draft' = EmptyStore
        /\ scan' = NoScan /\ flush' = {} /\ late' = {} /\ inflight' = {}
        /\ disp' = [r \in Requests |-> IF disp[r] \in {"new", "closed"} THEN disp[r] ELSE "gone"]
        /\ UNCHANGED <<receipt, disk>>
    BY <1>8 DEF Crash
  <2>2. DispMoves
    BY <2>1 DEF DispMoves, Late
  <2> QED
    BY <1>c, <2>1, <2>2, OwnedNow, OwnNext DEF NoScan
<1> QED
  BY <1>1, <1>2, <1>3, <1>4, <1>5, <1>6, <1>7, <1>8 DEF LifeNext

\* A dropped call leaves an owned snapshot behind: what it had read, accepted,
\* dropped or bound.  Landing, it makes an owned file.
LEMMA OwnLate == TypeOK /\ TypeOK' /\ ClaimInv /\ OwnInv /\ LateNext => OwnInv'
<1> USE DEF vendorVars, mirrorVars, dispVars, toldVars
<1> SUFFICES ASSUME TypeOK, TypeOK', ClaimInv, OwnInv, LateNext
             PROVE  OwnInv'
  OBVIOUS
<1>a. HandedInv /\ ThreadInv
  BY DEF OwnInv
<1>b. ASSUME NEW r \in Requests, NEW s, StoreOwned(s), StoreOwned(store'),
             CallGone(r), Outlives(s),
             UNCHANGED <<turnState, edge, root, lastTurn, receipt, pulses, disk, saved, draft, scan,
                         flush, inflight>>
      PROVE  OwnInv'
  <2>1. DispMoves
    BY <1>b DEF CallGone, DispMoves, Late, TypeOK
  <2>2. RootsStay /\ HandedInv' /\ ThreadInv'
    BY <1>a, <1>b, <2>1, ThreadFrame
  <2>3. \A w \in late' : StoreOwned(w.store)
    BY <1>b, OwnedNow DEF Outlives
  <2> QED
    BY <1>b, <2>2, <2>3, OwnedNow, OwnNext
<1>1. ASSUME NEW r \in Requests, NEW p \in Parents, NEW n \in Notifies, AcceptOutlives(r, p, n)
      PROVE  OwnInv'
  <2>1. StoreOwned(Accept(disk, r, p, n))
    BY AcceptOwned, OwnedNow, NotifiesAssumption DEF TypeOK
  <2> QED
    BY <1>1, <1>b, <2>1, OwnedNow DEF AcceptOutlives
<1>2. ASSUME NEW r \in Requests, RollbackOutlives(r)
      PROVE  OwnInv'
  BY <1>2, <1>b, OwnedNow DEF RollbackOutlives
<1>3. ASSUME NEW r \in Requests, SubmitFailOutlives(r)
      PROVE  OwnInv'
  <2>1. store' \in Store /\ StoreOwned(store')
    BY <1>3, DropRowType, DropRowOwned DEF SubmitFailOutlives
  <2>2. StoreOwned(Durable(store'))
    BY <2>1, DurableOwned
  <2> QED
    BY <1>3, <1>b, <2>1, <2>2 DEF SubmitFailOutlives
<1>4. ASSUME NEW r \in Requests, BindOutlives(r)
      PROVE  OwnInv'
  <2>1. /\ disp[r] \in {"started", "injected", "queued"} /\ disp'[r] = "gone"
        /\ disp' = [disp EXCEPT ![r] = disp'[r]]
        /\ UNCHANGED <<turnState, edge, root, lastTurn, receipt, pulses, disk, saved, draft, scan, flush,
                       inflight>>
    BY <1>4 DEF BindOutlives, CallGone, TypeOK
  <2>2. /\ store' = BoundStore(r, FALSE)
        /\ \A w \in late' : w \in late \/ w.store = Durable(BoundStore(r, FALSE))
    <3> DEFINE n == [n |-> spent["outlive"], store |-> Durable(store')]
    <3>1. store' = BoundStore(r, FALSE) /\ late' = late \union {n}
      BY <1>4, Zenon DEF BindOutlives, Outlives
    <3>2. n.store = Durable(store')
      OBVIOUS
    <3> QED
      BY <3>1, <3>2
  <2>3. \A s \in Copies' : \/ s \in Copies
                           \/ \E e \in BOOLEAN : s \in {BoundStore(r, e), Durable(BoundStore(r, e))}
    BY <2>1, <2>2 DEF Copies
  <2> QED
    BY <2>1, <2>3, BindOwned
<1>5. ASSUME NEW w \in late, LateLands(w)
      PROVE  OwnInv'
  <2>1. /\ UNCHANGED <<turnState, edge, root, lastTurn, receipt, disp, pulses, store, saved, draft, scan,
                       flush, inflight>>
        /\ disk' \in {w.store, disk} /\ late' \subseteq late
    BY <1>5 DEF LateLands, PersistFail
  <2>2. DispMoves
    BY <2>1 DEF DispMoves, Late
  <2>3. RootsStay /\ HandedInv' /\ ThreadInv'
    BY <1>a, <2>1, <2>2, ThreadFrame
  <2> QED
    BY <2>1, <2>3, OwnedNow, OwnNext
<1> QED
  BY <1>1, <1>2, <1>3, <1>4, <1>5 DEF LateNext

\* OwnInv holds of every behaviour, whatever crashes, faults and stops it has.
THEOREM WorkIsOwned == Spec => []OwnInv
<1> USE DEF vendorVars, mirrorVars, dispVars, dlvVars, toldVars
<1>1. Init => OwnInv
  <2> SUFFICES ASSUME Init PROVE OwnInv
    OBVIOUS
  <2>1. Copies = {EmptyStore}
    BY DEF Init, Copies, NoScan
  <2>2. CopiesOwned /\ DeliveriesOwned
    BY <2>1, EmptyOwned DEF Init, CopiesOwned, DeliveriesOwned
  <2>3. HandedInv /\ ThreadInv
    BY DEF Init, HandedInv, ThreadInv, Elems
  <2> QED
    BY <2>2, <2>3 DEF OwnInv
<1>2. TypeOK /\ TypeOK' /\ OwnInv /\ UNCHANGED vars => OwnInv'
  <2> SUFFICES ASSUME TypeOK, TypeOK', OwnInv, UNCHANGED vars PROVE OwnInv'
    OBVIOUS
  <2>1. DispMoves
    BY DEF vars, DispMoves, Late
  <2>2. RootsStay /\ HandedInv' /\ ThreadInv'
    BY <2>1, ThreadFrame DEF vars, OwnInv
  <2> QED
    BY <2>2, OwnedNow, OwnNext DEF vars
<1>3. TypeOK /\ TypeOK' /\ ClaimInv /\ OwnInv /\ [Next]_vars => OwnInv'
  BY <1>2, OwnDispatch, OwnVendor, OwnDeliver, OwnLife, OwnLate DEF Next
<1> QED
  BY <1>1, <1>3, TypeCorrect, ClaimSerialises, PTL DEF Spec

\* Completion is matched by identity (AnsweredByItsOwnWork): no request is
\* answered by a turn that neither did its work nor continues it.
THEOREM AnswersAreOfOwnWork == Spec => []AnsweredByItsOwnWork
<1>1. TypeOK /\ OwnInv => AnsweredByItsOwnWork
  BY DEF OwnInv, CopiesOwned, Copies, StoreOwned, RowOwned, Own, AnsweredByItsOwnWork
<1> QED
  BY <1>1, WorkIsOwned, TypeCorrect, PTL

-----------------------------------------------------------------------------
(* What is delivered while nothing crashes and nothing is released: the     *)
(* ends of turns that are over, and no boundary the vendor holds open.      *)

\* Neither a restart nor a release read the transcript while a turn writes it.
Calm == spent["crash"] = 0 /\ spent["release"] = 0

\* Turn t ended, and the vendor does not hold its boundary open.
Over(t) == turnState[t] = "ended" /\ hold[t] # "pending"

\* What is signalled has ended, and what is due, on its way or told is over.
EndedInv ==
  /\ recon = "done" /\ rel = "idle"
  /\ \A p \in Elems(pulses) : p.kind = "signal" =>
       turnState[p.turn] = "ended" /\ hold[p.turn] = p.hold
  /\ \A d \in provisional \union due \union inflight : Over(d.turn)
  /\ \A r \in Requests : \A k \in told[r] : Over(k.turn)

\* What is used of a bound only grows.
LEMMA SpentGrows == TypeOK /\ [Next]_vars => \A b \in DOMAIN Bound : spent'[b] >= spent[b]
<1> USE DEF vendorVars, mirrorVars, dispVars, dlvVars, toldVars
<1> SUFFICES ASSUME TypeOK, [Next]_vars, NEW b \in DOMAIN Bound
             PROVE  spent'[b] >= spent[b]
  OBVIOUS
<1>1. {"crash", "fault", "stop", "detached", "release", "evict", "cancel", "outlive"} \subseteq DOMAIN Bound
  BY DEF Bound
<1>2. spent \in [DOMAIN Bound -> Nat]
  BY DEF TypeOK
<1>3. ASSUME NEW c \in DOMAIN Bound, Spend(c)
      PROVE  spent'[b] >= spent[b]
  BY <1>2, <1>3 DEF Spend
<1>4. ASSUME NEW s, Persist(s)
      PROVE  spent'[b] >= spent[b]
  BY <1>1, <1>2, <1>3, <1>4 DEF Persist, PersistOk, PersistFail
<1>5. CASE UNCHANGED spent
  BY <1>2, <1>5
<1>6. CASE Stop
  <2>1. \/ spent' = [spent EXCEPT !["stop"] = @ + 1]
        \/ spent' = [spent EXCEPT !["stop"] = @ + 1, !["fault"] = @ + 1]
    BY <1>6 DEF Stop
  <2> QED
    BY <1>1, <1>2, <2>1
<1>7. CASE DispatchNext
  <2> SUFFICES ASSUME NEW r \in Requests,
                      \/ \E p \in Parents, n \in Notifies, w \in Waiting : AcceptWrite(r, p, n, w)
                      \/ AcceptCommit(r) \/ AcceptRollback(r)
                      \/ \E t \in Turns : SubmitStarted(r, t) \/ SubmitInjected(r, t) \/ SubmitQueued(r, t)
                      \/ SubmitFail(r) \/ Bind(r) \/ Cancel(r)
                      \/ WaitClaimLapses(r) \/ WaiterReleases(r) \/ WaiterReads(r)
               PROVE  spent'[b] >= spent[b]
    BY <1>7 DEF DispatchNext
  <2>1. CASE AcceptRollback(r) \/ Bind(r)
    BY <1>1, <1>3, <1>5, <2>1 DEF AcceptRollback, Bind, PersistFail, PersistOk
  <2>2. CASE SubmitFail(r)
    BY <1>4, <2>2 DEF SubmitFail
  <2>3. CASE Cancel(r)
    BY <1>1, <1>3, <2>3 DEF Cancel
  <2>4. CASE \/ \E p \in Parents, n \in Notifies, w \in Waiting : AcceptWrite(r, p, n, w)
             \/ AcceptCommit(r)
             \/ \E t \in Turns : SubmitStarted(r, t) \/ SubmitInjected(r, t) \/ SubmitQueued(r, t)
             \/ WaitClaimLapses(r) \/ WaiterReleases(r) \/ WaiterReads(r)
    BY <1>5, <2>4 DEF AcceptWrite, AcceptCommit, SubmitStarted, SubmitInjected, SubmitQueued,
       WaitClaimLapses, WaiterReleases, WaiterReads
  <2> QED
    BY <2>1, <2>2, <2>3, <2>4
<1>8. CASE VendorNext
  BY <1>1, <1>3, <1>5, <1>8 DEF VendorNext, HumanTurn, OpenParked, OpenContinuation, TurnOpens, Narrate,
     FailTurn, EndTurn, EndTurnReleased, EndTurnUnrecorded
<1>9. CASE DeliverNext
  BY <1>1, <1>3, <1>4, <1>5, <1>9 DEF DeliverNext, PulseIgnored, PulseOpened, PulseHeld, PulseSettled, GraceExpires,
     PlanNothing, Plan, PersistOk, PlanAbandoned, NotifyParent, ParentUnreachable, Commit
<1>10. CASE LifeNext
  BY <1>1, <1>3, <1>4, <1>5, <1>6, <1>10 DEF LifeNext, ReconcileScan, ReconcileSeed, ReleasePick, ReleaseFence,
     ReleaseClear, ReleaseRead, ReleaseSettle, EvictInPlace, StopDetached, FlushSettlement, Crash
<1>11. CASE LateNext
  BY <1>1, <1>3, <1>5, <1>11, LateLeaves
<1> QED
  BY <1>5, <1>7, <1>8, <1>9, <1>10, <1>11 DEF Next, vars

\* ... and so a bound once used stays used.
LEMMA SpentStays == TypeOK /\ [Next]_vars => \A b \in DOMAIN Bound : spent'[b] = 0 => spent[b] = 0
  BY SpentGrows DEF TypeOK

\* A turn that ended stays so, with what it declared.
EndedStay == \A t \in Turns : turnState[t] = "ended" => turnState'[t] = "ended" /\ hold'[t] = hold[t]

\* What the channel holds is pulses.
LEMMA PulsesTyped == TypeOK => \A p \in Elems(pulses) : p \in Pulse
  BY DEF TypeOK, Elems

\* Enough for the next state: ends stay, and nothing new is due or told.
LEMMA EndedFrame ==
  ASSUME TypeOK, EndedInv, EndedStay, recon' = "done", rel' = "idle",
         \A p \in Elems(pulses') : p.kind = "signal" =>
           p \in Elems(pulses) \/ (turnState'[p.turn] = "ended" /\ hold'[p.turn] = p.hold),
         \A d \in provisional' \union due' \union inflight' : d.turn \in Turns /\ Over(d.turn),
         \A r \in Requests : \A k \in told'[r] : k.turn \in Turns /\ Over(k.turn)
  PROVE  EndedInv'
<1>1. ASSUME NEW p \in Elems(pulses'), p.kind = "signal"
      PROVE  turnState'[p.turn] = "ended" /\ hold'[p.turn] = p.hold
  <2>1. CASE p \in Elems(pulses)
    <3>1. p.turn \in Turns
      BY <2>1, PulsesTyped DEF Pulse
    <3> QED
      BY <1>1, <2>1, <3>1 DEF EndedInv, EndedStay
  <2> QED
    BY <1>1, <2>1
<1>2. \A t \in Turns : Over(t) => Over(t)'
  BY DEF Over, EndedStay
<1>3. \A d \in provisional' \union due' \union inflight' : Over(d.turn)'
  BY <1>2
<1>4. \A r \in Requests : \A k \in told'[r] : Over(k.turn)'
  BY <1>2
<1> QED
  BY <1>1, <1>3, <1>4 DEF EndedInv

\* What is over now.
LEMMA OverNow ==
  ASSUME TypeOK, EndedInv
  PROVE  /\ \A d \in provisional \union due \union inflight : d.turn \in Turns /\ Over(d.turn)
         /\ \A r \in Requests : \A k \in told[r] : k.turn \in Turns /\ Over(k.turn)
  BY DEF TypeOK, EndedInv, DueBoundary, Delivery, Key

\* The dispatchers keep it: they reopen no turn.
LEMMA EndedDispatch == TypeOK /\ EndedInv /\ DispatchNext => EndedInv'
<1> USE DEF vendorVars, mirrorVars, dispVars, dlvVars, toldVars
<1> SUFFICES ASSUME TypeOK, EndedInv, NEW r \in Requests,
                    \/ \E p \in Parents, n \in Notifies, w \in Waiting : AcceptWrite(r, p, n, w)
                    \/ AcceptCommit(r) \/ AcceptRollback(r)
                    \/ \E t \in Turns : SubmitStarted(r, t) \/ SubmitInjected(r, t) \/ SubmitQueued(r, t)
                    \/ SubmitFail(r) \/ Bind(r) \/ Cancel(r)
                    \/ WaitClaimLapses(r) \/ WaiterReleases(r) \/ WaiterReads(r)
             PROVE  EndedInv'
  BY DEF DispatchNext
<1>1. UNCHANGED <<hold, recon, rel, due, inflight, told>> /\ provisional' \subseteq provisional
  BY DropRowShrinks
     DEF AcceptWrite, AcceptCommit, AcceptRollback, SubmitStarted, SubmitInjected, SubmitQueued, SubmitFail,
         Bind, Cancel, WaitClaimLapses, WaiterReleases, WaiterReads
<1>2. EndedStay
  <2>1. turnState' = turnState \/ \E t \in Turns : \E x : turnState[t] = "unused" /\ turnState' = [turnState EXCEPT ![t] = x]
    BY DEF AcceptWrite, AcceptCommit, AcceptRollback, SubmitStarted, SubmitInjected, SubmitQueued, SubmitFail,
           Bind, Cancel, WaitClaimLapses, WaiterReleases, WaiterReads, Fresh, Unused
  <2> QED
    BY <1>1, <2>1 DEF EndedStay, TypeOK
<1>3. \A p \in Elems(pulses') : p.kind = "signal" => p \in Elems(pulses)
  <2>1. pulses' = pulses \/ \E t \in Turns : pulses' = Append(pulses, Opened(t, NoTurn))
    BY DEF AcceptWrite, AcceptCommit, AcceptRollback, SubmitStarted, SubmitInjected, SubmitQueued, SubmitFail,
           Bind, Cancel, WaitClaimLapses, WaiterReleases, WaiterReads
  <2>2. ASSUME NEW t \in Turns, pulses' = Append(pulses, Opened(t, NoTurn))
        PROVE  \A p \in Elems(pulses') : p.kind = "signal" => p \in Elems(pulses)
    <3>1. Elems(pulses') = Elems(pulses) \union {Opened(t, NoTurn)}
      BY <2>2, AppendElems DEF TypeOK
    <3> QED
      BY <3>1 DEF Opened
  <2> QED
    BY <2>1, <2>2
<1> QED
  BY <1>1, <1>2, <1>3, OverNow, EndedFrame DEF EndedInv

\* The vendor keeps it: it signals a turn in the step that ends it.
LEMMA EndedVendor == TypeOK /\ EndedInv /\ VendorNext => EndedInv'
<1> USE DEF vendorVars, mirrorVars, dispVars, dlvVars, toldVars
<1> SUFFICES ASSUME TypeOK, EndedInv, NEW t \in Turns,
                    \/ HumanTurn(t) \/ OpenParked(t) \/ OpenContinuation(t)
                    \/ Narrate(t) \/ FailTurn(t)
                    \/ \E h \in Holds : EndTurn(t, h) \/ EndTurnReleased(t, h) \/ EndTurnUnrecorded(t, h)
             PROVE  EndedInv'
  BY DEF VendorNext
<1>1. UNCHANGED <<recon, rel, due, inflight, told, provisional>>
  BY DEF HumanTurn, OpenParked, OpenContinuation, TurnOpens, Narrate, TurnEnds, FailTurn,
         EndTurn, EndTurnReleased, EndTurnUnrecorded
<1> SUFFICES /\ EndedStay
             /\ \A p \in Elems(pulses') : p.kind = "signal" =>
                  p \in Elems(pulses) \/ (turnState'[p.turn] = "ended" /\ hold'[p.turn] = p.hold)
  BY <1>1, OverNow, EndedFrame DEF EndedInv
<1>2. CASE HumanTurn(t) \/ OpenParked(t) \/ OpenContinuation(t)
  <2>1. PICK phase, from : TurnOpens(t, phase, from)
    BY <1>2 DEF HumanTurn, OpenParked, OpenContinuation
  <2>2. turnState[t] # "ended"
    BY <1>2 DEF HumanTurn, OpenParked, OpenContinuation, Fresh, Unused
  <2>3. EndedStay
    BY <2>1, <2>2 DEF EndedStay, TurnOpens, TypeOK
  <2>4. Elems(pulses') = Elems(pulses) \union {Opened(t, from)}
    BY <2>1, AppendElems DEF TurnOpens, TypeOK
  <2> QED
    BY <2>3, <2>4 DEF Opened
<1>3. CASE Narrate(t)
  BY <1>3 DEF Narrate, EndedStay
<1>4. ASSUME NEW h \in {"settled", "pending", "replay"}, TurnEnds(t, h),
             \/ pulses' = pulses
             \/ \E w, W : pulses' = Append(pulses, Signal(t, h, w, W))
      PROVE  /\ EndedStay
             /\ \A p \in Elems(pulses') : p.kind = "signal" =>
                  p \in Elems(pulses) \/ (turnState'[p.turn] = "ended" /\ hold'[p.turn] = p.hold)
  <2>1. turnState'[t] = "ended" /\ hold'[t] = h /\ EndedStay
    BY <1>4 DEF TurnEnds, Running, EndedStay, TypeOK
  <2>2. CASE pulses' = pulses
    BY <2>1, <2>2
  <2>3. ASSUME NEW w, NEW W, pulses' = Append(pulses, Signal(t, h, w, W))
        PROVE  \A p \in Elems(pulses') : p.kind = "signal" =>
                  p \in Elems(pulses) \/ (turnState'[p.turn] = "ended" /\ hold'[p.turn] = p.hold)
    <3>1. Elems(pulses') = Elems(pulses) \union {Signal(t, h, w, W)}
      BY <2>3, AppendElems DEF TypeOK
    <3> QED
      BY <2>1, <3>1 DEF Signal
  <2> QED
    BY <1>4, <2>1, <2>2, <2>3
<1>5. CASE FailTurn(t)
  BY <1>4, <1>5 DEF FailTurn
<1>6. ASSUME NEW h \in Holds, EndTurn(t, h) \/ EndTurnReleased(t, h) \/ EndTurnUnrecorded(t, h)
      PROVE  /\ EndedStay
             /\ \A p \in Elems(pulses') : p.kind = "signal" =>
                  p \in Elems(pulses) \/ (turnState'[p.turn] = "ended" /\ hold'[p.turn] = p.hold)
  <2>1. h \in {"settled", "pending", "replay"}
    BY HoldsAssumption
  <2> QED
    BY <1>4, <1>6, <2>1 DEF EndTurn, EndTurnReleased, EndTurnUnrecorded
<1> QED
  BY <1>2, <1>3, <1>5, <1>6

\* The notifier and the deliveries keep it: a held boundary is not due.
LEMMA EndedDeliver == TypeOK /\ EndedInv /\ DeliverNext => EndedInv'
<1> USE DEF vendorVars, mirrorVars, dispVars, dlvVars, toldVars
<1> SUFFICES ASSUME TypeOK, EndedInv, DeliverNext
             PROVE  EndedInv'
  OBVIOUS
<1>1. UNCHANGED <<turnState, hold, recon, rel>>
  BY DEF DeliverNext, PulseIgnored, PulseOpened, PulseHeld, PulseSettled, GraceExpires, PlanNothing,
         Plan, PlanAbandoned, NotifyParent, ParentUnreachable, Commit
<1>2. Elems(pulses') \subseteq Elems(pulses)
  <2>1. pulses' = pulses \/ (pulses # << >> /\ pulses' = Tail(pulses))
    BY DEF DeliverNext, NotifierTakes, PulseIgnored, PulseOpened, PulseHeld, PulseSettled, GraceExpires, PlanNothing,
           Plan, PlanAbandoned, NotifyParent, ParentUnreachable, Commit
  <2> QED
    BY <2>1, TailElems DEF TypeOK
<1>3. EndedStay
  BY <1>1 DEF EndedStay
<1> SUFFICES /\ \A d \in provisional' \union due' \union inflight' : d.turn \in Turns /\ Over(d.turn)
             /\ \A r \in Requests : \A k \in told'[r] : k.turn \in Turns /\ Over(k.turn)
  BY <1>1, <1>2, <1>3, EndedFrame DEF EndedInv
<1>4. ASSUME UNCHANGED told,
             \A d \in provisional' \union due' \union inflight' :
               d.turn \in {e.turn : e \in provisional \union due \union inflight}
      PROVE  /\ \A d \in provisional' \union due' \union inflight' : d.turn \in Turns /\ Over(d.turn)
             /\ \A r \in Requests : \A k \in told'[r] : k.turn \in Turns /\ Over(k.turn)
  BY <1>4, OverNow
<1>5. CASE PulseHeld \/ PulseSettled
  <2> DEFINE p == Head(pulses)
  <2>1. /\ p.kind = "signal" /\ pulses # << >>
        /\ UNCHANGED <<told, inflight>>
        /\ \A d \in provisional' \union due' : \/ d \in provisional \union due
                                               \/ d.turn = p.turn /\ p.hold # "pending"
    BY <1>5 DEF PulseHeld, PulseSettled, NotifierTakes, Boundary
  <2>2. p \in Elems(pulses) /\ p \in Pulse
    BY <2>1, TailElems DEF TypeOK
  <2> HIDE DEF p
  <2>3. p.turn \in Turns /\ turnState[p.turn] = "ended" /\ hold[p.turn] = p.hold
    BY <2>1, <2>2 DEF EndedInv, Pulse
  <2> QED
    BY <2>1, <2>3, OverNow DEF Over
<1>6. CASE \/ PulseIgnored \/ PulseOpened
           \/ \E d \in provisional : GraceExpires(d)
           \/ \E d \in due : PlanNothing(d) \/ PlanAbandoned(d)
           \/ \E d \in inflight : Commit(d)
  <2>1. /\ UNCHANGED told
        /\ provisional' \union due' \union inflight' \subseteq provisional \union due \union inflight
    BY <1>6 DEF PulseIgnored, PulseOpened, GraceExpires, PlanNothing, PlanAbandoned, Commit
  <2> QED
    BY <1>4, <2>1
<1>7. ASSUME NEW d \in due, Plan(d)
      PROVE  /\ \A e \in provisional' \union due' \union inflight' : e.turn \in Turns /\ Over(e.turn)
             /\ \A r \in Requests : \A k \in told'[r] : k.turn \in Turns /\ Over(k.turn)
  <2>1. PlannedDelivery(d).turn = d.turn
    BY DEF PlannedDelivery
  <2>2. /\ UNCHANGED <<told, provisional>> /\ due' = due \ {d}
        /\ inflight' = inflight \union {PlannedDelivery(d)}
    BY <1>7 DEF Plan
  <2> QED
    BY <1>4, <2>1, <2>2
<1>8. ASSUME NEW d \in inflight, NEW p \in Parents, NotifyParent(d, p) \/ ParentUnreachable(d, p)
      PROVE  /\ \A e \in provisional' \union due' \union inflight' : e.turn \in Turns /\ Over(e.turn)
             /\ \A r \in Requests : \A k \in told'[r] : k.turn \in Turns /\ Over(k.turn)
  <2> DEFINE e == [d EXCEPT !.carry[p] = {}]
             f == [d EXCEPT !.carry[p] = {}, !.dropped = @ \union d.carry[p]]
  <2>1. d \in Delivery
    BY DEF TypeOK
  <2>2. e.turn = d.turn /\ f.turn = d.turn
    BY <2>1 DEF Delivery
  <2>3. /\ UNCHANGED <<provisional, due>>
        /\ \/ inflight' = (inflight \ {d}) \union {e}
           \/ inflight' = (inflight \ {d}) \union {f}
        /\ \A r \in Requests : \A k \in told'[r] : k \in told[r] \/ k = KeyOf(d)
    BY <1>8 DEF NotifyParent, ParentUnreachable
  <2> HIDE DEF e, f
  <2>4. KeyOf(d).turn = d.turn
    BY DEF KeyOf
  <2> QED
    BY <2>2, <2>3, <2>4, OverNow
<1> QED
  BY <1>5, <1>6, <1>7, <1>8 DEF DeliverNext

\* Stops and evictions keep it.
LEMMA EndedLife == TypeOK /\ Calm' /\ EndedInv /\ LifeNext => EndedInv'
<1> USE DEF vendorVars, mirrorVars, dispVars, dlvVars, toldVars
<1> SUFFICES ASSUME TypeOK, Calm', EndedInv, LifeNext
             PROVE  EndedInv'
  OBVIOUS
<1>1. EvictInPlace \/ Stop \/ StopDetached \/ \E s \in flush : FlushSettlement(s)
  <2>1. recon = "done" /\ rel = "idle"
    BY DEF EndedInv
  <2>2. {"crash", "release"} \subseteq DOMAIN Bound /\ spent \in [DOMAIN Bound -> Nat]
    BY DEF Bound, TypeOK
  <2>3. ~Crash /\ ~ReleasePick
    <3>1. \A b \in {"crash", "release"} : Spend(b) => spent'[b] # 0
      BY <2>2 DEF Spend
    <3> QED
      BY <3>1 DEF Crash, ReleasePick, Calm
  <2> QED
    BY <2>1, <2>3 DEF LifeNext, ReconcileScan, ReconcileSeed, ReleaseFence, ReleaseClear, ReleaseRead, ReleaseSettle
<1>2. UNCHANGED <<hold, recon, pulses, due, inflight, told, provisional>> /\ rel' = "idle"
  BY <1>1 DEF EvictInPlace, Stop, StopDetached, StopsProcess, ProcessDies, FlushSettlement, EndedInv
<1>3. EndedStay
  <2>1. turnState' = turnState \/ \E x \in BOOLEAN : ProcessDies(x)
    BY <1>1 DEF EvictInPlace, Stop, StopDetached, StopsProcess, FlushSettlement
  <2>2. ASSUME NEW x, ProcessDies(x), NEW t \in Turns, turnState[t] = "ended"
        PROVE  turnState'[t] = "ended"
    BY <2>2 DEF ProcessDies, Running
  <2> QED
    BY <1>2, <2>1, <2>2 DEF EndedStay
<1> QED
  BY <1>2, <1>3, OverNow, EndedFrame DEF EndedInv

\* So do the writes of dropped calls.
LEMMA EndedLate == TypeOK /\ EndedInv /\ LateNext => EndedInv'
<1> SUFFICES ASSUME TypeOK, EndedInv, LateNext PROVE EndedInv'
  OBVIOUS
<1>1. /\ UNCHANGED <<turnState, hold, recon, rel, pulses, due, inflight, told>>
      /\ provisional' \subseteq provisional
  BY LateLeaves DEF vendorVars, toldVars
<1>2. EndedStay
  BY <1>1 DEF EndedStay
<1> QED
  BY <1>1, <1>2, OverNow, EndedFrame DEF EndedInv

\* EndedInv holds as long as the daemon was neither restarted nor released the child.
THEOREM EndsAreOver == Spec => [](Calm => EndedInv)
<1> USE DEF vendorVars, mirrorVars, dispVars, dlvVars, toldVars
<1>1. Init => EndedInv
  BY DEF Init, EndedInv, Elems
<1>2. TypeOK /\ EndedInv /\ UNCHANGED vars => EndedInv'
  <2> SUFFICES ASSUME TypeOK, EndedInv, UNCHANGED vars PROVE EndedInv'
    OBVIOUS
  <2>1. EndedStay /\ UNCHANGED <<recon, rel, pulses, provisional, due, inflight, told>>
    BY DEF vars, EndedStay
  <2> QED
    BY <2>1, OverNow, EndedFrame DEF EndedInv
<1>3. TypeOK /\ [Next]_vars /\ Calm' => Calm
  <2>1. {"crash", "release"} \subseteq DOMAIN Bound
    BY DEF Bound
  <2> QED
    BY <2>1, SpentStays DEF Calm
<1>4. TypeOK /\ (Calm => EndedInv) /\ [Next]_vars => (Calm => EndedInv)'
  BY <1>2, <1>3, EndedDispatch, EndedVendor, EndedDeliver, EndedLife, EndedLate DEF Next
<1> QED
  BY <1>1, <1>4, TypeCorrect, PTL DEF Spec

\* A boundary the vendor will wake itself out of resolves nobody while the
\* process that holds it open lives (HeldBoundaryWaits).
THEOREM HeldOpenWaits == Spec => []HeldBoundaryWaits
<1>1. TypeOK /\ (Calm => EndedInv) => HeldBoundaryWaits
  <2> SUFFICES ASSUME TypeOK, Calm => EndedInv, NEW r \in Requests, NEW k \in told[r], hold[k.turn] = "pending"
               PROVE  spent["crash"] + spent["release"] > 0
    BY DEF HeldBoundaryWaits
  <2>1. ~Calm
    BY DEF EndedInv, Over
  <2>2. {"crash", "release"} \subseteq DOMAIN Bound /\ spent \in [DOMAIN Bound -> Nat]
    BY DEF Bound, TypeOK
  <2>3. spent["crash"] \in Nat /\ spent["release"] \in Nat
    BY <2>2
  <2> QED
    BY <2>1, <2>3 DEF Calm
<1> QED
  BY <1>1, EndsAreOver, TypeCorrect, PTL

\* What is delivered as an answer is a turn that is over
\* (AnswersComeFromEndedTurns), unless a restart or a release read the transcript
\* of a turn that is still writing it.
THEOREM AnswersAreOfEndedTurns == Spec => [](Calm => AnswersComeFromEndedTurns)
<1>1. (Calm => EndedInv) => (Calm => AnswersComeFromEndedTurns)
  BY DEF EndedInv, Over, AnswersComeFromEndedTurns, Running
<1> QED
  BY <1>1, EndsAreOver, PTL
-----------------------------------------------------------------------------
(* The file under the claim, until the write of a dropped call lands in it. *)

\* No write of delegation.json has outlived its call,
NoneOutlived == spent["outlive"] = 0

\* ... or none of those that did has landed.
NoneLanded == ~LateLanded

\* The writes that outlived their calls are told apart by their numbers.
LateInv ==
  \A w \in late : /\ w.n < spent["outlive"]
                  /\ \A x \in late : x.n = w.n => x = w

\* The writes on their way are those there were, some landed, and that of the call
\* dropped in this step.
LEMMA LateMoves == [Next]_vars => late' \subseteq late \/ (LateNext /\ \E s : Outlives(s))
<1> USE DEF vendorVars, mirrorVars, dispVars, dlvVars, toldVars
<1>1. CASE UNCHANGED vars
  BY <1>1 DEF vars
<1>2. ASSUME NEW r \in Requests
      PROVE  /\ \A p \in Parents, n \in Notifies, w \in Waiting : AcceptWrite(r, p, n, w) => late' \subseteq late
             /\ AcceptCommit(r) \/ AcceptRollback(r) \/ SubmitFail(r) \/ Bind(r) \/ Cancel(r) => late' = late
             /\ \A t \in Turns : SubmitStarted(r, t) \/ SubmitInjected(r, t) \/ SubmitQueued(r, t) => late' = late
             /\ WaitClaimLapses(r) \/ WaiterReleases(r) \/ WaiterReads(r) => late' = late
  BY DEF AcceptWrite, AcceptCommit, AcceptRollback, SubmitStarted, SubmitInjected, SubmitQueued,
     SubmitFail, Bind, Cancel, WaitClaimLapses, WaiterReleases, WaiterReads
<1>2b. DispatchNext => late' \subseteq late
  BY <1>2 DEF DispatchNext
<1>3. VendorNext => late' \subseteq late
  BY DEF VendorNext, HumanTurn, OpenParked, OpenContinuation, TurnOpens, Narrate, TurnEnds, FailTurn, EndTurn,
     EndTurnReleased, EndTurnUnrecorded
<1>4. DeliverNext => late' \subseteq late
  BY DEF DeliverNext, PulseIgnored, PulseOpened, PulseHeld, PulseSettled, GraceExpires, PlanNothing, Plan,
     PlanAbandoned, NotifyParent, ParentUnreachable, Commit
<1>5. LifeNext => late' \subseteq late
  BY DEF LifeNext, ReconcileScan, ReconcileSeed, ReleasePick, ReleaseFence, ReleaseClear, ReleaseRead,
     ReleaseSettle, EvictInPlace, Stop, StopDetached, StopsProcess, FlushSettlement, Crash
<1>6. LateNext => late' \subseteq late \/ \E s : Outlives(s)
  BY DEF LateNext, AcceptOutlives, RollbackOutlives, SubmitFailOutlives, BindOutlives, LateLands
<1> QED
  BY <1>1, <1>2b, <1>3, <1>4, <1>5, <1>6 DEF Next

\* What one more of them does to the numbers.
LEMMA OneMoreLate ==
  ASSUME TypeOK, NEW s, Outlives(s)
  PROVE  /\ spent["outlive"] \in Nat /\ spent'["outlive"] = spent["outlive"] + 1
         /\ late' = late \union {[n |-> spent["outlive"], store |-> s]}
  BY DEF Outlives, Spend, TypeOK, Bound

\* They are numbered in the order their calls went away.
THEOREM LateNumbered == Spec => []LateInv
<1>1. Init => LateInv
  BY DEF Init, LateInv
<1>2. ASSUME TypeOK, TypeOK', LateInv, [Next]_vars
      PROVE  LateInv'
  <2>1. spent["outlive"] \in Nat /\ spent'["outlive"] >= spent["outlive"] /\ \A w \in late : w.n \in Nat
    BY <1>2, SpentGrows DEF TypeOK, Bound
  <2>2. CASE late' \subseteq late
    <3> SUFFICES ASSUME NEW w \in late'
                 PROVE  w.n < spent'["outlive"] /\ \A x \in late' : x.n = w.n => x = w
      BY DEF LateInv
    <3>1. w \in late /\ w.n < spent["outlive"] /\ w.n \in Nat /\ spent'["outlive"] \in Nat
      BY <1>2, <2>1, <2>2 DEF LateInv, TypeOK, Bound
    <3> QED
      BY <1>2, <2>1, <2>2, <3>1 DEF LateInv
  <2>3. ASSUME NEW s, Outlives(s)
        PROVE  LateInv'
    BY <1>2, <2>1, <2>3, OneMoreLate DEF LateInv
  <2> QED
    BY <1>2, <2>2, <2>3, LateMoves
<1> QED
  BY <1>1, <1>2, TypeCorrect, PTL DEF Spec

\* A landing shows: nothing has landed before, if nothing has after the step, and
\* then the step is no landing.
LEMMA NoneLandedBefore ==
  ASSUME TypeOK, TypeOK', LateInv, [Next]_vars, NoneLanded'
  PROVE  NoneLanded /\ \A w \in late : ~LateLands(w)
<1>1. /\ spent["outlive"] \in Nat /\ spent'["outlive"] \in Nat
      /\ spent'["outlive"] >= spent["outlive"] /\ \A w \in late : w.n \in Nat
  BY SpentGrows DEF TypeOK, Bound
<1>2. NoneLanded
  <2> SUFFICES ASSUME NEW n \in 0..(spent["outlive"] - 1), \A w \in late : w.n # n
               PROVE  FALSE
    BY DEF NoneLanded, LateLanded
  <2>1. n \in 0..(spent'["outlive"] - 1)
    BY <1>1
  <2>2. \A w \in late' : w.n # n
    <3>1. CASE late' \subseteq late
      BY <3>1
    <3>2. ASSUME NEW s, Outlives(s)
          PROVE  \A w \in late' : w.n # n
      BY <1>1, <3>2, OneMoreLate
    <3> QED
      BY <3>1, <3>2, LateMoves
  <2> QED
    BY <2>1, <2>2 DEF NoneLanded, LateLanded
<1>3. ASSUME NEW w \in late, LateLands(w)
      PROVE  FALSE
  <2>1. late' = late \ {w} /\ spent'["outlive"] >= spent["outlive"]
    BY <1>1, <1>3 DEF LateLands
  <2>2. w.n \in 0..(spent'["outlive"] - 1)
    BY <1>1 DEF LateInv
  <2>3. \A x \in late' : x.n # w.n
    BY <2>1 DEF LateInv
  <2> QED
    BY <2>2, <2>3 DEF NoneLanded, LateLanded
<1> QED
  BY <1>2, <1>3

\* With no call dropped in its write there is none to land.
LEMMA NothingLate ==
  ASSUME TypeOK, LateInv, NoneOutlived
  PROVE  NoneLanded /\ late = {}
<1>1. late = {}
  BY DEF LateInv, NoneOutlived, TypeOK
<1> QED
  BY <1>1 DEF NoneLanded, LateLanded, NoneOutlived

\* As long as none lands, a call dropped in its write leaves the file as it was, and
\* nobody in hand: the mirror has its bind, or has dropped its row, or never heard
\* of it.
LEMMA GoneFromItsWrite ==
  ASSUME TypeOK, TypeOK', ClaimInv, LateInv, NoneLanded', LateNext
  PROVE  /\ disk' = disk
         /\ \A q \in Requests : disp'[q] \notin InHand
         /\ \E r \in Requests :
              \/ UNCHANGED mirrorVars
              \/ disp[r] \in InHand \ {"writing"} /\ DropRow(r)
              \/ /\ disp[r] \in InHand \ {"writing"}
                 /\ store' = BoundStore(r, FALSE) /\ UNCHANGED <<resident, deliveringNow>>
<1>1. \A w \in late : ~LateLands(w)
  BY NoneLandedBefore DEF Next
<1>2. PICK r \in Requests : \/ \E p \in Parents, n \in Notifies : AcceptOutlives(r, p, n)
                           \/ RollbackOutlives(r) \/ SubmitFailOutlives(r) \/ BindOutlives(r)
  BY <1>1 DEF LateNext
<1>3. disk' = disk /\ CallGone(r) /\ (claim = Free \/ disp[r] \in InHand)
  BY <1>2 DEF AcceptOutlives, RollbackOutlives, SubmitFailOutlives, BindOutlives, InHand
<1>4. disp'[r] = "gone" /\ \A q \in Requests : q # r => disp'[q] = disp[q]
  BY <1>3 DEF CallGone, TypeOK
<1>5. \A q \in Requests : disp[q] \in InHand => q = r
  BY <1>3, NobodyInHand DEF ClaimInv
<1>6. \A q \in Requests : disp'[q] \notin InHand
  BY <1>4, <1>5 DEF InHand
<1>7. \/ UNCHANGED mirrorVars
      \/ disp[r] \in InHand \ {"writing"} /\ DropRow(r)
      \/ /\ disp[r] \in InHand \ {"writing"}
         /\ store' = BoundStore(r, FALSE) /\ UNCHANGED <<resident, deliveringNow>>
  BY <1>2 DEF AcceptOutlives, RollbackOutlives, SubmitFailOutlives, BindOutlives, InHand
<1> QED
  BY <1>3, <1>6, <1>7

\* What the claim makes of the file then: the request in hand has its row in it,
\* and what its accept wrote is what it says until the mirror takes it.
FileInv ==
  /\ \A r \in Requests : disp[r] \in InHand => Present(disk.req[r])
  /\ \A r \in Requests : disp[r] = "writing" => draft = disk

\* A step that leaves the dispatchers alone, and the file too while the claim is held.
LEMMA FileFrame ==
  ASSUME ClaimInv, FileInv, UNCHANGED <<disp, draft>>,
         claim = Free \/ UNCHANGED disk
  PROVE  FileInv'
<1>1. CASE claim = Free
  BY <1>1, NobodyInHand DEF FileInv, InHand
<1>2. CASE UNCHANGED disk
  BY <1>2 DEF FileInv
<1> QED
  BY <1>1, <1>2

\* Who is in hand writes the file as it finds it, with its own row.
LEMMA FileDispatch == TypeOK /\ ClaimInv /\ FileInv /\ DispatchNext => FileInv'
<1> USE DEF vendorVars, mirrorVars, dispVars, dlvVars, toldVars
<1> SUFFICES ASSUME TypeOK, ClaimInv, FileInv, NEW r \in Requests,
                    \/ \E p \in Parents, n \in Notifies, w \in Waiting : AcceptWrite(r, p, n, w)
                    \/ AcceptCommit(r) \/ AcceptRollback(r)
                    \/ \E t \in Turns : SubmitStarted(r, t) \/ SubmitInjected(r, t) \/ SubmitQueued(r, t)
                    \/ SubmitFail(r) \/ Bind(r) \/ Cancel(r)
                    \/ WaitClaimLapses(r) \/ WaiterReleases(r) \/ WaiterReads(r)
             PROVE  FileInv'
  BY DEF DispatchNext
<1>1. ASSUME NEW p \in Parents, NEW n \in Notifies, NEW w \in Waiting, AcceptWrite(r, p, n, w)
      PROVE  FileInv'
  <2>1. \A q \in Requests : disp[q] \notin InHand
    BY <1>1, NobodyInHand DEF AcceptWrite
  <2>2. disk'.req[r] = Accepted(p, n)
    BY <1>1, AcceptedIsThere DEF AcceptWrite, TypeOK
  <2>3. Present(disk'.req[r]) /\ draft' = disk'
    BY <1>1, <2>2 DEF Accepted, Present, AcceptWrite, FileInv
  <2>4. disp' = [disp EXCEPT ![r] = "writing"]
    BY <1>1 DEF AcceptWrite
  <2> QED
    BY <2>1, <2>3, <2>4 DEF FileInv, InHand, TypeOK
<1>2. CASE AcceptRollback(r) \/ SubmitFail(r) \/ Bind(r)
  <2>1. \A q \in Requests : disp[q] \in InHand => q = r
    BY <1>2 DEF ClaimInv, AcceptRollback, SubmitFail, Bind, InHand
  <2>2. disp'[r] \notin InHand /\ (\A q \in Requests : q # r => disp'[q] = disp[q])
    BY <1>2 DEF AcceptRollback, SubmitFail, Bind, InHand, TypeOK
  <2> QED
    BY <2>1, <2>2 DEF FileInv, InHand
<1>3. CASE \/ AcceptCommit(r) \/ Cancel(r)
           \/ \E t \in Turns : SubmitStarted(r, t) \/ SubmitInjected(r, t) \/ SubmitQueued(r, t)
           \/ WaitClaimLapses(r) \/ WaiterReleases(r) \/ WaiterReads(r)
  <2>1. /\ disp' = disp \/ (\A q \in Requests : q # r => disp'[q] = disp[q])
        /\ disp'[r] \in InHand => disp[r] \in InHand
        /\ disp'[r] = "writing" => disp[r] = "writing"
        /\ UNCHANGED <<disk, draft>>
    BY <1>3 DEF AcceptCommit, Cancel, SubmitStarted, SubmitInjected, SubmitQueued, WaitClaimLapses,
       WaiterReleases, WaiterReads, InHand, TypeOK
  <2> QED
    BY <2>1 DEF FileInv
<1> QED
  BY <1>1, <1>2, <1>3

\* Everybody else takes the claim to write the file, and who is dropped in a write
\* has nothing in hand any more.
LEMMA FileStep ==
  TypeOK /\ TypeOK' /\ ClaimInv /\ LateInv /\ FileInv /\ NoneLanded' /\ [Next]_vars => FileInv'
<1> USE DEF vendorVars, mirrorVars, dispVars, dlvVars, toldVars
<1> SUFFICES ASSUME TypeOK, TypeOK', ClaimInv, LateInv, FileInv, NoneLanded', [Next]_vars PROVE FileInv'
  OBVIOUS
<1>1. CASE UNCHANGED vars
  BY <1>1, FileFrame DEF vars
<1>2. CASE VendorNext
  BY <1>2, FileFrame DEF VendorNext, HumanTurn, OpenParked, OpenContinuation, TurnOpens, Narrate, TurnEnds,
     FailTurn, EndTurn, EndTurnReleased, EndTurnUnrecorded
<1>3. CASE DeliverNext
  <2>1. UNCHANGED <<disp, draft>>
    BY <1>3 DEF DeliverNext, PulseIgnored, PulseOpened, PulseHeld, PulseSettled, GraceExpires, PlanNothing,
       Plan, PlanAbandoned, NotifyParent, ParentUnreachable, Commit
  <2>2. claim = Free \/ UNCHANGED disk
    BY <1>3 DEF DeliverNext, PulseIgnored, PulseOpened, PulseHeld, PulseSettled, GraceExpires, PlanNothing,
       Plan, PlanAbandoned, NotifyParent, ParentUnreachable, Commit, MayPlan
  <2> QED
    BY <2>1, <2>2, FileFrame
<1>4. CASE LifeNext /\ ~Crash
  <2>1. UNCHANGED <<disp, draft>>
    BY <1>4 DEF LifeNext, ReconcileScan, ReconcileSeed, ReleasePick, ReleaseFence, ReleaseClear, ReleaseRead,
       ReleaseSettle, EvictInPlace, Stop, StopDetached, StopsProcess, FlushSettlement
  <2>2. claim = Free \/ UNCHANGED disk
    BY <1>4 DEF LifeNext, ReconcileScan, ReconcileSeed, ReleasePick, ReleaseFence, ReleaseClear, ReleaseRead,
       ReleaseSettle, EvictInPlace, Stop, StopDetached, StopsProcess, FlushSettlement
  <2> QED
    BY <2>1, <2>2, FileFrame
<1>5. CASE Crash
  <2>1. \A r \in Requests : disp'[r] \in {"new", "closed", "gone"}
    BY <1>5 DEF Crash
  <2> QED
    BY <2>1 DEF FileInv, InHand
<1>6. CASE LateNext
  BY <1>6, GoneFromItsWrite DEF FileInv, InHand
<1> QED
  BY <1>1, <1>2, <1>3, <1>4, <1>5, <1>6, FileDispatch DEF Next

\* The claim that serialises accept to bind serialises the writes of the file as
\* well, until the write of a call dropped in it lands.
THEOREM ClaimKeepsTheFile == Spec => [](NoneLanded => FileInv)
<1>1. Init => FileInv
  BY DEF Init, FileInv, InHand
<1>2. TypeOK /\ TypeOK' /\ ClaimInv /\ LateInv /\ (NoneLanded => FileInv) /\ [Next]_vars => (NoneLanded => FileInv)'
  BY NoneLandedBefore, FileStep
<1> QED
  BY <1>1, <1>2, TypeCorrect, ClaimSerialises, LateNumbered, PTL DEF Spec
=============================================================================
