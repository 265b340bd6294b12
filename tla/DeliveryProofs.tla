--------------------------- MODULE DeliveryProofs ---------------------------
(***************************************************************************)
(* Deliveries.  A boundary that is spent is not owed, in the mirror, in    *)
(* the file, and in every copy that may replace either; a delivery in      *)
(* flight has its claim on disk and is alone on its boundary; the file     *)
(* keeps up with the mirror; and no parent is told twice under one key.    *)
(***************************************************************************)
EXTENDS DelegationProofs

\* No delivery marker of s is for a boundary in its dedup set.
Disjoint(s) == \A k \in s.delivering : FinalMark(k) \notin Elems(s.notified)

\* s has u's markers and dedup set.
SameMarks(s, u) == s.notified = u.notified /\ s.delivering = u.delivering

\* NeverSpentAndOwed of every copy of the store.
MarksDisjoint == \A s \in Copies : Disjoint(s)

-----------------------------------------------------------------------------
\* `record_notified` adds at most its own mark, whatever ages out.
LEMMA RecordNotifiedMarks ==
  ASSUME NEW s \in Store, NEW m \in Mark
  PROVE  Elems(RecordNotified(s, m).notified) \subseteq Elems(s.notified) \union {m}
<1> DEFINE longer == Append(s.notified, m)
           over   == Len(longer) - NotifiedHistory
           cut    == SubSeq(longer, over + 1, Len(longer))
<1>1. s.notified \in Seq(Mark) /\ longer \in Seq(Mark) /\ Len(longer) = Len(s.notified) + 1
  BY DEF Store
<1>2. Elems(longer) \subseteq Elems(s.notified) \union {m}
  BY <1>1 DEF Elems
<1>3. over > 0 => Elems(cut) \subseteq Elems(longer)
  <2> SUFFICES ASSUME over > 0, NEW i \in DOMAIN cut
               PROVE  cut[i] \in Elems(longer)
    BY DEF Elems
  <2>1. over \in Int /\ over + 1 \in 1..Len(longer)
    BY <1>1, HistoryAssumption
  <2>2. DOMAIN cut = 1..(Len(longer) - over)
    BY <1>1, <2>1
  <2> HIDE DEF longer, over, cut
  <2>3. i \in 1..(Len(longer) - over) /\ Len(longer) \in Nat /\ DOMAIN longer = 1..Len(longer)
    BY <1>1, <2>2
  <2>4. over + i \in DOMAIN longer
    BY <2>1, <2>3
  <2> USE DEF cut
  <2>5. cut[i] = longer[over + i]
    BY <2>1, <2>3
  <2> QED
    BY <2>4, <2>5 DEF Elems
<1>4. RecordNotified(s, m).notified \in {s.notified, cut, longer}
      /\ (RecordNotified(s, m).notified = cut => over > 0 \/ cut \in {s.notified, longer})
  BY DEF RecordNotified, Store
<1> QED
  BY <1>2, <1>3, <1>4

\* Marks of rows never spend a boundary.
LEMMA RecordCoveredDisjoint ==
  ASSUME NEW s \in Store, Disjoint(s), NEW t \in Turns, NEW W
  PROVE  Disjoint(RecordCovered(s, t, W))
<1> DEFINE put(u, w) == IF w \in W THEN RecordNotified(u, RowMark(t, w)) ELSE u
<1>1. ASSUME NEW u \in Store, Disjoint(u), NEW w \in Row
      PROVE  put(u, w) \in Store /\ Disjoint(put(u, w))
  <2>1. RowMark(t, w) \in Mark /\ \A k : RowMark(t, w) # FinalMark(k)
    BY DEF RowMark, Mark, FinalMark
  <2>2. RecordNotified(u, RowMark(t, w)) \in Store
        /\ RecordNotified(u, RowMark(t, w)).delivering = u.delivering
    BY <2>1, RecordNotifiedType
  <2>3. Elems(RecordNotified(u, RowMark(t, w)).notified) \subseteq Elems(u.notified) \union {RowMark(t, w)}
    BY <2>1, RecordNotifiedMarks
  <2>4. Disjoint(RecordNotified(u, RowMark(t, w)))
    BY <1>1, <2>1, <2>2, <2>3 DEF Disjoint
  <2> QED
    BY <1>1, <2>2, <2>4
<1> DEFINE a == put(s, "note")
           b == put(a, "text")
           c == put(b, "error")
           e == put(c, "closing")
<1>2. RecordCovered(s, t, W) = e
  BY DEF RecordCovered
<1> HIDE DEF put
<1>3. a \in Store /\ Disjoint(a)
  BY <1>1 DEF Row
<1> HIDE DEF a
<1>4. b \in Store /\ Disjoint(b)
  BY <1>1, <1>3 DEF Row
<1> HIDE DEF b
<1>5. c \in Store /\ Disjoint(c)
  BY <1>1, <1>4 DEF Row
<1> HIDE DEF c
<1>6. e \in Store /\ Disjoint(e)
  BY <1>1, <1>5 DEF Row
<1> QED
  BY <1>2, <1>6

\* Finishing a delivery spends the boundary it gives up, and no other.
LEMMA FinishDisjoint ==
  ASSUME NEW s \in Store, Disjoint(s), NEW k \in Key
  PROVE  Disjoint(FinishDelivery(s, k))
<1> DEFINE u == AbandonDelivery(s, k)
<1>1. u \in Store /\ u.notified = s.notified /\ u.delivering = s.delivering \ {k}
  BY MarkerType
<1>2. FinalMark(k) \in Mark
  BY DEF FinalMark, Mark, Key
<1>3. \A j \in Key : j # k => FinalMark(j) # FinalMark(k)
  BY DEF FinalMark, Key
<1> HIDE DEF u
<1>4. /\ RecordNotified(u, FinalMark(k)).delivering = u.delivering
      /\ Elems(RecordNotified(u, FinalMark(k)).notified) \subseteq Elems(u.notified) \union {FinalMark(k)}
  BY <1>1, <1>2, RecordNotifiedType, RecordNotifiedMarks
<1>5. s.delivering \subseteq Key
  BY DEF Store
<1>6. FinishDelivery(s, k) = RecordNotified(u, FinalMark(k))
  BY DEF FinishDelivery, u
<1> QED
  BY <1>1, <1>3, <1>4, <1>5, <1>6 DEF Disjoint

\* What a commit makes of the mirror.
LEMMA CommittedDisjoint ==
  ASSUME store \in Store, Disjoint(store), NEW d \in Delivery
  PROVE  Disjoint(CommittedStore(d))
<1> DEFINE f == FinishDelivery(store, KeyOf(d))
           s == RecordCovered(f, d.turn, d.covered)
           g == [r \in Requests |-> ResolvedBy(d, r, s.req[r])]
<1>1. KeyOf(d) \in Key /\ d.turn \in Turns
  BY KeyOfType DEF Delivery
<1>2. f \in Store /\ Disjoint(f)
  BY <1>1, FinishType, FinishDisjoint
<1> HIDE DEF f
<1>3. s \in Store /\ Disjoint(s)
  BY <1>1, <1>2, RecordCoveredType, RecordCoveredDisjoint
<1>4. CommittedStore(d) = [s EXCEPT !.req = g]
  BY DEF CommittedStore, f
<1> HIDE DEF s, g
<1> QED
  BY <1>3, <1>4 DEF Disjoint, Store

\* The operations on rows leave markers and dedup set alone.
LEMMA RowsOnly ==
  ASSUME NEW s \in Store
  PROVE  /\ SameMarks(Durable(s), s)
         /\ \A R : SameMarks(Without(s, R), s)
         /\ \A r, p, n : SameMarks(Accept(s, r, p, n), s)
         /\ \A from, to : SameMarks(RebindContinuation(s, from, to), s)
         /\ \A t : SameMarks(MarkExecuting(s, t), s)
         /\ \A read : SameMarks(Repair(read, s), s)
<1>1. SameMarks(Durable(s), s)
  BY DEF SameMarks, Durable, Store
<1>2. \A R : SameMarks(Without(s, R), s)
  BY DEF SameMarks, Without, Store
<1>3. \A r, p, n : SameMarks(Accept(s, r, p, n), s)
  BY DEF SameMarks, Accept, Prune, Without, Store
<1>4. \A from, to : SameMarks(RebindContinuation(s, from, to), s)
  BY DEF SameMarks, RebindContinuation, Store
<1>5. \A t : SameMarks(MarkExecuting(s, t), s)
  BY DEF SameMarks, MarkExecuting, Store
<1>6. \A read : SameMarks(Repair(read, s), s)
  BY DEF SameMarks, Repair, Store
<1> QED
  BY <1>1, <1>2, <1>3, <1>4, <1>5, <1>6

-----------------------------------------------------------------------------
\* A copy whose markers and dedup set are those of a disjoint one is disjoint.
LEMMA SameMarksDisjoint ==
  ASSUME NEW s, NEW u, SameMarks(s, u), Disjoint(u)
  PROVE  Disjoint(s)
  BY DEF SameMarks, Disjoint

\* The copies that are disjoint now.
LEMMA DisjointNow ==
  ASSUME MarksDisjoint
  PROVE  /\ Disjoint(disk) /\ Disjoint(store) /\ Disjoint(saved) /\ Disjoint(draft)
         /\ Disjoint(scan.store)
         /\ \A s \in flush : Disjoint(s)
         /\ \A w \in late : Disjoint(w.store)
         /\ Disjoint(EmptyStore)
<1>1. Disjoint(EmptyStore)
  BY DEF Disjoint, EmptyStore
<1> QED
  BY <1>1 DEF MarksDisjoint, Copies

\* Enough for the next state: each of its copies is disjoint.
LEMMA DisjointNext ==
  ASSUME Disjoint(disk'), Disjoint(store'), Disjoint(saved'), Disjoint(draft'), Disjoint(scan'.store),
         \A s \in flush' : Disjoint(s), \A w \in late' : Disjoint(w.store)
  PROVE  MarksDisjoint'
<1>1. \A s \in Copies' : \/ s = disk' \/ s = store' \/ s = saved' \/ s = draft' \/ s = scan'.store
                        \/ s \in flush' \/ \E w \in late' : s = w.store
  BY DEF Copies
<1> QED
  BY <1>1 DEF MarksDisjoint, Disjoint

\* A write of a disjoint store, landed or failed, leaves a disjoint file.
LEMMA PersistDisjoint ==
  ASSUME MarksDisjoint, NEW s \in Store, Disjoint(s), PersistOk(s) \/ PersistFail \/ UNCHANGED disk
  PROVE  Disjoint(disk')
<1>1. Disjoint(Durable(s))
  BY RowsOnly, SameMarksDisjoint
<1>2. Disjoint(disk)
  BY DisjointNow
<1> QED
  BY <1>1, <1>2 DEF PersistOk, PersistFail

\* A row dropped leaves a disjoint mirror.
LEMMA DropRowDisjoint ==
  ASSUME MarksDisjoint, TypeOK, NEW r \in Requests, DropRow(r)
  PROVE  Disjoint(store')
<1>1. SameMarks(Without(store, {r}), store)
  BY RowsOnly DEF TypeOK
<1> QED
  BY <1>1, DropRowShrinks, SameMarksDisjoint, DisjointNow

\* The dispatchers' steps.
LEMMA DisjointDispatch == TypeOK /\ MarksDisjoint /\ DispatchNext => MarksDisjoint'
<1> USE DEF vendorVars, mirrorVars, dispVars, dlvVars, toldVars
<1> SUFFICES ASSUME TypeOK, MarksDisjoint, NEW r \in Requests,
                    \/ \E p \in Parents, n \in Notifies, w \in Waiting : AcceptWrite(r, p, n, w)
                    \/ AcceptCommit(r) \/ AcceptRollback(r)
                    \/ \E t \in Turns : SubmitStarted(r, t) \/ SubmitInjected(r, t) \/ SubmitQueued(r, t)
                    \/ SubmitFail(r) \/ Bind(r) \/ Cancel(r)
                    \/ WaitClaimLapses(r) \/ WaiterReleases(r) \/ WaiterReads(r)
             PROVE  MarksDisjoint'
  BY DEF DispatchNext
<1>1. ASSUME NEW p \in Parents, NEW n \in Notifies, NEW w \in Waiting, AcceptWrite(r, p, n, w)
      PROVE  MarksDisjoint'
  <2>1. Disjoint(Accept(disk, r, p, n))
    <3>1. SameMarks(Accept(disk, r, p, n), disk)
      BY RowsOnly DEF TypeOK
    <3> QED
      BY <3>1, SameMarksDisjoint, DisjointNow
  <2> QED
    BY <1>1, <2>1, DisjointNow, DisjointNext DEF AcceptWrite
<1>2. CASE AcceptCommit(r)
  BY <1>2, DisjointNow, DisjointNext DEF AcceptCommit
<1>3. CASE AcceptRollback(r)
  BY <1>3, DisjointNow, DisjointNext DEF AcceptRollback, PersistFail
<1>4. CASE SubmitFail(r)
  <2>1. store' \in Store /\ Disjoint(store')
    BY <1>4, DropRowType, DropRowDisjoint DEF SubmitFail
  <2>2. Disjoint(disk')
    BY <1>4, <2>1, PersistDisjoint DEF SubmitFail, Persist
  <2>3. UNCHANGED <<saved, draft, scan, flush, late>>
    BY <1>4 DEF SubmitFail
  <2> QED
    BY <2>1, <2>2, <2>3, DisjointNow, DisjointNext
<1>5. CASE Bind(r)
  <2>1. \A e \in BOOLEAN : BoundStore(r, e) \in Store /\ Disjoint(BoundStore(r, e))
    <3> TAKE e \in BOOLEAN
    <3>1. BoundStore(r, e) \in Store
      BY BoundStoreType DEF TypeOK
    <3>2. SameMarks(BoundStore(r, e), store)
      BY DEF SameMarks, BoundStore, TypeOK, Store
    <3> QED
      BY <3>1, <3>2, SameMarksDisjoint, DisjointNow
  <2>2. Disjoint(disk') /\ Disjoint(store')
    BY <1>5, <2>1, PersistDisjoint DEF Bind
  <2> QED
    BY <1>5, <2>2, DisjointNow, DisjointNext DEF Bind
<1>6. CASE \/ \E t \in Turns : SubmitStarted(r, t) \/ SubmitInjected(r, t) \/ SubmitQueued(r, t)
           \/ Cancel(r) \/ WaitClaimLapses(r) \/ WaiterReleases(r) \/ WaiterReads(r)
  <2>1. UNCHANGED <<disk, store, saved, draft, late, scan, flush>>
    BY <1>6 DEF SubmitStarted, SubmitInjected, SubmitQueued, Cancel, WaitClaimLapses, WaiterReleases,
                WaiterReads
  <2> QED
    BY <2>1, DisjointNow, DisjointNext
<1> QED
  BY <1>1, <1>2, <1>3, <1>4, <1>5, <1>6

\* The vendor's steps touch no copy.
LEMMA DisjointVendor == MarksDisjoint /\ VendorNext => MarksDisjoint'
<1> USE DEF vendorVars, mirrorVars, dispVars, dlvVars, toldVars
<1>1. VendorNext => UNCHANGED <<disk, store, saved, draft, late, scan, flush>>
  BY DEF VendorNext, HumanTurn, OpenParked, OpenContinuation, TurnOpens, Narrate, TurnEnds, FailTurn,
         EndTurn, EndTurnReleased, EndTurnUnrecorded
<1> QED
  BY <1>1, DisjointNow, DisjointNext

\* The notifier's, the timers' and the deliveries' steps: a claim is taken only on
\* a boundary that is not spent, and spending it gives the claim up.
LEMMA DisjointDeliver == TypeOK /\ MarksDisjoint /\ DeliverNext => MarksDisjoint'
<1> USE DEF vendorVars, mirrorVars, dispVars, dlvVars, toldVars
<1> SUFFICES ASSUME TypeOK, MarksDisjoint, DeliverNext
             PROVE  MarksDisjoint'
  OBVIOUS
<1>1. CASE PulseIgnored \/ PulseSettled
  BY <1>1, DisjointNow, DisjointNext DEF PulseIgnored, PulseSettled
<1>2. CASE PulseOpened
  <2> DEFINE p     == Head(pulses)
             moved == IF p.from = NoTurn THEN store ELSE RebindContinuation(store, p.from, p.turn)
             s     == MarkExecuting(moved, p.turn)
  <2>1. p.turn \in Turns
    <3>1. pulses # << >> /\ pulses \in Seq(Pulse)
      BY <1>2 DEF PulseOpened, NotifierTakes, TypeOK
    <3>2. p \in Pulse
      BY <3>1
    <3> QED
      BY <3>2 DEF Pulse
  <2>2. moved \in Store /\ SameMarks(moved, store)
    <3>1. SameMarks(store, store)
      BY DEF SameMarks
    <3> QED
      BY <2>1, <3>1, RebindType, RowsOnly DEF TypeOK
  <2> HIDE DEF moved
  <2>3. s \in Store /\ Disjoint(s)
    <3>1. s \in Store /\ SameMarks(s, moved)
      BY <2>2, MarkExecutingType, RowsOnly
    <3> QED
      BY <2>2, <3>1, SameMarksDisjoint, DisjointNow
  <2> HIDE DEF s
  <2>4. /\ store' \in {s, store}
        /\ Persist(s) \/ UNCHANGED <<disk, spent>>
    BY <1>2 DEF PulseOpened, moved, s
  <2>5. Disjoint(disk') /\ Disjoint(store')
    BY <2>3, <2>4, PersistDisjoint, DisjointNow DEF Persist
  <2> QED
    BY <1>2, <2>5, DisjointNow, DisjointNext DEF PulseOpened
<1>3. CASE PulseHeld
  <2>1. Persist(store) \/ UNCHANGED <<disk, spent>>
    BY <1>3 DEF PulseHeld
  <2>2. Disjoint(disk')
    BY <2>1, PersistDisjoint, DisjointNow DEF Persist, TypeOK
  <2> QED
    BY <1>3, <2>2, DisjointNow, DisjointNext DEF PulseHeld
<1>4. ASSUME NEW d \in provisional, GraceExpires(d)
      PROVE  MarksDisjoint'
  BY <1>4, DisjointNow, DisjointNext DEF GraceExpires
<1>5. ASSUME NEW d \in due, PlanNothing(d)
      PROVE  MarksDisjoint'
  BY <1>5, DisjointNow, DisjointNext DEF PlanNothing
<1>6. ASSUME NEW d \in due, Plan(d)
      PROVE  MarksDisjoint'
  <2> DEFINE s == BeginDelivery(store, KeyOf(d))
  <2>1. KeyOf(d) \in Key
    BY KeyOfType DEF TypeOK, DueBoundary
  <2>2. s \in Store /\ s.notified = store.notified /\ s.delivering = store.delivering \union {KeyOf(d)}
    BY <2>1, MarkerType DEF TypeOK
  <2>3. FinalMark(KeyOf(d)) \notin Elems(store.notified)
    BY <1>6 DEF Plan, Deliverable
  <2>4. Disjoint(s)
    BY <2>2, <2>3, DisjointNow DEF Disjoint
  <2>5. Disjoint(disk') /\ Disjoint(store')
    BY <1>6, <2>2, <2>4, PersistDisjoint DEF Plan
  <2> QED
    BY <1>6, <2>5, DisjointNow, DisjointNext DEF Plan
<1>7. ASSUME NEW d \in due, PlanAbandoned(d)
      PROVE  MarksDisjoint'
  <2> DEFINE s == AbandonDelivery(store, KeyOf(d))
  <2>1. KeyOf(d) \in Key
    BY KeyOfType DEF TypeOK, DueBoundary
  <2>2. s \in Store /\ s.notified = store.notified /\ s.delivering = store.delivering \ {KeyOf(d)}
    BY <2>1, MarkerType DEF TypeOK
  <2>3. Disjoint(s)
    BY <2>2, DisjointNow DEF Disjoint
  <2>4. Disjoint(Durable(s))
    BY <2>2, <2>3, RowsOnly, SameMarksDisjoint
  <2> QED
    BY <1>7, <2>3, <2>4, DisjointNow, DisjointNext DEF PlanAbandoned
<1>8. ASSUME NEW d \in inflight, NEW p \in Parents, NotifyParent(d, p) \/ ParentUnreachable(d, p)
      PROVE  MarksDisjoint'
  BY <1>8, DisjointNow, DisjointNext DEF NotifyParent, ParentUnreachable
<1>9. ASSUME NEW d \in inflight, Commit(d)
      PROVE  MarksDisjoint'
  <2>1. CommittedStore(d) \in Store /\ Disjoint(CommittedStore(d))
    BY CommittedStoreType, CommittedDisjoint, DisjointNow DEF TypeOK
  <2>2. Disjoint(disk') /\ Disjoint(store')
    BY <1>9, <2>1, PersistDisjoint DEF Commit, Persist
  <2> QED
    BY <1>9, <2>2, DisjointNow, DisjointNext DEF Commit
<1> QED
  BY <1>1, <1>2, <1>3, <1>4, <1>5, <1>6, <1>7, <1>8, <1>9 DEF DeliverNext

\* Restarts, releases, stops and crashes.
LEMMA DisjointLife == TypeOK /\ MarksDisjoint /\ LifeNext => MarksDisjoint'
<1> USE DEF vendorVars, mirrorVars, dispVars, dlvVars, toldVars
<1> SUFFICES ASSUME TypeOK, MarksDisjoint, LifeNext
             PROVE  MarksDisjoint'
  OBVIOUS
<1>1. \A read : Disjoint(Repair(read, disk)) /\ Disjoint(Repair(read, store))
  BY RowsOnly, SameMarksDisjoint, DisjointNow DEF TypeOK
<1>2. CASE ReconcileScan
  <2>1. scan'.store = Repair(rows, disk)
    BY <1>2 DEF ReconcileScan
  <2> QED
    BY <1>1, <1>2, <2>1, DisjointNow, DisjointNext DEF ReconcileScan
<1>3. CASE ReconcileSeed
  <2>1. scan'.store = EmptyStore
    BY <1>3 DEF ReconcileSeed, NoScan
  <2>2. Disjoint(store')
    BY <1>3, DisjointNow DEF ReconcileSeed
  <2> QED
    BY <1>3, <2>1, <2>2, DisjointNow, DisjointNext DEF ReconcileSeed
<1>4. CASE ReleasePick \/ ReleaseFence \/ ReleaseClear \/ ReleaseRead \/ EvictInPlace
  <2>1. UNCHANGED <<disk, store, saved, draft, late, scan, flush>>
    BY <1>4 DEF ReleasePick, ReleaseFence, ReleaseClear, ReleaseRead, EvictInPlace
  <2> QED
    BY <2>1, DisjointNow, DisjointNext
<1>5. CASE ReleaseSettle
  BY <1>1, <1>5, DisjointNow, DisjointNext DEF ReleaseSettle
<1>6. SettledStore \in Store /\ Disjoint(SettledStore) /\ Disjoint(Durable(SettledStore))
  <2>1. SettledStore \in Store
    BY SettledStoreType DEF TypeOK
  <2>2. SameMarks(SettledStore, store)
    BY DEF SameMarks, SettledStore, TypeOK, Store
  <2> QED
    BY <2>1, <2>2, RowsOnly, SameMarksDisjoint, DisjointNow
<1>7. CASE Stop
  <2>1. Disjoint(disk')
    BY <1>6, <1>7, DisjointNow DEF Stop
  <2> QED
    BY <1>6, <1>7, <2>1, DisjointNow, DisjointNext DEF Stop, StopsProcess
<1>8. CASE StopDetached
  <2>1. \A s \in flush' : Disjoint(s)
    BY <1>6, <1>8, DisjointNow DEF StopDetached
  <2> QED
    BY <1>6, <1>8, <2>1, DisjointNow, DisjointNext DEF StopDetached, StopsProcess
<1>9. ASSUME NEW s \in flush, FlushSettlement(s)
      PROVE  MarksDisjoint'
  <2>1. s \in Store /\ Disjoint(s)
    BY DisjointNow DEF TypeOK
  <2>2. Disjoint(disk')
    BY <1>9, <2>1, PersistDisjoint DEF FlushSettlement, Persist
  <2> QED
    BY <1>9, <2>2, DisjointNow, DisjointNext DEF FlushSettlement
<1>10. CASE Crash
  <2>1. scan'.store = EmptyStore
    BY <1>10 DEF Crash, NoScan
  <2> QED
    BY <1>10, <2>1, DisjointNow, DisjointNext DEF Crash
<1> QED
  BY <1>2, <1>3, <1>4, <1>5, <1>7, <1>8, <1>9, <1>10 DEF LifeNext

\* Writes that outlive their calls: each is of a disjoint copy.
LEMMA DisjointLate == TypeOK /\ MarksDisjoint /\ LateNext => MarksDisjoint'
<1> USE DEF vendorVars, toldVars
<1> SUFFICES ASSUME TypeOK, MarksDisjoint, LateNext
             PROVE  MarksDisjoint'
  OBVIOUS
<1>1. UNCHANGED <<saved, draft, scan, flush>>
  BY LateLeaves
<1>2. CASE \E w \in late : disk' \in {w.store, disk} /\ store' = store /\ late' \subseteq late
  BY <1>1, <1>2, DisjointNow, DisjointNext
<1>3. ASSUME NEW r \in Requests, NEW u \in Store,
             disk' = disk, \A w \in late' : w \in late \/ w.store = u, Disjoint(u), Disjoint(store')
      PROVE  MarksDisjoint'
  BY <1>1, <1>3, DisjointNow, DisjointNext
<1>4. ASSUME NEW s \in Store, Disjoint(s)
      PROVE  Disjoint(Durable(s))
  BY <1>4, RowsOnly, SameMarksDisjoint
<1>5. ASSUME NEW r \in Requests
      PROVE  /\ \A p, n : Disjoint(Accept(disk, r, p, n))
             /\ Without(store, {r}) \in Store /\ Disjoint(Without(store, {r}))
             /\ BoundStore(r, FALSE) \in Store /\ Disjoint(BoundStore(r, FALSE))
  <2>1. /\ \A p, n : SameMarks(Accept(disk, r, p, n), disk)
        /\ SameMarks(Without(store, {r}), store)
    BY RowsOnly DEF TypeOK
  <2>2. SameMarks(BoundStore(r, FALSE), store)
    BY DEF SameMarks, BoundStore, TypeOK, Store
  <2>3. Without(store, {r}) \in Store /\ BoundStore(r, FALSE) \in Store
    BY WithoutType, BoundStoreType DEF TypeOK
  <2> QED
    BY <2>1, <2>2, <2>3, SameMarksDisjoint, DisjointNow
<1>6. Disjoint(store) /\ Disjoint(saved) /\ Disjoint(EmptyStore) /\ EmptyStore \in Store
  BY DisjointNow, EmptyStoreType
<1>7. ASSUME NEW r \in Requests, NEW u \in Store,
             \/ store' = store /\ \E p \in Parents, n \in Notifies : u = Accept(disk, r, p, n)
             \/ store' = store /\ u = saved
             \/ store' \in {EmptyStore, Without(store, {r})} /\ u = Durable(store')
             \/ store' = BoundStore(r, FALSE) /\ u = Durable(store')
      PROVE  Disjoint(u) /\ Disjoint(store')
  BY <1>4, <1>5, <1>6, <1>7
<1> QED
  BY <1>2, <1>3, <1>7, LateStores

\* For every instance, every history bound and every sequence of faults: no
\* copy of the store both remembers a boundary as spent and owes it.
THEOREM SpentOrOwed == Spec => []NeverSpentAndOwed
<1> USE DEF vendorVars, mirrorVars, dispVars, dlvVars, toldVars
<1>1. Init => MarksDisjoint
  BY DEF Init, MarksDisjoint, Copies, NoScan, EmptyStore, Disjoint
<1>2. MarksDisjoint /\ UNCHANGED vars => MarksDisjoint'
  BY DisjointNow, DisjointNext DEF vars
<1>3. TypeOK /\ MarksDisjoint /\ [Next]_vars => MarksDisjoint'
  BY <1>2, DisjointDispatch, DisjointVendor, DisjointDeliver, DisjointLife, DisjointLate DEF Next
<1>4. MarksDisjoint => NeverSpentAndOwed
  BY DEF MarksDisjoint, Disjoint, NeverSpentAndOwed, Copies
<1> QED
  BY <1>1, <1>3, <1>4, TypeCorrect, PTL DEF Spec

-----------------------------------------------------------------------------
(* What the operations on a store leave of the fate of a request.           *)

\* The row is outstanding.
Open(q) == q.state \in OpenState

\* n says of the request's fate what q says.
SameFate(n, q) ==
  /\ Open(n) <=> Open(q)
  /\ ~Open(n) => n.state = q.state
  /\ n.answered = q.answered /\ n.notified = q.notified /\ n.notify = q.notify

\* ... of every request.
SameFates(s, u) == \A r \in Requests : SameFate(s.req[r], u.req[r])

\* A write keeps every fate,
LEMMA DurableFates ==
  ASSUME NEW s \in Store
  PROVE  SameFates(Durable(s), s)
<1> SUFFICES ASSUME NEW r \in Requests PROVE SameFate(Durable(s).req[r], s.req[r])
  BY DEF SameFates
<1>1. Durable(s).req[r] = [s.req[r] EXCEPT !.bindError = FALSE] /\ s.req[r] \in Request
  BY DEF Durable, Store
<1> QED
  BY <1>1 DEF SameFate, Request, Open

\* ... so does a continuation,
LEMMA RebindFates ==
  ASSUME NEW s \in Store, NEW from, NEW to
  PROVE  SameFates(RebindContinuation(s, from, to), s)
<1> SUFFICES ASSUME NEW r \in Requests PROVE SameFate(RebindContinuation(s, from, to).req[r], s.req[r])
  BY DEF SameFates
<1>1. s.req[r] \in Request
  BY DEF Store
<1>2. RebindContinuation(s, from, to).req[r] \in {s.req[r], [s.req[r] EXCEPT !.turn = to]}
  BY DEF RebindContinuation, Store
<1> QED
  BY <1>1, <1>2 DEF SameFate, Request, Open

\* ... marking a turn executing,
LEMMA MarkExecutingFates ==
  ASSUME NEW s \in Store, NEW t
  PROVE  SameFates(MarkExecuting(s, t), s)
<1> SUFFICES ASSUME NEW r \in Requests PROVE SameFate(MarkExecuting(s, t).req[r], s.req[r])
  BY DEF SameFates
<1>1. s.req[r] \in Request
  BY DEF Store
<1>2. \/ MarkExecuting(s, t).req[r] = s.req[r]
      \/ Open(s.req[r]) /\ MarkExecuting(s, t).req[r] = [s.req[r] EXCEPT !.state = "executing"]
  BY DEF MarkExecuting, Store, Open, OpenState
<1> QED
  BY <1>1, <1>2 DEF SameFate, Request, Open, OpenState

\* ... and repairing bindings from the transcript.
LEMMA RepairFates ==
  ASSUME NEW read, NEW s \in Store
  PROVE  SameFates(Repair(read, s), s)
<1> SUFFICES ASSUME NEW r \in Requests PROVE SameFate(Repair(read, s).req[r], s.req[r])
  BY DEF SameFates
<1> DEFINE q == s.req[r]
           u == CHOOSE x \in ChainEnds(read, q.turn) : TRUE
<1>1. q \in Request /\ Repair(read, s).req[r] = RepairRequest(read, q)
  BY DEF Repair, Store
<1>2. RepairRequest(read, q) \in {q, [q EXCEPT !.bindError = TRUE], [q EXCEPT !.turn = u]}
  BY DEF RepairRequest
<1> HIDE DEF u, q
<1> QED
  BY <1>1, <1>2 DEF SameFate, Request, Open, q

\* Fates compose.
LEMMA FatesTrans ==
  ASSUME NEW s, NEW u, NEW v, SameFates(s, u), SameFates(u, v)
  PROVE  SameFates(s, v)
  BY DEF SameFates, SameFate

\* The same rows have the same fates.
LEMMA SameRowsFates ==
  ASSUME NEW s, NEW u, s.req = u.req
  PROVE  SameFates(s, u)
  BY DEF SameFates, SameFate

\* A stop settles what is open, and answers nobody.
LEMMA SettledFates ==
  ASSUME store \in Store, NEW r \in Requests
  PROVE  LET n == SettledStore.req[r]
             q == store.req[r]
         IN  /\ n.answered = q.answered /\ n.notified = q.notified /\ n.notify = q.notify
             /\ n.state = q.state \/ (Open(q) /\ n.state \in {"interrupted", "undelivered"})
<1> DEFINE q == store.req[r]
           n == SettledStore.req[r]
<1>1. q \in Request /\ n = StoppedRequest(q)
  BY DEF SettledStore, Store
<1> HIDE DEF q
<1>2. \/ n = q
      \/ Open(q) /\ n \in {[q EXCEPT !.state = "interrupted"], [q EXCEPT !.state = "undelivered"]}
  BY <1>1 DEF StoppedRequest, Open
<1> HIDE DEF n
<1> QED
  BY <1>1, <1>2 DEF Request, n, q

\* What a commit makes of a row.
LEMMA CommittedFates ==
  ASSUME store \in Store, NEW d \in Delivery, NEW r \in Requests
  PROVE  LET n == CommittedStore(d).req[r]
             q == store.req[r]
         IN  IF r \in d.dropped THEN n = Absent
             ELSE IF r \notin d.resolved \/ ~Present(q) THEN n = q
             ELSE /\ Answered(n) /\ n.answered = d.turn /\ n.notify = q.notify
                  /\ n.notified = (r \in d.pushed)
                  /\ n.state = IF Failed(d) THEN "failed" ELSE "answered"
<1> DEFINE q == store.req[r]
           n == CommittedStore(d).req[r]
           st == IF Failed(d) THEN "failed" ELSE "answered"
           b  == r \in d.pushed
           m == [q EXCEPT !.state = st, !.answered = d.turn, !.notified = b]
<1>1. q \in Request
  BY DEF Store
<1>2. n = ResolvedBy(d, r, q)
  <2>1. CommittedStore(d).req = [x \in Requests |-> ResolvedBy(d, x, store.req[x])]
    BY CommittedStoreType
  <2> QED
    BY <2>1
<1> HIDE DEF q, n
<1>3. n = IF r \in d.dropped THEN Absent ELSE IF r \notin d.resolved \/ ~Present(q) THEN q ELSE m
  BY <1>2, Zenon DEF ResolvedBy, Present
<1>4. st \in {"answered", "failed"} /\ b \in BOOLEAN
  OBVIOUS
<1> HIDE DEF st, b
<1>5. m.state = st /\ m.answered = d.turn /\ m.notified = b /\ m.notify = q.notify
  BY <1>1 DEF Request
<1> HIDE DEF m
<1>6. ~(r \in d.dropped) /\ ~(r \notin d.resolved \/ ~Present(q)) => n = m
  BY <1>3
<1> QED
  BY <1>3, <1>4, <1>5, <1>6 DEF Answered, st, b, n, q

\* What a bind makes of a row: the bound one is open, the others stay.
LEMMA BoundFates ==
  ASSUME TypeOK, NEW r \in Requests, NEW e \in BOOLEAN
  PROVE  /\ BoundStore(r, e) \in Store
         /\ SameMarks(BoundStore(r, e), store)
         /\ \A x \in Requests : x # r => BoundStore(r, e).req[x] = store.req[x]
         /\ Open(BoundStore(r, e).req[r])
         /\ BoundStore(r, e).req[r].answered = store.req[r].answered
         /\ BoundStore(r, e).req[r].notified = store.req[r].notified
         /\ BoundStore(r, e).req[r].notify = store.req[r].notify
<1> DEFINE q == store.req[r]
           b == BoundState(disp[r])
           f == e \/ q.bindError
           n == [q EXCEPT !.turn = receipt[r], !.state = b, !.bindError = f]
<1>1. BoundStore(r, e) = [store EXCEPT !.req[r] = n]
  BY Zenon DEF BoundStore
<1>2. q \in Request /\ store \in Store
  BY DEF TypeOK, Store
<1>3. b \in OpenState
  BY DEF BoundState, OpenState
<1> HIDE DEF b, f
<1>4. n.state = b /\ n.answered = q.answered /\ n.notified = q.notified /\ n.notify = q.notify
  BY <1>2 DEF Request
<1> HIDE DEF n
<1>5. /\ BoundStore(r, e).req = [store.req EXCEPT ![r] = n] /\ DOMAIN store.req = Requests
      /\ SameMarks(BoundStore(r, e), store)
  BY <1>1, <1>2 DEF Store, SameMarks
<1>6. BoundStore(r, e) \in Store
  BY BoundStoreType DEF TypeOK
<1> QED
  BY <1>3, <1>4, <1>5, <1>6 DEF Open

\* A row removed is gone, the others stay.
LEMMA WithoutFates ==
  ASSUME NEW s \in Store, NEW R, NEW x \in Requests
  PROVE  Without(s, R).req[x] = IF x \in R THEN Absent ELSE s.req[x]
  BY DEF Without, Store

\* What an accept makes of a row: a settled one may age out.
LEMMA AcceptFates ==
  ASSUME NEW s \in Store, NEW r \in Requests, NEW p, NEW n, NEW x \in Requests, x # r
  PROVE  LET q == Accept(s, r, p, n).req[x]
         IN  q = s.req[x] \/ (q = Absent /\ s.req[x].state \in TerminalState)
<1> DEFINE a == Accepted(p, n)
           u == [s EXCEPT !.req[r] = a]
           old == {y \in Resolved(u) : Cardinality({z \in Resolved(u) : z > y}) >= ResolvedHistory}
<1>1. Accept(s, r, p, n) = Without(u, old)
  BY DEF Accept, Prune
<1> HIDE DEF a
<1>2. u.req[x] = s.req[x] /\ DOMAIN u.req = Requests
  BY DEF Store
<1>3. x \in old => s.req[x].state \in TerminalState
  BY <1>2 DEF Resolved
<1>4. Without(u, old).req = [y \in Requests |-> IF y \in old THEN Absent ELSE u.req[y]]
  BY DEF Without, Store
<1> HIDE DEF u, old
<1> QED
  BY <1>1, <1>2, <1>3, <1>4

\* An accept leaves the accepted row, and every open one, open.
LEMMA AcceptOpens ==
  ASSUME NEW s \in Store, NEW r \in Requests, NEW p, NEW n
  PROVE  /\ Open(Accept(s, r, p, n).req[r])
         /\ \A x \in Requests : Open(s.req[x]) => Open(Accept(s, r, p, n).req[x])
<1>1. Open(Accept(s, r, p, n).req[r])
  <2>1. Accept(s, r, p, n).req[r] = Accepted(p, n)
    BY AcceptedIsThere
  <2>2. Open(Accepted(p, n))
    BY DEF Accepted, Open, OpenState
  <2> QED
    BY <2>1, <2>2
<1> QED
  BY <1>1, AcceptFates DEF Open, OpenState, TerminalState

-----------------------------------------------------------------------------
(* As long as nobody stops the child from a `&mut Gateway` caller, and no   *)
(* write of a dropped call lands, whoever writes the file has read what the *)
(* deliveries claimed.                                                      *)

\* No stop left a settled snapshot to be written without the claim.
NoneDetached == spent["detached"] = 0

\* Nothing wrote the file behind the claim: no such snapshot, and no write of a
\* call dropped in it.
Undisturbed == NoneDetached /\ NoneLanded

\* What was so before the step, if it is so after it.
LEMMA UndisturbedBefore ==
  TypeOK /\ TypeOK' /\ LateInv /\ [Next]_vars /\ Undisturbed' => Undisturbed
<1>1. "detached" \in DOMAIN Bound
  BY DEF Bound
<1> QED
  BY <1>1, SpentStays, NoneLandedBefore DEF NoneDetached, Undisturbed

\* An accept is between its write and its commit or rollback.
Writing == \E r \in Requests : disp[r] = "writing"

\* The boundary k is claimed in the mirror, in the file, and in what an accept
\* under way would put back.
KeyClaimed(k) ==
  /\ resident
  /\ k \in deliveringNow /\ k \in store.delivering /\ k \in disk.delivering
  /\ Writing => k \in saved.delivering

\* Every delivery is claimed, and alone on its boundary.
WokenInv ==
  /\ flush = {}
  /\ \A d \in inflight : /\ KeyClaimed(KeyOf(d))
                         /\ \A e \in inflight : KeyOf(e) = KeyOf(d) => e = d

\* Enough for the next state: no new snapshot to flush, no new delivery, and
\* what is claimed stays claimed.
LEMMA WokenFrame ==
  ASSUME WokenInv, flush' = {}, inflight' \subseteq inflight,
         \A d \in inflight' : KeyClaimed(KeyOf(d)) => KeyClaimed(KeyOf(d))'
  PROVE  WokenInv'
<1>1. \A d \in inflight' : KeyClaimed(KeyOf(d))'
  BY DEF WokenInv
<1>2. \A d \in inflight' : \A e \in inflight' : KeyOf(e) = KeyOf(d) => e = d
  BY DEF WokenInv
<1> QED
  BY <1>1, <1>2 DEF WokenInv

\* A write of a store that holds the marker, landed or failed, leaves it on disk.
LEMMA PersistMarker ==
  ASSUME NEW s \in Store, NEW k \in disk.delivering, k \in s.delivering,
         PersistOk(s) \/ PersistFail \/ UNCHANGED disk
  PROVE  k \in disk'.delivering
<1>1. Durable(s).delivering = s.delivering
  BY RowsOnly DEF SameMarks
<1> QED
  BY <1>1 DEF PersistOk, PersistFail

\* A mirror with a boundary claimed is not forgotten with a row, nor is the claim.
LEMMA DropRowClaims ==
  ASSUME TypeOK, NEW r \in Requests, DropRow(r), NEW k, KeyClaimed(k)
  PROVE  resident' /\ UNCHANGED deliveringNow /\ store' = Without(store, {r}) /\ k \in store'.delivering
<1> DEFINE s == Without(store, {r})
<1>1. s.delivering = store.delivering
  BY RowsOnly DEF TypeOK, SameMarks
<1>2. ~IsEmpty(s)
  BY <1>1 DEF IsEmpty, KeyClaimed
<1>3. store' = s /\ UNCHANGED <<resident, deliveringNow>>
  BY <1>2, Zenon DEF DropRow
<1> QED
  BY <1>1, <1>3 DEF KeyClaimed

\* The dispatchers keep it: an accept writes what it read, with the markers in it.
LEMMA WokenDispatch == TypeOK /\ ClaimInv /\ FileInv /\ WokenInv /\ DispatchNext => WokenInv'
<1> USE DEF vendorVars, mirrorVars, dispVars, dlvVars, toldVars
<1> SUFFICES ASSUME TypeOK, ClaimInv, FileInv, WokenInv, NEW r \in Requests,
                    \/ \E p \in Parents, n \in Notifies, w \in Waiting : AcceptWrite(r, p, n, w)
                    \/ AcceptCommit(r) \/ AcceptRollback(r)
                    \/ \E t \in Turns : SubmitStarted(r, t) \/ SubmitInjected(r, t) \/ SubmitQueued(r, t)
                    \/ SubmitFail(r) \/ Bind(r) \/ Cancel(r)
                    \/ WaitClaimLapses(r) \/ WaiterReleases(r) \/ WaiterReads(r)
             PROVE  WokenInv'
  BY DEF DispatchNext
<1>1. UNCHANGED <<inflight, flush>>
  BY DEF AcceptWrite, AcceptCommit, AcceptRollback, SubmitStarted, SubmitInjected, SubmitQueued, SubmitFail,
         Bind, Cancel, WaitClaimLapses, WaiterReleases, WaiterReads
<1> SUFFICES ASSUME NEW k, KeyClaimed(k)
             PROVE  KeyClaimed(k)'
  BY <1>1, WokenFrame DEF WokenInv
<1>2. ASSUME NEW p \in Parents, NEW n \in Notifies, NEW w \in Waiting, AcceptWrite(r, p, n, w)
      PROVE  KeyClaimed(k)'
  <2>1. SameMarks(Accept(disk, r, p, n), disk)
    BY RowsOnly DEF TypeOK
  <2> QED
    BY <1>2, <2>1 DEF AcceptWrite, SameMarks, KeyClaimed
<1>3. AcceptCommit(r) \/ AcceptRollback(r) => (Writing' => Writing)
  BY DEF Writing, AcceptCommit, AcceptRollback, TypeOK
<1>4. CASE AcceptCommit(r)
  BY <1>3, <1>4 DEF AcceptCommit, FileInv, KeyClaimed
<1>5. CASE AcceptRollback(r)
  BY <1>3, <1>5 DEF AcceptRollback, PersistFail, KeyClaimed, Writing
<1>6. CASE SubmitFail(r)
  <2>1. DropRow(r) /\ Persist(store') /\ UNCHANGED saved
    BY <1>6 DEF SubmitFail
  <2>2. store' \in Store /\ resident' /\ UNCHANGED deliveringNow /\ k \in store'.delivering
    BY <2>1, DropRowType, DropRowClaims
  <2>3. k \in disk'.delivering
    BY <2>1, <2>2, PersistMarker DEF Persist, KeyClaimed
  <2>4. Writing' => Writing
    BY <1>6 DEF SubmitFail, Writing, TypeOK
  <2> QED
    BY <2>1, <2>2, <2>3, <2>4 DEF KeyClaimed
<1>7. CASE Bind(r)
  <2>1. \A e \in BOOLEAN : BoundStore(r, e) \in Store /\ BoundStore(r, e).delivering = store.delivering
    BY BoundFates DEF SameMarks
  <2>2. \E e \in BOOLEAN : store' = BoundStore(r, e) /\ (PersistOk(BoundStore(r, e)) \/ PersistFail)
    BY <1>7 DEF Bind
  <2>3. k \in disk'.delivering /\ k \in store'.delivering
    BY <2>1, <2>2, PersistMarker DEF KeyClaimed
  <2>4. (Writing' => Writing) /\ UNCHANGED <<resident, deliveringNow, saved>>
    BY <1>7 DEF Bind, Writing, TypeOK
  <2> QED
    BY <2>3, <2>4 DEF KeyClaimed
<1>8. CASE \/ \E t \in Turns : SubmitStarted(r, t) \/ SubmitInjected(r, t) \/ SubmitQueued(r, t)
           \/ Cancel(r) \/ WaitClaimLapses(r) \/ WaiterReleases(r) \/ WaiterReads(r)
  <2>1. UNCHANGED <<resident, deliveringNow, store, disk, saved>>
    BY <1>8 DEF SubmitStarted, SubmitInjected, SubmitQueued, Cancel, WaitClaimLapses, WaiterReleases, WaiterReads
  <2>2. Writing' => Writing
    BY <1>8 DEF Writing, SubmitStarted, SubmitInjected, SubmitQueued, Cancel, WaitClaimLapses, WaiterReleases,
                WaiterReads, TypeOK
  <2> QED
    BY <2>1, <2>2 DEF KeyClaimed
<1> QED
  BY <1>2, <1>4, <1>5, <1>6, <1>7, <1>8

\* The vendor touches no marker.
LEMMA WokenVendor == WokenInv /\ VendorNext => WokenInv'
<1> USE DEF vendorVars, mirrorVars, dispVars, dlvVars, toldVars
<1>1. VendorNext => UNCHANGED <<resident, deliveringNow, store, disk, saved, disp, inflight, flush>>
  BY DEF VendorNext, HumanTurn, OpenParked, OpenContinuation, TurnOpens, Narrate, TurnEnds, FailTurn,
         EndTurn, EndTurnReleased, EndTurnUnrecorded
<1> QED
  BY <1>1, WokenFrame DEF KeyClaimed, Writing, WokenInv

\* A plan claims a boundary nobody delivers, and a commit releases only its own.
LEMMA WokenDeliver == TypeOK /\ ClaimInv /\ WokenInv /\ DeliverNext => WokenInv'
<1> USE DEF vendorVars, mirrorVars, dispVars, dlvVars, toldVars
<1> SUFFICES ASSUME TypeOK, ClaimInv, WokenInv, DeliverNext
             PROVE  WokenInv'
  OBVIOUS
<1>1. UNCHANGED <<resident, saved, disp, flush>>
  BY DEF DeliverNext, PulseIgnored, PulseOpened, PulseHeld, PulseSettled, GraceExpires, PlanNothing,
         Plan, PlanAbandoned, NotifyParent, ParentUnreachable, Commit
<1>2. Writing' <=> Writing
  BY <1>1 DEF Writing
<1>3. ASSUME inflight' \subseteq inflight,
             \A d \in inflight' : KeyClaimed(KeyOf(d)) =>
               /\ KeyOf(d) \in deliveringNow' /\ KeyOf(d) \in store'.delivering /\ KeyOf(d) \in disk'.delivering
      PROVE  WokenInv'
  BY <1>1, <1>2, <1>3, WokenFrame DEF KeyClaimed, WokenInv
<1>4. CASE PulseOpened
  <2> DEFINE p == Head(pulses)
             moved == IF p.from = NoTurn THEN store ELSE RebindContinuation(store, p.from, p.turn)
             s == MarkExecuting(moved, p.turn)
  <2>1. p \in Pulse
    BY <1>4, TailElems, PulsesTyped DEF PulseOpened, NotifierTakes, TypeOK
  <2>2. /\ store' = IF resident THEN s ELSE store
        /\ Persist(s) \/ UNCHANGED disk
        /\ UNCHANGED <<inflight, deliveringNow>>
    BY <1>4 DEF PulseOpened
  <2> HIDE DEF p
  <2>3. moved \in Store /\ moved.delivering = store.delivering
    BY <2>1, RebindType, RowsOnly DEF Pulse, TypeOK, SameMarks
  <2> HIDE DEF moved
  <2>4. s \in Store /\ s.delivering = store.delivering
    BY <2>3, MarkExecutingType, RowsOnly DEF SameMarks
  <2> HIDE DEF s
  <2> QED
    BY <1>3, <2>2, <2>4, PersistMarker DEF Persist, KeyClaimed
<1>5. CASE \/ PulseIgnored \/ PulseHeld \/ PulseSettled
           \/ \E d \in provisional : GraceExpires(d)
           \/ \E d \in due : PlanNothing(d)
  <2>1. UNCHANGED <<store, inflight, deliveringNow>> /\ (Persist(store) \/ UNCHANGED disk)
    BY <1>5 DEF PulseIgnored, PulseHeld, PulseSettled, GraceExpires, PlanNothing
  <2> QED
    BY <1>3, <2>1, PersistMarker DEF Persist, KeyClaimed, TypeOK
<1>6. ASSUME NEW d \in due, Plan(d)
      PROVE  WokenInv'
  <2> DEFINE s == BeginDelivery(store, KeyOf(d))
             e == PlannedDelivery(d)
  <2>1. KeyOf(d) \in Key
    BY <1>6, KeyOfType DEF TypeOK, DueBoundary
  <2>2. s \in Store /\ s.delivering = store.delivering \union {KeyOf(d)}
    BY <2>1, MarkerType DEF TypeOK
  <2>3. /\ store' = s /\ disk' = Durable(s) /\ inflight' = inflight \union {e}
        /\ deliveringNow' = deliveringNow \union {KeyOf(d)}
        /\ claim = Free /\ resident /\ KeyOf(d) \notin deliveringNow
    BY <1>6 DEF Plan, MayPlan, PersistOk, Deliverable
  <2>4. KeyOf(e) = KeyOf(d)
    BY DEF KeyOf, PlannedDelivery
  <2> HIDE DEF s, e
  <2>5. disk'.delivering = store.delivering \union {KeyOf(d)}
    BY <2>2, <2>3, RowsOnly DEF SameMarks
  <2>6. ~Writing
    BY <2>3, NobodyInHand DEF Writing, InHand
  <2>7. \A x \in inflight' : KeyClaimed(KeyOf(x))'
    <3>1. \A x \in inflight' : x \in inflight \/ KeyOf(x) = KeyOf(d)
      BY <2>3, <2>4
    <3> SUFFICES ASSUME NEW x \in inflight' PROVE KeyClaimed(KeyOf(x))'
      OBVIOUS
    <3>2. /\ resident' /\ KeyOf(x) \in deliveringNow' /\ KeyOf(x) \in store'.delivering
          /\ KeyOf(x) \in disk'.delivering /\ ~Writing'
      BY <1>1, <1>2, <2>2, <2>3, <2>5, <2>6, <3>1 DEF KeyClaimed, WokenInv
    <3> QED
      BY <3>2 DEF KeyClaimed, KeyOf
  <2>8. \A x, y \in inflight' : KeyOf(y) = KeyOf(x) => y = x
    <3>1. \A x \in inflight : KeyOf(x) \in deliveringNow
      BY DEF WokenInv, KeyClaimed
    <3> QED
      BY <2>3, <2>4, <3>1 DEF WokenInv
  <2> QED
    BY <1>1, <2>7, <2>8 DEF WokenInv
<1>7. ASSUME NEW d \in due, PlanAbandoned(d)
      PROVE  WokenInv'
  <2> DEFINE s == AbandonDelivery(store, KeyOf(d))
  <2>1. KeyOf(d) \in Key
    BY <1>7, KeyOfType DEF TypeOK, DueBoundary
  <2>2. s \in Store /\ s.delivering = store.delivering \ {KeyOf(d)}
    BY <2>1, MarkerType DEF TypeOK
  <2>3. /\ store' = s /\ disk' \in {Durable(s), disk} /\ UNCHANGED <<inflight, deliveringNow>>
        /\ KeyOf(d) \notin deliveringNow
    BY <1>7 DEF PlanAbandoned, Deliverable
  <2> HIDE DEF s
  <2>4. Durable(s).delivering = s.delivering
    BY <2>2, RowsOnly DEF SameMarks
  <2> QED
    BY <1>3, <2>2, <2>3, <2>4 DEF KeyClaimed
<1>8. ASSUME NEW d \in inflight, NEW p \in Parents, NotifyParent(d, p) \/ ParentUnreachable(d, p)
      PROVE  WokenInv'
  <2> DEFINE e == [d EXCEPT !.carry[p] = {}]
             f == [d EXCEPT !.carry[p] = {}, !.dropped = @ \union d.carry[p]]
  <2>1. d \in Delivery
    BY DEF TypeOK
  <2>2. e.turn = d.turn /\ f.turn = d.turn /\ e.row = d.row /\ f.row = d.row
    BY <2>1 DEF Delivery
  <2>3. inflight' = (inflight \ {d}) \union {e} \/ inflight' = (inflight \ {d}) \union {f}
    BY <1>8 DEF NotifyParent, ParentUnreachable
  <2>4. KeyOf(e) = KeyOf(d) /\ KeyOf(f) = KeyOf(d)
    BY <2>2 DEF KeyOf
  <2> HIDE DEF e, f
  <2>5. PICK g : inflight' = (inflight \ {d}) \union {g} /\ KeyOf(g) = KeyOf(d)
    BY <2>3, <2>4
  <2>6. \A x, y \in inflight' : KeyOf(y) = KeyOf(x) => y = x
    BY <2>5 DEF WokenInv
  <2>7. UNCHANGED <<store, disk, deliveringNow>>
    BY <1>8 DEF NotifyParent, ParentUnreachable
  <2>8. \A x \in inflight' : KeyClaimed(KeyOf(x))
    BY <2>5 DEF WokenInv
  <2>9. \A x \in inflight' : KeyClaimed(KeyOf(x))'
    BY <1>1, <1>2, <2>7, <2>8 DEF KeyClaimed, KeyOf
  <2> QED
    BY <1>1, <2>6, <2>9 DEF WokenInv
<1>9. ASSUME NEW d \in inflight, Commit(d)
      PROVE  WokenInv'
  <2> DEFINE s == CommittedStore(d)
  <2>1. s \in Store /\ s.delivering = store.delivering \ {KeyOf(d)}
    BY CommittedStoreType DEF TypeOK
  <2>2. store' = s /\ Persist(s) /\ inflight' = inflight \ {d} /\ deliveringNow' = deliveringNow \ {KeyOf(d)}
    BY <1>9 DEF Commit
  <2> HIDE DEF s
  <2>3. \A x \in inflight' : KeyOf(x) # KeyOf(d)
    BY <2>2 DEF WokenInv
  <2> QED
    BY <1>3, <2>1, <2>2, <2>3, PersistMarker DEF Persist, KeyClaimed
<1> QED
  BY <1>4, <1>5, <1>6, <1>7, <1>8, <1>9 DEF DeliverNext

\* Repairs and stops keep the markers; a crash forgets the deliveries.
LEMMA WokenLife == TypeOK /\ WokenInv /\ LifeNext /\ NoneDetached' => WokenInv'
<1> USE DEF vendorVars, mirrorVars, dispVars, dlvVars, toldVars
<1> SUFFICES ASSUME TypeOK, WokenInv, LifeNext, NoneDetached'
             PROVE  WokenInv'
  OBVIOUS
<1>1. CASE ReconcileScan \/ ReleasePick \/ ReleaseFence \/ ReleaseClear \/ ReleaseRead \/ EvictInPlace
  <2>1. UNCHANGED <<resident, deliveringNow, store, disk, saved, disp, inflight, flush>>
    BY <1>1 DEF ReconcileScan, ReleasePick, ReleaseFence, ReleaseClear, ReleaseRead, EvictInPlace
  <2> QED
    BY <2>1, WokenFrame DEF KeyClaimed, Writing, WokenInv
<1>2. CASE ReconcileSeed
  <2>1. /\ resident => resident' /\ store' = store
        /\ UNCHANGED <<deliveringNow, disk, saved, disp, inflight, flush>>
    BY <1>2 DEF ReconcileSeed
  <2> QED
    BY <2>1, WokenFrame DEF KeyClaimed, Writing, WokenInv
<1>3. CASE ReleaseSettle
  <2>1. /\ store' = Repair(relRows, store)
        /\ UNCHANGED <<resident, deliveringNow, disk, saved, disp, inflight, flush>>
    BY <1>3 DEF ReleaseSettle
  <2>2. store'.delivering = store.delivering
    BY <2>1, RowsOnly DEF TypeOK, SameMarks
  <2> QED
    BY <2>1, <2>2, WokenFrame DEF KeyClaimed, Writing, WokenInv
<1>4. CASE Stop
  <2>1. /\ store' = SettledStore /\ disk' \in {Durable(SettledStore), disk}
        /\ UNCHANGED <<resident, deliveringNow, saved, disp, inflight, flush>>
    BY <1>4 DEF Stop, StopsProcess
  <2>2. SettledStore \in Store /\ SettledStore.delivering = store.delivering
    BY SettledStoreType DEF SettledStore, TypeOK, Store
  <2>3. Durable(SettledStore).delivering = store.delivering
    BY <2>2, RowsOnly DEF SameMarks
  <2> QED
    BY <2>1, <2>2, <2>3, WokenFrame DEF KeyClaimed, Writing, WokenInv
<1>5. CASE StopDetached
  <2>1. "detached" \in DOMAIN Bound /\ spent \in [DOMAIN Bound -> Nat]
    BY DEF Bound, TypeOK
  <2> QED
    BY <1>5, <2>1 DEF StopDetached, Spend, NoneDetached
<1>6. ASSUME NEW s \in flush, FlushSettlement(s)
      PROVE  WokenInv'
  BY <1>6 DEF WokenInv
<1>7. CASE Crash
  BY <1>7 DEF Crash, WokenInv
<1> QED
  BY <1>1, <1>2, <1>3, <1>4, <1>5, <1>6, <1>7 DEF LifeNext

\* A call dropped in its write takes no claim with it.
LEMMA WokenLate ==
  TypeOK /\ TypeOK' /\ ClaimInv /\ LateInv /\ WokenInv /\ NoneLanded' /\ LateNext => WokenInv'
<1> USE DEF mirrorVars
<1> SUFFICES ASSUME TypeOK, TypeOK', ClaimInv, LateInv, WokenInv, NoneLanded', LateNext
             PROVE  WokenInv'
  OBVIOUS
<1>1. UNCHANGED <<inflight, flush>>
  BY LateLeaves
<1>2. ~Writing'
  BY GoneFromItsWrite DEF Writing, InHand
<1> SUFFICES ASSUME NEW k, KeyClaimed(k)
             PROVE  KeyClaimed(k)'
  BY <1>1, WokenFrame DEF WokenInv
<1>3. PICK r \in Requests :
        /\ disk' = disk
        /\ UNCHANGED mirrorVars \/ DropRow(r)
           \/ (store' = BoundStore(r, FALSE) /\ UNCHANGED <<resident, deliveringNow>>)
  BY GoneFromItsWrite
<1>4. BoundStore(r, FALSE).delivering = store.delivering
  BY BoundFates DEF SameMarks
<1>5. resident' /\ UNCHANGED deliveringNow /\ k \in store'.delivering
  BY <1>3, <1>4, DropRowClaims DEF KeyClaimed
<1> QED
  BY <1>2, <1>3, <1>5 DEF KeyClaimed

\* WokenInv holds as long as nothing wrote the file behind the claim.
THEOREM ClaimsAreDurable == Spec => [](Undisturbed => WokenInv)
<1> USE DEF vendorVars, mirrorVars, dispVars, dlvVars, toldVars
<1>1. Init => WokenInv
  BY DEF Init, WokenInv
<1>2. WokenInv /\ UNCHANGED vars => WokenInv'
  BY WokenFrame DEF vars, KeyClaimed, Writing, WokenInv
<1>3. /\ TypeOK /\ TypeOK' /\ ClaimInv /\ LateInv /\ (NoneLanded => FileInv)
      /\ (Undisturbed => WokenInv) /\ [Next]_vars
      => (Undisturbed => WokenInv)'
  <2> SUFFICES ASSUME TypeOK, TypeOK', ClaimInv, LateInv, NoneLanded => FileInv, Undisturbed => WokenInv,
                      [Next]_vars, Undisturbed'
               PROVE  WokenInv'
    OBVIOUS
  <2>1. FileInv /\ WokenInv /\ NoneDetached' /\ NoneLanded'
    BY UndisturbedBefore DEF Undisturbed
  <2> QED
    BY <1>2, <2>1, WokenDispatch, WokenVendor, WokenDeliver, WokenLife, WokenLate DEF Next
<1> QED
  BY <1>1, <1>3, TypeCorrect, ClaimSerialises, LateNumbered, ClaimKeepsTheFile, PTL DEF Spec

\* Nobody is woken on a claim the disk does not remember (WokenOnDurableClaim): a
\* crash anywhere in a delivery leaves it owed.  Only a write behind the claim - a
\* detached stop's, which this excludes, or a dropped call's, which the property
\* names - can take the claim from under it.
THEOREM WakesOnDurableClaim == Spec => [](NoneDetached => WokenOnDurableClaim)
<1>1. (Undisturbed => WokenInv) => (NoneDetached => WokenOnDurableClaim)
  BY DEF Undisturbed, NoneLanded, WokenInv, KeyClaimed, WokenOnDurableClaim
<1> QED
  BY <1>1, ClaimsAreDurable, PTL

\* The notifier, a grace timer and a release may all hold one boundary, but only
\* one of them delivers it (OneDeliveryPerBoundary), as long as nothing wrote the
\* file behind the claim: an accept reads it, and a mirror that forgot a marker
\* may be dropped with a delivery under way.
THEOREM DeliversOnce == Spec => [](Undisturbed => OneDeliveryPerBoundary)
<1>1. (Undisturbed => WokenInv) => (Undisturbed => OneDeliveryPerBoundary)
  BY DEF WokenInv, KeyClaimed, OneDeliveryPerBoundary
<1> QED
  BY <1>1, ClaimsAreDurable, PTL

-----------------------------------------------------------------------------
(* ... and while the daemon lives, what the mirror holds outstanding is     *)
(* outstanding in the file.                                                 *)

\* This is the first life of the daemon, and no detached stop left a snapshot.
Unbroken == NoneDetached /\ spent["crash"] = 0

\* The file, and what a rollback would restore, know what the mirror holds open.
DurableInv ==
  /\ recon = "done" /\ flush = {}
  /\ Outstanding(store) \subseteq Outstanding(disk)
  /\ Writing => Outstanding(store) \subseteq Outstanding(saved)
  /\ \A r \in Requests : disp[r] \in InHand => r \in Outstanding(disk)

\* Stores with the same fates have the same requests outstanding.
LEMMA FatesOutstanding ==
  ASSUME NEW s, NEW u, SameFates(s, u)
  PROVE  Outstanding(s) = Outstanding(u)
  BY DEF SameFates, SameFate, Outstanding, Open

\* The mirror's changes while no request is in hand: it loses outstanding
\* requests at most, and the file keeps them or follows.
LEMMA DurableFrame ==
  ASSUME DurableInv, recon' = "done", flush' = {}, UNCHANGED disp,
         \A r \in Requests : disp[r] \notin InHand,
         Outstanding(store') \subseteq Outstanding(store),
         Outstanding(disk') = Outstanding(store') \/ disk' = disk
  PROVE  DurableInv'
  BY DEF DurableInv, Writing, InHand

\* What a write leaves outstanding on disk.
LEMMA PersistOutstanding ==
  ASSUME NEW s \in Store, PersistOk(s) \/ PersistFail \/ UNCHANGED disk
  PROVE  Outstanding(disk') = Outstanding(s) \/ disk' = disk
<1>1. Outstanding(Durable(s)) = Outstanding(s)
  BY DurableFates, FatesOutstanding
<1> QED
  BY <1>1 DEF PersistOk, PersistFail

\* A row dropped opens none.
LEMMA DropRowOutstanding ==
  ASSUME TypeOK, NEW r \in Requests, DropRow(r)
  PROVE  Outstanding(store') \subseteq Outstanding(store)
<1>1. Absent.state \notin OpenState
  BY DEF Absent, OpenState
<1>2. \A x \in Requests : Without(store, {r}).req[x] \in {Absent, store.req[x]} /\ EmptyStore.req[x] = Absent
  BY WithoutFates DEF TypeOK, EmptyStore
<1>3. \A x \in Requests : store'.req[x] \in {Absent, store.req[x]}
  BY <1>2, DropRowShrinks
<1> QED
  BY <1>1, <1>3 DEF Outstanding

\* The dispatchers keep it: the row is written before the mirror takes it.
LEMMA DurableDispatch == TypeOK /\ ClaimInv /\ FileInv /\ DurableInv /\ DispatchNext => DurableInv'
<1> USE DEF vendorVars, mirrorVars, dispVars, dlvVars, toldVars
<1> SUFFICES ASSUME TypeOK, ClaimInv, FileInv, DurableInv, NEW r \in Requests,
                    \/ \E p \in Parents, n \in Notifies, w \in Waiting : AcceptWrite(r, p, n, w)
                    \/ AcceptCommit(r) \/ AcceptRollback(r)
                    \/ \E t \in Turns : SubmitStarted(r, t) \/ SubmitInjected(r, t) \/ SubmitQueued(r, t)
                    \/ SubmitFail(r) \/ Bind(r) \/ Cancel(r)
                    \/ WaitClaimLapses(r) \/ WaiterReleases(r) \/ WaiterReads(r)
             PROVE  DurableInv'
  BY DEF DispatchNext
<1>1. ASSUME NEW p \in Parents, NEW n \in Notifies, NEW w \in Waiting, AcceptWrite(r, p, n, w)
      PROVE  DurableInv'
  <2>1. claim = Free /\ saved' = disk /\ disk' = Accept(disk, r, p, n)
        /\ disp' = [disp EXCEPT ![r] = "writing"] /\ UNCHANGED <<store, recon, flush>>
    BY <1>1 DEF AcceptWrite
  <2>2. Outstanding(disk) \union {r} \subseteq Outstanding(disk')
    BY <2>1, AcceptOpens DEF Outstanding, Open, TypeOK
  <2>3. \A x \in Requests : disp[x] \notin InHand
    BY <2>1, NobodyInHand
  <2>4. \A x \in Requests : disp'[x] \in InHand => x = r
    BY <2>1, <2>3 DEF TypeOK
  <2> QED
    BY <2>1, <2>2, <2>4 DEF DurableInv
<1>2. ASSUME disp[r] \in InHand
      PROVE  \A x \in Requests : x # r => disp[x] \notin InHand
  BY <1>2 DEF ClaimInv
<1>3. CASE AcceptCommit(r)
  <2>1. disp[r] = "writing" /\ disp' = [disp EXCEPT ![r] = "accepted"] /\ store' = disk
        /\ UNCHANGED <<disk, saved, recon, flush>>
    BY <1>3 DEF AcceptCommit, FileInv
  <2>2. \A x \in Requests : x # r => disp'[x] \notin InHand
    BY <1>2, <2>1 DEF TypeOK, InHand
  <2>3. ~Writing'
    BY <2>1, <2>2 DEF Writing, TypeOK, InHand
  <2> QED
    BY <2>1, <2>2, <2>3 DEF DurableInv, InHand
<1>4. CASE AcceptRollback(r)
  <2>1. disp[r] = "writing" /\ disp' = [disp EXCEPT ![r] = "closed"] /\ disk' \in {saved, disk}
        /\ UNCHANGED <<store, recon, flush>>
    BY <1>4 DEF AcceptRollback, PersistFail
  <2>2. \A x \in Requests : disp'[x] \notin InHand
    BY <1>2, <2>1 DEF TypeOK, InHand
  <2>3. Writing /\ ~Writing'
    BY <2>1, <2>2 DEF Writing, InHand
  <2> QED
    BY <2>1, <2>2, <2>3 DEF DurableInv
<1>5. CASE \E t \in Turns : SubmitStarted(r, t) \/ SubmitInjected(r, t) \/ SubmitQueued(r, t)
  <2>1. disp[r] = "accepted" /\ disp' = [disp EXCEPT ![r] = disp'[r]] /\ disp'[r] \in {"started", "injected", "queued"}
        /\ UNCHANGED <<disk, store, saved, recon, flush>>
    BY <1>5 DEF SubmitStarted, SubmitInjected, SubmitQueued, TypeOK
  <2>2. Writing' => Writing
    BY <2>1 DEF Writing, TypeOK
  <2> QED
    BY <2>1, <2>2 DEF DurableInv, InHand, TypeOK
<1>6. CASE SubmitFail(r)
  <2>1. DropRow(r) /\ Persist(store')
    BY <1>6 DEF SubmitFail
  <2>2. store' \in Store /\ Outstanding(store') \subseteq Outstanding(store)
    BY <2>1, DropRowType, DropRowOutstanding
  <2>3. UNCHANGED <<recon, flush>> /\ disp[r] = "accepted" /\ disp' = [disp EXCEPT ![r] = "closed"]
    BY <1>6 DEF SubmitFail
  <2>4. \A x \in Requests : disp'[x] \notin InHand
    BY <1>2, <2>3 DEF TypeOK, InHand
  <2>5. Outstanding(disk') = Outstanding(store') \/ disk' = disk
    BY <2>1, <2>2, PersistOutstanding DEF Persist
  <2>6. ~Writing'
    BY <2>4 DEF Writing, InHand
  <2> QED
    BY <2>2, <2>3, <2>4, <2>5, <2>6 DEF DurableInv
<1>7. CASE Bind(r)
  <2>1. UNCHANGED <<recon, flush>> /\ disp[r] \in InHand
        /\ disp' = [disp EXCEPT ![r] = disp'[r]] /\ disp'[r] \in {"waiting", "closed"}
    BY <1>7 DEF Bind, InHand, TypeOK
  <2>2. \A x \in Requests : disp'[x] \notin InHand
    BY <1>2, <2>1 DEF TypeOK, InHand
  <2>3. \E e \in BOOLEAN : store' = BoundStore(r, e) /\ (PersistOk(BoundStore(r, e)) \/ PersistFail)
    BY <1>7 DEF Bind
  <2>4. \A e \in BOOLEAN : BoundStore(r, e) \in Store
          /\ Outstanding(BoundStore(r, e)) \subseteq Outstanding(store) \union {r}
    BY BoundFates DEF Outstanding
  <2>5. \/ Outstanding(disk') = Outstanding(store')
        \/ disk' = disk
    BY <2>3, <2>4, PersistOutstanding
  <2>6. Outstanding(store') \subseteq Outstanding(store) \union {r} /\ r \in Outstanding(disk)
    BY <2>1, <2>3, <2>4 DEF DurableInv
  <2>7. ~Writing'
    BY <2>2 DEF Writing, InHand
  <2> QED
    BY <2>1, <2>2, <2>5, <2>6, <2>7 DEF DurableInv
<1>8. CASE Cancel(r) \/ WaitClaimLapses(r) \/ WaiterReleases(r) \/ WaiterReads(r)
  <2>1. UNCHANGED <<store, disk, saved, recon, flush>>
    BY <1>8 DEF Cancel, WaitClaimLapses, WaiterReleases, WaiterReads
  <2>2. \A x \in Requests : disp'[x] = disp[x] \/ disp'[x] \notin InHand
    BY <1>8 DEF Cancel, WaitClaimLapses, WaiterReleases, WaiterReads, TypeOK, InHand
  <2>3. Writing' => Writing
    BY <2>2 DEF Writing, InHand
  <2> QED
    BY <2>1, <2>2, <2>3 DEF DurableInv
<1> QED
  BY <1>1, <1>3, <1>4, <1>5, <1>6, <1>7, <1>8

\* The vendor writes no store.
LEMMA DurableVendor == DurableInv /\ VendorNext => DurableInv'
<1> USE DEF vendorVars, mirrorVars, dispVars, dlvVars, toldVars
<1>1. VendorNext => UNCHANGED <<store, disk, saved, disp, recon, flush>>
  BY DEF VendorNext, HumanTurn, OpenParked, OpenContinuation, TurnOpens, Narrate, TurnEnds, FailTurn,
         EndTurn, EndTurnReleased, EndTurnUnrecorded
<1> QED
  BY <1>1 DEF DurableInv, Writing

\* A failed commit closes rows in the mirror that stay open in the file, never the reverse.
LEMMA DurableDeliver == TypeOK /\ ClaimInv /\ DurableInv /\ DeliverNext => DurableInv'
<1> USE DEF vendorVars, mirrorVars, dispVars, dlvVars, toldVars
<1> SUFFICES ASSUME TypeOK, ClaimInv, DurableInv, DeliverNext
             PROVE  DurableInv'
  OBVIOUS
<1>1. UNCHANGED <<saved, disp, flush, recon>>
  BY DEF DeliverNext, PulseIgnored, PulseOpened, PulseHeld, PulseSettled, GraceExpires, PlanNothing,
         Plan, PlanAbandoned, NotifyParent, ParentUnreachable, Commit
<1>2. ASSUME claim = Free, Outstanding(store') \subseteq Outstanding(store),
             Outstanding(disk') = Outstanding(store') \/ disk' = disk
      PROVE  DurableInv'
  BY <1>1, <1>2, NobodyInHand, DurableFrame DEF DurableInv
<1>3. CASE UNCHANGED <<store, disk>>
  BY <1>1, <1>3 DEF DurableInv, Writing
<1>4. CASE PulseOpened
  <2> DEFINE p == Head(pulses)
             moved == IF p.from = NoTurn THEN store ELSE RebindContinuation(store, p.from, p.turn)
             s == MarkExecuting(moved, p.turn)
  <2>1. p \in Pulse
    BY <1>4, TailElems, PulsesTyped DEF PulseOpened, NotifierTakes, TypeOK
  <2>2. /\ store' = IF resident THEN s ELSE store
        /\ IF resident /\ s # store THEN Persist(s) ELSE UNCHANGED <<disk, spent>>
        /\ claim = Free
    BY <1>4 DEF PulseOpened
  <2> HIDE DEF p
  <2>3. moved \in Store /\ Outstanding(moved) = Outstanding(store)
    BY <2>1, RebindType, RebindFates, FatesOutstanding DEF Pulse, TypeOK
  <2> HIDE DEF moved
  <2>4. s \in Store /\ Outstanding(s) = Outstanding(store)
    BY <2>3, MarkExecutingType, MarkExecutingFates, FatesOutstanding
  <2> HIDE DEF s
  <2>5. (store' = s /\ Persist(s)) \/ UNCHANGED <<store, disk>>
    BY <2>2
  <2> QED
    BY <1>2, <1>3, <2>2, <2>4, <2>5, PersistOutstanding DEF Persist
<1>5. CASE PulseHeld
  <2>1. claim = Free /\ UNCHANGED store /\ (Persist(store) \/ UNCHANGED disk)
    BY <1>5 DEF PulseHeld
  <2> QED
    BY <1>2, <2>1, PersistOutstanding DEF Persist, TypeOK
<1>6. CASE \/ PulseIgnored \/ PulseSettled
           \/ \E d \in provisional : GraceExpires(d)
           \/ \E d \in due : PlanNothing(d)
           \/ \E d \in inflight : \E p \in Parents : NotifyParent(d, p) \/ ParentUnreachable(d, p)
  BY <1>3, <1>6 DEF PulseIgnored, PulseSettled, GraceExpires, PlanNothing, NotifyParent, ParentUnreachable
<1>7. ASSUME NEW d \in due, Plan(d) \/ PlanAbandoned(d)
      PROVE  DurableInv'
  <2>1. KeyOf(d) \in Key
    BY <1>7, KeyOfType DEF TypeOK, DueBoundary
  <2>2. claim = Free /\ \E s \in {BeginDelivery(store, KeyOf(d)), AbandonDelivery(store, KeyOf(d))} :
          store' = s /\ disk' \in {Durable(s), disk}
    BY <1>7 DEF Plan, PlanAbandoned, MayPlan, PersistOk
  <2>3. \A s \in {BeginDelivery(store, KeyOf(d)), AbandonDelivery(store, KeyOf(d))} :
          s \in Store /\ s.req = store.req
    BY <2>1, MarkerType DEF TypeOK
  <2>4. \A s \in {BeginDelivery(store, KeyOf(d)), AbandonDelivery(store, KeyOf(d))} :
          Outstanding(s) = Outstanding(store) /\ Outstanding(Durable(s)) = Outstanding(store)
    BY <2>3, SameRowsFates, DurableFates, FatesOutstanding
  <2> QED
    BY <1>2, <2>2, <2>4
<1>8. ASSUME NEW d \in inflight, Commit(d)
      PROVE  DurableInv'
  <2> DEFINE s == CommittedStore(d)
  <2>1. d \in Delivery /\ store \in Store
    BY DEF TypeOK
  <2>2. s \in Store
    BY <2>1, CommittedStoreType
  <2>3. Outstanding(s) \subseteq Outstanding(store)
    <3> SUFFICES ASSUME NEW x \in Outstanding(s) PROVE x \in Outstanding(store)
      OBVIOUS
    <3>1. x \in Requests /\ s.req[x].state \in OpenState
      BY DEF Outstanding
    <3>2. s.req[x] = store.req[x]
      BY <2>1, <3>1, CommittedFates DEF Absent, Answered, OpenState
    <3> QED
      BY <3>1, <3>2 DEF Outstanding
  <2>4. store' = s /\ Persist(s) /\ claim = Free
    BY <1>8 DEF Commit
  <2> HIDE DEF s
  <2> QED
    BY <1>2, <2>2, <2>3, <2>4, PersistOutstanding DEF Persist
<1> QED
  BY <1>4, <1>5, <1>6, <1>7, <1>8 DEF DeliverNext

\* So does a failed stop.
LEMMA DurableLife == TypeOK /\ ClaimInv /\ DurableInv /\ LifeNext /\ Unbroken' => DurableInv'
<1> USE DEF vendorVars, mirrorVars, dispVars, dlvVars, toldVars
<1> SUFFICES ASSUME TypeOK, ClaimInv, DurableInv, LifeNext, Unbroken'
             PROVE  DurableInv'
  OBVIOUS
<1>1. {"detached", "crash"} \subseteq DOMAIN Bound /\ spent \in [DOMAIN Bound -> Nat]
  BY DEF Bound, TypeOK
<1>2. \A b \in {"detached", "crash"} : ~Spend(b)
  BY <1>1 DEF Spend, Unbroken, NoneDetached
<1>3. CASE ReleasePick \/ ReleaseFence \/ ReleaseClear \/ ReleaseRead \/ EvictInPlace
  <2>1. UNCHANGED <<store, disk, saved, disp, recon, flush>>
    BY <1>3 DEF ReleasePick, ReleaseFence, ReleaseClear, ReleaseRead, EvictInPlace
  <2> QED
    BY <2>1 DEF Writing, DurableInv
<1>4. CASE ReleaseSettle
  <2>1. /\ store' = Repair(relRows, store)
        /\ UNCHANGED <<disk, saved, disp, recon, flush>>
    BY <1>4 DEF ReleaseSettle
  <2>2. Outstanding(store') = Outstanding(store)
    BY <2>1, RepairFates, FatesOutstanding DEF TypeOK
  <2> QED
    BY <2>1, <2>2 DEF Writing, DurableInv
<1>5. CASE Stop
  <2>1. /\ store' = SettledStore /\ disk' \in {Durable(SettledStore), disk} /\ claim = Free
        /\ UNCHANGED <<disp, recon, flush>>
    BY <1>5 DEF Stop, StopsProcess
  <2>2. SettledStore \in Store
    BY SettledStoreType DEF TypeOK
  <2>3. Outstanding(Durable(SettledStore)) = Outstanding(SettledStore)
    BY <2>2, DurableFates, FatesOutstanding
  <2>4. Outstanding(SettledStore) \subseteq Outstanding(store)
    BY SettledFates DEF Outstanding, TypeOK, Open, OpenState
  <2> QED
    BY <2>1, <2>3, <2>4, NobodyInHand, DurableFrame DEF DurableInv
<1>6. ~ReconcileScan /\ ~ReconcileSeed /\ ~StopDetached /\ ~Crash /\ ~\E s \in flush : FlushSettlement(s)
  BY <1>2 DEF ReconcileScan, ReconcileSeed, StopDetached, Crash, DurableInv
<1> QED
  BY <1>3, <1>4, <1>5, <1>6 DEF LifeNext

\* A call dropped in its write leaves the file the row of its accept.
LEMMA DurableLate ==
  TypeOK /\ TypeOK' /\ ClaimInv /\ LateInv /\ DurableInv /\ NoneLanded' /\ LateNext => DurableInv'
<1> SUFFICES ASSUME TypeOK, TypeOK', ClaimInv, LateInv, DurableInv, NoneLanded', LateNext
             PROVE  DurableInv'
  OBVIOUS
<1>1. UNCHANGED <<recon, flush>>
  BY LateLeaves
<1>2. /\ disk' = disk
      /\ \A q \in Requests : disp'[q] \notin InHand
      /\ \E r \in Requests :
           \/ UNCHANGED mirrorVars
           \/ disp[r] \in InHand /\ DropRow(r)
           \/ /\ disp[r] \in InHand
              /\ store' = BoundStore(r, FALSE) /\ UNCHANGED <<resident, deliveringNow>>
  BY GoneFromItsWrite
<1>3. ASSUME UNCHANGED mirrorVars
      PROVE  Outstanding(store') \subseteq Outstanding(disk)
  BY <1>3 DEF DurableInv, mirrorVars
<1>4. ASSUME NEW r \in Requests, DropRow(r)
      PROVE  Outstanding(store') \subseteq Outstanding(disk)
  BY <1>4, DropRowOutstanding DEF DurableInv
<1>5. ASSUME NEW r \in Requests, disp[r] \in InHand, store' = BoundStore(r, FALSE)
      PROVE  Outstanding(store') \subseteq Outstanding(disk)
  <2>1. Outstanding(BoundStore(r, FALSE)) \subseteq Outstanding(store) \union {r}
    BY BoundFates DEF Outstanding
  <2> QED
    BY <1>5, <2>1 DEF DurableInv
<1>6. Outstanding(store') \subseteq Outstanding(disk)
  BY <1>2, <1>3, <1>4, <1>5
<1>7. ~Writing'
  BY <1>2 DEF Writing, InHand
<1> QED
  BY <1>1, <1>2, <1>6, <1>7 DEF DurableInv

\* DurableInv holds up to the first crash or write behind the claim.
THEOREM FileKeepsUp == Spec => [](Unbroken /\ NoneLanded => DurableInv)
<1> USE DEF vendorVars, mirrorVars, dispVars, dlvVars, toldVars
<1>1. Init => DurableInv
  BY DEF Init, DurableInv, InHand, Writing
<1>2. DurableInv /\ UNCHANGED vars => DurableInv'
  BY DEF vars, Writing, DurableInv
<1>3. TypeOK /\ TypeOK' /\ LateInv /\ [Next]_vars /\ (Unbroken /\ NoneLanded)' => Unbroken /\ NoneLanded
  <2>1. {"detached", "crash"} \subseteq DOMAIN Bound
    BY DEF Bound
  <2> QED
    BY <2>1, SpentStays, NoneLandedBefore DEF NoneDetached, Unbroken
<1>4. /\ TypeOK /\ TypeOK' /\ ClaimInv /\ LateInv /\ (NoneLanded => FileInv)
      /\ (Unbroken /\ NoneLanded => DurableInv) /\ [Next]_vars
      => (Unbroken /\ NoneLanded => DurableInv)'
  BY <1>2, <1>3, DurableDispatch, DurableVendor, DurableDeliver, DurableLife, DurableLate DEF Next
<1> QED
  BY <1>1, <1>4, TypeCorrect, ClaimSerialises, LateNumbered, ClaimKeepsTheFile, PTL DEF Spec

\* A crash loses no request the mirror still holds outstanding
\* (OutstandingIsDurable), up to the first crash or detached stop, whatever
\* writes fail: a failed bind leaves the row of the accept, unbound, on disk.
\* Only the late write of a dropped call, which the property names, does.
THEOREM OutstandingStaysDurable == Spec => [](Unbroken => OutstandingIsDurable)
<1>1. (Unbroken /\ NoneLanded => DurableInv) => (Unbroken => OutstandingIsDurable)
  BY DEF DurableInv, OutstandingIsDurable, NoneLanded
<1> QED
  BY <1>1, FileKeepsUp, PTL

-----------------------------------------------------------------------------
(* A dedup set that has been written to stays written to, whatever ages     *)
(* out of it.                                                               *)

\* Some boundary was spent in s.
Spent(s) == s.notified # << >>

\* `record_notified` leaves a mark, its history being at least one long.
LEMMA RecordNotifiedSpent ==
  ASSUME NEW s \in Store, NEW m \in Mark
  PROVE  Spent(RecordNotified(s, m))
<1> DEFINE longer == Append(s.notified, m)
           over   == Len(longer) - NotifiedHistory
           cut    == SubSeq(longer, over + 1, Len(longer))
           kept   == IF over > 0 THEN cut ELSE longer
<1>1. s.notified \in Seq(Mark) /\ longer \in Seq(Mark) /\ Len(longer) = Len(s.notified) + 1
  BY DEF Store
<1>2. Len(longer) \in Nat /\ longer # << >>
  BY <1>1
<1>3. over > 0 => cut # << >>
  <2>1. over \in Int /\ over + 1 <= Len(longer)
    BY <1>2, HistoryAssumption
  <2> HIDE DEF longer, over
  <2>2. over > 0 => over + 1 \in 1..Len(longer)
    BY <1>2, <2>1
  <2>3. over > 0 => Len(cut) = Len(longer) - over
    BY <1>1, <1>2, <2>1, <2>2
  <2>4. over > 0 => Len(cut) > 0
    BY <1>2, <2>1, <2>3
  <2> HIDE DEF cut
  <2>5. over > 0 => cut \in Seq(Mark)
    BY <1>1, <1>2, <2>1, <2>2 DEF cut
  <2> QED
    BY <2>4, <2>5
<1>4. kept # << >>
  BY <1>2, <1>3
<1>5. m \in Elems(s.notified) => s.notified # << >>
  BY DEF Elems
<1>6. RecordNotified(s, m) = IF m \in Elems(s.notified) THEN s ELSE [s EXCEPT !.notified = kept]
  BY DEF RecordNotified
<1> HIDE DEF kept
<1>7. [s EXCEPT !.notified = kept].notified = kept
  BY DEF Store
<1> QED
  BY <1>4, <1>5, <1>6, <1>7 DEF Spent

\* Recording the rows covered keeps that,
LEMMA RecordCoveredSpent ==
  ASSUME NEW s \in Store, Spent(s), NEW t \in Turns, NEW W
  PROVE  Spent(RecordCovered(s, t, W))
<1> DEFINE put(u, w) == IF w \in W THEN RecordNotified(u, RowMark(t, w)) ELSE u
<1>1. ASSUME NEW u \in Store, Spent(u), NEW w \in Row
      PROVE  put(u, w) \in Store /\ Spent(put(u, w))
  <2>1. RowMark(t, w) \in Mark
    BY DEF RowMark, Mark
  <2> QED
    BY <1>1, <2>1, RecordNotifiedType, RecordNotifiedSpent
<1> DEFINE a == put(s, "note")
           b == put(a, "text")
           c == put(b, "error")
           e == put(c, "closing")
<1>2. RecordCovered(s, t, W) = e
  BY DEF RecordCovered
<1> HIDE DEF put
<1>3. a \in Store /\ Spent(a)
  BY <1>1 DEF Row
<1> HIDE DEF a
<1>4. b \in Store /\ Spent(b)
  BY <1>1, <1>3 DEF Row
<1> HIDE DEF b
<1>5. c \in Store /\ Spent(c)
  BY <1>1, <1>4 DEF Row
<1> HIDE DEF c
<1>6. e \in Store /\ Spent(e)
  BY <1>1, <1>5 DEF Row
<1> QED
  BY <1>2, <1>6

\* ... and a commit establishes it.
LEMMA CommittedSpent ==
  ASSUME store \in Store, NEW d \in Delivery
  PROVE  Spent(CommittedStore(d))
<1> DEFINE u == AbandonDelivery(store, KeyOf(d))
           f == FinishDelivery(store, KeyOf(d))
           s == RecordCovered(f, d.turn, d.covered)
           g == [r \in Requests |-> ResolvedBy(d, r, s.req[r])]
<1>1. KeyOf(d) \in Key /\ d.turn \in Turns /\ FinalMark(KeyOf(d)) \in Mark
  BY KeyOfType DEF Delivery, FinalMark, Mark, Key
<1>2. u \in Store /\ f = RecordNotified(u, FinalMark(KeyOf(d)))
  BY <1>1, MarkerType DEF FinishDelivery
<1> HIDE DEF u
<1>3. f \in Store /\ Spent(f)
  BY <1>1, <1>2, FinishType, RecordNotifiedSpent
<1>4. CommittedStore(d) = [s EXCEPT !.req = g]
  BY DEF CommittedStore
<1> HIDE DEF f
<1>5. s \in Store /\ Spent(s)
  BY <1>1, <1>3, RecordCoveredType, RecordCoveredSpent
<1> HIDE DEF s, g
<1> QED
  BY <1>4, <1>5 DEF Spent, Store

\* It is a matter of the marks alone.
LEMMA MarksSpent ==
  ASSUME NEW s, NEW u, SameMarks(s, u), Spent(u)
  PROVE  Spent(s)
  BY DEF SameMarks, Spent

-----------------------------------------------------------------------------
(* Whom a delivery still has to tell, and who was told already.             *)

\* A delivery tells of what it resolves, and of one request one parent.
CarryInv ==
  \A d \in inflight : \A p \in Parents : \A r \in d.carry[p] :
    /\ r \in d.resolved
    /\ \A q \in Parents : r \in d.carry[q] => q = p

\* Every step keeps it: a plan groups by the one parent a row names.
LEMMA CarryStep == TypeOK /\ CarryInv /\ [Next]_vars => CarryInv'
<1> USE DEF vendorVars, mirrorVars, dispVars, dlvVars, toldVars
<1> SUFFICES ASSUME TypeOK, CarryInv, [Next]_vars
             PROVE  CarryInv'
  OBVIOUS
<1>1. CASE inflight' \subseteq inflight
  BY <1>1 DEF CarryInv
<1>2. CASE DispatchNext \/ VendorNext \/ LifeNext \/ LateNext \/ UNCHANGED vars
  <2>1. inflight' \subseteq inflight
    <3>1. DispatchNext => UNCHANGED inflight
      <4> SUFFICES ASSUME NEW r \in Requests,
                          \/ \E p \in Parents, n \in Notifies, w \in Waiting : AcceptWrite(r, p, n, w)
                          \/ AcceptCommit(r) \/ AcceptRollback(r)
                          \/ \E t \in Turns : SubmitStarted(r, t) \/ SubmitInjected(r, t) \/ SubmitQueued(r, t)
                          \/ SubmitFail(r) \/ Bind(r) \/ Cancel(r)
                          \/ WaitClaimLapses(r) \/ WaiterReleases(r) \/ WaiterReads(r)
                   PROVE  UNCHANGED inflight
        BY DEF DispatchNext
      <4> QED
        BY DEF AcceptWrite, AcceptCommit, AcceptRollback, SubmitStarted, SubmitInjected, SubmitQueued,
               SubmitFail, Bind, Cancel, WaitClaimLapses, WaiterReleases, WaiterReads
    <3>2. VendorNext => UNCHANGED inflight
      BY DEF VendorNext, HumanTurn, OpenParked, OpenContinuation, TurnOpens, Narrate, TurnEnds, FailTurn,
             EndTurn, EndTurnReleased, EndTurnUnrecorded
    <3>3. LifeNext => inflight' \subseteq inflight
      BY DEF LifeNext, ReconcileScan, ReconcileSeed, ReleasePick, ReleaseFence, ReleaseClear, ReleaseRead,
             ReleaseSettle, EvictInPlace, Stop, StopDetached, StopsProcess, FlushSettlement, Crash
    <3>4. UNCHANGED vars => UNCHANGED inflight
      BY DEF vars
    <3>5. LateNext => UNCHANGED inflight
      BY LateLeaves
    <3> QED
      BY <1>2, <3>1, <3>2, <3>3, <3>4, <3>5
  <2> QED
    BY <1>1, <2>1
<1>3. CASE \/ PulseIgnored \/ PulseOpened \/ PulseHeld \/ PulseSettled
           \/ \E d \in provisional : GraceExpires(d)
           \/ \E d \in due : PlanNothing(d) \/ PlanAbandoned(d)
           \/ \E d \in inflight : Commit(d)
  BY <1>1, <1>3 DEF PulseIgnored, PulseOpened, PulseHeld, PulseSettled, GraceExpires, PlanNothing, PlanAbandoned, Commit
<1>4. ASSUME NEW d \in due, Plan(d)
      PROVE  CarryInv'
  <2> DEFINE e == PlannedDelivery(d)
  <2>1. inflight' = inflight \union {e}
    BY <1>4 DEF Plan
  <2>2. \A p \in Parents : \A r \in e.carry[p] : r \in e.resolved /\ store.req[r].parent = p
    BY DEF PlannedDelivery
  <2> HIDE DEF e
  <2>3. \A p \in Parents : \A r \in e.carry[p] : r \in e.resolved /\ \A q \in Parents : r \in e.carry[q] => q = p
    BY <2>2
  <2> QED
    BY <2>1, <2>3 DEF CarryInv
<1>5. ASSUME NEW d \in inflight, NEW p \in Parents, NotifyParent(d, p) \/ ParentUnreachable(d, p)
      PROVE  CarryInv'
  <2> DEFINE e == [d EXCEPT !.carry[p] = {}]
             f == [d EXCEPT !.carry[p] = {}, !.dropped = @ \union d.carry[p]]
  <2>1. d \in Delivery
    BY DEF TypeOK
  <2>2. /\ e.resolved = d.resolved /\ f.resolved = d.resolved
        /\ e.carry = [d.carry EXCEPT ![p] = {}] /\ f.carry = [d.carry EXCEPT ![p] = {}]
        /\ d.carry \in [Parents -> SUBSET Requests]
    BY <2>1 DEF Delivery
  <2>3. inflight' = (inflight \ {d}) \union {e} \/ inflight' = (inflight \ {d}) \union {f}
    BY <1>5 DEF NotifyParent, ParentUnreachable
  <2> HIDE DEF e, f
  <2>4. \A x \in {e, f} : \A o \in Parents : \A r \in x.carry[o] :
          r \in x.resolved /\ \A q \in Parents : r \in x.carry[q] => q = o
    BY <2>2 DEF CarryInv
  <2> QED
    BY <2>3, <2>4 DEF CarryInv
<1> QED
  BY <1>2, <1>3, <1>4, <1>5 DEF Next, DeliverNext

\* Phase (b) names each request to one parent only, and only requests its
\* boundary resolves.
THEOREM CarryIsExact == Spec => []CarryInv
<1>1. Init => CarryInv
  BY DEF Init, CarryInv
<1> QED
  BY <1>1, CarryStep, TypeCorrect, PTL DEF Spec

\* Nobody stops the child from a `&mut Gateway` caller, every write lands, and no
\* call is dropped in one.
Sound == NoneDetached /\ spent["fault"] = 0 /\ NoneOutlived

\* What was so before the step, if it is so after it; then nothing writes the file
\* behind the claim, and nothing is left to.
LEMMA SoundBefore ==
  TypeOK /\ TypeOK' /\ LateInv /\ [Next]_vars /\ Sound' => Sound /\ Undisturbed /\ late = {} /\ ~LateNext
<1> SUFFICES ASSUME TypeOK, TypeOK', LateInv, [Next]_vars, Sound'
             PROVE  Sound /\ Undisturbed /\ late = {} /\ ~LateNext
  OBVIOUS
<1>1. {"detached", "fault", "outlive"} \subseteq DOMAIN Bound
  BY DEF Bound
<1>2. Sound
  BY <1>1, SpentStays DEF NoneDetached, NoneOutlived, Sound
<1>3. NoneLanded /\ late = {}
  BY <1>2, NothingLate DEF Sound
<1>4. ~\E s : Outlives(s)
  BY <1>2, OneMoreLate DEF Sound, NoneOutlived
<1>5. ~LateNext
  BY <1>3, <1>4 DEF LateNext, AcceptOutlives, RollbackOutlives, SubmitFailOutlives, BindOutlives
<1> QED
  BY <1>2, <1>3, <1>5 DEF Sound, Undisturbed

\* s remembers that some boundary was spent, and does not hold r outstanding.
ClosedIn(s, r) == r \notin Outstanding(s) /\ Spent(s)

\* ... nor do the mirror, the file, or what a rollback would restore.
Closed(r) ==
  /\ ClosedIn(store, r) /\ ClosedIn(disk, r)
  /\ Writing => ClosedIn(saved, r)

\* A delivery of boundary k still resolves r.
Underway(r, k) == \E d \in inflight : KeyOf(d) = k /\ r \in d.resolved

\* Who was told of a boundary is either still resolved by its delivery, or is
\* outstanding nowhere any more.
ToldInv ==
  /\ \A r \in Requests : \A k \in told[r] :
       resident /\ Late(r) /\ (Underway(r, k) \/ Closed(r))
  /\ NotToldTwiceOfAKey

\* A dispatch that is past its bind stays so.
LEMMA LateStays == TypeOK /\ [Next]_vars => \A r \in Requests : Late(r) => Late(r)'
<1> USE DEF vendorVars, mirrorVars, dispVars, dlvVars, toldVars
<1> SUFFICES ASSUME TypeOK, [Next]_vars, NEW r \in Requests, Late(r)
             PROVE  Late(r)'
  OBVIOUS
<1>1. CASE DispatchNext
  <2> SUFFICES ASSUME NEW q \in Requests,
                      \/ \E p \in Parents, n \in Notifies, w \in Waiting : AcceptWrite(q, p, n, w)
                      \/ AcceptCommit(q) \/ AcceptRollback(q)
                      \/ \E t \in Turns : SubmitStarted(q, t) \/ SubmitInjected(q, t) \/ SubmitQueued(q, t)
                      \/ SubmitFail(q) \/ Bind(q) \/ Cancel(q)
                      \/ WaitClaimLapses(q) \/ WaiterReleases(q) \/ WaiterReads(q)
               PROVE  Late(r)'
    BY <1>1 DEF DispatchNext
  <2>1. disp' = disp \/ \E x : disp' = [disp EXCEPT ![q] = x] /\ (~Late(q) \/ x \in {"reading", "closed", "gone"})
    BY DEF AcceptWrite, AcceptCommit, AcceptRollback, SubmitStarted, SubmitInjected, SubmitQueued, SubmitFail,
           Bind, Cancel, WaitClaimLapses, WaiterReleases, WaiterReads, Late
  <2> QED
    BY <2>1 DEF Late, TypeOK
<1>2. CASE Crash
  BY <1>2 DEF Crash, Late
<1>3. CASE VendorNext \/ DeliverNext \/ UNCHANGED vars
  <2>1. VendorNext => UNCHANGED disp
    BY DEF VendorNext, HumanTurn, OpenParked, OpenContinuation, TurnOpens, Narrate, TurnEnds, FailTurn,
           EndTurn, EndTurnReleased, EndTurnUnrecorded
  <2>2. DeliverNext => UNCHANGED disp
    BY DEF DeliverNext, PulseIgnored, PulseOpened, PulseHeld, PulseSettled, GraceExpires, PlanNothing,
           Plan, PlanAbandoned, NotifyParent, ParentUnreachable, Commit
  <2> QED
    BY <1>3, <2>1, <2>2 DEF vars, Late
<1>4. CASE LifeNext /\ ~Crash
  <2>1. UNCHANGED disp
    BY <1>4 DEF LifeNext, ReconcileScan, ReconcileSeed, ReleasePick, ReleaseFence, ReleaseClear, ReleaseRead,
         ReleaseSettle, EvictInPlace, Stop, StopDetached, StopsProcess, FlushSettlement
  <2> QED
    BY <2>1 DEF Late
<1>5. CASE LateNext
  <2>1. disp' = disp \/ \E q \in Requests : CallGone(q)
    BY <1>5 DEF LateNext, AcceptOutlives, RollbackOutlives, SubmitFailOutlives, BindOutlives, LateLands
  <2> QED
    BY <2>1 DEF CallGone, Late, TypeOK
<1> QED
  BY <1>1, <1>2, <1>3, <1>4, <1>5 DEF Next, LifeNext

\* A store with the same fates and marks is as closed.
LEMMA ClosedKept ==
  ASSUME NEW s, NEW u, SameFates(s, u), SameMarks(s, u), NEW r, ClosedIn(u, r)
  PROVE  ClosedIn(s, r)
  BY FatesOutstanding, MarksSpent DEF ClosedIn

\* A write of s,
LEMMA DurableClosed ==
  ASSUME NEW s \in Store, NEW r, ClosedIn(s, r)
  PROVE  ClosedIn(Durable(s), r)
  BY DurableFates, RowsOnly, ClosedKept

\* ... landed or failed, is as closed.
LEMMA PersistClosed ==
  ASSUME NEW s \in Store, NEW r, ClosedIn(s, r), ClosedIn(disk, r), PersistOk(s) \/ PersistFail \/ UNCHANGED disk
  PROVE  ClosedIn(disk', r)
  BY DurableClosed DEF PersistOk, PersistFail

\* Nothing new is told, the deliveries stay, and what is closed stays closed.
LEMMA ToldFrame ==
  ASSUME ToldInv, UNCHANGED <<told, inflight>>, resident => resident',
         \A r \in Requests : Late(r) => Late(r)',
         \A r \in Requests : told[r] # {} /\ Closed(r) => Closed(r)'
  PROVE  ToldInv'
  BY DEF ToldInv, Underway, NotToldTwiceOfAKey, KeyOf

\* The dispatchers keep it: they reopen nothing anybody was told of, and a failed
\* submit does not remove a file that remembers a boundary.
LEMMA ToldDispatch ==
  TypeOK /\ ClaimInv /\ FileInv /\ WokenInv /\ ToldInv /\ DispatchNext => ToldInv'
<1> USE DEF vendorVars, mirrorVars, dispVars, dlvVars, toldVars
<1> SUFFICES ASSUME TypeOK, ClaimInv, FileInv, WokenInv, ToldInv, DispatchNext, NEW r \in Requests,
                    \/ \E p \in Parents, n \in Notifies, w \in Waiting : AcceptWrite(r, p, n, w)
                    \/ AcceptCommit(r) \/ AcceptRollback(r)
                    \/ \E t \in Turns : SubmitStarted(r, t) \/ SubmitInjected(r, t) \/ SubmitQueued(r, t)
                    \/ SubmitFail(r) \/ Bind(r) \/ Cancel(r)
                    \/ WaitClaimLapses(r) \/ WaiterReleases(r) \/ WaiterReads(r)
             PROVE  ToldInv'
  BY DEF DispatchNext
<1>1. UNCHANGED <<inflight, told>>
  BY DEF AcceptWrite, AcceptCommit, AcceptRollback, SubmitStarted, SubmitInjected, SubmitQueued, SubmitFail,
         Bind, Cancel, WaitClaimLapses, WaiterReleases, WaiterReads
<1>2. \A x \in Requests : Late(x) => Late(x)'
  BY LateStays DEF Next
<1>3. ASSUME UNCHANGED resident \/ resident',
             \A x \in Requests : told[x] # {} /\ Closed(x) => Closed(x)'
      PROVE  ToldInv'
  BY <1>1, <1>2, <1>3, ToldFrame
<1>4. ASSUME NEW p \in Parents, NEW n \in Notifies, NEW w \in Waiting, AcceptWrite(r, p, n, w)
      PROVE  ToldInv'
  <2> DEFINE s == Accept(disk, r, p, n)
  <2>1. disp[r] = "new" /\ saved' = disk /\ disk' = s /\ UNCHANGED <<resident, store>>
    BY <1>4 DEF AcceptWrite
  <2>2. told[r] = {}
    BY <2>1 DEF ToldInv, Late
  <2>3. SameMarks(s, disk)
    BY RowsOnly DEF TypeOK
  <2>4. \A x \in Requests : x # r /\ ClosedIn(disk, x) => ClosedIn(s, x)
    <3>1. \A x \in Requests : x # r => s.req[x] = disk.req[x] \/ s.req[x] = Absent
      BY AcceptFates DEF TypeOK
    <3> HIDE DEF s
    <3>2. \A x \in Requests : x # r /\ x \notin Outstanding(disk) => x \notin Outstanding(s)
      BY <3>1 DEF Outstanding, Absent, OpenState
    <3> QED
      BY <2>3, <3>2, MarksSpent DEF ClosedIn
  <2> HIDE DEF s
  <2>5. \A x \in Requests : told[x] # {} /\ Closed(x) => Closed(x)'
    BY <2>1, <2>2, <2>4 DEF Closed, ClosedIn
  <2> QED
    BY <1>3, <2>1, <2>5
<1>5. CASE AcceptCommit(r)
  <2>1. disp[r] = "writing" /\ store' = disk /\ resident' /\ UNCHANGED <<disk, saved>>
    BY <1>5 DEF AcceptCommit, FileInv
  <2>2. Writing
    BY <2>1 DEF Writing
  <2>3. \A x \in Requests : Closed(x) => Closed(x)'
    BY <2>1, <2>2 DEF Closed, ClosedIn
  <2> QED
    BY <1>3, <2>1, <2>3
<1>6. CASE AcceptRollback(r)
  <2>1. disp[r] = "writing" /\ disk' \in {saved, disk} /\ UNCHANGED <<store, resident, saved>>
    BY <1>6 DEF AcceptRollback, PersistFail
  <2>2. Writing
    BY <2>1 DEF Writing
  <2>3. \A x \in Requests : Closed(x) => Closed(x)'
    BY <2>1, <2>2 DEF Closed, ClosedIn
  <2> QED
    BY <1>3, <2>1, <2>3
<1>7. CASE SubmitFail(r)
  <2> DEFINE s == Without(store, {r})
  <2>1. s \in Store /\ SameMarks(s, store)
    BY WithoutType, RowsOnly DEF TypeOK
  <2>2. CASE \E x \in Requests : told[x] # {}
    <3>1. ~IsEmpty(s)
      <4>0. PICK x \in Requests : told[x] # {}
        BY <2>2
      <4>1. PICK k \in told[x] : Underway(x, k) \/ Closed(x)
        BY <4>0 DEF ToldInv
      <4>2. CASE Underway(x, k)
        <5>1. k \in store.delivering
          BY <4>2 DEF Underway, WokenInv, KeyClaimed
        <5> QED
          BY <2>1, <5>1 DEF SameMarks, IsEmpty
      <4>3. CASE Closed(x)
        BY <2>1, <4>3 DEF Closed, ClosedIn, Spent, SameMarks, IsEmpty
      <4> QED
        BY <4>1, <4>2, <4>3
    <3>2. store' = s /\ Persist(s) /\ UNCHANGED <<resident, saved>>
      <4>1. DropRow(r) /\ Persist(store') /\ UNCHANGED saved
        BY <1>7 DEF SubmitFail
      <4>2. store' = s /\ UNCHANGED resident
        BY <3>1, <4>1, Zenon DEF DropRow
      <4> QED
        BY <4>1, <4>2
    <3>3. \A x \in Requests : ClosedIn(store, x) => ClosedIn(s, x)
      <4>1. \A x \in Requests : s.req[x] \in {store.req[x], Absent}
        BY WithoutFates DEF TypeOK
      <4> HIDE DEF s
      <4>2. \A x \in Requests : x \notin Outstanding(store) => x \notin Outstanding(s)
        BY <4>1 DEF Outstanding, Absent, OpenState
      <4> QED
        BY <2>1, <4>2, MarksSpent DEF ClosedIn
    <3> HIDE DEF s
    <3>4. Writing' => Writing
      BY <1>7 DEF SubmitFail, Writing, TypeOK
    <3>5. \A x \in Requests : Closed(x) => Closed(x)'
      <4> SUFFICES ASSUME NEW x \in Requests, Closed(x) PROVE Closed(x)'
        OBVIOUS
      <4>1. ClosedIn(store', x) /\ ClosedIn(disk', x) /\ (Writing' => ClosedIn(saved', x))
        BY <2>1, <3>2, <3>3, <3>4, PersistClosed DEF Persist, Closed
      <4> QED
        BY <4>1 DEF Closed, ClosedIn
    <3> QED
      BY <1>3, <3>2, <3>5
  <2>3. CASE \A x \in Requests : told[x] = {}
    BY <1>1, <2>3 DEF ToldInv, NotToldTwiceOfAKey, KeyOf, TypeOK
  <2> QED
    BY <2>2, <2>3
<1>8. CASE Bind(r)
  <2>1. told[r] = {}
    BY <1>8 DEF Bind, ToldInv, Late
  <2>2. PICK e \in BOOLEAN : store' = BoundStore(r, e) /\ (PersistOk(BoundStore(r, e)) \/ PersistFail)
    BY <1>8 DEF Bind
  <2> DEFINE s == BoundStore(r, e)
  <2>3. /\ s \in Store /\ SameMarks(s, store) /\ \A x \in Requests : x # r => s.req[x] = store.req[x]
    BY BoundFates
  <2> HIDE DEF s
  <2>4. \A x \in Requests : x # r /\ ClosedIn(store, x) => ClosedIn(s, x)
    BY <2>3, MarksSpent DEF ClosedIn, Outstanding
  <2>5. (Writing' => Writing) /\ UNCHANGED <<resident, saved>>
    BY <1>8 DEF Bind, Writing, TypeOK
  <2>6. \A x \in Requests : told[x] # {} /\ Closed(x) => Closed(x)'
    <3> SUFFICES ASSUME NEW x \in Requests, x # r, Closed(x) PROVE Closed(x)'
      BY <2>1
    <3>1. ClosedIn(store', x) /\ ClosedIn(disk', x) /\ (Writing' => ClosedIn(saved', x))
      BY <2>2, <2>3, <2>4, <2>5, PersistClosed DEF Closed, s
    <3> QED
      BY <3>1 DEF Closed, ClosedIn
  <2> QED
    BY <1>3, <2>5, <2>6
<1>9. CASE \/ \E t \in Turns : SubmitStarted(r, t) \/ SubmitInjected(r, t) \/ SubmitQueued(r, t)
           \/ Cancel(r) \/ WaitClaimLapses(r) \/ WaiterReleases(r) \/ WaiterReads(r)
  <2>1. UNCHANGED <<resident, store, disk, saved>>
    BY <1>9 DEF SubmitStarted, SubmitInjected, SubmitQueued, Cancel, WaitClaimLapses, WaiterReleases, WaiterReads
  <2>2. Writing' => Writing
    BY <1>9 DEF Writing, SubmitStarted, SubmitInjected, SubmitQueued, Cancel, WaitClaimLapses, WaiterReleases,
                WaiterReads, TypeOK
  <2>3. \A x \in Requests : Closed(x) => Closed(x)'
    BY <2>1, <2>2 DEF Closed, ClosedIn
  <2> QED
    BY <1>3, <2>1, <2>3
<1> QED
  BY <1>4, <1>5, <1>6, <1>7, <1>8, <1>9

\* The vendor tells nobody.
LEMMA ToldVendor == TypeOK /\ ToldInv /\ VendorNext => ToldInv'
<1> USE DEF vendorVars, mirrorVars, dispVars, dlvVars, toldVars
<1>1. VendorNext => UNCHANGED <<told, inflight, resident, store, disk, saved, disp>>
  BY DEF VendorNext, HumanTurn, OpenParked, OpenContinuation, TurnOpens, Narrate, TurnEnds, FailTurn,
         EndTurn, EndTurnReleased, EndTurnUnrecorded
<1> QED
  BY <1>1, ToldFrame DEF Closed, ClosedIn, Writing, Late

\* Repairs and stops open nothing, and a crash ends the life being counted.
LEMMA ToldLife == TypeOK /\ WokenInv /\ ToldInv /\ LifeNext /\ NoneDetached' => ToldInv'
<1> USE DEF vendorVars, mirrorVars, dispVars, dlvVars, toldVars
<1> SUFFICES ASSUME TypeOK, WokenInv, ToldInv, LifeNext, NoneDetached'
             PROVE  ToldInv'
  OBVIOUS
<1>1. CASE ReconcileScan \/ ReleasePick \/ ReleaseFence \/ ReleaseClear \/ ReleaseRead \/ EvictInPlace
  <2>1. UNCHANGED <<told, inflight, resident, store, disk, saved, disp>>
    BY <1>1 DEF ReconcileScan, ReleasePick, ReleaseFence, ReleaseClear, ReleaseRead, EvictInPlace
  <2> QED
    BY <2>1, ToldFrame DEF Closed, ClosedIn, Writing, Late
<1>2. CASE ReconcileSeed
  <2>1. /\ resident => resident' /\ store' = store
        /\ UNCHANGED <<told, inflight, disk, saved, disp>>
    BY <1>2 DEF ReconcileSeed
  <2>2. CASE resident
    BY <2>1, <2>2, ToldFrame DEF Closed, ClosedIn, Writing, Late
  <2>3. CASE ~resident
    <3>1. \A x \in Requests : told[x] = {}
      BY <2>3 DEF ToldInv
    <3> QED
      BY <2>1, <3>1 DEF ToldInv, NotToldTwiceOfAKey, KeyOf, TypeOK
  <2> QED
    BY <2>2, <2>3
<1>3. ASSUME NEW s \in Store, store' = s, disk' \in {Durable(s), disk},
             UNCHANGED <<told, inflight, resident, saved, disp>>,
             \A x \in Requests : ClosedIn(store, x) => ClosedIn(s, x)
      PROVE  ToldInv'
  <2>1. \A x \in Requests : Closed(x) => Closed(x)'
    <3> SUFFICES ASSUME NEW x \in Requests, Closed(x) PROVE Closed(x)'
      OBVIOUS
    <3>1. ClosedIn(store', x) /\ ClosedIn(disk', x) /\ (Writing' => ClosedIn(saved', x))
      BY <1>3, DurableClosed DEF Closed, Writing
    <3> QED
      BY <3>1 DEF Closed, ClosedIn
  <2> QED
    BY <1>3, <2>1, ToldFrame DEF Late
<1>4. CASE ReleaseSettle
  <2> DEFINE s == Repair(relRows, store)
  <2>1. /\ store' = s
        /\ UNCHANGED <<told, inflight, resident, disk, saved, disp>>
    BY <1>4 DEF ReleaseSettle
  <2>2. s \in Store /\ \A x \in Requests : ClosedIn(store, x) => ClosedIn(s, x)
    BY RepairType, RepairFates, RowsOnly, ClosedKept DEF TypeOK
  <2> HIDE DEF s
  <2> QED
    BY <1>3, <2>1, <2>2
<1>5. CASE Stop
  <2>1. /\ store' = SettledStore /\ disk' \in {Durable(SettledStore), disk}
        /\ UNCHANGED <<told, inflight, resident, saved, disp>>
    BY <1>5 DEF Stop, StopsProcess
  <2>2. SettledStore \in Store /\ SameMarks(SettledStore, store)
    BY SettledStoreType DEF SettledStore, TypeOK, Store, SameMarks
  <2>3. \A x \in Requests : x \notin Outstanding(store) => x \notin Outstanding(SettledStore)
    BY SettledFates DEF Outstanding, TypeOK, Open, OpenState
  <2>4. \A x \in Requests : ClosedIn(store, x) => ClosedIn(SettledStore, x)
    BY <2>2, <2>3, MarksSpent DEF ClosedIn
  <2> QED
    BY <1>3, <2>1, <2>2, <2>4
<1>6. CASE StopDetached
  <2>1. "detached" \in DOMAIN Bound /\ spent \in [DOMAIN Bound -> Nat]
    BY DEF Bound, TypeOK
  <2> QED
    BY <1>6, <2>1 DEF StopDetached, Spend, NoneDetached
<1>7. ASSUME NEW s \in flush, FlushSettlement(s)
      PROVE  ToldInv'
  BY <1>7 DEF WokenInv
<1>8. CASE Crash
  BY <1>8 DEF Crash, ToldInv, NotToldTwiceOfAKey
<1> QED
  BY <1>1, <1>2, <1>4, <1>5, <1>6, <1>7, <1>8 DEF LifeNext

\* A plan finds neither a boundary under way nor a closed request, and a commit
\* closes, in the mirror and in the file, what its delivery told of.
LEMMA ToldDeliver ==
  TypeOK /\ ClaimInv /\ OwnInv /\ CarryInv /\ WokenInv /\ ToldInv /\ DeliverNext /\ Sound' => ToldInv'
<1> USE DEF vendorVars, mirrorVars, dispVars, dlvVars, toldVars
<1> SUFFICES ASSUME TypeOK, ClaimInv, OwnInv, CarryInv, WokenInv, ToldInv, DeliverNext, Sound'
             PROVE  ToldInv'
  OBVIOUS
<1>1. UNCHANGED <<resident, saved, disp>>
  BY DEF DeliverNext, PulseIgnored, PulseOpened, PulseHeld, PulseSettled, GraceExpires, PlanNothing,
         Plan, PlanAbandoned, NotifyParent, ParentUnreachable, Commit
<1>2. (Writing' <=> Writing) /\ \A x \in Requests : Late(x)' <=> Late(x)
  BY <1>1 DEF Writing, Late
<1>3. ~("fault" \in DOMAIN Bound /\ Spend("fault"))
  BY DEF Sound, Spend, TypeOK
<1>4. "fault" \in DOMAIN Bound
  BY DEF Bound
<1>5. ASSUME UNCHANGED <<told, inflight>>, NEW s \in Store, store' = s,
             Persist(s) \/ UNCHANGED disk,
             \A x \in Requests : ClosedIn(store, x) => ClosedIn(s, x)
      PROVE  ToldInv'
  <2>1. \A x \in Requests : Closed(x) => Closed(x)'
    <3> SUFFICES ASSUME NEW x \in Requests, Closed(x) PROVE Closed(x)'
      OBVIOUS
    <3>1. ClosedIn(store', x) /\ ClosedIn(disk', x) /\ (Writing' => ClosedIn(saved', x))
      BY <1>1, <1>2, <1>5, PersistClosed DEF Closed, Persist
    <3> QED
      BY <3>1 DEF Closed, ClosedIn
  <2> QED
    BY <1>1, <1>2, <1>5, <2>1, ToldFrame
<1>6. CASE PulseOpened
  <2> DEFINE p == Head(pulses)
             moved == IF p.from = NoTurn THEN store ELSE RebindContinuation(store, p.from, p.turn)
             s == MarkExecuting(moved, p.turn)
  <2>1. p \in Pulse
    BY <1>6, TailElems, PulsesTyped DEF PulseOpened, NotifierTakes, TypeOK
  <2>2. /\ store' = IF resident THEN s ELSE store
        /\ (resident /\ Persist(s)) \/ UNCHANGED disk
        /\ UNCHANGED <<inflight, told>>
    BY <1>6 DEF PulseOpened
  <2> HIDE DEF p
  <2>3. moved \in Store /\ SameFates(moved, store) /\ SameMarks(moved, store)
    BY <2>1, RebindType, RebindFates, RowsOnly, SameRowsFates DEF Pulse, TypeOK, SameMarks
  <2> HIDE DEF moved
  <2>4. s \in Store /\ SameFates(s, store) /\ SameMarks(s, store)
    BY <2>3, MarkExecutingType, MarkExecutingFates, RowsOnly, FatesTrans DEF SameMarks
  <2> HIDE DEF s
  <2>5. \A x \in Requests : ClosedIn(store, x) => ClosedIn(s, x)
    BY <2>4, ClosedKept
  <2>6. CASE resident
    BY <1>5, <2>2, <2>4, <2>5, <2>6
  <2>7. CASE ~resident
    BY <1>5, <2>2, <2>7 DEF TypeOK
  <2> QED
    BY <2>6, <2>7
<1>7. CASE \/ PulseIgnored \/ PulseHeld \/ PulseSettled
           \/ \E d \in provisional : GraceExpires(d)
           \/ \E d \in due : PlanNothing(d)
  <2>1. UNCHANGED <<store, inflight, told>> /\ (Persist(store) \/ UNCHANGED disk)
    BY <1>7 DEF PulseIgnored, PulseHeld, PulseSettled, GraceExpires, PlanNothing
  <2> QED
    BY <1>5, <2>1 DEF TypeOK
<1>8. ASSUME NEW d \in due, Plan(d)
      PROVE  ToldInv'
  <2> DEFINE s == BeginDelivery(store, KeyOf(d))
             e == PlannedDelivery(d)
             k == KeyOf(d)
  <2>1. k \in Key
    BY <1>8, KeyOfType DEF TypeOK, DueBoundary
  <2>2. s \in Store /\ s.req = store.req /\ s.notified = store.notified
    BY <2>1, MarkerType DEF TypeOK
  <2>3. /\ store' = s /\ disk' = Durable(s) /\ inflight' = inflight \union {e} /\ told' = told
        /\ k \notin deliveringNow
    BY <1>8 DEF Plan, PersistOk, Deliverable
  <2>4. /\ KeyOf(e) = k /\ e.resolved = BoundTo(store, d.turn)
        /\ \A p \in Parents : \A r \in e.carry[p] : r \in e.resolved
    BY DEF KeyOf, PlannedDelivery
  <2> HIDE DEF s, e, k
  <2>5. \A x \in Requests : ClosedIn(store, x) => ClosedIn(s, x)
    BY <2>2 DEF ClosedIn, Outstanding, Spent
  <2>6. \A x \in Requests : Closed(x) => Closed(x)'
    <3> SUFFICES ASSUME NEW x \in Requests, Closed(x) PROVE Closed(x)'
      OBVIOUS
    <3>1. ClosedIn(store', x) /\ ClosedIn(disk', x) /\ (Writing' => ClosedIn(saved', x))
      BY <1>1, <1>2, <2>2, <2>3, <2>5, DurableClosed DEF Closed
    <3> QED
      BY <3>1 DEF Closed, ClosedIn
  <2>7. \A r \in e.resolved : k \notin told[r]
    <3> SUFFICES ASSUME NEW r \in Requests, r \in Outstanding(store), k \in told[r] PROVE FALSE
      BY <2>4 DEF BoundTo, Outstanding
    <3>1. Underway(r, k) \/ Closed(r)
      BY DEF ToldInv
    <3>2. ~Underway(r, k)
      BY <2>3 DEF Underway, WokenInv, KeyClaimed
    <3> QED
      BY <3>1, <3>2 DEF Closed, ClosedIn
  <2>8. NotToldTwiceOfAKey'
    <3> SUFFICES ASSUME NEW x \in inflight', NEW p \in Parents, NEW r \in x.carry[p]
                 PROVE  KeyOf(x) \notin told[r]
      BY <2>3 DEF NotToldTwiceOfAKey, KeyOf
    <3>1. CASE x \in inflight
      BY <3>1 DEF ToldInv, NotToldTwiceOfAKey
    <3>2. CASE x = e
      BY <2>4, <2>7, <3>2
    <3> QED
      BY <2>3, <3>1, <3>2
  <2>9. \A x \in Requests : \A j \in told[x] : Underway(x, j) => Underway(x, j)'
    BY <2>3 DEF Underway, KeyOf
  <2>10. \A x \in Requests : \A j \in told'[x] :
           resident' /\ Late(x)' /\ (Underway(x, j)' \/ Closed(x)')
    BY <1>1, <1>2, <2>3, <2>6, <2>9 DEF ToldInv
  <2> QED
    BY <2>8, <2>10 DEF ToldInv, Underway, KeyOf
<1>9. ASSUME NEW d \in due, PlanAbandoned(d)
      PROVE  ToldInv'
  BY <1>3, <1>4, <1>9 DEF PlanAbandoned
<1>10. ASSUME NEW d \in inflight, NEW p \in Parents, NotifyParent(d, p) \/ ParentUnreachable(d, p)
       PROVE  ToldInv'
  <2> DEFINE e == [d EXCEPT !.carry[p] = {}]
             f == [d EXCEPT !.carry[p] = {}, !.dropped = @ \union d.carry[p]]
             k == KeyOf(d)
  <2>1. d \in Delivery
    BY DEF TypeOK
  <2>2. /\ e.turn = d.turn /\ f.turn = d.turn /\ e.row = d.row /\ f.row = d.row
        /\ e.resolved = d.resolved /\ f.resolved = d.resolved
        /\ e.carry = [d.carry EXCEPT ![p] = {}] /\ f.carry = [d.carry EXCEPT ![p] = {}]
        /\ d.carry \in [Parents -> SUBSET Requests]
    BY <2>1 DEF Delivery
  <2>3. inflight' = (inflight \ {d}) \union {e} \/ inflight' = (inflight \ {d}) \union {f}
    BY <1>10 DEF NotifyParent, ParentUnreachable
  <2>4. KeyOf(e) = k /\ KeyOf(f) = k
    BY <2>2 DEF KeyOf
  <2> HIDE DEF e, f
  <2>5. PICK g : /\ inflight' = (inflight \ {d}) \union {g} /\ KeyOf(g) = k /\ g.resolved = d.resolved
                 /\ g.carry = [d.carry EXCEPT ![p] = {}]
    BY <2>2, <2>3, <2>4
  <2>6. UNCHANGED <<store, disk>>
    BY <1>10 DEF NotifyParent, ParentUnreachable
  <2>7. \A x \in Requests : Closed(x)' <=> Closed(x)
    BY <1>1, <1>2, <2>6 DEF Closed, ClosedIn
  <2>8. \A x \in Requests : \A j : Underway(x, j) => Underway(x, j)'
    BY <2>5 DEF Underway, KeyOf
  <2>9. \A r \in d.carry[p] : r \in Requests /\ r \in d.resolved /\ Late(r) /\ resident /\ Underway(r, k)
    <3>1. \A r \in d.carry[p] : r \in Requests /\ r \in d.resolved
      BY <2>2 DEF CarryInv
    <3>2. \A r \in d.resolved : Late(r)
      BY DEF OwnInv, DeliveriesOwned, DeliveryOwned
    <3> QED
      BY <3>1, <3>2 DEF WokenInv, KeyClaimed, Underway
  <2>10. \A x \in Requests : \A j \in told'[x] : j \in told[x] \/ (x \in d.carry[p] /\ j = k)
    BY <1>10 DEF NotifyParent, ParentUnreachable, TypeOK
  <2>11. \A x \in Requests : \A j \in told'[x] : resident' /\ Late(x)' /\ (Underway(x, j)' \/ Closed(x)')
    <3> SUFFICES ASSUME NEW x \in Requests, NEW j \in told'[x]
                 PROVE  resident' /\ Late(x)' /\ (Underway(x, j)' \/ Closed(x)')
      OBVIOUS
    <3>1. CASE j \in told[x]
      BY <1>1, <1>2, <2>7, <2>8, <3>1 DEF ToldInv
    <3>2. CASE x \in d.carry[p] /\ j = k
      BY <1>1, <1>2, <2>8, <2>9, <3>2
    <3> QED
      BY <2>10, <3>1, <3>2
  <2>12. \A x \in inflight' : \A q \in Parents : \A r \in x.carry[q] : r \in Requests /\ KeyOf(x) \notin told'[r]
    <3> SUFFICES ASSUME NEW x \in inflight', NEW q \in Parents, NEW r \in x.carry[q]
                 PROVE  r \in Requests /\ KeyOf(x) \notin told'[r]
      OBVIOUS
    <3>1. CASE x \in inflight /\ x # d
      <4>1. KeyOf(x) # k
        BY <3>1 DEF WokenInv
      <4>2. KeyOf(x) \notin told[r] /\ x \in Delivery
        BY <3>1 DEF ToldInv, NotToldTwiceOfAKey, TypeOK
      <4>3. r \in Requests
        BY <4>2 DEF Delivery
      <4> QED
        BY <2>10, <4>1, <4>2, <4>3
    <3>2. CASE x = g
      <4>1. q # p /\ r \in d.carry[q]
        BY <2>2, <2>5, <3>2
      <4>2. r \notin d.carry[p] /\ r \in Requests
        BY <2>2, <4>1 DEF CarryInv
      <4>3. k \notin told[r]
        BY <4>1 DEF ToldInv, NotToldTwiceOfAKey
      <4> QED
        BY <2>5, <2>10, <3>2, <4>2, <4>3
    <3> QED
      BY <2>5, <3>1, <3>2
  <2>13. NotToldTwiceOfAKey'
    BY <2>12 DEF NotToldTwiceOfAKey, KeyOf
  <2> QED
    BY <2>11, <2>13 DEF ToldInv, Underway, KeyOf
<1>11. ASSUME NEW d \in inflight, Commit(d)
       PROVE  ToldInv'
  <2> DEFINE s == CommittedStore(d)
             k == KeyOf(d)
  <2>1. d \in Delivery /\ store \in Store
    BY DEF TypeOK
  <2>2. s \in Store /\ Spent(s)
    BY <2>1, CommittedStoreType, CommittedSpent
  <2>3. \A x \in Requests : x \in Outstanding(s) => x \in Outstanding(store) /\ x \notin d.resolved
    <3> SUFFICES ASSUME NEW x \in Requests, Open(s.req[x])
                 PROVE  Open(store.req[x]) /\ x \notin d.resolved
      BY DEF Outstanding, Open
    <3>1. x \notin d.dropped
      BY <2>1, CommittedFates DEF Open, OpenState, Absent
    <3>2. ~(x \in d.resolved /\ Present(store.req[x]))
      BY <2>1, <3>1, CommittedFates DEF Open, OpenState, Answered
    <3>3. s.req[x] = store.req[x]
      BY <2>1, <3>1, <3>2, CommittedFates
    <3> QED
      BY <3>2, <3>3 DEF Open, OpenState, Present
  <2>4. /\ store' = s /\ Persist(s) /\ inflight' = inflight \ {d} /\ told' = told /\ claim = Free
    BY <1>11 DEF Commit
  <2> HIDE DEF s
  <2>5. disk' = Durable(s)
    BY <1>3, <1>4, <2>4 DEF Persist, PersistOk, PersistFail
  <2>6. ~Writing
    BY <2>4, NobodyInHand DEF Writing, InHand
  <2>7. \A x \in Requests : x \in d.resolved \/ x \notin Outstanding(store) => Closed(x)'
    <3> SUFFICES ASSUME NEW x \in Requests, x \notin Outstanding(s) PROVE Closed(x)'
      BY <2>3
    <3>1. ClosedIn(store', x) /\ ClosedIn(disk', x)
      BY <2>2, <2>4, <2>5, DurableClosed DEF ClosedIn
    <3> QED
      BY <1>2, <2>6, <3>1 DEF Closed, ClosedIn
  <2>8. \A x \in Requests : \A j \in told'[x] : resident' /\ Late(x)' /\ (Underway(x, j)' \/ Closed(x)')
    <3> SUFFICES ASSUME NEW x \in Requests, NEW j \in told[x]
                 PROVE  resident' /\ Late(x)' /\ (Underway(x, j)' \/ Closed(x)')
      BY <2>4
    <3>1. resident' /\ Late(x)' /\ (Underway(x, j) \/ Closed(x))
      BY <1>1, <1>2 DEF ToldInv
    <3>2. CASE Closed(x)
      BY <2>7, <3>1, <3>2 DEF Closed, ClosedIn
    <3>3. CASE Underway(x, j) /\ x \notin d.resolved
      BY <2>4, <3>1, <3>3 DEF Underway, KeyOf
    <3>4. CASE x \in d.resolved
      BY <2>7, <3>1, <3>4
    <3> QED
      BY <3>1, <3>2, <3>3, <3>4
  <2>9. NotToldTwiceOfAKey'
    BY <2>4 DEF ToldInv, NotToldTwiceOfAKey, KeyOf
  <2> QED
    BY <2>8, <2>9 DEF ToldInv, Underway, KeyOf
<1> QED
  BY <1>6, <1>7, <1>8, <1>9, <1>10, <1>11 DEF DeliverNext

\* ToldInv holds as long as every write lands, under the claim.
THEOREM ToldIsAccounted == Spec => [](Sound => ToldInv)
<1> USE DEF vendorVars, mirrorVars, dispVars, dlvVars, toldVars
<1>1. Init => ToldInv
  BY DEF Init, ToldInv, NotToldTwiceOfAKey
<1>2. TypeOK /\ ToldInv /\ UNCHANGED vars => ToldInv'
  BY ToldFrame DEF vars, Closed, ClosedIn, Writing, Late
<1>3. /\ TypeOK /\ TypeOK' /\ ClaimInv /\ LateInv /\ OwnInv /\ CarryInv
      /\ (NoneLanded => FileInv) /\ (Undisturbed => WokenInv)
      /\ (Sound => ToldInv) /\ [Next]_vars
      => (Sound => ToldInv)'
  <2> SUFFICES ASSUME TypeOK, TypeOK', ClaimInv, LateInv, OwnInv, CarryInv,
                      NoneLanded => FileInv, Undisturbed => WokenInv,
                      Sound => ToldInv, [Next]_vars, Sound'
               PROVE  ToldInv'
    OBVIOUS
  <2>1. FileInv /\ WokenInv /\ ToldInv /\ NoneDetached' /\ ~LateNext
    BY SoundBefore DEF Sound, Undisturbed
  <2> QED
    BY <1>2, <2>1, ToldDispatch, ToldVendor, ToldDeliver, ToldLife DEF Next
<1> QED
  BY <1>1, <1>3, TypeCorrect, ClaimSerialises, LateNumbered, WorkIsOwned, CarryIsExact, ClaimKeepsTheFile,
     ClaimsAreDurable, PTL DEF Spec

\* `delivering_now` and the dedup set together (NotToldTwiceOfAKey): nobody is
\* told of one boundary twice in a life of the daemon, as long as every write of
\* the file lands while its call holds the claim: none fails, none is of a call
\* dropped in it, and no `&mut Gateway` caller stops the child.
THEOREM TellsAKeyOnce == Spec => [](Sound => NotToldTwiceOfAKey)
<1>1. (Sound => ToldInv) => (Sound => NotToldTwiceOfAKey)
  BY DEF ToldInv
<1> QED
  BY <1>1, ToldIsAccounted, PTL
=============================================================================
