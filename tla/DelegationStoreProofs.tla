----------------------- MODULE DelegationStoreProofs -----------------------
(***************************************************************************)
(* Lemmas about the operations of DelegationStore: what each of them       *)
(* returns is a store, and what it leaves alone.                           *)
(***************************************************************************)
EXTENDS DelegationStore, TLAPS

\* The empty store, what a session without `delegation.json` has, is a store.
LEMMA EmptyStoreType == EmptyStore \in Store
  BY DEF EmptyStore, Store, Absent, Request, NotifyMode

\* Replacing the rows of a store by rows leaves a store.
LEMMA WithRowsType ==
  ASSUME NEW s \in Store, NEW f \in [Requests -> Request]
  PROVE  [s EXCEPT !.req = f] \in Store
  BY DEF Store

\* Replacing one row of a store by a row leaves a store.
LEMMA WithRowType ==
  ASSUME NEW s \in Store, NEW r \in Requests, NEW q \in Request
  PROVE  [s EXCEPT !.req[r] = q] \in Store
  BY DEF Store

\* Removing rows, as a failed submit and `prune` do, leaves a store.
LEMMA WithoutType ==
  ASSUME NEW s \in Store, NEW R
  PROVE  Without(s, R) \in Store
<1>1. Absent \in Request
  BY DEF Absent, Request, NotifyMode
<1>2. [r \in Requests |-> IF r \in R THEN Absent ELSE s.req[r]] \in [Requests -> Request]
  BY <1>1 DEF Store
<1> QED
  BY <1>2, WithRowsType DEF Without

\* `accept` returns a store.
LEMMA AcceptType ==
  ASSUME NEW s \in Store, NEW r \in Requests, NEW p \in Parents, NEW n \in NotifyMode
  PROVE  Accept(s, r, p, n) \in Store
<1>1. Accepted(p, n) \in Request
  BY DEF Accepted, Request, OpenState
<1>2. [s EXCEPT !.req[r] = Accepted(p, n)] \in Store
  BY <1>1, WithRowType
<1> QED
  BY <1>2, WithoutType DEF Accept, Prune

\* `rebind_continuation` returns a store.
LEMMA RebindType ==
  ASSUME NEW s \in Store, NEW from, NEW to \in Turns
  PROVE  RebindContinuation(s, from, to) \in Store
<1>1. \A r \in Requests : [s.req[r] EXCEPT !.turn = to] \in Request
  BY DEF Store, Request
<1>2. [r \in Requests |-> IF r \in BoundTo(s, from) THEN [s.req[r] EXCEPT !.turn = to] ELSE s.req[r]]
        \in [Requests -> Request]
  BY <1>1 DEF Store
<1> QED
  BY <1>2, WithRowsType DEF RebindContinuation

\* `record_notified` returns a store, with the same rows and the same markers.
LEMMA RecordNotifiedType ==
  ASSUME NEW s \in Store, NEW m \in Mark
  PROVE  /\ RecordNotified(s, m) \in Store
         /\ RecordNotified(s, m).req = s.req
         /\ RecordNotified(s, m).delivering = s.delivering
<1> DEFINE longer == Append(s.notified, m)
           over   == Len(longer) - NotifiedHistory
<1>1. longer \in Seq(Mark) /\ Len(longer) \in Nat
  BY DEF Store
<1>2. over > 0 => SubSeq(longer, over + 1, Len(longer)) \in Seq(Mark)
  BY <1>1, HistoryAssumption
<1>3. (IF over > 0 THEN SubSeq(longer, over + 1, Len(longer)) ELSE longer) \in Seq(Mark)
  BY <1>1, <1>2
<1> HIDE DEF longer, over
<1>4. [s EXCEPT !.notified = IF over > 0 THEN SubSeq(longer, over + 1, Len(longer)) ELSE longer]
        \in Store
  BY <1>3 DEF Store
<1> QED
  BY <1>4 DEF RecordNotified, Store, longer, over

\* The marks of the rows a delivery covered leave a store, the rows and the markers.
LEMMA RecordCoveredType ==
  ASSUME NEW s \in Store, NEW t \in Turns, NEW W
  PROVE  /\ RecordCovered(s, t, W) \in Store
         /\ RecordCovered(s, t, W).req = s.req
         /\ RecordCovered(s, t, W).delivering = s.delivering
<1> DEFINE put(u, w) == IF w \in W THEN RecordNotified(u, RowMark(t, w)) ELSE u
<1>1. \A w \in Row : RowMark(t, w) \in Mark
  BY DEF RowMark, Mark
<1>2. ASSUME NEW u \in Store, NEW w \in Row
      PROVE  /\ put(u, w) \in Store
             /\ put(u, w).req = u.req
             /\ put(u, w).delivering = u.delivering
  BY <1>1, RecordNotifiedType
<1> DEFINE a == put(s, "note")
           b == put(a, "text")
           c == put(b, "error")
           e == put(c, "closing")
<1>3. RecordCovered(s, t, W) = e
  BY DEF RecordCovered
<1> HIDE DEF put
<1>4. a \in Store /\ a.req = s.req /\ a.delivering = s.delivering
  BY <1>2 DEF Row
<1> HIDE DEF a
<1>5. b \in Store /\ b.req = a.req /\ b.delivering = a.delivering
  BY <1>2, <1>4 DEF Row
<1> HIDE DEF b
<1>6. c \in Store /\ c.req = b.req /\ c.delivering = b.delivering
  BY <1>2, <1>5 DEF Row
<1> HIDE DEF c
<1>7. e \in Store /\ e.req = c.req /\ e.delivering = c.delivering
  BY <1>2, <1>6 DEF Row
<1> QED
  BY <1>3, <1>4, <1>5, <1>6, <1>7

\* The delivery markers: taking one and giving it up touch nothing else.
LEMMA MarkerType ==
  ASSUME NEW s \in Store, NEW k \in Key
  PROVE  /\ BeginDelivery(s, k) \in Store
         /\ AbandonDelivery(s, k) \in Store
         /\ BeginDelivery(s, k).req = s.req
         /\ AbandonDelivery(s, k).req = s.req
         /\ BeginDelivery(s, k).notified = s.notified
         /\ AbandonDelivery(s, k).notified = s.notified
         /\ BeginDelivery(s, k).delivering = s.delivering \union {k}
         /\ AbandonDelivery(s, k).delivering = s.delivering \ {k}
  BY DEF BeginDelivery, AbandonDelivery, Store

\* `finish_delivery` leaves a store with the same rows, without the marker.
LEMMA FinishType ==
  ASSUME NEW s \in Store, NEW k \in Key
  PROVE  /\ FinishDelivery(s, k) \in Store
         /\ FinishDelivery(s, k).req = s.req
         /\ FinishDelivery(s, k).delivering = s.delivering \ {k}
<1>1. FinalMark(k) \in Mark
  BY DEF FinalMark, Mark, Key
<1> QED
  BY <1>1, MarkerType, RecordNotifiedType DEF FinishDelivery

\* What a write leaves on disk is a store.
LEMMA DurableType ==
  ASSUME NEW s \in Store
  PROVE  Durable(s) \in Store
<1>1. \A r \in Requests : [s.req[r] EXCEPT !.bindError = FALSE] \in Request
  BY DEF Store, Request
<1>2. [r \in Requests |-> [s.req[r] EXCEPT !.bindError = FALSE]] \in [Requests -> Request]
  BY <1>1
<1> QED
  BY <1>2, WithRowsType DEF Durable
=============================================================================
