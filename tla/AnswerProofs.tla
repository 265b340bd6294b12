---------------------------- MODULE AnswerProofs ----------------------------
(***************************************************************************)
(* No request ever reads answered behind its parent's back: NoSilentAnswer *)
(* holds of every behaviour, whatever crashes, faults, stops and releases  *)
(* it has.  NotNeither, its half for the inline waiters, holds until the   *)
(* write of a dropped call lands.  The inductive invariants are            *)
(* AnswerLedger, RememberInv (the mirror is not thrown away under a        *)
(* waiter) and QuietInv.  Then the file over time: with every write landed *)
(* under the claim and no detached stop Delegation implements              *)
(* CompletionContract on it (AgreeInv and ScanInv: its copies do not       *)
(* contradict each other), and an answer in it stays unless two deliveries *)
(* share a request or a late write lands (AnsInv).                         *)
(***************************************************************************)
EXTENDS DeliveryProofs, FiniteSetTheorems, WellFoundedInduction

\* n has the terms of q, or is gone.
Keeps(n, q) ==
  Present(n) => Present(q) /\ n.parent = q.parent /\ n.notify = q.notify

\* n keeps q's terms and claims no answer that q does not.
Weakens(n, q) ==
  /\ Keeps(n, q)
  /\ Answered(n) => Answered(q) /\ n.notified = q.notified

KeepsAll(s, u)   == \A r \in Requests : Keeps(s.req[r], u.req[r])
WeakensAll(s, u) == \A r \in Requests : Weakens(s.req[r], u.req[r])

-----------------------------------------------------------------------------
(* The operations on a store weaken it.                                    *)

\* A store weakens itself and any store with the same rows.
LEMMA SameRows ==
  ASSUME NEW s, NEW u, s.req = u.req
  PROVE  WeakensAll(s, u)
  BY DEF WeakensAll, Weakens, Keeps

\* Weakening is transitive.
LEMMA WeakensTrans ==
  ASSUME NEW s, NEW u, NEW v, WeakensAll(s, u), WeakensAll(u, v)
  PROVE  WeakensAll(s, v)
  BY DEF WeakensAll, Weakens, Keeps

\* The empty store, after a crash or a last drop, weakens any store.
LEMMA EmptyWeakens ==
  ASSUME NEW u
  PROVE  WeakensAll(EmptyStore, u)
  BY DEF EmptyStore, Absent, WeakensAll, Weakens, Keeps, Present, Answered

\* Removing rows weakens.
LEMMA WithoutWeakens ==
  ASSUME NEW s \in Store, NEW R
  PROVE  WeakensAll(Without(s, R), s)
<1>1. \A r \in Requests : Without(s, R).req[r] = IF r \in R THEN Absent ELSE s.req[r]
  BY DEF Without, Store
<1> QED
  BY <1>1 DEF WeakensAll, Weakens, Keeps, Absent, Present, Answered

\* What a write leaves on disk weakens what was written.
LEMMA DurableWeakens ==
  ASSUME NEW s \in Store
  PROVE  WeakensAll(Durable(s), s)
<1>1. \A r \in Requests : s.req[r] \in Request
  BY DEF Store
<1>2. \A r \in Requests : Durable(s).req[r] = [s.req[r] EXCEPT !.bindError = FALSE]
  BY DEF Durable, Store
<1> QED
  BY <1>1, <1>2 DEF WeakensAll, Weakens, Keeps, Request, Present, Answered

\* Moving the binding to a continuation turn weakens.
LEMMA RebindWeakens ==
  ASSUME NEW s \in Store, NEW from, NEW to
  PROVE  WeakensAll(RebindContinuation(s, from, to), s)
<1>1. \A r \in Requests : s.req[r] \in Request
  BY DEF Store
<1>2. \A r \in Requests : RebindContinuation(s, from, to).req[r] \in {s.req[r], [s.req[r] EXCEPT !.turn = to]}
  BY DEF RebindContinuation, Store
<1> QED
  BY <1>1, <1>2 DEF WeakensAll, Weakens, Keeps, Request, Present, Answered

\* Marking an open request as executing weakens.
LEMMA MarkExecutingWeakens ==
  ASSUME NEW s \in Store, NEW t
  PROVE  WeakensAll(MarkExecuting(s, t), s)
<1>1. \A r \in Requests : s.req[r] \in Request
  BY DEF Store
<1>2. \A r \in Requests :
        \/ MarkExecuting(s, t).req[r] = s.req[r]
        \/ /\ s.req[r].state \in {"accepted", "queued", "submitted"}
           /\ MarkExecuting(s, t).req[r] = [s.req[r] EXCEPT !.state = "executing"]
  BY DEF MarkExecuting, Store
<1> QED
  BY <1>1, <1>2 DEF WeakensAll, Weakens, Keeps, Request, Present, Answered

\* Repairing a binding from the transcript weakens.
LEMMA RepairWeakens ==
  ASSUME NEW read, NEW s \in Store
  PROVE  WeakensAll(Repair(read, s), s)
<1>1. \A r \in Requests : s.req[r] \in Request
  BY DEF Store
<1>2. \A q \in Request : Weakens(RepairRequest(read, q), q)
  <2> SUFFICES ASSUME NEW q \in Request PROVE Weakens(RepairRequest(read, q), q)
    OBVIOUS
  <2>1. \/ RepairRequest(read, q) = q
        \/ RepairRequest(read, q) = [q EXCEPT !.bindError = TRUE]
        \/ \E u : RepairRequest(read, q) = [q EXCEPT !.turn = u]
    BY DEF RepairRequest
  <2> QED
    BY <2>1 DEF Weakens, Keeps, Request, Present, Answered
<1>3. \A r \in Requests : Repair(read, s).req[r] = RepairRequest(read, s.req[r])
  BY DEF Repair, Store
<1> QED
  BY <1>1, <1>2, <1>3 DEF WeakensAll

\* Settling the requests of a stopped child weakens.
LEMMA SettledWeakens ==
  ASSUME store \in Store
  PROVE  WeakensAll(SettledStore, store)
<1>1. \A r \in Requests : store.req[r] \in Request
  BY DEF Store
<1>2. \A q \in Request : Weakens(StoppedRequest(q), q)
  BY DEF StoppedRequest, OpenState, Weakens, Keeps, Request, Present, Answered
<1>3. \A r \in Requests : SettledStore.req[r] = StoppedRequest(store.req[r])
  BY DEF SettledStore, Store
<1> QED
  BY <1>1, <1>2, <1>3 DEF WeakensAll

\* Binding a request that is there weakens.
LEMMA BoundWeakens ==
  ASSUME store \in Store, NEW r \in Requests, NEW failed, Present(store.req[r])
  PROVE  WeakensAll(BoundStore(r, failed), store)
<1> DEFINE q == store.req[r]
           e == failed \/ q.bindError
           b == BoundState(disp[r])
           n == [q EXCEPT !.turn = receipt[r], !.state = b, !.bindError = e]
<1>1. b \in {"queued", "executing", "submitted"}
  BY DEF BoundState
<1>2. q \in Request
  BY DEF Store
<1>3. BoundStore(r, failed) = [store EXCEPT !.req[r] = n]
  BY Zenon DEF BoundStore
<1>4. Present(q)
  OBVIOUS
<1> HIDE DEF e, b
<1>5. Weakens(n, q)
  BY <1>1, <1>2, <1>4 DEF Weakens, Keeps, Request, Present, Answered
<1> HIDE DEF n
<1>6. \A x \in Requests : BoundStore(r, failed).req[x] = IF x = r THEN n ELSE store.req[x]
  BY <1>3 DEF Store
<1> QED
  BY <1>5, <1>6 DEF WeakensAll, Weakens, Keeps

\* The terms survive what a commit does to the mirror.
LEMMA CommittedKeeps ==
  ASSUME store \in Store, NEW d \in Delivery
  PROVE  KeepsAll(CommittedStore(d), store)
<1>1. \A r \in Requests : store.req[r] \in Request
  BY DEF Store
<1>2. \A r \in Requests : CommittedStore(d).req[r] = ResolvedBy(d, r, store.req[r])
  BY CommittedStoreType
<1>3. ASSUME NEW r \in Requests, NEW q \in Request
      PROVE  Keeps(ResolvedBy(d, r, q), q)
  <2> DEFINE st == IF Failed(d) THEN "failed" ELSE "answered"
             b  == r \in d.pushed
  <2>1. \/ ResolvedBy(d, r, q) = Absent
        \/ ResolvedBy(d, r, q) = q
        \/ /\ q.state # "absent"
           /\ ResolvedBy(d, r, q) = [q EXCEPT !.state = st, !.answered = d.turn, !.notified = b]
    BY Zenon DEF ResolvedBy
  <2> HIDE DEF st, b
  <2>2. CASE ResolvedBy(d, r, q) = Absent
    BY <2>2 DEF Keeps, Absent, Present
  <2>3. CASE ResolvedBy(d, r, q) = q
    BY <2>3 DEF Keeps
  <2>4. CASE /\ q.state # "absent"
             /\ ResolvedBy(d, r, q) = [q EXCEPT !.state = st, !.answered = d.turn, !.notified = b]
    BY <2>4 DEF Keeps, Present, Request
  <2> QED
    BY <2>1, <2>2, <2>3, <2>4
<1> QED
  BY <1>1, <1>2, <1>3 DEF KeepsAll

-----------------------------------------------------------------------------
(* What a step must do to the copies to keep the ledger.                   *)

\* s claims nothing that some copy of the present state does not.
Covered(s) == \E u \in Copies : WeakensAll(s, u)

\* Every copy covers itself, and what weakens a covered store is covered.
LEMMA CoveredCopies ==
  /\ \A s \in Copies : Covered(s)
  /\ \A s, u : Covered(u) /\ WeakensAll(s, u) => Covered(s)
<1>1. \A s \in Copies : Covered(s)
  BY SameRows DEF Covered
<1>2. \A s, u : Covered(u) /\ WeakensAll(s, u) => Covered(s)
  BY WeakensTrans DEF Covered
<1> QED
  BY <1>1, <1>2

\* A write of a covered store, landed or failed, leaves a covered file.
LEMMA PersistCovered ==
  ASSUME NEW s \in Store, Covered(s), PersistOk(s) \/ PersistFail \/ UNCHANGED disk
  PROVE  Covered(disk')
<1>1. Covered(Durable(s))
  BY DurableWeakens, CoveredCopies
<1>2. Covered(disk)
  BY CoveredCopies DEF Copies
<1> QED
  BY <1>1, <1>2 DEF PersistOk, PersistFail

\* The copies of the next state are the ones named.
LEMMA CopiesNext ==
  ASSUME NEW s \in Copies'
  PROVE  \/ s \in {disk', store', draft', saved', scan'.store} \/ s \in flush'
         \/ \E w \in late' : s = w.store
  BY DEF Copies

\* TermsKept survives a step whose copies keep the terms of copies.
LEMMA TermsFrame ==
  ASSUME TermsKept,
         \A s \in Copies' : \E u \in Copies : KeepsAll(s, u),
         \A r \in Requests : disp'[r] = "new" => disp[r] = "new",
         \A d \in inflight' : \A r \in d.resolved \intersect Requests : disp[r] # "new",
         waits' \subseteq wants'
  PROVE  TermsKept'
<1>1. \A s \in Copies' : \A r \in Requests : Present(s.req[r]) => s.req[r].parent \in Parents
  BY DEF TermsKept, KeepsAll, Keeps
<1>2. \A s, u \in Copies' : \A r \in Requests :
        Present(s.req[r]) /\ Present(u.req[r]) => s.req[r].notify = u.req[r].notify
  <2> SUFFICES ASSUME NEW s \in Copies', NEW u \in Copies', NEW r \in Requests,
                      Present(s.req[r]), Present(u.req[r])
               PROVE  s.req[r].notify = u.req[r].notify
    OBVIOUS
  <2>1. PICK x \in Copies : KeepsAll(s, x)
    OBVIOUS
  <2>2. PICK y \in Copies : KeepsAll(u, y)
    OBVIOUS
  <2> QED
    BY <2>1, <2>2 DEF KeepsAll, Keeps, TermsKept
<1>3. ASSUME NEW r \in Requests, disp'[r] = "new"
      PROVE  /\ \A s \in Copies' : ~Present(s.req[r])
             /\ \A d \in inflight' : r \notin d.resolved
  <2>1. disp[r] = "new"
    BY <1>3
  <2>2. \A s \in Copies' : ~Present(s.req[r])
    BY <2>1 DEF TermsKept, KeepsAll, Keeps
  <2> QED
    BY <2>1, <2>2
<1> QED
  BY <1>1, <1>2, <1>3 DEF TermsKept

\* What a delivery says of a request stays true in a step that keeps the terms.
LEMMA CarryFrame ==
  ASSUME NEW d \in inflight, DeliveriesCarry,
         \A s \in Copies' : \E u \in Copies : KeepsAll(s, u),
         wants \subseteq wants', everTold \subseteq everTold',
         NEW r \in d.resolved, r \in Requests
  PROVE  IF r \in d.pushed
         THEN r \in everTold' \/ r \in d.dropped \/ \E p \in Parents : r \in d.carry[p]
         ELSE r \in wants' \/ \A s \in Copies' : Present(s.req[r]) => s.req[r].notify = "off"
<1>1. CASE r \in d.pushed
  BY <1>1 DEF DeliveriesCarry
<1>2. CASE r \notin d.pushed
  <2>1. r \in wants \/ \A s \in Copies : Present(s.req[r]) => s.req[r].notify = "off"
    BY <1>2 DEF DeliveriesCarry
  <2>2. ASSUME \A s \in Copies : Present(s.req[r]) => s.req[r].notify = "off", NEW s \in Copies',
               Present(s.req[r])
        PROVE  s.req[r].notify = "off"
    BY <2>2 DEF KeepsAll, Keeps
  <2> QED
    BY <1>2, <2>1, <2>2
<1> QED
  BY <1>1, <1>2

\* The answers stay accounted for in a step whose copies weaken copies.
LEMMA AnswersFrame ==
  ASSUME AnswersAccounted,
         \A s \in Copies' : \E u \in Copies : WeakensAll(s, u),
         wants \subseteq wants', everTold \subseteq everTold'
  PROVE  AnswersAccounted'
<1> SUFFICES ASSUME NEW s \in Copies', NEW r \in Requests, Answered(s.req[r])
             PROVE  IF s.req[r].notified THEN r \in everTold' ELSE s.req[r].notify = "off" \/ r \in wants'
  BY DEF AnswersAccounted, AccountedFor
<1>1. PICK u \in Copies : WeakensAll(s, u)
  OBVIOUS
<1>2. Present(s.req[r])
  BY DEF Answered, Present
<1>3. /\ Answered(u.req[r]) /\ s.req[r].notified = u.req[r].notified
      /\ s.req[r].notify = u.req[r].notify
  BY <1>1, <1>2 DEF WeakensAll, Weakens, Keeps
<1>4. IF u.req[r].notified THEN r \in everTold ELSE u.req[r].notify = "off" \/ r \in wants
  BY <1>3 DEF AnswersAccounted, AccountedFor
<1> QED
  BY <1>3, <1>4

\* The step only weakens the copies, and plans nothing.
OnlyWeakens ==
  /\ Covered(disk') /\ Covered(store') /\ Covered(draft') /\ Covered(saved') /\ Covered(scan'.store)
  /\ (\A s \in flush' : Covered(s)) /\ (\A w \in late' : Covered(w.store))
  /\ \A r \in Requests : disp'[r] = "new" => disp[r] = "new"
  /\ inflight' \subseteq inflight
  /\ waits' \subseteq wants' /\ wants \subseteq wants' /\ everTold \subseteq everTold'

\* Every copy then weakens a copy.
LEMMA WeakensCopies ==
  ASSUME OnlyWeakens
  PROVE  \A s \in Copies' : \E u \in Copies : WeakensAll(s, u)
  BY CopiesNext DEF Covered, OnlyWeakens

\* Together: such a step keeps the ledger.
LEMMA LedgerFrame ==
  ASSUME TypeOK, AnswerLedger, OnlyWeakens
  PROVE  AnswerLedger'
<1> USE DEF OnlyWeakens
<1>1. \A s \in Copies' : \E u \in Copies : WeakensAll(s, u)
  BY WeakensCopies
<1>2. \A s \in Copies' : \E u \in Copies : KeepsAll(s, u)
  BY <1>1 DEF WeakensAll, Weakens, KeepsAll
<1>3. \A d \in inflight' : \A r \in d.resolved \intersect Requests : disp[r] # "new"
  BY DEF AnswerLedger, TermsKept
<1>4. TermsKept'
  BY <1>2, <1>3, TermsFrame DEF AnswerLedger
<1>5. AnswersAccounted'
  BY <1>1, AnswersFrame DEF AnswerLedger
<1>6. DeliveriesCarry'
  <2> SUFFICES ASSUME NEW d \in inflight', NEW r \in d.resolved
               PROVE  IF r \in d.pushed
                      THEN r \in everTold' \/ r \in d.dropped \/ \E p \in Parents : r \in d.carry[p]
                      ELSE r \in wants' \/ \A s \in Copies' : Present(s.req[r]) => s.req[r].notify = "off"
    BY DEF DeliveriesCarry
  <2>1. d \in inflight /\ r \in Requests
    BY DEF TypeOK, Delivery
  <2> QED
    BY <1>2, <2>1, CarryFrame DEF AnswerLedger
<1> QED
  BY <1>4, <1>5, <1>6 DEF AnswerLedger

-----------------------------------------------------------------------------
(* The steps.                                                              *)

\* What a step leaves alone is covered.
LEMMA CoveredNow ==
  /\ Covered(disk) /\ Covered(store) /\ Covered(draft) /\ Covered(saved) /\ Covered(scan.store)
  /\ (\A s \in flush : Covered(s)) /\ (\A w \in late : Covered(w.store))
  /\ Covered(EmptyStore)
<1>1. Covered(EmptyStore)
  BY EmptyWeakens DEF Covered, Copies
<1> QED
  BY <1>1, CoveredCopies DEF Copies

\* Nothing is answered or told yet.
LEMMA LedgerInit == Init => AnswerLedger
<1> SUFFICES ASSUME Init PROVE AnswerLedger
  OBVIOUS
<1>1. Copies = {EmptyStore}
  BY DEF Init, Copies, NoScan
<1>2. \A r \in Requests : ~Present(EmptyStore.req[r]) /\ ~Answered(EmptyStore.req[r])
  BY DEF EmptyStore, Absent, Present, Answered
<1> QED
  BY <1>1, <1>2 DEF Init, AnswerLedger, TermsKept, DeliveriesCarry, AnswersAccounted, AccountedFor

\* A request is accepted: one more copy, with its row, in the file or on its way.
TakesRow(r, p, n) ==
  /\ disp[r] = "new"
  /\ \A s \in Copies' : s = Accept(disk, r, p, n) \/ s \in Copies
  /\ UNCHANGED <<inflight, waits, everTold>> /\ wants \subseteq wants'
  /\ \A q \in Requests : disp'[q] = "new" => disp[q] = "new" /\ q # r

\* Whether the accept is written or its write outlives it.
LEMMA AcceptTakesRow ==
  ASSUME TypeOK, NEW r \in Requests, NEW p, NEW n
  PROVE  (\E w : AcceptWrite(r, p, n, w)) \/ AcceptOutlives(r, p, n) => TakesRow(r, p, n)
<1> USE DEF vendorVars, mirrorVars, dispVars, dlvVars, toldVars
<1>1. ASSUME NEW w, AcceptWrite(r, p, n, w)
      PROVE  TakesRow(r, p, n)
  <2>1. \A s \in Copies' : s = Accept(disk, r, p, n) \/ s \in Copies
    BY <1>1 DEF AcceptWrite, Copies
  <2> QED
    BY <1>1, <2>1 DEF AcceptWrite, TypeOK, TakesRow
<1>2. CASE AcceptOutlives(r, p, n)
  <2>1. \A s \in Copies' : s = Accept(disk, r, p, n) \/ s \in Copies
    BY <1>2 DEF AcceptOutlives, Outlives, Copies
  <2> QED
    BY <1>2, <2>1 DEF AcceptOutlives, CallGone, TypeOK, TakesRow
<1> QED
  BY <1>1, <1>2

\* Accepting a request adds a row no other copy has.
LEMMA LedgerAccept ==
  ASSUME TypeOK, AnswerLedger, NEW r \in Requests, NEW p \in Parents, NEW n \in Notifies,
         TakesRow(r, p, n)
  PROVE  AnswerLedger'
<1> USE DEF vendorVars, mirrorVars, dispVars, dlvVars, toldVars
<1> DEFINE s0 == [disk EXCEPT !.req[r] = Accepted(p, n)]
           s  == Accept(disk, r, p, n)
<1>1. s0 \in Store
  <2>1. Accepted(p, n) \in Request
    BY NotifiesAssumption DEF Accepted, Request, OpenState
  <2> QED
    BY <2>1, WithRowType DEF TypeOK
<1>2. WeakensAll(s, s0)
  BY <1>1, WithoutWeakens DEF Accept, Prune
<1>3. \A q \in Requests : s0.req[q] = IF q = r THEN Accepted(p, n) ELSE disk.req[q]
  BY DEF TypeOK, Store
<1>4. \A q \in Requests : q # r => Weakens(s.req[q], disk.req[q])
  BY <1>2, <1>3 DEF WeakensAll
<1>5. /\ Present(s.req[r]) => s.req[r].parent = p /\ s.req[r].notify = n
      /\ ~Answered(s.req[r])
  <2>1. Weakens(s.req[r], Accepted(p, n))
    BY <1>2, <1>3 DEF WeakensAll
  <2> QED
    BY <2>1 DEF Weakens, Keeps, Accepted, Answered
<1> HIDE DEF s, s0
<1>6. disp[r] = "new"
  BY DEF TakesRow
<1>7. /\ \A u \in Copies : ~Present(u.req[r])
      /\ \A d \in inflight : r \notin d.resolved
  BY <1>6 DEF AnswerLedger, TermsKept
<1>8. \A u \in Copies' : u # s => u \in Copies
  BY DEF TakesRow, s
<1>9. disk \in Copies
  BY DEF Copies
<1>10. \A u \in Copies' : \A q \in Requests : q # r =>
         \E v \in Copies : Weakens(u.req[q], v.req[q])
  <2>1. \A v : \A q : Weakens(v.req[q], v.req[q])
    BY DEF Weakens, Keeps
  <2> QED
    BY <1>4, <1>8, <1>9, <2>1
<1>11. \A u \in Copies' : u # s => ~Present(u.req[r])
  BY <1>7, <1>8
<1>12. /\ UNCHANGED <<inflight, waits, everTold>> /\ wants \subseteq wants'
       /\ \A q \in Requests : disp'[q] = "new" => disp[q] = "new" /\ q # r
  BY DEF TakesRow
<1>13. TermsKept'
  <2>1. \A u \in Copies' : \A q \in Requests : Present(u.req[q]) => u.req[q].parent \in Parents
    BY <1>5, <1>10, <1>11 DEF AnswerLedger, TermsKept, Weakens, Keeps
  <2>2. \A u, v \in Copies' : \A q \in Requests :
          Present(u.req[q]) /\ Present(v.req[q]) => u.req[q].notify = v.req[q].notify
    <3> SUFFICES ASSUME NEW u \in Copies', NEW v \in Copies', NEW q \in Requests,
                        Present(u.req[q]), Present(v.req[q])
                 PROVE  u.req[q].notify = v.req[q].notify
      OBVIOUS
    <3>1. CASE q = r
      BY <1>11, <3>1
    <3>2. CASE q # r
      <4>1. PICK x \in Copies : Weakens(u.req[q], x.req[q])
        BY <1>10, <3>2
      <4>2. PICK y \in Copies : Weakens(v.req[q], y.req[q])
        BY <1>10, <3>2
      <4> QED
        BY <4>1, <4>2 DEF AnswerLedger, TermsKept, Weakens, Keeps
    <3> QED
      BY <3>1, <3>2
  <2>3. \A q \in Requests : disp'[q] = "new" =>
          /\ \A u \in Copies' : ~Present(u.req[q])
          /\ \A d \in inflight' : q \notin d.resolved
    BY <1>10, <1>12 DEF AnswerLedger, TermsKept, Weakens, Keeps
  <2> QED
    BY <1>12, <2>1, <2>2, <2>3 DEF AnswerLedger, TermsKept
<1>14. DeliveriesCarry'
  <2> SUFFICES ASSUME NEW d \in inflight', NEW q \in d.resolved
               PROVE  IF q \in d.pushed
                      THEN q \in everTold' \/ q \in d.dropped \/ \E x \in Parents : q \in d.carry[x]
                      ELSE q \in wants' \/ \A u \in Copies' : Present(u.req[q]) => u.req[q].notify = "off"
    BY DEF DeliveriesCarry
  <2>1. d \in inflight /\ q \in Requests /\ q # r
    BY <1>7, <1>12 DEF TypeOK, Delivery
  <2>2. CASE q \in d.pushed
    BY <1>12, <2>1, <2>2 DEF AnswerLedger, DeliveriesCarry
  <2>3. CASE q \notin d.pushed
    <3>1. q \in wants \/ \A u \in Copies : Present(u.req[q]) => u.req[q].notify = "off"
      BY <2>1, <2>3 DEF AnswerLedger, DeliveriesCarry
    <3>2. ASSUME \A u \in Copies : Present(u.req[q]) => u.req[q].notify = "off",
                 NEW u \in Copies', Present(u.req[q])
          PROVE  u.req[q].notify = "off"
      BY <1>10, <2>1, <3>2 DEF Weakens, Keeps
    <3> QED
      BY <1>12, <2>3, <3>1, <3>2
  <2> QED
    BY <2>2, <2>3
<1>15. AnswersAccounted'
  <2> SUFFICES ASSUME NEW u \in Copies', NEW q \in Requests, Answered(u.req[q])
               PROVE  IF u.req[q].notified THEN q \in everTold'
                      ELSE u.req[q].notify = "off" \/ q \in wants'
    BY DEF AnswersAccounted, AccountedFor
  <2>1. Present(u.req[q])
    BY DEF Answered, Present
  <2>2. q # r
    BY <1>5, <1>11, <2>1
  <2>3. PICK v \in Copies : Weakens(u.req[q], v.req[q])
    BY <1>10, <2>2
  <2>4. /\ Answered(v.req[q]) /\ u.req[q].notified = v.req[q].notified
        /\ u.req[q].notify = v.req[q].notify
    BY <2>1, <2>3 DEF Weakens, Keeps
  <2>5. IF v.req[q].notified THEN q \in everTold ELSE v.req[q].notify = "off" \/ q \in wants
    BY <2>4 DEF AnswerLedger, AnswersAccounted, AccountedFor
  <2> QED
    BY <1>12, <2>4, <2>5
<1> QED
  BY <1>13, <1>14, <1>15 DEF AnswerLedger

\* A row dropped leaves a covered mirror.
LEMMA DropRowCovered ==
  ASSUME TypeOK, NEW r \in Requests, DropRow(r)
  PROVE  Covered(store')
<1>1. Covered(Without(store, {r}))
  BY WithoutWeakens, CoveredCopies, CoveredNow DEF TypeOK
<1> QED
  BY <1>1, DropRowShrinks, CoveredNow

\* What a parent asks of the child.
Accepts == \E r \in Requests, p \in Parents, n \in Notifies : TakesRow(r, p, n)

\* The dispatchers only weaken the copies, but for the row they accept.
LEMMA WeakensDispatch == TypeOK /\ TermsKept /\ DispatchNext => OnlyWeakens \/ Accepts
<1> USE DEF vendorVars, mirrorVars, dispVars, dlvVars, toldVars
<1> SUFFICES ASSUME TypeOK, TermsKept, NEW r \in Requests,
                    \/ \E p \in Parents, n \in Notifies, w \in Waiting : AcceptWrite(r, p, n, w)
                    \/ AcceptCommit(r) \/ AcceptRollback(r)
                    \/ \E t \in Turns : SubmitStarted(r, t) \/ SubmitInjected(r, t) \/ SubmitQueued(r, t)
                    \/ SubmitFail(r) \/ Bind(r) \/ Cancel(r)
                    \/ WaitClaimLapses(r) \/ WaiterReleases(r) \/ WaiterReads(r)
             PROVE  OnlyWeakens \/ Accepts
  BY DEF DispatchNext
<1>0. waits \subseteq wants
  BY DEF TermsKept
<1>1. ASSUME NEW p \in Parents, NEW n \in Notifies, NEW w \in Waiting, AcceptWrite(r, p, n, w)
      PROVE  Accepts
  BY <1>1, AcceptTakesRow DEF Accepts
<1>2. CASE AcceptCommit(r)
  BY <1>0, <1>2, CoveredNow DEF OnlyWeakens, TypeOK, AcceptCommit
<1>3. CASE AcceptRollback(r)
  BY <1>0, <1>3, CoveredNow DEF OnlyWeakens, TypeOK, AcceptRollback, PersistFail
<1>4. ASSUME NEW t \in Turns, SubmitStarted(r, t) \/ SubmitInjected(r, t) \/ SubmitQueued(r, t)
      PROVE  OnlyWeakens
  BY <1>0, <1>4, CoveredNow DEF OnlyWeakens, TypeOK, SubmitStarted, SubmitInjected, SubmitQueued
<1>5. CASE SubmitFail(r)
  <2>1. DropRow(r) /\ Persist(store')
    BY <1>5 DEF SubmitFail
  <2>2. store' \in Store /\ Covered(store') /\ waits' \subseteq waits
    BY <2>1, DropRowType, DropRowShrinks, DropRowCovered
  <2>3. Covered(disk')
    BY <2>1, <2>2, PersistCovered DEF Persist
  <2>4. /\ UNCHANGED <<saved, draft, scan, flush, late, inflight, wants, everTold>>
        /\ \A q \in Requests : disp'[q] = "new" => disp[q] = "new"
    BY <1>5 DEF SubmitFail, TypeOK
  <2> QED
    BY <1>0, <2>2, <2>3, <2>4, CoveredNow DEF OnlyWeakens
<1>6. CASE Bind(r)
  <2>1. Present(store.req[r])
    BY <1>6 DEF Bind, Present
  <2>2. \A e \in BOOLEAN : BoundStore(r, e) \in Store /\ Covered(BoundStore(r, e))
    BY <2>1, BoundStoreType, BoundWeakens, CoveredCopies, CoveredNow DEF TypeOK
  <2>3. Covered(disk') /\ Covered(store')
    BY <1>6, <2>2, PersistCovered DEF Bind
  <2> QED
    BY <1>0, <1>6, <2>3, CoveredNow DEF OnlyWeakens, TypeOK, Bind
<1>7. CASE Cancel(r)
  BY <1>0, <1>7, CoveredNow DEF OnlyWeakens, TypeOK, Cancel
<1>8. CASE WaitClaimLapses(r) \/ WaiterReleases(r) \/ WaiterReads(r)
  BY <1>0, <1>8, CoveredNow DEF OnlyWeakens, TypeOK, WaitClaimLapses, WaiterReleases, WaiterReads
<1> QED
  BY <1>1, <1>2, <1>3, <1>4, <1>5, <1>6, <1>7, <1>8

\* The dispatchers' steps keep the ledger.
LEMMA LedgerDispatch == TypeOK /\ AnswerLedger /\ DispatchNext => AnswerLedger'
  BY WeakensDispatch, LedgerFrame, LedgerAccept DEF Accepts, AnswerLedger

\* The vendor's steps touch no copy.
LEMMA WeakensVendor == TypeOK /\ TermsKept /\ VendorNext => OnlyWeakens
<1> USE DEF vendorVars, mirrorVars, dispVars, dlvVars, toldVars
<1> SUFFICES ASSUME TypeOK, TermsKept, VendorNext
             PROVE  OnlyWeakens
  OBVIOUS
<1>0. waits \subseteq wants
  BY DEF TermsKept
<1>1. UNCHANGED <<disk, store, draft, saved, scan, flush, late, disp, inflight, waits, wants, everTold>>
  BY DEF VendorNext, HumanTurn, OpenParked, OpenContinuation, TurnOpens, Narrate, TurnEnds, FailTurn,
         EndTurn, EndTurnReleased, EndTurnUnrecorded
<1> QED
  BY <1>0, <1>1, CoveredNow DEF OnlyWeakens

\* The vendor's steps keep the ledger.
LEMMA LedgerVendor == TypeOK /\ AnswerLedger /\ VendorNext => AnswerLedger'
  BY WeakensVendor, LedgerFrame DEF AnswerLedger

\* Planning a delivery: whoever it does not push to asked for that or waits.
LEMMA LedgerPlan ==
  ASSUME TypeOK, AnswerLedger, NEW d \in due, Plan(d)
  PROVE  AnswerLedger'
<1> USE DEF vendorVars, mirrorVars, dispVars, dlvVars, toldVars
<1> DEFINE s == BeginDelivery(store, KeyOf(d))
           e == PlannedDelivery(d)
<1>1. KeyOf(d) \in Key
  BY KeyOfType DEF TypeOK, DueBoundary
<1>2. s \in Store /\ WeakensAll(s, store)
  BY <1>1, MarkerType, SameRows DEF TypeOK
<1>3. WeakensAll(Durable(s), store)
  BY <1>2, DurableWeakens, WeakensTrans
<1>4. store \in Copies
  BY DEF Copies
<1>5. Copies' = {Durable(s), s, draft, saved, scan.store} \union flush \union {w.store : w \in late}
  BY DEF Plan, PersistOk, Copies
<1>6. \A u \in Copies' : \E v \in Copies : WeakensAll(u, v)
  BY <1>2, <1>3, <1>4, <1>5, SameRows DEF Copies
<1>7. \A u \in Copies' : \E v \in Copies : KeepsAll(u, v)
  BY <1>6 DEF WeakensAll, Weakens, KeepsAll
<1>8. /\ UNCHANGED <<disp, waits, wants, everTold>>
      /\ inflight' = inflight \union {e}
  BY DEF Plan
<1>9. /\ e.resolved = BoundTo(store, d.turn)
      /\ e.pushed = {r \in BoundTo(store, d.turn) : store.req[r].notify # "off" /\ r \notin waits}
      /\ \A p \in Parents : e.carry[p] = {r \in e.pushed : store.req[r].parent = p}
  BY DEF PlannedDelivery
<1>10. \A r \in e.resolved : r \in Requests /\ Present(store.req[r])
  BY <1>9 DEF BoundTo, Outstanding, OpenState, Present
<1> HIDE DEF s, e
<1>11. TermsKept'
  <2>1. \A x \in inflight' : \A r \in x.resolved \intersect Requests : disp[r] # "new"
    BY <1>4, <1>8, <1>10 DEF AnswerLedger, TermsKept
  <2> QED
    BY <1>7, <1>8, <2>1, TermsFrame DEF AnswerLedger, TermsKept
<1>12. AnswersAccounted'
  BY <1>6, <1>8, AnswersFrame DEF AnswerLedger
<1>13. DeliveriesCarry'
  <2> SUFFICES ASSUME NEW x \in inflight', NEW r \in x.resolved
               PROVE  IF r \in x.pushed
                      THEN r \in everTold' \/ r \in x.dropped \/ \E p \in Parents : r \in x.carry[p]
                      ELSE r \in wants' \/ \A u \in Copies' : Present(u.req[r]) => u.req[r].notify = "off"
    BY DEF DeliveriesCarry
  <2>1. CASE x \in inflight
    <3>1. r \in Requests
      BY <2>1 DEF TypeOK, Delivery
    <3> QED
      BY <1>7, <1>8, <2>1, <3>1, CarryFrame DEF AnswerLedger
  <2>2. CASE x = e /\ r \in e.pushed
    <3>1. store.req[r].parent \in Parents
      BY <1>4, <1>10, <2>2 DEF AnswerLedger, TermsKept
    <3> QED
      BY <1>9, <2>2, <3>1
  <2>3. CASE x = e /\ r \notin e.pushed
    <3>1. r \in Requests /\ Present(store.req[r]) /\ (store.req[r].notify = "off" \/ r \in waits)
      BY <1>9, <1>10, <2>3
    <3>2. ASSUME store.req[r].notify = "off", NEW u \in Copies', Present(u.req[r])
          PROVE  u.req[r].notify = "off"
      <4>1. PICK v \in Copies : KeepsAll(u, v)
        BY <1>7
      <4> QED
        BY <1>4, <3>1, <3>2, <4>1 DEF KeepsAll, Keeps, AnswerLedger, TermsKept
    <3>3. r \in waits => r \in wants'
      BY <1>8 DEF AnswerLedger, TermsKept
    <3> QED
      BY <2>3, <3>1, <3>2, <3>3
  <2> QED
    BY <1>8, <2>1, <2>2, <2>3
<1> QED
  BY <1>11, <1>12, <1>13 DEF AnswerLedger

\* Telling a parent, or finding that it cannot be told, moves what a delivery carries.
LEMMA LedgerNotify ==
  ASSUME TypeOK, AnswerLedger, NEW d \in inflight, NEW p \in Parents,
         NotifyParent(d, p) \/ ParentUnreachable(d, p)
  PROVE  AnswerLedger'
<1> USE DEF vendorVars, mirrorVars, dispVars, dlvVars, toldVars
<1>1. d \in Delivery
  BY DEF TypeOK
<1>2. PICK e : /\ inflight' = (inflight \ {d}) \union {e}
               /\ e.resolved = d.resolved /\ e.pushed = d.pushed
               /\ \A r : r \in d.dropped => r \in e.dropped
               /\ \A x \in Parents : x # p => e.carry[x] = d.carry[x]
               /\ \A r \in d.carry[p] : r \in everTold' \/ r \in e.dropped
  <2>1. CASE NotifyParent(d, p)
    <3> DEFINE e == [d EXCEPT !.carry[p] = {}]
    <3>1. /\ inflight' = (inflight \ {d}) \union {e}
          /\ \A r \in d.carry[p] : r \in everTold'
      BY <2>1 DEF NotifyParent
    <3>2. /\ e.resolved = d.resolved /\ e.pushed = d.pushed /\ e.dropped = d.dropped
          /\ \A x \in Parents : x # p => e.carry[x] = d.carry[x]
      BY <1>1 DEF Delivery
    <3> QED
      BY <3>1, <3>2
  <2>2. CASE ParentUnreachable(d, p)
    <3> DEFINE e == [d EXCEPT !.carry[p] = {}, !.dropped = @ \union d.carry[p]]
    <3>1. inflight' = (inflight \ {d}) \union {e}
      BY <2>2 DEF ParentUnreachable
    <3>2. /\ e.resolved = d.resolved /\ e.pushed = d.pushed /\ e.dropped = d.dropped \union d.carry[p]
          /\ \A x \in Parents : x # p => e.carry[x] = d.carry[x]
      BY <1>1 DEF Delivery
    <3> QED
      BY <3>1, <3>2
  <2> QED
    BY <2>1, <2>2
<1>3. /\ UNCHANGED <<disk, store, draft, saved, scan, flush, late, disp, waits, wants>>
      /\ everTold \subseteq everTold'
  BY DEF NotifyParent, ParentUnreachable
<1>4. Copies' = Copies
  BY <1>3 DEF Copies
<1>5. TermsKept'
  BY <1>2, <1>3, <1>4 DEF AnswerLedger, TermsKept
<1>6. AnswersAccounted'
  BY <1>3, <1>4 DEF AnswerLedger, AnswersAccounted, AccountedFor
<1>7. DeliveriesCarry'
  <2> SUFFICES ASSUME NEW x \in inflight', NEW r \in x.resolved
               PROVE  IF r \in x.pushed
                      THEN r \in everTold' \/ r \in x.dropped \/ \E y \in Parents : r \in x.carry[y]
                      ELSE r \in wants \/ \A u \in Copies : Present(u.req[r]) => u.req[r].notify = "off"
    BY <1>3, <1>4 DEF DeliveriesCarry
  <2>1. CASE x \in inflight
    BY <1>3, <2>1 DEF AnswerLedger, DeliveriesCarry
  <2>2. CASE x = e
    <3>1. CASE r \in e.pushed
      <4>1. r \in everTold \/ r \in d.dropped \/ \E y \in Parents : r \in d.carry[y]
        BY <1>2, <2>2, <3>1 DEF AnswerLedger, DeliveriesCarry
      <4>2. ASSUME NEW y \in Parents, r \in d.carry[y]
            PROVE  r \in everTold' \/ r \in e.dropped \/ r \in e.carry[y]
        BY <1>2, <4>2
      <4> QED
        BY <1>2, <1>3, <2>2, <3>1, <4>1, <4>2
    <3>2. CASE r \notin e.pushed
      BY <1>2, <2>2, <3>2 DEF AnswerLedger, DeliveriesCarry
    <3> QED
      BY <3>1, <3>2
  <2> QED
    BY <1>2, <2>1, <2>2
<1> QED
  BY <1>5, <1>6, <1>7 DEF AnswerLedger

\* A commit makes answered what its parents were told of, or need not be.
LEMMA LedgerCommit ==
  ASSUME TypeOK, AnswerLedger, NEW d \in inflight, Commit(d)
  PROVE  AnswerLedger'
<1> USE DEF vendorVars, mirrorVars, dispVars, dlvVars, toldVars
<1> DEFINE s == CommittedStore(d)
<1>1. d \in Delivery /\ store \in Store
  BY DEF TypeOK
<1>2. s \in Store /\ \A r \in Requests : s.req[r] = ResolvedBy(d, r, store.req[r])
  BY <1>1, CommittedStoreType
<1>3. KeepsAll(s, store)
  BY <1>1, CommittedKeeps
<1>4. WeakensAll(Durable(s), s)
  BY <1>2, DurableWeakens
<1>5. KeepsAll(Durable(s), store)
  BY <1>3, <1>4 DEF KeepsAll, Keeps, WeakensAll, Weakens
<1>6. ASSUME NEW r \in Requests
      PROVE  AccountedFor(s.req[r], r)
  <2> DEFINE q  == store.req[r]
             st == IF Failed(d) THEN "failed" ELSE "answered"
             b  == r \in d.pushed
             n  == [q EXCEPT !.state = st, !.answered = d.turn, !.notified = b]
  <2>1. store \in Copies /\ q \in Request
    BY <1>1 DEF Copies, Store
  <2>2. \/ ResolvedBy(d, r, q) = Absent
        \/ ResolvedBy(d, r, q) = q
        \/ /\ r \notin d.dropped /\ r \in d.resolved /\ q.state # "absent"
           /\ ResolvedBy(d, r, q) = n
    BY Zenon DEF ResolvedBy
  <2>3. CASE ResolvedBy(d, r, q) = Absent
    BY <1>2, <2>3 DEF AccountedFor, Answered, Absent
  <2>4. CASE ResolvedBy(d, r, q) = q
    BY <1>2, <2>1, <2>4 DEF AnswerLedger, AnswersAccounted
  <2>5. CASE /\ r \notin d.dropped /\ r \in d.resolved /\ q.state # "absent"
             /\ ResolvedBy(d, r, q) = n
    <3>1. \A y \in Parents : d.carry[y] = {}
      BY DEF Commit, AllTold
    <3>2. IF b THEN r \in everTold ELSE r \in wants \/ q.notify = "off"
      BY <2>1, <2>5, <3>1 DEF AnswerLedger, DeliveriesCarry, Present
    <3>3. b \in BOOLEAN
      OBVIOUS
    <3>4. s.req[r] = n
      BY <1>2, <2>5
    <3> HIDE DEF b, st
    <3>5. n.notified = b /\ n.notify = q.notify
      BY <2>1, <3>3 DEF Request
    <3> QED
      BY <3>2, <3>4, <3>5 DEF AccountedFor
  <2> QED
    BY <2>2, <2>3, <2>4, <2>5
<1>7. ASSUME NEW r \in Requests
      PROVE  AccountedFor(Durable(s).req[r], r)
  <2>1. Weakens(Durable(s).req[r], s.req[r])
    BY <1>4 DEF WeakensAll
  <2>2. Answered(Durable(s).req[r]) => Present(Durable(s).req[r])
    BY DEF Answered, Present
  <2> QED
    BY <1>6, <2>1, <2>2 DEF AccountedFor, Weakens, Keeps
<1>8. /\ UNCHANGED <<draft, saved, scan, flush, late, disp, waits, wants, everTold>>
      /\ inflight' \subseteq inflight
      /\ store' = s /\ disk' \in {Durable(s), disk}
  BY DEF Commit, Persist, PersistOk, PersistFail
<1> HIDE DEF s
<1>9. \A u \in Copies' : u = s \/ u = Durable(s) \/ u \in Copies
  BY <1>8 DEF Copies
<1>10. \A u \in Copies' : \E v \in Copies : KeepsAll(u, v)
  <2>1. \A u : KeepsAll(u, u)
    BY DEF KeepsAll, Keeps
  <2>2. store \in Copies
    BY DEF Copies
  <2> QED
    BY <1>3, <1>5, <1>9, <2>1, <2>2
<1>11. TermsKept'
  <2>1. \A x \in inflight' : \A r \in x.resolved \intersect Requests : disp[r] # "new"
    BY <1>8 DEF AnswerLedger, TermsKept
  <2> QED
    BY <1>8, <1>10, <2>1, TermsFrame DEF AnswerLedger, TermsKept
<1>12. DeliveriesCarry'
  <2> SUFFICES ASSUME NEW x \in inflight', NEW r \in x.resolved
               PROVE  IF r \in x.pushed
                      THEN r \in everTold' \/ r \in x.dropped \/ \E p \in Parents : r \in x.carry[p]
                      ELSE r \in wants' \/ \A u \in Copies' : Present(u.req[r]) => u.req[r].notify = "off"
    BY DEF DeliveriesCarry
  <2>1. x \in inflight /\ r \in Requests
    BY <1>8 DEF TypeOK, Delivery
  <2> QED
    BY <1>8, <1>10, <2>1, CarryFrame DEF AnswerLedger
<1>13. AnswersAccounted'
  <2> SUFFICES ASSUME NEW u \in Copies', NEW r \in Requests
               PROVE  AccountedFor(u.req[r], r)
    BY <1>8 DEF AnswersAccounted, AccountedFor
  <2> QED
    BY <1>6, <1>7, <1>9 DEF AnswerLedger, AnswersAccounted
<1> QED
  BY <1>11, <1>12, <1>13 DEF AnswerLedger

\* A phase of a delivery: it is planned, a parent is told or given up, it is spent.
Delivers ==
  \/ \E d \in due : Plan(d)
  \/ \E d \in inflight : \/ \E p \in Parents : NotifyParent(d, p) \/ ParentUnreachable(d, p)
                         \/ Commit(d)

\* The notifier and the timers only weaken the copies, but for the deliveries.
LEMMA WeakensDeliver == TypeOK /\ TermsKept /\ DeliverNext => OnlyWeakens \/ Delivers
<1> USE DEF vendorVars, mirrorVars, dispVars, dlvVars, toldVars
<1> SUFFICES ASSUME TypeOK, TermsKept, DeliverNext
             PROVE  OnlyWeakens \/ Delivers
  OBVIOUS
<1>0. waits \subseteq wants
  BY DEF TermsKept
<1>1. CASE PulseIgnored \/ PulseSettled
  BY <1>0, <1>1, CoveredNow DEF OnlyWeakens, PulseIgnored, PulseSettled
<1>2. CASE PulseOpened
  <2> DEFINE p     == Head(pulses)
             moved == IF p.from = NoTurn THEN store ELSE RebindContinuation(store, p.from, p.turn)
             s     == MarkExecuting(moved, p.turn)
  <2>1. p.turn \in Turns
    <3>1. pulses # << >> /\ pulses \in Seq(Pulse)
      BY <1>2 DEF PulseOpened, NotifierTakes, TypeOK
    <3>2. p \in Pulse
      BY <3>1
    <3> QED
      BY <3>2 DEF Pulse
  <2>2. moved \in Store /\ Covered(moved)
    BY <2>1, RebindType, RebindWeakens, CoveredCopies, CoveredNow DEF TypeOK
  <2> HIDE DEF moved
  <2>3. s \in Store /\ Covered(s)
    BY <2>2, MarkExecutingType, MarkExecutingWeakens, CoveredCopies
  <2> HIDE DEF s
  <2>4. /\ store' \in {s, store}
        /\ Persist(s) \/ UNCHANGED <<disk, spent>>
    BY <1>2 DEF PulseOpened, moved, s
  <2>5. Covered(disk') /\ Covered(store')
    BY <2>3, <2>4, PersistCovered, CoveredNow DEF Persist
  <2> QED
    BY <1>0, <1>2, <2>5, CoveredNow DEF OnlyWeakens, PulseOpened
<1>3. CASE PulseHeld
  <2>1. Persist(store) \/ UNCHANGED <<disk, spent>>
    BY <1>3 DEF PulseHeld
  <2>2. Covered(disk')
    BY <2>1, PersistCovered, CoveredNow DEF Persist, TypeOK
  <2> QED
    BY <1>0, <1>3, <2>2, CoveredNow DEF OnlyWeakens, PulseHeld
<1>4. ASSUME NEW d \in provisional, GraceExpires(d)
      PROVE  OnlyWeakens
  BY <1>0, <1>4, CoveredNow DEF OnlyWeakens, GraceExpires
<1>5. ASSUME NEW d \in due, PlanNothing(d)
      PROVE  OnlyWeakens
  BY <1>0, <1>5, CoveredNow DEF OnlyWeakens, PlanNothing
<1>6. ASSUME NEW d \in due, Plan(d)
      PROVE  Delivers
  BY <1>6 DEF Delivers
<1>7. ASSUME NEW d \in due, PlanAbandoned(d)
      PROVE  OnlyWeakens
  <2> DEFINE s == AbandonDelivery(store, KeyOf(d))
  <2>1. KeyOf(d) \in Key
    BY KeyOfType DEF TypeOK, DueBoundary
  <2>2. s \in Store /\ Covered(s)
    <3>1. s \in Store /\ s.req = store.req
      BY <2>1, MarkerType DEF TypeOK
    <3>2. WeakensAll(s, store)
      BY <3>1, SameRows
    <3> QED
      BY <3>1, <3>2, CoveredCopies, CoveredNow
  <2>3. Covered(Durable(s))
    BY <2>2, DurableWeakens, CoveredCopies
  <2> QED
    BY <1>0, <1>7, <2>2, <2>3, CoveredNow DEF OnlyWeakens, PlanAbandoned
<1>8. ASSUME NEW d \in inflight, NEW p \in Parents, NotifyParent(d, p) \/ ParentUnreachable(d, p)
      PROVE  Delivers
  BY <1>8 DEF Delivers
<1>9. ASSUME NEW d \in inflight, Commit(d)
      PROVE  Delivers
  BY <1>9 DEF Delivers
<1> QED
  BY <1>1, <1>2, <1>3, <1>4, <1>5, <1>6, <1>7, <1>8, <1>9 DEF DeliverNext

\* The notifier's, the timers' and the deliveries' steps keep the ledger.
LEMMA LedgerDeliver == TypeOK /\ AnswerLedger /\ DeliverNext => AnswerLedger'
  BY WeakensDeliver, LedgerFrame, LedgerPlan, LedgerNotify, LedgerCommit DEF Delivers, AnswerLedger

\* Restarts, releases, stops and crashes only weaken the copies.
LEMMA WeakensLife == TypeOK /\ TermsKept /\ LifeNext => OnlyWeakens
<1> USE DEF vendorVars, mirrorVars, dispVars, dlvVars, toldVars
<1> SUFFICES ASSUME TypeOK, TermsKept, LifeNext
             PROVE  OnlyWeakens
  OBVIOUS
<1>0. waits \subseteq wants
  BY DEF TermsKept
<1>1. CASE ReconcileScan
  <2>1. Covered(Repair(rows, disk))
    BY RepairWeakens, CoveredCopies, CoveredNow DEF TypeOK
  <2>2. scan'.store = Repair(rows, disk)
    BY <1>1 DEF ReconcileScan
  <2> QED
    BY <1>0, <1>1, <2>1, <2>2, CoveredNow DEF OnlyWeakens, ReconcileScan
<1>2. CASE ReconcileSeed
  <2>1. scan'.store = EmptyStore
    BY <1>2 DEF ReconcileSeed, NoScan
  <2>2. Covered(store')
    BY <1>2, CoveredNow DEF ReconcileSeed
  <2> QED
    BY <1>0, <1>2, <2>1, <2>2, CoveredNow DEF OnlyWeakens, ReconcileSeed
<1>3. CASE ReleasePick \/ ReleaseFence \/ ReleaseClear \/ ReleaseRead \/ EvictInPlace
  <2>1. UNCHANGED <<disk, store, draft, saved, scan, flush, late, disp, inflight, waits, wants, everTold>>
    BY <1>3 DEF ReleasePick, ReleaseFence, ReleaseClear, ReleaseRead, EvictInPlace
  <2> QED
    BY <1>0, <2>1, CoveredNow DEF OnlyWeakens
<1>4. CASE ReleaseSettle
  <2>1. Covered(Repair(relRows, store))
    BY RepairWeakens, CoveredCopies, CoveredNow DEF TypeOK
  <2> QED
    BY <1>0, <1>4, <2>1, CoveredNow DEF OnlyWeakens, ReleaseSettle
<1>5. SettledStore \in Store /\ Covered(SettledStore) /\ Covered(Durable(SettledStore))
  BY SettledStoreType, SettledWeakens, DurableWeakens, CoveredCopies, CoveredNow DEF TypeOK
<1>6. CASE Stop
  <2>1. Covered(disk')
    BY <1>5, <1>6, CoveredNow DEF Stop
  <2> QED
    BY <1>0, <1>5, <1>6, <2>1, CoveredNow DEF OnlyWeakens, Stop, StopsProcess
<1>7. CASE StopDetached
  <2>1. \A s \in flush' : Covered(s)
    BY <1>5, <1>7, CoveredNow DEF StopDetached
  <2> QED
    BY <1>0, <1>5, <1>7, <2>1, CoveredNow DEF OnlyWeakens, StopDetached, StopsProcess
<1>8. ASSUME NEW s \in flush, FlushSettlement(s)
      PROVE  OnlyWeakens
  <2>1. s \in Store /\ Covered(s)
    BY CoveredNow DEF TypeOK
  <2>2. Covered(disk')
    BY <1>8, <2>1, PersistCovered DEF FlushSettlement, Persist
  <2> QED
    BY <1>0, <1>8, <2>2, CoveredNow DEF OnlyWeakens, FlushSettlement
<1>9. CASE Crash
  <2>1. scan'.store = EmptyStore
    BY <1>9 DEF Crash, NoScan
  <2>2. \A r \in Requests : disp'[r] = "new" => disp[r] = "new"
    BY <1>9 DEF Crash
  <2> QED
    BY <1>0, <1>9, <2>1, <2>2, CoveredNow DEF OnlyWeakens, Crash
<1> QED
  BY <1>1, <1>2, <1>3, <1>4, <1>6, <1>7, <1>8, <1>9 DEF LifeNext

\* Restarts, releases, stops and crashes keep the ledger.
LEMMA LedgerLife == TypeOK /\ AnswerLedger /\ LifeNext => AnswerLedger'
  BY WeakensLife, LedgerFrame DEF AnswerLedger

\* The writes of dropped calls only weaken the copies, but for the row one accepted.
LEMMA WeakensLate == TypeOK /\ TermsKept /\ LateNext => OnlyWeakens \/ Accepts
<1> USE DEF vendorVars, mirrorVars, dispVars, toldVars
<1> SUFFICES ASSUME TypeOK, TermsKept, LateNext
             PROVE  OnlyWeakens \/ Accepts
  OBVIOUS
<1>0. waits \subseteq wants
  BY DEF TermsKept
<1>1. /\ UNCHANGED <<saved, draft, wants, inflight, scan, flush, everTold>>
      /\ waits' \subseteq waits
  BY LateLeaves
<1>2. ASSUME NEW u, Covered(u), Covered(store'), disk' = disk, Outlives(u), NEW r \in Requests, CallGone(r)
      PROVE  OnlyWeakens
  <2>1. \A w \in late' : Covered(w.store)
    BY <1>2, CoveredNow DEF Outlives
  <2>2. \A q \in Requests : disp'[q] = "new" => disp[q] = "new"
    BY <1>2 DEF CallGone, TypeOK
  <2> QED
    BY <1>0, <1>1, <1>2, <2>1, <2>2, CoveredNow DEF OnlyWeakens
<1>3. ASSUME NEW r \in Requests, NEW p \in Parents, NEW n \in Notifies, AcceptOutlives(r, p, n)
      PROVE  Accepts
  BY <1>3, AcceptTakesRow DEF Accepts
<1>4. ASSUME NEW r \in Requests, RollbackOutlives(r)
      PROVE  OnlyWeakens
  BY <1>2, <1>4, CoveredNow DEF RollbackOutlives
<1>5. ASSUME NEW r \in Requests, SubmitFailOutlives(r)
      PROVE  OnlyWeakens
  <2>1. DropRow(r) /\ Outlives(Durable(store')) /\ CallGone(r) /\ disk' = disk
    BY <1>5 DEF SubmitFailOutlives
  <2>2. Covered(store') /\ Covered(Durable(store'))
    BY <2>1, DropRowType, DropRowCovered, DurableWeakens, CoveredCopies
  <2> QED
    BY <1>2, <2>1, <2>2
<1>6. ASSUME NEW r \in Requests, BindOutlives(r)
      PROVE  OnlyWeakens
  <2>1. /\ Present(store.req[r]) /\ store' = BoundStore(r, FALSE)
        /\ Outlives(Durable(store')) /\ CallGone(r) /\ disk' = disk
    BY <1>6, Zenon DEF BindOutlives, Present
  <2>2. BoundStore(r, FALSE) \in Store /\ Covered(BoundStore(r, FALSE))
    BY <2>1, BoundStoreType, BoundWeakens, CoveredCopies, CoveredNow DEF TypeOK
  <2>3. Covered(store') /\ Covered(Durable(store'))
    BY <2>1, <2>2, DurableWeakens, CoveredCopies
  <2> QED
    BY <1>2, <2>1, <2>3
<1>7. ASSUME NEW w \in late, LateLands(w)
      PROVE  OnlyWeakens
  <2>1. disk' \in {w.store, disk} /\ late' \subseteq late /\ UNCHANGED <<store, disp>>
    BY <1>7 DEF LateLands, PersistFail
  <2> QED
    BY <1>0, <1>1, <2>1, CoveredNow DEF OnlyWeakens
<1> QED
  BY <1>3, <1>4, <1>5, <1>6, <1>7 DEF LateNext

\* The writes of dropped calls keep the ledger.
LEMMA LedgerLate == TypeOK /\ AnswerLedger /\ LateNext => AnswerLedger'
  BY WeakensLate, LedgerFrame, LedgerAccept DEF Accepts, AnswerLedger

\* The ledger is an invariant of the system.
THEOREM LedgerInvariant == Spec => []AnswerLedger
<1> USE DEF vendorVars, mirrorVars, dispVars, dlvVars, toldVars
<1>1. TypeOK /\ AnswerLedger /\ UNCHANGED vars => AnswerLedger'
  <2> SUFFICES ASSUME TypeOK, AnswerLedger, UNCHANGED vars
               PROVE  AnswerLedger'
    OBVIOUS
  <2>1. waits \subseteq wants
    BY DEF AnswerLedger, TermsKept
  <2> QED
    BY <2>1, CoveredNow, LedgerFrame DEF vars, OnlyWeakens
<1>2. TypeOK /\ AnswerLedger /\ [Next]_vars => AnswerLedger'
  BY <1>1, LedgerDispatch, LedgerVendor, LedgerDeliver, LedgerLife, LedgerLate DEF Next
<1> QED
  BY <1>2, LedgerInit, TypeCorrect, PTL DEF Spec

\* For every instance: a request never reads answered, in memory or on disk,
\* unless its parent was told, asked not to be, or waits for it inline.
THEOREM NeverSilent == Spec => []NoSilentAnswer
<1>1. AnswerLedger => NoSilentAnswer
  BY DEF AnswerLedger, AnswersAccounted, AccountedFor, NoSilentAnswer, Copies
<1> QED
  BY <1>1, LedgerInvariant, PTL

-----------------------------------------------------------------------------
(* The mirror is not thrown away under somebody who waits: `remove the file *)
(* when nothing is left to remember` never finds nothing while a dispatch   *)
(* waits for its answer.                                                    *)

\* The dispatches that are past their bind, or given up.
Past == {r \in Requests : Late(r)}

\* s remembers some boundary, or some request of L.
Recalls(s, L) == Spent(s) \/ \E r \in L : Present(s.req[r])

\* The copies there are as long as no late write lands and none is looked at before
\* its accept is over.
Held == {disk, store, saved, scan.store} \union flush

\* A store of which some delivery is under way remembers more than that marker;
\* while anybody waits, so do the mirror and all that may replace it.
RememberInv ==
  /\ \A s \in Held : s.delivering # {} => Recalls(s, Past)
  /\ resident => Recalls(store, Requests)
  /\ \A s \in flush : Recalls(s, Requests)
  /\ (\E r \in Requests : disp[r] = "waiting") =>
        /\ resident
        /\ \A s \in {disk, store} \union flush : Recalls(s, Past)
        /\ Writing => Recalls(saved, Past)

\* s remembers whatever u remembers, and has no more markers.
AsGood(s, u) ==
  /\ s.delivering \subseteq u.delivering
  /\ Spent(u) => Spent(s)
  /\ \A r \in Requests : Present(u.req[r]) => Present(s.req[r])

\* Among some requests, one is the newest.
LEMMA Newest ==
  ASSUME NEW S \in SUBSET Requests, S # {}
  PROVE  \E y \in S : {z \in S : z > y} = {}
<1> DEFINE c == [y \in S |-> Cardinality({z \in S : z > y})]
           T == {c[y] : y \in S}
<1>1. S \subseteq Nat /\ IsFiniteSet(S)
  BY RequestsAssumption, FS_Subset
<1>2. \A y \in S : IsFiniteSet({z \in S : z > y}) /\ c[y] = Cardinality({z \in S : z > y}) /\ c[y] \in Nat
  BY <1>1, FS_Subset, FS_CardinalityType
<1> HIDE DEF c
<1>3. T \subseteq Nat /\ T # {}
  BY <1>2
<1> HIDE DEF T
<1>4. \E m \in T : \A k \in T : ~ (<<k, m>> \in OpToRel(<, Nat))
  BY <1>3, WFMin, NatLessThanWellFounded, Zenon
<1>5. PICK y \in S : \A z \in S : ~(<<c[z], c[y]>> \in OpToRel(<, Nat))
  BY <1>4 DEF T
<1>6. y \in S /\ \A z \in S : ~(c[z] < c[y])
  BY <1>2, <1>5 DEF OpToRel
<1>7. ASSUME NEW z \in S, z > y
      PROVE  FALSE
  <2> DEFINE A == {x \in S : x > z}
             B == {x \in S : x > y}
  <2>1. A \subseteq B /\ z \in B /\ z \notin A
    <3>1. \A x \in S : x \in Int
      BY <1>1
    <3> QED
      BY <1>6, <1>7, <3>1
  <2>2. IsFiniteSet(B) /\ c[z] = Cardinality(A) /\ c[y] = Cardinality(B) /\ c[z] \in Nat /\ c[y] \in Nat
    BY <1>2, <1>6
  <2> HIDE DEF A, B
  <2>3. Cardinality(A) <= Cardinality(B) /\ Cardinality(A) # Cardinality(B)
    BY <2>1, <2>2, FS_Subset
  <2> QED
    BY <1>6, <2>2, <2>3
<1> QED
  BY <1>6, <1>7

\* The requests pruned by an accept are never all there is.
LEMMA AcceptRecalls ==
  ASSUME NEW s \in Store, NEW r \in Requests, NEW p, NEW n, NEW L \in SUBSET Requests, r \notin L,
         \A x \in Requests : Present(s.req[x]) => x \in L, Recalls(s, L)
  PROVE  Recalls(Accept(s, r, p, n), L)
<1> DEFINE a == Accepted(p, n)
           u == [s EXCEPT !.req[r] = a]
           newer(y) == {z \in Resolved(u) : z > y}
           old == {y \in Resolved(u) : Cardinality(newer(y)) >= ResolvedHistory}
           v == Accept(s, r, p, n)
<1>1. v = Without(u, old)
  BY DEF Accept, Prune
<1>2. SameMarks(v, s)
  BY RowsOnly
<1>3. a.state = "accepted"
  BY DEF Accepted
<1> HIDE DEF a
<1>4. u.req = [s.req EXCEPT ![r] = a] /\ DOMAIN s.req = Requests
  BY DEF Store
<1>5. \A x \in Requests : v.req[x] = IF x \in old THEN Absent ELSE u.req[x]
  BY <1>1, <1>4 DEF Without
<1>6. \A x \in Requests : x # r => u.req[x] = s.req[x]
  BY <1>4
<1>7. r \notin Resolved(u)
  BY <1>3, <1>4 DEF Resolved, TerminalState
<1> HIDE DEF u, v
<1>8. CASE Spent(s)
  BY <1>2, <1>8, MarksSpent DEF Recalls, v
<1>9. CASE \E x \in L : Present(s.req[x])
  <2>1. PICK x \in L : Present(s.req[x])
    BY <1>9
  <2>2. x \in Requests /\ x # r /\ Present(u.req[x])
    BY <1>6, <2>1
  <2>3. CASE x \notin old
    BY <1>5, <2>2, <2>3 DEF Recalls, v
  <2>4. CASE x \in old
    <3>1. Resolved(u) \in SUBSET Requests /\ Resolved(u) # {}
      BY <2>4 DEF Resolved
    <3>2. PICK y \in Resolved(u) : newer(y) = {}
      BY <3>1, Newest
    <3>3. Cardinality(newer(y)) = 0
      BY <3>2, FS_EmptySet
    <3>4. y \notin old
      BY <3>3, HistoryAssumption
    <3>5. y \in Requests /\ y # r /\ Present(u.req[y])
      BY <1>7, <3>1 DEF Resolved, TerminalState, Present
    <3>6. y \in L /\ v.req[y] = u.req[y]
      BY <1>5, <1>6, <3>4, <3>5
    <3> QED
      BY <3>5, <3>6 DEF Recalls, v
  <2> QED
    BY <2>3, <2>4
<1> QED
  BY <1>8, <1>9 DEF Recalls

\* A store with the same fates and marks remembers as much.
LEMMA FatesAsGood ==
  ASSUME NEW s, NEW u, SameFates(s, u), SameMarks(s, u)
  PROVE  AsGood(s, u)
<1>1. \A r \in Requests : Present(u.req[r]) => Present(s.req[r])
  <2> SUFFICES ASSUME NEW r \in Requests, Present(u.req[r]) PROVE Present(s.req[r])
    OBVIOUS
  <2>1. Open(s.req[r]) \/ s.req[r].state = u.req[r].state
    BY DEF SameFates, SameFate
  <2> QED
    BY <2>1 DEF Open, OpenState, Present
<1> QED
  BY <1>1 DEF AsGood, SameMarks, Spent

\* Writing a store,
LEMMA DurableAsGood ==
  ASSUME NEW s \in Store
  PROVE  AsGood(Durable(s), s)
  BY DurableFates, RowsOnly, FatesAsGood

\* ... landed or failed, loses nothing.
LEMMA AsGoodTrans ==
  ASSUME NEW s, NEW u, NEW v, AsGood(s, u), AsGood(u, v)
  PROVE  AsGood(s, v)
  BY DEF AsGood

\* What is remembered stays remembered, of more requests and by as good a store.
LEMMA RecallsMore ==
  ASSUME NEW s, NEW u, AsGood(s, u), NEW L, NEW M \in SUBSET Requests, L \subseteq M, Recalls(u, L)
  PROVE  Recalls(s, M)
  BY DEF Recalls, AsGood

\* A stop only changes states.
LEMMA SettledAsGood ==
  ASSUME store \in Store
  PROVE  AsGood(SettledStore, store)
<1>1. \A r \in Requests : Present(store.req[r]) => Present(SettledStore.req[r])
  BY SettledFates DEF Present, Open, OpenState
<1>2. SameMarks(SettledStore, store)
  BY DEF SettledStore, Store, SameMarks
<1> QED
  BY <1>1, <1>2 DEF AsGood, SameMarks, Spent

\* The dispatches past their bind stay so.
LEMMA PastStays == TypeOK /\ [Next]_vars => Past \subseteq Past' /\ Past' \subseteq Requests
  BY LateStays DEF Past

\* Enough for the next state: who waits waited before, and the copies are as good
\* as copies, or remember a boundary.
LEMMA RememberFrame ==
  ASSUME RememberInv, Past \subseteq Past', Past' \subseteq Requests,
         \A r \in Requests : disp'[r] = "waiting" => disp[r] = "waiting",
         resident' = resident, Writing' => Writing,
         AsGood(store', store) \/ Spent(store'),
         AsGood(disk', disk) \/ AsGood(disk', store) \/ Spent(disk'),
         AsGood(saved', saved), AsGood(scan'.store, disk) \/ scan'.store \in {scan.store, EmptyStore},
         flush' \subseteq flush
  PROVE  RememberInv'
<1>1. \A s \in {disk', store', saved', scan'.store} \union flush' : s.delivering # {} => Recalls(s, Past')
  <2> SUFFICES ASSUME NEW s \in {disk', store', saved', scan'.store} \union flush', s.delivering # {}, ~Spent(s)
               PROVE  Recalls(s, Past')
    BY DEF Recalls
  <2>1. s # EmptyStore
    BY DEF EmptyStore
  <2>2. \E u \in Held : AsGood(s, u)
    BY <2>1 DEF Held, AsGood
  <2>3. PICK u \in Held : AsGood(s, u)
    BY <2>2
  <2>4. Recalls(u, Past)
    BY <2>3 DEF RememberInv, AsGood
  <2> QED
    BY <2>3, <2>4, RecallsMore
<1>2. \A L, M : L \subseteq M /\ M \subseteq Requests /\ Recalls(store, L) => Recalls(store', M)
  BY RecallsMore DEF Recalls
<1>3. \A L, M : L \subseteq M /\ M \subseteq Requests /\ Recalls(saved, L) => Recalls(saved', M)
  BY RecallsMore
<1>4. \A L, M : L \subseteq M /\ M \subseteq Requests /\ Recalls(store, L) /\ Recalls(disk, L) => Recalls(disk', M)
  BY RecallsMore DEF Recalls
<1>5. \A s \in flush : \A L, M : L \subseteq M /\ Recalls(s, L) => Recalls(s, M)
  BY DEF Recalls
<1>6. resident' => Recalls(store', Requests)
  BY <1>2 DEF RememberInv
<1>7. \A s \in flush' : Recalls(s, Requests)
  BY DEF RememberInv
<1>8. ASSUME NEW r \in Requests, disp'[r] = "waiting"
      PROVE  /\ resident'
             /\ Recalls(disk', Past') /\ Recalls(store', Past')
             /\ \A s \in flush' : Recalls(s, Past')
             /\ Writing' => Recalls(saved', Past')
  <2>1. /\ resident
        /\ Recalls(disk, Past) /\ Recalls(store, Past) /\ \A s \in flush : Recalls(s, Past)
        /\ Writing => Recalls(saved, Past)
    BY <1>8 DEF RememberInv
  <2> QED
    BY <1>2, <1>3, <1>4, <1>5, <2>1
<1> QED
  BY <1>1, <1>6, <1>7, <1>8 DEF RememberInv, Held

\* A row dropped that nobody past its bind has: the mirror may go with it, and
\* then nobody waits.
LEMMA RememberDrop ==
  ASSUME TypeOK, RememberInv, NEW r \in Requests, r \notin Past, DropRow(r),
         Past \subseteq Past', Past' \subseteq Requests, UNCHANGED <<saved, scan, flush>>,
         \A x \in Requests : disp'[x] = "waiting" => disp[x] = "waiting", Writing' => Writing,
         disk' \in {Durable(store'), disk}
  PROVE  RememberInv'
<1> DEFINE s == Without(store, {r})
<1>1. s \in Store /\ SameMarks(s, store) /\ \A x \in Requests : x # r => s.req[x] = store.req[x]
  BY WithoutType, WithoutFates, RowsOnly DEF TypeOK
<1>2. Past \subseteq Requests /\ (Recalls(store, Past) => Recalls(s, Past))
  BY <1>1, MarksSpent DEF Recalls
<1>3. CASE IsEmpty(s)
  <2>1. store' = EmptyStore /\ resident' = FALSE
    BY <1>3, Zenon DEF DropRow
  <2>2. ~Recalls(s, Past)
    BY <1>2, <1>3 DEF Recalls, IsEmpty, Spent, Present
  <2>3. ~\E x \in Requests : disp'[x] = "waiting"
    BY <1>2, <2>2 DEF RememberInv
  <2>4. EmptyStore.delivering = {} /\ Durable(EmptyStore).delivering = {}
    BY RowsOnly, EmptyStoreType DEF SameMarks, EmptyStore
  <2>5. \A u \in Held' : u.delivering # {} => u \in Held
    BY <2>1, <2>4 DEF Held
  <2>6. \A u \in Held' : u.delivering # {} => Recalls(u, Past')
    BY <2>5 DEF RememberInv, Recalls
  <2> QED
    BY <2>1, <2>3, <2>6 DEF RememberInv
<1>4. CASE ~IsEmpty(s)
  <2>1. store' = s /\ resident' = resident
    BY <1>4, Zenon DEF DropRow
  <2>2. store \in Held
    BY DEF Held
  <2>3. s.delivering # {} => Recalls(s, Past)
    BY <1>1, <1>2, <2>2 DEF RememberInv, SameMarks
  <2>4. Recalls(s, Requests)
    BY <1>2, <1>4, <2>3 DEF Recalls, IsEmpty, Spent, Present
  <2> HIDE DEF s
  <2>5. AsGood(Durable(s), s) /\ AsGood(s, s)
    BY <1>1, DurableAsGood DEF AsGood
  <2>6. \A u \in Held' : u \in Held \/ u = s \/ u = Durable(s)
    BY <2>1 DEF Held
  <2>7. \A u \in {s, Durable(s)} : u.delivering # {} => Recalls(u, Past')
    BY <2>3, <2>5, RecallsMore DEF AsGood
  <2>8. \A u : Recalls(u, Past) => Recalls(u, Past')
    BY DEF Recalls
  <2>9. \A u \in Held' : u.delivering # {} => Recalls(u, Past')
    BY <2>6, <2>7, <2>8 DEF RememberInv
  <2>10. ASSUME NEW x \in Requests, disp'[x] = "waiting"
         PROVE  /\ resident' /\ \A u \in {disk', store'} \union flush' : Recalls(u, Past')
                /\ Writing' => Recalls(saved', Past')
    <3>1. /\ resident /\ \A u \in {disk, store} \union flush : Recalls(u, Past)
          /\ Writing => Recalls(saved, Past)
      BY <2>10 DEF RememberInv
    <3>2. Recalls(s, Past)
      BY <1>2, <3>1
    <3>3. Recalls(s, Past') /\ Recalls(Durable(s), Past')
      BY <2>5, <3>2, RecallsMore
    <3> QED
      BY <2>1, <2>8, <3>1, <3>3
  <2> QED
    BY <2>1, <2>4, <2>9, <2>10 DEF RememberInv
<1> QED
  BY <1>3, <1>4

\* The rows of a copy are those of requests that were handed in: with nobody's
\* dispatch in hand, of requests past their bind.
LEMMA RowsArePast ==
  ASSUME TypeOK, TermsKept, NEW s \in Held, NEW x \in Requests, Present(s.req[x])
  PROVE  x \in Past \/ disp[x] \in InHand
<1>1. disp[x] # "new" /\ disp[x] \in Phase
  BY DEF TermsKept, TypeOK, Copies, Held
<1> QED
  BY <1>1 DEF Past, Late, InHand, Phase

\* The dispatchers keep what is remembered: an accept prunes only what newer
\* requests outlive, and a bind leaves its own row.
LEMMA RememberDispatch ==
  TypeOK /\ TypeOK' /\ ClaimInv /\ FileInv /\ TermsKept /\ RememberInv /\ DispatchNext => RememberInv'
<1> USE DEF vendorVars, mirrorVars, dispVars, dlvVars, toldVars
<1> SUFFICES ASSUME TypeOK, TypeOK', ClaimInv, FileInv, TermsKept, RememberInv, DispatchNext, NEW r \in Requests,
                    \/ \E p \in Parents, n \in Notifies, w \in Waiting : AcceptWrite(r, p, n, w)
                    \/ AcceptCommit(r) \/ AcceptRollback(r)
                    \/ \E t \in Turns : SubmitStarted(r, t) \/ SubmitInjected(r, t) \/ SubmitQueued(r, t)
                    \/ SubmitFail(r) \/ Bind(r) \/ Cancel(r)
                    \/ WaitClaimLapses(r) \/ WaiterReleases(r) \/ WaiterReads(r)
             PROVE  RememberInv'
  BY DEF DispatchNext
<1>1. Past \subseteq Past' /\ Past' \subseteq Requests /\ Past \subseteq Requests
  BY PastStays DEF Next, Past
<1>2. \A s : AsGood(s, s)
  BY DEF AsGood
<1>3. ASSUME NEW p \in Parents, NEW n \in Notifies, NEW w \in Waiting, AcceptWrite(r, p, n, w)
      PROVE  RememberInv'
  <2> DEFINE s == Accept(disk, r, p, n)
  <2>1. /\ disp[r] = "new" /\ claim = Free /\ disp' = [disp EXCEPT ![r] = "writing"]
        /\ saved' = disk /\ disk' = s /\ UNCHANGED <<store, resident, scan, flush>>
    BY <1>3 DEF AcceptWrite
  <2>2. r \notin Past
    BY <2>1 DEF Past, Late
  <2>3. \A x \in Requests : Present(disk.req[x]) => x \in Past
    <3>1. disk \in Held
      BY DEF Held
    <3> QED
      BY <2>1, <3>1, NobodyInHand, RowsArePast
  <2>4. Recalls(disk, Past) => Recalls(s, Past)
    BY <1>1, <2>2, <2>3, AcceptRecalls DEF TypeOK
  <2>5. s.delivering = disk.delivering
    BY RowsOnly DEF TypeOK, SameMarks
  <2> HIDE DEF s
  <2>6. Past' = Past
    BY <2>1 DEF Past, Late, TypeOK
  <2>7. \A u \in {s, disk, store, scan.store} \union flush : u.delivering # {} => Recalls(u, Past)
    BY <2>4, <2>5 DEF RememberInv, Held
  <2>8. Held' = {s, disk, store, scan.store} \union flush
    BY <2>1 DEF Held
  <2>9. (\E x \in Requests : disp'[x] = "waiting") => \E x \in Requests : disp[x] = "waiting"
    BY <2>1 DEF TypeOK
  <2>10. (\E x \in Requests : disp'[x] = "waiting") =>
           /\ resident
           /\ \A u \in {s, disk, store} \union flush : Recalls(u, Past)
    BY <2>4, <2>9 DEF RememberInv
  <2>11. /\ \A u \in Held' : u.delivering # {} => Recalls(u, Past')
         /\ resident' => Recalls(store', Requests)
         /\ \A u \in flush' : Recalls(u, Requests)
         /\ (\E x \in Requests : disp'[x] = "waiting") =>
              /\ resident'
              /\ \A u \in {disk', store'} \union flush' : Recalls(u, Past')
              /\ Writing' => Recalls(saved', Past')
    BY <2>1, <2>6, <2>7, <2>8, <2>10 DEF RememberInv
  <2> QED
    BY <2>11 DEF RememberInv
<1>4. CASE AcceptCommit(r)
  <2>1. /\ disp[r] = "writing" /\ disp' = [disp EXCEPT ![r] = "accepted"]
        /\ store' = disk /\ resident' /\ UNCHANGED <<disk, saved, scan, flush>>
    BY <1>4 DEF AcceptCommit, FileInv
  <2>2. Writing
    BY <2>1 DEF Writing
  <2>3. Past' = Past
    BY <2>1 DEF Past, Late, TypeOK
  <2>4. Recalls(disk, Requests)
    BY <2>1 DEF FileInv, InHand, Recalls
  <2>5. Held' \subseteq Held
    BY <2>1 DEF Held
  <2>6. (\E x \in Requests : disp'[x] = "waiting") => \E x \in Requests : disp[x] = "waiting"
    BY <2>1 DEF TypeOK
  <2>7. /\ \A u \in Held' : u.delivering # {} => Recalls(u, Past')
        /\ resident' => Recalls(store', Requests)
        /\ \A u \in flush' : Recalls(u, Requests)
        /\ (\E x \in Requests : disp'[x] = "waiting") =>
             /\ resident'
             /\ \A u \in {disk', store'} \union flush' : Recalls(u, Past')
             /\ Writing' => Recalls(saved', Past')
    BY <2>1, <2>2, <2>3, <2>4, <2>5, <2>6 DEF RememberInv
  <2> QED
    BY <2>7 DEF RememberInv
<1>5. CASE AcceptRollback(r)
  <2>1. /\ disp[r] = "writing" /\ disp' = [disp EXCEPT ![r] = "closed"]
        /\ disk' \in {saved, disk} /\ UNCHANGED <<store, resident, saved, scan, flush>>
    BY <1>5 DEF AcceptRollback, PersistFail
  <2>2. Writing
    BY <2>1 DEF Writing
  <2>3. Held' \subseteq Held
    BY <2>1 DEF Held
  <2>4. (\E x \in Requests : disp'[x] = "waiting") => \E x \in Requests : disp[x] = "waiting"
    BY <2>1 DEF TypeOK
  <2>5. \A u : Recalls(u, Past) => Recalls(u, Past')
    BY <1>1 DEF Recalls
  <2>6. /\ \A u \in Held' : u.delivering # {} => Recalls(u, Past')
        /\ resident' => Recalls(store', Requests)
        /\ \A u \in flush' : Recalls(u, Requests)
        /\ (\E x \in Requests : disp'[x] = "waiting") =>
             /\ resident'
             /\ \A u \in {disk', store'} \union flush' : Recalls(u, Past')
             /\ Writing' => Recalls(saved', Past')
    BY <2>1, <2>2, <2>3, <2>4, <2>5 DEF RememberInv
  <2> QED
    BY <2>6 DEF RememberInv
<1>6. CASE SubmitFail(r)
  <2>1. DropRow(r) /\ disk' \in {Durable(store'), disk} /\ UNCHANGED <<saved, scan, flush>>
    BY <1>6 DEF SubmitFail, Persist, PersistOk, PersistFail
  <2>2. disp[r] = "accepted" /\ disp' = [disp EXCEPT ![r] = "closed"] /\ r \notin Past
    BY <1>6 DEF SubmitFail, Past, Late
  <2>3. (\A x \in Requests : disp'[x] = "waiting" => disp[x] = "waiting") /\ (Writing' => Writing)
    BY <2>2 DEF TypeOK, Writing
  <2> QED
    BY <1>1, <2>1, <2>2, <2>3, RememberDrop
<1>7. CASE Bind(r)
  <2>1. disp[r] \in {"started", "injected", "queued"} /\ resident /\ UNCHANGED <<resident, saved, scan, flush>>
    BY <1>7 DEF Bind
  <2>2. PICK e \in BOOLEAN : store' = BoundStore(r, e) /\ (PersistOk(BoundStore(r, e)) \/ PersistFail)
    BY <1>7 DEF Bind
  <2> DEFINE s == BoundStore(r, e)
  <2>3. /\ s \in Store /\ SameMarks(s, store) /\ \A x \in Requests : x # r => s.req[x] = store.req[x]
        /\ Present(s.req[r])
    BY BoundFates DEF Open, OpenState, Present
  <2> HIDE DEF s
  <2>4. AsGood(s, store)
    BY <2>3 DEF AsGood, SameMarks, Spent
  <2>5. AsGood(Durable(s), s)
    BY <2>3, DurableAsGood
  <2>6. disk' = Durable(s) \/ disk' = disk
    BY <2>2 DEF PersistOk, PersistFail, s
  <2>7. disp'[r] \in {"waiting", "closed"} /\ \A x \in Requests : x # r => disp'[x] = disp[x]
    BY <1>7 DEF Bind, TypeOK
  <2>8. r \in Past' /\ claim = r
    BY <2>1, <2>7 DEF Past, Late, ClaimInv, InHand
  <2>9. \A x \in Requests : x \in Past' \/ disp[x] \notin InHand
    BY <2>8 DEF ClaimInv
  <2>10. ~Writing'
    BY <2>7, <2>8 DEF Writing, ClaimInv, InHand
  <2>11. Present(disk.req[r])
    BY <2>1 DEF FileInv, InHand
  <2>12. Recalls(s, Past') /\ Recalls(Durable(s), Past') /\ Recalls(disk, Past')
    BY <2>3, <2>5, <2>8, <2>11, <1>1 DEF Recalls, AsGood
  <2>13. \A u \in flush : Recalls(u, Past')
    <3> SUFFICES ASSUME NEW u \in flush, ~Spent(u) PROVE Recalls(u, Past')
      BY DEF Recalls
    <3>1. u \in Held
      BY DEF Held
    <3>2. PICK x \in Requests : Present(u.req[x])
      BY DEF RememberInv, Recalls
    <3>3. x \in Past'
      BY <1>1, <2>9, <3>1, <3>2, RowsArePast
    <3> QED
      BY <3>2, <3>3 DEF Recalls
  <2>14. \A u \in Held' : u.delivering # {} => Recalls(u, Past')
    <3>1. \A u \in Held' : u \in Held \/ u = s \/ u = Durable(s)
      BY <2>1, <2>2, <2>6 DEF Held, s
    <3>2. \A u : Recalls(u, Past) => Recalls(u, Past')
      BY <1>1 DEF Recalls
    <3> QED
      BY <2>12, <3>1, <3>2 DEF RememberInv
  <2>15. Recalls(store', Requests)
    BY <1>1, <2>2, <2>12 DEF Recalls, s
  <2>16. \A u \in {disk', store'} \union flush' : Recalls(u, Past')
    BY <2>1, <2>2, <2>6, <2>12, <2>13 DEF s
  <2> QED
    BY <2>1, <2>10, <2>14, <2>15, <2>16 DEF RememberInv
<1>8. CASE \/ \E t \in Turns : SubmitStarted(r, t) \/ SubmitInjected(r, t) \/ SubmitQueued(r, t)
           \/ Cancel(r) \/ WaitClaimLapses(r) \/ WaiterReleases(r) \/ WaiterReads(r)
  <2>1. /\ UNCHANGED <<resident, store, disk, saved, scan, flush>>
        /\ disp' = disp \/ \E x : disp' = [disp EXCEPT ![r] = x] /\ x \notin {"waiting", "writing"}
    BY <1>8 DEF SubmitStarted, SubmitInjected, SubmitQueued, Cancel, WaitClaimLapses, WaiterReleases, WaiterReads
  <2>2. (\A x \in Requests : disp'[x] = "waiting" => disp[x] = "waiting") /\ (Writing' => Writing)
    BY <2>1 DEF TypeOK, Writing
  <2> QED
    BY <1>1, <1>2, <2>1, <2>2, RememberFrame
<1> QED
  BY <1>3, <1>4, <1>5, <1>6, <1>7, <1>8

\* The vendor writes no store.
LEMMA RememberVendor == TypeOK /\ RememberInv /\ VendorNext => RememberInv'
<1> USE DEF vendorVars, mirrorVars, dispVars, dlvVars, toldVars
<1>1. VendorNext => UNCHANGED <<resident, store, disk, saved, scan, flush, disp>>
  BY DEF VendorNext, HumanTurn, OpenParked, OpenContinuation, TurnOpens, Narrate, TurnEnds, FailTurn,
         EndTurn, EndTurnReleased, EndTurnUnrecorded
<1>2. \A s : AsGood(s, s)
  BY DEF AsGood
<1> QED
  BY <1>1, <1>2, RememberFrame DEF Past, Late, Writing


\* A plan marks a boundary that some request past its bind waits for, and a
\* commit spends it.
LEMMA RememberDeliver == TypeOK /\ OwnInv /\ RememberInv /\ DeliverNext => RememberInv'
<1> USE DEF vendorVars, mirrorVars, dispVars, dlvVars, toldVars
<1> SUFFICES ASSUME TypeOK, OwnInv, RememberInv, DeliverNext
             PROVE  RememberInv'
  OBVIOUS
<1>1. UNCHANGED <<resident, saved, disp, scan, flush>>
  BY DEF DeliverNext, PulseIgnored, PulseOpened, PulseHeld, PulseSettled, GraceExpires, PlanNothing,
         Plan, PlanAbandoned, NotifyParent, ParentUnreachable, Commit
<1>2. \A s : AsGood(s, s)
  BY DEF AsGood
<1>3. Past' = Past /\ Past \subseteq Requests /\ (Writing' => Writing)
  BY <1>1 DEF Past, Late, Writing
<1>4. ASSUME NEW s \in Store, store' = s, AsGood(s, store) \/ Spent(s), disk' \in {Durable(s), disk}
      PROVE  RememberInv'
  <2>1. AsGood(Durable(s), s)
    BY DurableAsGood
  <2>2. AsGood(disk', disk) \/ AsGood(disk', store) \/ Spent(disk')
    BY <1>2, <1>4, <2>1, AsGoodTrans DEF AsGood
  <2> QED
    BY <1>1, <1>2, <1>3, <1>4, <2>2, RememberFrame
<1>5. CASE PulseOpened
  <2> DEFINE p == Head(pulses)
             moved == IF p.from = NoTurn THEN store ELSE RebindContinuation(store, p.from, p.turn)
             s == MarkExecuting(moved, p.turn)
  <2>1. p \in Pulse
    BY <1>5, TailElems, PulsesTyped DEF PulseOpened, NotifierTakes, TypeOK
  <2>2. store' \in {s, store} /\ (disk' = disk \/ (store' = s /\ disk' = Durable(s)))
    BY <1>5 DEF PulseOpened, Persist, PersistOk, PersistFail
  <2> HIDE DEF p
  <2>3. moved \in Store /\ SameFates(moved, store) /\ SameMarks(moved, store)
    BY <2>1, RebindType, RebindFates, RowsOnly, SameRowsFates DEF Pulse, TypeOK, SameMarks
  <2> HIDE DEF moved
  <2>4. s \in Store /\ SameFates(s, store) /\ SameMarks(s, store)
    BY <2>3, MarkExecutingType, MarkExecutingFates, RowsOnly, FatesTrans DEF SameMarks
  <2> HIDE DEF s
  <2>5. AsGood(s, store) /\ store \in Store
    BY <2>4, FatesAsGood DEF TypeOK
  <2> QED
    BY <1>2, <1>4, <2>2, <2>4, <2>5
<1>6. CASE \/ PulseIgnored \/ PulseHeld \/ PulseSettled
           \/ \E d \in provisional : GraceExpires(d)
           \/ \E d \in due : PlanNothing(d)
           \/ \E d \in inflight, p \in Parents : NotifyParent(d, p) \/ ParentUnreachable(d, p)
  <2>1. UNCHANGED store /\ disk' \in {Durable(store), disk}
    BY <1>6 DEF PulseIgnored, PulseHeld, PulseSettled, GraceExpires, PlanNothing, NotifyParent, ParentUnreachable,
                Persist, PersistOk, PersistFail
  <2> QED
    BY <1>2, <1>4, <2>1 DEF TypeOK
<1>7. ASSUME NEW d \in due, PlanAbandoned(d)
      PROVE  RememberInv'
  <2> DEFINE s == AbandonDelivery(store, KeyOf(d))
  <2>1. KeyOf(d) \in Key
    BY <1>7, KeyOfType DEF TypeOK, DueBoundary
  <2>2. s \in Store /\ s.delivering = store.delivering \ {KeyOf(d)} /\ s.req = store.req /\ s.notified = store.notified
    BY <2>1, MarkerType DEF TypeOK
  <2>3. store' = s /\ disk' \in {Durable(s), disk}
    BY <1>7 DEF PlanAbandoned
  <2> HIDE DEF s
  <2>4. AsGood(s, store)
    BY <2>2 DEF AsGood, Spent
  <2> QED
    BY <1>4, <2>2, <2>3, <2>4
<1>8. ASSUME NEW d \in inflight, Commit(d)
      PROVE  RememberInv'
  <2>1. d \in Delivery /\ store \in Store
    BY DEF TypeOK
  <2>2. CommittedStore(d) \in Store /\ Spent(CommittedStore(d))
    BY <2>1, CommittedStoreType, CommittedSpent
  <2>3. store' = CommittedStore(d) /\ disk' \in {Durable(CommittedStore(d)), disk}
    BY <1>8 DEF Commit, Persist, PersistOk, PersistFail
  <2> QED
    BY <1>4, <2>2, <2>3
<1>9. ASSUME NEW d \in due, Plan(d)
      PROVE  RememberInv'
  <2> DEFINE s == BeginDelivery(store, KeyOf(d))
  <2>1. KeyOf(d) \in Key /\ d.turn \in Turns
    BY <1>9, KeyOfType DEF TypeOK, DueBoundary
  <2>2. s \in Store /\ s.req = store.req /\ s.notified = store.notified
    BY <2>1, MarkerType DEF TypeOK
  <2>3. store' = s /\ disk' = Durable(s) /\ BoundTo(store, d.turn) # {}
    BY <1>9 DEF Plan, PersistOk, Deliverable
  <2>4. PICK r \in Requests : Open(store.req[r]) /\ store.req[r].turn = d.turn
    BY <2>3 DEF BoundTo, Outstanding, Open
  <2>5. r \in Past /\ Present(store.req[r])
    <3>1. store \in Copies /\ d.turn # NoTurn
      BY <2>1, TurnsAssumption DEF Copies, NoTurn
    <3>2. RowOwned(r, store.req[r])
      BY <3>1 DEF OwnInv, CopiesOwned, StoreOwned
    <3> QED
      BY <2>4, <3>1, <3>2 DEF RowOwned, Past, Open, OpenState, Present
  <2> HIDE DEF s
  <2>6. Recalls(s, Past) /\ Recalls(s, Requests)
    BY <1>3, <2>2, <2>5 DEF Recalls
  <2>7. Recalls(Durable(s), Past)
    BY <1>3, <2>2, <2>6, DurableAsGood, RecallsMore
  <2>8. \A u \in Held' : u \in Held \/ u = s \/ u = Durable(s)
    BY <1>1, <2>3 DEF Held
  <2>9. /\ \A u \in Held' : u.delivering # {} => Recalls(u, Past')
        /\ resident' => Recalls(store', Requests)
        /\ \A u \in flush' : Recalls(u, Requests)
        /\ (\E x \in Requests : disp'[x] = "waiting") =>
             /\ resident'
             /\ \A u \in {disk', store'} \union flush' : Recalls(u, Past')
             /\ Writing' => Recalls(saved', Past')
    BY <1>1, <1>3, <2>3, <2>6, <2>7, <2>8 DEF RememberInv
  <2> QED
    BY <2>9 DEF RememberInv
<1> QED
  BY <1>5, <1>6, <1>7, <1>8, <1>9 DEF DeliverNext

\* A restart seeds the mirror from the file, a stop rewrites states, and a crash
\* leaves nobody waiting.
LEMMA RememberLife == TypeOK /\ RememberInv /\ LifeNext => RememberInv'
<1> USE DEF vendorVars, mirrorVars, dispVars, dlvVars, toldVars
<1> SUFFICES ASSUME TypeOK, RememberInv, LifeNext
             PROVE  RememberInv'
  OBVIOUS
<1>1. \A s : AsGood(s, s)
  BY DEF AsGood
<1>2. ASSUME UNCHANGED <<resident, saved, disp>>, AsGood(store', store),
             AsGood(disk', disk) \/ AsGood(disk', store),
             AsGood(scan'.store, disk) \/ scan'.store \in {scan.store, EmptyStore}, flush' \subseteq flush
      PROVE  RememberInv'
  BY <1>1, <1>2, RememberFrame DEF Past, Late, Writing
<1>3. CASE ReleasePick \/ ReleaseFence \/ ReleaseClear \/ ReleaseRead \/ EvictInPlace
  <2>1. UNCHANGED <<resident, store, disk, saved, disp, scan, flush>>
    BY <1>3 DEF ReleasePick, ReleaseFence, ReleaseClear, ReleaseRead, EvictInPlace
  <2> QED
    BY <1>1, <1>2, <2>1
<1>4. CASE ReconcileScan
  <2>1. scan'.store = Repair(rows, disk) /\ UNCHANGED <<resident, store, disk, saved, disp, flush>>
    BY <1>4 DEF ReconcileScan
  <2>2. AsGood(Repair(rows, disk), disk)
    BY RepairFates, RowsOnly, FatesAsGood DEF TypeOK
  <2> QED
    BY <1>1, <1>2, <2>1, <2>2
<1>5. CASE ReconcileSeed
  <2>1. scan'.store = EmptyStore /\ UNCHANGED <<disk, saved, disp, flush>>
    BY <1>5 DEF ReconcileSeed, NoScan
  <2>2. CASE resident
    <3>1. UNCHANGED <<resident, store>>
      BY <1>5, <2>2 DEF ReconcileSeed
    <3> QED
      BY <1>1, <1>2, <2>1, <3>1
  <2>3. CASE ~resident
    <3>1. store' = scan.store /\ resident' = ~IsEmpty(scan.store)
      BY <1>5, <2>3 DEF ReconcileSeed
    <3>2. ~\E r \in Requests : disp'[r] = "waiting"
      BY <2>1, <2>3 DEF RememberInv
    <3>3. Past' = Past /\ Past \subseteq Requests
      BY <2>1 DEF Past, Late
    <3>4. scan.store.delivering # {} => Recalls(scan.store, Past)
      BY DEF RememberInv, Held
    <3>5. resident' => Recalls(store', Requests)
      BY <3>1, <3>3, <3>4 DEF IsEmpty, Recalls, Spent, Present
    <3>6. \A u \in Held' : u \in Held \/ u = EmptyStore
      BY <2>1, <3>1 DEF Held
    <3>7. EmptyStore.delivering = {}
      BY DEF EmptyStore
    <3>8. \A u \in Held' : u.delivering # {} => Recalls(u, Past')
      BY <3>3, <3>6, <3>7 DEF RememberInv
    <3> QED
      BY <2>1, <3>2, <3>5, <3>8 DEF RememberInv
  <2> QED
    BY <2>2, <2>3
<1>6. CASE ReleaseSettle
  <2>1. store' = Repair(relRows, store) /\ UNCHANGED <<resident, disk, saved, disp, scan, flush>>
    BY <1>6 DEF ReleaseSettle
  <2>2. AsGood(Repair(relRows, store), store)
    BY RepairFates, RowsOnly, FatesAsGood DEF TypeOK
  <2> QED
    BY <1>1, <1>2, <2>1, <2>2
<1>7. SettledStore \in Store /\ AsGood(SettledStore, store) /\ AsGood(Durable(SettledStore), store)
  BY SettledStoreType, SettledAsGood, DurableAsGood, AsGoodTrans DEF TypeOK
<1>8. CASE Stop
  <2>1. store' = SettledStore /\ disk' \in {Durable(SettledStore), disk} /\ UNCHANGED <<resident, saved, disp, scan, flush>>
    BY <1>8 DEF Stop, StopsProcess
  <2> QED
    BY <1>1, <1>2, <1>7, <2>1
<1>9. CASE StopDetached
  <2>1. /\ store' = SettledStore /\ UNCHANGED <<resident, disk, saved, disp, scan>>
        /\ flush' = IF resident THEN flush \union {SettledStore} ELSE flush
    BY <1>9 DEF StopDetached, StopsProcess
  <2>2. CASE ~resident
    BY <1>1, <1>2, <1>7, <2>1, <2>2
  <2>3. CASE resident
    <3> DEFINE s == SettledStore
    <3>1. Past' = Past /\ Past \subseteq Requests /\ (Writing' => Writing)
      BY <2>1 DEF Past, Late, Writing
    <3>2. store \in Held /\ \A L : L \subseteq Requests /\ Recalls(store, L) => Recalls(s, L)
      BY <1>7, RecallsMore DEF Held
    <3>3. s.delivering # {} => Recalls(s, Past)
      BY <1>7, <3>1, <3>2 DEF RememberInv, AsGood
    <3>4. Recalls(s, Requests) /\ (Recalls(store, Past) => Recalls(s, Past))
      BY <2>3, <3>1, <3>2 DEF RememberInv
    <3> HIDE DEF s
    <3>5. store' = s /\ flush' = flush \union {s}
      BY <2>1, <2>3 DEF s
    <3>6. \A u \in Held' : u \in Held \/ u = s
      BY <2>1, <3>5 DEF Held
    <3>7. /\ \A u \in Held' : u.delivering # {} => Recalls(u, Past')
          /\ resident' => Recalls(store', Requests)
          /\ \A u \in flush' : Recalls(u, Requests)
          /\ (\E x \in Requests : disp'[x] = "waiting") =>
               /\ resident'
               /\ \A u \in {disk', store'} \union flush' : Recalls(u, Past')
               /\ Writing' => Recalls(saved', Past')
      BY <2>1, <2>3, <3>1, <3>3, <3>4, <3>5, <3>6 DEF RememberInv
    <3> QED
      BY <3>7 DEF RememberInv
  <2> QED
    BY <2>2, <2>3
<1>10. ASSUME NEW s \in flush, FlushSettlement(s)
       PROVE  RememberInv'
  <2>1. /\ disk' \in {Durable(s), disk} /\ flush' = flush \ {s}
        /\ UNCHANGED <<resident, store, saved, disp, scan>>
    BY <1>10 DEF FlushSettlement, Persist, PersistOk, PersistFail
  <2>2. Past' = Past /\ Past \subseteq Requests /\ (Writing' => Writing)
    BY <2>1 DEF Past, Late, Writing
  <2>3. AsGood(Durable(s), s) /\ s \in Held
    BY DurableAsGood DEF TypeOK, Held
  <2>4. \A L : L \subseteq Requests /\ Recalls(s, L) => Recalls(Durable(s), L)
    BY <2>3, RecallsMore
  <2>5. Durable(s).delivering # {} => Recalls(Durable(s), Past)
    BY <2>2, <2>3, <2>4 DEF RememberInv, AsGood
  <2>6. \A u \in Held' : u \in Held \/ u = Durable(s)
    BY <2>1 DEF Held
  <2>7. /\ \A u \in Held' : u.delivering # {} => Recalls(u, Past')
        /\ resident' => Recalls(store', Requests)
        /\ \A u \in flush' : Recalls(u, Requests)
        /\ (\E x \in Requests : disp'[x] = "waiting") =>
             /\ resident'
             /\ \A u \in {disk', store'} \union flush' : Recalls(u, Past')
             /\ Writing' => Recalls(saved', Past')
    BY <2>1, <2>2, <2>4, <2>5, <2>6 DEF RememberInv
  <2> QED
    BY <2>7 DEF RememberInv
<1>11. CASE Crash
  <2>1. /\ resident' = FALSE /\ store' = EmptyStore /\ saved' = EmptyStore /\ flush' = {} /\ disk' = disk
        /\ scan'.store = EmptyStore
        /\ disp' = [r \in Requests |-> IF disp[r] \in {"new", "closed"} THEN disp[r] ELSE "gone"]
    BY <1>11 DEF Crash, NoScan
  <2>2. Past \subseteq Past' /\ ~\E r \in Requests : disp'[r] = "waiting"
    BY <2>1 DEF Past, Late
  <2>3. \A u \in Held' : u \in Held \/ u = EmptyStore
    BY <2>1 DEF Held
  <2>4. EmptyStore.delivering = {}
    BY DEF EmptyStore
  <2>5. \A u \in Held' : u.delivering # {} => Recalls(u, Past')
    BY <2>2, <2>3, <2>4 DEF RememberInv, Recalls
  <2> QED
    BY <2>1, <2>2, <2>5 DEF RememberInv
<1> QED
  BY <1>3, <1>4, <1>5, <1>6, <1>8, <1>9, <1>10, <1>11 DEF LifeNext

\* The call that is dropped in its write was in hand, or is not even that yet.
LEMMA LateCalls ==
  ASSUME LateNext
  PROVE  \/ UNCHANGED <<disp, waits, suppressed>>
         \/ \E r \in Requests :
              /\ disp[r] \in InHand \union {"new"} /\ disp' = [disp EXCEPT ![r] = "gone"]
              /\ UNCHANGED <<waits, suppressed>> \/ (disp[r] = "accepted" /\ DropRow(r))
<1> USE DEF vendorVars, mirrorVars, dispVars, dlvVars, toldVars
<1>1. ASSUME NEW r \in Requests, SubmitFailOutlives(r)
      PROVE  disp[r] = "accepted" /\ DropRow(r) /\ disp' = [disp EXCEPT ![r] = "gone"]
  BY <1>1 DEF SubmitFailOutlives, CallGone
<1>2. ASSUME NEW r \in Requests,
             (\E p \in Parents, n \in Notifies : AcceptOutlives(r, p, n)) \/ RollbackOutlives(r) \/ BindOutlives(r)
      PROVE  /\ disp[r] \in InHand \union {"new"} /\ disp' = [disp EXCEPT ![r] = "gone"]
             /\ UNCHANGED <<waits, suppressed>>
  BY <1>2 DEF AcceptOutlives, RollbackOutlives, BindOutlives, CallGone, InHand
<1>3. ASSUME NEW w \in late, LateLands(w)
      PROVE  UNCHANGED <<disp, waits, suppressed>>
  BY <1>3 DEF LateLands
<1> QED
  BY <1>1, <1>2, <1>3 DEF LateNext, InHand

\* As long as none of them lands, a call dropped in its write leaves what a drop of
\* its row, or its bind, would.
LEMMA RememberLate ==
  ASSUME TypeOK, TypeOK', ClaimInv, LateInv, NoneLanded', LateNext, RememberInv
  PROVE  RememberInv'
<1>1. Past \subseteq Past' /\ Past' \subseteq Requests
  BY PastStays DEF Next
<1>2. disk' = disk /\ UNCHANGED <<saved, scan, flush>> /\ ~Writing'
  <2>1. disk' = disk /\ \A q \in Requests : disp'[q] \notin InHand
    BY GoneFromItsWrite
  <2> QED
    BY <2>1, LateLeaves DEF Writing, InHand
<1>3. \A x \in Requests : disp'[x] = "waiting" => disp[x] = "waiting"
  BY LateCalls DEF TypeOK
<1>4. \A s : AsGood(s, s)
  BY DEF AsGood
<1>5. \E r \in Requests :
        \/ UNCHANGED mirrorVars
        \/ disp[r] \in InHand /\ DropRow(r)
        \/ /\ disp[r] \in InHand
           /\ store' = BoundStore(r, FALSE) /\ UNCHANGED <<resident, deliveringNow>>
  BY GoneFromItsWrite
<1>6. CASE UNCHANGED mirrorVars
  <2>1. UNCHANGED <<store, resident>>
    BY <1>6 DEF mirrorVars
  <2> QED
    BY <1>1, <1>2, <1>3, <1>4, <2>1, RememberFrame
<1>7. ASSUME NEW r \in Requests, disp[r] \in InHand, DropRow(r)
      PROVE  RememberInv'
  <2>1. r \notin Past
    BY <1>7 DEF Past, Late, InHand
  <2> QED
    BY <1>1, <1>2, <1>3, <1>7, <2>1, RememberDrop
<1>8. ASSUME NEW r \in Requests, store' = BoundStore(r, FALSE), UNCHANGED <<resident, deliveringNow>>
      PROVE  RememberInv'
  <2> DEFINE s == BoundStore(r, FALSE)
  <2>1. /\ SameMarks(s, store) /\ \A x \in Requests : x # r => s.req[x] = store.req[x]
        /\ Present(s.req[r])
    BY BoundFates DEF Open, OpenState, Present
  <2> HIDE DEF s
  <2>2. AsGood(s, store)
    BY <2>1 DEF AsGood, SameMarks, Spent
  <2> QED
    BY <1>1, <1>2, <1>3, <1>4, <1>8, <2>2, RememberFrame DEF s
<1> QED
  BY <1>5, <1>6, <1>7, <1>8

\* RememberInv holds until the late write of a dropped call lands.
THEOREM MirrorIsKept == Spec => [](NoneLanded => RememberInv)
<1> USE DEF vendorVars, mirrorVars, dispVars, dlvVars, toldVars
<1>1. Init => RememberInv
  <2> SUFFICES ASSUME Init PROVE RememberInv
    OBVIOUS
  <2>1. \A u \in Held : u.delivering = {}
    BY DEF Init, Held, NoScan, EmptyStore
  <2> QED
    BY <2>1 DEF Init, RememberInv
<1>2. TypeOK /\ RememberInv /\ UNCHANGED vars => RememberInv'
  <2> SUFFICES ASSUME TypeOK, RememberInv, UNCHANGED vars PROVE RememberInv'
    OBVIOUS
  <2>1. \A s : AsGood(s, s)
    BY DEF AsGood
  <2>2. UNCHANGED <<resident, store, disk, saved, scan, flush, disp>>
    BY DEF vars
  <2> QED
    BY <2>1, <2>2, RememberFrame DEF Past, Late, Writing
<1>3. AnswerLedger => TermsKept
  BY DEF AnswerLedger
<1>4. TypeOK /\ TypeOK' /\ LateInv /\ [Next]_vars /\ NoneLanded' => NoneLanded
  BY NoneLandedBefore
<1>5. /\ TypeOK /\ TypeOK' /\ ClaimInv /\ LateInv /\ OwnInv /\ TermsKept /\ [Next]_vars
      /\ FileInv /\ RememberInv /\ NoneLanded'
      => RememberInv'
  <2>1. SUFFICES ASSUME TypeOK, TypeOK', ClaimInv, LateInv, OwnInv, TermsKept, [Next]_vars, FileInv,
                        RememberInv, NoneLanded'
                 PROVE  RememberInv'
    OBVIOUS
  <2>2. CASE LateNext
    BY <2>1, <2>2, RememberLate
  <2>3. CASE DispatchNext \/ VendorNext \/ DeliverNext \/ LifeNext \/ UNCHANGED vars
    BY <1>2, <2>1, <2>3, RememberDispatch, RememberVendor, RememberDeliver, RememberLife
  <2> QED
    BY <2>1, <2>2, <2>3 DEF Next
<1> QED
  BY <1>1, <1>3, <1>4, <1>5, TypeCorrect, ClaimSerialises, ClaimKeepsTheFile, LateNumbered, WorkIsOwned, LedgerInvariant,
     PTL DEF Spec


-----------------------------------------------------------------------------
(* A waiter that comes back without an answer is told in the other way.     *)

\* The answer is still this waiter's: it did not come back without one, and will
\* not, for release_request_wait finds that a boundary was kept for it.
Kept(r) == got[r] # "pending" /\ (disp[r] = "waiting" => r \in suppressed)

\* Who came back without an answer is over, and waits no more.
PendingOver == \A r \in Requests : got[r] = "pending" => disp[r] = "closed" /\ r \notin waits

\* An answer its parent is not told of is kept for the waiter, and so is one on
\* its way.
KeptRow(q, r) == Answered(q) /\ ~q.notified /\ q.notify # "off" => Kept(r)
KeptDelivery(d, C) ==
  \A r \in d.resolved \ d.pushed : Kept(r) \/ \A s \in C : Present(s.req[r]) => s.req[r].notify = "off"

\* The inductive strengthening of NotNeither.
QuietInv ==
  /\ PendingOver
  /\ \A s \in Copies : \A r \in Requests : KeptRow(s.req[r], r)
  /\ \A d \in inflight : KeptDelivery(d, Copies)

\* A row dropped forgets nobody's but its own.
LEMMA KeptDrop ==
  ASSUME TypeOK, RememberInv, PendingOver, NEW r \in Requests, disp[r] = "accepted", DropRow(r), got' = got,
         NEW y, y \in {"closed", "gone"}, disp' = [disp EXCEPT ![r] = y]
  PROVE  PendingOver' /\ \A x \in Requests : Late(x) /\ Kept(x) => Kept(x)'
<1> DEFINE s == Without(store, {r})
<1>1. ASSUME waits' \subseteq waits,
             \A x \in Requests : x # r /\ disp[x] = "waiting" /\ x \in suppressed => x \in suppressed'
      PROVE  PendingOver' /\ \A x \in Requests : Late(x) /\ Kept(x) => Kept(x)'
  BY <1>1 DEF PendingOver, Kept, Late, TypeOK
<1>2. CASE IsEmpty(s)
  <2>1. SameMarks(s, store) /\ \A x \in Requests : x # r => s.req[x] = store.req[x]
    BY WithoutFates, RowsOnly DEF TypeOK
  <2>2. ~Recalls(store, Past)
    BY <1>2, <2>1 DEF Recalls, IsEmpty, Spent, Present, SameMarks, Past, Late
  <2>3. ~\E x \in Requests : disp[x] = "waiting"
    BY <2>2 DEF RememberInv
  <2> QED
    BY <1>1, <2>3, DropRowShrinks
<1>3. CASE ~IsEmpty(s)
  <2>1. waits' = waits \ {r} /\ suppressed' = suppressed \ {r}
    BY <1>3, Zenon DEF DropRow
  <2> QED
    BY <1>1, <2>1
<1> QED
  BY <1>2, <1>3

\* A suppression is forgotten only by who was never bound, or by who reads it.
LEMMA KeptDispatch ==
  TypeOK /\ ClaimInv /\ RememberInv /\ PendingOver /\ DispatchNext =>
    PendingOver' /\ \A r \in Requests : Late(r) /\ Kept(r) => Kept(r)'
<1> USE DEF vendorVars, mirrorVars, dispVars, dlvVars, toldVars
<1> SUFFICES ASSUME TypeOK, ClaimInv, RememberInv, PendingOver, DispatchNext, NEW r \in Requests,
                    \/ \E p \in Parents, n \in Notifies, w \in Waiting : AcceptWrite(r, p, n, w)
                    \/ AcceptCommit(r) \/ AcceptRollback(r)
                    \/ \E t \in Turns : SubmitStarted(r, t) \/ SubmitInjected(r, t) \/ SubmitQueued(r, t)
                    \/ SubmitFail(r) \/ Bind(r) \/ Cancel(r)
                    \/ WaitClaimLapses(r) \/ WaiterReleases(r) \/ WaiterReads(r)
             PROVE  PendingOver' /\ \A x \in Requests : Late(x) /\ Kept(x) => Kept(x)'
  BY DEF DispatchNext
<1>1. ASSUME NEW y, disp' = [disp EXCEPT ![r] = y], disp[r] # "closed" \/ y = "closed", got' = got,
             waits' \subseteq waits \union {r}, r \in waits' => disp[r] # "closed",
             ~Late(r) \/ y # "waiting",
             \A x \in Requests : Late(x) /\ disp[x] = "waiting" /\ x \in suppressed => x \in suppressed'
      PROVE  PendingOver' /\ \A x \in Requests : Late(x) /\ Kept(x) => Kept(x)'
  BY <1>1 DEF PendingOver, Kept, TypeOK
<1>2. CASE \E p \in Parents, n \in Notifies, w \in Waiting : AcceptWrite(r, p, n, w)
  <2>1. /\ disp[r] = "new" /\ disp' = [disp EXCEPT ![r] = "writing"]
        /\ UNCHANGED <<got, waits, suppressed>>
    BY <1>2 DEF AcceptWrite
  <2> QED
    BY <2>1, <1>1 DEF Late
<1>3. CASE AcceptCommit(r)
  <2>1. /\ disp[r] = "writing" /\ disp' = [disp EXCEPT ![r] = "accepted"] /\ got' = got
        /\ waits' \subseteq waits \union {r} /\ suppressed \subseteq suppressed' \union {r}
    BY <1>3 DEF AcceptCommit
  <2> QED
    BY <2>1, <1>1 DEF Late
<1>4. CASE SubmitFail(r)
  <2>1. disp[r] = "accepted" /\ DropRow(r) /\ disp' = [disp EXCEPT ![r] = "closed"] /\ got' = got
    BY <1>4 DEF SubmitFail
  <2> QED
    BY <2>1, KeptDrop
<1>5. CASE WaiterReleases(r)
  <2>1. /\ disp[r] = "waiting" /\ waits' = waits \ {r} /\ suppressed' = suppressed \ {r}
        /\ \/ disp' = [disp EXCEPT ![r] = "reading"] /\ got' = got
           \/ /\ r \notin suppressed
              /\ disp' = [disp EXCEPT ![r] = "closed"] /\ got' = [got EXCEPT ![r] = "pending"]
    BY <1>5 DEF WaiterReleases
  <2> QED
    BY <2>1 DEF PendingOver, Kept, TypeOK
<1>6. CASE WaiterReads(r)
  <2>1. PICK v : v # "pending" /\ got' = [got EXCEPT ![r] = v]
    BY <1>6 DEF WaiterReads
  <2>2. disp' = [disp EXCEPT ![r] = "closed"] /\ UNCHANGED <<waits, suppressed>>
    BY <1>6 DEF WaiterReads
  <2> QED
    BY <2>1, <2>2 DEF PendingOver, Kept, TypeOK
<1>7. CASE WaitClaimLapses(r)
  <2>1. waits' = waits \ {r} /\ UNCHANGED <<got, disp, suppressed>>
    BY <1>7 DEF WaitClaimLapses
  <2> QED
    BY <2>1 DEF PendingOver, Kept
<1>8. CASE AcceptRollback(r) \/ Bind(r) \/ Cancel(r)
           \/ \E t \in Turns : SubmitStarted(r, t) \/ SubmitInjected(r, t) \/ SubmitQueued(r, t)
  <2>1. /\ UNCHANGED <<got, waits, suppressed>>
        /\ disp[r] # "closed"
        /\ \E y : disp' = [disp EXCEPT ![r] = y] /\ (~Late(r) \/ y # "waiting")
    BY <1>8 DEF AcceptRollback, Bind, Cancel, SubmitStarted, SubmitInjected, SubmitQueued, Late
  <2>2. PICK y : disp' = [disp EXCEPT ![r] = y] /\ (~Late(r) \/ y # "waiting")
    BY <2>1
  <2>3. waits' \subseteq waits \union {r}
    BY <2>1
  <2> QED
    BY <1>1, <2>1, <2>2, <2>3
<1> QED
  BY <1>2, <1>3, <1>4, <1>5, <1>6, <1>7, <1>8

\* Nor does a call dropped in its write forget another one's.
LEMMA KeptLate ==
  TypeOK /\ RememberInv /\ PendingOver /\ LateNext =>
    PendingOver' /\ \A r \in Requests : Late(r) /\ Kept(r) => Kept(r)'
<1> SUFFICES ASSUME TypeOK, RememberInv, PendingOver, LateNext
             PROVE  PendingOver' /\ \A x \in Requests : Late(x) /\ Kept(x) => Kept(x)'
  OBVIOUS
<1>1. got' = got
  BY LateLeaves
<1>2. CASE UNCHANGED <<disp, waits, suppressed>>
  BY <1>1, <1>2 DEF PendingOver, Kept
<1>3. ASSUME NEW r \in Requests, disp[r] \in InHand \union {"new"}, disp' = [disp EXCEPT ![r] = "gone"],
             UNCHANGED <<waits, suppressed>>
      PROVE  PendingOver' /\ \A x \in Requests : Late(x) /\ Kept(x) => Kept(x)'
  BY <1>1, <1>3 DEF PendingOver, Kept, Late, InHand, TypeOK
<1>4. ASSUME NEW r \in Requests, disp[r] = "accepted", DropRow(r), disp' = [disp EXCEPT ![r] = "gone"]
      PROVE  PendingOver' /\ \A x \in Requests : Late(x) /\ Kept(x) => Kept(x)'
  BY <1>1, <1>4, KeptDrop
<1> QED
  BY <1>2, <1>3, <1>4, LateCalls

\* Nobody else forgets one; a crash leaves nobody waiting.
LEMMA KeptStays ==
  TypeOK /\ ClaimInv /\ RememberInv /\ PendingOver /\ [Next]_vars =>
    PendingOver' /\ \A r \in Requests : Late(r) /\ Kept(r) => Kept(r)'
<1> USE DEF vendorVars, mirrorVars, dispVars, dlvVars, toldVars
<1>1. ASSUME PendingOver, UNCHANGED <<got, disp, waits>>, suppressed \subseteq suppressed'
      PROVE  PendingOver' /\ \A r \in Requests : Late(r) /\ Kept(r) => Kept(r)'
  BY <1>1 DEF PendingOver, Kept
<1>2. VendorNext \/ UNCHANGED vars => UNCHANGED <<got, disp, waits>> /\ suppressed \subseteq suppressed'
  BY DEF VendorNext, HumanTurn, OpenParked, OpenContinuation, TurnOpens, Narrate, TurnEnds, FailTurn,
         EndTurn, EndTurnReleased, EndTurnUnrecorded, vars
<1>3. DeliverNext => UNCHANGED <<got, disp, waits>> /\ suppressed \subseteq suppressed'
  BY DEF DeliverNext, PulseIgnored, PulseOpened, PulseHeld, PulseSettled, GraceExpires, PlanNothing,
         Plan, PlanAbandoned, NotifyParent, ParentUnreachable, Commit
<1>4. LifeNext => Crash \/ UNCHANGED <<got, disp, waits, suppressed>>
  BY DEF LifeNext, ReconcileScan, ReconcileSeed, ReleasePick, ReleaseFence, ReleaseClear, ReleaseRead,
         ReleaseSettle, EvictInPlace, Stop, StopDetached, StopsProcess, FlushSettlement
<1>5. ASSUME TypeOK, PendingOver, Crash
      PROVE  PendingOver' /\ \A r \in Requests : Late(r) /\ Kept(r) => Kept(r)'
  <2>1. /\ got' = got /\ waits' = {}
        /\ disp' = [r \in Requests |-> IF disp[r] \in {"new", "closed"} THEN disp[r] ELSE "gone"]
    BY <1>5 DEF Crash
  <2> QED
    BY <1>5, <2>1 DEF PendingOver, Kept
<1> QED
  BY <1>1, <1>2, <1>3, <1>4, <1>5, KeptDispatch, KeptLate DEF Next

\* An answered row stays kept for its waiter where it comes from a kept one,
LEMMA QuietRows ==
  ASSUME OwnInv, QuietInv, \A x \in Requests : Late(x) /\ Kept(x) => Kept(x)',
         NEW u, NEW r \in Requests,
         ~Answered(u.req[r]) \/ \E v \in Copies : Weakens(u.req[r], v.req[r])
  PROVE  KeptRow(u.req[r], r)'
<1>1. SUFFICES ASSUME Answered(u.req[r]), ~u.req[r].notified, u.req[r].notify # "off",
                      NEW v \in Copies, Weakens(u.req[r], v.req[r])
               PROVE  Kept(r)'
  BY DEF KeptRow
<1>2. Present(u.req[r])
  BY <1>1 DEF Answered, Present
<1>3. Answered(v.req[r]) /\ ~v.req[r].notified /\ v.req[r].notify # "off"
  BY <1>1, <1>2 DEF Weakens, Keeps
<1>4. Kept(r)
  BY <1>3 DEF QuietInv, KeptRow
<1>5. Late(r)
  BY <1>3 DEF OwnInv, CopiesOwned, StoreOwned, RowOwned
<1> QED
  BY <1>4, <1>5

\* ... and so does one on its way, where the copies keep their terms.
LEMMA QuietDelivery ==
  ASSUME TypeOK, OwnInv, QuietInv, \A x \in Requests : Late(x) /\ Kept(x) => Kept(x)',
         \A u \in Copies' : \A q \in Requests : disp[q] = "new" \/ \E v \in Copies : Keeps(u.req[q], v.req[q]),
         NEW d \in inflight, NEW e, e.resolved = d.resolved, e.pushed = d.pushed
  PROVE  KeptDelivery(e, Copies)'
<1> SUFFICES ASSUME NEW r \in d.resolved, r \notin d.pushed
             PROVE  Kept(r)' \/ \A s \in Copies' : Present(s.req[r]) => s.req[r].notify = "off"
  BY DEF KeptDelivery
<1>1. r \in Requests /\ Late(r)
  BY DEF TypeOK, Delivery, OwnInv, DeliveriesOwned, DeliveryOwned
<1>2. Kept(r) \/ \A s \in Copies : Present(s.req[r]) => s.req[r].notify = "off"
  BY DEF QuietInv, KeptDelivery
<1>3. disp[r] # "new"
  BY <1>1 DEF Late
<1>4. \A u \in Copies' : \E v \in Copies : Keeps(u.req[r], v.req[r])
  BY <1>1, <1>3
<1> QED
  BY <1>1, <1>2, <1>4 DEF Keeps

\* A step that weakens the copies keeps all of it.
LEMMA QuietWeakens ==
  ASSUME TypeOK, ClaimInv, OwnInv, RememberInv, QuietInv, [Next]_vars, OnlyWeakens
  PROVE  QuietInv'
<1>1. PendingOver' /\ \A r \in Requests : Late(r) /\ Kept(r) => Kept(r)'
  BY KeptStays DEF QuietInv
<1>2. \A u \in Copies' : \A r \in Requests : \E v \in Copies : Weakens(u.req[r], v.req[r])
  BY WeakensCopies DEF WeakensAll
<1>3. \A u \in Copies' : \A r \in Requests : KeptRow(u.req[r], r)'
  BY <1>1, <1>2, QuietRows
<1>4. \A d \in inflight' : KeptDelivery(d, Copies)'
  <2>1. inflight' \subseteq inflight
    BY DEF OnlyWeakens
  <2> QED
    BY <1>1, <1>2, <2>1, QuietDelivery DEF Weakens
<1> QED
  BY <1>1, <1>3, <1>4 DEF QuietInv


\* The accepted row is no answer.
LEMMA QuietAccept ==
  ASSUME TypeOK, ClaimInv, OwnInv, RememberInv, QuietInv, [Next]_vars,
         NEW r \in Requests, NEW p \in Parents, NEW n \in Notifies, TakesRow(r, p, n)
  PROVE  QuietInv'
<1> USE DEF vendorVars, mirrorVars, dispVars, dlvVars, toldVars
<1> DEFINE s0 == [disk EXCEPT !.req[r] = Accepted(p, n)]
           s  == Accept(disk, r, p, n)
<1>1. s0 \in Store
  <2>1. Accepted(p, n) \in Request
    BY NotifiesAssumption DEF Accepted, Request, OpenState
  <2> QED
    BY <2>1, WithRowType DEF TypeOK
<1>2. WeakensAll(s, s0)
  BY <1>1, WithoutWeakens DEF Accept, Prune
<1>3. \A q \in Requests : s0.req[q] = IF q = r THEN Accepted(p, n) ELSE disk.req[q]
  BY DEF TypeOK, Store
<1>4. \A q \in Requests : q # r => Weakens(s.req[q], disk.req[q])
  BY <1>2, <1>3 DEF WeakensAll
<1>5. ~Answered(s.req[r])
  <2>1. Weakens(s.req[r], Accepted(p, n))
    BY <1>2, <1>3 DEF WeakensAll
  <2> QED
    BY <2>1 DEF Weakens, Accepted, Answered
<1> HIDE DEF s, s0
<1>6. disp[r] = "new" /\ inflight' = inflight /\ \A u \in Copies' : u = s \/ u \in Copies
  BY DEF TakesRow, s
<1>7. \A u \in Copies' : \A q \in Requests :
        (q = r /\ ~Answered(u.req[q])) \/ \E v \in Copies : Weakens(u.req[q], v.req[q])
  <2>1. \A q : \A v : Weakens(v.req[q], v.req[q])
    BY DEF Weakens, Keeps
  <2>2. disk \in Copies
    BY DEF Copies
  <2> QED
    BY <1>4, <1>5, <1>6, <2>1, <2>2
<1>8. PendingOver' /\ \A x \in Requests : Late(x) /\ Kept(x) => Kept(x)'
  BY KeptStays DEF QuietInv
<1>9. \A u \in Copies' : \A q \in Requests : KeptRow(u.req[q], q)'
  BY <1>7, <1>8, QuietRows
<1>10. \A u \in Copies' : \A q \in Requests : disp[q] = "new" \/ \E v \in Copies : Keeps(u.req[q], v.req[q])
  BY <1>6, <1>7 DEF Weakens
<1>11. \A d \in inflight' : KeptDelivery(d, Copies)'
  BY <1>6, <1>8, <1>10, QuietDelivery
<1> QED
  BY <1>8, <1>9, <1>11 DEF QuietInv

\* A plan suppresses the boundary for whoever it does not push to and waits.
LEMMA QuietPlan ==
  ASSUME TypeOK, ClaimInv, OwnInv, TermsKept, RememberInv, QuietInv, [Next]_vars, NEW d \in due, Plan(d)
  PROVE  QuietInv'
<1> USE DEF vendorVars, mirrorVars, dispVars, dlvVars, toldVars
<1> DEFINE s == BeginDelivery(store, KeyOf(d))
<1>0. PICK e : e = PlannedDelivery(d)
  OBVIOUS
<1>1. s \in Store /\ WeakensAll(s, store)
  <2>1. KeyOf(d) \in Key
    BY KeyOfType DEF TypeOK, DueBoundary
  <2> QED
    BY <2>1, MarkerType, SameRows DEF TypeOK
<1>2. WeakensAll(Durable(s), store)
  BY <1>1, DurableWeakens, WeakensTrans
<1>3. store \in Copies /\ \A u \in Copies' : u \in {Durable(s), s} \/ u \in Copies
  BY DEF Plan, PersistOk, Copies
<1>4. \A u \in Copies' : \A r \in Requests : \E v \in Copies : Weakens(u.req[r], v.req[r])
  <2>1. \A u \in Copies' : \E v \in Copies : WeakensAll(u, v)
    BY <1>1, <1>2, <1>3, SameRows DEF Copies
  <2> QED
    BY <2>1 DEF WeakensAll
<1>5. /\ UNCHANGED got /\ inflight' = inflight \union {e}
      /\ suppressed' = suppressed \union (BoundTo(store, d.turn) \intersect waits)
  BY <1>0 DEF Plan
<1>6. /\ e.resolved = BoundTo(store, d.turn)
      /\ e.pushed = {r \in BoundTo(store, d.turn) : store.req[r].notify # "off" /\ r \notin waits}
  BY <1>0 DEF PlannedDelivery
<1>7. \A r \in e.resolved : r \in Requests /\ Present(store.req[r])
  BY <1>6 DEF BoundTo, Outstanding, OpenState, Present
<1> HIDE DEF s
<1>8. PendingOver' /\ \A x \in Requests : Late(x) /\ Kept(x) => Kept(x)'
  BY KeptStays DEF QuietInv
<1>9. \A u \in Copies' : \A r \in Requests : KeptRow(u.req[r], r)'
  BY <1>4, <1>8, QuietRows
<1>10. ASSUME NEW r \in e.resolved, r \notin e.pushed
       PROVE  Kept(r)' \/ \A u \in Copies' : Present(u.req[r]) => u.req[r].notify = "off"
  <2>1. CASE r \in waits
    BY <1>5, <1>6, <1>7, <1>10, <2>1 DEF Kept, QuietInv, PendingOver
  <2>2. CASE r \notin waits
    <3>1. r \in Requests /\ Present(store.req[r]) /\ store.req[r].notify = "off"
      BY <1>6, <1>7, <1>10, <2>2
    <3>2. ASSUME NEW u \in Copies', Present(u.req[r])
          PROVE  u.req[r].notify = "off"
      <4>1. PICK v \in Copies : Weakens(u.req[r], v.req[r])
        BY <1>4, <3>1
      <4> QED
        BY <1>3, <3>1, <3>2, <4>1 DEF Weakens, Keeps, TermsKept
    <3> QED
      BY <3>2
  <2> QED
    BY <2>1, <2>2
<1>11. \A x \in inflight' : KeptDelivery(x, Copies)'
  <2>1. KeptDelivery(e, Copies)'
    BY <1>10 DEF KeptDelivery
  <2>2. \A x \in inflight : KeptDelivery(x, Copies)'
    BY <1>4, <1>8, QuietDelivery DEF Weakens
  <2> QED
    BY <1>5, <2>1, <2>2
<1> QED
  BY <1>8, <1>9, <1>11 DEF QuietInv

\* Telling a parent, or finding that it cannot be told, changes no verdict.
LEMMA QuietNotify ==
  ASSUME TypeOK, ClaimInv, OwnInv, RememberInv, QuietInv, [Next]_vars, NEW d \in inflight, NEW p \in Parents,
         NotifyParent(d, p) \/ ParentUnreachable(d, p)
  PROVE  QuietInv'
<1> USE DEF vendorVars, mirrorVars, dispVars, dlvVars, toldVars
<1>1. d \in Delivery
  BY DEF TypeOK
<1>2. PICK e : inflight' = (inflight \ {d}) \union {e} /\ e.resolved = d.resolved /\ e.pushed = d.pushed
  <2> DEFINE a == [d EXCEPT !.carry[p] = {}]
             b == [d EXCEPT !.carry[p] = {}, !.dropped = @ \union d.carry[p]]
  <2>1. inflight' = (inflight \ {d}) \union {a} \/ inflight' = (inflight \ {d}) \union {b}
    BY DEF NotifyParent, ParentUnreachable
  <2>2. a.resolved = d.resolved /\ a.pushed = d.pushed /\ b.resolved = d.resolved /\ b.pushed = d.pushed
    BY <1>1 DEF Delivery
  <2> HIDE DEF a, b
  <2> QED
    BY <2>1, <2>2
<1>3. Copies' = Copies
  BY DEF NotifyParent, ParentUnreachable, Copies
<1>4. PendingOver' /\ \A x \in Requests : Late(x) /\ Kept(x) => Kept(x)'
  BY KeptStays DEF QuietInv
<1>5. \A u \in Copies' : \A r \in Requests : \E v \in Copies : Weakens(u.req[r], v.req[r])
  BY <1>3 DEF Weakens, Keeps
<1>6. \A u \in Copies' : \A r \in Requests : KeptRow(u.req[r], r)'
  BY <1>4, <1>5, QuietRows
<1>7. KeptDelivery(e, Copies)' /\ \A x \in inflight : KeptDelivery(x, Copies)'
  BY <1>2, <1>4, <1>5, QuietDelivery DEF Weakens
<1> QED
  BY <1>2, <1>4, <1>6, <1>7 DEF QuietInv

\* A commit answers what its delivery resolved, and marks what it told.
LEMMA QuietCommit ==
  ASSUME TypeOK, ClaimInv, OwnInv, RememberInv, QuietInv, [Next]_vars, NEW d \in inflight, Commit(d)
  PROVE  QuietInv'
<1> USE DEF vendorVars, mirrorVars, dispVars, dlvVars, toldVars
<1> DEFINE s == CommittedStore(d)
<1>1. d \in Delivery /\ store \in Store /\ store \in Copies
  BY DEF TypeOK, Copies
<1>2. s \in Store /\ KeepsAll(s, store)
  BY <1>1, CommittedStoreType, CommittedKeeps
<1>3. WeakensAll(Durable(s), s) /\ SameFates(Durable(s), s)
  BY <1>2, DurableWeakens, DurableFates
<1>4. PendingOver' /\ \A x \in Requests : Late(x) /\ Kept(x) => Kept(x)'
  BY KeptStays DEF QuietInv
<1>5. ASSUME NEW r \in Requests, Answered(s.req[r]), ~s.req[r].notified, s.req[r].notify # "off"
      PROVE  Kept(r)'
  <2>1. CASE s.req[r] = store.req[r]
    <3>1. \A u \in Copies : KeptRow(u.req[r], r)'
      <4>1. \A u : Weakens(u.req[r], u.req[r])
        BY DEF Weakens, Keeps
      <4> QED
        BY <1>4, <4>1, QuietRows
    <3>2. \A u \in Copies : Answered(u.req[r]) /\ ~u.req[r].notified /\ u.req[r].notify # "off" => Kept(r)'
      BY <3>1 DEF KeptRow
    <3> QED
      BY <1>1, <1>5, <2>1, <3>2
  <2>2. CASE /\ r \in d.resolved /\ Present(store.req[r])
             /\ s.req[r].notify = store.req[r].notify /\ s.req[r].notified = (r \in d.pushed)
    <3>1. r \in d.resolved \ d.pushed
      BY <1>5, <2>2
    <3>2. Kept(r)
      BY <1>1, <1>5, <2>2, <3>1 DEF QuietInv, KeptDelivery
    <3>3. Late(r)
      BY <3>1 DEF OwnInv, DeliveriesOwned, DeliveryOwned
    <3> QED
      BY <1>4, <3>2, <3>3
  <2>3. s.req[r] # Absent
    BY <1>5 DEF Absent, Answered
  <2> QED
    BY <1>1, <2>1, <2>2, <2>3, CommittedFates
<1>6. UNCHANGED <<draft, saved, scan, flush, late>> /\ inflight' \subseteq inflight /\ store' = s /\ disk' \in {Durable(s), disk}
  BY DEF Commit, Persist, PersistOk, PersistFail
<1> HIDE DEF s
<1>7. \A u \in Copies' : u = s \/ u = Durable(s) \/ u \in Copies
  BY <1>6 DEF Copies
<1>8. \A u \in Copies' : \A r \in Requests : KeptRow(u.req[r], r)'
  <2> SUFFICES ASSUME NEW u \in Copies', NEW r \in Requests PROVE KeptRow(u.req[r], r)'
    OBVIOUS
  <2>1. CASE u = s
    BY <1>5, <2>1 DEF KeptRow
  <2>2. CASE u = Durable(s)
    <3>1. Weakens(u.req[r], s.req[r])
      BY <1>3, <2>2 DEF WeakensAll
    <3>2. Answered(u.req[r]) => Present(u.req[r])
      BY DEF Answered, Present
    <3> QED
      BY <1>5, <3>1, <3>2 DEF KeptRow, Weakens, Keeps
  <2>3. CASE u \in Copies
    <3>1. Weakens(u.req[r], u.req[r])
      BY DEF Weakens, Keeps
    <3> QED
      BY <1>4, <2>3, <3>1, QuietRows
  <2> QED
    BY <1>7, <2>1, <2>2, <2>3
<1>9. \A u \in Copies' : \A r \in Requests : \E v \in Copies : Keeps(u.req[r], v.req[r])
  <2>1. KeepsAll(Durable(s), store)
    BY <1>2, <1>3 DEF KeepsAll, Keeps, WeakensAll, Weakens
  <2>2. \A u : \A r : Keeps(u.req[r], u.req[r])
    BY DEF Keeps
  <2> QED
    BY <1>1, <1>2, <1>7, <2>1, <2>2 DEF KeepsAll
<1>10. \A x \in inflight' : KeptDelivery(x, Copies)'
  BY <1>4, <1>6, <1>9, QuietDelivery
<1> QED
  BY <1>4, <1>8, <1>10 DEF QuietInv

\* Answers are told, or kept for who waits, until the late write of a dropped call
\* lands.
THEOREM AnswersAreKept == Spec => [](NoneLanded => QuietInv)
<1>1. Init => QuietInv
  <2> SUFFICES ASSUME Init PROVE QuietInv
    OBVIOUS
  <2>1. Copies = {EmptyStore}
    BY DEF Init, Copies, NoScan
  <2>2. \A r \in Requests : ~Answered(EmptyStore.req[r])
    BY DEF EmptyStore, Absent, Answered
  <2> QED
    BY <2>1, <2>2 DEF Init, QuietInv, PendingOver, KeptRow
<1>2. TypeOK /\ TermsKept /\ [Next]_vars => OnlyWeakens \/ Accepts \/ Delivers
  <2>1. TermsKept /\ UNCHANGED vars => OnlyWeakens
    <3> SUFFICES ASSUME TermsKept, UNCHANGED vars PROVE OnlyWeakens
      OBVIOUS
    <3>1. waits \subseteq wants
      BY DEF TermsKept
    <3> QED
      BY <3>1, CoveredNow DEF vars, OnlyWeakens, mirrorVars, dispVars, dlvVars, toldVars
  <2> QED
    BY <2>1, WeakensDispatch, WeakensVendor, WeakensDeliver, WeakensLife, WeakensLate DEF Next
<1>3. TypeOK /\ ClaimInv /\ OwnInv /\ TermsKept /\ RememberInv /\ QuietInv /\ [Next]_vars => QuietInv'
  BY <1>2, QuietWeakens, QuietAccept, QuietPlan, QuietNotify, QuietCommit DEF Accepts, Delivers
<1>4. AnswerLedger => TermsKept
  BY DEF AnswerLedger
<1>5. TypeOK /\ TypeOK' /\ LateInv /\ [Next]_vars /\ NoneLanded' => NoneLanded
  BY NoneLandedBefore
<1> QED
  BY <1>1, <1>3, <1>4, <1>5, TypeCorrect, ClaimSerialises, WorkIsOwned, LedgerInvariant, LateNumbered, MirrorIsKept,
     PTL DEF Spec

\* release_request_wait, one half of "exactly one of the two" (NotNeither): a
\* waiter that came back without an answer is told of it in the other way, until the
\* late write of a dropped call lands.
THEOREM NeverNeither == Spec => [](NoneLanded => NotNeither)
<1>1. AnswerLedger /\ QuietInv => NotNeither
  <2> SUFFICES ASSUME AnswerLedger, QuietInv, NEW r \in Requests, got[r] = "pending", Answered(store.req[r]),
                      store.req[r].notify # "off"
               PROVE  r \in everTold
    BY DEF NotNeither
  <2>1. store \in Copies
    BY DEF Copies
  <2>2. store.req[r].notified
    BY <2>1 DEF QuietInv, KeptRow, Kept
  <2> QED
    BY <2>1, <2>2 DEF AnswerLedger, AnswersAccounted, AccountedFor
<1> QED
  BY <1>1, LedgerInvariant, AnswersAreKept, PTL

-----------------------------------------------------------------------------
(* The file and whatever may replace it tell the same story of a request:   *)
(* what KeepsContract needs.  As long as no write fails and no stop leaves a *)
(* snapshot behind, a copy may have forgotten a request, or not know it yet, *)
(* but no copy contradicts another.                                         *)

\* What a row says of its request, states of one kind told apart no further.
Class(q) ==
  IF ~Present(q) THEN "absent" ELSE IF Open(q) THEN "open"
  ELSE IF Answered(q) THEN "answered" ELSE "stopped"

\* The classes c and e of two rows of request r do not contradict each other: one
\* is absent, and then the other is not open if the adapter has the request.
Alike(c, e, r) ==
  /\ c = e \/ c = "absent" \/ e = "absent"
  /\ receipt[r] # NoTurn => (c = "open" <=> e = "open")

\* The copies some step may make the file or the mirror of.
LiveCopies ==
  {disk} \union (IF resident THEN {store} ELSE IF recon = "scanned" THEN {scan.store} ELSE {})
         \union (IF Writing THEN {saved} ELSE {})

\* The live copies agree, and the row of a dispatch in hand is open in the file.
AgreeInv ==
  /\ \A s, u \in LiveCopies : \A r \in Requests : Alike(Class(s.req[r]), Class(u.req[r]), r)
  /\ \A r \in Requests : disp[r] \in InHand => Open(disk.req[r])

\* The scan of a restart holds work of the vendor that is open.
ScanPending == recon = "scanned" /\ \E x \in Past : Open(scan.store.req[x]) /\ receipt[x] # NoTurn

\* As long as it does, a dispatch that fails does not throw the mirror away, for
\* the scan to take its place: file, mirror and what a rollback would put back
\* remember something else.
ScanInv ==
  ScanPending =>
    /\ Recalls(disk, Past)
    /\ resident => Recalls(store, Past)
    /\ Writing => Recalls(saved, Past)

\* s says of request r what u says, or has forgotten it for good reason.
Thins(s, u, r) ==
  \/ Class(s.req[r]) = Class(u.req[r])
  \/ Class(s.req[r]) = "absent" /\ (Class(u.req[r]) = "open" => receipt[r] = NoTurn)

\* The classes exclude each other.
LEMMA ClassIs ==
  ASSUME NEW q
  PROVE  /\ Class(q) \in {"absent", "open", "answered", "stopped"}
         /\ Class(q) = "absent" <=> ~Present(q)
         /\ Class(q) = "open" <=> Open(q)
         /\ Class(q) = "answered" <=> Answered(q)
  BY DEF Class, Present, Open, Answered, OpenState

\* The same fate is the same class.
LEMMA FatesClass ==
  ASSUME NEW s, NEW u, SameFates(s, u), NEW r \in Requests
  PROVE  Class(s.req[r]) = Class(u.req[r])
<1>1. SameFate(s.req[r], u.req[r])
  BY DEF SameFates
<1> QED
  BY <1>1 DEF SameFate, Class, Present, Open, Answered, OpenState

\* A step whose live copies thin live copies keeps them agreeing.
LEMMA AgreeThins ==
  ASSUME AgreeInv, receipt' = receipt,
         \A s \in LiveCopies' : \E u \in LiveCopies : \A r \in Requests : Thins(s, u, r)
  PROVE  \A s, u \in LiveCopies' : \A r \in Requests : Alike(Class(s.req[r]), Class(u.req[r]), r)'
<1> SUFFICES ASSUME NEW s \in LiveCopies', NEW u \in LiveCopies', NEW r \in Requests
             PROVE  /\ \/ Class(s.req[r]) = Class(u.req[r])
                       \/ Class(s.req[r]) = "absent" \/ Class(u.req[r]) = "absent"
                    /\ receipt[r] # NoTurn => (Class(s.req[r]) = "open" <=> Class(u.req[r]) = "open")
  BY DEF Alike
<1>1. PICK x \in LiveCopies : Thins(s, x, r)
  OBVIOUS
<1>2. PICK y \in LiveCopies : Thins(u, y, r)
  OBVIOUS
<1>3. Alike(Class(x.req[r]), Class(y.req[r]), r)
  BY DEF AgreeInv
<1> QED
  BY <1>1, <1>2, <1>3 DEF Alike, Thins

\* So does one after which all of them say the same.
LEMMA AgreeOne ==
  ASSUME NEW w, \A s \in LiveCopies' : \A r \in Requests : Class(s.req[r]) = Class(w.req[r])
  PROVE  \A s, u \in LiveCopies' : \A r \in Requests : Alike(Class(s.req[r]), Class(u.req[r]), r)'
  BY DEF Alike

\* No write fails in a sound step.
LEMMA WritesLand ==
  ASSUME TypeOK, spent'["fault"] = 0
  PROVE  /\ ~PersistFail /\ ~Spend("fault")
         /\ \A s : Persist(s) => disk' = Durable(s)
<1>1. ~Spend("fault")
  <2> SUFFICES ASSUME Spend("fault") PROVE FALSE
    OBVIOUS
  <2>1. "fault" \in DOMAIN Bound
    BY DEF Bound
  <2>2. spent \in [DOMAIN Bound -> Nat] /\ spent' = [spent EXCEPT !["fault"] = @ + 1]
    BY DEF TypeOK, Spend
  <2> QED
    BY <2>1, <2>2
<1> QED
  BY <1>1 DEF PersistFail, Persist, PersistOk

\* The row of a dispatch in hand stays open: nobody else writes the file.
LEMMA HandOpen ==
  ASSUME TypeOK, ClaimInv, \A r \in Requests : disp[r] \in InHand => Open(disk.req[r]), [Next]_vars, ~LateNext
  PROVE  \A r \in Requests : disp'[r] \in InHand => Open(disk'.req[r])
<1> USE DEF vendorVars, mirrorVars, dispVars, dlvVars, toldVars
<1>1. ASSUME \A r \in Requests : disp'[r] \in InHand => disp[r] \in InHand,
             claim = Free \/ disk' = disk
      PROVE  \A r \in Requests : disp'[r] \in InHand => Open(disk'.req[r])
  BY <1>1, NobodyInHand
<1>2. CASE DispatchNext
  <2> SUFFICES ASSUME NEW r \in Requests,
                    \/ \E p \in Parents, n \in Notifies, w \in Waiting : AcceptWrite(r, p, n, w)
                    \/ AcceptCommit(r) \/ AcceptRollback(r)
                    \/ \E t \in Turns : SubmitStarted(r, t) \/ SubmitInjected(r, t) \/ SubmitQueued(r, t)
                    \/ SubmitFail(r) \/ Bind(r) \/ Cancel(r)
                    \/ WaitClaimLapses(r) \/ WaiterReleases(r) \/ WaiterReads(r)
               PROVE  \A x \in Requests : disp'[x] \in InHand => Open(disk'.req[x])
    BY <1>2 DEF DispatchNext
  <2>1. ASSUME NEW p \in Parents, NEW n \in Notifies, NEW w \in Waiting, AcceptWrite(r, p, n, w)
        PROVE  \A x \in Requests : disp'[x] \in InHand => Open(disk'.req[x])
    <3>1. \A x \in Requests : disp[x] \notin InHand
      BY <2>1, NobodyInHand DEF AcceptWrite
    <3>2. disp' = [disp EXCEPT ![r] = "writing"] /\ disk' = Accept(disk, r, p, n)
      BY <2>1 DEF AcceptWrite
    <3>3. Open(disk'.req[r])
      BY <3>2, AcceptOpens DEF TypeOK
    <3> QED
      BY <3>1, <3>2, <3>3 DEF TypeOK
  <2>2. CASE AcceptRollback(r) \/ SubmitFail(r) \/ Bind(r)
    <3>1. disp[r] \in InHand
      BY <2>2 DEF AcceptRollback, SubmitFail, Bind, InHand
    <3>2. \A x \in Requests : disp[x] \in InHand => x = r
      BY <3>1 DEF ClaimInv
    <3>3. disp'[r] \notin InHand /\ \A x \in Requests : x # r => disp'[x] = disp[x]
      BY <2>2 DEF AcceptRollback, SubmitFail, Bind, InHand, TypeOK
    <3> QED
      BY <3>2, <3>3
  <2>3. CASE \/ AcceptCommit(r)
             \/ \E t \in Turns : SubmitStarted(r, t) \/ SubmitInjected(r, t) \/ SubmitQueued(r, t)
             \/ Cancel(r) \/ WaitClaimLapses(r) \/ WaiterReleases(r) \/ WaiterReads(r)
    <3>1. /\ disk' = disk
          /\ disp' = disp \/ \E x : disp' = [disp EXCEPT ![r] = x] /\ (x \in InHand => disp[r] \in InHand)
      BY <2>3 DEF AcceptCommit, SubmitStarted, SubmitInjected, SubmitQueued, Cancel, WaitClaimLapses,
                  WaiterReleases, WaiterReads, InHand
    <3> QED
      BY <1>1, <3>1 DEF TypeOK
  <2> QED
    BY <2>1, <2>2, <2>3
<1>3. CASE VendorNext
  <2>1. UNCHANGED <<disk, disp>>
    BY <1>3 DEF VendorNext, HumanTurn, OpenParked, OpenContinuation, TurnOpens, Narrate, TurnEnds, FailTurn,
                EndTurn, EndTurnReleased, EndTurnUnrecorded
  <2> QED
    BY <1>1, <2>1
<1>4. CASE DeliverNext
  <2>1. UNCHANGED disp /\ (claim = Free \/ UNCHANGED disk)
    BY <1>4 DEF DeliverNext, PulseIgnored, PulseOpened, PulseHeld, PulseSettled, GraceExpires, PlanNothing,
         Plan, PlanAbandoned, NotifyParent, ParentUnreachable, Commit, MayPlan
  <2> QED
    BY <1>1, <2>1
<1>5. CASE LifeNext
  <2>1. CASE Crash
    <3>1. \A r \in Requests : disp'[r] \in {"new", "closed", "gone"}
      BY <2>1 DEF Crash
    <3> QED
      BY <3>1 DEF InHand
  <2>2. CASE ~Crash
    <3>1. UNCHANGED disp /\ (claim = Free \/ UNCHANGED disk)
      BY <1>5, <2>2 DEF LifeNext, ReconcileScan, ReconcileSeed, ReleasePick, ReleaseFence, ReleaseClear, ReleaseRead,
           ReleaseSettle, EvictInPlace, Stop, StopDetached, StopsProcess, FlushSettlement
    <3> QED
      BY <1>1, <3>1
  <2> QED
    BY <2>1, <2>2
<1>6. CASE UNCHANGED vars
  BY <1>1, <1>6 DEF vars
<1> QED
  BY <1>2, <1>3, <1>4, <1>5, <1>6 DEF Next

\* s thins a live copy.
Thinned(s) == \E u \in LiveCopies : \A r \in Requests : Thins(s, u, r)

\* The step hands nothing in, and its live copies thin live copies.
Thinly == receipt' = receipt /\ \A s \in LiveCopies' : Thinned(s)

\* What is live is thinned, and so is what says the same.
LEMMA ThinnedNow ==
  /\ Thinned(disk)
  /\ resident => Thinned(store)
  /\ ~resident /\ recon = "scanned" => Thinned(scan.store)
  /\ Writing => Thinned(saved)
  /\ \A s, u : Thinned(u) /\ (\A r \in Requests : Class(s.req[r]) = Class(u.req[r])) => Thinned(s)
<1>1. \A s : s \in LiveCopies => Thinned(s)
  BY DEF Thinned, Thins
<1>2. ASSUME NEW s, NEW u, Thinned(u), \A r \in Requests : Class(s.req[r]) = Class(u.req[r])
      PROVE  Thinned(s)
  <2>1. PICK x \in LiveCopies : \A r \in Requests : Thins(u, x, r)
    BY <1>2 DEF Thinned
  <2>2. \A r \in Requests : Thins(s, x, r)
    BY <1>2, <2>1 DEF Thins
  <2> QED
    BY <2>2 DEF Thinned
<1> QED
  BY <1>1, <1>2 DEF LiveCopies

\* Enough for a step to be thin.
LEMMA ThinFrame ==
  ASSUME receipt' = receipt, Thinned(disk'), resident' => Thinned(store'),
         ~resident' /\ recon' = "scanned" => Thinned(scan'.store),
         Writing' => Thinned(saved')
  PROVE  Thinly
<1>1. ASSUME NEW s \in LiveCopies'
      PROVE  \/ s = disk' \/ (resident' /\ s = store') \/ (~resident' /\ recon' = "scanned" /\ s = scan'.store)
             \/ (Writing' /\ s = saved')
  BY DEF LiveCopies
<1> QED
  BY <1>1 DEF Thinly

\* A write leaves on disk what was written.
LEMMA DurableThins ==
  ASSUME NEW s \in Store, Thinned(s)
  PROVE  Thinned(Durable(s))
  BY DurableFates, FatesClass, ThinnedNow

\* The dispatchers contradict nothing, where they do not add a row, hand a line
\* over or throw the mirror away.
LEMMA ThinDispatch ==
  ASSUME TypeOK, ClaimInv, FileInv, HandedInv, AgreeInv, spent'["fault"] = 0, NEW r \in Requests,
         \/ AcceptCommit(r) \/ AcceptRollback(r)
         \/ SubmitFail(r) /\ ~IsEmpty(Without(store, {r}))
         \/ Bind(r) \/ Cancel(r) \/ WaitClaimLapses(r) \/ WaiterReleases(r) \/ WaiterReads(r)
  PROVE  Thinly
<1> USE DEF vendorVars, mirrorVars, dispVars, dlvVars, toldVars
<1>1. CASE AcceptCommit(r)
  <2>1. /\ resident' = TRUE /\ store' = disk /\ disp[r] = "writing"
        /\ UNCHANGED <<disk, saved, receipt>>
    BY <1>1 DEF AcceptCommit, FileInv
  <2>2. Writing
    BY <2>1 DEF Writing
  <2> QED
    BY <2>1, <2>2, ThinnedNow, ThinFrame
<1>2. CASE AcceptRollback(r)
  <2>1. /\ disk' = saved /\ disp[r] = "writing"
        /\ UNCHANGED <<resident, store, recon, scan, saved, receipt>>
    BY <1>2, WritesLand DEF AcceptRollback
  <2>2. Writing
    BY <2>1 DEF Writing
  <2> QED
    BY <2>1, <2>2, ThinnedNow, ThinFrame
<1>3. ASSUME disp[r] \in InHand \ {"writing"}
      PROVE  /\ resident /\ claim = r /\ ~Writing
             /\ Class(store.req[r]) = "open"
  <2>1. resident /\ claim = r /\ Present(store.req[r]) /\ Open(disk.req[r])
    BY <1>3 DEF ClaimInv, AgreeInv
  <2>2. ~Writing
    BY <1>3, <2>1 DEF Writing, ClaimInv, InHand
  <2>3. Alike(Class(store.req[r]), Class(disk.req[r]), r)
    BY <2>1 DEF AgreeInv, LiveCopies
  <2>4. Class(store.req[r]) # "absent" /\ Class(disk.req[r]) = "open"
    BY <2>1, ClassIs
  <2> QED
    BY <2>1, <2>2, <2>3, <2>4 DEF Alike
<1>4. CASE SubmitFail(r) /\ ~IsEmpty(Without(store, {r}))
  <2> DEFINE s == Without(store, {r})
  <2>1. store' = s /\ disk' = Durable(s) /\ UNCHANGED <<resident, receipt>>
    <3>1. store' = s /\ UNCHANGED resident
      BY <1>4, Zenon DEF SubmitFail, DropRow
    <3>2. Persist(store') /\ UNCHANGED receipt
      BY <1>4 DEF SubmitFail
    <3> QED
      BY <3>1, <3>2, WritesLand
  <2>2. disp[r] = "accepted" /\ disp' = [disp EXCEPT ![r] = "closed"]
    BY <1>4 DEF SubmitFail
  <2>3. s \in Store /\ store \in Store
    BY WithoutType DEF TypeOK
  <2>4. \A x \in Requests : s.req[x] = IF x = r THEN Absent ELSE store.req[x]
    BY <2>3, WithoutFates
  <2> HIDE DEF s
  <2>5. /\ resident /\ ~Writing
    BY <1>3, <2>2 DEF InHand
  <2>6. receipt[r] = NoTurn
    BY <2>2 DEF HandedInv
  <2>7. Class(Absent) = "absent"
    BY DEF Class, Absent, Present
  <2>8. \A x \in Requests : Thins(s, store, x)
    BY <2>4, <2>6, <2>7 DEF Thins
  <2>9. Thinned(s) /\ ~Writing'
    BY <2>2, <2>5, <2>8 DEF Thinned, LiveCopies, Writing, TypeOK
  <2> QED
    BY <2>1, <2>3, <2>5, <2>9, DurableThins, ThinFrame
<1>5. CASE Bind(r)
  <2>1. disp[r] \in InHand \ {"writing"} /\ UNCHANGED <<resident, receipt>>
    BY <1>5 DEF Bind, InHand
  <2>2. disp'[r] # "writing" /\ \A x \in Requests : x # r => disp'[x] = disp[x]
    BY <1>5 DEF Bind, TypeOK
  <2> DEFINE s == BoundStore(r, FALSE)
  <2>3. store' = s /\ disk' = Durable(s)
    BY <1>5, WritesLand DEF Bind, PersistOk
  <2>4. s \in Store /\ Class(s.req[r]) = "open" /\ \A x \in Requests : x # r => s.req[x] = store.req[x]
    BY BoundFates, ClassIs
  <2> HIDE DEF s
  <2>5. Thinned(s)
    BY <1>3, <2>1, <2>4, ThinnedNow
  <2>6. resident /\ ~Writing'
    BY <1>3, <2>1, <2>2 DEF Writing
  <2> QED
    BY <2>1, <2>3, <2>4, <2>5, <2>6, DurableThins, ThinFrame
<1>6. CASE Cancel(r) \/ WaitClaimLapses(r) \/ WaiterReleases(r) \/ WaiterReads(r)
  <2>1. /\ UNCHANGED <<disk, resident, store, recon, scan, saved, receipt>>
        /\ disp' = disp \/ \E x : disp' = [disp EXCEPT ![r] = x] /\ x # "writing"
    BY <1>6 DEF Cancel, WaitClaimLapses, WaiterReleases, WaiterReads
  <2>2. Writing' => Writing
    BY <2>1 DEF Writing, TypeOK
  <2> QED
    BY <2>1, <2>2, ThinnedNow, ThinFrame
<1> QED
  BY <1>1, <1>2, <1>4, <1>5, <1>6

\* The vendor writes neither file nor mirror.
LEMMA ThinVendor == VendorNext => Thinly
<1> USE DEF vendorVars, mirrorVars, dispVars, dlvVars, toldVars
<1>1. VendorNext => UNCHANGED <<disk, resident, store, recon, scan, saved, receipt, disp>>
  BY DEF VendorNext, HumanTurn, OpenParked, OpenContinuation, TurnOpens, Narrate, TurnEnds, FailTurn,
         EndTurn, EndTurnReleased, EndTurnUnrecorded
<1> QED
  BY <1>1, ThinnedNow, ThinFrame DEF Writing

\* Before its commit a delivery moves no request to another class.
LEMMA ThinDeliver ==
  ASSUME TypeOK, ClaimInv, AgreeInv, spent'["fault"] = 0, DeliverNext
  PROVE  Thinly \/ \E d \in inflight : Commit(d)
<1> USE DEF vendorVars, mirrorVars, dispVars, dlvVars, toldVars
<1> SUFFICES ASSUME ~\E d \in inflight : Commit(d)
             PROVE  Thinly
  OBVIOUS
<1>1. UNCHANGED <<resident, recon, scan, saved, receipt, disp>>
  BY DEF DeliverNext, PulseIgnored, PulseOpened, PulseHeld, PulseSettled, GraceExpires, PlanNothing,
         Plan, PlanAbandoned, NotifyParent, ParentUnreachable, Commit
<1>2. ASSUME NEW s \in Store, store' = s, SameFates(s, store), disk' = disk \/ (resident /\ disk' = Durable(s))
      PROVE  Thinly
  <2>1. resident => Thinned(s)
    BY <1>2, FatesClass, ThinnedNow
  <2>2. Thinned(disk')
    BY <1>2, <2>1, DurableThins, ThinnedNow
  <2> QED
    BY <1>1, <1>2, <2>1, <2>2, ThinnedNow, ThinFrame DEF Writing
<1>3. store \in Store /\ SameFates(store, store)
  BY SameRowsFates DEF TypeOK
<1>4. CASE PulseOpened
  <2> DEFINE p == Head(pulses)
             moved == IF p.from = NoTurn THEN store ELSE RebindContinuation(store, p.from, p.turn)
             s == MarkExecuting(moved, p.turn)
  <2>1. p \in Pulse
    BY <1>4, TailElems, PulsesTyped DEF PulseOpened, NotifierTakes, TypeOK
  <2>2. \/ store' = store /\ disk' = disk
        \/ resident /\ store' = s /\ (disk' = disk \/ disk' = Durable(s))
    BY <1>4, WritesLand DEF PulseOpened
  <2> HIDE DEF p
  <2>3. moved \in Store /\ SameFates(moved, store)
    BY <2>1, RebindType, RebindFates, SameRowsFates DEF Pulse, TypeOK
  <2> HIDE DEF moved
  <2>4. s \in Store /\ SameFates(s, store)
    BY <2>3, MarkExecutingType, MarkExecutingFates, FatesTrans, <2>1 DEF Pulse
  <2> HIDE DEF s
  <2> QED
    BY <1>2, <1>3, <2>2, <2>4
<1>5. CASE \/ PulseIgnored \/ PulseHeld \/ PulseSettled
           \/ \E d \in provisional : GraceExpires(d)
           \/ \E d \in due : PlanNothing(d)
           \/ \E d \in inflight, p \in Parents : NotifyParent(d, p) \/ ParentUnreachable(d, p)
  <2>1. UNCHANGED store /\ (disk' = disk \/ (resident /\ disk' = Durable(store)))
    BY <1>5, WritesLand DEF PulseIgnored, PulseHeld, PulseSettled, GraceExpires, PlanNothing, NotifyParent,
                ParentUnreachable
  <2> QED
    BY <1>2, <1>3, <2>1
<1>6. ASSUME NEW d \in due, Plan(d)
      PROVE  Thinly
  <2> DEFINE s == BeginDelivery(store, KeyOf(d))
  <2>1. KeyOf(d) \in Key
    BY KeyOfType DEF TypeOK, DueBoundary
  <2>2. s \in Store /\ s.req = store.req
    BY <2>1, MarkerType DEF TypeOK
  <2>3. resident /\ store' = s /\ disk' = Durable(s)
    BY <1>6 DEF Plan, PersistOk, Deliverable
  <2> HIDE DEF s
  <2>4. SameFates(s, store)
    BY <2>2, SameRowsFates
  <2> QED
    BY <1>2, <2>2, <2>3, <2>4
<1>7. ASSUME NEW d \in due, PlanAbandoned(d)
      PROVE  FALSE
  BY <1>7, WritesLand DEF PlanAbandoned
<1> QED
  BY <1>4, <1>5, <1>6, <1>7 DEF DeliverNext

\* Nor do a restart, a release or a crash; a stop does.
LEMMA ThinLife ==
  ASSUME TypeOK, ClaimInv, AgreeInv, flush = {}, spent'["fault"] = 0, spent'["detached"] = 0, LifeNext
  PROVE  Thinly \/ (Stop /\ resident)
<1> USE DEF vendorVars, mirrorVars, dispVars, dlvVars, toldVars
<1> SUFFICES ASSUME ~(Stop /\ resident)
             PROVE  Thinly
  OBVIOUS
<1>1. CASE ReconcileScan
  <2>1. /\ scan'.store = Repair(rows, disk)
        /\ UNCHANGED <<disk, resident, store, saved, receipt, disp>>
    BY <1>1 DEF ReconcileScan
  <2>2. Thinned(scan'.store)
    BY <2>1, RepairFates, FatesClass, ThinnedNow DEF TypeOK
  <2> QED
    BY <2>1, <2>2, ThinnedNow, ThinFrame DEF Writing
<1>2. CASE ReconcileSeed
  <2>1. /\ recon = "scanned" /\ recon' = "done" /\ store' = (IF resident THEN store ELSE scan.store)
        /\ UNCHANGED <<disk, saved, receipt, disp>>
    BY <1>2 DEF ReconcileSeed
  <2> QED
    BY <2>1, ThinnedNow, ThinFrame DEF Writing
<1>3. CASE \/ ReleasePick \/ ReleaseFence \/ ReleaseClear \/ ReleaseRead \/ EvictInPlace
  <2>1. UNCHANGED <<disk, resident, store, recon, scan, saved, receipt, disp>>
    BY <1>3 DEF ReleasePick, ReleaseFence, ReleaseClear, ReleaseRead, EvictInPlace
  <2> QED
    BY <2>1, ThinnedNow, ThinFrame DEF Writing
<1>4. CASE ReleaseSettle
  <2>1. store' = Repair(relRows, store) /\ UNCHANGED <<disk, resident, recon, scan, saved, receipt, disp>>
    BY <1>4 DEF ReleaseSettle
  <2>2. resident => Thinned(store')
    BY <2>1, RepairFates, FatesClass, ThinnedNow DEF TypeOK
  <2> QED
    BY <2>1, <2>2, ThinnedNow, ThinFrame DEF Writing
<1>5. CASE Stop /\ ~resident
  <2>1. UNCHANGED <<disk, resident, recon, scan, saved, receipt, disp>>
    BY <1>5 DEF Stop, StopsProcess
  <2> QED
    BY <1>5, <2>1, ThinnedNow, ThinFrame DEF Writing
<1>6. ~StopDetached
  <2>1. "detached" \in DOMAIN Bound
    BY DEF Bound
  <2> QED
    BY <2>1 DEF StopDetached, Spend, TypeOK
<1>7. CASE Crash
  <2>1. /\ ~resident' /\ recon' = "start" /\ UNCHANGED <<disk, receipt>>
        /\ \A r \in Requests : disp'[r] \in {"new", "closed", "gone"}
    BY <1>7 DEF Crash
  <2>2. ~Writing'
    BY <2>1 DEF Writing
  <2> QED
    BY <2>1, <2>2, ThinnedNow, ThinFrame
<1> QED
  BY <1>1, <1>2, <1>3, <1>4, <1>5, <1>6, <1>7 DEF LifeNext

-----------------------------------------------------------------------------
(* The steps that do move a request: all copies move together.              *)

\* A request nobody handed in is nowhere.
LEMMA NewIsNowhere ==
  ASSUME TypeOK, TermsKept, HandedInv, NEW r \in Requests, disp[r] = "new"
  PROVE  receipt[r] = NoTurn /\ \A s \in LiveCopies : Class(s.req[r]) = "absent"
<1>1. LiveCopies \subseteq Copies
  BY DEF LiveCopies, Copies
<1> QED
  BY <1>1, ClassIs DEF TermsKept, HandedInv

\* An accept adds its row to the file, and only there.
LEMMA AgreeAccept ==
  ASSUME TypeOK, TermsKept, HandedInv, AgreeInv,
         NEW r \in Requests, NEW p, NEW n, NEW w, AcceptWrite(r, p, n, w)
  PROVE  /\ \A s, u \in LiveCopies' : \A x \in Requests : Alike(Class(s.req[x]), Class(u.req[x]), x)'
         /\ \A x \in Requests : x # r => Thins(disk', disk, x)
         /\ Class(disk'.req[r]) = "open"
<1> USE DEF vendorVars, mirrorVars, dispVars, dlvVars, toldVars
<1>1. /\ disp[r] = "new" /\ disk' = Accept(disk, r, p, n) /\ saved' = disk
      /\ UNCHANGED <<resident, store, recon, scan, receipt>>
  BY DEF AcceptWrite
<1>2. \A x \in Requests : x # r => Thins(disk', disk, x)
  <2> SUFFICES ASSUME NEW x \in Requests, x # r PROVE Thins(disk', disk, x)
    OBVIOUS
  <2>1. disk'.req[x] = disk.req[x] \/ (disk'.req[x] = Absent /\ disk.req[x].state \in TerminalState)
    BY <1>1, AcceptFates DEF TypeOK
  <2> QED
    BY <2>1 DEF Thins, Class, Absent, Present, Open, OpenState, TerminalState
<1>3. Class(disk'.req[r]) = "open"
  BY <1>1, AcceptOpens, ClassIs DEF TypeOK
<1>4. \A s \in LiveCopies' : s = disk' \/ s \in LiveCopies
  BY <1>1 DEF LiveCopies
<1>5. disk \in LiveCopies
  BY DEF LiveCopies
<1>6. receipt[r] = NoTurn /\ \A s \in LiveCopies : Class(s.req[r]) = "absent"
  BY <1>1, NewIsNowhere
<1>7. ASSUME NEW s \in LiveCopies', NEW u \in LiveCopies', NEW x \in Requests
      PROVE  /\ \/ Class(s.req[x]) = Class(u.req[x])
                \/ Class(s.req[x]) = "absent" \/ Class(u.req[x]) = "absent"
             /\ receipt[x] # NoTurn => (Class(s.req[x]) = "open" <=> Class(u.req[x]) = "open")
  <2>1. CASE x = r
    BY <1>4, <1>6, <2>1
  <2>2. CASE x # r
    <3>1. PICK y \in LiveCopies : Thins(s, y, x)
      BY <1>2, <1>4, <1>5, <2>2 DEF Thins
    <3>2. PICK z \in LiveCopies : Thins(u, z, x)
      BY <1>2, <1>4, <1>5, <2>2 DEF Thins
    <3>3. Alike(Class(y.req[x]), Class(z.req[x]), x)
      BY DEF AgreeInv
    <3> QED
      BY <3>1, <3>2, <3>3 DEF Alike, Thins
  <2> QED
    BY <2>1, <2>2
<1>8. \A s, u \in LiveCopies' : \A x \in Requests : Alike(Class(s.req[x]), Class(u.req[x]), x)'
  BY <1>1, <1>7 DEF Alike
<1> QED
  BY <1>2, <1>3, <1>8

\* The line is handed over while every copy holds the request open.
LEMMA AgreeSubmit ==
  ASSUME TypeOK, ClaimInv, AgreeInv, NEW r \in Requests, NEW t \in Turns,
         SubmitStarted(r, t) \/ SubmitInjected(r, t) \/ SubmitQueued(r, t)
  PROVE  \A s, u \in LiveCopies' : \A x \in Requests : Alike(Class(s.req[x]), Class(u.req[x]), x)'
<1> USE DEF vendorVars, mirrorVars, dispVars, dlvVars, toldVars
<1>1. /\ disp[r] = "accepted" /\ receipt' = [receipt EXCEPT ![r] = t]
      /\ \E x : disp' = [disp EXCEPT ![r] = x] /\ x # "writing"
      /\ UNCHANGED <<disk, resident, store, recon, scan, saved>>
  BY DEF SubmitStarted, SubmitInjected, SubmitQueued
<1>2. resident /\ claim = r /\ Present(store.req[r]) /\ Open(disk.req[r])
  BY <1>1 DEF ClaimInv, AgreeInv, InHand
<1>3. ~Writing
  BY <1>1, <1>2 DEF Writing, ClaimInv, InHand
<1>4. LiveCopies = {disk, store} /\ LiveCopies' \subseteq LiveCopies
  BY <1>1, <1>2, <1>3 DEF LiveCopies, Writing, TypeOK
<1>5. Alike(Class(store.req[r]), Class(disk.req[r]), r)
  BY <1>4 DEF AgreeInv
<1>6. \A s \in LiveCopies : Class(s.req[r]) = "open"
  BY <1>2, <1>4, <1>5, ClassIs DEF Alike
<1>7. \A x \in Requests : x # r => receipt'[x] = receipt[x]
  BY <1>1 DEF TypeOK
<1>8. ASSUME NEW s \in LiveCopies', NEW u \in LiveCopies', NEW x \in Requests
      PROVE  /\ \/ Class(s.req[x]) = Class(u.req[x])
                \/ Class(s.req[x]) = "absent" \/ Class(u.req[x]) = "absent"
             /\ receipt'[x] # NoTurn => (Class(s.req[x]) = "open" <=> Class(u.req[x]) = "open")
  BY <1>4, <1>6, <1>7 DEF AgreeInv, Alike
<1> QED
  BY <1>8 DEF Alike

\* A dispatch that fails throws the mirror away only with nothing of the vendor's
\* in the scan that would take its place.
LEMMA AgreeEmptied ==
  ASSUME TypeOK, ClaimInv, HandedInv, TermsKept, AgreeInv, ScanInv, spent'["fault"] = 0,
         NEW r \in Requests, SubmitFail(r), IsEmpty(Without(store, {r}))
  PROVE  /\ \A s, u \in LiveCopies' : \A x \in Requests : Alike(Class(s.req[x]), Class(u.req[x]), x)'
         /\ disk' = Durable(EmptyStore)
         /\ \A x \in Requests : Thins(disk', store, x)
         /\ resident /\ ~ScanPending /\ disp'[r] = "closed" /\ receipt[r] = NoTurn
<1> USE DEF vendorVars, mirrorVars, dispVars, dlvVars, toldVars
<1> DEFINE s == Without(store, {r})
<1>1. /\ disp[r] = "accepted" /\ disp' = [disp EXCEPT ![r] = "closed"]
      /\ UNCHANGED <<recon, scan, receipt>>
  BY DEF SubmitFail
<1>2. ~resident' /\ disk' = Durable(EmptyStore)
  <2>1. resident' = FALSE /\ store' = EmptyStore
    BY Zenon DEF SubmitFail, DropRow
  <2>2. Persist(store')
    BY DEF SubmitFail
  <2> QED
    BY <2>1, <2>2, WritesLand
<1>3. resident /\ claim = r
  BY <1>1 DEF ClaimInv, InHand
<1>4. ~Writing'
  BY <1>1, <1>3 DEF Writing, ClaimInv, InHand, TypeOK
<1>5. \A x \in Requests : Class(disk'.req[x]) = "absent"
  <2>1. \A x \in Requests : EmptyStore.req[x] = Absent
    BY DEF EmptyStore
  <2>2. \A x \in Requests : Class(disk'.req[x]) = Class(EmptyStore.req[x])
    BY <1>2, DurableFates, FatesClass, EmptyStoreType
  <2> QED
    BY <2>1, <2>2 DEF Class, Absent, Present
<1>6. /\ SameMarks(s, store) /\ \A x \in Requests : x # r => s.req[x] = store.req[x]
  BY WithoutFates, RowsOnly DEF TypeOK
<1>7. r \notin Past /\ receipt[r] = NoTurn
  BY <1>1 DEF Past, Late, HandedInv
<1>8. ~Recalls(store, Past)
  BY <1>6, <1>7, MarksSpent DEF Recalls, IsEmpty, Spent, Present, Past
<1>9. ~ScanPending
  BY <1>3, <1>8 DEF ScanInv
<1>10. ASSUME NEW x \in Requests, recon = "scanned", receipt[x] # NoTurn
       PROVE  Class(scan.store.req[x]) # "open"
  <2>1. CASE Open(scan.store.req[x])
    <3>1. scan.store \in Held /\ Present(scan.store.req[x])
      BY <2>1 DEF Held, Open, OpenState, Present
    <3>2. disp[x] \notin InHand
      BY <1>3, <1>7, <1>10 DEF ClaimInv
    <3>3. x \in Past
      BY <3>1, <3>2, RowsArePast
    <3> QED
      BY <1>9, <1>10, <2>1, <3>3 DEF ScanPending
  <2> QED
    BY <2>1, ClassIs
<1>11. \A u \in LiveCopies' : u = disk' \/ (recon = "scanned" /\ u = scan.store)
  BY <1>1, <1>2, <1>4 DEF LiveCopies
<1>12. ASSUME NEW v \in LiveCopies', NEW u \in LiveCopies', NEW x \in Requests
      PROVE  /\ \/ Class(v.req[x]) = Class(u.req[x])
                \/ Class(v.req[x]) = "absent" \/ Class(u.req[x]) = "absent"
             /\ receipt[x] # NoTurn => (Class(v.req[x]) = "open" <=> Class(u.req[x]) = "open")
  BY <1>5, <1>10, <1>11
<1>13. \A x \in Requests : Thins(disk', store, x)
  <2> SUFFICES ASSUME NEW x \in Requests, Class(store.req[x]) = "open" PROVE receipt[x] = NoTurn
    BY <1>5 DEF Thins
  <2>1. CASE x # r
    BY <1>6, <2>1, ClassIs DEF IsEmpty, Present
  <2> QED
    BY <1>7, <2>1
<1> QED
  BY <1>1, <1>2, <1>3, <1>7, <1>9, <1>12, <1>13 DEF Alike, TypeOK

\* A commit and a stop write what they made of the mirror.
LEMMA AgreeWritten ==
  ASSUME ClaimInv, claim = Free, UNCHANGED disp, resident', NEW s \in Store, store' = s, disk' = Durable(s)
  PROVE  \A v, u \in LiveCopies' : \A x \in Requests : Alike(Class(v.req[x]), Class(u.req[x]), x)'
<1>1. ~Writing'
  BY NobodyInHand DEF Writing, InHand
<1>2. \A v \in LiveCopies' : v = s \/ v = Durable(s)
  BY <1>1 DEF LiveCopies
<1>3. \A v \in LiveCopies' : \A x \in Requests : Class(v.req[x]) = Class(s.req[x])
  BY <1>2, DurableFates, FatesClass
<1> QED
  BY <1>3, AgreeOne

-----------------------------------------------------------------------------
(* ... and what they remember is remembered as long as a scan is pending.   *)

\* Enough for the next state.
LEMMA ScanFrame ==
  ASSUME ScanInv, ScanPending' => ScanPending, Past \subseteq Past', Past' \subseteq Requests,
         AsGood(disk', disk) \/ (resident /\ AsGood(disk', store)) \/ Spent(disk'),
         resident' => \/ resident /\ (AsGood(store', store) \/ Spent(store'))
                      \/ AsGood(store', disk),
         Writing' => Writing /\ AsGood(saved', saved)
  PROVE  ScanInv'
<1> SUFFICES ASSUME ScanPending
             PROVE  /\ Recalls(disk', Past') /\ (resident' => Recalls(store', Past'))
                    /\ (Writing' => Recalls(saved', Past'))
  BY DEF ScanInv
<1>1. \A u, v : AsGood(u, v) /\ Recalls(v, Past) => Recalls(u, Past')
  BY RecallsMore
<1>2. \A u : Spent(u) => Recalls(u, Past')
  BY DEF Recalls
<1>3. /\ Recalls(disk, Past)
      /\ resident => Recalls(store, Past)
      /\ Writing => Recalls(saved, Past)
  BY DEF ScanInv
<1> QED
  BY <1>1, <1>2, <1>3

\* The dispatchers.
LEMMA ScanDispatch ==
  TypeOK /\ TypeOK' /\ ClaimInv /\ FileInv /\ HandedInv /\ TermsKept /\ AgreeInv /\ ScanInv
  /\ spent'["fault"] = 0 /\ DispatchNext => ScanInv'
<1> USE DEF vendorVars, mirrorVars, dispVars, dlvVars, toldVars
<1> SUFFICES ASSUME TypeOK, TypeOK', ClaimInv, FileInv, HandedInv, TermsKept, AgreeInv, ScanInv, spent'["fault"] = 0,
                    DispatchNext, NEW r \in Requests,
                    \/ \E p \in Parents, n \in Notifies, w \in Waiting : AcceptWrite(r, p, n, w)
                    \/ AcceptCommit(r) \/ AcceptRollback(r)
                    \/ \E t \in Turns : SubmitStarted(r, t) \/ SubmitInjected(r, t) \/ SubmitQueued(r, t)
                    \/ SubmitFail(r) \/ Bind(r) \/ Cancel(r)
                    \/ WaitClaimLapses(r) \/ WaiterReleases(r) \/ WaiterReads(r)
             PROVE  ScanInv'
  BY DEF DispatchNext
<1>1. Past \subseteq Past' /\ Past' \subseteq Requests /\ Past \subseteq Requests
  BY PastStays DEF Next, Past
<1>2. \A s : AsGood(s, s)
  BY DEF AsGood
<1>3. ASSUME \A x \in Requests : x # r /\ Late(x)' => Late(x), UNCHANGED <<recon, scan>>,
             \A x \in Requests : x # r => receipt'[x] = receipt[x],
             Late(r)' /\ receipt'[r] # NoTurn => Late(r) /\ receipt[r] # NoTurn
      PROVE  ScanPending' => ScanPending
  BY <1>3 DEF ScanPending, Past
<1>4. ASSUME NEW p \in Parents, NEW n \in Notifies, NEW w \in Waiting, AcceptWrite(r, p, n, w)
      PROVE  ScanInv'
  <2> DEFINE s == Accept(disk, r, p, n)
  <2>1. /\ disp[r] = "new" /\ claim = Free /\ disp' = [disp EXCEPT ![r] = "writing"]
        /\ saved' = disk /\ disk' = s /\ UNCHANGED <<store, resident, recon, scan, receipt>>
    BY <1>4 DEF AcceptWrite
  <2>2. r \notin Past
    BY <2>1 DEF Past, Late
  <2>3. \A x \in Requests : Present(disk.req[x]) => x \in Past
    <3>1. disk \in Held
      BY DEF Held
    <3> QED
      BY <2>1, <3>1, NobodyInHand, RowsArePast
  <2>4. Recalls(disk, Past) => Recalls(s, Past)
    BY <1>1, <2>2, <2>3, AcceptRecalls DEF TypeOK
  <2> HIDE DEF s
  <2>5. Past' = Past
    BY <2>1 DEF Past, Late, TypeOK
  <2>6. ScanPending' => ScanPending
    BY <2>1, <2>5 DEF ScanPending
  <2> QED
    BY <2>1, <2>4, <2>5, <2>6 DEF ScanInv
<1>5. CASE AcceptCommit(r)
  <2>1. /\ disp[r] = "writing" /\ disp' = [disp EXCEPT ![r] = "accepted"]
        /\ store' = disk /\ UNCHANGED <<disk, saved, recon, scan, receipt>>
    BY <1>5 DEF AcceptCommit, FileInv
  <2>2. Writing /\ Past' = Past
    BY <2>1 DEF Writing, Past, Late, TypeOK
  <2>3. ScanPending' => ScanPending
    BY <2>1, <2>2 DEF ScanPending
  <2> QED
    BY <1>1, <1>2, <2>1, <2>2, <2>3, ScanFrame
<1>6. CASE AcceptRollback(r)
  <2>1. /\ disp[r] = "writing" /\ disp' = [disp EXCEPT ![r] = "closed"]
        /\ disk' = saved /\ UNCHANGED <<store, resident, saved, recon, scan, receipt>>
    BY <1>6, WritesLand DEF AcceptRollback
  <2>2. Writing /\ receipt[r] = NoTurn
    BY <2>1 DEF Writing, HandedInv
  <2>3. ScanPending' => ScanPending
    BY <1>3, <2>1, <2>2 DEF Late, TypeOK
  <2>4. \A u : Recalls(u, Past) => Recalls(u, Past')
    BY <1>1 DEF Recalls
  <2> QED
    BY <2>1, <2>2, <2>3, <2>4 DEF ScanInv
<1>7. CASE SubmitFail(r)
  <2> DEFINE s == Without(store, {r})
  <2>1. s \in Store /\ SameMarks(s, store) /\ \A x \in Requests : x # r => s.req[x] = store.req[x]
    BY WithoutType, WithoutFates, RowsOnly DEF TypeOK
  <2>2. /\ disp[r] = "accepted" /\ disp' = [disp EXCEPT ![r] = "closed"] /\ r \notin Past
        /\ UNCHANGED <<saved, recon, scan, receipt>>
    BY <1>7 DEF SubmitFail, Past, Late
  <2>3. receipt[r] = NoTurn /\ resident /\ claim = r
    BY <2>2 DEF HandedInv, ClaimInv, InHand
  <2>4. ScanPending' => ScanPending
    BY <1>3, <2>2, <2>3 DEF Late, TypeOK
  <2>5. ~Writing'
    BY <2>2, <2>3 DEF Writing, ClaimInv, InHand, TypeOK
  <2>6. CASE IsEmpty(s)
    BY <1>7, <2>4, <2>6, AgreeEmptied DEF ScanInv
  <2>7. CASE ~IsEmpty(s)
    <3>1. store' = s
      BY <1>7, <2>7, Zenon DEF SubmitFail, DropRow
    <3>2. disk' = Durable(s)
      BY <1>7, <3>1, WritesLand DEF SubmitFail
    <3>3. Recalls(store, Past) => Recalls(s, Past)
      BY <1>1, <2>1, <2>2, MarksSpent DEF Recalls
    <3> HIDE DEF s
    <3>4. Recalls(store, Past) => Recalls(s, Past') /\ Recalls(Durable(s), Past')
      BY <1>1, <1>2, <2>1, <3>3, DurableAsGood, RecallsMore
    <3> QED
      BY <2>3, <2>4, <2>5, <3>1, <3>2, <3>4 DEF ScanInv
  <2> QED
    BY <2>6, <2>7
<1>8. CASE Bind(r)
  <2>1. disp[r] \in {"started", "injected", "queued"} /\ UNCHANGED <<recon, scan, receipt>>
    BY <1>8 DEF Bind
  <2> DEFINE s == BoundStore(r, FALSE)
  <2>2. store' = s /\ disk' = Durable(s)
    BY <1>8, WritesLand DEF Bind, PersistOk
  <2>3. s \in Store /\ Present(s.req[r])
    BY BoundFates DEF Open, OpenState, Present
  <2> HIDE DEF s
  <2>4. Present(Durable(s).req[r])
    BY <2>3, DurableAsGood DEF AsGood
  <2>5. disp'[r] \in {"waiting", "closed"} /\ \A x \in Requests : x # r => disp'[x] = disp[x]
    BY <1>8 DEF Bind, TypeOK
  <2>6. r \in Past' /\ claim = r
    BY <2>1, <2>5 DEF Past, Late, ClaimInv, InHand
  <2>7. ~Writing'
    BY <2>5, <2>6 DEF Writing, ClaimInv, InHand
  <2>8. Recalls(store', Past') /\ Recalls(disk', Past')
    BY <2>2, <2>3, <2>4, <2>6 DEF Recalls
  <2> QED
    BY <2>7, <2>8 DEF ScanInv
<1>9. CASE Cancel(r)
  <2>1. /\ UNCHANGED <<disk, resident, store, saved, recon, scan, receipt>>
        /\ disp' = [disp EXCEPT ![r] = "gone"]
        /\ disp[r] \in InHand \/ disp[r] = "waiting"
    BY <1>9 DEF Cancel, InHand
  <2>2. Writing' => Writing
    BY <2>1 DEF Writing, TypeOK
  <2>3. \A x \in Requests : x # r /\ Late(x)' => Late(x)
    BY <2>1 DEF Late, TypeOK
  <2>4. CASE disp[r] = "waiting" \/ receipt[r] = NoTurn
    <3>1. ScanPending' => ScanPending
      BY <1>3, <2>1, <2>3, <2>4 DEF Late
    <3> QED
      BY <1>1, <1>2, <2>1, <2>2, <3>1, ScanFrame
  <2>5. CASE disp[r] \in InHand /\ receipt[r] # NoTurn
    <3>1. disp[r] \in InHand \ {"writing"}
      BY <2>5 DEF HandedInv
    <3>2. resident /\ Present(store.req[r]) /\ Present(disk.req[r]) /\ claim = r
      BY <3>1 DEF ClaimInv, FileInv
    <3>3. r \in Past' /\ ~Writing'
      BY <2>1, <3>2 DEF Past, Late, Writing, ClaimInv, InHand, TypeOK
    <3> QED
      BY <2>1, <3>2, <3>3 DEF ScanInv, Recalls
  <2> QED
    BY <2>1, <2>4, <2>5
<1>10. ASSUME NEW t \in Turns, SubmitStarted(r, t) \/ SubmitInjected(r, t) \/ SubmitQueued(r, t)
       PROVE  ScanInv'
  <2>1. /\ UNCHANGED <<disk, resident, store, saved, recon, scan>>
        /\ receipt' = [receipt EXCEPT ![r] = t]
        /\ \E x \in {"started", "injected", "queued"} : disp' = [disp EXCEPT ![r] = x]
    BY <1>10 DEF SubmitStarted, SubmitInjected, SubmitQueued
  <2>2. (Writing' => Writing) /\ ~Late(r)'
    BY <2>1 DEF Writing, Late, TypeOK
  <2>3. ScanPending' => ScanPending
    BY <1>3, <2>1, <2>2 DEF Late, TypeOK
  <2> QED
    BY <1>1, <1>2, <2>1, <2>2, <2>3, ScanFrame
<1>11. CASE WaitClaimLapses(r) \/ WaiterReleases(r) \/ WaiterReads(r)
  <2>1. /\ UNCHANGED <<disk, resident, store, saved, recon, scan, receipt>>
        /\ \/ disp' = disp
           \/ \E x \in {"reading", "closed"} : disp' = [disp EXCEPT ![r] = x] /\ disp[r] \in {"waiting", "reading"}
    BY <1>11 DEF WaitClaimLapses, WaiterReleases, WaiterReads
  <2>2. (Writing' => Writing) /\ \A x \in Requests : Late(x)' => Late(x)
    BY <2>1 DEF Writing, Late, TypeOK
  <2>3. ScanPending' => ScanPending
    BY <1>3, <2>1, <2>2
  <2> QED
    BY <1>1, <1>2, <2>1, <2>2, <2>3, ScanFrame
<1> QED
  BY <1>4, <1>5, <1>6, <1>7, <1>8, <1>9, <1>10, <1>11

\* Everybody else.
LEMMA ScanOthers ==
  TypeOK /\ TypeOK' /\ AgreeInv /\ ScanInv /\ RememberInv /\ flush = {} /\ spent'["fault"] = 0
  /\ spent'["detached"] = 0 /\ (VendorNext \/ DeliverNext \/ LifeNext) => ScanInv'
<1> USE DEF vendorVars, mirrorVars, dispVars, dlvVars, toldVars
<1> SUFFICES ASSUME TypeOK, TypeOK', AgreeInv, ScanInv, RememberInv, flush = {}, spent'["fault"] = 0,
                    spent'["detached"] = 0, VendorNext \/ DeliverNext \/ LifeNext
             PROVE  ScanInv'
  OBVIOUS
<1>1. Past \subseteq Past' /\ Past' \subseteq Requests
  BY PastStays DEF Next
<1>2. \A s : AsGood(s, s)
  BY DEF AsGood
<1>3. ASSUME UNCHANGED <<resident, recon, scan, saved, receipt, disp>>, NEW s \in Store, store' = s,
             AsGood(s, store) \/ Spent(s), disk' = disk \/ (resident /\ disk' = Durable(s))
      PROVE  ScanInv'
  <2>1. AsGood(Durable(s), s)
    BY <1>3, DurableAsGood
  <2>2. AsGood(disk', disk) \/ (resident /\ AsGood(disk', store)) \/ Spent(disk')
    BY <1>2, <1>3, <2>1, AsGoodTrans DEF AsGood
  <2>3. (ScanPending' => ScanPending) /\ (Writing' => Writing)
    BY <1>3 DEF ScanPending, Past, Late, Writing
  <2> QED
    BY <1>1, <1>2, <1>3, <2>2, <2>3, ScanFrame
<1>4. store \in Store
  BY DEF TypeOK
<1>5. CASE VendorNext
  <2>1. UNCHANGED <<disk, store, resident, recon, scan, saved, receipt, disp>>
    BY <1>5 DEF VendorNext, HumanTurn, OpenParked, OpenContinuation, TurnOpens, Narrate, TurnEnds, FailTurn,
         EndTurn, EndTurnReleased, EndTurnUnrecorded
  <2> QED
    BY <1>2, <1>3, <1>4, <2>1
<1>6. CASE DeliverNext
  <2>1. UNCHANGED <<resident, recon, scan, saved, receipt, disp>>
    BY <1>6 DEF DeliverNext, PulseIgnored, PulseOpened, PulseHeld, PulseSettled, GraceExpires, PlanNothing,
         Plan, PlanAbandoned, NotifyParent, ParentUnreachable, Commit
  <2>2. CASE PulseOpened
    <3> DEFINE p == Head(pulses)
               moved == IF p.from = NoTurn THEN store ELSE RebindContinuation(store, p.from, p.turn)
               s == MarkExecuting(moved, p.turn)
    <3>1. p \in Pulse
      BY <2>2, TailElems, PulsesTyped DEF PulseOpened, NotifierTakes, TypeOK
    <3>2. \/ store' = store /\ disk' = disk
          \/ resident /\ store' = s /\ (disk' = disk \/ disk' = Durable(s))
      BY <2>2, WritesLand DEF PulseOpened
    <3> HIDE DEF p
    <3>3. moved \in Store /\ SameFates(moved, store) /\ SameMarks(moved, store)
      BY <3>1, RebindType, RebindFates, RowsOnly, SameRowsFates DEF Pulse, TypeOK, SameMarks
    <3> HIDE DEF moved
    <3>4. s \in Store /\ SameFates(s, store) /\ SameMarks(s, store)
      BY <3>1, <3>3, MarkExecutingType, MarkExecutingFates, RowsOnly, FatesTrans DEF SameMarks, Pulse
    <3> HIDE DEF s
    <3>5. AsGood(s, store)
      BY <3>4, FatesAsGood
    <3> QED
      BY <1>2, <1>3, <1>4, <2>1, <3>2, <3>4, <3>5
  <2>3. CASE \/ PulseIgnored \/ PulseHeld \/ PulseSettled
             \/ \E d \in provisional : GraceExpires(d)
             \/ \E d \in due : PlanNothing(d)
             \/ \E d \in inflight, p \in Parents : NotifyParent(d, p) \/ ParentUnreachable(d, p)
    <3>1. UNCHANGED store /\ (disk' = disk \/ (resident /\ disk' = Durable(store)))
      BY <2>3, WritesLand DEF PulseIgnored, PulseHeld, PulseSettled, GraceExpires, PlanNothing, NotifyParent,
                  ParentUnreachable
    <3> QED
      BY <1>2, <1>3, <1>4, <2>1, <3>1
  <2>4. ASSUME NEW d \in due, PlanAbandoned(d)
        PROVE  FALSE
    BY <2>4, WritesLand DEF PlanAbandoned
  <2>5. ASSUME NEW d \in inflight, Commit(d)
        PROVE  ScanInv'
    <3>1. CommittedStore(d) \in Store /\ Spent(CommittedStore(d))
      BY CommittedStoreType, CommittedSpent DEF TypeOK
    <3>2. store' = CommittedStore(d) /\ resident /\ disk' = Durable(CommittedStore(d))
      BY <2>5, WritesLand DEF Commit
    <3> QED
      BY <1>3, <2>1, <3>1, <3>2
  <2>6. ASSUME NEW d \in due, Plan(d)
        PROVE  ScanInv'
    <3> DEFINE s == BeginDelivery(store, KeyOf(d))
    <3>1. KeyOf(d) \in Key
      BY KeyOfType DEF TypeOK, DueBoundary
    <3>2. s \in Store /\ s.req = store.req /\ s.notified = store.notified
      BY <3>1, MarkerType DEF TypeOK
    <3>3. resident /\ store' = s /\ disk' = Durable(s)
      BY <2>6 DEF Plan, PersistOk, Deliverable
    <3> HIDE DEF s
    <3>4. \A L : Recalls(store, L) => Recalls(s, L)
      BY <3>2 DEF Recalls, Spent
    <3>5. Recalls(s, Past) => Recalls(Durable(s), Past)
      BY <3>2, DurableAsGood DEF Recalls, AsGood, Past
    <3>6. Past' = Past /\ (ScanPending' => ScanPending) /\ (Writing' => Writing)
      BY <2>1 DEF ScanPending, Past, Late, Writing
    <3> QED
      BY <2>1, <3>3, <3>4, <3>5, <3>6 DEF ScanInv
  <2> QED
    BY <1>6, <2>2, <2>3, <2>4, <2>5, <2>6 DEF DeliverNext
<1>7. CASE ReconcileScan
  <2>1. /\ scan'.store = Repair(rows, disk)
        /\ UNCHANGED <<disk, resident, store, saved, receipt, disp>>
    BY <1>7 DEF ReconcileScan
  <2> SUFFICES ASSUME ScanPending' PROVE ScanInv'
    BY DEF ScanInv
  <2>2. PICK x \in Past : Open(Repair(rows, disk).req[x]) /\ receipt[x] # NoTurn
    BY <2>1 DEF ScanPending, Past, Late
  <2>3. x \in Requests /\ Class(disk.req[x]) = "open"
    BY <2>2, RepairFates, FatesClass, ClassIs DEF TypeOK, Past
  <2>4. ASSUME NEW s \in LiveCopies
        PROVE  Recalls(s, Past)
    <3>0. disk \in LiveCopies
      BY DEF LiveCopies
    <3>1. Alike(Class(s.req[x]), Class(disk.req[x]), x)
      BY <2>3, <3>0 DEF AgreeInv
    <3>2. Present(s.req[x])
      BY <2>2, <2>3, <3>1, ClassIs DEF Alike
    <3> QED
      BY <3>2 DEF Recalls
  <2>5. Past' = Past /\ (Writing' => Writing)
    BY <2>1 DEF Past, Late, Writing
  <2> QED
    BY <2>1, <2>4, <2>5 DEF ScanInv, LiveCopies
<1>8. CASE ReconcileSeed \/ Crash
  <2>1. recon' # "scanned"
    BY <1>8 DEF ReconcileSeed, Crash
  <2> QED
    BY <2>1 DEF ScanInv, ScanPending
<1>9. CASE \/ ReleasePick \/ ReleaseFence \/ ReleaseClear \/ ReleaseRead \/ EvictInPlace
  <2>1. UNCHANGED <<disk, resident, store, recon, scan, saved, receipt, disp>>
    BY <1>9 DEF ReleasePick, ReleaseFence, ReleaseClear, ReleaseRead, EvictInPlace
  <2> QED
    BY <1>2, <1>3, <1>4, <2>1
<1>10. CASE ReleaseSettle
  <2>1. store' = Repair(relRows, store) /\ UNCHANGED <<disk, resident, recon, scan, saved, receipt, disp>>
    BY <1>10 DEF ReleaseSettle
  <2>2. store' \in Store /\ AsGood(store', store)
    BY <2>1, RepairFates, RowsOnly, FatesAsGood DEF TypeOK
  <2> QED
    BY <1>3, <2>1, <2>2
<1>11. CASE Stop
  <2>1. /\ store' = SettledStore /\ UNCHANGED <<resident, recon, scan, saved, receipt, disp>>
    BY <1>11 DEF Stop, StopsProcess
  <2>2. disk' = disk \/ (resident /\ disk' = Durable(SettledStore))
    BY <1>11 DEF Stop
  <2>3. SettledStore \in Store
    BY <2>1 DEF TypeOK
  <2> QED
    BY <1>3, <1>4, <2>1, <2>2, <2>3, SettledAsGood
<1>12. ~StopDetached
  <2>1. "detached" \in DOMAIN Bound
    BY DEF Bound
  <2> QED
    BY <2>1 DEF StopDetached, Spend, TypeOK
<1> QED
  BY <1>5, <1>6, <1>7, <1>8, <1>9, <1>10, <1>11, <1>12 DEF LifeNext

\* The copies agree, and the mirror stays while a scan is pending, in every
\* behaviour in which no write fails, none outlives its call and no stop is
\* detached.
THEOREM CopiesAgree == Spec => [](Sound => AgreeInv /\ ScanInv)
<1> USE DEF vendorVars, mirrorVars, dispVars, dlvVars, toldVars
<1> DEFINE Ready == /\ TypeOK /\ ClaimInv /\ LateInv /\ OwnInv /\ AnswerLedger
                    /\ (NoneLanded => FileInv /\ RememberInv) /\ (Undisturbed => WokenInv)
<1>1. Init => (Sound => AgreeInv /\ ScanInv)
  <2> SUFFICES ASSUME Init PROVE AgreeInv /\ ScanInv
    OBVIOUS
  <2>1. LiveCopies = {EmptyStore} /\ \A r \in Requests : receipt[r] = NoTurn /\ disp[r] = "new"
    BY DEF Init, LiveCopies, Writing
  <2>2. AgreeInv
    BY <2>1 DEF AgreeInv, Alike, InHand
  <2>3. ScanInv
    BY DEF Init, ScanInv, ScanPending
  <2> QED
    BY <2>2, <2>3
<1>2. Ready /\ Ready' /\ (Sound => AgreeInv /\ ScanInv) /\ [Next]_vars => (Sound => AgreeInv /\ ScanInv)'
  <2> SUFFICES ASSUME Ready, TypeOK', Sound => AgreeInv /\ ScanInv, [Next]_vars, Sound'
               PROVE  AgreeInv' /\ ScanInv'
    OBVIOUS
  <2>1. spent'["fault"] = 0 /\ spent'["detached"] = 0
    BY DEF Sound, NoneDetached
  <2>2. Sound /\ Undisturbed /\ ~LateNext
    BY SoundBefore
  <2>3. /\ AgreeInv /\ ScanInv /\ flush = {} /\ HandedInv /\ TermsKept /\ FileInv /\ RememberInv
        /\ TypeOK /\ ClaimInv
    BY <2>2 DEF Undisturbed, WokenInv, OwnInv, AnswerLedger
  <2>4. \A r \in Requests : disp'[r] \in InHand => Open(disk'.req[r])
    BY <2>2, <2>3, HandOpen DEF AgreeInv
  <2>5. ASSUME \A s, u \in LiveCopies' : \A x \in Requests : Alike(Class(s.req[x]), Class(u.req[x]), x)'
        PROVE  AgreeInv'
    BY <2>4, <2>5 DEF AgreeInv
  <2>6. Thinly => AgreeInv'
    BY <2>3, <2>5, AgreeThins DEF Thinly, Thinned
  <2>7. CASE DispatchNext
    <3>1. ScanInv'
      BY <2>1, <2>3, <2>7, ScanDispatch
    <3>2. PICK r \in Requests :
                    \/ \E p \in Parents, n \in Notifies, w \in Waiting : AcceptWrite(r, p, n, w)
                    \/ AcceptCommit(r) \/ AcceptRollback(r)
                    \/ \E t \in Turns : SubmitStarted(r, t) \/ SubmitInjected(r, t) \/ SubmitQueued(r, t)
                    \/ SubmitFail(r) \/ Bind(r) \/ Cancel(r)
                    \/ WaitClaimLapses(r) \/ WaiterReleases(r) \/ WaiterReads(r)
      BY <2>7 DEF DispatchNext
    <3>3. CASE \E p \in Parents, n \in Notifies, w \in Waiting : AcceptWrite(r, p, n, w)
      BY <2>3, <2>5, <3>1, <3>3, AgreeAccept
    <3>4. CASE \E t \in Turns : SubmitStarted(r, t) \/ SubmitInjected(r, t) \/ SubmitQueued(r, t)
      BY <2>3, <2>5, <3>1, <3>4, AgreeSubmit
    <3>5. CASE SubmitFail(r) /\ IsEmpty(Without(store, {r}))
      BY <2>1, <2>3, <2>5, <3>1, <3>5, AgreeEmptied
    <3>6. CASE \/ AcceptCommit(r) \/ AcceptRollback(r)
               \/ SubmitFail(r) /\ ~IsEmpty(Without(store, {r}))
               \/ Bind(r) \/ Cancel(r) \/ WaitClaimLapses(r) \/ WaiterReleases(r) \/ WaiterReads(r)
      BY <2>1, <2>3, <2>6, <3>1, <3>6, ThinDispatch
    <3> QED
      BY <3>2, <3>3, <3>4, <3>5, <3>6
  <2>8. CASE VendorNext
    BY <2>1, <2>3, <2>6, <2>8, ThinVendor, ScanOthers
  <2>9. CASE DeliverNext
    <3>1. ScanInv'
      BY <2>1, <2>3, <2>9, ScanOthers
    <3>2. ASSUME NEW d \in inflight, Commit(d)
          PROVE  AgreeInv'
      <4> DEFINE s == CommittedStore(d)
      <4>1. claim = Free /\ UNCHANGED disp /\ resident' /\ store' = s /\ disk' = Durable(s)
        BY <2>1, <3>2, WritesLand DEF Commit
      <4>2. s \in Store
        BY CommittedStoreType DEF TypeOK
      <4>3. ClaimInv
        OBVIOUS
      <4> HIDE DEF s, Ready
      <4>4. \A v, u \in LiveCopies' : \A x \in Requests : Alike(Class(v.req[x]), Class(u.req[x]), x)'
        BY <4>1, <4>2, <4>3, AgreeWritten
      <4> QED
        BY <2>5, <4>4
    <3> QED
      BY <2>1, <2>3, <2>6, <2>9, <3>1, <3>2, ThinDeliver
  <2>10. CASE LifeNext
    <3>1. ScanInv'
      BY <2>1, <2>3, <2>10, ScanOthers
    <3>2. CASE Stop /\ resident
      <4> DEFINE s == SettledStore
      <4>1. claim = Free /\ UNCHANGED disp /\ resident' /\ store' = s /\ disk' = Durable(s)
        <5>1. ~(spent' = [spent EXCEPT !["stop"] = @ + 1, !["fault"] = @ + 1])
          <6>1. {"stop", "fault"} \subseteq DOMAIN Bound
            BY DEF Bound
          <6> QED
            BY <2>1, <6>1 DEF TypeOK
        <5> QED
          BY <3>2, <5>1 DEF Stop, StopsProcess
      <4>2. s \in Store
        BY <4>1 DEF TypeOK
      <4>3. ClaimInv
        OBVIOUS
      <4> HIDE DEF s, Ready
      <4>4. \A v, u \in LiveCopies' : \A x \in Requests : Alike(Class(v.req[x]), Class(u.req[x]), x)'
        BY <4>1, <4>2, <4>3, AgreeWritten
      <4> QED
        BY <2>5, <3>1, <4>4
    <3> QED
      BY <2>1, <2>3, <2>6, <2>10, <3>1, <3>2, ThinLife
  <2>11. CASE UNCHANGED vars
    <3>1. UNCHANGED <<disk, store, resident, recon, scan, saved, receipt, disp>>
      BY <2>11 DEF vars
    <3>2. LiveCopies' = LiveCopies /\ Past' = Past /\ (Writing' <=> Writing)
      BY <3>1 DEF LiveCopies, Past, Late, Writing
    <3>3. AgreeInv'
      BY <2>3, <2>5, <3>1, <3>2 DEF AgreeInv, Alike
    <3>4. ScanInv'
      BY <2>3, <3>1, <3>2 DEF ScanInv, ScanPending, Recalls, Spent
    <3> QED
      BY <3>3, <3>4
  <2> QED
    BY <2>2, <2>7, <2>8, <2>9, <2>10, <2>11 DEF Next
<1>3. Spec => []Ready
  BY TypeCorrect, ClaimSerialises, LateNumbered, ClaimKeepsTheFile, WorkIsOwned, MirrorIsKept, LedgerInvariant,
     ClaimsAreDurable, PTL
<1> HIDE DEF Ready
<1> QED
  BY <1>1, <1>2, <1>3, PTL DEF Spec

-----------------------------------------------------------------------------
(* Delegation keeps its contract: every step is one the contract allows, or  *)
(* changes nothing the contract speaks of.                                  *)

\* What the contract says of a request whose row is of class c, given whether
\* it was handed in at all and the turn the adapter took it for.
Standing(c, new, t) ==
  CASE c = "absent"   -> IF new THEN "none" ELSE IF t = NoTurn THEN "refused" ELSE "gone"
    [] c = "open"     -> IF t = NoTurn THEN "open" ELSE "taken"
    [] c = "answered" -> "answered"
    [] OTHER          -> "stopped"

\* That is the refinement mapping.
LEMMA StatusIs ==
  ASSUME NEW r \in Requests
  PROVE  /\ ContractStatus(r) = Standing(Class(disk.req[r]), disp[r] = "new", receipt[r])
         /\ ContractStatus(r)' = Standing(Class(disk'.req[r]), disp'[r] = "new", receipt'[r])
  BY DEF ContractStatus, Standing, Class, Present, Open, Answered, OpenState

\* What one write may make of the class of a row: c becomes n.
Lawful(c, n, r) ==
  \/ n = c
  \/ c = "open" /\ n = "absent" /\ (receipt[r] = NoTurn \/ r \in ContractLost)
  \/ c = "open" /\ n = "stopped"
  \/ c = "open" /\ n = "answered" /\ receipt[r] # NoTurn
  \/ c = "stopped" /\ n = "answered"
  \/ c \in {"answered", "stopped"} /\ n = "absent"
  \/ c = "absent" /\ n \in {"answered", "stopped"}
  \/ c = "absent" /\ n = "open" /\ receipt[r] = NoTurn

\* What the contract's Write may do to one request.
Written(r) ==
  /\ \/ ContractStatus(r)' = ContractStatus(r)
     \/ Contract!Ask(r) \/ Contract!Reject(r) \/ Contract!Take(r) \/ Contract!Stop(r)
     \/ Contract!Drop(r) \/ Contract!Forget(r) \/ Contract!Answer(r)
     \/ Contract!Return(r) \/ Contract!Recall(r)
  /\ Contract!TermsStay(r)
  /\ ContractStatus(r)' \in Contract!Status

\* A step in which each request is written is a Write.
LEMMA WrittenIsWrite ==
  ASSUME \A r \in Requests : Written(r),
         wants' \subseteq Requests, ContractLost' \subseteq ContractLost, everTold' = everTold
  PROVE  Contract!Next
<1>1. ContractQuiet' \subseteq Requests
  BY DEF ContractQuiet
<1>2. Contract!Write
  BY <1>1 DEF Contract!Write, Written
<1> QED
  BY <1>2 DEF Contract!Next

\* A lawful change of a row, with the terms kept and the answer accounted for, is
\* something the contract allows.
LEMMA LawfulIsWritten ==
  ASSUME NEW r \in Requests, receipt'[r] = receipt[r], disp'[r] = "new" <=> disp[r] = "new",
         disp[r] = "new" => ~Present(disk.req[r]) /\ ~Present(disk'.req[r]),
         Lawful(Class(disk.req[r]), Class(disk'.req[r]), r),
         Answered(disk'.req[r]) => r \in everTold \/ r \in ContractQuiet',
         Present(disk.req[r]) /\ Present(disk'.req[r]) => (r \in ContractQuiet <=> r \in ContractQuiet')
  PROVE  Written(r)
<1> DEFINE c == Class(disk.req[r])
           n == Class(disk'.req[r])
           a == ContractStatus(r)
           b == ContractStatus(r)'
           old == disp[r] = "new"
           t == receipt[r]
<1>1. a = Standing(c, old, t) /\ b = Standing(n, old, t)
  BY StatusIs
<1>2. /\ c \in {"absent", "open", "answered", "stopped"} /\ n \in {"absent", "open", "answered", "stopped"}
      /\ old => c = "absent" /\ n = "absent"
      /\ n = "answered" => r \in everTold \/ r \in ContractQuiet'
      /\ c # "absent" /\ n # "absent" => (r \in ContractQuiet <=> r \in ContractQuiet')
      /\ Lawful(c, n, r)
  BY ClassIs
<1>3. Contract!TermsStay(r)
  <2>1. c = "absent" \/ n = "absent" => a \in {"none", "refused", "gone"} \/ b \in {"none", "refused", "gone"}
    BY <1>1 DEF Standing
  <2> HIDE DEF a, b, c, n
  <2>2. \/ (r \in ContractQuiet <=> r \in ContractQuiet')
        \/ {a, b} \intersect {"none", "refused", "gone"} # {}
    BY <1>2, <2>1
  <2> QED
    BY <2>2 DEF Contract!TermsStay, a, b
<1>4. b \in Contract!Status
  BY <1>1 DEF Standing, Contract!Status
<1>5. \/ b = a
      \/ Contract!Ask(r) \/ Contract!Reject(r) \/ Contract!Take(r) \/ Contract!Stop(r)
      \/ Contract!Drop(r) \/ Contract!Forget(r) \/ Contract!Answer(r)
      \/ Contract!Return(r) \/ Contract!Recall(r)
  <2> HIDE DEF c, n, old, t
  <2>1. CASE n = c
    BY <1>1, <2>1
  <2>2. CASE c = "open" /\ n = "absent" /\ receipt[r] = NoTurn
    BY <1>1, <1>2, <2>2 DEF Standing, Contract!Reject, t
  <2>3. CASE c = "open" /\ n = "absent" /\ receipt[r] # NoTurn /\ r \in ContractLost
    BY <1>1, <1>2, <2>3 DEF Standing, Contract!Drop, t
  <2>4. CASE c = "open" /\ n = "stopped"
    BY <1>1, <1>2, <2>4 DEF Standing, Contract!Stop
  <2>5. CASE c = "open" /\ n = "answered" /\ receipt[r] # NoTurn
    BY <1>1, <1>2, <2>5 DEF Standing, Contract!Answer, t
  <2>6. CASE c = "stopped" /\ n = "answered"
    BY <1>1, <1>2, <2>6 DEF Standing, Contract!Answer
  <2>7. CASE c \in {"answered", "stopped"} /\ n = "absent"
    BY <1>1, <1>2, <2>7 DEF Standing, Contract!Forget
  <2>8. CASE c = "absent" /\ n \in {"answered", "stopped"}
    BY <1>1, <1>2, <2>8 DEF Standing, Contract!Recall
  <2>9. CASE c = "absent" /\ n = "open" /\ receipt[r] = NoTurn
    BY <1>1, <1>2, <2>9 DEF Standing, Contract!Return, t
  <2> QED
    BY <1>2, <2>1, <2>2, <2>3, <2>4, <2>5, <2>6, <2>7, <2>8, <2>9 DEF Lawful
<1> QED
  BY <1>3, <1>4, <1>5 DEF Written

\* Thinning a copy that agrees with the file is lawful.
LEMMA ThinIsLawful ==
  ASSUME AgreeInv, NEW s, Thinned(s), NEW r \in Requests
  PROVE  Lawful(Class(disk.req[r]), Class(s.req[r]), r)
<1>1. PICK u \in LiveCopies : Thins(s, u, r)
  BY DEF Thinned
<1>2. disk \in LiveCopies
  BY DEF LiveCopies
<1>3. Alike(Class(disk.req[r]), Class(u.req[r]), r)
  BY <1>2 DEF AgreeInv
<1>4. /\ Class(disk.req[r]) \in {"absent", "open", "answered", "stopped"}
      /\ Class(s.req[r]) \in {"absent", "open", "answered", "stopped"}
  BY ClassIs
<1> QED
  BY <1>1, <1>3, <1>4 DEF Alike, Thins, Lawful

\* How a request wants to hear of its answer stays.
LEMMA TermsAgree ==
  ASSUME TermsKept, wants' = wants, NEW u \in Copies, KeepsAll(disk', u), NEW r \in Requests,
         Present(disk.req[r]), Present(disk'.req[r])
  PROVE  r \in ContractQuiet <=> r \in ContractQuiet'
<1>1. disk \in Copies
  BY DEF Copies
<1>2. Present(u.req[r]) /\ disk'.req[r].notify = u.req[r].notify
  BY DEF KeepsAll, Keeps
<1>3. disk'.req[r].notify = disk.req[r].notify
  BY <1>1, <1>2 DEF TermsKept
<1> QED
  BY <1>3 DEF ContractQuiet

\* A step that changes every row lawfully, hands nothing in and tells nobody.
LEMMA LawfulStep ==
  ASSUME TypeOK', TermsKept, TermsKept', AnswersAccounted',
         UNCHANGED <<receipt, wants, everTold>>,
         \A r \in Requests : disp'[r] = "new" <=> disp[r] = "new",
         ContractLost' \subseteq ContractLost,
         \E u \in Copies : KeepsAll(disk', u),
         \A r \in Requests : Lawful(Class(disk.req[r]), Class(disk'.req[r]), r)
  PROVE  Contract!Next
<1>1. disk \in Copies /\ disk' \in Copies'
  BY DEF Copies
<1>2. ASSUME NEW r \in Requests
      PROVE  Written(r)
  <2>1. disp[r] = "new" => ~Present(disk.req[r]) /\ ~Present(disk'.req[r])
    BY <1>1 DEF TermsKept
  <2>2. Answered(disk'.req[r]) => r \in everTold \/ r \in ContractQuiet'
    <3> SUFFICES ASSUME Answered(disk'.req[r]), r \notin everTold PROVE r \in ContractQuiet'
      OBVIOUS
    <3>1. Present(disk'.req[r])
      BY DEF Answered, Present
    <3>2. IF disk'.req[r].notified THEN r \in everTold' ELSE disk'.req[r].notify = "off" \/ r \in wants'
      BY <1>1 DEF AnswersAccounted, AccountedFor
    <3> QED
      BY <3>1, <3>2 DEF ContractQuiet
  <2>3. Present(disk.req[r]) /\ Present(disk'.req[r]) => (r \in ContractQuiet <=> r \in ContractQuiet')
    BY TermsAgree
  <2> QED
    BY <2>1, <2>2, <2>3, LawfulIsWritten
<1>3. wants' \subseteq Requests
  BY DEF TypeOK
<1> QED
  BY <1>2, <1>3, WrittenIsWrite

\* Fewer deliveries have dropped fewer requests.
LEMMA FewerLost ==
  ASSUME inflight' \subseteq inflight
  PROVE  ContractLost' \subseteq ContractLost
  BY DEF ContractLost

\* A step that thins the copies keeps the contract.
LEMMA ThinStep ==
  ASSUME TypeOK', AnswerLedger, AnswerLedger', AgreeInv, OnlyWeakens, Thinly,
         UNCHANGED <<wants, everTold>>,
         \A r \in Requests : disp'[r] = "new" <=> disp[r] = "new"
  PROVE  Contract!Next
<1>1. ContractLost' \subseteq ContractLost
  BY FewerLost DEF OnlyWeakens
<1>2. \E u \in Copies : KeepsAll(disk', u)
  BY DEF OnlyWeakens, Covered, WeakensAll, Weakens, KeepsAll
<1>3. Thinned(disk') /\ UNCHANGED receipt
  BY DEF Thinly, LiveCopies
<1>4. \A r \in Requests : Lawful(Class(disk.req[r]), Class(disk'.req[r]), r)
  BY <1>3, ThinIsLawful
<1> QED
  BY <1>1, <1>2, <1>3, <1>4, LawfulStep DEF AnswerLedger

\* An accept asks, and forgets the settled requests it prunes.
LEMMA ContractAccept ==
  ASSUME TypeOK, TypeOK', AnswerLedger, AnswerLedger', HandedInv, AgreeInv,
         NEW r \in Requests, NEW p, NEW n, NEW w, AcceptWrite(r, p, n, w)
  PROVE  Contract!Next
<1> USE DEF vendorVars, mirrorVars, dispVars, dlvVars, toldVars
<1>1. /\ disp[r] = "new" /\ disp' = [disp EXCEPT ![r] = "writing"] /\ disk' = Accept(disk, r, p, n)
      /\ wants' \in {wants, wants \union {r}} /\ UNCHANGED <<receipt, inflight, everTold>>
  BY DEF AcceptWrite
<1>2. disk \in Copies /\ disk' \in Copies'
  BY DEF Copies
<1>3. receipt[r] = NoTurn /\ Class(disk.req[r]) = "absent"
  BY <1>1, NewIsNowhere DEF AnswerLedger, LiveCopies
<1>4. Class(disk'.req[r]) = "open" /\ \A x \in Requests : x # r => Thins(disk', disk, x)
  BY AgreeAccept DEF AnswerLedger
<1>5. disp'[r] = "writing" /\ \A x \in Requests : x # r => disp'[x] = disp[x]
  BY <1>1 DEF TypeOK
<1>6. Written(r)
  <2>1. ContractStatus(r) = "none"
    BY <1>1, <1>3, StatusIs DEF Standing
  <2>2. ContractStatus(r)' = "open"
    BY <1>1, <1>3, <1>4, <1>5, StatusIs DEF Standing
  <2> QED
    BY <2>1, <2>2 DEF Written, Contract!Ask, Contract!TermsStay, Contract!Status
<1>7. ASSUME NEW x \in Requests, x # r
      PROVE  Written(x)
  <2>1. Lawful(Class(disk.req[x]), Class(disk'.req[x]), x)
    <3>1. /\ Class(disk.req[x]) \in {"absent", "open", "answered", "stopped"}
          /\ Class(disk'.req[x]) \in {"absent", "open", "answered", "stopped"}
      BY ClassIs
    <3> QED
      BY <1>4, <1>7, <3>1 DEF Thins, Lawful
  <2>2. disp[x] = "new" => ~Present(disk.req[x]) /\ ~Present(disk'.req[x])
    BY <1>2, <1>5, <1>7 DEF AnswerLedger, TermsKept
  <2>3. disk'.req[x] = disk.req[x] \/ disk'.req[x] = Absent
    BY <1>1, <1>7, AcceptFates DEF TypeOK
  <2>4. Answered(disk'.req[x]) => x \in everTold \/ x \in ContractQuiet'
    <3> SUFFICES ASSUME Answered(disk'.req[x]), x \notin everTold PROVE x \in ContractQuiet'
      OBVIOUS
    <3>1. Present(disk'.req[x])
      BY DEF Answered, Present
    <3>2. IF disk'.req[x].notified THEN x \in everTold' ELSE disk'.req[x].notify = "off" \/ x \in wants'
      BY <1>2 DEF AnswerLedger, AnswersAccounted, AccountedFor
    <3> QED
      BY <1>1, <3>1, <3>2 DEF ContractQuiet
  <2>5. Present(disk.req[x]) /\ Present(disk'.req[x]) => (x \in ContractQuiet <=> x \in ContractQuiet')
    BY <1>1, <1>7, <2>3 DEF ContractQuiet, Absent, Present
  <2> QED
    BY <1>1, <1>5, <1>7, <2>1, <2>2, <2>4, <2>5, LawfulIsWritten
<1>8. ContractLost' \subseteq ContractLost /\ wants' \subseteq Requests
  BY <1>1, FewerLost DEF TypeOK
<1> QED
  BY <1>1, <1>6, <1>7, <1>8, WrittenIsWrite

\* A line handed over is taken.
LEMMA ContractSubmit ==
  ASSUME TypeOK, TypeOK', AnswerLedger, HandedInv, AgreeInv, NEW r \in Requests, NEW t \in Turns,
         SubmitStarted(r, t) \/ SubmitInjected(r, t) \/ SubmitQueued(r, t)
  PROVE  Contract!Next
<1> USE DEF vendorVars, mirrorVars, dispVars, dlvVars, toldVars
<1>1. /\ disp[r] = "accepted" /\ receipt' = [receipt EXCEPT ![r] = t]
      /\ \E x \in {"started", "injected", "queued"} : disp' = [disp EXCEPT ![r] = x]
      /\ UNCHANGED <<disk, wants, inflight, everTold>>
  BY DEF SubmitStarted, SubmitInjected, SubmitQueued
<1>2. /\ receipt[r] = NoTurn /\ receipt'[r] # NoTurn /\ disp'[r] # "new" /\ disp[r] # "new"
      /\ \A x \in Requests : x # r => receipt'[x] = receipt[x] /\ disp'[x] = disp[x]
  BY <1>1, TurnsAssumption DEF HandedInv, NoTurn, TypeOK
<1>3. Class(disk.req[r]) = "open"
  BY <1>1, ClassIs DEF AgreeInv, InHand
<1>4. ContractQuiet' = ContractQuiet /\ ContractLost' \subseteq ContractLost
  BY <1>1 DEF ContractQuiet, ContractLost
<1>5. Written(r)
  <2>1. ContractStatus(r) = "open"
    BY <1>2, <1>3, StatusIs DEF Standing
  <2>2. ContractStatus(r)' = "taken"
    BY <1>1, <1>2, <1>3, StatusIs DEF Standing
  <2> QED
    BY <1>4, <2>1, <2>2 DEF Written, Contract!Take, Contract!TermsStay, Contract!Status
<1>6. ASSUME NEW x \in Requests, x # r
      PROVE  Written(x)
  <2>1. ContractStatus(x)' = ContractStatus(x)
    BY <1>1, <1>2, <1>6, StatusIs
  <2>2. ContractStatus(x) \in Contract!Status
    BY StatusIs DEF Standing, Contract!Status
  <2> QED
    BY <1>4, <2>1, <2>2 DEF Written, Contract!TermsStay
<1> QED
  BY <1>1, <1>4, <1>5, <1>6, WrittenIsWrite DEF TypeOK

\* Of a request a delivery resolves, the adapter has the line.
LEMMA ResolvedIsTaken ==
  ASSUME OwnInv, NEW d \in inflight, NEW r \in d.resolved, r \in Requests
  PROVE  /\ receipt[r] # NoTurn /\ disp[r] # "new"
         /\ ContractStatus(r) \notin {"none", "open", "refused"}
<1>1. receipt[r] # NoTurn
  BY DEF OwnInv, DeliveriesOwned, DeliveryOwned, Own
<1>2. disp[r] # "new"
  BY DEF OwnInv, DeliveriesOwned, DeliveryOwned, Late
<1>3. Class(disk.req[r]) \in {"absent", "open", "answered", "stopped"}
  BY ClassIs
<1> QED
  BY <1>1, <1>2, <1>3, StatusIs DEF Standing

\* What agrees with the file may be written over it.
LEMMA AlikeIsLawful ==
  ASSUME NEW r \in Requests, NEW c, NEW n, Alike(c, n, r),
         {c, n} \subseteq {"absent", "open", "answered", "stopped"}
  PROVE  Lawful(c, n, r)
  BY DEF Alike, Lawful

\* A dispatch that fails and leaves nothing behind: the file goes with its row.
LEMMA ContractEmptied ==
  ASSUME TypeOK, TypeOK', AnswerLedger, AnswerLedger', ClaimInv, HandedInv, AgreeInv, ScanInv,
         OnlyWeakens, spent'["fault"] = 0,
         NEW r \in Requests, SubmitFail(r), IsEmpty(Without(store, {r}))
  PROVE  Contract!Next
<1> USE DEF vendorVars, mirrorVars, dispVars, dlvVars, toldVars
<1>1. disp[r] = "accepted" /\ disp' = [disp EXCEPT ![r] = "closed"] /\ UNCHANGED <<receipt, wants, everTold>>
  BY DEF SubmitFail
<1>2. \A x \in Requests : disp'[x] = "new" <=> disp[x] = "new"
  BY <1>1 DEF TypeOK
<1>3. resident /\ \A x \in Requests : Thins(disk', store, x)
  BY AgreeEmptied DEF AnswerLedger
<1>4. Thinned(disk')
  BY <1>3 DEF Thinned, LiveCopies
<1>5. \A x \in Requests : Lawful(Class(disk.req[x]), Class(disk'.req[x]), x)
  BY <1>4, ThinIsLawful
<1>6. ContractLost' \subseteq ContractLost
  BY FewerLost DEF OnlyWeakens
<1>7. \E u \in Copies : KeepsAll(disk', u)
  BY DEF OnlyWeakens, Covered, WeakensAll, Weakens, KeepsAll
<1> QED
  BY <1>1, <1>2, <1>5, <1>6, <1>7, LawfulStep DEF AnswerLedger

\* A plan writes its claim and moves no request.
LEMMA ContractPlan ==
  ASSUME TypeOK, TypeOK', AnswerLedger, AnswerLedger', AgreeInv, NEW d \in due, Plan(d)
  PROVE  Contract!Next
<1> USE DEF vendorVars, mirrorVars, dispVars, dlvVars, toldVars
<1> DEFINE s == BeginDelivery(store, KeyOf(d))
<1>1. /\ resident /\ disk' = Durable(s) /\ inflight' = inflight \union {PlannedDelivery(d)}
      /\ UNCHANGED <<receipt, wants, everTold, disp>>
  BY DEF Plan, PersistOk, Deliverable
<1>2. s \in Store /\ s.req = store.req
  <2>1. KeyOf(d) \in Key
    BY KeyOfType DEF TypeOK, DueBoundary
  <2> QED
    BY <2>1, MarkerType DEF TypeOK
<1> HIDE DEF s
<1>3. Thinned(s)
  BY <1>1, <1>2, ThinnedNow
<1>4. \A x \in Requests : Lawful(Class(disk.req[x]), Class(disk'.req[x]), x)
  BY <1>1, <1>2, <1>3, DurableThins, ThinIsLawful
<1>5. ContractLost' \subseteq ContractLost
  <2>1. PlannedDelivery(d).dropped = {}
    BY DEF PlannedDelivery
  <2> QED
    BY <1>1, <2>1 DEF ContractLost
<1>6. KeepsAll(disk', store)
  <2>1. WeakensAll(disk', s)
    BY <1>1, <1>2, DurableWeakens
  <2> QED
    BY <1>2, <2>1 DEF WeakensAll, Weakens, KeepsAll
<1>7. store \in Copies
  BY DEF Copies
<1> QED
  BY <1>1, <1>4, <1>5, <1>6, <1>7, LawfulStep DEF AnswerLedger

\* A commit answers what its delivery resolves and drops what is lost.
LEMMA ContractCommit ==
  ASSUME TypeOK, TypeOK', AnswerLedger, AnswerLedger', OwnInv, AgreeInv, spent'["fault"] = 0,
         NEW d \in inflight, Commit(d)
  PROVE  Contract!Next
<1> USE DEF vendorVars, mirrorVars, dispVars, dlvVars, toldVars
<1> DEFINE s == CommittedStore(d)
<1>1. /\ resident /\ disk' = Durable(s) /\ inflight' = inflight \ {d}
      /\ UNCHANGED <<receipt, wants, everTold, disp>>
  BY WritesLand DEF Commit
<1>2. d \in Delivery /\ store \in Store /\ s \in Store
  BY CommittedStoreType DEF TypeOK
<1>3. KeepsAll(s, store)
  BY <1>2, CommittedKeeps
<1>4. ASSUME NEW r \in Requests
      PROVE  \/ r \in d.dropped /\ Class(s.req[r]) = "absent"
             \/ Class(s.req[r]) = Class(store.req[r])
             \/ r \in d.resolved /\ Class(store.req[r]) # "absent" /\ Class(s.req[r]) = "answered"
  <2>1. IF r \in d.dropped THEN s.req[r] = Absent
        ELSE IF r \notin d.resolved \/ ~Present(store.req[r]) THEN s.req[r] = store.req[r]
        ELSE Answered(s.req[r])
    BY <1>2, CommittedFates
  <2>2. Class(Absent) = "absent"
    BY DEF Class, Absent, Present
  <2> QED
    BY <2>1, <2>2, ClassIs
<1> HIDE DEF s
<1>5. \A r \in Requests : Class(disk'.req[r]) = Class(s.req[r])
  BY <1>1, <1>2, DurableFates, FatesClass
<1>6. ASSUME NEW r \in Requests
      PROVE  Lawful(Class(disk.req[r]), Class(disk'.req[r]), r)
  <2> DEFINE c == Class(disk.req[r])
             q == Class(store.req[r])
  <2>1. {c, q} \subseteq {"absent", "open", "answered", "stopped"}
    BY ClassIs
  <2>2. Alike(c, q, r)
    BY <1>1 DEF AgreeInv, LiveCopies
  <2>3. CASE r \in d.dropped /\ Class(s.req[r]) = "absent"
    <3>1. r \in ContractLost
      BY <2>3 DEF ContractLost
    <3> QED
      BY <1>5, <2>1, <2>3, <3>1 DEF Lawful
  <2>4. CASE Class(s.req[r]) = q
    BY <1>5, <2>1, <2>2, <2>4, AlikeIsLawful
  <2>5. CASE r \in d.resolved /\ q # "absent" /\ Class(s.req[r]) = "answered"
    <3>1. receipt[r] # NoTurn
      BY <2>5, ResolvedIsTaken
    <3> QED
      BY <1>5, <2>1, <2>2, <2>5, <3>1 DEF Alike, Lawful
  <2> QED
    BY <1>4, <2>3, <2>4, <2>5
<1>7. ContractLost' \subseteq ContractLost
  BY <1>1, FewerLost
<1>8. KeepsAll(disk', store)
  <2>1. WeakensAll(disk', s)
    BY <1>1, <1>2, DurableWeakens
  <2> QED
    BY <1>3, <2>1 DEF WeakensAll, Weakens, KeepsAll, Keeps
<1>9. store \in Copies
  BY DEF Copies
<1> QED
  BY <1>1, <1>6, <1>7, <1>8, <1>9, LawfulStep DEF AnswerLedger

\* A stop settles what is open.
LEMMA ContractStop ==
  ASSUME TypeOK, TypeOK', AnswerLedger, AnswerLedger', AgreeInv, OnlyWeakens, spent'["fault"] = 0,
         Stop, resident
  PROVE  Contract!Next
<1> USE DEF vendorVars, mirrorVars, dispVars, dlvVars, toldVars
<1>1. disk' = Durable(SettledStore) /\ store' = SettledStore /\ UNCHANGED <<receipt, wants, everTold, disp>>
  <2>1. ~(spent' = [spent EXCEPT !["stop"] = @ + 1, !["fault"] = @ + 1])
    <3>1. {"stop", "fault"} \subseteq DOMAIN Bound
      BY DEF Bound
    <3> QED
      BY <3>1 DEF TypeOK
  <2> QED
    BY <2>1 DEF Stop, StopsProcess
<1>2. store \in Store /\ SettledStore \in Store
  BY <1>1 DEF TypeOK
<1>3. \A r \in Requests : Class(disk'.req[r]) = Class(SettledStore.req[r])
  BY <1>1, <1>2, DurableFates, FatesClass
<1>4. ASSUME NEW r \in Requests
      PROVE  Lawful(Class(disk.req[r]), Class(disk'.req[r]), r)
  <2> DEFINE c == Class(disk.req[r])
             q == Class(store.req[r])
  <2>1. {c, q} \subseteq {"absent", "open", "answered", "stopped"}
    BY ClassIs
  <2>2. Alike(c, q, r)
    BY DEF AgreeInv, LiveCopies
  <2>3. \/ SettledStore.req[r].state = store.req[r].state
        \/ Open(store.req[r]) /\ SettledStore.req[r].state \in {"interrupted", "undelivered"}
    BY <1>2, SettledFates
  <2>4. \/ Class(SettledStore.req[r]) = q
        \/ q = "open" /\ Class(SettledStore.req[r]) = "stopped"
    BY <2>3 DEF Class, Present, Open, OpenState, Answered
  <2> HIDE DEF q
  <2>5. CASE Class(SettledStore.req[r]) = q
    BY <1>3, <2>1, <2>2, <2>5, AlikeIsLawful
  <2>6. CASE q = "open" /\ Class(SettledStore.req[r]) = "stopped"
    BY <1>3, <2>1, <2>2, <2>6 DEF Alike, Lawful
  <2> QED
    BY <2>4, <2>5, <2>6
<1>5. ContractLost' \subseteq ContractLost
  BY FewerLost DEF OnlyWeakens
<1>6. \E u \in Copies : KeepsAll(disk', u)
  BY DEF OnlyWeakens, Covered, WeakensAll, Weakens, KeepsAll
<1> QED
  BY <1>1, <1>4, <1>5, <1>6, LawfulStep DEF AnswerLedger

\* A notification tells, an unreachable parent loses, and the record stays.
LEMMA ContractNotify ==
  ASSUME TypeOK, OwnInv, CarryInv, NEW d \in inflight, NEW p \in Parents,
         NotifyParent(d, p) \/ ParentUnreachable(d, p)
  PROVE  Contract!Next
<1> USE DEF vendorVars, mirrorVars, dispVars, dlvVars, toldVars
<1> DEFINE R == d.carry[p]
<1>1. UNCHANGED <<disk, disp, receipt, wants>>
  BY DEF NotifyParent, ParentUnreachable
<1>2. d \in Delivery /\ R \subseteq Requests
  BY DEF TypeOK, Delivery
<1>3. \A r \in R : ContractStatus(r) \notin {"none", "open", "refused"}
  <2> SUFFICES ASSUME NEW r \in R PROVE ContractStatus(r) \notin {"none", "open", "refused"}
    OBVIOUS
  <2>1. r \in d.resolved /\ r \in Requests
    BY <1>2 DEF CarryInv
  <2> QED
    BY <2>1, ResolvedIsTaken
<1>4. ContractQuiet' = ContractQuiet /\ \A r \in Requests : ContractStatus(r)' = ContractStatus(r)
  BY <1>1 DEF ContractQuiet, ContractStatus
<1>5. CASE NotifyParent(d, p)
  <2>1. inflight' = (inflight \ {d}) \union {[d EXCEPT !.carry[p] = {}]} /\ everTold' = everTold \union R
    BY <1>5 DEF NotifyParent
  <2>2. [d EXCEPT !.carry[p] = {}].dropped = d.dropped
    BY <1>2 DEF Delivery
  <2>3. ContractLost' = ContractLost
    BY <2>1, <2>2 DEF ContractLost
  <2>4. Contract!Tell(R)
    BY <1>2, <1>3, <1>4, <2>1, <2>3 DEF Contract!Tell
  <2> QED
    BY <1>2, <2>4 DEF Contract!Next
<1>6. CASE ParentUnreachable(d, p)
  <2> DEFINE e == [d EXCEPT !.carry[p] = {}, !.dropped = @ \union R]
  <2>1. inflight' = (inflight \ {d}) \union {e} /\ everTold' = everTold
    BY <1>6 DEF ParentUnreachable
  <2>2. e.dropped = d.dropped \union R
    BY <1>2 DEF Delivery
  <2> HIDE DEF e, R
  <2>3. ContractLost' = ContractLost \union R
    BY <1>2, <2>1, <2>2 DEF ContractLost
  <2>4. Contract!Lose(R)
    BY <1>2, <1>3, <1>4, <2>1, <2>3 DEF Contract!Lose
  <2> QED
    BY <1>2, <2>4 DEF Contract!Next
<1> QED
  BY <1>5, <1>6

\* What a step is taken in: no write has failed and no stop left a snapshot.
StepInv ==
  /\ TypeOK /\ ClaimInv /\ FileInv /\ OwnInv /\ AnswerLedger /\ AgreeInv /\ ScanInv /\ CarryInv
  /\ flush = {}

\* Each step of a delegation is one of its contract, or none.
LEMMA ContractStep ==
  ASSUME StepInv, TypeOK', AnswerLedger', spent'["fault"] = 0, spent'["detached"] = 0, [Next]_vars, ~LateNext
  PROVE  Contract!Next \/ UNCHANGED Contract!vars
<1> USE DEF vendorVars, mirrorVars, dispVars, dlvVars, toldVars
<1>0. /\ TypeOK /\ ClaimInv /\ FileInv /\ OwnInv /\ AnswerLedger /\ AgreeInv /\ ScanInv /\ CarryInv
      /\ HandedInv /\ TermsKept
  BY DEF StepInv, OwnInv, AnswerLedger
<1>1. CASE DispatchNext
  <2>1. PICK r \in Requests :
                    \/ \E p \in Parents, n \in Notifies, w \in Waiting : AcceptWrite(r, p, n, w)
                    \/ AcceptCommit(r) \/ AcceptRollback(r)
                    \/ \E t \in Turns : SubmitStarted(r, t) \/ SubmitInjected(r, t) \/ SubmitQueued(r, t)
                    \/ SubmitFail(r) \/ Bind(r) \/ Cancel(r)
                    \/ WaitClaimLapses(r) \/ WaiterReleases(r) \/ WaiterReads(r)
    BY <1>1 DEF DispatchNext
  <2>2. CASE \E p \in Parents, n \in Notifies, w \in Waiting : AcceptWrite(r, p, n, w)
    BY <1>0, <2>2, ContractAccept
  <2>3. CASE \E t \in Turns : SubmitStarted(r, t) \/ SubmitInjected(r, t) \/ SubmitQueued(r, t)
    BY <1>0, <2>3, ContractSubmit
  <2>4. ASSUME \/ AcceptCommit(r) \/ AcceptRollback(r) \/ SubmitFail(r) \/ Bind(r) \/ Cancel(r)
               \/ WaitClaimLapses(r) \/ WaiterReleases(r) \/ WaiterReads(r)
        PROVE  /\ OnlyWeakens /\ UNCHANGED <<wants, everTold>>
               /\ \A x \in Requests : disp'[x] = "new" <=> disp[x] = "new"
    <3>1. UNCHANGED <<wants, everTold>>
      BY <2>4 DEF AcceptCommit, AcceptRollback, SubmitFail, Bind, Cancel, WaitClaimLapses, WaiterReleases,
                  WaiterReads
    <3>2. disp' = disp \/ (disp[r] # "new" /\ \E x : x # "new" /\ disp' = [disp EXCEPT ![r] = x])
      BY <2>4 DEF AcceptCommit, AcceptRollback, SubmitFail, Bind, Cancel, WaitClaimLapses, WaiterReleases,
                  WaiterReads
    <3>3. ~Accepts
      <4> SUFFICES ASSUME NEW x \in Requests, NEW p, NEW n, TakesRow(x, p, n) PROVE FALSE
        BY DEF Accepts
      <4>1. disp[x] = "new" /\ disp'[x] # "new"
        BY DEF TakesRow
      <4>2. x = r \/ disp'[x] = disp[x]
        BY <1>0, <3>2 DEF TypeOK
      <4> QED
        BY <3>2, <4>1, <4>2
    <3>4. OnlyWeakens
      BY <1>0, <1>1, <3>3, WeakensDispatch
    <3> QED
      BY <1>0, <3>1, <3>2, <3>4 DEF TypeOK
  <2>5. CASE SubmitFail(r) /\ IsEmpty(Without(store, {r}))
    BY <1>0, <2>4, <2>5, ContractEmptied
  <2>6. CASE \/ AcceptCommit(r) \/ AcceptRollback(r)
             \/ SubmitFail(r) /\ ~IsEmpty(Without(store, {r}))
             \/ Bind(r) \/ Cancel(r) \/ WaitClaimLapses(r) \/ WaiterReleases(r) \/ WaiterReads(r)
    <3>1. Thinly
      BY <1>0, <2>6, ThinDispatch
    <3> QED
      BY <1>0, <2>4, <2>6, <3>1, ThinStep
  <2> QED
    BY <2>1, <2>2, <2>3, <2>5, <2>6
<1>2. CASE VendorNext
  <2>1. UNCHANGED <<wants, everTold, disp>>
    BY <1>2 DEF VendorNext, HumanTurn, OpenParked, OpenContinuation, TurnOpens, Narrate, TurnEnds, FailTurn,
                EndTurn, EndTurnReleased, EndTurnUnrecorded
  <2>2. OnlyWeakens /\ Thinly
    BY <1>0, <1>2, WeakensVendor, ThinVendor
  <2> QED
    BY <1>0, <2>1, <2>2, ThinStep
<1>3. CASE DeliverNext
  <2>1. ASSUME NEW d \in due, Plan(d)
        PROVE  Contract!Next
    BY <1>0, <2>1, ContractPlan
  <2>2. ASSUME NEW d \in inflight, NEW p \in Parents, NotifyParent(d, p) \/ ParentUnreachable(d, p)
        PROVE  Contract!Next
    BY <1>0, <2>2, ContractNotify
  <2>3. ASSUME NEW d \in inflight, Commit(d)
        PROVE  Contract!Next
    BY <1>0, <2>3, ContractCommit
  <2>4. CASE ~Delivers
    <3>1. OnlyWeakens
      BY <1>0, <1>3, <2>4, WeakensDeliver
    <3>2. Thinly
      BY <1>0, <1>3, <2>4, ThinDeliver DEF Delivers
    <3>3. \/ PulseIgnored \/ PulseOpened \/ PulseHeld \/ PulseSettled
          \/ \E d \in provisional : GraceExpires(d)
          \/ \E d \in due : PlanNothing(d) \/ PlanAbandoned(d)
      BY <1>3, <2>4 DEF DeliverNext, Delivers
    <3>4. UNCHANGED <<wants, everTold, disp>>
      BY <3>3 DEF PulseIgnored, PulseOpened, PulseHeld, PulseSettled, GraceExpires, PlanNothing, PlanAbandoned
    <3> QED
      BY <1>0, <3>1, <3>2, <3>4, ThinStep
  <2> QED
    BY <2>1, <2>2, <2>3, <2>4 DEF Delivers
<1>4. CASE LifeNext
  <2>1. OnlyWeakens
    BY <1>0, <1>4, WeakensLife
  <2>2. CASE Stop /\ resident
    BY <1>0, <2>1, <2>2, ContractStop
  <2>3. CASE ~(Stop /\ resident)
    <3>1. Thinly
      BY <1>0, <1>4, <2>3, ThinLife DEF StepInv
    <3>2. UNCHANGED <<wants, everTold>> /\ (disp' = disp \/ Crash)
      BY <1>4 DEF LifeNext, ReconcileScan, ReconcileSeed, ReleasePick, ReleaseFence, ReleaseClear, ReleaseRead,
           ReleaseSettle, EvictInPlace, Stop, StopDetached, StopsProcess, FlushSettlement, Crash
    <3>3. \A r \in Requests : disp'[r] = "new" <=> disp[r] = "new"
      BY <3>2 DEF Crash
    <3> QED
      BY <1>0, <2>1, <3>1, <3>2, <3>3, ThinStep
  <2> QED
    BY <2>2, <2>3
<1>5. CASE UNCHANGED vars
  <2>1. UNCHANGED <<disk, disp, receipt, wants, everTold, inflight>>
    BY <1>5 DEF vars
  <2> QED
    BY <2>1 DEF Contract!vars, ContractStatus, ContractQuiet, ContractLost
<1> QED
  BY <1>1, <1>2, <1>3, <1>4, <1>5 DEF Next

\* A sound state comes of one, by a step that leaves no write behind.
LEMMA SoundBack ==
  ASSUME TypeOK, TypeOK', LateInv, [Next]_vars, Sound'
  PROVE  Sound /\ spent'["fault"] = 0 /\ spent'["detached"] = 0 /\ ~LateNext
<1>1. Sound /\ ~LateNext
  BY SoundBefore
<1> QED
  BY <1>1 DEF Sound, NoneDetached

\* What a step is taken in.
LEMMA StepInvs == Spec => []((Sound => StepInv) /\ TypeOK /\ AnswerLedger /\ LateInv)
<1> DEFINE Woken == Undisturbed => WokenInv
           Agree == Sound => AgreeInv /\ ScanInv
           Guarded == NoneLanded => FileInv
<1>1. /\ TypeOK /\ ClaimInv /\ LateInv /\ Guarded /\ OwnInv /\ AnswerLedger /\ CarryInv /\ Woken /\ Agree
      => (Sound => StepInv)
  <2> SUFFICES ASSUME TypeOK, ClaimInv, LateInv, Guarded, OwnInv, AnswerLedger, CarryInv, Woken, Agree, Sound
               PROVE  StepInv
    OBVIOUS
  <2>1. NoneLanded
    BY NothingLate DEF Sound
  <2> QED
    BY <2>1 DEF StepInv, Sound, Undisturbed, WokenInv
<1>2. Spec => []Woken /\ []Agree /\ []Guarded
  BY ClaimsAreDurable, CopiesAgree, ClaimKeepsTheFile, PTL
<1> HIDE DEF Woken, Agree, Guarded
<1> QED
  BY <1>1, <1>2, TypeCorrect, ClaimSerialises, LateNumbered, WorkIsOwned, LedgerInvariant, CarryIsExact, PTL

\* Nothing is asked, told or lost yet.
LEMMA ContractInit == Init => Contract!Init
<1> SUFFICES ASSUME Init PROVE Contract!Init
  OBVIOUS
<1>1. \A r \in Requests : disk.req[r] = Absent
  BY DEF Init, EmptyStore
<1>2. \A r \in Requests : ContractStatus(r) = "none"
  BY <1>1, StatusIs DEF Init, Class, Standing, Absent, Present
<1>3. ContractQuiet = {} /\ ContractLost = {} /\ everTold = {}
  BY <1>1 DEF Init, ContractQuiet, ContractLost, Present, Absent
<1> QED
  BY <1>2, <1>3 DEF Contract!Init

\* KeepsContract: whatever the dispatchers, the vendor, the notifier, stops, releases,
\* calls dropped between two writes, crashes and restarts do to delegation.json, each
\* request goes the way the contract of the `agent` tool allows, as long as no write
\* fails, none is of a call dropped in it and no stop is detached.
THEOREM KeepsTheContract == Spec /\ []Sound => KeepsContract
<1>1. /\ (Sound => StepInv) /\ TypeOK /\ TypeOK' /\ AnswerLedger' /\ LateInv /\ Sound' /\ [Next]_vars
      => [Contract!Next]_(Contract!vars)
  BY SoundBack, ContractStep
<1> QED
  BY <1>1, StepInvs, ContractInit, PTL DEF Spec, KeepsContract, Contract!Spec

\* TakenIsNotForgotten: nor, under the same condition, does the row of a request the
\* adapter took leave the file before it is settled, but for a parent that could not
\* be reached.
THEOREM TakenIsKept == Spec /\ []Sound => TakenIsNotForgotten
<1> DEFINE Taken == \A r \in Requests : Forgotten(r) => UnreachableParent(r) \/ LateLanded'
<1>1. (Sound => StepInv) /\ TypeOK /\ TypeOK' /\ AnswerLedger' /\ LateInv /\ Sound' /\ [Next]_vars => [Taken]_vars
  <2> SUFFICES ASSUME Sound => StepInv, TypeOK, TypeOK', AnswerLedger', LateInv, Sound', [Next]_vars,
                      NEW r \in Requests, disk.req[r].state \in OpenState, receipt[r] # NoTurn,
                      disk'.req[r].state = "absent"
               PROVE  r \in ContractLost
    BY DEF ContractLost, Forgotten, UnreachableParent
  <2>1. Contract!Next \/ UNCHANGED Contract!vars
    BY SoundBack, ContractStep
  <2>2. ContractStatus(r) = "taken"
    BY StatusIs, ClassIs DEF Standing, Open
  <2>3. ContractStatus(r)' \in {"none", "refused", "gone"}
    BY StatusIs, ClassIs DEF Standing, Present
  <2>4. \/ ContractStatus(r)' = ContractStatus(r)
        \/ Contract!Ask(r) \/ Contract!Reject(r) \/ Contract!Take(r) \/ Contract!Stop(r)
        \/ Contract!Drop(r) \/ Contract!Forget(r) \/ Contract!Answer(r)
        \/ Contract!Return(r) \/ Contract!Recall(r)
    <3>1. [x \in Requests |-> ContractStatus(x)]' = [x \in Requests |-> ContractStatus(x)]
          => ContractStatus(r)' = ContractStatus(r)
      <4>1. [x \in Requests |-> ContractStatus(x)][r] = ContractStatus(r)
        OBVIOUS
      <4>2. [x \in Requests |-> ContractStatus(x)]'[r] = ContractStatus(r)'
        OBVIOUS
      <4> QED
        BY <4>1, <4>2
    <3> QED
      BY <2>1, <3>1 DEF Contract!Next, Contract!Write, Contract!Tell, Contract!Lose, Contract!vars
  <2> QED
    BY <2>2, <2>3, <2>4 DEF Contract!Ask, Contract!Reject, Contract!Take, Contract!Stop, Contract!Drop,
       Contract!Forget, Contract!Answer, Contract!Return, Contract!Recall
<1> QED
  BY <1>1, StepInvs, PTL DEF Spec, TakenIsNotForgotten

-----------------------------------------------------------------------------
(* What the file says of an answer stays said: DurableAnswerStays.  A write *)
(* writes the mirror, and a rollback what the file held; so none of those   *)
(* copies may contradict an answer that is, or may again be, on disk.  It   *)
(* takes that no stop leaves a snapshot behind, and that no two deliveries  *)
(* under way resolve the same request: the second commit would overwrite    *)
(* the answer of the first.                                                 *)

\* What is on disk, or is put back by a rollback.
FileCopies == {disk} \union (IF Writing THEN {saved} ELSE {})

\* n says of an answered request what q says, or has no row of it.
Repeats(n, q) == ~Present(n) \/ (n.state = q.state /\ n.answered = q.answered)

AnswerIs(r) ==
  /\ \A w \in FileCopies, s \in LiveCopies : Answered(w.req[r]) => Repeats(s.req[r], w.req[r])
  /\ \A s \in LiveCopies, d \in inflight : r \in d.resolved => ~Answered(s.req[r])

\* While a dispatch is in hand nobody writes, and the mirror is the file.
HandInv ==
  /\ \A r \in Requests : disp[r] \in InHand => Open(disk.req[r])
  /\ \A r \in Requests : disp[r] \in InHand \ {"writing"} => store = disk

\* No two deliveries under way resolve the same request.
Apart == \A d, e \in inflight : d.resolved \intersect e.resolved # {} => d = e

AnsInv == HandInv /\ \A r \in Requests : AnswerIs(r)

\* n took the place of q and says of an answer what q says.
Follows(n, q) == Repeats(n, q) \/ (Present(q) /\ ~Answered(n) /\ ~Answered(q))

\* What is to be shown of a step.
Stays(r) == AnswerIs(r)' /\ (Answered(disk.req[r]) => Repeats(disk'.req[r], disk.req[r]))

\* No request is in more deliveries than before.
NoneAdded == \A d \in inflight' : \E e \in inflight : d.resolved \subseteq e.resolved

LEMMA RepeatsFollow ==
  ASSUME NEW n, NEW q, NEW w, Follows(n, q), Answered(w), Repeats(q, w)
  PROVE  Repeats(n, w)
  BY DEF Follows, Repeats, Present, Answered

LEMMA FollowsAnswer ==
  ASSUME NEW n, NEW q, Follows(n, q), Answered(n)
  PROVE  Answered(q) /\ q.state = n.state /\ q.answered = n.answered /\ Present(q)
  BY DEF Follows, Repeats, Present, Answered

LEMMA FateFollows ==
  ASSUME NEW n, NEW q, SameFate(n, q)
  PROVE  Follows(n, q)
  BY DEF SameFate, Follows, Repeats, Present, Answered, Open, OpenState

LEMMA FatesFollow ==
  ASSUME NEW s, NEW u, SameFates(s, u), NEW r \in Requests
  PROVE  Follows(s.req[r], u.req[r])
  BY FateFollows DEF SameFates

\* Every copy takes the place of one, and what may be on disk of what might have been.
LEMMA AllFollow ==
  ASSUME NEW r, AnswerIs(r), NoneAdded,
         \A w \in FileCopies' : \E u \in FileCopies : Follows(w.req[r], u.req[r]),
         \A s \in LiveCopies' : \E u \in LiveCopies : Follows(s.req[r], u.req[r])
  PROVE  Stays(r)
<1>1. ASSUME NEW w \in FileCopies', NEW s \in LiveCopies', Answered(w.req[r])
      PROVE  Repeats(s.req[r], w.req[r])
  <2>1. PICK u \in FileCopies : Follows(w.req[r], u.req[r])
    OBVIOUS
  <2>2. PICK v \in LiveCopies : Follows(s.req[r], v.req[r])
    OBVIOUS
  <2>3. Answered(u.req[r]) /\ u.req[r].state = w.req[r].state /\ u.req[r].answered = w.req[r].answered
    BY <1>1, <2>1, FollowsAnswer
  <2>4. Repeats(v.req[r], u.req[r])
    BY <2>3 DEF AnswerIs
  <2>5. Repeats(s.req[r], u.req[r])
    BY <2>2, <2>3, <2>4, RepeatsFollow
  <2> QED
    BY <2>3, <2>5 DEF Repeats
<1>2. ASSUME NEW s \in LiveCopies', NEW d \in inflight', r \in d.resolved
      PROVE  ~Answered(s.req[r])
  <2>1. PICK u \in LiveCopies : Follows(s.req[r], u.req[r])
    OBVIOUS
  <2>2. PICK e \in inflight : d.resolved \subseteq e.resolved
    BY DEF NoneAdded
  <2> QED
    BY <1>2, <2>1, <2>2, FollowsAnswer DEF AnswerIs
<1>3. ASSUME Answered(disk.req[r])
      PROVE  Repeats(disk'.req[r], disk.req[r])
  <2>1. disk' \in FileCopies' /\ disk \in FileCopies /\ FileCopies \subseteq LiveCopies
    BY DEF FileCopies, LiveCopies
  <2>2. PICK u \in FileCopies : Follows(disk'.req[r], u.req[r])
    BY <2>1
  <2>3. Repeats(u.req[r], disk.req[r])
    BY <1>3, <2>1 DEF AnswerIs
  <2> QED
    BY <1>3, <2>2, <2>3, RepeatsFollow
<1>4. AnswerIs(r)'
  BY <1>1, <1>2 DEF AnswerIs
<1> QED
  BY <1>3, <1>4 DEF Stays

\* What takes the place of something written, or live.
OfFile(s, r) == \E u \in FileCopies : Follows(s.req[r], u.req[r])
OfLive(s, r)    == \E u \in LiveCopies : Follows(s.req[r], u.req[r])

LEMMA OfNow ==
  ASSUME NEW r
  PROVE  /\ OfFile(disk, r) /\ (Writing => OfFile(saved, r))
         /\ OfLive(disk, r) /\ (resident => OfLive(store, r)) /\ (Writing => OfLive(saved, r))
         /\ ~resident /\ recon = "scanned" => OfLive(scan.store, r)
         /\ \A s : OfFile(s, r) => OfLive(s, r)
<1>1. \A q : Follows(q, q)
  BY DEF Follows, Repeats
<1> QED
  BY <1>1 DEF OfFile, OfLive, FileCopies, LiveCopies

LEMMA AnswerFrame ==
  ASSUME NEW r, AnswerIs(r), NoneAdded,
         OfFile(disk', r), Writing' => OfFile(saved', r), resident' => OfLive(store', r),
         ~resident' /\ recon' = "scanned" => OfLive(scan'.store, r)
  PROVE  Stays(r)
<1>1. ASSUME NEW s \in LiveCopies'
      PROVE  \/ s = disk' \/ (resident' /\ s = store') \/ (~resident' /\ recon' = "scanned" /\ s = scan'.store)
             \/ (Writing' /\ s = saved')
  BY DEF LiveCopies
<1>2. ASSUME NEW w \in FileCopies'
      PROVE  w = disk' \/ (Writing' /\ w = saved')
  BY DEF FileCopies
<1>3. \A w \in FileCopies' : OfFile(w, r)
  BY <1>2
<1>4. \A s \in LiveCopies' : OfLive(s, r)
  BY <1>1, OfNow
<1> QED
  BY <1>3, <1>4, AllFollow DEF OfFile, OfLive

\* Nothing of it changes.
LEMMA AnswerSame ==
  ASSUME NEW r, AnswerIs(r), NoneAdded, UNCHANGED <<disk, resident, store, recon, scan, saved>>,
         Writing' => Writing
  PROVE  Stays(r)
  BY OfNow, AnswerFrame

\* The mirror is written and saved: no delivery resolves what is answered in it.
LEMMA AnswerWrite ==
  ASSUME TypeOK, NEW r \in Requests, AnswerIs(r), resident, resident', ~Writing',
         \A d \in inflight' : r \in d.resolved => ~Answered(store'.req[r]),
         store' \in Store, Follows(store'.req[r], store.req[r]), disk' = Durable(store')
  PROVE  Stays(r)
<1>1. SameFate(disk'.req[r], store'.req[r])
  BY DurableFates DEF SameFates
<1>2. store \in LiveCopies /\ disk \in FileCopies
  BY DEF LiveCopies, FileCopies
<1>3. \A s \in LiveCopies' : s = disk' \/ s = store'
  BY DEF LiveCopies
<1>4. \A w \in FileCopies' : w = disk'
  BY DEF FileCopies
<1>5. Follows(disk'.req[r], store'.req[r]) /\ (Answered(disk'.req[r]) => Answered(store'.req[r]))
  BY <1>1, FateFollows DEF SameFate, Answered, Open, OpenState
<1>7. \A w \in FileCopies', s \in LiveCopies' : Answered(w.req[r]) => Repeats(s.req[r], w.req[r])
  BY <1>1, <1>3, <1>4, <1>5 DEF Repeats, SameFate, Answered, Open, OpenState
<1>8. ASSUME NEW s \in LiveCopies', NEW d \in inflight', r \in d.resolved
      PROVE  ~Answered(s.req[r])
  BY <1>3, <1>5, <1>8
<1>9. ASSUME Answered(disk.req[r])
      PROVE  Repeats(disk'.req[r], disk.req[r])
  <2>1. Repeats(store.req[r], disk.req[r])
    BY <1>2, <1>9 DEF AnswerIs
  <2>2. Repeats(store'.req[r], disk.req[r])
    BY <1>9, <2>1, RepeatsFollow
  <2> QED
    BY <1>5, <1>9, <2>2, RepeatsFollow
<1>10. AnswerIs(r)'
  BY <1>7, <1>8 DEF AnswerIs
<1> QED
  BY <1>9, <1>10 DEF Stays

\* The mirror is written, or is to be: the file follows it, or stays.
LEMMA AnswerStore ==
  ASSUME TypeOK, NEW r \in Requests, AnswerIs(r), NoneAdded, resident, resident', ~Writing',
         store' \in Store, Follows(store'.req[r], store.req[r]), disk' \in {disk, Durable(store')}
  PROVE  Stays(r)
<1>1. CASE disk' = disk
  BY <1>1, OfNow, AnswerFrame DEF OfLive, LiveCopies
<1>2. \A d \in inflight' : r \in d.resolved => ~Answered(store'.req[r])
  BY FollowsAnswer DEF NoneAdded, AnswerIs, LiveCopies
<1> QED
  BY <1>1, <1>2, AnswerWrite

-----------------------------------------------------------------------------
(* Step by step.                                                           *)

LEMMA HandStep ==
  ASSUME TypeOK, TypeOK', ClaimInv, LateInv, FileInv, HandInv, Undisturbed', [Next]_vars
  PROVE  HandInv'
<1> USE DEF vendorVars, mirrorVars, dispVars, dlvVars, toldVars
<1>0. CASE LateNext
  BY <1>0, GoneFromItsWrite DEF HandInv, Undisturbed
<1> SUFFICES ASSUME ~LateNext PROVE HandInv'
  BY <1>0
<1>1. \A r \in Requests : disp'[r] \in InHand => Open(disk'.req[r])
  BY HandOpen DEF HandInv
<1>2. ASSUME \A r \in Requests : disp'[r] \in InHand \ {"writing"} => disp[r] \in InHand \ {"writing"},
             claim = Free \/ (disk' = disk /\ (resident => store' = store))
      PROVE  \A r \in Requests : disp'[r] \in InHand \ {"writing"} => store' = disk'
  <2> SUFFICES ASSUME NEW r \in Requests, disp'[r] \in InHand \ {"writing"} PROVE store' = disk'
    OBVIOUS
  <2>1. disp[r] \in InHand \ {"writing"}
    BY <1>2
  <2>2. claim # Free /\ resident /\ store = disk
    BY <2>1, NobodyInHand DEF ClaimInv, HandInv
  <2> QED
    BY <1>2, <2>2
<1> SUFFICES \A r \in Requests : disp'[r] \in InHand \ {"writing"} => store' = disk'
  BY <1>1 DEF HandInv
<1>3. CASE DispatchNext
  <2> SUFFICES ASSUME NEW r \in Requests,
                    \/ \E p \in Parents, n \in Notifies, w \in Waiting : AcceptWrite(r, p, n, w)
                    \/ AcceptCommit(r) \/ AcceptRollback(r)
                    \/ \E t \in Turns : SubmitStarted(r, t) \/ SubmitInjected(r, t) \/ SubmitQueued(r, t)
                    \/ SubmitFail(r) \/ Bind(r) \/ Cancel(r)
                    \/ WaitClaimLapses(r) \/ WaiterReleases(r) \/ WaiterReads(r)
               PROVE  \A x \in Requests : disp'[x] \in InHand \ {"writing"} => store' = disk'
    BY <1>3 DEF DispatchNext
  <2>1. CASE \E p \in Parents, n \in Notifies, w \in Waiting : AcceptWrite(r, p, n, w)
    <3>1. claim = Free /\ disp' = [disp EXCEPT ![r] = "writing"]
      BY <2>1 DEF AcceptWrite
    <3> QED
      BY <1>2, <3>1 DEF TypeOK
  <2>2. CASE AcceptCommit(r)
    BY <2>2 DEF AcceptCommit, FileInv
  <2>3. CASE AcceptRollback(r) \/ SubmitFail(r) \/ Bind(r)
    <3>1. disp[r] \in InHand
      BY <2>3 DEF AcceptRollback, SubmitFail, Bind, InHand
    <3>2. \A x \in Requests : disp[x] \in InHand => x = r
      BY <3>1 DEF ClaimInv
    <3>3. PICK y : disp' = [disp EXCEPT ![r] = y] /\ y \notin InHand
      BY <2>3 DEF AcceptRollback, SubmitFail, Bind, InHand
    <3>4. disp'[r] \notin InHand /\ \A x \in Requests : x # r => disp'[x] = disp[x]
      BY <3>3 DEF TypeOK
    <3> QED
      BY <3>2, <3>4
  <2>4. CASE \/ \E t \in Turns : SubmitStarted(r, t) \/ SubmitInjected(r, t) \/ SubmitQueued(r, t)
             \/ Cancel(r) \/ WaitClaimLapses(r) \/ WaiterReleases(r) \/ WaiterReads(r)
    <3>1. /\ disk' = disk /\ store' = store
          /\ \/ disp' = disp
             \/ \E x : disp' = [disp EXCEPT ![r] = x] /\ (x \in InHand => disp[r] \in InHand \ {"writing"})
      BY <2>4 DEF SubmitStarted, SubmitInjected, SubmitQueued, Cancel, WaitClaimLapses,
                  WaiterReleases, WaiterReads, InHand
    <3>2. \A x \in Requests : disp'[x] \in InHand \ {"writing"} => disp[x] \in InHand \ {"writing"}
      BY <3>1 DEF TypeOK
    <3> QED
      BY <1>2, <3>1, <3>2
  <2> QED
    BY <2>1, <2>2, <2>3, <2>4
<1>4. CASE VendorNext
  <2>1. UNCHANGED <<disk, disp, store>>
    BY <1>4 DEF VendorNext, HumanTurn, OpenParked, OpenContinuation, TurnOpens, Narrate, TurnEnds, FailTurn,
                EndTurn, EndTurnReleased, EndTurnUnrecorded
  <2> QED
    BY <1>2, <2>1
<1>5. CASE DeliverNext
  <2>1. UNCHANGED disp /\ (claim = Free \/ UNCHANGED <<disk, store>>)
    BY <1>5 DEF DeliverNext, PulseIgnored, PulseOpened, PulseHeld, PulseSettled, GraceExpires, PlanNothing,
         Plan, PlanAbandoned, NotifyParent, ParentUnreachable, Commit, MayPlan
  <2> QED
    BY <1>2, <2>1
<1>6. CASE LifeNext
  <2>1. CASE Crash
    <3>1. \A r \in Requests : disp'[r] \in {"new", "closed", "gone"}
      BY <2>1 DEF Crash
    <3> QED
      BY <3>1 DEF InHand
  <2>2. CASE ~Crash
    <3>1. ~StopDetached
      <4>1. "detached" \in DOMAIN Bound
        BY DEF Bound
      <4> QED
        BY <4>1 DEF StopDetached, Spend, TypeOK, Undisturbed, NoneDetached
    <3>2. CASE Stop
      <4>1. claim = Free /\ UNCHANGED disp
        BY <3>2 DEF Stop, StopsProcess
      <4> QED
        BY <1>2, <4>1
    <3>3. CASE ReleaseSettle \/ \E s \in flush : FlushSettlement(s)
      <4>1. claim = Free /\ UNCHANGED disp
        BY <3>3 DEF ReleaseSettle, FlushSettlement
      <4> QED
        BY <1>2, <4>1
    <3>4. CASE ReconcileScan \/ ReconcileSeed \/ ReleasePick \/ ReleaseFence \/ ReleaseClear \/ ReleaseRead \/ EvictInPlace
      <4>1. UNCHANGED <<disp, disk>> /\ (resident => store' = store)
        BY <3>4 DEF ReconcileScan, ReconcileSeed, ReleasePick, ReleaseFence, ReleaseClear, ReleaseRead, EvictInPlace
      <4> QED
        BY <1>2, <4>1
    <3> QED
      BY <1>6, <2>2, <3>1, <3>2, <3>3, <3>4 DEF LifeNext
  <2> QED
    BY <2>1, <2>2
<1>7. CASE UNCHANGED vars
  BY <1>2, <1>7 DEF vars
<1> QED
  BY <1>3, <1>4, <1>5, <1>6, <1>7 DEF Next

\* What each step is taken in.
AnsweredNow == TypeOK /\ ClaimInv /\ FileInv /\ TermsKept /\ WokenInv /\ AnsInv

\* An accept reads the file, and only adds a row that nobody knows of, or prunes.
LEMMA AnswerAccept ==
  ASSUME AnsweredNow, NEW r \in Requests,
         \/ \E p \in Parents, n \in Notifies, w \in Waiting : AcceptWrite(r, p, n, w)
         \/ AcceptCommit(r) \/ AcceptRollback(r)
  PROVE  \A x \in Requests : Stays(x)
<1> USE DEF vendorVars, mirrorVars, dispVars, dlvVars, toldVars
<1> SUFFICES ASSUME NEW x \in Requests PROVE Stays(x)
  OBVIOUS
<1>0. AnswerIs(x) /\ TypeOK /\ ClaimInv /\ TermsKept
  BY DEF AnsweredNow, AnsInv
<1>1. ASSUME NEW p \in Parents, NEW n \in Notifies, NEW w \in Waiting, AcceptWrite(r, p, n, w)
      PROVE  Stays(x)
  <2>1. /\ disk' = Accept(disk, r, p, n) /\ saved' = disk /\ disp[r] = "new"
        /\ UNCHANGED <<store, resident, recon, scan, inflight>>
    BY <1>1 DEF AcceptWrite
  <2>2. NoneAdded
    BY <2>1 DEF NoneAdded
  <2>3. CASE x # r
    <3>1. disk'.req[x] = disk.req[x] \/ disk'.req[x] = Absent
      BY <1>0, <2>1, <2>3, AcceptFates DEF TypeOK
    <3>2. Follows(disk'.req[x], disk.req[x])
      BY <3>1 DEF Follows, Repeats, Absent, Present
    <3>3. OfFile(disk', x)
      BY <3>2 DEF OfFile, FileCopies
    <3> QED
      BY <1>0, <2>1, <2>2, <3>3, OfNow, AnswerFrame
  <2>4. CASE x = r
    <3>1. ~Present(disk.req[r]) /\ \A d \in inflight : r \notin d.resolved
      BY <1>0, <2>1 DEF TermsKept, Copies
    <3>2. Open(disk'.req[r])
      BY <1>0, <2>1, AcceptOpens DEF TypeOK
    <3>3. \A u \in FileCopies' : ~Answered(u.req[r])
      BY <2>1, <3>1, <3>2 DEF FileCopies, Answered, Present, Open, OpenState
    <3>4. AnswerIs(r)'
      BY <2>1, <3>1, <3>3 DEF AnswerIs
    <3> QED
      BY <2>4, <3>1, <3>4 DEF Stays, Answered, Present
  <2> QED
    BY <2>3, <2>4
<1>2. CASE AcceptCommit(r) \/ AcceptRollback(r)
  <2>1. Writing
    BY <1>2 DEF AcceptCommit, AcceptRollback, Writing
  <2>2. /\ disk' \in {disk, saved} /\ UNCHANGED <<saved, recon, scan, inflight>>
        /\ \/ resident' /\ store' = disk
           \/ UNCHANGED <<resident, store>>
    BY <1>2 DEF AcceptCommit, AcceptRollback, PersistFail, AnsweredNow, FileInv
  <2>3. NoneAdded
    BY <2>2 DEF NoneAdded
  <2> QED
    BY <1>0, <2>1, <2>2, <2>3, OfNow, AnswerFrame
<1> QED
  BY <1>1, <1>2

\* The other steps of a dispatch.
LEMMA AnswerSubmit ==
  ASSUME AnsweredNow, NEW r \in Requests,
         \/ \E t \in Turns : SubmitStarted(r, t) \/ SubmitInjected(r, t) \/ SubmitQueued(r, t)
         \/ SubmitFail(r) \/ Bind(r) \/ Cancel(r)
         \/ WaitClaimLapses(r) \/ WaiterReleases(r) \/ WaiterReads(r)
  PROVE  \A x \in Requests : Stays(x)
<1> USE DEF vendorVars, mirrorVars, dispVars, dlvVars, toldVars
<1> SUFFICES ASSUME NEW x \in Requests PROVE Stays(x)
  OBVIOUS
<1>0. AnswerIs(x) /\ TypeOK /\ ClaimInv /\ HandInv
  BY DEF AnsweredNow, AnsInv
<1>1. inflight' = inflight
  BY DEF SubmitStarted, SubmitInjected, SubmitQueued, SubmitFail, Bind, Cancel, WaitClaimLapses,
         WaiterReleases, WaiterReads
<1>2. NoneAdded
  BY <1>1 DEF NoneAdded
<1>3. CASE \/ \E t \in Turns : SubmitStarted(r, t) \/ SubmitInjected(r, t) \/ SubmitQueued(r, t)
           \/ Cancel(r) \/ WaitClaimLapses(r) \/ WaiterReleases(r) \/ WaiterReads(r)
  <2>1. /\ UNCHANGED <<disk, resident, store, recon, scan, saved>>
        /\ disp' = disp \/ \E y : disp' = [disp EXCEPT ![r] = y] /\ y # "writing"
    BY <1>3 DEF SubmitStarted, SubmitInjected, SubmitQueued, Cancel, WaitClaimLapses, WaiterReleases, WaiterReads
  <2>2. Writing' => Writing
    BY <1>0, <2>1 DEF Writing, TypeOK
  <2> QED
    BY <1>0, <1>2, <2>1, <2>2, AnswerSame
\* The dispatch that has the claim: the mirror is the file, and nobody else writes.
<1>4. ASSUME SubmitFail(r) \/ Bind(r)
      PROVE  /\ resident /\ store = disk /\ Open(disk.req[r]) /\ ~Writing' /\ store \in Store
  <2>1. disp[r] \in InHand \ {"writing"}
    BY <1>4 DEF SubmitFail, Bind, InHand
  <2>2. resident /\ store = disk /\ Open(disk.req[r]) /\ store \in Store
    BY <1>0, <2>1 DEF ClaimInv, HandInv, TypeOK
  <2>3. \A y \in Requests : disp[y] = "writing" => y = r
    BY <1>0, <2>1 DEF ClaimInv, InHand
  <2>4. disp'[r] # "writing" /\ \A y \in Requests : y # r => disp'[y] = disp[y]
    BY <1>0, <1>4 DEF SubmitFail, Bind, TypeOK
  <2> QED
    BY <2>1, <2>2, <2>3, <2>4 DEF Writing
<1>5. CASE SubmitFail(r) /\ ~IsEmpty(Without(store, {r}))
  <2> DEFINE s == Without(store, {r})
  <2>1. store' = s /\ Persist(s) /\ UNCHANGED resident
    <3>1. store' = s /\ UNCHANGED resident
      BY <1>5, Zenon DEF SubmitFail, DropRow
    <3>2. Persist(store')
      BY <1>5 DEF SubmitFail
    <3> QED
      BY <3>1, <3>2
  <2>2. s \in Store /\ s.req[x] = IF x = r THEN Absent ELSE store.req[x]
    BY <1>4, <1>5, WithoutType, WithoutFates
  <2> HIDE DEF s
  <2>3. Follows(s.req[x], store.req[x])
    BY <2>2 DEF Follows, Repeats, Absent, Present
  <2>4. disk' \in {disk, Durable(s)}
    BY <2>1 DEF Persist, PersistOk, PersistFail
  <2> QED
    BY <1>0, <1>2, <1>4, <1>5, <2>1, <2>2, <2>3, <2>4, AnswerStore
<1>6. CASE SubmitFail(r) /\ IsEmpty(Without(store, {r}))
  <2> DEFINE s == Without(store, {r})
  <2>1. disk' \in {disk, Durable(EmptyStore)} /\ ~resident'
    <3>1. store' = EmptyStore /\ ~resident'
      BY <1>6, Zenon DEF SubmitFail, DropRow
    <3>2. Persist(store')
      BY <1>6 DEF SubmitFail
    <3> QED
      BY <3>1, <3>2 DEF Persist, PersistOk, PersistFail
  <2>2. s \in Store /\ s.req[x] = IF x = r THEN Absent ELSE store.req[x]
    BY <1>4, <1>6, WithoutType, WithoutFates
  <2>3. ~Present(s.req[x]) /\ store.delivering = {}
    <3>1. s.delivering = store.delivering
      BY <1>4, <1>6 DEF Without, Store
    <3> QED
      BY <1>6, <3>1 DEF IsEmpty, Present
  <2> HIDE DEF s
  <2>4. ~Answered(disk.req[x])
    BY <1>4, <1>6, <2>2, <2>3 DEF Answered, Present, Open, OpenState
  <2>5. ~Answered(EmptyStore.req[x]) /\ EmptyStore \in Store
    BY EmptyStoreType DEF EmptyStore, Absent, Answered
  <2>6. ~Answered(disk'.req[x])
    <3>1. SameFate(Durable(EmptyStore).req[x], EmptyStore.req[x])
      BY <2>5, DurableFates DEF SameFates
    <3> QED
      BY <2>1, <2>4, <2>5, <3>1 DEF SameFate, Answered, Open, OpenState
  <2>7. inflight' = {}
    BY <1>1, <2>3 DEF AnsweredNow, WokenInv, KeyClaimed
  <2>8. \A w \in FileCopies' : w = disk'
    BY <1>4, <1>6 DEF FileCopies
  <2>9. AnswerIs(x)'
    BY <2>6, <2>7, <2>8 DEF AnswerIs
  <2> QED
    BY <2>4, <2>9 DEF Stays
<1>7. CASE Bind(r)
  <2>1. PICK e \in BOOLEAN : store' = BoundStore(r, e) /\ disk' \in {disk, Durable(store')}
    BY <1>7 DEF Bind, PersistOk, PersistFail
  <2>2. resident' /\ store' \in Store
    BY <1>0, <1>4, <1>7, <2>1, BoundFates DEF Bind
  <2>3. Follows(store'.req[x], store.req[x])
    <3>1. CASE x # r
      BY <1>0, <2>1, <3>1, BoundFates DEF Follows, Repeats
    <3>2. CASE x = r
      <4>1. Open(store'.req[r]) /\ Open(store.req[r])
        BY <1>0, <1>4, <1>7, <2>1, BoundFates
      <4> QED
        BY <3>2, <4>1 DEF Follows, Open, OpenState, Present, Answered
    <3> QED
      BY <3>1, <3>2
  <2> QED
    BY <1>0, <1>2, <1>4, <1>7, <2>1, <2>2, <2>3, AnswerStore
<1> QED
  BY <1>3, <1>5, <1>6, <1>7

\* A call dropped in its write leaves the file, and the mirror with its row bound or
\* without it.
LEMMA AnswerLate ==
  ASSUME AnsweredNow, TypeOK', LateInv, NoneLanded', LateNext
  PROVE  \A x \in Requests : Stays(x)
<1> SUFFICES ASSUME NEW x \in Requests PROVE Stays(x)
  OBVIOUS
<1>0. AnswerIs(x) /\ TypeOK /\ ClaimInv /\ HandInv
  BY DEF AnsweredNow, AnsInv
<1>1. /\ UNCHANGED <<disk, saved, recon, scan, inflight>> /\ NoneAdded
      /\ \A q \in Requests : disp'[q] \notin InHand
  BY <1>0, LateLeaves, GoneFromItsWrite DEF NoneAdded
<1>2. ~Writing'
  BY <1>1 DEF Writing, InHand
<1>3. OfFile(disk', x)
  BY <1>1, OfNow
<1>4. PICK r \in Requests :
        \/ UNCHANGED mirrorVars
        \/ disp[r] \in InHand \ {"writing"} /\ DropRow(r)
        \/ /\ disp[r] \in InHand \ {"writing"}
           /\ store' = BoundStore(r, FALSE) /\ UNCHANGED <<resident, deliveringNow>>
  BY <1>0, GoneFromItsWrite
<1>5. CASE UNCHANGED mirrorVars
  <2>1. UNCHANGED <<resident, store>>
    BY <1>5 DEF mirrorVars
  <2> QED
    BY <1>0, <1>1, <1>2, <2>1, AnswerSame
<1>6. ASSUME disp[r] \in InHand \ {"writing"}
      PROVE  resident /\ store = disk /\ Open(disk.req[r]) /\ store \in Store
  BY <1>0, <1>6 DEF ClaimInv, HandInv, TypeOK
<1>7. CASE disp[r] \in InHand \ {"writing"} /\ DropRow(r) /\ ~IsEmpty(Without(store, {r}))
  <2> DEFINE s == Without(store, {r})
  <2>1. store' = s /\ UNCHANGED resident
    BY <1>7, Zenon DEF DropRow
  <2>2. s.req[x] = IF x = r THEN Absent ELSE store.req[x]
    BY <1>6, <1>7, WithoutFates
  <2> HIDE DEF s
  <2>3. Follows(s.req[x], store.req[x])
    BY <2>2 DEF Follows, Repeats, Absent, Present
  <2>4. OfLive(store', x)
    BY <1>6, <1>7, <2>1, <2>3 DEF OfLive, LiveCopies
  <2> QED
    BY <1>0, <1>1, <1>2, <1>3, <1>6, <1>7, <2>1, <2>4, AnswerFrame
<1>8. CASE disp[r] \in InHand \ {"writing"} /\ DropRow(r) /\ IsEmpty(Without(store, {r}))
  <2> DEFINE s == Without(store, {r})
  <2>1. s.req[x] = IF x = r THEN Absent ELSE store.req[x]
    BY <1>6, <1>8, WithoutFates
  <2>2. ~Present(s.req[x]) /\ store.delivering = {}
    <3>1. s.delivering = store.delivering
      BY <1>6, <1>8 DEF Without, Store
    <3> QED
      BY <1>8, <3>1 DEF IsEmpty, Present
  <2> HIDE DEF s
  <2>3. ~Answered(disk.req[x])
    BY <1>6, <1>8, <2>1, <2>2 DEF Answered, Present, Open, OpenState
  <2>4. inflight' = {}
    BY <1>1, <2>2 DEF AnsweredNow, WokenInv, KeyClaimed
  <2>5. \A w \in FileCopies' : w = disk
    BY <1>1, <1>2 DEF FileCopies
  <2>6. AnswerIs(x)'
    BY <2>3, <2>4, <2>5 DEF AnswerIs
  <2> QED
    BY <2>3, <2>6 DEF Stays
<1>9. CASE /\ disp[r] \in InHand \ {"writing"}
           /\ store' = BoundStore(r, FALSE) /\ UNCHANGED <<resident, deliveringNow>>
  <2>1. Follows(store'.req[x], store.req[x])
    <3>1. CASE x # r
      BY <1>0, <1>9, <3>1, BoundFates DEF Follows, Repeats
    <3>2. CASE x = r
      <4>1. Open(store'.req[r]) /\ Open(store.req[r])
        BY <1>0, <1>6, <1>9, BoundFates
      <4> QED
        BY <3>2, <4>1 DEF Follows, Open, OpenState, Present, Answered
    <3> QED
      BY <3>1, <3>2
  <2>2. OfLive(store', x)
    BY <1>6, <1>9, <2>1 DEF OfLive, LiveCopies
  <2> QED
    BY <1>0, <1>1, <1>2, <1>3, <1>6, <1>9, <2>2, AnswerFrame
<1> QED
  BY <1>4, <1>5, <1>7, <1>8, <1>9

\* The vendor writes neither file nor mirror.
LEMMA AnswerVendor ==
  ASSUME AnsweredNow, VendorNext
  PROVE  \A r \in Requests : Stays(r)
<1> USE DEF vendorVars, mirrorVars, dispVars, dlvVars, toldVars
<1>1. UNCHANGED <<disk, resident, store, recon, scan, saved, disp, inflight>>
  BY DEF VendorNext, HumanTurn, OpenParked, OpenContinuation, TurnOpens, Narrate, TurnEnds, FailTurn,
         EndTurn, EndTurnReleased, EndTurnUnrecorded
<1>2. NoneAdded /\ (Writing' => Writing)
  BY <1>1 DEF NoneAdded, Writing
<1> QED
  BY <1>1, <1>2, AnswerSame DEF AnsweredNow, AnsInv

\* A delivery: what it is to resolve is open when it is planned, and still is not
\* answered when it commits, for no other delivery may answer it.
LEMMA AnswerDeliver ==
  ASSUME AnsweredNow, Apart, DeliverNext
  PROVE  \A r \in Requests : Stays(r)
<1> USE DEF vendorVars, mirrorVars, dispVars, dlvVars, toldVars
<1> SUFFICES ASSUME NEW r \in Requests PROVE Stays(r)
  OBVIOUS
<1>0. AnswerIs(r) /\ TypeOK /\ ClaimInv
  BY DEF AnsweredNow, AnsInv
<1>1. UNCHANGED <<resident, recon, scan, saved, disp>>
  BY DEF DeliverNext, PulseIgnored, PulseOpened, PulseHeld, PulseSettled, GraceExpires, PlanNothing,
         Plan, PlanAbandoned, NotifyParent, ParentUnreachable, Commit
<1>2. Writing' <=> Writing
  BY <1>1 DEF Writing
<1>3. claim = Free => ~Writing
  BY <1>0, NobodyInHand DEF Writing, InHand
<1>4. CASE \/ PulseIgnored \/ PulseSettled
           \/ \E d \in provisional : GraceExpires(d)
           \/ \E d \in due : PlanNothing(d)
           \/ \E d \in inflight, p \in Parents : NotifyParent(d, p) \/ ParentUnreachable(d, p)
  <2>1. UNCHANGED <<disk, store>>
    BY <1>4 DEF PulseIgnored, PulseSettled, GraceExpires, PlanNothing, NotifyParent, ParentUnreachable
  <2>2. NoneAdded
    <3>1. CASE inflight' = inflight
      BY <3>1 DEF NoneAdded
    <3>2. CASE \E d \in inflight, p \in Parents : NotifyParent(d, p) \/ ParentUnreachable(d, p)
      <4>1. PICK d \in inflight, p \in Parents : NotifyParent(d, p) \/ ParentUnreachable(d, p)
        BY <3>2
      <4>2. d \in Delivery
        BY <1>0 DEF TypeOK
      <4>3. /\ [d EXCEPT !.carry[p] = {}].resolved = d.resolved
            /\ [d EXCEPT !.carry[p] = {}, !.dropped = @ \union d.carry[p]].resolved = d.resolved
        BY <4>2 DEF Delivery
      <4>4. \/ inflight' = (inflight \ {d}) \union {[d EXCEPT !.carry[p] = {}]}
            \/ inflight' = (inflight \ {d}) \union
                           {[d EXCEPT !.carry[p] = {}, !.dropped = @ \union d.carry[p]]}
        BY <4>1 DEF NotifyParent, ParentUnreachable
      <4> QED
        BY <4>3, <4>4 DEF NoneAdded
    <3> QED
      BY <1>4, <3>1, <3>2 DEF PulseIgnored, PulseSettled, GraceExpires, PlanNothing
  <2> QED
    BY <1>0, <1>1, <1>2, <2>1, <2>2, AnswerSame
<1>5. ASSUME NEW s \in Store, store' = s, SameFates(s, store), resident, claim = Free,
             inflight' = inflight, disk' \in {disk, Durable(s)}
      PROVE  Stays(r)
  <2>1. NoneAdded
    BY <1>5 DEF NoneAdded
  <2>2. Follows(store'.req[r], store.req[r])
    BY <1>5, FatesFollow
  <2>3. ~Writing' /\ resident'
    BY <1>1, <1>2, <1>3, <1>5
  <2> QED
    BY <1>0, <1>5, <2>1, <2>2, <2>3, AnswerStore
<1>6. CASE PulseHeld
  <2>1. /\ UNCHANGED <<store, inflight>> /\ claim = Free
        /\ disk' = disk \/ (resident /\ disk' = Durable(store))
    BY <1>6 DEF PulseHeld, Persist, PersistOk, PersistFail
  <2>2. CASE resident
    BY <1>0, <1>5, <2>1, <2>2, SameRowsFates DEF TypeOK
  <2>3. CASE ~resident
    <3>1. disk' = disk /\ NoneAdded
      BY <2>1, <2>3 DEF NoneAdded
    <3> QED
      BY <1>0, <1>1, <1>2, <2>1, <3>1, AnswerSame
  <2> QED
    BY <2>2, <2>3
<1>7. CASE PulseOpened
  <2> DEFINE p == Head(pulses)
             moved == IF p.from = NoTurn THEN store ELSE RebindContinuation(store, p.from, p.turn)
             s == MarkExecuting(moved, p.turn)
  <2>1. p \in Pulse
    BY <1>0, <1>7, TailElems, PulsesTyped DEF PulseOpened, NotifierTakes, TypeOK
  <2>2. /\ claim = Free /\ inflight' = inflight
        /\ \/ store' = store /\ disk' = disk
           \/ resident /\ store' = s /\ (disk' = disk \/ disk' = Durable(s))
    BY <1>7 DEF PulseOpened, Persist, PersistOk, PersistFail
  <2> HIDE DEF p
  <2>3. moved \in Store /\ SameFates(moved, store)
    BY <1>0, <2>1, RebindType, RebindFates, SameRowsFates DEF Pulse, TypeOK
  <2> HIDE DEF moved
  <2>4. s \in Store /\ SameFates(s, store)
    BY <2>3, MarkExecutingType, MarkExecutingFates, FatesTrans, <2>1 DEF Pulse
  <2> HIDE DEF s
  <2>5. CASE store' = store /\ disk' = disk
    <3>1. NoneAdded
      BY <2>2 DEF NoneAdded
    <3> QED
      BY <1>0, <1>1, <1>2, <2>5, <3>1, AnswerSame
  <2>6. CASE resident /\ store' = s /\ (disk' = disk \/ disk' = Durable(s))
    BY <1>5, <2>2, <2>4, <2>6
  <2> QED
    BY <2>2, <2>5, <2>6
<1>8. ASSUME NEW d \in due, Plan(d) \/ PlanAbandoned(d)
      PROVE  Stays(r)
  <2>1. KeyOf(d) \in Key /\ claim = Free /\ resident
    BY <1>0, <1>8, KeyOfType DEF TypeOK, DueBoundary, Plan, PlanAbandoned, MayPlan, Deliverable
  <2>2. CASE PlanAbandoned(d)
    <3> DEFINE s == AbandonDelivery(store, KeyOf(d))
    <3>1. s \in Store /\ s.req = store.req
      BY <1>0, <2>1, MarkerType DEF TypeOK
    <3>2. store' = s /\ disk' \in {disk, Durable(s)} /\ inflight' = inflight
      BY <2>2 DEF PlanAbandoned
    <3> HIDE DEF s
    <3> QED
      BY <1>5, <2>1, <3>1, <3>2, SameRowsFates
  <2>3. CASE Plan(d)
    <3> DEFINE s == BeginDelivery(store, KeyOf(d))
    <3>1. s \in Store /\ s.req = store.req
      BY <1>0, <2>1, MarkerType DEF TypeOK
    <3>2. store' = s /\ disk' = Durable(s) /\ inflight' = inflight \union {PlannedDelivery(d)}
      BY <2>3 DEF Plan, PersistOk
    <3> HIDE DEF s
    <3>3. r \in PlannedDelivery(d).resolved => Open(store.req[r])
      BY DEF PlannedDelivery, BoundTo, Outstanding, Open
    <3>4. \A e \in inflight : r \in e.resolved => ~Answered(store.req[r])
      BY <1>0, <2>1 DEF AnswerIs, LiveCopies
    <3>5. \A e \in inflight' : r \in e.resolved => ~Answered(store'.req[r])
      BY <3>1, <3>2, <3>3, <3>4 DEF Open, OpenState, Answered
    <3>6. Follows(store'.req[r], store.req[r])
      BY <3>1, <3>2 DEF Follows, Repeats
    <3> QED
      BY <1>0, <1>1, <1>2, <1>3, <2>1, <3>1, <3>2, <3>5, <3>6, AnswerWrite
  <2> QED
    BY <1>8, <2>2, <2>3
<1>9. ASSUME NEW d \in inflight, Commit(d)
      PROVE  Stays(r)
  <2> DEFINE s == CommittedStore(d)
  <2>1. s \in Store /\ d \in Delivery
    BY <1>0, CommittedStoreType DEF TypeOK
  <2>2. /\ claim = Free /\ resident /\ resident' /\ inflight' = inflight \ {d} /\ store' = s
        /\ disk' \in {disk, Durable(s)}
    BY <1>9 DEF Commit, Persist, PersistOk, PersistFail
  <2>3. IF r \in d.dropped THEN s.req[r] = Absent
        ELSE IF r \notin d.resolved \/ ~Present(store.req[r]) THEN s.req[r] = store.req[r]
        ELSE Answered(s.req[r])
    BY <1>0, <2>1, CommittedFates DEF TypeOK
  <2> HIDE DEF s
  <2>4. NoneAdded /\ ~Writing'
    BY <1>2, <1>3, <2>2 DEF NoneAdded
  <2>5. CASE r \in d.dropped \/ r \notin d.resolved \/ ~Present(store.req[r])
    <3>1. Follows(store'.req[r], store.req[r])
      BY <2>2, <2>3, <2>5 DEF Follows, Repeats, Absent, Present
    <3> QED
      BY <1>0, <2>1, <2>2, <2>4, <3>1, AnswerStore
  <2>6. CASE r \in d.resolved /\ r \notin d.dropped /\ Present(store.req[r])
    <3>1. ~Answered(disk.req[r])
      BY <1>0, <2>6 DEF AnswerIs, LiveCopies
    <3>2. \A e \in inflight' : r \notin e.resolved
      BY <2>2, <2>6 DEF Apart
    <3>3. FileCopies' = {disk'} /\ \A v \in LiveCopies' : v = disk' \/ v = store'
      BY <2>2, <2>4 DEF FileCopies, LiveCopies
    <3>4. Answered(disk'.req[r]) => SameFate(disk'.req[r], store'.req[r])
      BY <2>1, <2>2, <3>1, DurableFates DEF SameFates
    <3>5. \A w \in FileCopies', v \in LiveCopies' : Answered(w.req[r]) => Repeats(v.req[r], w.req[r])
      BY <3>3, <3>4 DEF SameFate, Repeats, Answered, Open, OpenState
    <3>6. AnswerIs(r)'
      BY <3>2, <3>5 DEF AnswerIs
    <3> QED
      BY <3>1, <3>6 DEF Stays
  <2> QED
    BY <2>5, <2>6
<1> QED
  BY <1>4, <1>6, <1>7, <1>8, <1>9 DEF DeliverNext

\* A restart, a release and a stop move no answer; a crash leaves the file alone.
LEMMA AnswerLife ==
  ASSUME AnsweredNow, NoneDetached', LifeNext
  PROVE  \A r \in Requests : Stays(r)
<1> USE DEF vendorVars, mirrorVars, dispVars, dlvVars, toldVars
<1> SUFFICES ASSUME NEW r \in Requests PROVE Stays(r)
  OBVIOUS
<1>0. AnswerIs(r) /\ TypeOK /\ ClaimInv /\ flush = {}
  BY DEF AnsweredNow, AnsInv, WokenInv
<1>1. claim = Free => ~Writing
  BY <1>0, NobodyInHand DEF Writing, InHand
<1>2. CASE ReconcileScan
  <2>1. /\ scan'.store = Repair(rows, disk)
        /\ UNCHANGED <<disk, resident, store, saved, disp, inflight>>
    BY <1>2 DEF ReconcileScan
  <2>2. OfLive(scan'.store, r)
    BY <1>0, <2>1, RepairFates, FatesFollow DEF TypeOK, OfLive, LiveCopies
  <2>3. NoneAdded /\ (Writing' => Writing)
    BY <2>1 DEF NoneAdded, Writing
  <2> QED
    BY <1>0, <2>1, <2>2, <2>3, OfNow, AnswerFrame
<1>3. CASE ReconcileSeed
  <2>1. /\ recon = "scanned" /\ recon' = "done" /\ store' = (IF resident THEN store ELSE scan.store)
        /\ UNCHANGED <<disk, saved, disp, inflight>>
    BY <1>3 DEF ReconcileSeed
  <2>2. NoneAdded /\ (Writing' => Writing)
    BY <2>1 DEF NoneAdded, Writing
  <2> QED
    BY <1>0, <2>1, <2>2, OfNow, AnswerFrame
<1>4. CASE ReleasePick \/ ReleaseFence \/ ReleaseClear \/ ReleaseRead \/ EvictInPlace
  <2>1. UNCHANGED <<disk, resident, store, recon, scan, saved, disp, inflight>>
    BY <1>4 DEF ReleasePick, ReleaseFence, ReleaseClear, ReleaseRead, EvictInPlace
  <2>2. NoneAdded /\ (Writing' => Writing)
    BY <2>1 DEF NoneAdded, Writing
  <2> QED
    BY <1>0, <2>1, <2>2, AnswerSame
<1>5. ASSUME NEW s \in Store, store' = s, Follows(s.req[r], store.req[r]), claim = Free,
             disk' = disk \/ (resident /\ disk' = Durable(s)),
             UNCHANGED <<resident, recon, scan, saved, disp, inflight>>
      PROVE  Stays(r)
  <2>1. NoneAdded /\ ~Writing'
    BY <1>1, <1>5 DEF NoneAdded, Writing
  <2>2. CASE resident
    BY <1>0, <1>5, <2>1, <2>2, AnswerStore
  <2>3. CASE ~resident
    BY <1>0, <1>5, <2>1, <2>3, OfNow, AnswerFrame
  <2> QED
    BY <2>2, <2>3
<1>6. CASE ReleaseSettle
  <2> DEFINE s == Repair(relRows, store)
  <2>1. store' = s /\ claim = Free /\ UNCHANGED <<disk, resident, recon, scan, saved, disp, inflight>>
    BY <1>6 DEF ReleaseSettle
  <2>2. s \in Store /\ SameFates(s, store)
    BY <1>0, RepairType, RepairFates DEF TypeOK
  <2> HIDE DEF s
  <2>3. Follows(s.req[r], store.req[r])
    BY <2>2, FatesFollow
  <2> QED
    BY <1>5, <2>1, <2>2, <2>3
<1>7. CASE Stop
  <2>1. /\ store' = SettledStore /\ claim = Free
        /\ disk' = disk \/ (resident /\ disk' = Durable(SettledStore))
        /\ UNCHANGED <<resident, recon, scan, saved, disp, inflight>>
    BY <1>7 DEF Stop, StopsProcess
  <2>2. SettledStore \in Store
    BY <1>0, SettledStoreType DEF TypeOK
  <2>3. Follows(SettledStore.req[r], store.req[r])
    BY <1>0, SettledFates DEF TypeOK, Follows, Repeats, Present, Answered, Open, OpenState
  <2> QED
    BY <1>5, <2>1, <2>2, <2>3
<1>8. ~StopDetached /\ ~\E s \in flush : FlushSettlement(s)
  <2>1. "detached" \in DOMAIN Bound
    BY DEF Bound
  <2> QED
    BY <1>0, <2>1 DEF StopDetached, Spend, TypeOK, NoneDetached
<1>9. CASE Crash
  <2>1. /\ ~resident' /\ recon' = "start" /\ UNCHANGED disk /\ inflight' = {}
        /\ \A x \in Requests : disp'[x] \in {"new", "closed", "gone"}
    BY <1>9 DEF Crash
  <2>2. ~Writing' /\ NoneAdded
    BY <2>1 DEF Writing, NoneAdded
  <2> QED
    BY <1>0, <2>1, <2>2, OfNow, AnswerFrame
<1> QED
  BY <1>2, <1>3, <1>4, <1>6, <1>7, <1>8, <1>9 DEF LifeNext

\* A step keeps the invariant and moves no answer that is on disk.
LEMMA AnswerStep ==
  ASSUME AnsweredNow, TypeOK', LateInv, Apart, Undisturbed', [Next]_vars
  PROVE  AnsInv' /\ \A r \in Requests : Stays(r)
<1>1. HandInv' /\ NoneDetached' /\ NoneLanded'
  BY HandStep DEF AnsweredNow, AnsInv, Undisturbed
<1>2. CASE UNCHANGED vars
  <2>1. \A r \in Requests : AnswerIs(r)
    BY DEF AnsweredNow, AnsInv
  <2>2. UNCHANGED <<disk, resident, store, recon, scan, saved>> /\ NoneAdded /\ (Writing' => Writing)
    BY <1>2 DEF vars, vendorVars, mirrorVars, dispVars, dlvVars, toldVars, NoneAdded, Writing
  <2> QED
    BY <1>1, <2>1, <2>2, AnswerSame DEF Stays, AnsInv
<1>3. CASE DispatchNext
  BY <1>1, <1>3, AnswerAccept, AnswerSubmit DEF DispatchNext, Stays, AnsInv
<1>4. CASE VendorNext
  BY <1>1, <1>4, AnswerVendor DEF Stays, AnsInv
<1>5. CASE DeliverNext
  BY <1>1, <1>5, AnswerDeliver DEF Stays, AnsInv
<1>6. CASE LifeNext
  BY <1>1, <1>6, AnswerLife DEF Stays, AnsInv
<1>7. CASE LateNext
  BY <1>1, <1>7, AnswerLate DEF Stays, AnsInv
<1> QED
  BY <1>2, <1>3, <1>4, <1>5, <1>6, <1>7 DEF Next

\* Nothing is written, and nobody is in hand.
LEMMA AnswerInit == Init => AnsInv
<1> SUFFICES ASSUME Init PROVE AnsInv
  OBVIOUS
<1>1. /\ disk = EmptyStore /\ ~resident /\ recon = "done" /\ inflight = {}
      /\ \A r \in Requests : disp[r] = "new"
  BY DEF Init
<1>2. \A r \in Requests : ~Answered(EmptyStore.req[r])
  BY DEF EmptyStore, Absent, Answered
<1>3. HandInv
  BY <1>1 DEF HandInv, InHand
<1>4. FileCopies = {EmptyStore}
  BY <1>1 DEF FileCopies, Writing
<1> QED
  BY <1>1, <1>2, <1>3, <1>4 DEF AnsInv, AnswerIs

\* The invariant behind it: as long as no stop is detached and no request is in two
\* deliveries under way, every copy of delegation.json that is, or may be, written
\* back repeats the answers on disk, and no delivery under way is to resolve an
\* answered request, until the late write of a dropped call lands.
THEOREM CopiesRepeatAnswers == Spec /\ [](NoneDetached /\ Apart) => [](NoneLanded => AnsInv)
<1> DEFINE Woken == Undisturbed => WokenInv
           Guarded == NoneLanded => FileInv
           Repeated == NoneLanded => AnsInv
<1>1. TypeOK /\ TypeOK' /\ ClaimInv /\ LateInv /\ Guarded /\ AnswerLedger /\ Woken /\ Repeated
      /\ NoneDetached /\ Apart /\ NoneDetached' /\ [Next]_vars => Repeated'
  <2> SUFFICES ASSUME TypeOK, TypeOK', ClaimInv, LateInv, Guarded, AnswerLedger, Woken, Repeated,
                      NoneDetached, Apart, NoneDetached', [Next]_vars, NoneLanded'
               PROVE  AnsInv'
    OBVIOUS
  <2>1. NoneLanded
    BY NoneLandedBefore
  <2>2. AnsweredNow /\ Undisturbed'
    BY <2>1 DEF AnsweredNow, AnswerLedger, Undisturbed
  <2> QED
    BY <2>2, AnswerStep
<1>2. Spec => []Woken /\ []Guarded
  BY ClaimsAreDurable, ClaimKeepsTheFile, PTL
<1>3. Init => Repeated
  BY AnswerInit
<1> HIDE DEF Woken, Guarded
<1> QED
  BY <1>1, <1>2, <1>3, TypeCorrect, ClaimSerialises, LateNumbered, LedgerInvariant, PTL DEF Spec

\* DurableAnswerStays: once delegation.json says a request was answered, no commit,
\* rollback, settlement, rebinding or restart makes it say anything else of it; only
\* the late write of a dropped call may, and that the property excuses.
THEOREM AnswersStayOnDisk == Spec /\ [](NoneDetached /\ Apart) => DurableAnswerStays
<1> DEFINE Woken == Undisturbed => WokenInv
           Guarded == NoneLanded => FileInv
           StaysPut == \A r \in Requests :
                         Answered(disk.req[r]) =>
                           \/ disk'.req[r].state = "absent"
                           \/ LateLanded'
                           \/ /\ disk'.req[r].state = disk.req[r].state
                              /\ disk'.req[r].answered = disk.req[r].answered
<1>1. TypeOK /\ TypeOK' /\ ClaimInv /\ LateInv /\ Guarded /\ AnswerLedger /\ Woken /\ (NoneLanded => AnsInv)
      /\ NoneDetached /\ Apart /\ NoneDetached' /\ [Next]_vars => [StaysPut]_vars
  <2> SUFFICES ASSUME TypeOK, TypeOK', ClaimInv, LateInv, Guarded, AnswerLedger, Woken, NoneLanded => AnsInv,
                      NoneDetached, Apart, NoneDetached', [Next]_vars, NoneLanded'
               PROVE  StaysPut
    BY DEF NoneLanded
  <2>1. NoneLanded
    BY NoneLandedBefore
  <2>2. AnsweredNow /\ Undisturbed'
    BY <2>1 DEF AnsweredNow, AnswerLedger, Undisturbed
  <2>3. \A r \in Requests : Stays(r)
    BY <2>2, AnswerStep
  <2> QED
    BY <2>3 DEF Stays, Repeats, Present
<1>2. Spec => []Woken /\ []Guarded
  BY ClaimsAreDurable, ClaimKeepsTheFile, PTL
<1> HIDE DEF Woken, Guarded
<1> QED
  BY <1>1, <1>2, CopiesRepeatAnswers, TypeCorrect, ClaimSerialises, LateNumbered, LedgerInvariant, PTL
     DEF Spec, DurableAnswerStays

\* Where no hold is replayed and no child released the notifier delivers alone.
NoneReleased == spent["release"] = 0
NobodyElse   == NoneReleased /\ "replay" \notin Holds

AloneInv ==
  /\ \A d, e \in inflight : d = e
  /\ \A d \in due \union inflight \union scan.owed : d.by = "notifier"
  /\ provisional = {} /\ rel = "idle"
  /\ \A p \in Elems(pulses) : p.hold # "replay"

\* A step that starts no delivery by anybody else.
LEMMA AloneFrame ==
  ASSUME AloneInv, inflight' = inflight, scan' = scan, provisional' = {}, rel' = "idle",
         \A d \in due' : d \in due \/ d.by = "notifier",
         Elems(pulses') \subseteq Elems(pulses)
  PROVE  AloneInv'
  BY DEF AloneInv

\* An appended pulse.
LEMMA AlonePulse ==
  ASSUME TypeOK, AloneInv, UNCHANGED <<due, inflight, scan, rel>>, provisional' = {},
         NEW p, pulses' = Append(pulses, p), p.hold # "replay"
  PROVE  AloneInv'
<1>1. Elems(pulses') = Elems(pulses) \union {p}
  BY AppendElems DEF TypeOK
<1> QED
  BY <1>1 DEF AloneInv

LEMMA AloneVendor == TypeOK /\ AloneInv /\ "replay" \notin Holds /\ VendorNext => AloneInv'
<1> USE DEF vendorVars, mirrorVars, dispVars, dlvVars, toldVars
<1> SUFFICES ASSUME TypeOK, AloneInv, "replay" \notin Holds, NEW t \in Turns,
                    \/ HumanTurn(t) \/ OpenParked(t) \/ OpenContinuation(t)
                    \/ Narrate(t) \/ FailTurn(t)
                    \/ \E h \in Holds : EndTurn(t, h) \/ EndTurnReleased(t, h) \/ EndTurnUnrecorded(t, h)
             PROVE  AloneInv'
  BY DEF VendorNext
<1>1. UNCHANGED <<due, inflight, scan, provisional, rel>>
  BY DEF HumanTurn, OpenParked, OpenContinuation, TurnOpens, Narrate, FailTurn, TurnEnds, EndTurn, EndTurnReleased,
         EndTurnUnrecorded
<1>2. \/ pulses' = pulses
      \/ \E from : pulses' = Append(pulses, Opened(t, from))
      \/ \E h, w, W : pulses' = Append(pulses, Signal(t, h, w, W)) /\ h # "replay"
  BY DEF HumanTurn, OpenParked, OpenContinuation, TurnOpens, Narrate, FailTurn, TurnEnds, EndTurn, EndTurnReleased,
         EndTurnUnrecorded
<1>3. \A from : Opened(t, from).hold # "replay"
  BY DEF Opened
<1>4. \A h, w, W : h # "replay" => Signal(t, h, w, W).hold # "replay"
  BY DEF Signal
<1>5. CASE pulses' = pulses
  BY <1>1, <1>5 DEF AloneInv
<1>6. provisional = {}
  BY DEF AloneInv
<1> QED
  BY <1>1, <1>2, <1>3, <1>4, <1>5, <1>6, AlonePulse

LEMMA AloneDeliver == TypeOK /\ AloneInv /\ DeliverNext => AloneInv'
<1> USE DEF vendorVars, mirrorVars, dispVars, dlvVars, toldVars
<1> SUFFICES ASSUME TypeOK, AloneInv, DeliverNext PROVE AloneInv'
  OBVIOUS
<1>1. UNCHANGED <<scan, rel>> /\ rel = "idle" /\ provisional = {}
  BY DEF AloneInv, DeliverNext, PulseIgnored, PulseOpened, PulseHeld, PulseSettled, GraceExpires, PlanNothing,
         Plan, PlanAbandoned, NotifyParent, ParentUnreachable, Commit
<1>2. ASSUME NEW kind, NotifierTakes(kind)
      PROVE  /\ Elems(pulses') \subseteq Elems(pulses)
             /\ Head(pulses) \in Elems(pulses)
  BY <1>2, TailElems DEF NotifierTakes, TypeOK
<1>3. CASE PulseIgnored \/ PulseOpened
  <2>1. /\ UNCHANGED <<due, inflight>> /\ provisional' = {}
        /\ \E kind : NotifierTakes(kind)
    BY <1>1, <1>3 DEF PulseIgnored, PulseOpened
  <2> QED
    BY <1>1, <1>2, <2>1, AloneFrame
<1>4. CASE PulseHeld
  <2>1. NotifierTakes("signal") /\ UNCHANGED <<due, inflight>>
    BY <1>4 DEF PulseHeld
  <2>2. Head(pulses).hold # "replay"
    BY <1>2, <2>1 DEF AloneInv
  <2>3. provisional' = {}
    BY <1>1, <1>4, <2>2 DEF PulseHeld
  <2> QED
    BY <1>1, <1>2, <2>1, <2>3, AloneFrame
<1>5. CASE PulseSettled
  <2>1. /\ NotifierTakes("signal") /\ UNCHANGED <<inflight, provisional>>
        /\ \E t, w, W : due' = due \union {Boundary("notifier", t, w, W)}
    BY <1>5 DEF PulseSettled
  <2>2. \A t, w, W : Boundary("notifier", t, w, W).by = "notifier"
    BY DEF Boundary
  <2> QED
    BY <1>1, <1>2, <2>1, <2>2, AloneFrame
<1>6. CASE \E d \in provisional : GraceExpires(d)
  BY <1>1, <1>6
<1>7. CASE \E d \in due : PlanNothing(d) \/ PlanAbandoned(d)
  <2>1. UNCHANGED <<inflight, provisional, pulses>> /\ due' \subseteq due
    BY <1>7 DEF PlanNothing, PlanAbandoned
  <2> QED
    BY <1>1, <2>1, AloneFrame
<1>8. ASSUME NEW d \in due, Plan(d)
      PROVE  AloneInv'
  <2>1. d.by = "notifier"
    BY DEF AloneInv
  <2>2. inflight = {}
    BY <1>8, <2>1 DEF Plan, MayPlan, AloneInv
  <2>3. PlannedDelivery(d).by = d.by
    BY DEF PlannedDelivery
  <2>4. /\ inflight' = {PlannedDelivery(d)} /\ due' = due \ {d} /\ UNCHANGED <<provisional, pulses, scan>>
    BY <1>8, <2>2 DEF Plan
  <2> QED
    BY <1>1, <2>1, <2>3, <2>4 DEF AloneInv
<1>9. ASSUME NEW d \in inflight, NEW p \in Parents, NotifyParent(d, p) \/ ParentUnreachable(d, p)
      PROVE  AloneInv'
  <2>1. inflight = {d} /\ d.by = "notifier" /\ d \in Delivery
    BY DEF AloneInv, TypeOK
  <2>2. /\ [d EXCEPT !.carry[p] = {}].by = "notifier"
        /\ [d EXCEPT !.carry[p] = {}, !.dropped = @ \union d.carry[p]].by = "notifier"
    BY <2>1 DEF Delivery
  <2>3. /\ UNCHANGED <<due, provisional, pulses, scan>>
        /\ \/ inflight' = (inflight \ {d}) \union {[d EXCEPT !.carry[p] = {}]}
           \/ inflight' = (inflight \ {d}) \union
                          {[d EXCEPT !.carry[p] = {}, !.dropped = @ \union d.carry[p]]}
    BY <1>9 DEF NotifyParent, ParentUnreachable
  <2>4. \E e : inflight' = {e} /\ e.by = "notifier"
    BY <2>1, <2>2, <2>3
  <2> QED
    BY <1>1, <2>3, <2>4 DEF AloneInv
<1>10. ASSUME NEW d \in inflight, Commit(d)
       PROVE  AloneInv'
  <2>1. inflight' \subseteq inflight /\ UNCHANGED <<due, provisional, pulses, scan>>
    BY <1>10 DEF Commit
  <2> QED
    BY <1>1, <2>1 DEF AloneInv
<1> QED
  BY <1>3, <1>4, <1>5, <1>6, <1>7, <1>8, <1>9, <1>10 DEF DeliverNext

LEMMA AloneLife == TypeOK /\ AloneInv /\ NoneReleased' /\ LifeNext => AloneInv'
<1> USE DEF vendorVars, mirrorVars, dispVars, dlvVars, toldVars
<1> SUFFICES ASSUME TypeOK, AloneInv, NoneReleased', LifeNext PROVE AloneInv'
  OBVIOUS
<1>1. rel = "idle" /\ provisional = {}
  BY DEF AloneInv
<1>2. ~ReleasePick /\ ~ReleaseFence /\ ~ReleaseClear /\ ~ReleaseRead /\ ~ReleaseSettle
  <2>1. "release" \in DOMAIN Bound
    BY DEF Bound
  <2> QED
    BY <1>1, <2>1 DEF ReleasePick, ReleaseFence, ReleaseClear, ReleaseRead, ReleaseSettle, Spend, TypeOK, NoneReleased
<1>3. CASE EvictInPlace \/ Stop \/ StopDetached \/ \E s \in flush : FlushSettlement(s)
  <2>1. UNCHANGED <<due, inflight, scan, provisional, pulses>> /\ rel' = "idle"
    BY <1>1, <1>3 DEF EvictInPlace, Stop, StopDetached, StopsProcess, FlushSettlement
  <2> QED
    BY <1>1, <2>1, AloneFrame
<1>4. CASE ReconcileScan
  <2>1. \A read, s : \A d \in SettledBoundaries("notifier", read, s) : d.by = "notifier"
    BY DEF SettledBoundaries, Boundary
  <2>2. scan'.owed = SettledBoundaries("notifier", rows, Repair(rows, disk))
        /\ UNCHANGED <<due, inflight, provisional, rel, pulses>>
    BY <1>4 DEF ReconcileScan
  <2> QED
    BY <2>1, <2>2 DEF AloneInv
<1>5. CASE ReconcileSeed
  <2>1. /\ scan' = NoScan /\ due' = due \union scan.owed
        /\ UNCHANGED <<inflight, provisional, rel, pulses>>
    BY <1>5 DEF ReconcileSeed
  <2> QED
    BY <2>1 DEF AloneInv, NoScan
<1>6. CASE Crash
  <2>1. due' = {} /\ inflight' = {} /\ scan' = NoScan /\ rel' = "idle" /\ provisional' = {} /\ pulses' = << >>
    BY <1>6 DEF Crash
  <2>2. Elems(<< >>) = {}
    BY DEF Elems
  <2> QED
    BY <2>1, <2>2 DEF AloneInv, NoScan
<1> QED
  BY <1>2, <1>3, <1>4, <1>5, <1>6 DEF LifeNext

LEMMA AloneStep ==
  ASSUME TypeOK, NobodyElse => AloneInv, [Next]_vars, NobodyElse'
  PROVE  AloneInv'
<1> USE DEF vendorVars, mirrorVars, dispVars, dlvVars, toldVars
<1>1. NobodyElse
  <2>1. "release" \in DOMAIN Bound
    BY DEF Bound
  <2> QED
    BY <2>1, SpentStays DEF NobodyElse, NoneReleased
<1>2. CASE DispatchNext
  <2>1. PICK r \in Requests :
          \/ \E p \in Parents, n \in Notifies, w \in Waiting : AcceptWrite(r, p, n, w)
          \/ AcceptCommit(r) \/ AcceptRollback(r)
          \/ \E t \in Turns : SubmitStarted(r, t) \/ SubmitInjected(r, t) \/ SubmitQueued(r, t)
          \/ SubmitFail(r) \/ Bind(r) \/ Cancel(r)
          \/ WaitClaimLapses(r) \/ WaiterReleases(r) \/ WaiterReads(r)
    BY <1>2 DEF DispatchNext
  <2>2. UNCHANGED <<due, inflight, scan, rel>> /\ provisional' \subseteq provisional
    <3>1. CASE SubmitFail(r)
      BY <3>1, DropRowShrinks DEF SubmitFail
    <3> QED
      BY <2>1, <3>1 DEF AcceptWrite, AcceptCommit, AcceptRollback, SubmitStarted, SubmitInjected, SubmitQueued,
                Bind, Cancel, WaitClaimLapses, WaiterReleases, WaiterReads
  <2>3. pulses' = pulses \/ \E t : pulses' = Append(pulses, Opened(t, NoTurn))
    BY <2>1 DEF AcceptWrite, AcceptCommit, AcceptRollback, SubmitStarted, SubmitInjected, SubmitQueued,
                SubmitFail, Bind, Cancel, WaitClaimLapses, WaiterReleases, WaiterReads
  <2>4. \A t : Opened(t, NoTurn).hold # "replay"
    BY DEF Opened
  <2>5. CASE pulses' = pulses
    BY <1>1, <2>2, <2>5 DEF AloneInv
  <2>6. AloneInv /\ provisional' = {}
    BY <1>1, <2>2 DEF AloneInv
  <2> QED
    BY <2>2, <2>3, <2>4, <2>5, <2>6, AlonePulse
<1>3. CASE UNCHANGED vars
  BY <1>1, <1>3 DEF vars, AloneInv
<1>4. CASE LateNext
  <2>1. UNCHANGED <<pulses, due, inflight, scan, rel>> /\ provisional' \subseteq provisional
    BY <1>4, LateLeaves
  <2> QED
    BY <1>1, <2>1 DEF AloneInv
<1> QED
  BY <1>1, <1>2, <1>3, <1>4, AloneVendor, AloneDeliver, AloneLife DEF Next, NobodyElse

\* Without replayed holds and releases the notifier delivers alone, one boundary at a
\* time: restarts, stops, evictions and held boundaries add no second delivery.
THEOREM NotifierIsAlone == Spec => [](NobodyElse => AloneInv)
<1>1. Init => AloneInv
  BY DEF Init, AloneInv, NoScan, Elems
<1>2. TypeOK /\ (NobodyElse => AloneInv) /\ [Next]_vars => (NobodyElse => AloneInv)'
  BY AloneStep
<1> QED
  BY <1>1, <1>2, TypeCorrect, PTL DEF Spec

\* DurableAnswerStays where only the notifier delivers: an answer on disk stays
\* whatever crashes, restarts, stops and failing writes do, until the late write of a
\* dropped call lands.
THEOREM AnswersStayAlone == Spec /\ [](NoneDetached /\ NobodyElse) => DurableAnswerStays
<1>1. AloneInv => Apart
  BY DEF AloneInv, Apart
<1> QED
  BY <1>1, NotifierIsAlone, AnswersStayOnDisk, PTL
=============================================================================
