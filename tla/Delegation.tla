----------------------------- MODULE Delegation -----------------------------
(***************************************************************************)
(* The life of the requests dispatched to ONE child session, from `agent`  *)
(* accepting them to the parent being told of the answer.  The actors:     *)
(*   - dispatchers (`dispatch_task`), one per request, that accept, submit *)
(*     and bind under the child's store claim and may then wait inline;    *)
(*   - the vendor and its event pump, that run turns, write transcript     *)
(*     rows and send pulses;                                               *)
(*   - the notifier, the replay-grace timers and the release path, that    *)
(*     deliver a completed boundary in two phases;                         *)
(*   - stops, releases, crashes and the restart reconcile.                 *)
(* `disk` is `delegation.json`; `store` is the in-memory mirror of it.     *)
(* A step is what happens under one hold of the store claim or, without    *)
(* it, of the gateway lock.  A step that writes `disk` may find the write  *)
(* failing (a fault); a crash between a mutation and its write is a fault  *)
(* followed by a crash.                                                    *)
(***************************************************************************)
EXTENDS DelegationStore

CONSTANTS
  Holds,         \* the continuations a completed turn may declare
  Endings,       \* how the last text of a turn reaches the transcript
  Notifies,      \* the notify modes a dispatch may carry
  Waiting,       \* whether a dispatch may wait inline: a subset of BOOLEAN
  MaxCrashes,    \* bound: crashes of the daemon
  MaxFaults,     \* bound: failed writes of delegation.json or turns.jsonl
  MaxStops,      \* bound: explicit stops under the claim
  MaxDetached,   \* bound: stops from a `&mut Gateway` caller
  MaxReleases,   \* bound: releases by a residency policy
  MaxEvicts,     \* bound: capacity evictions from a `&mut Gateway` caller
  MaxCancels,    \* bound: dispatch calls whose client goes away
  MaxOutlives    \* bound: those that go away with their write under way

ASSUME HoldsAssumption    == Holds \subseteq {"settled", "pending", "replay"}
ASSUME EndingsAssumption  == Endings \subseteq {"atEnd", "released"}
ASSUME NotifiesAssumption == Notifies \subseteq NotifyMode
ASSUME WaitingAssumption  == Waiting \subseteq BOOLEAN
ASSUME BoundsAssumption   ==
  {MaxCrashes, MaxFaults, MaxStops, MaxDetached, MaxReleases, MaxEvicts,
   MaxCancels, MaxOutlives} \subseteq Nat

VARIABLES
  \* durable
  disk,          \* delegation.json; EmptyStore = no file
  rows,          \* turns.jsonl: the rows of each turn
  edge,          \* `continues_exec_turn` of a turn's row
  \* the vendor and its pump
  turnState,     \* phase of each execution turn; "parked" is a durable queue entry
  hold,          \* continuation declared at the last boundary of each turn
  lastTurn,      \* the pump's `last_exec_turn`
  live,          \* the child has a process
  pulses,        \* the delegation channel, FIFO
  \* the mirror entry (DelegationMirror) and the watch set
  resident, store, gen, nextGen, waits, suppressed, deliveringNow, provisional, watched,
  \* dispatchers
  claim,         \* the dispatcher holding the store claim, or Free
  saved,         \* what it read from disk before its accept
  draft,         \* what its accept wrote, for the mirror to take
  disp,          \* phase of each dispatch
  wants,         \* dispatches that wait inline
  receipt,       \* the turn the adapter answered with
  got,           \* what an inline wait returned
  \* deliveries
  due,           \* boundaries somebody is about to plan
  inflight,      \* planned deliveries not committed yet
  recon, scan,   \* the startup reconcile and what it scanned
  rel, relRows,  \* the release in progress and the rows it read
  flush,         \* settlements waiting for the claim to be written
  late,          \* writes still on the blocking pool, whose call was dropped
  \* history, for the properties only
  told,          \* boundaries each request's parent was told of, in this life
  everTold,      \* requests whose parent was told, ever
  root,          \* the first turn of each turn's continuation chain
  spent          \* how much of each bound is used

vendorVars == <<turnState, hold, lastTurn, live, edge, root>>
mirrorVars == <<resident, store, gen, nextGen, waits, suppressed, deliveringNow, provisional, watched>>
dispVars   == <<claim, saved, draft, disp, wants, receipt, got>>
dlvVars    == <<due, inflight, recon, scan, rel, relRows, flush, late>>
toldVars   == <<told, everTold>>
vars == <<disk, rows, vendorVars, pulses, mirrorVars, dispVars, dlvVars, toldVars, spent>>

Free == 0
NoScan == [store |-> EmptyStore, owed |-> {}]

Bound == [crash |-> MaxCrashes, fault |-> MaxFaults, stop |-> MaxStops,
          detached |-> MaxDetached, release |-> MaxReleases, evict |-> MaxEvicts,
          cancel |-> MaxCancels, outlive |-> MaxOutlives]

Spend(b) == spent[b] < Bound[b] /\ spent' = [spent EXCEPT ![b] = @ + 1]

\* Write s to delegation.json: it lands, or it fails and the file keeps what it had.
PersistOk(s)   == disk' = Durable(s) /\ UNCHANGED spent
PersistFail    == UNCHANGED disk /\ Spend("fault")
Persist(s)     == PersistOk(s) \/ PersistFail

-----------------------------------------------------------------------------
(* The transcript and what a reader of it concludes.                       *)

Running == {t \in Turns : turnState[t] \in {"running", "flushed"}}
Unused  == {t \in Turns : turnState[t] = "unused"}
Fresh(t) == t \in Unused /\ \A u \in Unused : t <= u

\* Turns that continue t, among the rows read.
Successors(read, t) == {u \in Turns : read[u] # {} /\ edge[u] = t /\ u # t}

\* The turns a walk along the rows' edges from t visits.
Walked(read, t) ==
  {u \in Turns : \A C \in SUBSET Turns :
                   (t \in C /\ \A x \in C : Successors(read, x) \subseteq C) => u \in C}

ChainEnds(read, t) == {u \in Walked(read, t) : Successors(read, u) = {}}

\* A fork or a loop: nobody can say which turn answers.
Ambiguous(read, t) ==
  \/ ChainEnds(read, t) = {}
  \/ \E u \in Walked(read, t) : Cardinality(Successors(read, u)) > 1

\* `repair_continuation_bindings`.
RepairRequest(read, q) ==
  IF q.state \notin OpenState \/ q.turn = NoTurn THEN q
  ELSE IF Ambiguous(read, q.turn) THEN [q EXCEPT !.bindError = TRUE]
  ELSE [q EXCEPT !.turn = CHOOSE u \in ChainEnds(read, q.turn) : TRUE]

Repair(read, s) == [s EXCEPT !.req = [r \in Requests |-> RepairRequest(read, s.req[r])]]

\* `stranded_boundary_signals`: one boundary per bound turn with rows that were
\* never delivered, named by the last of them.
Missed(read, s, t) == {w \in read[t] : RowMark(t, w) \notin Elems(s.notified)}

Stranded(read, s) ==
  {t \in Turns : Missed(read, s, t) # {} /\ \E r \in BoundTo(s, t) : ~s.req[r].bindError}

LastRow(W) ==
  CASE "closing" \in W -> "closing" [] "error" \in W -> "error"
    [] "text" \in W -> "text"       [] OTHER -> "note"

Opened(t, from) ==
  [kind |-> "opened", turn |-> t, from |-> from,
   row |-> "note", covered |-> {}, hold |-> "settled"]
Signal(t, h, w, W) ==
  [kind |-> "signal", turn |-> t, from |-> NoTurn, row |-> w, covered |-> W, hold |-> h]

Boundary(who, t, w, W) == [by |-> who, turn |-> t, row |-> w, covered |-> W]
KeyOf(d)  == [turn |-> d.turn, row |-> d.row]
Failed(d) == d.row = "error"

SettledBoundaries(who, read, s) ==
  {Boundary(who, t, LastRow(Missed(read, s, t)), Missed(read, s, t)) : t \in Stranded(read, s)}

-----------------------------------------------------------------------------
Init ==
  /\ disk = EmptyStore
  /\ rows = [t \in Turns |-> {}]
  /\ edge = [t \in Turns |-> NoTurn]
  /\ turnState = [t \in Turns |-> "unused"]
  /\ hold = [t \in Turns |-> "settled"]
  /\ lastTurn = NoTurn
  /\ live = FALSE
  /\ pulses = << >>
  /\ resident = FALSE /\ store = EmptyStore /\ gen = 0 /\ nextGen = 1
  /\ waits = {} /\ suppressed = {} /\ deliveringNow = {} /\ provisional = {}
  /\ watched = FALSE
  /\ claim = Free /\ saved = EmptyStore /\ draft = EmptyStore
  /\ disp = [r \in Requests |-> "new"]
  /\ wants = {}
  /\ receipt = [r \in Requests |-> NoTurn]
  /\ got = [r \in Requests |-> "nothing"]
  /\ due = {} /\ inflight = {}
  /\ recon = "done" /\ scan = NoScan
  /\ rel = "idle" /\ relRows = [t \in Turns |-> {}] /\ flush = {} /\ late = {}
  /\ told = [r \in Requests |-> {}]
  /\ everTold = {}
  /\ root = [t \in Turns |-> t]
  /\ spent = [b \in DOMAIN Bound |-> 0]

-----------------------------------------------------------------------------
(* Dispatch: the claim is held from AcceptWrite to Bind or a failure.      *)

\* Mutant: the accept does not wait for the store claim.  Of two calls in it, the
\* one that read first has the last word on the mirror.
AcceptWriteUnclaimed(r, p, n, w) ==
  /\ disp[r] = "new" /\ \A q \in Requests : q < r => disp[q] # "new"
  /\ claim' = r
  /\ saved' = disk
  /\ draft' = IF claim = Free THEN Accept(disk, r, p, n) ELSE draft
  /\ disk' = Accept(disk, r, p, n)
  /\ late' \in SUBSET late
  /\ disp' = [disp EXCEPT ![r] = "writing"]
  /\ wants' = IF w THEN wants \union {r} ELSE wants
  /\ UNCHANGED <<rows, vendorVars, pulses, mirrorVars, receipt, got,
                 due, inflight, recon, scan, rel, relRows, flush, toldVars, spent>>

\* accept_delegation_request_shared, first half: read disk, append, write.  A
\* late write that lands between the read and the write is overwritten.
AcceptWrite(r, p, n, w) ==
  /\ disp[r] = "new" /\ \A q \in Requests : q < r => disp[q] # "new"
  /\ claim = Free
  /\ claim' = r
  /\ saved' = disk
  /\ draft' = Accept(disk, r, p, n)
  /\ disk' = Accept(disk, r, p, n)
  /\ late' \in SUBSET late
  /\ disp' = [disp EXCEPT ![r] = "writing"]
  /\ wants' = IF w THEN wants \union {r} ELSE wants
  /\ UNCHANGED <<rows, vendorVars, pulses, mirrorVars, receipt, got,
                 due, inflight, recon, scan, rel, relRows, flush, toldVars, spent>>

\* ... second half: the mirror takes the written store; then claim_request_wait.
AcceptCommit(r) ==
  /\ disp[r] = "writing"
  /\ resident' = TRUE
  /\ store' = draft
  /\ gen' = IF resident THEN gen ELSE nextGen
  /\ nextGen' = IF resident THEN nextGen ELSE nextGen + 1
  /\ watched' = TRUE
  /\ waits' = IF r \in wants THEN waits \union {r} ELSE waits
  /\ suppressed' = IF r \in wants THEN suppressed \ {r} ELSE suppressed
  /\ disp' = [disp EXCEPT ![r] = "accepted"]
  /\ UNCHANGED <<disk, rows, vendorVars, pulses, deliveringNow, provisional,
                 claim, saved, draft, wants, receipt, got, dlvVars, toldVars, spent>>

\* Mutant: the rollback removes the file instead of putting back what it held.
AcceptRollbackRemoves(r) ==
  /\ disp[r] = "writing"
  /\ \/ disk' = EmptyStore /\ UNCHANGED spent
     \/ PersistFail
  /\ disp' = [disp EXCEPT ![r] = "closed"]
  /\ claim' = Free
  /\ UNCHANGED <<rows, vendorVars, pulses, mirrorVars, saved, draft, wants, receipt, got, dlvVars, toldVars>>

\* ... or the gateway lock is not had in time, or the child was replaced: what
\* was on disk is put back, best effort, and the caller gets an error.
AcceptRollback(r) ==
  /\ disp[r] = "writing"
  /\ \/ disk' = saved /\ UNCHANGED spent
     \/ PersistFail
  /\ disp' = [disp EXCEPT ![r] = "closed"]
  /\ claim' = Free
  /\ UNCHANGED <<rows, vendorVars, pulses, mirrorVars, saved, draft, wants, receipt, got, dlvVars, toldVars>>

\* The adapter takes the line: it starts a turn, joins the running one, or is
\* parked behind it under the turn id it will run as.
SubmitStarted(r, t) ==
  /\ disp[r] = "accepted"
  /\ Running = {} /\ Fresh(t)
  /\ turnState' = [turnState EXCEPT ![t] = "running"]
  /\ lastTurn' = t
  /\ live' = TRUE
  /\ pulses' = Append(pulses, Opened(t, NoTurn))
  /\ receipt' = [receipt EXCEPT ![r] = t]
  /\ disp' = [disp EXCEPT ![r] = "started"]
  /\ UNCHANGED <<disk, rows, hold, edge, root, mirrorVars, claim, saved, draft, wants, got, dlvVars, toldVars, spent>>

SubmitInjected(r, t) ==
  /\ disp[r] = "accepted"
  /\ t \in Running
  /\ receipt' = [receipt EXCEPT ![r] = t]
  /\ disp' = [disp EXCEPT ![r] = "injected"]
  /\ UNCHANGED <<disk, rows, vendorVars, pulses, mirrorVars, claim, saved, draft, wants, got, dlvVars, toldVars, spent>>

SubmitQueued(r, t) ==
  /\ disp[r] = "accepted"
  /\ Running # {} /\ Fresh(t)
  /\ turnState' = [turnState EXCEPT ![t] = "parked"]
  /\ receipt' = [receipt EXCEPT ![r] = t]
  /\ disp' = [disp EXCEPT ![r] = "queued"]
  /\ UNCHANGED <<disk, rows, hold, lastTurn, live, edge, root, pulses, mirrorVars,
                 claim, saved, draft, wants, got, dlvVars, toldVars, spent>>

\* drop_delegation_request_shared, in memory: the row goes, and the whole mirror
\* when nothing is left to remember.
DropRow(r) ==
  LET s == Without(store, {r})
  IN  IF IsEmpty(s)
      THEN /\ resident' = FALSE /\ store' = EmptyStore /\ gen' = 0 /\ watched' = FALSE
           /\ waits' = {} /\ suppressed' = {} /\ deliveringNow' = {} /\ provisional' = {}
      ELSE /\ store' = s
           /\ waits' = waits \ {r} /\ suppressed' = suppressed \ {r}
           /\ UNCHANGED <<resident, gen, watched, deliveringNow, provisional>>

\* The submit fails: the row is dropped, and the file goes or is written again.
SubmitFail(r) ==
  /\ disp[r] = "accepted"
  /\ DropRow(r)
  /\ Persist(store')
  /\ disp' = [disp EXCEPT ![r] = "closed"]
  /\ claim' = Free
  /\ UNCHANGED <<rows, vendorVars, pulses, nextGen, saved, draft, wants, receipt, got, dlvVars, toldVars>>

\* Mutant: the receipt's word is stored as the state.
BoundStateUnmapped(phase) == phase

BoundState(phase) ==
  CASE phase = "queued" -> "queued" [] phase = "injected" -> "executing" [] OTHER -> "submitted"

BoundStore(r, failed) ==
  LET q == store.req[r]
  IN  [store EXCEPT !.req[r] = [q EXCEPT !.turn = receipt[r],
                                         !.state = BoundState(disp[r]),
                                         !.bindError = failed \/ q.bindError]]

\* bind_delegation_request_shared; the claim and the completion fence are then
\* released.  A binding that is not durable is kept in memory, marked.  The row
\* is there to be bound: see BindFindsItsRow.
Bind(r) ==
  /\ disp[r] \in {"started", "injected", "queued"}
  /\ resident /\ store.req[r].state # "absent"
  /\ \/ store' = BoundStore(r, FALSE) /\ PersistOk(BoundStore(r, FALSE))
     \/ store' = BoundStore(r, TRUE)  /\ PersistFail
  /\ disp' = [disp EXCEPT ![r] = IF r \in wants THEN "waiting" ELSE "closed"]
  /\ claim' = Free
  /\ UNCHANGED <<rows, vendorVars, pulses, resident, gen, nextGen, waits, suppressed,
                 deliveringNow, provisional, watched, saved, draft, wants, receipt, got, dlvVars, toldVars>>

\* The client of an `agent` call disconnects: its future is dropped where it is,
\* with no write of its own under way (see LateNext for those that have one).
Cancel(r) ==
  /\ disp[r] \in {"writing", "accepted", "started", "injected", "queued", "waiting"}
  /\ Spend("cancel")
  /\ disp' = [disp EXCEPT ![r] = "gone"]
  /\ claim' = IF claim = r THEN Free ELSE claim
  /\ UNCHANGED <<disk, rows, vendorVars, pulses, mirrorVars, saved, draft, wants, receipt, got, dlvVars, toldVars>>

-----------------------------------------------------------------------------
(* A write of delegation.json runs on the blocking pool.  A call that is    *)
(* dropped while it awaits one leaves the claim to the next dispatch, and    *)
(* the write to land whenever it comes to it.                               *)

Outlives(s) ==
  /\ Spend("outlive")
  /\ late' = late \union {[n |-> spent["outlive"], store |-> s]}

CallGone(r) == disp' = [disp EXCEPT ![r] = "gone"] /\ claim' = Free

\* Dropped in the write of the accept: the mirror never hears of the request ...
AcceptOutlives(r, p, n) ==
  /\ disp[r] = "new" /\ \A q \in Requests : q < r => disp[q] # "new"
  /\ claim = Free
  /\ Outlives(Accept(disk, r, p, n))
  /\ CallGone(r)
  /\ UNCHANGED <<disk, rows, vendorVars, pulses, mirrorVars, saved, draft, wants, receipt, got,
                 due, inflight, recon, scan, rel, relRows, flush, toldVars>>

\* ... or in the one that puts back what was on disk ...
RollbackOutlives(r) ==
  /\ disp[r] = "writing"
  /\ Outlives(saved)
  /\ CallGone(r)
  /\ UNCHANGED <<disk, rows, vendorVars, pulses, mirrorVars, saved, draft, wants, receipt, got,
                 due, inflight, recon, scan, rel, relRows, flush, toldVars>>

\* ... or in the one that drops the row of a refused submit ...
SubmitFailOutlives(r) ==
  /\ disp[r] = "accepted"
  /\ DropRow(r)
  /\ Outlives(Durable(store'))
  /\ CallGone(r)
  /\ UNCHANGED <<disk, rows, vendorVars, pulses, nextGen, saved, draft, wants, receipt, got,
                 due, inflight, recon, scan, rel, relRows, flush, toldVars>>

\* ... or in the bind's: the mirror has the binding, and nobody is left to see
\* whether the file takes it.
BindOutlives(r) ==
  /\ disp[r] \in {"started", "injected", "queued"}
  /\ resident /\ store.req[r].state # "absent"
  /\ store' = BoundStore(r, FALSE)
  /\ Outlives(Durable(store'))
  /\ CallGone(r)
  /\ UNCHANGED <<disk, rows, vendorVars, pulses, resident, gen, nextGen, waits, suppressed,
                 deliveringNow, provisional, watched, saved, draft, wants, receipt, got,
                 due, inflight, recon, scan, rel, relRows, flush, toldVars>>

\* A late write lands, whoever holds the claim and whatever the file says by now.
LateLands(w) ==
  /\ late' = late \ {w}
  /\ \/ disk' = w.store /\ UNCHANGED spent
     \/ PersistFail
  /\ UNCHANGED <<rows, vendorVars, pulses, mirrorVars, dispVars,
                 due, inflight, recon, scan, rel, relRows, flush, toldVars>>

-----------------------------------------------------------------------------
(* The inline wait of `agent{wait}`.                                       *)

\* The deadline of claim_request_wait passes.  It runs from the accept; the
\* waiter's own deadline runs from the bind, so it is never the earlier one.
WaitClaimLapses(r) ==
  /\ r \in waits
  /\ waits' = waits \ {r}
  /\ UNCHANGED <<disk, rows, vendorVars, pulses, resident, store, gen, nextGen, suppressed,
                 deliveringNow, provisional, watched, dispVars, dlvVars, toldVars, spent>>

WaiterAnswered(r) == resident /\ store.req[r].state \in TerminalState
WaiterGone(r)     == ~resident \/ store.req[r].state = "absent"

\* Mutant: release_request_wait's verdict is not looked at.
WaiterReleasesUnchecked(r) ==
  /\ disp[r] = "waiting"
  /\ WaiterAnswered(r) \/ WaiterGone(r) \/ r \notin waits
  /\ waits' = waits \ {r}
  /\ suppressed' = suppressed \ {r}
  /\ IF WaiterAnswered(r)
     THEN disp' = [disp EXCEPT ![r] = "reading"] /\ UNCHANGED got
     ELSE disp' = [disp EXCEPT ![r] = "closed"] /\ got' = [got EXCEPT ![r] = "pending"]
  /\ UNCHANGED <<disk, rows, vendorVars, pulses, resident, store, gen, nextGen, deliveringNow,
                 provisional, watched, claim, saved, draft, wants, receipt, dlvVars, toldVars, spent>>

\* The poll ends (terminal, gone or past the deadline) and release_request_wait
\* says whether the boundary was suppressed in this waiter's favour.
WaiterReleases(r) ==
  /\ disp[r] = "waiting"
  /\ WaiterAnswered(r) \/ WaiterGone(r) \/ r \notin waits
  /\ waits' = waits \ {r}
  /\ suppressed' = suppressed \ {r}
  /\ IF WaiterAnswered(r) \/ r \in suppressed
     THEN disp' = [disp EXCEPT ![r] = "reading"] /\ UNCHANGED got
     ELSE disp' = [disp EXCEPT ![r] = "closed"] /\ got' = [got EXCEPT ![r] = "pending"]
  /\ UNCHANGED <<disk, rows, vendorVars, pulses, resident, store, gen, nextGen, deliveringNow,
                 provisional, watched, claim, saved, draft, wants, receipt, dlvVars, toldVars, spent>>

\* The answer is the row the request was resolved against, read through the
\* live session; without one the result is rendered with no answer in it.
WaiterReads(r) ==
  /\ disp[r] = "reading"
  /\ disp' = [disp EXCEPT ![r] = "closed"]
  /\ got' = [got EXCEPT ![r] =
       IF live /\ resident /\ store.req[r].answered # NoTurn THEN "answer" ELSE "empty"]
  /\ UNCHANGED <<disk, rows, vendorVars, pulses, mirrorVars, claim, saved, draft, wants, receipt,
                 dlvVars, toldVars, spent>>

-----------------------------------------------------------------------------
(* The vendor and the event pump.  A row is on disk before its pulse is    *)
(* sent; the pump sends pulses whether or not anybody watches the child.   *)

TurnOpens(t, phase, from) ==
  /\ live' = TRUE
  /\ turnState' = [turnState EXCEPT ![t] = phase]
  /\ edge' = [edge EXCEPT ![t] = from]
  /\ root' = [root EXCEPT ![t] = IF from = NoTurn THEN t ELSE root[from]]
  /\ lastTurn' = t
  /\ pulses' = Append(pulses, Opened(t, from))
  /\ UNCHANGED <<disk, rows, hold, mirrorVars, dispVars, dlvVars, toldVars, spent>>

\* A person types to the child: a turn no request asked for.
HumanTurn(t) == Running = {} /\ Fresh(t) /\ TurnOpens(t, "running", NoTurn)

\* The oldest parked line is written once the child is idle.
OpenParked(t) ==
  /\ live /\ Running = {}
  /\ turnState[t] = "parked" /\ \A u \in Turns : turnState[u] = "parked" => t <= u
  /\ TurnOpens(t, "flushed", NoTurn)

\* The vendor wakes itself to continue work the last boundary held open.
OpenContinuation(t) ==
  /\ live /\ Running = {} /\ Fresh(t)
  /\ lastTurn # NoTurn /\ hold[lastTurn] # "settled"
  /\ TurnOpens(t, "running", lastTurn)

\* Mutant: a row said on the way is signalled like a boundary.
NarrateSignals(t) ==
  /\ t \in Running /\ "note" \notin rows[t]
  /\ rows' = [rows EXCEPT ![t] = @ \union {"note"}]
  /\ pulses' = Append(pulses, Signal(t, "settled", "note", rows'[t]))
  /\ UNCHANGED <<disk, vendorVars, mirrorVars, dispVars, dlvVars, toldVars, spent>>

\* What the turn says on its way: a row is appended, nobody is signalled.
Narrate(t) ==
  /\ t \in Running /\ "note" \notin rows[t]
  /\ rows' = [rows EXCEPT ![t] = @ \union {"note"}]
  /\ UNCHANGED <<disk, vendorVars, pulses, mirrorVars, dispVars, dlvVars, toldVars, spent>>

TurnEnds(t, h) ==
  /\ t \in Running
  /\ turnState' = [turnState EXCEPT ![t] = "ended"]
  /\ hold' = [hold EXCEPT ![t] = h]
  /\ UNCHANGED <<disk, lastTurn, live, edge, root, mirrorVars, dispVars, dlvVars, toldVars>>

\* The turn's last row carries its end, and the boundary names that row.
EndTurn(t, h) ==
  /\ "atEnd" \in Endings
  /\ TurnEnds(t, h)
  /\ rows' = [rows EXCEPT ![t] = @ \union {"text"}]
  /\ pulses' = Append(pulses, Signal(t, h, "text", rows'[t]))
  /\ UNCHANGED spent

\* All its text went out on the way: an empty closing row is appended, and the
\* boundary names, and covers, only the rows with text.
EndTurnReleased(t, h) ==
  /\ "released" \in Endings /\ "note" \in rows[t]
  /\ TurnEnds(t, h)
  /\ rows' = [rows EXCEPT ![t] = @ \union {"closing"}]
  /\ pulses' = Append(pulses, Signal(t, h, "note", rows[t]))
  /\ UNCHANGED spent

\* A failure settles its turn whatever the vendor still holds.
FailTurn(t) ==
  /\ TurnEnds(t, "settled")
  /\ rows' = [rows EXCEPT ![t] = @ \union {"error"}]
  /\ pulses' = Append(pulses, Signal(t, "settled", "error", rows'[t]))
  /\ UNCHANGED spent

\* No row, no signal: the turn said nothing and is held open, or its only row
\* cannot be appended.
EndTurnUnrecorded(t, h) ==
  /\ rows[t] = {}
  /\ TurnEnds(t, h)
  /\ \/ h # "settled" /\ UNCHANGED spent
     \/ Spend("fault")
  /\ UNCHANGED <<rows, pulses>>

-----------------------------------------------------------------------------
(* The notifier: one pulse at a time, after the startup reconcile.         *)

Busy(who) == \/ \E d \in due : d.by = who
             \/ \E d \in inflight : d.by = who

NotifierTakes(kind) ==
  /\ recon = "done" /\ pulses # << >> /\ ~Busy("notifier")
  /\ Head(pulses).kind = kind
  /\ pulses' = Tail(pulses)

\* The child is not in the watch set: the pulse is dropped.
PulseIgnored ==
  /\ NotifierTakes(Head(pulses).kind)
  /\ ~watched
  /\ UNCHANGED <<disk, rows, vendorVars, mirrorVars, dispVars, dlvVars, toldVars, spent>>

MarkExecuting(s, t) ==
  [s EXCEPT !.req = [r \in Requests |->
     IF s.req[r].turn = t /\ s.req[r].state \in {"accepted", "queued", "submitted"}
     THEN [s.req[r] EXCEPT !.state = "executing"] ELSE s.req[r]]]

\* A turn opened: bindings follow the work first, then they read executing.
PulseOpened ==
  LET p     == Head(pulses)
      moved == IF p.from = NoTurn THEN store ELSE RebindContinuation(store, p.from, p.turn)
      s     == MarkExecuting(moved, p.turn)
  IN  /\ NotifierTakes("opened")
      /\ watched /\ claim = Free
      /\ provisional' = {d \in provisional : d.turn # p.from}
      /\ store' = IF resident THEN s ELSE store
      /\ IF resident /\ s # store THEN Persist(s) ELSE UNCHANGED <<disk, spent>>
      /\ UNCHANGED <<rows, vendorVars, resident, gen, nextGen, waits, suppressed, deliveringNow,
                     watched, dispVars, dlvVars, toldVars>>

\* Mutant: every held boundary gets the replay grace.
PulseHeldGraced ==
  LET p     == Head(pulses)
      noted == resident /\ BoundTo(store, p.turn) # {}
  IN  /\ NotifierTakes("signal")
      /\ p.hold # "settled"
      /\ watched /\ claim = Free
      /\ provisional' = IF noted
                        THEN provisional \union {Boundary("grace", p.turn, p.row, p.covered)}
                        ELSE provisional
      /\ IF noted THEN Persist(store) ELSE UNCHANGED <<disk, spent>>
      /\ UNCHANGED <<rows, vendorVars, resident, store, gen, nextGen, waits, suppressed,
                     deliveringNow, watched, dispVars, dlvVars, toldVars>>

\* A boundary the vendor holds open resolves nobody.  A replay hold that some
\* request is bound to is kept for the grace timer.
PulseHeld ==
  LET p     == Head(pulses)
      noted == resident /\ BoundTo(store, p.turn) # {}
  IN  /\ NotifierTakes("signal")
      /\ p.hold # "settled"
      /\ watched /\ claim = Free
      /\ provisional' = IF noted /\ p.hold = "replay"
                        THEN provisional \union {Boundary("grace", p.turn, p.row, p.covered)}
                        ELSE provisional
      /\ IF noted THEN Persist(store) ELSE UNCHANGED <<disk, spent>>
      /\ UNCHANGED <<rows, vendorVars, resident, store, gen, nextGen, waits, suppressed,
                     deliveringNow, watched, dispVars, dlvVars, toldVars>>

\* A settled boundary is to be delivered.
PulseSettled ==
  LET p == Head(pulses)
  IN  /\ NotifierTakes("signal")
      /\ p.hold = "settled"
      /\ watched
      /\ due' = due \union {Boundary("notifier", p.turn, p.row, p.covered)}
      /\ UNCHANGED <<disk, rows, vendorVars, mirrorVars, dispVars, inflight, recon, scan, rel, relRows, flush, late,
                     toldVars, spent>>

\* settle_provisional_boundary: no continuation came within the replay grace.
GraceExpires(d) ==
  /\ provisional' = provisional \ {d}
  /\ due' = due \union {d}
  /\ UNCHANGED <<disk, rows, vendorVars, pulses, resident, store, gen, nextGen, waits, suppressed,
                 deliveringNow, watched, dispVars, inflight, recon, scan, rel, relRows, flush, late, toldVars, spent>>

-----------------------------------------------------------------------------
(* deliver_delegation_signal_shared: plan and claim the boundary durably,  *)
(* tell the parents off both locks, then commit.                           *)

\* Mutant: `delivering_now` is not consulted.
DeliverableTwice(d) ==
  /\ resident
  /\ FinalMark(KeyOf(d)) \notin Elems(store.notified)
  /\ BoundTo(store, d.turn) # {}

Deliverable(d) ==
  /\ resident
  /\ FinalMark(KeyOf(d)) \notin Elems(store.notified)
  /\ BoundTo(store, d.turn) # {}
  /\ KeyOf(d) \notin deliveringNow

\* Two boundaries of one task run one after the other; grace timers do not wait.
MayPlan(d) == claim = Free /\ (d.by = "grace" \/ ~\E e \in inflight : e.by = d.by)

\* Nothing this boundary can resolve, or somebody is delivering it already.
PlanNothing(d) ==
  /\ MayPlan(d) /\ ~Deliverable(d)
  /\ due' = due \ {d}
  /\ UNCHANGED <<disk, rows, vendorVars, pulses, mirrorVars, dispVars, inflight, recon, scan, rel, relRows,
                 flush, late, toldVars, spent>>

PlannedDelivery(d) ==
  LET resolved == BoundTo(store, d.turn)
      pushed   == {r \in resolved : store.req[r].notify # "off" /\ r \notin waits}
  IN  [ by |-> d.by, turn |-> d.turn, row |-> d.row, covered |-> d.covered, gen |-> gen,
        resolved |-> resolved, pushed |-> pushed, dropped |-> {},
        carry |-> [p \in Parents |-> {r \in pushed : store.req[r].parent = p}] ]

\* Mutant: the result of writing the claim is ignored.
PlanUnpersisted(d) ==
  LET s == BeginDelivery(store, KeyOf(d))
  IN  /\ MayPlan(d) /\ Deliverable(d)
      /\ due' = due \ {d}
      /\ store' = s
      /\ Persist(s)
      /\ deliveringNow' = deliveringNow \union {KeyOf(d)}
      /\ suppressed' = suppressed \union (BoundTo(store, d.turn) \intersect waits)
      /\ inflight' = inflight \union {PlannedDelivery(d)}
      /\ UNCHANGED <<rows, vendorVars, pulses, resident, gen, nextGen, waits, provisional, watched,
                     dispVars, recon, scan, rel, relRows, flush, late, toldVars>>

\* Phase (a): the claim on the boundary reaches the disk before anyone is woken.
Plan(d) ==
  LET s == BeginDelivery(store, KeyOf(d))
  IN  /\ MayPlan(d) /\ Deliverable(d)
      /\ due' = due \ {d}
      /\ store' = s
      /\ PersistOk(s)
      /\ deliveringNow' = deliveringNow \union {KeyOf(d)}
      /\ suppressed' = suppressed \union (BoundTo(store, d.turn) \intersect waits)
      /\ inflight' = inflight \union {PlannedDelivery(d)}
      /\ UNCHANGED <<rows, vendorVars, pulses, resident, gen, nextGen, waits, provisional, watched,
                     dispVars, recon, scan, rel, relRows, flush, late, toldVars>>

\* The claim could not be written: abandon_delivery.  Nobody is told and the
\* marker goes, in memory and, best effort, on disk.
PlanAbandoned(d) ==
  LET s == AbandonDelivery(store, KeyOf(d))
  IN  /\ MayPlan(d) /\ Deliverable(d)
      /\ due' = due \ {d}
      /\ store' = s
      /\ Spend("fault")
      /\ disk' \in {Durable(s), disk}
      /\ suppressed' = suppressed \union (BoundTo(store, d.turn) \intersect waits)
      /\ UNCHANGED <<rows, vendorVars, pulses, resident, gen, nextGen, waits, deliveringNow,
                     provisional, watched, dispVars, inflight, recon, scan, rel, relRows, flush, late, toldVars>>

\* Phase (b): one notification per parent, naming every request it carries.
NotifyParent(d, p) ==
  /\ d.carry[p] # {}
  /\ inflight' = (inflight \ {d}) \union {[d EXCEPT !.carry[p] = {}]}
  /\ told' = [r \in Requests |-> IF r \in d.carry[p] THEN told[r] \union {KeyOf(d)} ELSE told[r]]
  /\ everTold' = everTold \union d.carry[p]
  /\ UNCHANGED <<disk, rows, vendorVars, pulses, mirrorVars, dispVars, due, recon, scan, rel, relRows, flush, late, spent>>

\* Mutant: the requests of an unreachable parent are not dropped.
ParentUnreachableKept(d, p) ==
  /\ d.carry[p] # {}
  /\ inflight' = (inflight \ {d}) \union {[d EXCEPT !.carry[p] = {}]}
  /\ UNCHANGED <<disk, rows, vendorVars, pulses, mirrorVars, dispVars, due, recon, scan, rel, relRows, flush, late,
                 toldVars, spent>>

\* ... or the parent cannot be reached, and its requests will be dropped.
ParentUnreachable(d, p) ==
  /\ d.carry[p] # {}
  /\ inflight' = (inflight \ {d}) \union
                 {[d EXCEPT !.carry[p] = {}, !.dropped = @ \union d.carry[p]]}
  /\ UNCHANGED <<disk, rows, vendorVars, pulses, mirrorVars, dispVars, due, recon, scan, rel, relRows, flush, late,
                 toldVars, spent>>

\* Mutant: every request a boundary resolves is marked notified.
ResolvedByAllNotified(d, r, q) ==
  IF r \in d.dropped THEN Absent
  ELSE IF r \notin d.resolved \/ q.state = "absent" THEN q
  ELSE [q EXCEPT !.state = IF Failed(d) THEN "failed" ELSE "answered",
                 !.answered = d.turn,
                 !.notified = TRUE]

ResolvedBy(d, r, q) ==
  IF r \in d.dropped THEN Absent
  ELSE IF r \notin d.resolved \/ q.state = "absent" THEN q
  ELSE [q EXCEPT !.state = IF Failed(d) THEN "failed" ELSE "answered",
                 !.answered = d.turn,
                 !.notified = r \in d.pushed]

CommittedStore(d) ==
  LET s == RecordCovered(FinishDelivery(store, KeyOf(d)), d.turn, d.covered)
  IN  [s EXCEPT !.req = [r \in Requests |-> ResolvedBy(d, r, s.req[r])]]

AllTold(d) == \A p \in Parents : d.carry[p] = {}

\* Phase (c): the boundary is spent and its requests become terminal, in the
\* mirror entry the plan was made on.
Commit(d) ==
  LET s == CommittedStore(d)
  IN  /\ AllTold(d) /\ claim = Free
      /\ resident /\ gen = d.gen
      /\ inflight' = inflight \ {d}
      /\ deliveringNow' = deliveringNow \ {KeyOf(d)}
      /\ store' = s
      /\ watched' = (watched /\ Outstanding(s) # {})
      /\ Persist(s)
      /\ UNCHANGED <<rows, vendorVars, pulses, resident, gen, nextGen, waits, suppressed, provisional,
                     dispVars, due, recon, scan, rel, relRows, flush, late, toldVars>>

-----------------------------------------------------------------------------
(* Restart: scan without the claim, seed the mirror, deliver what is owed. *)

ReconcileScan ==
  /\ recon = "start"
  /\ scan' = [store |-> Repair(rows, disk),
              owed  |-> SettledBoundaries("notifier", rows, Repair(rows, disk))]
  /\ recon' = "scanned"
  /\ UNCHANGED <<disk, rows, vendorVars, pulses, mirrorVars, dispVars, due, inflight, rel, relRows, flush, late,
                 toldVars, spent>>

\* Mutant: the mirror is seeded and nothing is redelivered.
ReconcileSeedOnly ==
  /\ recon = "scanned"
  /\ watched' = (watched \/ ~IsEmpty(scan.store))
  /\ resident' = (resident \/ ~IsEmpty(scan.store))
  /\ store' = IF resident THEN store ELSE scan.store
  /\ scan' = NoScan
  /\ recon' = "done"
  /\ UNCHANGED <<disk, rows, vendorVars, pulses, gen, nextGen, waits, suppressed, deliveringNow,
                 provisional, dispVars, due, inflight, rel, relRows, flush, late, toldVars, spent>>

\* A live entry is never clobbered; the child is watched again.
ReconcileSeed ==
  /\ recon = "scanned"
  /\ watched' = (watched \/ ~IsEmpty(scan.store))
  /\ resident' = (resident \/ ~IsEmpty(scan.store))
  /\ store' = IF resident THEN store ELSE scan.store
  /\ due' = due \union scan.owed
  /\ scan' = NoScan
  /\ recon' = "done"
  /\ UNCHANGED <<disk, rows, vendorVars, pulses, gen, nextGen, waits, suppressed, deliveringNow,
                 provisional, dispVars, inflight, rel, relRows, flush, late, toldVars, spent>>

-----------------------------------------------------------------------------
(* The process goes away: release, stop, crash.                            *)

\* A flushed line with no row is still named by the parked-input file.
ProcessDies(replays) ==
  /\ live' = FALSE
  /\ lastTurn' = NoTurn
  /\ turnState' = [t \in Turns |->
       IF t \notin Running THEN turnState[t]
       ELSE IF replays /\ turnState[t] = "flushed" /\ rows[t] = {} THEN "parked" ELSE "dead"]
  /\ UNCHANGED <<hold, edge, root>>

\* A residency policy picks the child: it is idle, or capacity is short and it
\* is the next in rank whatever it does.  From its settlement on a release is
\* finished, as the idle sweeper's is; one for capacity that is dropped with its
\* caller before the settlement leaves what EvictInPlace leaves.  It is picked ...
ReleasePick ==
  /\ rel = "idle" /\ live
  /\ Spend("release")
  /\ rel' = "picked"
  /\ UNCHANGED <<disk, rows, vendorVars, pulses, mirrorVars, dispVars, due, inflight, recon, scan,
                 relRows, flush, late, toldVars>>

\* ... and later fences it out: the pump is aborted and the thread closed.
ReleaseFence ==
  /\ rel = "picked"
  /\ ProcessDies(TRUE)
  /\ rel' = "fenced"
  /\ UNCHANGED <<disk, rows, pulses, mirrorVars, dispVars, due, inflight, recon, scan, relRows, flush, late,
                 toldVars, spent>>

\* settle_stranded_delegations_shared: nothing held open can continue now.
ReleaseClear ==
  /\ rel = "fenced"
  /\ provisional' = {}
  /\ rel' = IF Outstanding(store) = {} THEN "idle" ELSE "reading"
  /\ UNCHANGED <<disk, rows, vendorVars, pulses, resident, store, gen, nextGen, waits, suppressed,
                 deliveringNow, watched, dispVars, due, inflight, recon, scan, relRows, flush, late, toldVars, spent>>

\* The transcript is read off every lock.
ReleaseRead ==
  /\ rel = "reading"
  /\ relRows' = rows
  /\ rel' = "settling"
  /\ UNCHANGED <<disk, rows, vendorVars, pulses, mirrorVars, dispVars, due, inflight, recon, scan,
                 flush, late, toldVars, spent>>

ReleaseSettle ==
  /\ rel = "settling" /\ claim = Free
  /\ store' = Repair(relRows, store)
  /\ due' = due \union SettledBoundaries("release", relRows, Repair(relRows, store))
  /\ rel' = "idle"
  /\ relRows' = [t \in Turns |-> {}]
  /\ UNCHANGED <<disk, rows, vendorVars, pulses, resident, gen, nextGen, waits, suppressed,
                 deliveringNow, provisional, watched, dispVars, inflight, recon, scan, flush, late, toldVars, spent>>

\* ensure_live_capacity, the `&mut Gateway` flavour: evicted on the spot, and
\* nothing settles what the child left bound.
EvictInPlace ==
  /\ live
  /\ Spend("evict")
  /\ ProcessDies(TRUE)
  /\ rel' = IF rel = "picked" THEN "idle" ELSE rel
  /\ UNCHANGED <<disk, rows, pulses, mirrorVars, dispVars, due, inflight, recon, scan, relRows, flush, late,
                 toldVars>>

\* Mutant: a stop also settles requests that are terminal already.
StoppedRequestAgain(q) ==
  IF q.state = "absent" THEN q
  ELSE IF q.turn \in Running THEN [q EXCEPT !.state = "interrupted"]
  ELSE IF q.turn # NoTurn /\ turnState[q.turn] = "parked" THEN q
  ELSE IF q.state \in {"accepted", "queued"} THEN [q EXCEPT !.state = "undelivered"]
  ELSE [q EXCEPT !.state = "interrupted"]

\* settle_stopped_requests: cut, retained in a queue file, written, or never handed over.
StoppedRequest(q) ==
  IF q.state \notin OpenState THEN q
  ELSE IF q.turn \in Running THEN [q EXCEPT !.state = "interrupted"]
  ELSE IF q.turn # NoTurn /\ turnState[q.turn] = "parked" THEN q
  ELSE IF q.state \in {"accepted", "queued"} THEN [q EXCEPT !.state = "undelivered"]
  ELSE [q EXCEPT !.state = "interrupted"]

SettledStore == [store EXCEPT !.req = [r \in Requests |-> StoppedRequest(store.req[r])]]

StopsProcess ==
  /\ live
  /\ ProcessDies(FALSE)
  /\ store' = SettledStore
  /\ rel' = IF rel = "picked" THEN "idle" ELSE rel
  /\ UNCHANGED <<rows, pulses, resident, gen, nextGen, waits, suppressed, deliveringNow, provisional,
                 watched, dispVars, due, inflight, recon, scan, relRows, late, toldVars>>

\* stop_session_shared: the claim is held across the stop and the write, by a
\* task of its own that a dropped call does not end.
Stop ==
  /\ claim = Free
  /\ spent["stop"] < MaxStops
  /\ StopsProcess
  /\ \/ /\ disk' = IF resident THEN Durable(SettledStore) ELSE disk
        /\ spent' = [spent EXCEPT !["stop"] = @ + 1]
     \/ /\ resident /\ spent["fault"] < MaxFaults /\ disk' = disk
        /\ spent' = [spent EXCEPT !["stop"] = @ + 1, !["fault"] = @ + 1]
  /\ UNCHANGED flush

\* stop_session_detached: no claim; the settled snapshot is written later.
StopDetached ==
  /\ StopsProcess
  /\ Spend("detached")
  /\ flush' = IF resident THEN flush \union {SettledStore} ELSE flush
  /\ UNCHANGED disk

FlushSettlement(s) ==
  /\ claim = Free
  /\ flush' = flush \ {s}
  /\ Persist(s)
  /\ UNCHANGED <<rows, vendorVars, pulses, mirrorVars, dispVars, due, inflight, recon, scan, rel, relRows, late, toldVars>>

\* The daemon dies: files and parked lines survive, nothing else does.
Crash ==
  /\ Spend("crash")
  /\ ProcessDies(TRUE)
  /\ pulses' = << >>
  /\ resident' = FALSE /\ store' = EmptyStore /\ gen' = 0 /\ nextGen' = 1
  /\ waits' = {} /\ suppressed' = {} /\ deliveringNow' = {} /\ provisional' = {}
  /\ watched' = FALSE
  /\ claim' = Free /\ saved' = EmptyStore /\ draft' = EmptyStore
  /\ disp' = [r \in Requests |-> IF disp[r] \in {"new", "closed"} THEN disp[r] ELSE "gone"]
  /\ due' = {} /\ inflight' = {} /\ recon' = "start" /\ scan' = NoScan
  /\ rel' = "idle" /\ relRows' = [t \in Turns |-> {}] /\ flush' = {} /\ late' = {}
  /\ told' = [r \in Requests |-> {}]
  /\ UNCHANGED <<disk, rows, wants, receipt, got, everTold>>

-----------------------------------------------------------------------------
DispatchNext ==
  \E r \in Requests :
    \/ \E p \in Parents, n \in Notifies, w \in Waiting : AcceptWrite(r, p, n, w)
    \/ AcceptCommit(r) \/ AcceptRollback(r)
    \/ \E t \in Turns : SubmitStarted(r, t) \/ SubmitInjected(r, t) \/ SubmitQueued(r, t)
    \/ SubmitFail(r) \/ Bind(r) \/ Cancel(r)
    \/ WaitClaimLapses(r) \/ WaiterReleases(r) \/ WaiterReads(r)

VendorNext ==
  \E t \in Turns :
    \/ HumanTurn(t) \/ OpenParked(t) \/ OpenContinuation(t)
    \/ Narrate(t) \/ FailTurn(t)
    \/ \E h \in Holds : EndTurn(t, h) \/ EndTurnReleased(t, h) \/ EndTurnUnrecorded(t, h)

DeliverNext ==
  \/ PulseIgnored \/ PulseOpened \/ PulseHeld \/ PulseSettled
  \/ \E d \in provisional : GraceExpires(d)
  \/ \E d \in due : PlanNothing(d) \/ Plan(d) \/ PlanAbandoned(d)
  \/ \E d \in inflight : \/ \E p \in Parents : NotifyParent(d, p) \/ ParentUnreachable(d, p)
                         \/ Commit(d)

LifeNext ==
  \/ ReconcileScan \/ ReconcileSeed
  \/ ReleasePick \/ ReleaseFence \/ ReleaseClear \/ ReleaseRead \/ ReleaseSettle
  \/ EvictInPlace
  \/ Stop \/ StopDetached \/ \E s \in flush : FlushSettlement(s)
  \/ Crash

LateNext ==
  \/ \E r \in Requests :
       \/ \E p \in Parents, n \in Notifies : AcceptOutlives(r, p, n)
       \/ RollbackOutlives(r) \/ SubmitFailOutlives(r) \/ BindOutlives(r)
  \/ \E w \in late : LateLands(w)

Next == DispatchNext \/ VendorNext \/ DeliverNext \/ LifeNext \/ LateNext

Spec == Init /\ [][Next]_vars

-----------------------------------------------------------------------------
(* Types.                                                                  *)

Actor == {"notifier", "grace", "release"}

Pulse == [kind : {"opened", "signal"}, turn : Turns, from : Turns \union {NoTurn},
          row : Row, covered : SUBSET Row, hold : {"settled", "pending", "replay"}]

DueBoundary == [by : Actor, turn : Turns, row : Row, covered : SUBSET Row]

Delivery == [by : Actor, turn : Turns, row : Row, covered : SUBSET Row, gen : Nat,
             resolved : SUBSET Requests, pushed : SUBSET Requests, dropped : SUBSET Requests,
             carry : [Parents -> SUBSET Requests]]

Phase == {"new", "writing", "accepted", "started", "injected", "queued", "waiting", "reading",
          "closed", "gone"}

TypeOK ==
  /\ disk \in Store /\ saved \in Store /\ draft \in Store /\ store \in Store
  /\ rows \in [Turns -> SUBSET Row] /\ relRows \in [Turns -> SUBSET Row]
  /\ edge \in [Turns -> Turns \union {NoTurn}]
  /\ root \in [Turns -> Turns]
  /\ turnState \in [Turns -> {"unused", "parked", "running", "flushed", "ended", "dead"}]
  /\ hold \in [Turns -> {"settled", "pending", "replay"}]
  /\ lastTurn \in Turns \union {NoTurn}
  /\ live \in BOOLEAN /\ resident \in BOOLEAN /\ watched \in BOOLEAN
  /\ pulses \in Seq(Pulse)
  /\ gen \in Nat /\ nextGen \in Nat
  /\ waits \subseteq Requests /\ suppressed \subseteq Requests /\ wants \subseteq Requests
  /\ deliveringNow \subseteq Key /\ provisional \subseteq DueBoundary
  /\ claim \in Requests \union {Free}
  /\ disp \in [Requests -> Phase]
  /\ receipt \in [Requests -> Turns \union {NoTurn}]
  /\ got \in [Requests -> {"nothing", "pending", "answer", "empty"}]
  /\ due \subseteq DueBoundary /\ inflight \subseteq Delivery
  /\ recon \in {"start", "scanned", "done"}
  /\ scan \in [store : Store, owed : SUBSET DueBoundary]
  /\ rel \in {"idle", "picked", "fenced", "reading", "settling"}
  /\ flush \subseteq Store
  /\ late \subseteq [n : Nat, store : Store]
  /\ told \in [Requests -> SUBSET Key]
  /\ everTold \subseteq Requests
  /\ spent \in [DOMAIN Bound -> Nat]

-----------------------------------------------------------------------------
(* Safety.                                                                 *)

Answered(q) == q.state \in {"answered", "failed"}

\* "A lost completion is not acceptable" (DeliveringBoundary): a request reads
\* answered, in memory or on disk, only if its parent was told, it asked not to
\* be told (`notify: off`), or its dispatcher was waiting for the answer inline.
NoSilentAnswer ==
  \A s \in {disk, store} : \A r \in Requests :
    Answered(s.req[r]) =>
      IF s.req[r].notified THEN r \in everTold
      ELSE s.req[r].notify = "off" \/ r \in wants

\* Completion is matched by identity (issue #201): the turn that answered a
\* request is the one the adapter handed it to, or continues that one's work,
\* whatever was rebound, repaired from the transcript or read back from disk.
AnsweredByItsOwnWork ==
  \A s \in {disk, store} : \A r \in Requests :
    s.req[r].answered # NoTurn =>
      /\ receipt[r] # NoTurn
      /\ root[s.req[r].answered] = root[receipt[r]]

\* The two phases of a delivery: a boundary in the dedup set is not owed too.
NeverSpentAndOwed ==
  \A s \in {disk, store} : \A k \in s.delivering : FinalMark(k) \notin Elems(s.notified)

\* `delivering_now`: the notifier, a grace timer and a release may all hold one
\* boundary, but only one of them is delivering it.
OneDeliveryPerBoundary ==
  \A d \in inflight :
    /\ KeyOf(d) \in deliveringNow
    /\ \A e \in inflight : KeyOf(e) = KeyOf(d) => e = d

\* The dedup set and `delivering_now` together: a notification about to be sent
\* was not sent under the same key before in this life of the daemon.
NotToldTwiceOfAKey ==
  \A d \in inflight : \A p \in Parents : \A r \in d.carry[p] : KeyOf(d) \notin told[r]

\* A write that outlived its call has landed, or was overtaken: the file may
\* have been put back to what a dropped call had read.  This is the exception
\* that whatever is promised of the file has.
LateLanded == \E n \in 0..(spent["outlive"] - 1) : \A w \in late : w.n # n

\* Nobody is woken on a claim the disk does not remember: a crash anywhere in a
\* delivery leaves it owed, unless the late write of a dropped call erased it.
WokenOnDurableClaim ==
  \A d \in inflight : KeyOf(d) \in disk.delivering \/ LateLanded

\* A crash now loses no request the mirror still holds outstanding, unless the
\* late write of a dropped call put back a file without it.
OutstandingIsDurable == Outstanding(store) \subseteq Outstanding(disk) \/ LateLanded

\* The row of a request the adapter took leaves the file before it is settled.
Forgotten(r) ==
  /\ disk.req[r].state \in OpenState /\ receipt[r] # NoTurn
  /\ disk'.req[r].state = "absent"

UnreachableParent(r) == \E d \in inflight : r \in d.dropped

\* A request the adapter took is remembered until it is resolved: its row may
\* only leave the file because its parent turned out to be unreachable, or by
\* the late write of a dropped call.
TakenIsNotForgotten ==
  [][\A r \in Requests : Forgotten(r) => UnreachableParent(r) \/ LateLanded']_vars

\* What Bind takes for granted: the dispatch that holds the claim finds the row
\* it accepted.
BindFindsItsRow ==
  \A r \in Requests : disp[r] \in {"accepted", "started", "injected", "queued"} =>
                        resident /\ store.req[r].state # "absent"

\* release_request_wait, one half of "exactly one of the two": a waiter that
\* came back without an answer is not the one the answer was kept for.
NotNeither ==
  \A r \in Requests :
    /\ got[r] = "pending" /\ Answered(store.req[r]) /\ store.req[r].notify # "off"
    => r \in everTold

\* A boundary the vendor will wake itself out of resolves nobody while the
\* process that holds it open lives.
HeldBoundaryWaits ==
  \A r \in Requests : \A k \in told[r] :
    hold[k.turn] = "pending" => spent["crash"] + spent["release"] > 0

\* Once the disk says a request was answered it never says anything else of it,
\* until the late write of a dropped call lands; the row may only age out.
DurableAnswerStays ==
  [][\A r \in Requests :
       Answered(disk.req[r]) =>
         \/ disk'.req[r].state = "absent"
         \/ LateLanded'
         \/ /\ disk'.req[r].state = disk.req[r].state
            /\ disk'.req[r].answered = disk.req[r].answered]_vars

-----------------------------------------------------------------------------
(* Why NoSilentAnswer holds: what every copy of the store, and every       *)
(* delivery on its way, knows of the requests.                             *)

\* The file, the mirror, what an accept wrote and what its rollback would
\* restore, what a restart would seed, and the snapshots that detached stops and
\* dropped calls left to be written.
Copies == {disk, store, draft, saved, scan.store} \union flush \union {w.store : w \in late}

Present(q) == q.state # "absent"

\* A row names the parent to tell, and all copies of it the same notify mode; a
\* request nobody accepted is in no copy and in no delivery.
TermsKept ==
  /\ \A s \in Copies : \A r \in Requests : Present(s.req[r]) => s.req[r].parent \in Parents
  /\ \A s, u \in Copies : \A r \in Requests :
       Present(s.req[r]) /\ Present(u.req[r]) => s.req[r].notify = u.req[r].notify
  /\ \A r \in Requests : disp[r] = "new" =>
       /\ \A s \in Copies : ~Present(s.req[r])
       /\ \A d \in inflight : r \notin d.resolved
  /\ waits \subseteq wants

\* Whom a delivery pushes to is told, dropped or still to be told; whom it does
\* not push to asked for that or waits inline.
DeliveriesCarry ==
  \A d \in inflight : \A r \in d.resolved :
    IF r \in d.pushed
    THEN r \in everTold \/ r \in d.dropped \/ \E p \in Parents : r \in d.carry[p]
    ELSE r \in wants \/ \A s \in Copies : Present(s.req[r]) => s.req[r].notify = "off"

AccountedFor(q, r) ==
  Answered(q) => IF q.notified THEN r \in everTold ELSE q.notify = "off" \/ r \in wants

AnswersAccounted == \A s \in Copies : \A r \in Requests : AccountedFor(s.req[r], r)

\* The inductive strengthening of NoSilentAnswer: no copy of the store that may
\* become the file or the mirror again holds an answer nobody was told of.
AnswerLedger == TermsKept /\ DeliveriesCarry /\ AnswersAccounted

-----------------------------------------------------------------------------
(* The abstract specification, and what of the file and the deliveries      *)
(* stands for its variables.                                               *)

ContractStatus(r) ==
  LET q == disk.req[r]
  IN  CASE q.state = "absent"     -> IF disp[r] = "new" THEN "none"
                                     ELSE IF receipt[r] = NoTurn THEN "refused" ELSE "gone"
        [] q.state \in OpenState  -> IF receipt[r] = NoTurn THEN "open" ELSE "taken"
        [] Answered(q)            -> "answered"
        [] OTHER                  -> "stopped"

ContractQuiet ==
  wants \union {r \in Requests : Present(disk.req[r]) /\ disk.req[r].notify = "off"}

ContractLost == {r \in Requests : \E d \in inflight : r \in d.dropped}

Contract == INSTANCE CompletionContract WITH
  status <- [r \in Requests |-> ContractStatus(r)],
  told   <- everTold,
  quiet  <- ContractQuiet,
  lost   <- ContractLost

\* The refinement: whoever writes delegation.json - an accept, a bind, a
\* continuation, a commit, a stop, a repair after a crash - keeps the contract.
\* A failed commit breaks it (a request dropped with its parent unreachable is
\* written as dropped by a later, unrelated write), and so does the late write of
\* a detached stop's snapshot or of a dropped call.
KeepsContract == Contract!Spec

-----------------------------------------------------------------------------
(* What the repository's words say and the code does not do, or does only   *)
(* as long as some failure does not happen.                                *)

\* The claim over the file and its mirror "is what makes the file a projection of
\* the mirror rather than a race between two of them" (persist_delegation_store).
\* A call dropped in its write leaves the claim behind with the write: another
\* dispatch is accepted and bound, and then the first one's snapshot lands.
ClaimGuardsTheFile ==
  [][\A r \in Requests : Forgotten(r) => UnreachableParent(r)]_vars

\* "At-most-once within a life": a parent is told of one turn's end once,
NotToldTwiceOfATurn ==
  \A d \in inflight : \A p \in Parents : \A r \in d.carry[p] :
    d.turn \notin {k.turn : k \in told[r]}

\* ... and of one request once.
ToldOnceWithinALife == \A r \in Requests : Cardinality({k.turn : k \in told[r]}) <= 1

\* What is delivered as an answer is a turn that is over: with a stop in the
\* way or a replay grace running out, but not with a release or a restart, that
\* read the transcript while a new turn writes it.
AnswersComeFromEndedTurns == \A d \in inflight : d.turn \notin Running

\* The other half of "exactly one of the two".
NotBoth == \A r \in Requests : got[r] = "answer" => r \notin everTold

\* A wait renders "this request's own answer, or the delivery facts".
WaitIsNeverEmpty == \A r \in Requests : got[r] # "empty"

\* `interrupted` is a turn that was cut short, not one that completed.
InterruptedWasCut ==
  \A r \in Requests :
    store.req[r].state = "interrupted" =>
      LET t == store.req[r].turn
      IN  ~(t # NoTurn /\ turnState[t] = "ended" /\ "text" \in rows[t] /\ hold[t] = "settled")

\* A final reading is final.
FinalReadingStays ==
  [][\A r \in Requests :
       store.req[r].state \in {"interrupted", "undelivered"} /\ resident' =>
         store'.req[r].state \in {store.req[r].state, "absent"}]_vars

-----------------------------------------------------------------------------
(* Liveness.  The daemon's tasks keep running, and a turn that runs ends.  *)

DispatcherSteps ==
  \E r \in Requests :
    \/ AcceptCommit(r) \/ AcceptRollback(r) \/ SubmitFail(r) \/ Bind(r)
    \/ \E t \in Turns : SubmitStarted(r, t) \/ SubmitInjected(r, t) \/ SubmitQueued(r, t)
    \/ WaitClaimLapses(r) \/ WaiterReleases(r) \/ WaiterReads(r)

TurnsEnd == \E t \in Turns : FailTurn(t) \/ \E h \in Holds : EndTurn(t, h) \/ EndTurnReleased(t, h)

ResidencySteps ==
  ReleaseFence \/ ReleaseClear \/ ReleaseRead \/ ReleaseSettle \/ ReconcileScan \/ ReconcileSeed

FairSpec ==
  /\ Spec
  /\ WF_vars(DispatcherSteps)
  /\ WF_vars(TurnsEnd)
  /\ WF_vars(DeliverNext)
  /\ WF_vars(ResidencySteps)
  /\ WF_vars(\E s \in flush : FlushSettlement(s))

\* On disk the request waits for a turn that has a row and that nothing will
\* continue: the vendor does not hold it open, or its process is gone.
Owed(r) ==
  LET t == disk.req[r].turn
  IN  /\ disk.req[r].state \in OpenState
      /\ t # NoTurn /\ t \notin Running
      /\ rows[t] # {}
      /\ ~live \/ (turnState[t] = "ended" /\ hold[t] # "pending")

\* Every request still bound to a turn with a row on disk is answered by that
\* row in the end: after a settled boundary, a replay grace that ran out, a
\* release or a restart.
OwedIsDelivered == \A r \in Requests : Owed(r) ~> ~Owed(r)
=============================================================================
