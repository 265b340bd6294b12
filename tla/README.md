# A verification development for ccteam

ccteam is a daemon that runs coding agents as *sessions* and lets one session
(the *parent*) dispatch work to another (the *child*).  This directory holds
TLA+ models of that program, the TLC configurations that check them on small
instances, and theorems about them that TLAPS checks for every instance.

All paths below are relative to the repository; `gateway.rs` is
`crates/ccteam-im/src/gateway.rs`, `dispatch.rs` is
`crates/ccteam-im/src/mcp/dispatch.rs`, and `delegation.rs` is
`crates/ccteam-harness/src/execution/delegation.rs`.  File names without a
directory are named in the section that uses them.

Contents: 1 the system; 2 the plan; 3 what is modelled and how it corresponds to
the code; 4 runs, bounds and fairness; 5 what is proved; 6 disagreements between
the text of the repository and its code; 7 what is not modelled.

## 1. The system

### 1.1 Components

| component | state it keeps | operations | interacts with |
|---|---|---|---|
| **Delegation store** (`delegation.rs`) | per child: the request table, `notified_turns` (the dedup set), `delivering` (claims on a boundary), in `delegation.json` | accept, bind, rebind, prune, begin / finish / abandon a delivery | written by the gateway under the child's store claim |
| **Delegation lifecycle** (`gateway.rs`) | the mirror of each store (`DelegationMirror`: store, wait claims, suppressed requests, `delivering_now`, provisional boundaries, generation), the watch set, the spawn/store claims | `accept_/bind_/drop_delegation_request_shared`, `rebind_continuation_requests_shared`, `deliver_delegation_signal_shared`, `settle_provisional_boundary`, `reconcile_delegations`, `settle_stranded_delegations_shared`, `settle_stopped_requests` | dispatch, event pumps, residency, stops, the parents' sessions |
| **`agent` tool** (`dispatch.rs`) | one future per call | resolve or spawn the child, accept, submit, bind, wait inline, render | gateway; cancelled when its client goes away |
| **Event pump** (`gateway.rs`, one task per live session) | the turn in flight, `last_exec_turn`, interim rows | append rows to `turns.jsonl`, send `DelegationPulse`s | adapters, the notifier channel |
| **Vendor adapters** (`execution/claude_stream_json`, `codex_app_server.rs`, `acp`, `pi_rpc`, `grok_acp`) | the vendor process, turn ids, retained input (Claude) | submit, steer, interrupt, close; park and replay lines | the vendor's process; durable queue file |
| **Residency** (`gateway.rs`) | live sessions, idle clocks | idle release, capacity eviction (two flavours), fence-out | adapters, the delegation lifecycle |
| **Retained input** (`claude_stream_json/mod.rs`, `translate.rs`, `transport.rs`) | `active_turn`, the queue of parked lines and its mirror `deferred-input.json`, the turn ids shared by two readers of one stream | submit, park, batch, write at a boundary, put back, replay after a restart | the vendor's stdin and stdout; the receipts the lifecycle relies on |
| **Pending turns** (`pending_turns.rs`) | a FIFO of submissions whose turn has not resolved | enqueue, resolve, drop | event pump, routing |
| **Session metadata, bodies, recovery** (`session_meta.rs`, `session_body.rs`, `session_recovery.rs`) | `meta.json`, recorded processes | create, adopt, refuse, retire | restart |
| **Journals and mirrors** (`journal.rs`, `turns_mirror.rs`, `fs_atomic.rs`) | append-only files | append, tail, atomic replace | everybody |
| **Remote hosts** (`hub.rs`, `remote_host.rs`, `host_channel.rs`, `satellite_exec.rs`) | connections, requests in flight | connect, call, answer, reconnect | adapters on other machines |
| **Flow engine** (`ccteam-flow`) | a run's journal, run slots and vendor pools, brakes, the sessions to stop | issue, admit, hire, await, retry, release, kill, resume | the `agent` tool and its idempotency cache |
| **Choices and approvals** (`hitl.rs`, `pending.rs`, `plan_approval.rs`, the adapters' askers) | prompts that can be answered, a oneshot each | ask, click, type, expire, withdraw, cancel | chat, sessions |
| **Scheduled work** (`scheduled.rs`, `cron.rs`) | due items | add, fire, cancel | gateway |
| **Supervision** (`supervise.rs`, `watchdog.rs`, `stall.rs`) | silence clocks | contain a panic, restart, warn | tasks of the daemon |
| **Budgets** (`ccteam-cost`) | ledgers, price tables | charge, compare | gateway |
| **Access** (`acl.rs`, `principals.rs`, `policy.rs`, `rate_limit.rs`, `enroll.rs`) | configuration | decide | every front end |
| **Front ends** (`router.rs`, `ccteam-web`, `ccteam-cli`, hooks, browser UI) | projections, an event ring | render, stream, forward | gateway |

### 1.2 The behaviours that are hard

**Delegation** is where the program's concurrency and failures meet,
and where its documentation makes its strongest promises ("a duplicate after a
crash is acceptable, a lost completion is not", `delegation.rs:335`):

* three locks with an order (store claim, gateway lock, completion fence) and a
  number of paths that must not take one of them, so that reads go stale;
* one file per child and a mirror of it, each written by seven paths;
* a boundary (the end of a turn) may be in the hands of the notifier, of a
  replay-grace timer and of a residency release at once, and the parent is woken
  with no lock held;
* the vendor may wake itself and *continue* work whose boundary was already
  seen, which moves requests from one turn to another, while the record of the
  move is behind the transcript;
* a call may be cancelled at any await, also at one of a write, which then goes on
  without the claim it was made under; the daemon may die between any two writes, and
  a child may be released, evicted or stopped at any time.

**Retained input.** The tap that writes parked lines and the translator that
reports turns read the same output independently, while submissions swap flags
between them, a write to the child may fail after its line left the queue, and the
mirror may be behind the queue when daemon or child dies.

**Flow.** A call holds up to two permits and a reservation over many awaits and has
a dozen exits that must give each back once.  A run may be killed between hiring a
worker and journalling it, and a resumed run meets calls in another order.

**Remote hosts.** A new connection registers while the one it replaces says
goodbye; a nonce may be claimed, time out and be abandoned at once; the satellite
moves bytes in both directions in one loop that blocks on one of them.

**Choices.** The click, the prompt's expiry, the adapter's timer, the vendor's own
timer, the death of the process and a stop of the session race for one oneshot, with
an adapter that blocks on it and a broadcast that drops what it is too slow for.

PROJECT.json lists these as hazards, each at the line where it bites, with the
properties that would catch it.

### 1.3 What makes each component correct

* store: pruning forgets no outstanding request; a boundary is never both spent
  and owed;
* lifecycle: an answered request means a parent that was told (or asked not to
  be, or waits); one delivery per boundary; an answer is delivered to the request
  that asked for that work; a crash loses nothing that was accepted; whatever has
  a row is delivered in the end;
* dispatch: accept, submit and bind of one call are not interleaved with those
  of another; a waiter and its parent's notification are exclusive;
* retained input: what is queued is on disk until it is handed over, goes out in
  order, is repeated only with a mark that says so, and never waits behind nothing;
  a turn is reported under the id of the line it ran;
* pending turns: submissions resolve in order; none is resolved twice;
* remote hosts: the registered connection is one that is served; a call returns and
  leaves no nonce behind; the two ends of a remote process end together;
* flow: no exit leaks or double-frees a slot, no life hires past its brake, a resumed
  run is served its own answers and hires nobody twice, the run ends and leaves
  nobody running;
* choices: a prompt that can be answered has somebody to take the answer; the vendor
  is told what the person chose for that question; no question hangs for ever;
* scheduled work: one firing per due time.

## 2. The plan

Ordered by how much depends on a part and how little a test can say of it.

1. `DelegationStore`, `Delegation`: the delegation lifecycle of one child.  *Done.*
2. `CompletionContract`: what the lifecycle promises, without its machinery;
   `Delegation` implements it.  *Done*, model-checked and proved.
3. `RetainedInput`: the Claude adapter's queue.  *Done.*
4. `FlowRun`: scheduler, journal, and the idempotency cache of the daemon that a
   killed run relies on (first planned as a module of its own).  *Done.*
5. `HostChannel`, and `ExecSession` which extends it: calls over a connection that
   drops and comes back, and the process behind a dial-back.  *Done.*
6. `Choices`: a question answered by a click, a text or its expiry.  *Done.*
7. `PendingTurns`, `SessionBodies`: the FIFO, the detached bodies and what a restart
   adopts.  Left: next.
8. The event ring of the web server; `Scheduled`: a due item fired across restarts.
   Left.

Every safety and action property of a passing run has its theorem (section 5).  Still
worth proving: `DurableAnswerStays` with two deliveries of one request under way, for
stops instead of answers (section 6 has what breaks it today); what the contract keeps
when writes fail, which needs a weaker contract first; the same for the modules of steps
7 and 8 when they are there.

## 3. The modules

### 3.1 `DelegationStore`

Constants and pure operators for `DelegationRequests`.  A store is a record
`[req, notified, delivering]`.  Request ids are numbers ascending in acceptance
order, so the vector's order is the order of the ids and `req` can be a function;
an id not in the vector is `Absent`.  `notified` is the sequence it is in the
code, because its truncation to the newest `NOTIFIED_TURN_HISTORY` marks matters.
The two families of dedup keys (`<row>#final` for a boundary, the plain row id
for every row it covered) are the field `final` of a mark.

| operator | code |
|---|---|
| `Accept`, `Prune` | `accept`, `prune`: append, then forget the oldest resolved |
| `RebindContinuation` | `rebind_continuation` |
| `RecordNotified`, `RecordCovered` | `record_notified`, and the loop over `covered_turns` at a commit |
| `BeginDelivery`, `AbandonDelivery`, `FinishDelivery` | the three phases of a claim on a boundary |
| `Durable` | what a write leaves in the file: everything but `bind_error`, which is not serialised |

### 3.2 `Delegation`

The life of the requests dispatched to one child.  Children share no state that
this part of the code branches on (the store, mirror entry, claim and file are
per child), so one child is the whole of it.

**State.** `disk` is `delegation.json`, `rows` and `edge` are `turns.jsonl` (the
rows of each turn, and the turn a vendor continuation says it continues).
`turnState`, `hold`, `lastTurn`, `live` are the vendor and its pump; `pulses` is
the unbounded channel to the notifier; `resident`, `store`, `gen`, `waits`,
`suppressed`, `deliveringNow`, `provisional` are the `DelegationMirror` and
`watched` its place in the watch set; `claim`, `saved`, `disp`, `wants`, `receipt`,
`got` are the dispatchers; `due` are boundaries a task is about to plan,
`inflight` the ones it has planned and not committed; `recon`, `scan`, `rel`,
`relRows`, `flush` are the restart reconcile, a release, and the writes detached
stops left behind; `late` are the writes that outlived their calls.  `saved` and
`draft` are locals of the accept: what it read, and what it wrote and will put in
the mirror.  `told`, `everTold`, `root` and `spent` are history: no guard
reads the first three.

**Atomicity.** A step is what the code does under one hold of the child's store
claim, or, on paths that do not take the claim, of the gateway lock.  The
dispatcher holds the claim over several steps (`AcceptWrite` to `Bind`), since
others that do not need the claim run in between.  Everything else that takes the
claim does so from mutation to write, so it is one step; its write may fail, which
is a `fault`.  A crash between mutation and write is then a fault followed by a
crash.  Writes are atomic because the file is replaced by a rename.

One thing breaks the hold.  `delegation_store_io::write` hands the write to the
blocking pool and awaits it (`gateway.rs:1198`), and the claim is a value of the
future that awaits.  When the client of an `agent` call goes away, that future is
dropped: the claim is free at once, and the write lands later, over whatever the next
holders have written.  `AcceptOutlives`, `RollbackOutlives`, `SubmitFailOutlives` and
`BindOutlives` are the four writes of a call that may be left so (the removal of an
emptied file is a write of an empty store); `LateLands` is the end of one, at any time,
unless the daemon died first.  A late write that lands between the read and the write
of a later accept is overwritten, which is why `AcceptWrite` may discard some.  The
notifier, the grace timers, the idle release and the reconcile are tasks of the daemon
and not dropped, and `stop_session_shared` runs its stop on a task of its own for this
very reason (`gateway.rs:18207`).  A release for capacity runs inside the call that
needs the room (`gateway.rs:15171`): one dropped between its fence and its settlement
leaves what `EvictInPlace` leaves; one dropped in its deliveries is not modelled.

**Actions.**

| actor | actions | code |
|---|---|---|
| dispatcher | `AcceptWrite`, `AcceptCommit`, `AcceptRollback` | `accept_delegation_request_shared`: read, append, write off the lock; then install in the mirror, or put back what was on disk |
| | `SubmitStarted`, `SubmitInjected`, `SubmitQueued`, `SubmitFail` | the adapter's receipt in `dispatch_task`, or `drop_delegation_request_shared` |
| | `Bind` | `bind_delegation_request_shared` |
| | `Cancel` | the future of the call is dropped at an await, with no write under way |
| | `AcceptOutlives`, `RollbackOutlives`, `SubmitFailOutlives`, `BindOutlives`, `LateLands` | ... or in one of its writes, which lands later |
| waiter | `WaitClaimLapses`, `WaiterReleases`, `WaiterReads` | `claim_request_wait`, `release_request_wait`, `finish_dispatch_wait` |
| pump | `HumanTurn`, `OpenParked`, `OpenContinuation` | `TurnStarted` with its three openings |
| | `Narrate`, `EndTurn`, `EndTurnReleased`, `FailTurn`, `EndTurnUnrecorded` | rows and pulses of a turn on its way and at its end |
| notifier | `PulseIgnored`, `PulseOpened`, `PulseHeld`, `PulseSettled` | `handle_delegation_pulse` |
| grace timer | `GraceExpires` | `settle_provisional_boundary` |
| delivery | `PlanNothing`, `Plan`, `PlanAbandoned`, `NotifyParent`, `ParentUnreachable`, `Commit` | `deliver_delegation_signal_shared` |
| residency | `ReleasePick`, `ReleaseFence`, `ReleaseClear`, `ReleaseRead`, `ReleaseSettle`, `EvictInPlace` | idle tick and capacity, `release_session_shared`, `settle_stranded_delegations_shared`; `ensure_live_capacity` |
| stops | `Stop`, `StopDetached`, `FlushSettlement` | `stop_session_shared`, `stop_session_detached`, `flush_settlement_detached` |
| life | `Crash`, `ReconcileScan`, `ReconcileSeed` | the daemon dies; `reconcile_delegations` |

**Abstractions.** A turn has at most one row of each kind: notes on its way
(several are one), its text, an error, the empty closing row.  A silent end that
settles (an empty row that the signal names and covers) is `EndTurn` too: no
property tells an empty text from another.  A parent is told in one step and is
reachable or not by choice.  Deadlines (of a wait, of the replay grace) may pass at
any time, except that a waiter's own never passes before that of its claim, which
started earlier and lasts as long.

**Mutants.** Definitions introduced by a comment `Mutant:` are not used by the
specification.  Each is a definition of the model changed by a plausible bug (a
dropped guard, an ignored result, a swapped limit) and makes a property of a run
fail, which shows that the property depends on that line of the code.

### 3.3 `CompletionContract`

What the `agent` tool promises, with no boundary, mirror, claim or file in it: a
request is `open`, then `taken` by the vendor, then `answered` or `stopped`, then
forgotten; an answer is recorded only when the parent was told, asked not to be, or
waits inline; telling may be repeated.  A request the adapter never had may be
`refused`, or settled and forgotten, instead.  It is translated from the comments and
return values of `delegation.rs` (from line 335) that state the contract.
`Delegation!KeepsContract` is the refinement: `status` is read off `delegation.json`
alone, so that a crash at any point is a stutter of the abstract specification.  It is
the strongest single statement about the lifecycle here.

Two of its actions say what is taken back, because the code does take it back.
`Recall`: an accept that prunes settled requests and is then rolled back puts the old
file back, with the requests it had pushed out.  `Return`: a restart may scan the
file while a dispatch is in hand that is refused afterwards, and its seed then brings the
refused request back into the mirror, from where the next write saves it.  `Recall` needs
two requests, `Return` one and a crash; the run that checks the refinement (`Chain`)
has one request, three turns and a crash, the proof has any number.  What the vendor
took is never taken back.

Three kinds of failure break it, and are left out of that run and assumed away by the
theorem: with a failed write, a request whose parent was unreachable is dropped in the
mirror only, and recorded as dropped by some later, unrelated write; the late snapshot of
a detached stop, or of a call dropped in its write, erases requests that were on record.

### 3.4 `RetainedInput`

The lines submitted to one Claude session: `submit_turn_routed`, the slash path and
`persist_deferred_input` in `claude_stream_json/mod.rs`, and the turn identity in
`translate.rs`.  Here `mod.rs` is that file.

**State.** `active` is `active_turn`; `queue` and `disk` are `deferred_input` and
its mirror; `pending`, `current`, `replay` are the fields of `TurnIdentity`, which
both readers of the child's output use; `writing` is the line the status tap took off
the queue and has not yet written; `tapIn` and `eventsIn` are what tap and translator
have not read of the one broadcast; `rows` are the turns reported.  `stdin`, `heard`,
`busy`, `prompt` are the vendor's process: external, modelled from what the adapter
expects of it (it may run a line it read during a turn as part of that turn, or as a
turn of its own afterwards).

| actor | actions | code |
|---|---|---|
| submit calls | `ParkIdle`, `Park`, `Claim`, `Send`, `SendFails` | park behind a turn (mirror first, roll back if it fails), or swap `active_turn`, claim the identity, write |
| status tap | `Retire`, `Advance`, `AdvanceRefused`, `TapWrites`, `PutBack` | a `result`: drop the line in flight, take the next (`Batches` merges notifications), write it, put it back if the child refuses |
| translator | `TurnText`, `TurnResult`, `StreamCloses` | adopt a reserved id, or mint one; report the turn; report it failed at the end of the stream |
| vendor | `ReadsLine`, `Rereads`, `WakesItself`, `HearsLine`, `Ends`, `ChildDies` | external |
| life | `DaemonDies`, `Restart` | the session is let go; `Loaded` reads the mirror, drops what a row answers, marks what may be a repetition |

A line stands for its text and for the id minted for it.  Its submission is two steps
because the future is at an await between swapping the flag and writing.  Results are
counted, not named, as in the code: a `result` carries no id.

`crossed` is a history variable: it becomes true when two turns meet (a line written
while another turn is under way or unread, the vendor opening a turn by itself, an
identity claimed twice).  The code is built on that not happening to *queued* lines
and says so in part; `QueuedIsKept` and `OwnIdentity` assume it, the other properties
do not, and the run `VRetained` shows what happens otherwise.

### 3.5 `FlowRun`

One run of a dynamic workflow: `journal.rs`, `scheduler.rs`, `run.rs` and
`mcp_client.rs` of `crates/ccteam-flow`, and the idempotency cache of the `agent` tool
at the daemon (`spawn_idem` in `dispatch.rs`), which is what a hire relies on after a
kill.

**State.** `pc` is where each `agent()` call of the script is; `admitted`, `pending`,
`runFree`, `poolFree`, `limited`, `brake`, `cost`, `late`, `paused` are the scheduler's
counters, semaphores, back-offs and brakes; `file`, `prior`, `usable` are
`journal.jsonl` and what a resumed run read of it; `sessions` and `idem` are the
daemon; `sid`, `tracked`, `node` the client, `warned` the sessions its log says it could
not stop.  `sessions` keeps who was hired, by which
call, at which place and in which life, so that properties may speak of all lives.

| actor | actions | code |
|---|---|---|
| the script | `IssueCached`, `IssueLive`, `IssueBraked`, `IssueOverAgents`, `IssueQueueFull`, `IssueQueuedOver`, `IssueQueued` | the journal's answer, re-attachment to a worker in flight, or `admit` with its early returns |
| admission | `PassGate`, `TakeRunSlot`, `TakeNoPoolSlot`, `TakePoolSlot`, `Admit`, `AdmitRefused` | the pause gate, the two semaphores, the second look at the brakes |
| hiring | `HireCreate`, `HireUnrecorded`, `HireRecord`, `HireReplay`, `HireReturns`, `HireResent`, `HireLimited`, `HireAgain`, `HireRefusal`, `HireFails` | `spawn_agent` with its idempotency key, the handler at the daemon in the steps between its awaits, the request the client sends again when its answer never gets back (`call_tool`), rate-limit back-off, attempts |
| the answer | `OutcomeArrives`, `AwaitFails`, `SchemaRetry`, `Stops`, `Release` | `await_outcome`, the retry of a schema mismatch, the journal's line, the stop of the worker, which may fail, the permits |
| the run | `EndRun`, `WallClockPasses`, `Pause`, `Unpause`, `Kill`, `Resume` | `finish_journal` and the stop of `Runner::sessions`; brakes; a new process on the same journal |
| the daemon | `WorkerEnds`, `BackoffPasses`, `Forget` | turns end; the idempotency entry ages out |

The engine is one task that polls the script, so everything between two awaits is one
step.  Faults are the set `Faults`, each bounded by `Bound`: a kill, a dropped handler,
an answer lost on its way, an aged-out key, a failed append, a rate limit, a refusal, a
failed stop, the wall clock, a pause.
A call stands for its content (the journal compares a hash of it), a cost is one unit
per answer.

### 3.6 `HostChannel` and `ExecSession`

One satellite host: `HostChannelHub` in `host_channel.rs`, the WebSocket handlers in
the web server (`crates/ccteam-web`), and the satellite's client.  `ExecSession`
EXTENDS it with what happens on a dial-back once it is paired: `remote_exec.rs` and the
pump on the daemon's side, `run_exec_session` in `satellite_exec.rs` on the other, and
the vendor process with its two pipes (external).  The two compose by joint steps: pairing a
link starts pump and session (`PairLink`), taking the bridge is how the call returns
(`TakeBridge`); every other step belongs to one of them.

| actor | actions | code |
|---|---|---|
| satellite | `Dial`, `HandleControlFrame`, `SatelliteEnds`, `ProjectCreated`, `ClaimExec`, `UpgradeLost` | `run_control_channel`, the dial-back, project creation |
| handler of a connection | `MintGeneration`, `InsertHandle`, `KickReplaced`, `ForwardCtrl`, `CompleteProjectInit`, `HandlerBreaks`, `Unregister` | `run_host_channel`, `register` (three separate holds of locks) and `unregister` with its generation check |
| call | `Open`, `Send`, `SendFails`, `Answered`, `GivesUp`, `Left`, `Pair` | `open_exec`, `request_project_init`; a dropped future; `claim` of a nonce and the slot it fills |
| daemon's end of a link | `Started`, `ConnectFails`, `WriteLine`, `ReadEnd`, `LetGo`, `PumpMirrorsClose`, `PumpBreaks` | `connect`, the bridge, `pump_exec_dialback` |
| session | `ReadSpec`, `NoSpec`, `TakeLine`, `FeedChild`, `HalfClose`, `PumpOutput`, `EngineBreaks`, `StdoutEnds`, `Reaped`, `EndSession` | `run_exec_session`: one `select!` loop, writes to the child in the arm that took the line, and a wait for the child's exit in the arm that read the end of its stdout |
| child | `ChildReads`, `ChildWrites`, `ChildClosesStdout`, `ChildExits` | external: reads, answers, closes its stdout and lives on, exits |
| network | `Cut`, `Sever` | a link falls silent and tells neither end |

Bytes are counted in units of what a pipe holds, since what matters is whether a write
to the child can block while its own output is not being read.

### 3.7 `Choices`

Questions an agent puts to a person: `hitl.rs` and `pending.rs` of `ccteam-im`, with
the dispatcher of the Claude adapter, the pump of the Pi adapter, and the RPC of hooks.
Each session is of one of these three, chosen initially.

| actor | actions | code |
|---|---|---|
| vendor | `Asked`, `Streams`, `VendorGivesUp`, `Dies` | a `can_use_tool` line or a dialog, other lines, Pi's own timer, the end of the process |
| asker | `Receives`, `Context`, `Register`, `Selected`, `Unanswered`, `TakesBack`, `OuterTimeout`, `SeesTheEnd`, `Cancels`, `Replies`, `PumpEnds` | the broadcast's reader; `ask_external_choice` from the session's context to the reply; the Pi adapter's timer around it |
| time | `Expires` | `expires_at` of a prompt |
| person | `Click`, `Text`, `BadOption` | `resolve`: take the prompt by token, `apply_pending`; a text message taken by a dialog |
| gateway | `Delivers`, `Stop`, `StopCancels`, `StopAborts`, `StopEnds` | the send after the registry was left; `drain_sid` and the close of the adapter's thread |

`hand` is the answer of a person between leaving the registry and the oneshot.
`feed` and `Buffer` are the broadcast, so that a slow asker may lag and lose a line.
`deserted` and `lost` record the two disagreements of section 6 that the properties
have to leave out: a Pi asker dropped by an outer timer or by the abort of its pump,
and a question that the broadcast dropped.

### 3.8 Proof modules

| module | proves |
|---|---|
| `DelegationStoreProofs` | lemmas on the operators of the store |
| `DelegationProofs` | of `Delegation`: types, the store claim, whose work answers a request, what is over when it is delivered |
| `DeliveryProofs`, which extends it | dedup set and claims, one delivery per boundary, file and mirror, no key told twice |
| `AnswerProofs`, which extends that | no silent answer, waiters, the refinement of `CompletionContract`, answers on disk |
| `FlowRunProofs` | counters and brakes, journal, idempotency keys, the end of a run |
| `RetainedInputProofs` | types, order, repetitions, identities, what is kept |
| `HostChannelProofs` | `HostChannel` and its composition with `ExecSession` |
| `ChoicesProofs` | prompts and verdicts |

## 4. Runs

`MCDelegation`, `MCFlowRun`, `MCRetainedInput`, `MCExecSession` and `MCChoices` name
the small sets and functions the configurations use; every other constant is in the
`.cfg`.

| run | instance | what it asks |
|---|---|---|
| `Dispatch` | 2 requests, 2 parents, 2 turns, held boundaries, a release racing the notifier, a cancelled call, history limits 1 | Does the claim keep the accept, submit and bind of two calls apart (`BindFindsItsRow`)?  Is anybody told at a boundary the vendor holds open (`HeldBoundaryWaits`)?  Is a boundary delivered by one actor at a time (`OneDeliveryPerBoundary`), and no key told twice even when its mark has aged out (`NotToldTwiceOfAKey`)?  Does a limit forget what the adapter took (`TakenIsNotForgotten`)? |
| `Faults` | 2 requests; one failed write, stop, eviction and call dropped in its write | Until the late write lands: is what the mirror holds outstanding on disk (`OutstandingIsDurable`), is a parent woken only on a durable claim (`WokenOnDurableClaim`), is a durable answer final (`DurableAnswerStays`)?  `TypeOK`. |
| `Chain` | 1 request, 3 turns, a crash | Is a request answered by its own chain of continuations, through rebinding and repair (`AnsweredByItsOwnWork`)?  Is a boundary ever both spent and owed (`NeverSpentAndOwed`)?  Does whoever writes the file keep the abstract contract (`KeepsContract`)? |
| `Stops` | 1 request; both kinds of stop, a late settlement, a cancelled waiter, a call dropped in its write, replay holds, `notify: off` | Is an answer ever recorded that nobody was told of (`NoSilentAnswer`)?  Does a waiter ever come back without the answer that was kept for it (`NotNeither`)?  Is one ever taken from a turn that still runs (`AnswersComeFromEndedTurns`)? |
| `Recovery` | fair; a crash, a release, every boundary held for a replay | Is what is owed delivered in the end (`OwedIsDelivered`)? |
| `FlowFaults` | 3 calls in 2 chains over shared pools, a kill, one kind of fault at a time | Does every exit give back what it took (`CountersHonest`), is a brake ever passed (`AgentBrakeHolds`, `NoneSneaksPast`), does the journal spare the daemon what it has (`ServedByJournal`), is anybody left running (`NobodyLeftBehind`), does the run end (`RunEnds`)?  `TypeOK`. |
| `FlowResume` | 4 calls, two chains of two stages, killed twice | Is a call served somebody else's work when stages come in another order (`AnswersAreOwn`), or hired twice at one place (`NoSecondHire`)? |
| `Retained` | 3 lines, 2 lives, a failed mirror or a turn of the vendor's own | Is what is queued kept (`QueuedIsKept`), in order (`HandedInOrder`), repeated only as marked (`RepeatsAreMarked`), never repeated once answered (`AnsweredIsNotRepeated`), never behind nothing (`ParkedBehindSomething`), and reported under its own id (`OwnIdentity`)?  `TypeOK`. |
| `Hosts` | fair; 2 connections, an exec and a project creation, one fault | Is the registered connection one that is served (`PresenceIsServed`)?  Does a nonce outlive its call (`PendingIsAwaited`)?  Does every call return (`CallsReturn`), and do the two ends of a session end together (`EndsTogether`)?  `ExecTypeOK`. |
| `Choices` | fair; 2 questions of one session of any vendor, 2 answers of people | Has a prompt that can be answered an asker (`PromptHasItsAsker`)?  Is the vendor told what was chosen (`VerdictIsTheChoice`)?  Does a question hang (`AsksSettle`)? |
| `VRetained` | 3 lines of which the third is a task, 2 lives | Expected to fail: `NothingQueuedIsLost`, see section 6. |
| `VLate` | 2 requests, one call dropped in its write | Expected to fail: `ClaimGuardsTheFile`, see section 6. |

`CHECK_DEADLOCK FALSE` is set everywhere: each of these systems stops when its bounds
are used up and nothing is owed (a run has ended, a session is closed).  That nothing
stops *early* is what the liveness properties are for.

**Why the bounds are enough to be interesting.**

* *Delegation.*  Two requests are the least that can share a turn, follow one another
  in the FIFO, belong to two parents, or have one pruned by the other.  Two turns are
  the least for a line parked behind a running turn, a continuation, or a release
  that finds one boundary delivered and one not; `Chain` takes a third so that a
  human turn can come between, or a chain fork.  History limits of 1 make truncation
  happen at the second element; elsewhere the code's own 20 and 200 are used and
  nothing ages out.  One crash already covers every point of one delivery and the
  recovery from it.  Kinds of failure are spread over the runs rather than combined:
  each run has the failures its question is about.  Parents are symmetric in
  `Dispatch`; requests and turns are ordered, so they are not.
* *Flow.*  In `FlowFaults` every limit is one below what the calls want, so each call
  can wait at each gate and each brake can trip while another call waits behind it;
  `MaxKinds = 1` takes one kind of fault at a time (each at any point, once; a request
  sent again and a stop that fails are such kinds) besides the kill.  `FlowResume` has no limits in reach, because it asks about places in the
  journal: two chains whose second stages may be issued in either order are the least
  for a resumed run to meet its calls elsewhere, and two kills the least for a run that
  resumes what was already resumed.
* *Retained input.*  Three lines are the least for a notification behind a turn and
  a line behind both, hence for a batch, a put-back behind another line, and an order
  to violate.  Faults of the mirror and turns of the vendor's own are exclusive.
* *Hosts.*  A channel of one message fills at the second; a line of three units is
  longer than the pipe that takes one; a reply of two is too.  Generation inversion,
  a full channel, a wedged session and one that waits for a silent child are all
  reachable.  One fault is shared by both halves.
* *Choices.*  A buffer of two lines with two questions and one other line is the
  least that lags while the asker is blocked on the first question.

**Fairness.**

* `Delegation!FairSpec` adds weak fairness of what the runtime does schedule: the steps
  of a dispatch that has begun, deliveries (an unbounded channel drained by one
  supervised task, timers, spawned deliveries), the steps of a release or reconcile that
  has begun, and the background write of a settlement.  `TurnsEnd` is the one assumption
  about the vendor: a turn that runs ends, with a row, if the process lives.  Nothing
  is assumed of people (`HumanTurn`), of the vendor waking itself (`OpenContinuation`),
  of a new dispatch, or that a residency policy ever picks the child: a release that
  begins is finished (as the idle sweeper's is), no more.  `OwedIsDelivered` speaks of requests *on disk* bound to
  a turn with a row that nothing will continue.  A request whose turn never gets a row
  is not owed by this definition; the code has no mechanism for it but a release, a
  stop or a person.
* `FlowRun!Spec`: weak fairness of `Progress`, the steps of calls that can move, workers
  that end their turns, back-offs that pass, and a pause that somebody lifts.  No
  fairness of any fault, of the wall clock, or of a resume.  One condition for all
  of them suffices since the bounds leave no infinite behaviour in which one step
  repeats for ever.
* `ExecSession!ExecFairSpec`: weak fairness of `Runs`, the tasks of daemon and satellite
  with their timeouts, and a vendor process that goes on reading and writing.  That a
  satellite dials, a call is made or dropped, a line is written, a process exits or closes
  its stdout, or a link falls silent is not promised.
* `Choices!FairSpec`: tasks that can go on do, and time passes.  Nothing of people, of
  the vendor's own timer, or of a stop.

## 5. What is proved

Every theorem is for all values of the constants under the assumptions declared
with them: requests, turns, lines and calls are finite sets of positive numbers,
history limits, slots and brakes are positive, the bounds are natural numbers, and
functions among the constants have their types.  Some properties of `Delegation` are
lost with one kind of failure (section 6); their theorems say so in their statement,
by a condition on what has happened so far, and never by a bound set to zero:

| condition | of the behaviour so far | theorems |
|---|---|---|
| `NoneLanded` | no write has landed after its call was dropped (nor was one overtaken, or cut off by the end of the daemon) | `MirrorIsKept`, `AnswersAreKept`, `NeverNeither` |
| `NoneDetached` | no stop by a `&mut Gateway` caller settled the mirror without the store claim, leaving its snapshot to be written later, unmerged | `WakesOnDurableClaim`, and as a part of the rows below but `Calm` |
| `Undisturbed` | `NoneDetached` and `NoneLanded`: nothing was written behind the claim | `ClaimsAreDurable`, `DeliversOnce` |
| `Sound` | `NoneDetached`, every write of `delegation.json` landed, and no call was dropped in one | `TellsAKeyOnce`, `CopiesAgree`, `KeepsTheContract`, `TakenIsKept` |
| `Unbroken` | `NoneDetached`, and the daemon did not crash | `OutstandingStaysDurable` |
| `Calm` | neither a crash nor a release, so that nobody read a transcript a turn was writing | `AnswersAreOfEndedTurns` |
| `Apart` | no request is resolved by two deliveries in flight (with `NoneDetached`) | `AnswersStayOnDisk` |
| `NobodyElse` | no release, and no holds that are replayed (with `NoneDetached`) | `AnswersStayAlone`, where it implies `Apart` |

The properties of the file itself, `WokenOnDurableClaim`, `OutstandingIsDurable`,
`TakenIsNotForgotten` and `DurableAnswerStays`, say in their own text that they end when a
late write lands (`LateLanded`, the negation of `NoneLanded`): until then the writes still
under way for nobody are there, and the theorems about these properties are about them too.
In each case the other failures may happen at any time and any number of times; calls
dropped where they have no write under way are part of every one.

The proofs follow one pattern: one lemma per action (or per group of
actions of one actor) says that it preserves the invariant, resting on a few *frame*
lemmas that name what an action must leave alone for the invariant to survive; the last
steps are temporal.

### Delegation

* **`DelegationProofs!TypeCorrect`**: `Spec => []TypeOK`.  One lemma per action,
  resting on the typing lemmas of `DelegationStoreProofs`.

* **`ClaimSerialises`, `BindsItsRow`**: `Spec => []BindFindsItsRow`.  `ClaimInv` says
  that whoever is between its accept and its bind holds the store claim, and that its
  row is in what the accept wrote and, once committed, in the mirror.  Everyone else who
  removes a row from the mirror needs the claim; the two who change the mirror without
  it, a detached stop and the seeding of a reconcile, remove none.  Of the file this
  holds only until a late write lands, which is a lemma of its own
  (`ClaimKeepsTheFile`).

* **`WorkIsOwned`, `AnswersAreOfOwnWork`**: `Spec => []AnsweredByItsOwnWork`: whatever
  is rebound, repaired from the transcript, or put back from an old copy, a request is
  answered by the turn it was handed to or by one that continues that turn's work.
  `OwnInv` says it of every place a turn is named in: rows of every copy of the store,
  rows and signals of the transcript, and deliveries from their plan to their commit.

* **`EndsAreOver`, `HeldOpenWaits`, `AnswersAreOfEndedTurns`**: `Spec =>
  []HeldBoundaryWaits`, and `Spec => [](Calm => AnswersComeFromEndedTurns)`.  `EndedInv`
  follows a turn's end through the pulses, the list of what is due and the deliveries.

* **`DeliveryProofs!SpentOrOwed`**: `Spec => []NeverSpentAndOwed`.  The inductive
  invariant says it of every copy of the store; the interesting lemma is that
  recording a mark and truncating the history cannot bring back a mark, whatever
  the limit.

* **`ClaimsAreDurable`, `WakesOnDurableClaim`, `DeliversOnce`**: while `Undisturbed`, a
  parent is only woken on a claim the file remembers, and a boundary has one delivery at
  a time.  `WokenInv` says that the boundary of a delivery is claimed in three places
  at once, the mirror, the file, and what an accept under way would roll back to; each
  of the writers of the file copies one of them.

* **`FileKeepsUp`, `OutstandingStaysDurable`**: while `Unbroken`, and until a late write
  lands, what the mirror holds outstanding is outstanding in the file, and in what a
  rollback would restore.

* **`CarryIsExact`, `ToldIsAccounted`, `TellsAKeyOnce`**: while `Sound`, no parent is
  told twice of a boundary within a life of the daemon, *also when the mark of the
  boundary has aged out of the history*.  So the marks cannot be the reason.  `ToldInv`
  gives it: whoever was told is still resolved by the delivery that told, which is alone
  on its boundary, or is outstanding in no copy any more, so that no later delivery
  resolves it.

* **`AnswerProofs!LedgerInvariant`, `NeverSilent`**: `Spec => []AnswerLedger` and
  so `Spec => []NoSilentAnswer`: no request reads answered, in memory or on disk,
  unless its parent was told of it, it asked not to be told, or its dispatcher
  waits inline, whatever crashes, failed writes, stops and releases happen.
  `NoSilentAnswer` is not inductive: the file and the mirror may be replaced by
  what a dispatch would roll back to (`saved`), what a reconcile scanned (`scan`),
  or a snapshot a detached stop (`flush`) or a dropped call (`late`) left, and a commit acts on what its
  delivery carried.  `AnswerLedger` says of *all* copies that an answer in them is
  accounted for, that copies agree on the terms of a request, and that a delivery
  in flight will have told, dropped, or need not tell each request it resolves.
  Nearly every step only *weakens* some copy (a row disappears or keeps its terms
  and is not newly answered), so one frame lemma deals with them; the steps with an
  argument of their own are `AcceptWrite`, `Plan`, `NotifyParent`,
  `ParentUnreachable` and `Commit`.

* **`MirrorIsKept`, `AnswersAreKept`, `NeverNeither`**: `Spec => [](NoneLanded =>
  NotNeither)`: the waiter that comes back with nothing is not the one its answer was
  kept for.  (`Stops` finds no violation with one late write either, but the invariants
  below do not survive one.)  A
  suppression lives in memory beside the mirror, and a rollback or a last drop throws
  both away.  `RememberInv` says that this does not happen under a waiter, since
  the mirror remembers more than what the one in hand added; `QuietInv` that an
  answer nobody was told of is kept for its waiter, in every copy and every delivery.

* **`CopiesAgree`, `KeepsTheContract`, `TakenIsKept`**: `Spec /\ []Sound =>
  KeepsContract` and `... => TakenIsNotForgotten`: through the file, `Delegation`
  implements `CompletionContract`.  `AgreeInv` says that the copies that may be written
  do not contradict each other about a request (one may only have forgotten what is
  resolved); `ScanInv`, for the scan of a restart, which is a copy nobody locks,
  that a failing dispatch does not throw away the mirror for the scan to take its place
  while the scan holds open work.  With them every action is shown to be, of each
  request, one of the contract's steps or none.

* **`CopiesRepeatAnswers`, `AnswersStayOnDisk`, `NotifierIsAlone`, `AnswersStayAlone`**:
  an answer in the file stays what it is until its row ages out, if no two deliveries in
  flight resolve the same request and no late write lands.  `AnsInv` says that every copy
  but the late ones repeats the answer the file has, and that no delivery resolves what is
  answered.  The hypothesis is needed:
  section 6 has the behaviour in which a replayed hold and the continuation both deliver,
  and a release gives the same.  Where the notifier is the only one to deliver
  (`AloneInv`), the hypothesis is a theorem.

### Flow

* **`FlowRunProofs!SchedulerCountsHonest`**: `Spec => []CountersHonest`.  Every exit of
  `admit` and `dispatch` gives back what it took, for every script, every limit and
  any number of faults.  The inductive invariant `CountInv` adds only phases and that
  counters are integers: the equations are inductive as they stand.  A few lemmas say how the cardinality of the
  calls in a set of phases changes when one call moves, and one step per action cites
  them.

* **`FlowRunProofs!BrakeBoundsHires`**: `Spec => []AgentBrakeHolds`.  No life of a run
  hires more workers than its brake, but for one more each time a handler was dropped
  before its record or a key was forgotten: the client then sends the request again under
  the reservation it has, and the daemon does not know that it hired.  The brake is a
  comparison of a counter made long before the hire, and a call may hire several times,
  so `BrakeInv` counts in two parts: calls that have hired in this life (`Hirers`), which
  are all still counted among the admitted, and the workers beyond one per call
  (`Extra`), each of which one of those two faults paid for, since a key once recorded
  stays until it is forgotten (`KeysStay`).

* **`NoCallSneaksPast`**: `Spec => NoneSneaksPast`, an action property: once a limit is
  over no call that still waits starts.

* **`MemosServeTheirCall`**: `Spec => []AnswersAreOwn`.  `ServeInv` adds to `HireInv`
  that places are never more than the calls begun (`SeqInv`), that a call has a session
  from its hire to its release (`HeldInv`), and what each table may hold (`MemoInv`):
  about a call, no session or one hired for it.

* **`OneHirePerCall`**: `Spec => []NoSecondHire`, for any number of kills.  `OnceInv`:
  unless a key aged out of the daemon's table, or a handler was dropped before it
  recorded its own, each session that was given its task is the one recorded under its
  place and call.

* **`JournalServes`**: `Spec => []ServedByJournal`: a call reaches the daemon's hire
  only if some call at or before its place is not where the journal has it, also when
  its key has aged out.  The code keeps one flag for that, `usable`; `JournalInv` says
  what it remembers: with the flag down and calls issued, there is a place, and for each
  fresh call one no later than its own, where this life parted from the last
  (`PartInv`).  That rests on who can be first: only calls without predecessors
  (`ReadyInv`, `NumberInv`), in this life and in the journal (`LineInv`).

* **`NoWorkerLeft`**: `Spec => []NobodyLeftBehind`.  `LeftInv`: what a call answered
  with is a session of an earlier process, or one its release stopped, or one it logged
  that it could not.

* **`FlowTypes`**: `Spec => []TypeOK`.  The bound on the sessions, which is part of the
  type, is one worker for each call and life and one for each fault that lets a call
  hire again; it rests on `BrakeInv` and its counts.

### Retained input

* **`RetainedInputProofs!TypeCorrect`**: `Spec => []TypeOK`; the part with content is
  that what the tap has claimed and what the mirror records as in flight agree.

* **`RetainedInputProofs!NeverParkedBehindNothing`**: `Spec => []ParkedBehindSomething`.
  A line accepted behind a turn waits for something whose end the tap will see.  The
  strengthening `AwaitInv` adds that a set `active_turn` means something is under way,
  that a parked line of this life means it is set, and that what a line was asked in is
  not later than now.

* **`KeepsTheOrder`, `HandsOverInOrder`**: `Spec => []HandedInOrder`.  Queue and file
  are sorted by the order of acceptance, batches, lines put back and lines loaded by a
  later life included, and nothing they hold, or a restart would load, was overtaken
  (`OrderInv`; `AskedInv` says that each queued line was accepted once).

* **`MarksRepeats`**: `Spec => []RepeatsAreMarked`.  `MarkInv`: an entry shares no line
  with what was handed over, or is the same entry, of an earlier life, frozen and
  marked.

* **`AsksOnce`**: `Spec => []AnsweredIsNotRepeated`.  `PipedInv` says whose lines the
  pipes and the stream can hold in this life, `RowInv` that no task that waits has a row
  of its own id that ran it.

* **`ReportsItsOwn`**: `Spec => []OwnIdentity`.  `IdInv`, for as long as no two turns
  met (`crossed`): there is one turn, the events not yet read are of it, and the id the
  next row will get is that of a line in it.

* **`KeepsWhatIsQueued`**: `Spec => []QueuedIsKept`.  `KeptInv`, under the same
  condition: a line that is owed is in the file and, while the process lives, in the
  queue, and a line in flight that has not run is being written or in the pipe.
  `QueuedIsKept` has that condition itself; section 6 says what happens without it.

### Remote hosts and choices

* **`HostChannelProofs!PresenceServed`**: `Spec => []PresenceIsServed`, however many
  connections register and leave in whatever order.  `RegistryInv` adds that a
  connection is dialled once, that generations differ, and that what a registration
  replaced never comes back.  **`NoncesRemoved`**: `Spec => []PendingIsAwaited`.

* **`HostChannelProofs!SessionsKeepTheChannel`**: `ExecSpec => Spec`.  The composition
  implements the channel alone (each step of it is a step of the channel or leaves
  its variables), so the two theorems above hold of it; `SessionsKeepItsPromises` draws
  that conclusion, and **`SessionsTyped`** adds `ExecTypeOK`.

* **`ChoicesProofs!NoPromptWithoutAsker`, `ChoiceIsTold`**: `Spec =>
  []PromptHasItsAsker` and `Spec => []VerdictIsTheChoice`, for any sessions, questions,
  buffer and number of answers.  The inductive invariant has three parts: types;
  `FeedInv`, the broadcast holds a question at most once and only while it is queued,
  so that no question is asked twice; and `AskInv`, which follows an answer from the
  registry over the hand and the oneshot to the reply and the verdict, and says in
  each place that it is what was chosen for that question.

* The other theorems listed in PROJECT.json are the type correctness of each module.

**Only model-checked.**  Liveness (`OwedIsDelivered`, `RunEnds`, `CallsReturn`,
`EndsTogether`, `AsksSettle`): temporal properties under fairness are beyond the provers
used here.  Every other property of a passing run is stated by a theorem.

## 6. Where the text and the code disagree

Two runs check a property taken from a comment and find it violated; PROJECT.json quotes
the comments.

`VLate`: the write of `delegation.json` happens "inside the claim, which is what makes the
file a projection of the mirror rather than a race between two of them"
(`gateway.rs:16355`).  A call is dropped while its accept is being written: claim and call
are gone, the write is not.  A second call is accepted, its line taken by the vendor, and
then the first one's snapshot lands, in which the second request does not exist.  A crash
before the next write loses it; the next accept rebuilds the mirror from that file and
loses it without a crash.

`VRetained`: a line steered into a turn may be run by the vendor
as a turn of its own.  With a task parked behind both, the end of the first turn makes
the tap write the task; the vendor runs the steered line next, and *its* end is taken
for the end of the task, which leaves the mirror although the child has not read it.  If
the child dies then, the task is lost: "only leaves when the turn boundary that consumed
it arrives" is not what the code does, because a `result` does not say which turn it
ends.

The others met while modelling have no run of their own.  Where a property of the
models shows it, the line names it with the smallest change of bounds to a listed run
that makes TLC find it; the rest was read in the code.

**Delegation.**

| property | instance | what happens |
|---|---|---|
| `NotToldTwiceOfATurn` | `Dispatch` with `Endings = {"atEnd", "released"}` | A turn whose text went out before its end gets an empty closing row that its boundary neither names nor covers.  A later release sees a row nobody delivered and, if a request is still bound to the turn, delivers the turn again under another key. |
| `WaitIsNeverEmpty` | `Stops` | A suppressed waiter reads before the commit, or one whose child was stopped: the result says done and holds nothing. |
| `OutstandingIsDurable` | `Faults` with `MaxDetached = 1`, `MaxOutlives = 0` | A detached stop's snapshot, written late and not merged, erases a request accepted since. |
| `OwedIsDelivered` | `Recovery` with `MaxEvicts = 1` | An eviction in place settles nothing: a request on a held turn waits for a restart. |
| `ToldOnceWithinALife` | `Stops` | The replay grace runs out and its delivery is in flight when the continuation opens and rebinds the request: the parent is told of both turns in one life, and the second commit replaces the first answer (so `DurableAnswerStays` fails with replay holds). |
| `NotToldTwiceOfAKey` | `Dispatch` with `MaxFaults = 1` | The write of a commit fails, the next accept rebuilds the mirror from the file, and a release delivers the boundary again without a restart. |
| `AnswersComeFromEndedTurns` | `Dispatch` | A child resumed between the fence of a release and its settlement appends a note the settlement takes for an answer (`gateway.rs:16963` says the file is quiescent then). |
| `AnswersComeFromEndedTurns` | `Chain` | The same after a restart: parked lines and dispatches start turns while the reconcile scans. |
| `NotBoth` | `Stops` | The wait claim lapses first, the parent is notified, and the waiter then finds its request answered and returns the answer too. |
| `InterruptedWasCut` | `Faults` | A stop between a turn's end and its delivery marks the completed request interrupted. |
| `FinalReadingStays` | `Faults` | A commit overwrites the final reading a stop gave while the parents were being told. |
| `OutstandingIsDurable` | `Faults` with `MaxCrashes = 1`, `MaxOutlives = 0` | The reconcile seeds a request that was rolled back or dropped after its scan. |
| `OwedIsDelivered` | `Recovery` with 2 requests (`Requests2`) | An accept creates the mirror inside the reconcile window; the repaired bindings are dropped and the repaired signal resolves nobody. |

**Flow** (files of `crates/ccteam-flow`).

* `NothingDispatchedIsLost` under `FlowResume` with `Bound <- KilledOnce`:
  `docs/hook-dynamic-workflows.md:167` says that a crash costs nothing already dispatched.  A
  pipeline whose stages come back in another order finds another call at its place
  (`journal.rs:266`), and from the first difference on every journalled call is hired
  again.
* `scheduler.rs:173` says that a pause stops admitting new agents; the gate comes before
  the semaphores, so it holds nobody who already waits for one.
* `scheduler.rs:367`: the message counts queued reservations as agents that ran.
* `run.rs:238` says resident sessions must not be left behind.  A stop that fails is
  logged and its session forgotten (`run.rs:508`), which `NobodyLeftBehind` excepts.  A hire whose first task
  is refused, or whose answer is lost, leaves one nobody knows of; so does a kill between
  the journal's last line and the stops, a brake that refuses a call re-attached
  to a session, and every session of a life that was killed (`NobodyLeftBehind`
  speaks of this life's).
* A handler dropped between creating a session and recording its key hires twice
  (`NoSecondHire` excludes it, and a key that aged out of the daemon's table).  This does
  not take a kill: `mcp_client.rs:780` calls a hire "safe to retry", and `call_tool` sends
  it again in the same life; `dispatch.rs:2956` records the key only after the task was
  dispatched.  `RetriesReplay` is violated under `FlowFaults`, and the second worker is
  one the agent brake has not counted (`AgentBrakeHolds` excepts it).

**Retained input** (`mod.rs` as in 3.4).

* A direct turn that ends with a bare `result` is reported under the id of the line
  that follows it, so that a restart takes that task for answered.
* "Exactly once" (near `mod.rs:742`) is not kept by a detach or crash between the end
  of a turn and its row: the task is run again.
* A line replayed and in flight may be written back to `parked`; lines loaded as parked
  wait for the next message (`ParkedBehindSomething` speaks of this life's).
* A submission whose future is dropped after it set `active_turn` leaves the flag set.
* The tap skips what a lagging broadcast dropped, which may be a `result`.
* The gateway removes the file of pending turns before it submits them, and its shared
  submit path goes past the backlog.

**Remote hosts.**

* A session that writes a line to a child in an arm of its `select!` does not read the
  child's output meanwhile (`satellite_exec.rs`, near 297).  A child that does not read
  before its output is taken waits for ever, against `host_channel.rs:55` ("never a
  hang").  `EndsTogether` fails without its `Wedged` exception under `Hosts.cfg`.
* The session awaits the exit of a child whose stdout has ended inside the arm that read
  the end (`satellite_exec.rs:284`).  A child that closed it and lives on holds the
  session, which looks at no link, no close and no timer until the child exits.
  `EndsTogether` fails under `Hosts` without its `Unwatched` exception.
* `NewestConnectionWins` is violated under `Hosts`: `host_channel.rs:243` says "the newest
  connection always wins".  The generation is minted before the lock on the table is
  taken (line 248), and nothing compares it when a handle is inserted: a handler that
  accepted first and inserts last displaces the newer connection and has it told to leave
  (`Dial`, `MintGeneration` and `SatelliteEnds` of the first, all of the second, then the
  first's `InsertHandle`).  If the satellite has given up the older one, nobody serves the
  host until it dials again.  `PresenceIsServed` says only that who is registered has not
  been told to leave.
* A half-close is followed at once by the close of the link, so that a child never gets
  to finish after its input ended.
* `detach` of a remote session kills the child, against `docs/usage.md:575` ("let go, not
  killed").
* A dropped call leaves its nonce in the map until the satellite claims it
  (`PendingIsAwaited` allows `left`).
* A project may be created and its caller told otherwise when the connection drops; a
  retry creates another.
* The registry of hosts is loaded, changed and saved without a lock, through one
  temporary file (`hosts.rs`, near 974 and 1044).
* `child.wait()` races the last read of its output.

**Choices.**

* `hand # <<>> => step[hand[1]] = "asking"` is violated under `Choices.cfg`: the outer
  timer of a Pi dialog (`pi_rpc/mod.rs`, near 1002) drops the call and leaves the prompt.
  A click after that returns success though nobody receives it, against
  `sessions_api.rs:1540` and `gateway.rs:18137`; a text message is swallowed by the dead
  dialog.
* `AsksSettle` without its `lost` exception: the Claude dispatcher, blocked on one
  question, lags the broadcast and skips another, which is never answered.
* `PromptHasItsAsker` without `deserted`: closing a Pi session cancels before it aborts
  the pump, so that an asker on its way registers a prompt that outlives the session.
* An expired prompt is only removed when somebody looks, so a session may read as waiting
  for approval after that; a Claude question outlives its closed session until its time
  to live; Pi asks serially, so that a second question may be shown after Pi gave it up.

The passing runs leave out the failure that breaks their property where one of these
does, and their bounds or the exception in the property say so: `Stops` has no
release and no crash, `Faults` no detached stop, no reconcile and no replay hold,
`Dispatch` and `Chain` no failed and no late write.

## 7. What is not modelled

Within the modelled parts:

* *Delegation*: `read_waits` (the waits of `agent_read`), which follow the same
  discipline as request waits; the order in which waiters of the store claim get it;
  the replacement of a session under the same sid, beyond the rollback it causes; a
  stop of a session that is not live; a release for capacity dropped, with the call it
  makes room for, in the middle of a delivery; the failure of the *first* write of an accept (the
  call fails and nothing else has happened); a graceful restart that leaves vendor
  processes running; the progress trail of requests, texts of notifications, titles and
  routing; malformed files.  Reading the file and the transcript in one reconcile are
  one step, and the loop over children is over one child.
* *Retained input*: control requests, hooks, status and usage of the adapter; the texts
  of batches; what a vendor says.
* *Flow*: a call that names an existing session, nested `usage()` calls, compilation of
  the script and its determinism checks, results spilled to files, the command line.
* *Remote hosts*: several hosts (a nonce is checked against its host), restarts of either
  daemon, the registry's file, joining and authentication, reports, the backpressure of
  bridge and socket buffers.
* *Choices*: menus of directives (single flight per chat and session), numeric replies,
  the approval of plans, a closed sink, the classification of risks, tools allowed
  without asking.

Outside them, the components with status `not_modelled` in PROJECT.json.  Pending turns
are the next step of the plan.  Which recorded process a restarted daemon may adopt
rests on the operating system's process table.  Scheduled work is one sequential scan
under a lock per tick, and the event ring of the web server one bounded buffer: both
are candidates.  The other adapters have protocol engines of their own, of the size of
the one modelled here.  Front ends, file plumbing, budgets and configuration decisions
are left out because they are I/O, arithmetic over tables, or sequential functions.
