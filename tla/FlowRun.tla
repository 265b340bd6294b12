------------------------------- MODULE FlowRun -------------------------------
(***************************************************************************)
(* One dynamic-workflow run of crates/ccteam-flow: a script whose `agent()` *)
(* calls pass the scheduler (scheduler.rs), hire workers at the daemon     *)
(* (run.rs, mcp_client.rs) and are memoised in a journal (journal.rs) that  *)
(* a resumed run reads after the process was killed.                       *)
(*                                                                         *)
(* A call stands for its content: task and options.  The script is the     *)
(* order in which calls become ready: a call waits for the earlier stages  *)
(* of its chain (`pipeline`), calls behind nothing are issued at once in   *)
(* order (`parallel`).  What a worker says is left out; which session said *)
(* it is kept.  Costs are one unit per answer.                             *)
(***************************************************************************)
EXTENDS Integers, Sequences, FiniteSets

CONSTANTS
  Calls,         \* the script's agent() calls, in the order of its text
  Behind,        \* for each call, the earlier stages of its chain
  Kept,          \* calls with `keep: true`
  Pools,         \* vendor pools
  PoolOf,        \* the pool each call hires from
  MaxParallel,   \* SchedulerConfig::max_parallel: run slots
  PoolSize,      \* VendorPools: slots of a pool
  MaxPending,    \* SchedulerConfig::max_pending
  MaxAgents,     \* Brakes::max_agents
  MaxCost,       \* Brakes::max_cost_usd, in answers; or budget_total
  HireAttempts,  \* SchedulerConfig::hire_attempts
  Retries,       \* retry.max of a call with a schema
  Bound,         \* how often each fault happens: see Faults
  MaxKinds       \* bound: kinds of fault, kills aside, in one behaviour

Faults == {"kill", "drop", "lost", "forget", "append", "limit", "reject", "unstopped", "late",
           "pause"}

ASSUME CallsAssumption  == Calls \subseteq Nat \ {0} /\ IsFiniteSet(Calls)
ASSUME BehindAssumption == Behind \in [Calls -> SUBSET Calls] /\ Kept \subseteq Calls
ASSUME PoolAssumption   == PoolOf \in [Calls -> Pools]
ASSUME LimitAssumption  ==
  {MaxParallel, PoolSize, MaxPending, MaxAgents, MaxCost, HireAttempts} \subseteq Nat \ {0}
ASSUME FlowBoundsAssumption ==
  /\ {Retries, MaxKinds} \subseteq Nat /\ Bound \in [Faults -> Nat]

VARIABLES
  \* the script
  run,        \* "live", "down" (killed) or "ended"
  ready,      \* calls the script is about to issue, in order
  pc,         \* phase of each call
  seqOf,      \* position of each issued call: the journal's `seq`
  nextSeq,    \* Runner::seq
  answer,     \* the session whose answer the script got, or NoSid
  \* the scheduler
  admitted,   \* Scheduler::admitted
  pending,    \* Scheduler::pending
  runFree,    \* permits left in run_slots
  poolFree,   \* permits left in each pool
  limited,    \* pools standing down (Backoff::until)
  brake,      \* the brake that tripped, or "none"
  cost,       \* Scheduler::spent
  late,       \* the wall clock passed its limit
  paused,     \* RunControl::paused
  tries,      \* hire attempts, then schema retries, of each call
  \* the journal
  file,       \* journal.jsonl: the last line of each seq
  prior,      \* PriorState::by_seq
  usable,     \* PriorState::usable
  \* the client and the daemon
  sid,        \* the session a call talks to, or NoSid
  tracked,    \* Runner::sessions: those to stop at the end
  warned,     \* sessions this process logged it could not stop
  sessions,   \* every session ever hired; a sid is an index
  idem,       \* the daemon's spawn_idem: (seq, call) -> sid
  node,       \* the ledger node of this process
  spent       \* how much of each bound is used

scriptVars == <<run, ready, pc, seqOf, nextSeq, answer>>
schedVars  == <<admitted, pending, runFree, poolFree, limited, brake, cost, late, paused, tries>>
journalVars == <<file, prior, usable>>
daemonVars == <<sessions, idem>>
clientVars == <<sid, tracked, warned, node>>
vars == <<scriptVars, schedVars, journalVars, daemonVars, clientVars, spent>>

NoSid == 0
Seqs  == 0 .. Cardinality(Calls) - 1
Sids  == 1 .. Cardinality(Calls) * (Bound["kill"] + 1) + Bound["drop"] + Bound["forget"]

NoLine == [call |-> 0, sid |-> NoSid, done |-> FALSE]
Line   == [call : Calls \union {0}, sid : Sids \union {NoSid}, done : BOOLEAN]

\* Faults of the kinds of B happen, of each kind once.
Spend(B) ==
  /\ \A b \in B : spent[b] < Bound[b]
  /\ Cardinality({b \in Faults \ {"kill"} : b \in B \/ spent[b] > 0}) <= MaxKinds
  /\ spent' = [b \in Faults |-> IF b \in B THEN spent[b] + 1 ELSE spent[b]]

Waiting   == {"gate", "run", "pool", "spawn"}
HoldsRun  == {"pool", "spawn", "hire", "created", "hired", "stand", "await", "settled"}
HoldsPool == HoldsRun \ {"pool"}
Started   == {"hire", "created", "hired", "stand", "await", "settled"}
Resolved  == {"done", "cached"}
Finished  == Resolved \union {"refused"}
Billed    == Waiting \union Started \union {"done"}

In(P) == {c \in Calls : pc[c] \in P}
InPool(p) == {c \in In(HoldsPool) : PoolOf[c] = p}

\* journal.append, in a step with the faults of B: a failed write only warns.
Journals(s, l, B) ==
  \/ file' = [file EXCEPT ![s] = l] /\ Spend(B)
  \/ UNCHANGED file /\ Spend(B \union {"append"})

InOrder(S) ==
  CHOOSE q \in [1 .. Cardinality(S) -> S] : \A i, j \in DOMAIN q : i < j => q[i] < q[j]

\* What becomes ready when c's promise resolves: the next stage of its chain.
Unlocked(c) ==
  {d \in Calls : c \in Behind[d] /\ \A b \in Behind[d] \ {c} : pc[b] \in Resolved}

\* The script goes on after c, with a value: a worker's failure is `null`.
Resolves(c, from) ==
  /\ pc' = [pc EXCEPT ![c] = "done"]
  /\ answer' = [answer EXCEPT ![c] = from]
  /\ ready' = ready \o InOrder(Unlocked(c))
  /\ UNCHANGED <<run, seqOf, nextSeq>>

\* Dropping an Admission.
FreeSlots(c) ==
  /\ runFree' = runFree + 1
  /\ poolFree' = [poolFree EXCEPT ![PoolOf[c]] = @ + 1]

\* A refused call throws, and the rest of its chain is skipped.
ThrowsTo(c) ==
  [d \in Calls |-> IF d = c \/ (c \in Behind[d] /\ pc[d] = "new") THEN "refused" ELSE pc[d]]

Init ==
  /\ run = "live"
  /\ ready = InOrder({c \in Calls : Behind[c] = {}})
  /\ pc = [c \in Calls |-> "new"]
  /\ seqOf = [c \in Calls |-> 0] /\ nextSeq = 0
  /\ answer = [c \in Calls |-> NoSid]
  /\ admitted = 0 /\ pending = 0
  /\ runFree = MaxParallel /\ poolFree = [p \in Pools |-> PoolSize]
  /\ limited = {} /\ brake = "none" /\ cost = 0 /\ late = FALSE /\ paused = FALSE
  /\ tries = [c \in Calls |-> 0]
  /\ sid = [c \in Calls |-> NoSid] /\ tracked = {} /\ warned = {}
  /\ file = [s \in Seqs |-> NoLine] /\ prior = file /\ usable = FALSE
  /\ sessions = << >> /\ idem = [k \in Seqs \X Calls |-> NoSid] /\ node = 0
  /\ spent = [b \in Faults |-> 0]

-----------------------------------------------------------------------------
(* `agent()`: the journal is asked first, then the scheduler.              *)

\* Mutants: the key is not compared; a dispatch line is no reason to re-attach.
CachedByPlace(c) == usable /\ prior[nextSeq].done
InFlightMissed(c) == FALSE

\* Journal::lookup.
Cached(c) == usable /\ prior[nextSeq].call = c /\ prior[nextSeq].done
InFlight(c) == usable /\ prior[nextSeq].call = c /\ ~prior[nextSeq].done

\* check_limits: what trips, in the order of the code.
Over ==
  CASE brake # "none" -> brake
    [] cost >= MaxCost -> "cost"
    [] late            -> "time"
    [] OTHER           -> "none"

Issued(c) ==
  /\ run = "live" /\ ready # << >> /\ c = Head(ready) /\ pc[c] = "new"
  /\ seqOf' = [seqOf EXCEPT ![c] = nextSeq]
  /\ nextSeq' = nextSeq + 1
  /\ UNCHANGED <<run, file, prior, daemonVars, warned, node, spent>>

\* The answer of the killed run is served; nobody is hired.
IssueCached(c) ==
  /\ Issued(c)
  /\ Cached(c)
  /\ pc' = [pc EXCEPT ![c] = "cached"]
  /\ answer' = [answer EXCEPT ![c] = prior[nextSeq].sid]
  /\ ready' = Tail(ready) \o InOrder(Unlocked(c))
  /\ UNCHANGED <<schedVars, usable, sid, tracked>>

\* The call runs live, or against the session the killed run left.
IssueLive(c) ==
  /\ Issued(c)
  /\ ~Cached(c)
  /\ usable' = (usable /\ InFlight(c))
  /\ sid' = [sid EXCEPT ![c] = IF InFlight(c) THEN prior[nextSeq].sid ELSE NoSid]
  /\ ready' = Tail(ready)
  /\ UNCHANGED <<tracked, answer, runFree, poolFree, limited, cost, late, paused, tries>>

\* admit: a tripped brake refuses ...
IssueBraked(c) ==
  /\ IssueLive(c)
  /\ Over # "none"
  /\ brake' = Over
  /\ pc' = ThrowsTo(c)
  /\ UNCHANGED <<admitted, pending>>

\* ... reserve_agent trips the agent brake ...
IssueOverAgents(c) ==
  /\ IssueLive(c)
  /\ Over = "none" /\ admitted >= MaxAgents
  /\ brake' = "agents"
  /\ pc' = ThrowsTo(c)
  /\ UNCHANGED <<admitted, pending>>

\* ... a full queue refuses and gives the reservation back ...
IssueQueueFull(c) ==
  /\ IssueLive(c)
  /\ Over = "none" /\ admitted < MaxAgents
  /\ pending + 1 > MaxPending
  /\ pc' = ThrowsTo(c)
  /\ UNCHANGED <<admitted, pending, brake>>

\* Mutant: the brake is looked at with the count of before.
IssueQueuedOver(c) ==
  /\ IssueLive(c)
  /\ Over = "none" /\ admitted <= MaxAgents
  /\ pending + 1 <= MaxPending
  /\ admitted' = admitted + 1
  /\ pending' = pending + 1
  /\ pc' = [pc EXCEPT ![c] = "gate"]
  /\ UNCHANGED brake

\* ... or the call waits, its reservation held.
IssueQueued(c) ==
  /\ IssueLive(c)
  /\ Over = "none" /\ admitted < MaxAgents
  /\ pending + 1 <= MaxPending
  /\ admitted' = admitted + 1
  /\ pending' = pending + 1
  /\ pc' = [pc EXCEPT ![c] = "gate"]
  /\ UNCHANGED brake

-----------------------------------------------------------------------------
(* acquire_slots: the gate, a run slot, a pool slot, the pool's backoff and *)
(* a spawn token, each awaited while the earlier ones are held.            *)

Moves(c, from, to) ==
  /\ run = "live" /\ pc[c] = from
  /\ pc' = [pc EXCEPT ![c] = to]
  /\ UNCHANGED <<run, ready, seqOf, nextSeq, answer>>

PassGate(c) ==
  /\ Moves(c, "gate", "run")
  /\ ~paused
  /\ UNCHANGED <<schedVars, journalVars, daemonVars, clientVars, spent>>

TakeRunSlot(c) ==
  /\ Moves(c, "run", "pool")
  /\ runFree > 0
  /\ runFree' = runFree - 1
  /\ UNCHANGED <<admitted, pending, poolFree, limited, brake, cost, late, paused, tries,
                 journalVars, daemonVars, clientVars, spent>>

\* Mutant: no permit of the pool is waited for.
TakeNoPoolSlot(c) ==
  /\ Moves(c, "pool", "spawn")
  /\ poolFree' = [poolFree EXCEPT ![PoolOf[c]] = @ - 1]
  /\ UNCHANGED <<admitted, pending, runFree, limited, brake, cost, late, paused, tries,
                 journalVars, daemonVars, clientVars, spent>>

TakePoolSlot(c) ==
  /\ Moves(c, "pool", "spawn")
  /\ poolFree[PoolOf[c]] > 0
  /\ poolFree' = [poolFree EXCEPT ![PoolOf[c]] = @ - 1]
  /\ UNCHANGED <<admitted, pending, runFree, limited, brake, cost, late, paused, tries,
                 journalVars, daemonVars, clientVars, spent>>

\* Mutant: the limits are not looked at again.
AdmitUnchecked(c) ==
  /\ Moves(c, "spawn", IF sid[c] = NoSid THEN "hire" ELSE "await")
  /\ PoolOf[c] \notin limited
  /\ pending' = pending - 1
  /\ tracked' = IF sid[c] = NoSid \/ c \in Kept THEN tracked ELSE tracked \union {sid[c]}
  /\ UNCHANGED <<admitted, runFree, poolFree, limited, brake, cost, late, paused, tries,
                 journalVars, daemonVars, sid, warned, node, spent>>

\* The end of admit: nothing tripped while the call queued.  A re-attached call
\* goes straight to its session.
Admit(c) ==
  /\ Moves(c, "spawn", IF sid[c] = NoSid THEN "hire" ELSE "await")
  /\ PoolOf[c] \notin limited
  /\ Over = "none"
  /\ pending' = pending - 1
  /\ tracked' = IF sid[c] = NoSid \/ c \in Kept THEN tracked ELSE tracked \union {sid[c]}
  /\ UNCHANGED <<admitted, runFree, poolFree, limited, brake, cost, late, paused, tries,
                 journalVars, daemonVars, sid, warned, node, spent>>

\* Mutant: a call refused after it queued keeps its slots.
AdmitRefusedLeaks(c) ==
  /\ run = "live" /\ pc[c] = "spawn"
  /\ PoolOf[c] \notin limited
  /\ Over # "none"
  /\ brake' = Over
  /\ pending' = pending - 1
  /\ admitted' = admitted - 1
  /\ pc' = ThrowsTo(c)
  /\ UNCHANGED <<run, ready, seqOf, nextSeq, answer, runFree, poolFree, limited, cost, late, paused,
                 tries, journalVars, daemonVars, clientVars, spent>>

\* A brake tripped while it queued: refused, slots and reservation given back.
AdmitRefused(c) ==
  /\ run = "live" /\ pc[c] = "spawn"
  /\ PoolOf[c] \notin limited
  /\ Over # "none"
  /\ brake' = Over
  /\ pending' = pending - 1
  /\ admitted' = admitted - 1
  /\ FreeSlots(c)
  /\ pc' = ThrowsTo(c)
  /\ UNCHANGED <<run, ready, seqOf, nextSeq, answer, limited, cost, late, paused, tries,
                 journalVars, daemonVars, clientVars, spent>>

-----------------------------------------------------------------------------
(* hire: the daemon makes a session, gives it the task, records the key and *)
(* answers.  One handler per key runs at a time.                           *)

Key(c) == <<seqOf[c], c>>

HireCreate(c) ==
  /\ Moves(c, "hire", "created")
  /\ idem[Key(c)] = NoSid
  /\ sessions' = Append(sessions, [call |-> c, seq |-> seqOf[c], node |-> node,
                                   turn |-> "none", up |-> TRUE])
  /\ sid' = [sid EXCEPT ![c] = Len(sessions) + 1]
  /\ UNCHANGED <<schedVars, journalVars, idem, tracked, warned, node, spent>>

\* The sessions after the calls of D had their task dispatched.
Tasked(D) ==
  [i \in DOMAIN sessions |->
     [sessions[i] EXCEPT !.turn = IF i \in {sid[c] : c \in D} THEN "busy" ELSE @]]

\* Mutant: the answer goes out before the key is recorded.
HireUnrecorded(c) ==
  /\ Moves(c, "created", "hired")
  /\ sessions' = Tasked({c})
  /\ UNCHANGED <<schedVars, journalVars, idem, clientVars, spent>>

HireRecord(c) ==
  /\ Moves(c, "created", "hired")
  /\ sessions' = Tasked({c})
  /\ idem' = [idem EXCEPT ![Key(c)] = sid[c]]
  /\ UNCHANGED <<schedVars, journalVars, clientVars, spent>>

HireReplay(c) ==
  /\ Moves(c, "hire", "hired")
  /\ idem[Key(c)] # NoSid
  /\ sid' = [sid EXCEPT ![c] = idem[Key(c)]]
  /\ UNCHANGED <<schedVars, journalVars, daemonVars, tracked, warned, node, spent>>

\* The dispatch line is written "the moment a sid exists".
HireReturns(c) ==
  /\ Moves(c, "hired", "await")
  /\ limited' = limited \ {PoolOf[c]}
  /\ tries' = [tries EXCEPT ![c] = 0]
  /\ tracked' = IF c \in Kept THEN tracked ELSE tracked \union {sid[c]}
  /\ Journals(seqOf[c], [call |-> c, sid |-> sid[c], done |-> FALSE], {})
  /\ UNCHANGED <<admitted, pending, runFree, poolFree, brake, cost, late, paused, prior, usable,
                 daemonVars, sid, warned, node>>

\* The answer of the first request never gets back, and the client sends it again
\* under the key it has (call_tool does so once; here the bounds limit it): the
\* handler was dropped with the connection, before it gave the task or after it, or
\* had recorded the key.  A handler that goes on is waited for by the second.
HireResent(c) ==
  \/ /\ Moves(c, "created", "hire")
     /\ \E D \in {{}, {c}} : sessions' = Tasked(D)
     /\ sid' = [sid EXCEPT ![c] = NoSid]
     /\ Spend({"drop"})
     /\ UNCHANGED <<schedVars, journalVars, idem, tracked, warned, node>>
  \/ /\ Moves(c, "hired", "hire")
     /\ sid' = [sid EXCEPT ![c] = NoSid]
     /\ Spend({"lost"})
     /\ UNCHANGED <<schedVars, journalVars, daemonVars, tracked, warned, node>>

\* HTTP 429: the pool stands down, and so does this call, slots held.
HireLimited(c) ==
  /\ Moves(c, "hire", "stand")
  /\ tries[c] + 1 < HireAttempts
  /\ tries' = [tries EXCEPT ![c] = @ + 1]
  /\ limited' = limited \union {PoolOf[c]}
  /\ Spend({"limit"})
  /\ UNCHANGED <<admitted, pending, runFree, poolFree, brake, cost, late, paused, journalVars,
                 daemonVars, clientVars>>

HireAgain(c) ==
  /\ Moves(c, "stand", "hire")
  /\ PoolOf[c] \notin limited
  /\ UNCHANGED <<schedVars, journalVars, daemonVars, clientVars, spent>>

\* The last attempt is limited, or the hire is refused: before a session was
\* made, after (its task is not taken), or its answer never gets back.
HireRefusal(c) ==
  LET line == [call |-> c, sid |-> NoSid, done |-> TRUE]
  IN  \/ /\ pc[c] = "hire" /\ tries[c] + 1 >= HireAttempts
         /\ limited' = limited \union {PoolOf[c]}
         /\ Journals(seqOf[c], line, {"limit"})
      \/ /\ pc[c] \in {"hire", "created", "hired"}
         /\ UNCHANGED limited
         /\ Journals(seqOf[c], line, {"reject"})

\* Mutant: the failure path forgets the Admission.
HireFailsLeaks(c) ==
  /\ run = "live"
  /\ HireRefusal(c)
  /\ Resolves(c, NoSid)
  /\ sid' = [sid EXCEPT ![c] = NoSid]
  /\ UNCHANGED <<admitted, pending, runFree, poolFree, brake, cost, late, paused, tries, prior,
                 usable, daemonVars, tracked, warned, node>>

HireFails(c) ==
  /\ run = "live"
  /\ HireRefusal(c)
  /\ FreeSlots(c)
  /\ Resolves(c, NoSid)
  /\ sid' = [sid EXCEPT ![c] = NoSid]
  /\ UNCHANGED <<admitted, pending, brake, cost, late, paused, tries, prior, usable,
                 daemonVars, tracked, warned, node>>

-----------------------------------------------------------------------------
(* await, the schema contract, the completion line, the release.           *)

DoneLine(c) == [call |-> c, sid |-> sid[c], done |-> TRUE]

\* The turn is over: its answer, or `null`, is journalled.
OutcomeArrives(c) ==
  /\ Moves(c, "await", "settled")
  /\ sessions[sid[c]].turn \in {"ok", "failed"}
  /\ cost' = cost + 1
  /\ Journals(seqOf[c], DoneLine(c), {})
  /\ UNCHANGED <<admitted, pending, runFree, poolFree, limited, brake, late, paused, tries, prior,
                 usable, daemonVars, clientVars>>

\* The transport fails, or the turn's timeout passes before its answer.
AwaitFails(c) ==
  /\ Moves(c, "await", "settled")
  /\ Journals(seqOf[c], DoneLine(c), {"reject"})
  /\ UNCHANGED <<schedVars, prior, usable, daemonVars, clientVars>>

\* The reply does not match the schema: asked again in the same session.
SchemaRetry(c) ==
  /\ Moves(c, "await", "await")
  /\ sessions[sid[c]].turn = "ok" /\ sessions[sid[c]].up
  /\ tries[c] < Retries
  /\ tries' = [tries EXCEPT ![c] = @ + 1]
  /\ cost' = cost + 1
  /\ sessions' = [sessions EXCEPT ![sid[c]].turn = "busy"]
  /\ UNCHANGED <<admitted, pending, runFree, poolFree, limited, brake, late, paused, journalVars,
                 idem, clientVars, spent>>

\* agent_stop: a session of an earlier life is not this node's to stop.
Stopped(S) ==
  [i \in DOMAIN sessions |->
     IF i \in S /\ sessions[i].node = node
     THEN [sessions[i] EXCEPT !.up = FALSE, !.turn = IF @ = "busy" THEN "failed" ELSE @]
     ELSE sessions[i]]

\* Runner::stop for each of S: a stop that fails, as it may for those of F and does
\* for sessions that are not this node's, is logged, and the session forgotten.
Stops(S) ==
  \E F \in SUBSET S :
    /\ sessions' = Stopped(S \ F)
    /\ warned' = warned \union F \union {i \in S : sessions[i].node # node}
    /\ Spend(IF F = {} THEN {} ELSE {"unstopped"})

\* Mutant: the session is cleared and not stopped.
ReleaseUnstopped(c) ==
  /\ run = "live" /\ pc[c] = "settled"
  /\ tracked' = tracked \ {sid[c]}
  /\ FreeSlots(c)
  /\ Resolves(c, sid[c])
  /\ UNCHANGED <<admitted, pending, limited, brake, cost, late, paused, tries, journalVars,
                 daemonVars, sid, warned, node, spent>>

Release(c) ==
  /\ run = "live" /\ pc[c] = "settled"
  /\ Stops({sid[c]} \ {sid[k] : k \in Kept})
  /\ tracked' = tracked \ {sid[c]}
  /\ FreeSlots(c)
  /\ Resolves(c, sid[c])
  /\ UNCHANGED <<admitted, pending, limited, brake, cost, late, paused, tries, journalVars,
                 idem, sid, node>>

\* The script returned and every abandoned call is over: release_sessions.
EndRun ==
  /\ run = "live" /\ In(Finished) = Calls
  /\ run' = "ended"
  /\ Stops(tracked)
  /\ tracked' = {}
  /\ UNCHANGED <<ready, pc, seqOf, nextSeq, answer, schedVars, journalVars, idem, sid, node>>

-----------------------------------------------------------------------------
(* The workers, time, the host's pause switch, and the end of a process.   *)

WorkerEnds(i) ==
  /\ sessions[i].turn = "busy"
  /\ \E how \in {"ok", "failed"} : sessions' = [sessions EXCEPT ![i].turn = how]
  /\ UNCHANGED <<scriptVars, schedVars, journalVars, idem, clientVars, spent>>

BackoffPasses(p) ==
  /\ run = "live" /\ p \in limited
  /\ limited' = limited \ {p}
  /\ UNCHANGED <<scriptVars, admitted, pending, runFree, poolFree, brake, cost, late, paused, tries,
                 journalVars, daemonVars, clientVars, spent>>

WallClockPasses ==
  /\ run = "live" /\ ~late
  /\ late' = TRUE
  /\ Spend({"late"})
  /\ UNCHANGED <<scriptVars, admitted, pending, runFree, poolFree, limited, brake, cost, paused,
                 tries, journalVars, daemonVars, clientVars>>

Pause ==
  /\ run = "live" /\ ~paused
  /\ paused' = TRUE
  /\ Spend({"pause"})
  /\ UNCHANGED <<scriptVars, admitted, pending, runFree, poolFree, limited, brake, cost, late,
                 tries, journalVars, daemonVars, clientVars>>

Unpause ==
  /\ run = "live" /\ paused
  /\ paused' = FALSE
  /\ UNCHANGED <<scriptVars, admitted, pending, runFree, poolFree, limited, brake, cost, late,
                 tries, journalVars, daemonVars, clientVars, spent>>

\* An entry of the IdemCache ages out, is evicted, or the daemon restarted.
Forget(k) ==
  /\ idem[k] # NoSid
  /\ idem' = [idem EXCEPT ![k] = NoSid]
  /\ Spend({"forget"})
  /\ UNCHANGED <<scriptVars, schedVars, journalVars, sessions, clientVars>>

\* The run's process dies.  The daemon's handlers finish, or, of D, are dropped
\* with the connection before the key is recorded, those of T after the task.
Kill ==
  /\ run = "live"
  /\ run' = "down"
  /\ \E D \in SUBSET In({"created"}) : \E T \in SUBSET D :
       /\ Spend(IF D = {} THEN {"kill"} ELSE {"kill", "drop"})
       /\ sessions' = Tasked((In({"created"}) \ D) \union T)
       /\ idem' = [k \in DOMAIN idem |->
                     IF \E c \in In({"created"}) \ D : Key(c) = k THEN sid[k[2]] ELSE idem[k]]
  /\ UNCHANGED <<ready, pc, seqOf, nextSeq, answer, schedVars, journalVars, clientVars>>

\* `--resume`: a new process, a new node of the ledger, the script from its top.
Resume ==
  /\ run = "down"
  /\ run' = "live"
  /\ ready' = InOrder({c \in Calls : Behind[c] = {}})
  /\ pc' = [c \in Calls |-> "new"]
  /\ seqOf' = [c \in Calls |-> 0] /\ nextSeq' = 0
  /\ answer' = [c \in Calls |-> NoSid]
  /\ admitted' = 0 /\ pending' = 0
  /\ runFree' = MaxParallel /\ poolFree' = [p \in Pools |-> PoolSize]
  /\ limited' = {} /\ brake' = "none" /\ cost' = 0 /\ late' = FALSE /\ paused' = FALSE
  /\ tries' = [c \in Calls |-> 0]
  /\ sid' = [c \in Calls |-> NoSid] /\ tracked' = {} /\ warned' = {}
  /\ prior' = file /\ usable' = TRUE
  /\ node' = node + 1
  /\ UNCHANGED <<file, daemonVars, spent>>

-----------------------------------------------------------------------------

CallSteps(c) ==
  \/ IssueCached(c) \/ IssueBraked(c) \/ IssueOverAgents(c) \/ IssueQueueFull(c) \/ IssueQueued(c)
  \/ PassGate(c) \/ TakeRunSlot(c) \/ TakePoolSlot(c) \/ Admit(c) \/ AdmitRefused(c)
  \/ HireCreate(c) \/ HireRecord(c) \/ HireReplay(c) \/ HireReturns(c) \/ HireAgain(c)
  \/ OutcomeArrives(c) \/ Release(c)

Progress ==
  \/ \E c \in Calls : CallSteps(c)
  \/ \E i \in DOMAIN sessions : WorkerEnds(i)
  \/ \E p \in Pools : BackoffPasses(p)
  \/ Unpause \/ EndRun

Mishap ==
  \/ \E c \in Calls : HireLimited(c) \/ HireFails(c) \/ HireResent(c) \/ AwaitFails(c) \/ SchemaRetry(c)
  \/ \E k \in DOMAIN idem : Forget(k)
  \/ WallClockPasses \/ Pause \/ Kill \/ Resume

Next == Progress \/ Mishap

\* What the scheduling gives: the runtime polls what can move, workers end
\* their turns, a backoff passes and whoever paused a run resumes it.
Spec == Init /\ [][Next]_vars /\ WF_vars(Progress)

-----------------------------------------------------------------------------
(* Properties.                                                             *)

\* Types, and the ranges of what the scheduler counts.
TypeOK ==
  /\ run \in {"live", "down", "ended"} /\ brake \in {"none", "agents", "cost", "time"}
  /\ pc \in [Calls -> {"new"} \union Waiting \union Started \union Finished]
  /\ seqOf \in [Calls -> Seqs] /\ nextSeq \in Nat /\ cost \in Nat /\ node \in Nat
  /\ answer \in [Calls -> Sids \union {NoSid}] /\ sid \in [Calls -> Sids \union {NoSid}]
  /\ admitted \in Nat /\ pending \in Nat
  /\ runFree \in 0 .. MaxParallel /\ poolFree \in [Pools -> 0 .. PoolSize]
  /\ limited \subseteq Pools /\ late \in BOOLEAN /\ paused \in BOOLEAN /\ usable \in BOOLEAN
  /\ tries \in [Calls -> Nat] /\ tracked \subseteq Sids /\ warned \subseteq Sids
  /\ file \in [Seqs -> Line] /\ prior \in [Seqs -> Line]
  /\ idem \in [Seqs \X Calls -> Sids \union {NoSid}]
  /\ (\A i \in DOMAIN ready : ready[i] \in Calls) /\ DOMAIN sessions \subseteq Sids

\* Every exit of admit and dispatch, refusals and failures included, gives back
\* what it took: a leaked reservation or permit stalls or starves the run.
CountersHonest ==
  /\ pending = Cardinality(In(Waiting))
  /\ admitted = Cardinality(In(Billed))
  /\ runFree + Cardinality(In(HoldsRun)) = MaxParallel
  /\ \A p \in Pools : poolFree[p] + Cardinality(InPool(p)) = PoolSize

\* The agent brake: what a life reserves, hires, sends again and gives back never
\* adds up to more workers than it may start, but for those hired again because a
\* handler was dropped before it recorded the key, or the key was forgotten.
AgentBrakeHolds ==
  Cardinality({i \in DOMAIN sessions : sessions[i].node = node})
    <= MaxAgents + spent["drop"] + spent["forget"]

\* Whatever was reserved while nothing was over, once a limit is over no call
\* that still waits starts: "rather than sneak one more agent past a ceiling".
NoneSneaksPast ==
  [][Over # "none" =>
       \A c \in Calls : pc'[c] \in Started => pc[c] \in Started]_vars

\* Memo tables and replays serve a call its own work: whichever of journal,
\* re-attachment and idempotency key answers, across a kill and a new order.
AnswersAreOwn ==
  LET Own(i, c) == i = NoSid \/ sessions[i].call = c
  IN  /\ \A c \in Calls : Own(answer[c], c) /\ Own(sid[c], c)
      /\ \A s \in Seqs : Own(file[s].sid, file[s].call)
      /\ \A k \in DOMAIN idem : Own(idem[k], k[2])

\* No worker is hired twice for one call at one place, however often the run is
\* killed: the second time the journal or the key has it.
NoSecondHire ==
  \A i, j \in DOMAIN sessions :
    /\ i < j /\ sessions[i].call = sessions[j].call /\ sessions[i].seq = sessions[j].seq
    /\ sessions[i].turn # "none" /\ sessions[j].turn # "none"
    => spent["forget"] + spent["drop"] > 0

\* A call the journal can serve, all earlier calls being where they were, never
\* reaches the daemon's hire: also when its key has aged out there.
ServedByJournal ==
  \A c \in In({"hire", "created", "hired", "stand"}) :
    \E s \in 0 .. seqOf[c] :
      \A d \in Calls : pc[d] # "new" /\ seqOf[d] = s => prior[s].call # d

\* When the run is over no worker that answered it is left running, but those it
\* was asked to keep and those whose stop failed, each of which the log names: a
\* failed stop, a second one that never comes and a session shared with a kept call
\* leave nobody running in silence.
NobodyLeftBehind ==
  run = "ended" =>
    \A c \in Calls \ Kept :
      answer[c] # NoSid /\ sessions[answer[c]].node = node
      => ~sessions[answer[c]].up \/ answer[c] \in warned

\* Every run ends, or its process was killed: no call waits for a permit, a
\* pool or a brake that will not come.
RunEnds == run = "live" ~> run # "live"

-----------------------------------------------------------------------------
(* What the documentation says and the code does not do.                   *)

\* "Safe to retry": a request sent again within a life is replayed "instead of
\* hiring a second worker" (hire).
RetriesReplay ==
  \A i, j \in DOMAIN sessions :
    i < j /\ sessions[i].node = node /\ sessions[j].node = node
    => sessions[i].call # sessions[j].call

\* "A crash costs you nothing that was already dispatched."
NothingDispatchedIsLost ==
  \A s \in Seqs, j \in DOMAIN sessions :
    prior[s].sid # NoSid /\ sessions[j].node = node => sessions[j].call # prior[s].call
=============================================================================
