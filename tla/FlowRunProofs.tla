---------------------------- MODULE FlowRunProofs ----------------------------
(***************************************************************************)
(* What holds of FlowRun for every script, every size of its limits and    *)
(* any number of kills and faults.  Of the scheduler: its counters are     *)
(* what its calls hold, no life hires more workers than its agent brake    *)
(* allows and what the daemon lost accounts for, and no call that still    *)
(* waits starts once a limit is over.  Of the journal and the daemon's     *)
(* idempotency keys: a call is served only what was hired for it, no call  *)
(* is hired twice at one place, what the journal has never reaches the     *)
(* daemon, and a run that ended leaves nobody running in silence.          *)
(***************************************************************************)
EXTENDS FlowRun, FiniteSetTheorems, SequenceTheorems, TLAPS

Phase == {"new"} \union Waiting \union Started \union Finished

\* The ranges the steps of the scheduler rely on.
Ranges ==
  /\ run \in {"live", "down", "ended"}
  /\ pc \in [Calls -> Phase]
  /\ admitted \in Int /\ pending \in Int /\ runFree \in Int
  /\ poolFree \in [Pools -> Int]

CountInv == Ranges /\ CountersHonest

-----------------------------------------------------------------------------

\* A set of calls one larger.
LEMMA Joined ==
  ASSUME NEW S, NEW T, NEW x, IsFiniteSet(S), x \notin S, T = S \union {x}
  PROVE  Cardinality(T) = Cardinality(S) + 1 /\ Cardinality(S) \in Int
  BY FS_AddElement, FS_CardinalityType

\* A set of calls one smaller.
LEMMA Left ==
  ASSUME NEW S, NEW T, NEW x, IsFiniteSet(S), x \in S, T = S \ {x}
  PROVE  Cardinality(T) = Cardinality(S) - 1 /\ Cardinality(S) \in Int
  BY FS_RemoveElement, FS_CardinalityType

\* Any set of calls can be counted.
LEMMA Countable ==
  /\ \A P : IsFiniteSet(In(P))
  /\ \A p : IsFiniteSet(InPool(p))
<1>1. \A S \in SUBSET Calls : IsFiniteSet(S)
  BY CallsAssumption, FS_Subset
<1> QED
  BY <1>1 DEF In, InPool

\* What every phase of a call stands for, spelled out.
LEMMA Phases ==
  /\ Waiting = {"gate", "run", "pool", "spawn"}
  /\ HoldsRun = {"pool", "spawn", "hire", "created", "hired", "stand", "await", "settled"}
  /\ HoldsPool = {"spawn", "hire", "created", "hired", "stand", "await", "settled"}
  /\ Billed = {"gate", "run", "pool", "spawn", "hire", "created", "hired", "stand", "await",
               "settled", "done"}
  /\ Phase = {"new", "gate", "run", "pool", "spawn", "hire", "created", "hired", "stand", "await",
              "settled", "done", "cached", "refused"}
  BY DEF Waiting, HoldsRun, HoldsPool, Billed, Started, Phase, Finished, Resolved

\* Steps that count nothing: every call holds afterwards what it held before.
Keeps ==
  /\ run' = "live"
  /\ pc' \in [Calls -> Phase]
  /\ UNCHANGED <<admitted, pending, runFree, poolFree>>
  /\ \A d \in Calls : \A P \in {Waiting, Billed, HoldsRun, HoldsPool} : pc'[d] \in P <=> pc[d] \in P

LEMMA KeepsCounts ==
  ASSUME CountInv, run = "live", Keeps
  PROVE  CountInv'
<1>1. /\ In(Waiting)' = In(Waiting) /\ In(Billed)' = In(Billed)
      /\ In(HoldsRun)' = In(HoldsRun) /\ In(HoldsPool)' = In(HoldsPool)
  BY DEF Keeps, In
<1>2. \A p : InPool(p)' = InPool(p)
  BY <1>1 DEF InPool
<1> QED
  BY <1>1, <1>2 DEF CountInv, CountersHonest, Ranges, Keeps

\* A call alone goes from one phase to another.
LEMMA OneMoves ==
  ASSUME pc \in [Calls -> Phase], NEW c \in Calls, NEW to \in Phase,
         pc' = [pc EXCEPT ![c] = to]
  PROVE  /\ pc' \in [Calls -> Phase]
         /\ pc'[c] = to /\ \A d \in Calls \ {c} : pc'[d] = pc[d]
  OBVIOUS

\* A refused call and what is behind it hold nothing afterwards.
LEMMA Throws ==
  ASSUME pc \in [Calls -> Phase], NEW c \in Calls, pc' = ThrowsTo(c)
  PROVE  /\ pc' \in [Calls -> Phase]
         /\ pc'[c] = "refused"
         /\ \A d \in Calls \ {c} : pc'[d] = pc[d] \/ (pc[d] = "new" /\ pc'[d] = "refused")
  BY Phases DEF ThrowsTo

-----------------------------------------------------------------------------
(* Steps within the queue or within a worker's life.                       *)

MovesWithin(c) ==
  \/ PassGate(c) \/ HireCreate(c) \/ HireRecord(c) \/ HireReplay(c) \/ HireReturns(c)
  \/ HireLimited(c) \/ HireAgain(c) \/ HireResent(c) \/ OutcomeArrives(c) \/ AwaitFails(c)
  \/ SchemaRetry(c)

LEMMA MovesWithinCounts ==
  ASSUME CountInv, NEW c \in Calls, MovesWithin(c)
  PROVE  CountInv'
<1>1. PICK from \in Phase, to \in Phase :
        /\ Moves(c, from, to)
        /\ \A P \in {Waiting, Billed, HoldsRun, HoldsPool} : from \in P <=> to \in P
  BY Phases DEF MovesWithin, PassGate, HireCreate, HireRecord, HireReplay, HireReturns,
     HireLimited, HireAgain, HireResent, OutcomeArrives, AwaitFails, SchemaRetry
<1>2. UNCHANGED <<admitted, pending, runFree, poolFree>>
  BY DEF MovesWithin, PassGate, HireCreate, HireRecord, HireReplay, HireReturns, HireLimited,
     HireAgain, HireResent, OutcomeArrives, AwaitFails, SchemaRetry, schedVars
<1>3. run = "live" /\ run' = "live" /\ pc[c] = from /\ pc' = [pc EXCEPT ![c] = to]
  BY <1>1 DEF Moves
<1>4. /\ pc' \in [Calls -> Phase]
      /\ pc'[c] = to /\ \A d \in Calls \ {c} : pc'[d] = pc[d]
  BY <1>3, OneMoves DEF CountInv, Ranges
<1>5. Keeps
  BY <1>1, <1>2, <1>3, <1>4 DEF Keeps
<1> QED
  BY <1>3, <1>5, KeepsCounts

\* A call the journal answers, or that is refused before it queued.
LEMMA IssuedUncounted ==
  ASSUME CountInv, NEW c \in Calls,
         IssueCached(c) \/ IssueBraked(c) \/ IssueOverAgents(c) \/ IssueQueueFull(c)
  PROVE  CountInv'
<1>1. run = "live" /\ run' = "live" /\ pc[c] = "new"
  BY DEF IssueCached, IssueBraked, IssueOverAgents, IssueQueueFull, IssueLive, Issued
<1>2. UNCHANGED <<admitted, pending, runFree, poolFree>>
  BY DEF IssueCached, IssueBraked, IssueOverAgents, IssueQueueFull, IssueLive, schedVars
<1>3. pc' = [pc EXCEPT ![c] = "cached"] \/ pc' = ThrowsTo(c)
  BY DEF IssueCached, IssueBraked, IssueOverAgents, IssueQueueFull
<1>4. /\ pc' \in [Calls -> Phase]
      /\ pc'[c] \in {"cached", "refused"}
      /\ \A d \in Calls \ {c} : pc'[d] = pc[d] \/ (pc[d] = "new" /\ pc'[d] = "refused")
  BY <1>3, OneMoves, Throws, Phases DEF CountInv, Ranges
<1>5. Keeps
  BY <1>1, <1>2, <1>4, Phases DEF Keeps
<1> QED
  BY <1>1, <1>5, KeepsCounts

-----------------------------------------------------------------------------
(* Steps that take or return something.                                    *)

\* A reservation and a place in the queue are taken together.
LEMMA QueuedCounts ==
  ASSUME CountInv, NEW c \in Calls, IssueQueued(c)
  PROVE  CountInv'
<1>1. /\ run = "live" /\ run' = "live" /\ pc[c] = "new" /\ pc' = [pc EXCEPT ![c] = "gate"]
      /\ admitted' = admitted + 1 /\ pending' = pending + 1
      /\ UNCHANGED <<runFree, poolFree>>
  BY DEF IssueQueued, IssueLive, Issued
<1>2. /\ pc' \in [Calls -> Phase]
      /\ pc'[c] = "gate" /\ \A d \in Calls \ {c} : pc'[d] = pc[d]
  BY <1>1, OneMoves, Phases DEF CountInv, Ranges
<1>3. c \notin In(Waiting) /\ In(Waiting)' = In(Waiting) \union {c}
  BY <1>1, <1>2, Phases DEF In
<1>4. c \notin In(Billed) /\ In(Billed)' = In(Billed) \union {c}
  BY <1>1, <1>2, Phases DEF In
<1>5. In(HoldsRun)' = In(HoldsRun) /\ \A p : InPool(p)' = InPool(p)
  BY <1>1, <1>2, Phases DEF In, InPool
<1>6. Cardinality(In(Waiting)') = Cardinality(In(Waiting)) + 1
  BY <1>3, Joined, Countable
<1>7. Cardinality(In(Billed)') = Cardinality(In(Billed)) + 1
  BY <1>4, Joined, Countable
<1> QED
  BY <1>1, <1>2, <1>5, <1>6, <1>7 DEF CountInv, Ranges, CountersHonest

LEMMA RunSlotCounts ==
  ASSUME CountInv, NEW c \in Calls, TakeRunSlot(c)
  PROVE  CountInv'
<1>1. /\ run = "live" /\ run' = "live" /\ pc[c] = "run" /\ pc' = [pc EXCEPT ![c] = "pool"]
      /\ runFree' = runFree - 1
      /\ UNCHANGED <<admitted, pending, poolFree>>
  BY DEF TakeRunSlot, Moves
<1>2. /\ pc' \in [Calls -> Phase]
      /\ pc'[c] = "pool" /\ \A d \in Calls \ {c} : pc'[d] = pc[d]
  BY <1>1, OneMoves, Phases DEF CountInv, Ranges
<1>3. c \notin In(HoldsRun) /\ In(HoldsRun)' = In(HoldsRun) \union {c}
  BY <1>1, <1>2, Phases DEF In
<1>4. In(Waiting)' = In(Waiting) /\ In(Billed)' = In(Billed) /\ \A p : InPool(p)' = InPool(p)
  BY <1>1, <1>2, Phases DEF In, InPool
<1>5. Cardinality(In(HoldsRun)') = Cardinality(In(HoldsRun)) + 1 /\ Cardinality(In(HoldsRun)) \in Int
  BY <1>3, Joined, Countable
<1>6. MaxParallel \in Int
  BY LimitAssumption
<1> QED
  BY <1>1, <1>2, <1>4, <1>5, <1>6 DEF CountInv, Ranges, CountersHonest

\* One more call in the pool of c, and in no other.
LEMMA PoolJoined ==
  ASSUME NEW c \in Calls, c \notin In(HoldsPool), In(HoldsPool)' = In(HoldsPool) \union {c}
  PROVE  \A p \in Pools :
           /\ Cardinality(InPool(p)) \in Int
           /\ Cardinality(InPool(p)') = Cardinality(InPool(p)) + (IF p = PoolOf[c] THEN 1 ELSE 0)
<1> SUFFICES ASSUME NEW p \in Pools
             PROVE  /\ Cardinality(InPool(p)) \in Int
                    /\ Cardinality(InPool(p)') =
                         Cardinality(InPool(p)) + (IF p = PoolOf[c] THEN 1 ELSE 0)
  OBVIOUS
<1>1. CASE p = PoolOf[c]
  <2>1. c \notin InPool(p) /\ InPool(p)' = InPool(p) \union {c}
    BY <1>1 DEF InPool
  <2> QED
    BY <1>1, <2>1, Joined, Countable
<1>2. CASE p # PoolOf[c]
  <2>1. InPool(p)' = InPool(p)
    BY <1>2 DEF InPool
  <2> QED
    BY <1>2, <2>1, Countable, FS_CardinalityType
<1> QED
  BY <1>1, <1>2

\* One call less in the pool of c, and in no other.
LEMMA PoolLeft ==
  ASSUME NEW c \in Calls, c \in In(HoldsPool), In(HoldsPool)' = In(HoldsPool) \ {c}
  PROVE  \A p \in Pools :
           /\ Cardinality(InPool(p)) \in Int
           /\ Cardinality(InPool(p)') = Cardinality(InPool(p)) - (IF p = PoolOf[c] THEN 1 ELSE 0)
<1> SUFFICES ASSUME NEW p \in Pools
             PROVE  /\ Cardinality(InPool(p)) \in Int
                    /\ Cardinality(InPool(p)') =
                         Cardinality(InPool(p)) - (IF p = PoolOf[c] THEN 1 ELSE 0)
  OBVIOUS
<1>1. CASE p = PoolOf[c]
  <2>1. c \in InPool(p) /\ InPool(p)' = InPool(p) \ {c}
    BY <1>1 DEF InPool
  <2> QED
    BY <1>1, <2>1, Left, Countable
<1>2. CASE p # PoolOf[c]
  <2>1. InPool(p)' = InPool(p)
    BY <1>2 DEF InPool
  <2> QED
    BY <1>2, <2>1, Countable, FS_CardinalityType
<1> QED
  BY <1>1, <1>2

LEMMA PoolSlotCounts ==
  ASSUME CountInv, NEW c \in Calls, TakePoolSlot(c)
  PROVE  CountInv'
<1>1. /\ run = "live" /\ run' = "live" /\ pc[c] = "pool" /\ pc' = [pc EXCEPT ![c] = "spawn"]
      /\ poolFree' = [poolFree EXCEPT ![PoolOf[c]] = @ - 1]
      /\ UNCHANGED <<admitted, pending, runFree>>
  BY DEF TakePoolSlot, Moves
<1>2. /\ pc' \in [Calls -> Phase]
      /\ pc'[c] = "spawn" /\ \A d \in Calls \ {c} : pc'[d] = pc[d]
  BY <1>1, OneMoves, Phases DEF CountInv, Ranges
<1>3. /\ In(Waiting)' = In(Waiting) /\ In(Billed)' = In(Billed) /\ In(HoldsRun)' = In(HoldsRun)
      /\ c \notin In(HoldsPool) /\ In(HoldsPool)' = In(HoldsPool) \union {c}
  BY <1>1, <1>2, Phases DEF In
<1>4. PoolSize \in Int /\ PoolOf[c] \in Pools
  BY LimitAssumption, PoolAssumption
<1>5. poolFree' \in [Pools -> Int]
  BY <1>1, <1>4 DEF CountInv, Ranges
<1>6. \A p \in Pools : poolFree'[p] + Cardinality(InPool(p)') = PoolSize
  BY <1>1, <1>3, <1>4, PoolJoined DEF CountInv, Ranges, CountersHonest
<1> QED
  BY <1>1, <1>2, <1>3, <1>5, <1>6 DEF CountInv, Ranges, CountersHonest

LEMMA AdmitCounts ==
  ASSUME CountInv, NEW c \in Calls, Admit(c)
  PROVE  CountInv'
<1>1. /\ run = "live" /\ run' = "live" /\ pc[c] = "spawn"
      /\ \E to \in {"hire", "await"} : pc' = [pc EXCEPT ![c] = to]
      /\ pending' = pending - 1
      /\ UNCHANGED <<admitted, runFree, poolFree>>
  BY DEF Admit, Moves
<1>2. /\ pc' \in [Calls -> Phase]
      /\ pc'[c] \in {"hire", "await"} /\ \A d \in Calls \ {c} : pc'[d] = pc[d]
  BY <1>1, OneMoves, Phases DEF CountInv, Ranges
<1>3. /\ c \in In(Waiting) /\ In(Waiting)' = In(Waiting) \ {c}
      /\ In(Billed)' = In(Billed) /\ In(HoldsRun)' = In(HoldsRun)
      /\ \A p : InPool(p)' = InPool(p)
  BY <1>1, <1>2, Phases DEF In, InPool
<1>4. Cardinality(In(Waiting)') = Cardinality(In(Waiting)) - 1
  BY <1>3, Left, Countable
<1> QED
  BY <1>1, <1>2, <1>3, <1>4 DEF CountInv, Ranges, CountersHonest

\* The last lines of an agent() call: both permits go back.
LEMMA FreedCounts ==
  ASSUME CountInv, NEW c \in In(HoldsPool), FreeSlots(c),
         In(HoldsRun)' = In(HoldsRun) \ {c}, In(HoldsPool)' = In(HoldsPool) \ {c}
  PROVE  /\ runFree' \in Int /\ poolFree' \in [Pools -> Int]
         /\ run = "live" =>
              /\ runFree' + Cardinality(In(HoldsRun)') = MaxParallel
              /\ \A p \in Pools : poolFree'[p] + Cardinality(InPool(p)') = PoolSize
<1>1. c \in Calls /\ c \in In(HoldsRun)
  BY Phases DEF In
<1>2. MaxParallel \in Int /\ PoolSize \in Int /\ PoolOf[c] \in Pools
  BY <1>1, LimitAssumption, PoolAssumption
<1>3. runFree' \in Int /\ poolFree' \in [Pools -> Int]
  BY <1>2 DEF FreeSlots, CountInv, Ranges
<1>4. /\ Cardinality(In(HoldsRun)') = Cardinality(In(HoldsRun)) - 1
      /\ Cardinality(In(HoldsRun)) \in Int
  BY <1>1, Left, Countable
<1>5. run = "live" => runFree' + Cardinality(In(HoldsRun)') = MaxParallel
  BY <1>2, <1>4 DEF FreeSlots, CountInv, Ranges, CountersHonest
<1>6. run = "live" => \A p \in Pools : poolFree'[p] + Cardinality(InPool(p)') = PoolSize
  BY <1>1, <1>2, PoolLeft DEF FreeSlots, CountInv, Ranges, CountersHonest
<1> QED
  BY <1>3, <1>5, <1>6

LEMMA RefusedCounts ==
  ASSUME CountInv, NEW c \in Calls, AdmitRefused(c)
  PROVE  CountInv'
<1>1. /\ run = "live" /\ run' = "live" /\ pc[c] = "spawn" /\ pc' = ThrowsTo(c)
      /\ pending' = pending - 1 /\ admitted' = admitted - 1
      /\ FreeSlots(c)
  BY DEF AdmitRefused
<1>2. /\ pc' \in [Calls -> Phase]
      /\ pc'[c] = "refused"
      /\ \A d \in Calls \ {c} : pc'[d] = pc[d] \/ (pc[d] = "new" /\ pc'[d] = "refused")
  BY <1>1, Throws DEF CountInv, Ranges
<1>3. /\ c \in In(Waiting) /\ In(Waiting)' = In(Waiting) \ {c}
      /\ c \in In(Billed) /\ In(Billed)' = In(Billed) \ {c}
      /\ c \in In(HoldsPool) /\ In(HoldsPool)' = In(HoldsPool) \ {c}
      /\ In(HoldsRun)' = In(HoldsRun) \ {c}
  BY <1>1, <1>2, Phases DEF In
<1>4. Cardinality(In(Waiting)') = Cardinality(In(Waiting)) - 1
  BY <1>3, Left, Countable
<1>5. Cardinality(In(Billed)') = Cardinality(In(Billed)) - 1
  BY <1>3, Left, Countable
<1>6. /\ runFree' \in Int /\ poolFree' \in [Pools -> Int]
      /\ runFree' + Cardinality(In(HoldsRun)') = MaxParallel
      /\ \A p \in Pools : poolFree'[p] + Cardinality(InPool(p)') = PoolSize
  BY <1>1, <1>3, FreedCounts
<1>7. Ranges'
  BY <1>1, <1>2, <1>6 DEF CountInv, Ranges
<1>8. CountersHonest'
  BY <1>1, <1>4, <1>5, <1>6 DEF CountInv, CountersHonest
<1> QED
  BY <1>7, <1>8 DEF CountInv

\* The call comes to an end, its reservation stays used.
LEMMA EndedCounts ==
  ASSUME CountInv, NEW c \in Calls, HireFails(c) \/ Release(c)
  PROVE  CountInv'
<1>1. /\ run = "live" /\ run' = "live" /\ pc[c] \in {"hire", "created", "hired", "settled"}
      /\ pc' = [pc EXCEPT ![c] = "done"]
      /\ UNCHANGED <<admitted, pending>>
      /\ FreeSlots(c)
  BY DEF HireFails, HireRefusal, Release, Resolves
<1>2. /\ pc' \in [Calls -> Phase]
      /\ pc'[c] = "done" /\ \A d \in Calls \ {c} : pc'[d] = pc[d]
  BY <1>1, OneMoves, Phases DEF CountInv, Ranges
<1>3. /\ In(Waiting)' = In(Waiting) /\ In(Billed)' = In(Billed)
      /\ c \in In(HoldsPool) /\ In(HoldsPool)' = In(HoldsPool) \ {c}
      /\ In(HoldsRun)' = In(HoldsRun) \ {c}
  BY <1>1, <1>2, Phases DEF In
<1> QED
  BY <1>1, <1>2, <1>3, FreedCounts DEF CountInv, Ranges, CountersHonest

\* A process that starts holds nothing.
LEMMA FreshCounts ==
  ASSUME NEW f, f = [c \in Calls |-> "new"]
  PROVE  \A P \in {Waiting, Billed, HoldsRun, HoldsPool} : {c \in Calls : f[c] \in P} = {}
  BY Phases

LEMMA InitCounts == Init => CountInv
<1> SUFFICES ASSUME Init PROVE CountInv
  OBVIOUS
<1>1. /\ In(Waiting) = {} /\ In(Billed) = {} /\ In(HoldsRun) = {}
      /\ \A p : InPool(p) = {}
  BY FreshCounts DEF Init, In, InPool
<1>2. MaxParallel \in Int /\ PoolSize \in Int /\ Cardinality({}) = 0
  BY FS_EmptySet, LimitAssumption
<1>3. Ranges
  BY <1>2, Phases DEF Init, Ranges
<1>4. /\ admitted = 0 /\ pending = 0 /\ runFree = MaxParallel
      /\ \A p \in Pools : poolFree[p] = PoolSize
  BY DEF Init
<1>5. \A p \in Pools : poolFree[p] + Cardinality(InPool(p)) = PoolSize
  BY <1>1, <1>2, <1>4
<1>6. CountersHonest
  BY <1>1, <1>2, <1>4, <1>5 DEF CountersHonest
<1> QED
  BY <1>3, <1>6 DEF CountInv

LEMMA ResumeCounts ==
  ASSUME CountInv, Resume
  PROVE  CountInv'
<1>1. /\ In(Waiting)' = {} /\ In(Billed)' = {} /\ In(HoldsRun)' = {}
      /\ \A p : InPool(p)' = {}
  BY FreshCounts DEF Resume, In, InPool
<1>2. MaxParallel \in Int /\ PoolSize \in Int /\ Cardinality({}) = 0
  BY FS_EmptySet, LimitAssumption
<1>3. Ranges'
  BY <1>2, Phases DEF Resume, Ranges
<1>4. /\ admitted' = 0 /\ pending' = 0 /\ runFree' = MaxParallel
      /\ \A p \in Pools : poolFree'[p] = PoolSize
  BY DEF Resume
<1>5. \A p \in Pools : poolFree'[p] + Cardinality(InPool(p)') = PoolSize
  BY <1>1, <1>2, <1>4
<1>6. CountersHonest'
  BY <1>1, <1>2, <1>4, <1>5 DEF CountersHonest
<1> QED
  BY <1>3, <1>6 DEF CountInv

\* Steps of workers, time and the host, and the end of the process.
LEMMA OtherCounts ==
  ASSUME CountInv,
         \/ \E i \in DOMAIN sessions : WorkerEnds(i)
         \/ \E p \in Pools : BackoffPasses(p)
         \/ \E k \in DOMAIN idem : Forget(k)
         \/ Unpause \/ EndRun \/ WallClockPasses \/ Pause \/ Kill \/ UNCHANGED vars
  PROVE  CountInv'
<1>1. /\ UNCHANGED <<pc, admitted, pending, runFree, poolFree>>
      /\ run' = run \/ run' \in {"down", "ended"}
  BY DEF WorkerEnds, BackoffPasses, Forget, Unpause, EndRun, WallClockPasses, Pause, Kill, vars,
         scriptVars, schedVars
<1>2. \A P : In(P)' = In(P)
  BY <1>1 DEF In
<1>3. \A p : InPool(p)' = InPool(p)
  BY <1>2 DEF InPool
<1> QED
  BY <1>1, <1>2, <1>3 DEF CountInv, Ranges, CountersHonest

-----------------------------------------------------------------------------

LEMMA NextCounts == CountInv /\ [Next]_vars => CountInv'
<1> SUFFICES ASSUME CountInv, [Next]_vars PROVE CountInv'
  OBVIOUS
<1>1. ASSUME NEW c \in Calls, CallSteps(c) PROVE CountInv'
  BY <1>1, MovesWithinCounts, IssuedUncounted, QueuedCounts, RunSlotCounts, PoolSlotCounts,
     AdmitCounts, RefusedCounts, EndedCounts DEF CallSteps, MovesWithin
<1>2. ASSUME NEW c \in Calls,
             \/ HireLimited(c) \/ HireFails(c) \/ HireResent(c) \/ AwaitFails(c)
             \/ SchemaRetry(c)
      PROVE  CountInv'
  BY <1>2, MovesWithinCounts, EndedCounts DEF MovesWithin
<1> QED
  BY <1>1, <1>2, OtherCounts, ResumeCounts DEF Next, Progress, Mishap

\* The reservations, queue places and permits the scheduler counts are those
\* its calls hold, on every path out of `admit` and `dispatch`.
THEOREM SchedulerCountsHonest == Spec => []CountersHonest
<1>1. CountInv => CountersHonest
  BY DEF CountInv
<1> QED
  BY <1>1, InitCounts, NextCounts, PTL DEF Spec

-----------------------------------------------------------------------------
(* The sessions: what the daemon keeps of each.                            *)

Session == [call : Calls, seq : Int, node : Nat, turn : {"none", "busy", "ok", "failed"},
            up : BOOLEAN]

Mine == {i \in DOMAIN sessions : sessions[i].node = node}

HireInv ==
  /\ pc \in [Calls -> Phase]
  /\ admitted \in Int /\ admitted <= MaxAgents
  /\ node \in Nat /\ seqOf \in [Calls -> Int] /\ nextSeq \in Int
  /\ sessions \in Seq(Session)
  /\ \A i \in DOMAIN sessions : sessions[i].node <= node

\* A list with the entries changed and the length kept.
LEMMA SeqChanged ==
  ASSUME NEW S, NEW s \in Seq(S), NEW t, t \in [DOMAIN s -> S]
  PROVE  t \in Seq(S)
<1>1. DOMAIN s = 1 .. Len(s) /\ Len(s) \in Nat
  OBVIOUS
<1> QED
  BY <1>1, SeqDef

\* A list is a function on its domain; and a function, entry by entry.
LEMMA Entries ==
  /\ \A S : \A s \in Seq(S) : s \in [DOMAIN s -> S]
  /\ \A D, S, f : f = [i \in D |-> f[i]] /\ (\A i \in D : f[i] \in S) => f \in [D -> S]
<1>1. \A S : \A s \in Seq(S) : s \in [DOMAIN s -> S]
  OBVIOUS
<1>2. ASSUME NEW D, NEW S, NEW f, f = [i \in D |-> f[i]], \A i \in D : f[i] \in S
      PROVE  f \in [D -> S]
  BY <1>2, Zenon
<1> QED
  BY <1>1, <1>2

\* Steps that make no session.
KeepsHires ==
  /\ node' = node
  /\ sessions' \in [DOMAIN sessions -> Session]
  /\ \A i \in DOMAIN sessions :
       sessions'[i].call = sessions[i].call /\ sessions'[i].node = sessions[i].node
  /\ pc' \in [Calls -> Phase]

LEMMA KeepsHireInv ==
  ASSUME HireInv, KeepsHires, admitted' \in Int, admitted' <= MaxAgents,
         seqOf' \in [Calls -> Int], nextSeq' \in Int
  PROVE  HireInv'
<1>1. sessions' \in Seq(Session) /\ DOMAIN sessions' = DOMAIN sessions
  BY SeqChanged DEF HireInv, KeepsHires
<1>2. \A i \in DOMAIN sessions' : sessions'[i].node <= node'
  BY <1>1 DEF HireInv, KeepsHires
<1> QED
  BY <1>1, <1>2 DEF HireInv, KeepsHires

\* What a daemon, a worker or a stop does to the sessions.
LEMMA SessionsChanged ==
  ASSUME sessions \in Seq(Session),
         \/ \E D : sessions' = Tasked(D)
         \/ \E S : sessions' = Stopped(S)
         \/ \E i : \E t \in {"none", "busy", "ok", "failed"} :
              sessions' = [sessions EXCEPT ![i].turn = t]
         \/ sessions' = sessions
  PROVE  /\ sessions' \in [DOMAIN sessions -> Session]
         /\ \A i \in DOMAIN sessions :
              sessions'[i].call = sessions[i].call /\ sessions'[i].node = sessions[i].node
<1> DEFINE Turn == {"none", "busy", "ok", "failed"}
<1>1. sessions \in [DOMAIN sessions -> Session]
  OBVIOUS
<1>a. \A s \in Session, t \in Turn :
        LET r == [s EXCEPT !.turn = t]
        IN  r \in Session /\ r.call = s.call /\ r.node = s.node
  BY DEF Session
<1>d. \A s \in Session, t \in Turn :
        /\ [s EXCEPT !.up = FALSE, !.turn = t] \in Session
        /\ [s EXCEPT !.up = FALSE, !.turn = t].call = s.call
        /\ [s EXCEPT !.up = FALSE, !.turn = t].node = s.node
  BY DEF Session
<1>e. \A i \in DOMAIN sessions : sessions[i] \in Session
  BY <1>1
<1>b. \A i \in DOMAIN sessions : sessions[i].turn \in Turn
  BY <1>1 DEF Session
<1> HIDE DEF Turn
<1>2. CASE \E D : sessions' = Tasked(D)
  <2> PICK D : sessions' = Tasked(D)
    BY <1>2
  <2>1. \A i \in DOMAIN sessions :
          \E t \in Turn : sessions'[i] = [sessions[i] EXCEPT !.turn = t]
    <3>1. "busy" \in Turn
      BY DEF Turn
    <3> QED
      BY <3>1, <1>b DEF Tasked
  <2>2. sessions' = [i \in DOMAIN sessions |-> sessions'[i]]
    BY DEF Tasked
  <2>3. ASSUME NEW i \in DOMAIN sessions
        PROVE  /\ sessions'[i] \in Session
               /\ sessions'[i].call = sessions[i].call /\ sessions'[i].node = sessions[i].node
    <3>1. PICK t \in Turn : sessions'[i] = [sessions[i] EXCEPT !.turn = t]
      BY <2>1
    <3> QED
      BY <1>e, <1>a, <3>1
  <2> QED
    BY <2>2, <2>3, Entries
<1>3. CASE \E S : sessions' = Stopped(S)
  <2> PICK S : sessions' = Stopped(S)
    BY <1>3
  <2>1. \A i \in DOMAIN sessions :
          \/ sessions'[i] = sessions[i]
          \/ \E t \in Turn : sessions'[i] = [sessions[i] EXCEPT !.up = FALSE, !.turn = t]
    <3>1. "failed" \in Turn
      BY DEF Turn
    <3> QED
      BY <3>1, <1>b DEF Stopped
  <2>2. sessions' = [i \in DOMAIN sessions |-> sessions'[i]]
    BY DEF Stopped
  <2>3. ASSUME NEW i \in DOMAIN sessions
        PROVE  /\ sessions'[i] \in Session
               /\ sessions'[i].call = sessions[i].call /\ sessions'[i].node = sessions[i].node
    <3>1. CASE sessions'[i] = sessions[i]
      BY <1>e, <3>1
    <3>2. CASE \E t \in Turn : sessions'[i] = [sessions[i] EXCEPT !.up = FALSE, !.turn = t]
      <4>1. PICK t \in Turn : sessions'[i] = [sessions[i] EXCEPT !.up = FALSE, !.turn = t]
        BY <3>2
      <4>2. sessions[i] \in Session
        BY <1>e
      <4> DEFINE r == [sessions[i] EXCEPT !.up = FALSE, !.turn = t]
      <4>3. /\ r \in Session
            /\ r.call = sessions[i].call /\ r.node = sessions[i].node
        BY <4>2, <1>d
      <4> QED
        BY <4>1, <4>3
    <3> QED
      BY <2>1, <3>1, <3>2
  <2> QED
    BY <2>2, <2>3, Entries
<1>4. CASE \E i : \E t \in {"none", "busy", "ok", "failed"} :
              sessions' = [sessions EXCEPT ![i].turn = t]
  <2> PICK i : \E t \in Turn : sessions' = [sessions EXCEPT ![i].turn = t]
    BY <1>4 DEF Turn
  <2> PICK t \in Turn : sessions' = [sessions EXCEPT ![i].turn = t]
    OBVIOUS
  <2>1. CASE i \notin DOMAIN sessions
    <3>1. sessions' = sessions
      BY <1>1, <2>1
    <3> QED
      BY <1>1, <1>e, <3>1
  <2>2. CASE i \in DOMAIN sessions
    <3>1. sessions' = [sessions EXCEPT ![i] = [sessions[i] EXCEPT !.turn = t]]
      BY <2>2
    <3>2. /\ sessions'[i] = [sessions[i] EXCEPT !.turn = t]
          /\ \A k \in DOMAIN sessions \ {i} : sessions'[k] = sessions[k]
      BY <2>2, <3>1
    <3>3. \A k \in DOMAIN sessions :
            /\ sessions'[k] \in Session
            /\ sessions'[k].call = sessions[k].call /\ sessions'[k].node = sessions[k].node
      BY <1>e, <1>a, <3>2
    <3>4. sessions' = [k \in DOMAIN sessions |-> sessions'[k]]
      BY <1>1, <3>1
    <3> QED
      BY <3>3, <3>4, Entries
  <2> QED
    BY <2>1, <2>2
<1> QED
  BY <1>1, <1>2, <1>3, <1>4

\* Every step of a call but its queueing and its hire.
Plain(c) ==
  \/ IssueCached(c) \/ IssueBraked(c) \/ IssueOverAgents(c) \/ IssueQueueFull(c)
  \/ PassGate(c) \/ TakeRunSlot(c) \/ TakePoolSlot(c) \/ Admit(c) \/ AdmitRefused(c)
  \/ HireRecord(c) \/ HireReplay(c) \/ HireReturns(c) \/ HireAgain(c)
  \/ OutcomeArrives(c) \/ Release(c)
  \/ HireLimited(c) \/ HireFails(c) \/ HireResent(c) \/ AwaitFails(c) \/ SchemaRetry(c)

LEMMA PlainPhases ==
  ASSUME HireInv, NEW c \in Calls, Plain(c)
  PROVE  pc' \in [Calls -> Phase]
<1>0. pc \in [Calls -> Phase]
  BY DEF HireInv
<1>1. CASE IssueBraked(c) \/ IssueOverAgents(c) \/ IssueQueueFull(c) \/ AdmitRefused(c)
  <2>1. pc' = ThrowsTo(c) /\ pc[c] \in {"new", "spawn"}
    BY <1>1 DEF IssueBraked, IssueOverAgents, IssueQueueFull, AdmitRefused, IssueLive, Issued
  <2> QED
    BY <1>0, <2>1, Throws
<1>2. CASE HireFails(c) \/ Release(c)
  <2>1. pc' = [pc EXCEPT ![c] = "done"]
    BY <1>2 DEF HireFails, Release, Resolves
  <2> QED
    BY <1>0, <2>1, Phases, OneMoves
<1>3. CASE IssueCached(c)
  <2>1. pc' = [pc EXCEPT ![c] = "cached"] /\ pc[c] = "new"
    BY <1>3 DEF IssueCached, Issued
  <2> QED
    BY <1>0, <2>1, Phases, OneMoves
<1>4. CASE \/ PassGate(c) \/ TakeRunSlot(c) \/ TakePoolSlot(c) \/ Admit(c)
           \/ HireRecord(c) \/ HireReplay(c) \/ HireReturns(c) \/ HireAgain(c)
           \/ OutcomeArrives(c) \/ HireLimited(c) \/ HireResent(c) \/ AwaitFails(c)
           \/ SchemaRetry(c)
  <2>1. PICK from \in Phase, to \in Phase : Moves(c, from, to)
    BY <1>4, Phases DEF PassGate, TakeRunSlot, TakePoolSlot, Admit, HireRecord, HireReplay,
       HireReturns, HireAgain, OutcomeArrives, HireLimited, HireResent, AwaitFails, SchemaRetry
  <2>2. pc[c] = from /\ pc' = [pc EXCEPT ![c] = to]
    BY <2>1 DEF Moves
  <2> QED
    BY <1>0, <2>1, <2>2, OneMoves
<1> QED
  BY <1>1, <1>2, <1>3, <1>4 DEF Plain

LEMMA PlainSessions ==
  ASSUME HireInv, NEW c \in Calls, Plain(c)
  PROVE  /\ node' = node
         /\ sessions' \in [DOMAIN sessions -> Session]
         /\ \A i \in DOMAIN sessions :
              sessions'[i].call = sessions[i].call /\ sessions'[i].node = sessions[i].node
<1>1. node' = node
  BY DEF Plain, IssueCached, IssueBraked, IssueOverAgents, IssueQueueFull, IssueLive, Issued,
     PassGate, TakeRunSlot, TakePoolSlot, Admit, AdmitRefused, HireRecord, HireReplay, HireReturns,
     HireAgain, OutcomeArrives, Release, HireLimited, HireFails, HireResent, AwaitFails, SchemaRetry,
     clientVars
<1>2. \/ \E D : sessions' = Tasked(D)
      \/ \E S : sessions' = Stopped(S)
      \/ \E i : \E t \in {"none", "busy", "ok", "failed"} :
           sessions' = [sessions EXCEPT ![i].turn = t]
      \/ sessions' = sessions
  <2>1. CASE HireRecord(c)
    BY <2>1 DEF HireRecord
  <2>2. CASE Release(c)
    BY <2>2 DEF Release, Stops
  <2>3. CASE SchemaRetry(c)
    BY <2>3 DEF SchemaRetry
  <2>4. CASE HireResent(c)
    BY <2>4 DEF HireResent, daemonVars
  <2>5. CASE ~HireRecord(c) /\ ~Release(c) /\ ~SchemaRetry(c) /\ ~HireResent(c)
    BY <2>5 DEF Plain, IssueCached, IssueBraked, IssueOverAgents, IssueQueueFull, IssueLive, Issued,
       PassGate, TakeRunSlot, TakePoolSlot, Admit, AdmitRefused, HireReplay, HireReturns, HireAgain,
       OutcomeArrives, HireLimited, HireFails, AwaitFails, daemonVars
  <2> QED
    BY <2>1, <2>2, <2>3, <2>4, <2>5
<1>3. sessions \in Seq(Session)
  BY DEF HireInv
<1> HIDE DEF HireInv
<1> QED
  BY <1>1, <1>2, <1>3, SessionsChanged

LEMMA PlainNumbers ==
  ASSUME HireInv, NEW c \in Calls, Plain(c)
  PROVE  /\ admitted' \in Int /\ admitted' <= MaxAgents
         /\ seqOf' \in [Calls -> Int] /\ nextSeq' \in Int
<1>1. admitted' = admitted \/ admitted' = admitted - 1
  BY DEF Plain, IssueCached, IssueBraked, IssueOverAgents, IssueQueueFull,
     PassGate, TakeRunSlot, TakePoolSlot, Admit, AdmitRefused, HireRecord, HireReplay, HireReturns,
     HireAgain, OutcomeArrives, Release, HireLimited, HireFails, HireResent, AwaitFails, SchemaRetry,
     schedVars
<1>2. \/ seqOf' = [seqOf EXCEPT ![c] = nextSeq] /\ nextSeq' = nextSeq + 1
      \/ UNCHANGED <<seqOf, nextSeq>>
  BY DEF Plain, IssueCached, IssueBraked, IssueOverAgents, IssueQueueFull, IssueLive, Issued, Moves,
     PassGate, TakeRunSlot, TakePoolSlot, Admit, AdmitRefused, HireRecord, HireReplay, HireReturns,
     HireAgain, OutcomeArrives, Release, HireLimited, HireFails, HireResent, AwaitFails, SchemaRetry,
     Resolves
<1>3. MaxAgents \in Int
  BY LimitAssumption
<1> QED
  BY <1>1, <1>2, <1>3 DEF HireInv

LEMMA PlainHires ==
  ASSUME HireInv, NEW c \in Calls, Plain(c)
  PROVE  HireInv'
  BY PlainPhases, PlainSessions, PlainNumbers, KeepsHireInv DEF KeepsHires

\* The queue: a reservation more, which the brake allowed.
LEMMA QueuedHires ==
  ASSUME HireInv, NEW c \in Calls, IssueQueued(c)
  PROVE  HireInv'
<1>1. /\ pc' = [pc EXCEPT ![c] = "gate"] /\ pc[c] = "new"
      /\ admitted' = admitted + 1 /\ admitted < MaxAgents
      /\ seqOf' = [seqOf EXCEPT ![c] = nextSeq] /\ nextSeq' = nextSeq + 1
      /\ UNCHANGED <<sessions, node>>
  BY DEF IssueQueued, IssueLive, Issued, daemonVars
<1>2. pc' \in [Calls -> Phase]
  BY <1>1, Phases, OneMoves DEF HireInv
<1>3. KeepsHires
  BY <1>1, <1>2, SessionsChanged DEF HireInv, KeepsHires
<1>4. MaxAgents \in Int
  BY LimitAssumption
<1>5. admitted' \in Int /\ admitted' <= MaxAgents
  BY <1>1, <1>4 DEF HireInv
<1>6. seqOf' \in [Calls -> Int] /\ nextSeq' \in Int
  BY <1>1 DEF HireInv
<1> QED
  BY <1>3, <1>5, <1>6, KeepsHireInv

\* A hire: a session more, of this life.
LEMMA CreatedHires ==
  ASSUME HireInv, NEW c \in Calls, HireCreate(c)
  PROVE  HireInv'
<1> DEFINE new == [call |-> c, seq |-> seqOf[c], node |-> node, turn |-> "none", up |-> TRUE]
<1>1. /\ pc' = [pc EXCEPT ![c] = "created"] /\ pc[c] = "hire"
      /\ sessions' = Append(sessions, new)
      /\ UNCHANGED <<admitted, node, seqOf, nextSeq>>
  BY DEF HireCreate, Moves, schedVars
<1>2. /\ pc' \in [Calls -> Phase]
      /\ pc'[c] = "created" /\ \A d \in Calls \ {c} : pc'[d] = pc[d]
  BY <1>1, Phases, OneMoves DEF HireInv
<1>3. new \in Session
  BY DEF HireInv, Session
<1>4. sessions \in Seq(Session)
  BY DEF HireInv
<1> HIDE DEF new
<1>5. /\ sessions' \in Seq(Session)
      /\ DOMAIN sessions = 1 .. Len(sessions) /\ Len(sessions) \in Nat
      /\ DOMAIN sessions' = 1 .. Len(sessions) + 1
      /\ sessions'[Len(sessions) + 1] = new
      /\ \A i \in DOMAIN sessions : sessions'[i] = sessions[i]
  BY <1>1, <1>3, <1>4
<1>6. new.call = c /\ new.node = node
  BY DEF new
<1>7. \A i \in DOMAIN sessions' : sessions'[i].node <= node'
  BY <1>1, <1>5, <1>6 DEF HireInv
<1>8. /\ admitted' \in Int /\ admitted' <= MaxAgents
      /\ node' \in Nat /\ seqOf' \in [Calls -> Int] /\ nextSeq' \in Int
  BY <1>1 DEF HireInv
<1> QED
  BY <1>2, <1>5, <1>7, <1>8 DEF HireInv

\* Workers, time, the host, the end of a run and of a process.
LEMMA OtherHires ==
  ASSUME HireInv,
         \/ \E i \in DOMAIN sessions : WorkerEnds(i)
         \/ \E p \in Pools : BackoffPasses(p)
         \/ \E k \in DOMAIN idem : Forget(k)
         \/ Unpause \/ EndRun \/ WallClockPasses \/ Pause \/ Kill \/ UNCHANGED vars
  PROVE  HireInv'
<1>1. UNCHANGED <<pc, admitted, node, seqOf, nextSeq>>
  BY DEF WorkerEnds, BackoffPasses, Forget, Unpause, EndRun, WallClockPasses, Pause, Kill, vars,
     scriptVars, schedVars, clientVars
<1>2. \/ \E D : sessions' = Tasked(D)
      \/ \E S : sessions' = Stopped(S)
      \/ \E i : \E t \in {"none", "busy", "ok", "failed"} :
           sessions' = [sessions EXCEPT ![i].turn = t]
      \/ sessions' = sessions
  <2>1. CASE \E i \in DOMAIN sessions : WorkerEnds(i)
    BY <2>1 DEF WorkerEnds
  <2>2. CASE EndRun
    BY <2>2 DEF EndRun, Stops
  <2>3. CASE Kill
    BY <2>3 DEF Kill
  <2>4. CASE \/ \E p \in Pools : BackoffPasses(p)
             \/ \E k \in DOMAIN idem : Forget(k)
             \/ Unpause \/ WallClockPasses \/ Pause \/ UNCHANGED vars
    BY <2>4 DEF BackoffPasses, Forget, Unpause, WallClockPasses, Pause, vars, daemonVars
  <2> QED
    BY <2>1, <2>2, <2>3, <2>4
<1>3. KeepsHires
  BY <1>1, <1>2, SessionsChanged DEF HireInv, KeepsHires
<1> QED
  BY <1>1, <1>3, KeepsHireInv DEF HireInv

\* A new process has a node of its own, under which nothing was hired yet.
LEMMA ResumeHires ==
  ASSUME HireInv, Resume
  PROVE  HireInv'
<1>1. /\ pc' = [c \in Calls |-> "new"] /\ admitted' = 0 /\ node' = node + 1
      /\ seqOf' = [c \in Calls |-> 0] /\ nextSeq' = 0 /\ sessions' = sessions
  BY DEF Resume, daemonVars
<1>2. MaxAgents \in Nat
  BY LimitAssumption
<1>3. \A i \in DOMAIN sessions : sessions[i].node \in Nat
  <2>1. \A i \in DOMAIN sessions : sessions[i] \in Session
    BY Entries DEF HireInv
  <2> QED
    BY <2>1 DEF Session
<1>4. \A i \in DOMAIN sessions' : sessions'[i].node <= node'
  BY <1>1, <1>3 DEF HireInv
<1>5. pc' \in [Calls -> Phase]
  BY <1>1, Phases
<1> QED
  BY <1>1, <1>2, <1>4, <1>5 DEF HireInv

LEMMA InitHires == Init => HireInv
<1> SUFFICES ASSUME Init PROVE HireInv
  OBVIOUS
<1>1. /\ pc = [c \in Calls |-> "new"] /\ admitted = 0 /\ node = 0
      /\ seqOf = [c \in Calls |-> 0] /\ nextSeq = 0 /\ sessions = << >>
  BY DEF Init
<1>2. MaxAgents \in Nat
  BY LimitAssumption
<1>3. sessions \in Seq(Session) /\ DOMAIN sessions = {}
  BY <1>1
<1>4. pc \in [Calls -> Phase]
  BY <1>1, Phases
<1> QED
  BY <1>1, <1>2, <1>3, <1>4 DEF HireInv

LEMMA NextHires == HireInv /\ [Next]_vars => HireInv'
<1> SUFFICES ASSUME HireInv, [Next]_vars PROVE HireInv'
  OBVIOUS
<1>1. ASSUME NEW c \in Calls,
             \/ CallSteps(c) \/ HireLimited(c) \/ HireFails(c) \/ HireResent(c)
             \/ AwaitFails(c) \/ SchemaRetry(c)
      PROVE  HireInv'
  BY <1>1, PlainHires, QueuedHires, CreatedHires DEF CallSteps, Plain
<1> QED
  BY <1>1, OtherHires, ResumeHires DEF Next, Progress, Mishap

-----------------------------------------------------------------------------
(* Past a limit.                                                           *)

\* Only the end of `admit` starts a call, and it looks at the limits again: what
\* was reserved before one of them tripped does not start after.
THEOREM NoCallSneaksPast == Spec => NoneSneaksPast
<1>1. ASSUME HireInv, [Next]_vars, Over # "none", NEW c \in Calls, pc'[c] \in Started
      PROVE  pc[c] \in Started
  <2>0. pc \in [Calls -> Phase]
    BY <1>1 DEF HireInv
  <2>1. ASSUME NEW d \in Calls,
               \/ CallSteps(d) \/ HireLimited(d) \/ HireFails(d) \/ HireResent(d)
               \/ AwaitFails(d) \/ SchemaRetry(d)
        PROVE  pc[c] \in Started
    <3>1. CASE \/ IssueBraked(d) \/ IssueOverAgents(d) \/ IssueQueueFull(d) \/ AdmitRefused(d)
      <4>1. pc' = ThrowsTo(d)
        BY <3>1 DEF IssueBraked, IssueOverAgents, IssueQueueFull, AdmitRefused
      <4>2. pc'[c] = "refused" \/ pc'[c] = pc[c]
        BY <2>0, <4>1, Throws
      <4> QED
        BY <1>1, <4>2 DEF Started
    <3>2. CASE IssueCached(d) \/ IssueQueued(d) \/ HireFails(d) \/ Release(d)
      <4>1. PICK to \in {"cached", "gate", "done"} : pc' = [pc EXCEPT ![d] = to]
        BY <3>2 DEF IssueCached, IssueQueued, HireFails, Release, Resolves
      <4>2. pc'[c] = to \/ pc'[c] = pc[c]
        BY <2>0, <4>1
      <4> QED
        BY <1>1, <4>2 DEF Started
    <3>3. CASE Admit(d)
      BY <1>1, <3>3 DEF Admit
    <3>4. CASE \/ PassGate(d) \/ TakeRunSlot(d) \/ TakePoolSlot(d)
               \/ HireCreate(d) \/ HireRecord(d) \/ HireReplay(d) \/ HireReturns(d) \/ HireAgain(d)
               \/ OutcomeArrives(d) \/ HireLimited(d) \/ HireResent(d) \/ AwaitFails(d)
               \/ SchemaRetry(d)
      <4>1. PICK from \in Phase, to \in Phase : Moves(d, from, to) /\ (to \in Started => from \in Started)
        BY <3>4, Phases DEF PassGate, TakeRunSlot, TakePoolSlot, HireCreate, HireRecord,
           HireReplay, HireReturns, HireAgain, OutcomeArrives, HireLimited, HireResent, AwaitFails,
           SchemaRetry, Started
      <4>2. pc[d] = from /\ pc' = [pc EXCEPT ![d] = to]
        BY <4>1 DEF Moves
      <4>3. pc'[c] = pc[c] \/ (c = d /\ pc'[c] = to)
        BY <2>0, <4>2
      <4> QED
        BY <1>1, <4>1, <4>2, <4>3
    <3> QED
      BY <2>1, <3>1, <3>2, <3>3, <3>4 DEF CallSteps
  <2>2. CASE Resume
    BY <1>1, <2>2 DEF Resume, Started
  <2>3. CASE \/ \E i \in DOMAIN sessions : WorkerEnds(i)
             \/ \E p \in Pools : BackoffPasses(p)
             \/ \E k \in DOMAIN idem : Forget(k)
             \/ Unpause \/ EndRun \/ WallClockPasses \/ Pause \/ Kill \/ UNCHANGED vars
    <3>1. pc' = pc
      BY <2>3 DEF WorkerEnds, BackoffPasses, Forget, Unpause, EndRun, WallClockPasses, Pause, Kill,
         vars, scriptVars
    <3> QED
      BY <1>1, <3>1
  <2> QED
    BY <1>1, <2>1, <2>2, <2>3 DEF Next, Progress, Mishap
<1>2. HireInv /\ [Next]_vars =>
        [Over # "none" => \A c \in Calls : pc'[c] \in Started => pc[c] \in Started]_vars
  BY <1>1
<1> QED
  BY <1>2, InitHires, NextHires, PTL DEF Spec, NoneSneaksPast

-----------------------------------------------------------------------------
(* The place of a call: `seq` numbers the calls in the order they are       *)
(* issued, so it never leaves the places of the journal.                   *)

Begun == {c \in Calls : pc[c] # "new"}

SeqInv ==
  /\ nextSeq \in Nat /\ nextSeq <= Cardinality(Begun)
  /\ seqOf \in [Calls -> Seqs]

\* Begun calls can be counted, and no more have begun than there are.
LEMMA BegunCounts ==
  /\ IsFiniteSet(Begun) /\ Cardinality(Begun) \in Nat /\ Cardinality(Calls) \in Nat
  /\ \A c \in Calls : pc[c] = "new" => Cardinality(Begun) < Cardinality(Calls)
<1>1. Begun \in SUBSET Calls
  BY DEF Begun
<1>2. /\ IsFiniteSet(Begun) /\ Cardinality(Begun) \in Nat /\ Cardinality(Calls) \in Nat
      /\ Cardinality(Begun) <= Cardinality(Calls)
      /\ Cardinality(Begun) = Cardinality(Calls) => Begun = Calls
  BY <1>1, CallsAssumption, FS_Subset, FS_CardinalityType
<1>3. \A c \in Calls : pc[c] = "new" => Begun # Calls
  BY DEF Begun
<1> QED
  BY <1>2, <1>3

\* The step of a call: one takes the next place, or none does.
LEMMA PlacesTaken ==
  ASSUME HireInv, NEW c \in Calls,
         \/ CallSteps(c) \/ HireLimited(c) \/ HireFails(c) \/ HireResent(c)
         \/ AwaitFails(c) \/ SchemaRetry(c)
  PROVE  /\ Begun \subseteq Begun'
         /\ \/ Issued(c) /\ c \in Begun' /\ c \notin Begun
            \/ UNCHANGED <<seqOf, nextSeq>>
<1>0. pc \in [Calls -> Phase]
  BY DEF HireInv
<1>1. CASE IssueBraked(c) \/ IssueOverAgents(c) \/ IssueQueueFull(c) \/ AdmitRefused(c)
  <2>1. pc' = ThrowsTo(c)
    BY <1>1 DEF IssueBraked, IssueOverAgents, IssueQueueFull, AdmitRefused
  <2>2. Begun \subseteq Begun' /\ c \in Begun'
    BY <1>0, <2>1, Throws DEF Begun
  <2>3. \/ Issued(c) /\ pc[c] = "new"
        \/ UNCHANGED <<seqOf, nextSeq>>
    BY <1>1 DEF IssueBraked, IssueOverAgents, IssueQueueFull, AdmitRefused, IssueLive, Issued
  <2> QED
    BY <2>2, <2>3 DEF Begun
<1>2. CASE IssueCached(c) \/ IssueQueued(c)
  <2>1. Issued(c) /\ pc[c] = "new" /\ \E to \in {"cached", "gate"} : pc' = [pc EXCEPT ![c] = to]
    BY <1>2 DEF IssueCached, IssueQueued, IssueLive, Issued
  <2> QED
    BY <1>0, <2>1, OneMoves DEF Begun
<1>3. CASE \/ PassGate(c) \/ TakeRunSlot(c) \/ TakePoolSlot(c) \/ Admit(c)
           \/ HireCreate(c) \/ HireRecord(c) \/ HireReplay(c) \/ HireReturns(c) \/ HireAgain(c)
           \/ OutcomeArrives(c) \/ HireLimited(c) \/ AwaitFails(c) \/ SchemaRetry(c)
           \/ HireFails(c) \/ HireResent(c) \/ Release(c)
  <2>1. /\ \E to \in Phase \ {"new"} : pc' = [pc EXCEPT ![c] = to]
        /\ UNCHANGED <<seqOf, nextSeq>>
    BY <1>3, Phases DEF PassGate, TakeRunSlot, TakePoolSlot, Admit, HireCreate, HireRecord,
       HireReplay, HireReturns, HireAgain, OutcomeArrives, HireLimited, AwaitFails, SchemaRetry,
       HireFails, HireResent, Release, Resolves, Moves
  <2> QED
    BY <1>0, <2>1, OneMoves DEF Begun
<1> QED
  BY <1>1, <1>2, <1>3 DEF CallSteps

\* A script with a call has a first place.
LEMMA FirstPlace == ASSUME NEW c \in Calls PROVE 0 \in Seqs
<1>1. Calls # {} /\ Cardinality(Calls) \in Nat
  BY CallsAssumption, FS_CardinalityType
<1>2. Cardinality(Calls) # 0
  BY <1>1, CallsAssumption, FS_EmptySet
<1> QED
  BY <1>1, <1>2 DEF Seqs

LEMMA NextPlaces == HireInv /\ SeqInv /\ [Next]_vars => SeqInv'
<1> SUFFICES ASSUME HireInv, SeqInv, [Next]_vars PROVE SeqInv'
  OBVIOUS
<1>1. ASSUME NEW c \in Calls,
             \/ CallSteps(c) \/ HireLimited(c) \/ HireFails(c) \/ HireResent(c)
             \/ AwaitFails(c) \/ SchemaRetry(c)
      PROVE  SeqInv'
  <2>0. /\ IsFiniteSet(Begun) /\ Cardinality(Begun) \in Nat /\ Cardinality(Calls) \in Nat
        /\ pc[c] = "new" => Cardinality(Begun) < Cardinality(Calls)
    BY BegunCounts
  <2>1. IsFiniteSet(Begun') /\ Cardinality(Begun') \in Nat
    BY CallsAssumption, FS_Subset, FS_CardinalityType DEF Begun
  <2>2. CASE Issued(c) /\ c \in Begun' /\ c \notin Begun /\ Begun \subseteq Begun'
    <3>1. pc[c] = "new" /\ seqOf' = [seqOf EXCEPT ![c] = nextSeq] /\ nextSeq' = nextSeq + 1
      BY <2>2 DEF Issued
    <3>2. nextSeq \in Seqs
      BY <2>0, <3>1 DEF SeqInv, Seqs
    <3>3. /\ IsFiniteSet(Begun \union {c})
          /\ Cardinality(Begun \union {c}) = Cardinality(Begun) + 1
      BY <2>0, <2>2, FS_AddElement
    <3>4. Cardinality(Begun \union {c}) <= Cardinality(Begun')
      BY <2>1, <2>2, FS_Subset
    <3> QED
      BY <2>0, <2>1, <3>1, <3>2, <3>3, <3>4 DEF SeqInv
  <2>3. CASE UNCHANGED <<seqOf, nextSeq>> /\ Begun \subseteq Begun'
    <3>1. Cardinality(Begun) <= Cardinality(Begun')
      BY <2>1, <2>3, FS_Subset
    <3> QED
      BY <2>0, <2>1, <2>3, <3>1 DEF SeqInv
  <2> QED
    BY <1>1, <2>2, <2>3, PlacesTaken
<1>2. CASE Resume
  <2>1. /\ nextSeq' = 0 /\ seqOf' = [c \in Calls |-> 0]
    BY <1>2 DEF Resume
  <2>2. Begun' = {} /\ Cardinality({}) = 0
    BY <1>2, FS_EmptySet DEF Resume, Begun
  <2> QED
    BY <2>1, <2>2, FirstPlace DEF SeqInv
<1>3. CASE \/ \E i \in DOMAIN sessions : WorkerEnds(i)
           \/ \E p \in Pools : BackoffPasses(p)
           \/ \E k \in DOMAIN idem : Forget(k)
           \/ Unpause \/ EndRun \/ WallClockPasses \/ Pause \/ Kill \/ UNCHANGED vars
  <2>1. UNCHANGED <<pc, seqOf, nextSeq>>
    BY <1>3 DEF WorkerEnds, BackoffPasses, Forget, Unpause, EndRun, WallClockPasses, Pause, Kill,
       vars, scriptVars
  <2> QED
    BY <2>1 DEF SeqInv, Begun
<1> QED
  BY <1>1, <1>2, <1>3 DEF Next, Progress, Mishap

LEMMA InitPlaces == Init => SeqInv
<1> SUFFICES ASSUME Init PROVE SeqInv
  OBVIOUS
<1>1. Begun = {} /\ Cardinality({}) = 0
  BY FS_EmptySet DEF Init, Begun
<1> QED
  BY <1>1, FirstPlace DEF Init, SeqInv

-----------------------------------------------------------------------------
(* Whose session a memo names.  Journal lines, replay keys and what a call  *)
(* holds name sessions hired for that very call.                           *)

Entry == [call : Calls \union {0}, sid : Nat, done : BOOLEAN]

\* What a memo about a call may hold: no session, or one hired for the call.
SessionsOf ==
  [c \in Calls \union {0} |-> {NoSid} \union {i \in DOMAIN sessions : sessions[i].call = c}]

MemoInv ==
  /\ answer \in [Calls -> Nat] /\ sid \in [Calls -> Nat] /\ tracked \subseteq DOMAIN sessions
  /\ file \in [Seqs -> Entry] /\ prior \in [Seqs -> Entry] /\ idem \in [Seqs \X Calls -> Nat]
  /\ \A c \in Calls : answer[c] \in SessionsOf[c] /\ sid[c] \in SessionsOf[c]
  /\ \A s \in Seqs : file[s].sid \in SessionsOf[file[s].call] /\ prior[s].sid \in SessionsOf[prior[s].call]
  /\ \A k \in Seqs \X Calls : idem[k] \in SessionsOf[k[2]]

\* A session stays where it is and stays the session of its call and process.
LEMMA SessionsLast ==
  ASSUME HireInv, [Next]_vars
  PROVE  \A i \in DOMAIN sessions :
           /\ i \in DOMAIN sessions'
           /\ sessions'[i].call = sessions[i].call /\ sessions'[i].node = sessions[i].node
<1>0. sessions \in Seq(Session)
  BY DEF HireInv
<1>1. ASSUME NEW c \in Calls, HireCreate(c)
      PROVE  \A i \in DOMAIN sessions : i \in DOMAIN sessions' /\ sessions'[i] = sessions[i]
  <2>1. \E new : sessions' = Append(sessions, new)
    BY <1>1 DEF HireCreate
  <2> QED
    BY <1>0, <2>1
<1>2. ASSUME NEW c \in Calls, IssueQueued(c) PROVE sessions' = sessions
  BY <1>2 DEF IssueQueued, IssueLive, Issued, daemonVars
<1>3. ASSUME NEW c \in Calls, Plain(c)
      PROVE  /\ sessions' \in [DOMAIN sessions -> Session]
             /\ \A i \in DOMAIN sessions :
                  sessions'[i].call = sessions[i].call /\ sessions'[i].node = sessions[i].node
  BY <1>3, PlainSessions
<1>4. ASSUME NEW c \in Calls,
             \/ CallSteps(c) \/ HireLimited(c) \/ HireFails(c) \/ HireResent(c)
             \/ AwaitFails(c) \/ SchemaRetry(c)
      PROVE  HireCreate(c) \/ IssueQueued(c) \/ Plain(c)
  BY <1>4 DEF CallSteps, Plain
<1>5. CASE Resume
  BY <1>5 DEF Resume, daemonVars
<1>6. CASE \/ \E i \in DOMAIN sessions : WorkerEnds(i)
           \/ \E p \in Pools : BackoffPasses(p)
           \/ \E k \in DOMAIN idem : Forget(k)
           \/ Unpause \/ EndRun \/ WallClockPasses \/ Pause \/ Kill \/ UNCHANGED vars
  <2>2. \/ \E D : sessions' = Tasked(D)
        \/ \E S : sessions' = Stopped(S)
        \/ \E i : \E t \in {"none", "busy", "ok", "failed"} :
             sessions' = [sessions EXCEPT ![i].turn = t]
        \/ sessions' = sessions
    <3>1. CASE \E i \in DOMAIN sessions : WorkerEnds(i)
      BY <3>1 DEF WorkerEnds
    <3>2. CASE EndRun
      BY <3>2 DEF EndRun, Stops
    <3>3. CASE Kill
      BY <3>3 DEF Kill
    <3>4. CASE \/ \E p \in Pools : BackoffPasses(p)
               \/ \E k \in DOMAIN idem : Forget(k)
               \/ Unpause \/ WallClockPasses \/ Pause \/ UNCHANGED vars
      BY <3>4 DEF BackoffPasses, Forget, Unpause, WallClockPasses, Pause, vars, daemonVars
    <3> QED
      BY <1>6, <3>1, <3>2, <3>3, <3>4
  <2>3. /\ sessions' \in [DOMAIN sessions -> Session]
        /\ \A i \in DOMAIN sessions :
             sessions'[i].call = sessions[i].call /\ sessions'[i].node = sessions[i].node
    BY <1>0, <2>2, SessionsChanged
  <2> QED
    BY <2>3
<1>7. \/ \E c \in Calls : HireCreate(c) \/ IssueQueued(c) \/ Plain(c)
      \/ Resume
      \/ \E i \in DOMAIN sessions : WorkerEnds(i)
      \/ \E p \in Pools : BackoffPasses(p)
      \/ \E k \in DOMAIN idem : Forget(k)
      \/ Unpause \/ EndRun \/ WallClockPasses \/ Pause \/ Kill \/ UNCHANGED vars
  BY <1>4 DEF Next, Progress, Mishap
<1> QED
  BY <1>1, <1>2, <1>3, <1>5, <1>6, <1>7

\* So what a call's memos may hold only grows.
LEMMA OwnersGrow ==
  ASSUME HireInv, [Next]_vars
  PROVE  /\ DOMAIN sessions \subseteq DOMAIN sessions'
         /\ \A c \in Calls \union {0} : SessionsOf[c] \subseteq SessionsOf'[c]
         /\ \A c \in Calls \union {0} : NoSid \in SessionsOf'[c]
<1>1. \A i \in DOMAIN sessions : i \in DOMAIN sessions' /\ sessions'[i].call = sessions[i].call
  BY SessionsLast
<1> QED
  BY <1>1 DEF SessionsOf

\* A step that writes nothing into a memo but a session of its call.
MemoStep ==
  /\ answer' \in [Calls -> Nat] /\ \A c \in Calls : answer'[c] \in {answer[c]} \union SessionsOf'[c]
  /\ sid' \in [Calls -> Nat] /\ \A c \in Calls : sid'[c] \in {sid[c]} \union SessionsOf'[c]
  /\ tracked' \subseteq DOMAIN sessions'
  /\ file' \in [Seqs -> Entry]
  /\ \A s \in Seqs : file'[s] = file[s] \/ file'[s].sid \in SessionsOf'[file'[s].call]
  /\ prior' = prior \/ prior' = file
  /\ idem' \in [Seqs \X Calls -> Nat]
  /\ \A k \in Seqs \X Calls : idem'[k] \in {idem[k]} \union SessionsOf'[k[2]]

LEMMA MemoStepKeeps ==
  ASSUME MemoInv, HireInv, [Next]_vars, MemoStep
  PROVE  MemoInv'
<1>1. /\ DOMAIN sessions \subseteq DOMAIN sessions'
      /\ \A c \in Calls \union {0} : SessionsOf[c] \subseteq SessionsOf'[c]
  BY OwnersGrow
<1>2. \A c \in Calls : answer'[c] \in SessionsOf'[c] /\ sid'[c] \in SessionsOf'[c]
  BY <1>1 DEF MemoInv, MemoStep
<1>3. \A s \in Seqs : file[s].call \in Calls \union {0} /\ prior[s].call \in Calls \union {0}
  BY DEF MemoInv, Entry
<1>4. \A s \in Seqs : /\ file[s].sid \in SessionsOf'[file[s].call]
                      /\ prior[s].sid \in SessionsOf'[prior[s].call]
  BY <1>1, <1>3 DEF MemoInv
<1>5. \A s \in Seqs : file'[s].sid \in SessionsOf'[file'[s].call]
  BY <1>4 DEF MemoStep
<1>6. /\ \A s \in Seqs : prior'[s].sid \in SessionsOf'[prior'[s].call]
      /\ prior' \in [Seqs -> Entry]
  BY <1>4 DEF MemoStep, MemoInv
<1>7. \A k \in Seqs \X Calls : idem'[k] \in SessionsOf'[k[2]]
  BY <1>1 DEF MemoInv, MemoStep
<1> QED
  BY <1>2, <1>5, <1>6, <1>7 DEF MemoInv, MemoStep

\* What a call's step finds: its place is one of the journal's.
LEMMA Places ==
  ASSUME SeqInv, NEW c \in Calls
  PROVE  /\ seqOf[c] \in Seqs /\ Key(c) \in Seqs \X Calls /\ Key(c)[2] = c
         /\ Issued(c) => nextSeq \in Seqs
<1>1. pc[c] = "new" => Cardinality(Begun) < Cardinality(Calls)
  BY BegunCounts
<1>2. Cardinality(Begun) \in Nat /\ Cardinality(Calls) \in Nat
  BY BegunCounts
<1>3. Issued(c) => nextSeq \in Seqs
  BY <1>1, <1>2 DEF Issued, SeqInv, Seqs
<1> QED
  BY <1>3 DEF SeqInv, Key

\* A line of a call names no session, or one of the call.
LEMMA LineWritten ==
  ASSUME MemoInv, NEW s \in Seqs, NEW l \in Entry, NEW B, Journals(s, l, B),
         l.sid \in SessionsOf'[l.call]
  PROVE  /\ file' \in [Seqs -> Entry]
         /\ \A t \in Seqs : file'[t] = file[t] \/ file'[t].sid \in SessionsOf'[file'[t].call]
<1>1. file' = file \/ file' = [file EXCEPT ![s] = l]
  BY DEF Journals
<1> QED
  BY <1>1 DEF MemoInv

\* Steps that write no memo.
LEMMA NoMemoWritten ==
  ASSUME MemoInv, HireInv, [Next]_vars,
         UNCHANGED <<answer, sid, file, prior, idem>>, tracked' \subseteq DOMAIN sessions'
  PROVE  MemoStep
  BY DEF MemoInv, MemoStep

\* A call that is issued: what the journal has at its place is of the call.
LEMMA IssueMemos ==
  ASSUME MemoInv, HireInv, SeqInv, [Next]_vars, NEW c \in Calls,
         \/ IssueCached(c) \/ IssueBraked(c) \/ IssueOverAgents(c) \/ IssueQueueFull(c)
         \/ IssueQueued(c)
  PROVE  MemoStep
<1>1. Issued(c) /\ nextSeq \in Seqs /\ UNCHANGED <<file, prior, idem, tracked>>
  <2>1. Issued(c) /\ tracked' = tracked
    BY DEF IssueCached, IssueBraked, IssueOverAgents, IssueQueueFull, IssueQueued, IssueLive
  <2> QED
    BY <2>1, Places DEF Issued, daemonVars
<1>2. /\ DOMAIN sessions \subseteq DOMAIN sessions' /\ SessionsOf[c] \subseteq SessionsOf'[c]
      /\ NoSid \in SessionsOf'[c]
  BY OwnersGrow
<1>3. prior[nextSeq].call = c => prior[nextSeq].sid \in Nat /\ prior[nextSeq].sid \in SessionsOf'[c]
  BY <1>1, <1>2 DEF MemoInv, Entry
<1>4. CASE IssueCached(c)
  <2>1. /\ answer' = [answer EXCEPT ![c] = prior[nextSeq].sid] /\ sid' = sid
        /\ prior[nextSeq].call = c
    BY <1>4 DEF IssueCached, Cached
  <2> QED
    BY <1>1, <1>2, <1>3, <2>1 DEF MemoInv, MemoStep
<1>5. CASE IssueLive(c)
  <2>1. /\ answer' = answer
        /\ sid' = [sid EXCEPT ![c] = IF InFlight(c) THEN prior[nextSeq].sid ELSE NoSid]
    BY <1>5 DEF IssueLive
  <2>2. InFlight(c) => prior[nextSeq].call = c
    BY DEF InFlight
  <2> DEFINE new == IF InFlight(c) THEN prior[nextSeq].sid ELSE NoSid
  <2>3. new \in Nat /\ new \in SessionsOf'[c]
    BY <1>2, <1>3, <2>2 DEF NoSid
  <2>4. sid' = [sid EXCEPT ![c] = new]
    BY <2>1
  <2> HIDE DEF new
  <2> QED
    BY <1>1, <1>2, <2>1, <2>3, <2>4 DEF MemoInv, MemoStep
<1> QED
  BY <1>4, <1>5 DEF IssueBraked, IssueOverAgents, IssueQueueFull, IssueQueued

\* A hire: a new session, its record, the replay of a record, or once more.
LEMMA HireMemos ==
  ASSUME MemoInv, HireInv, SeqInv, [Next]_vars, NEW c \in Calls,
         HireCreate(c) \/ HireRecord(c) \/ HireReplay(c) \/ HireResent(c)
  PROVE  MemoStep
<1>1. /\ DOMAIN sessions \subseteq DOMAIN sessions' /\ SessionsOf[c] \subseteq SessionsOf'[c]
      /\ Key(c) \in Seqs \X Calls /\ Key(c)[2] = c
  BY OwnersGrow, Places
<1>2. UNCHANGED <<answer, file, prior, tracked>>
  BY DEF HireCreate, HireRecord, HireReplay, HireResent, Moves, journalVars, clientVars
<1>3. CASE HireCreate(c)
  <2> DEFINE new == [call |-> c, seq |-> seqOf[c], node |-> node, turn |-> "none", up |-> TRUE]
  <2>1. /\ sessions' = Append(sessions, new)
        /\ sid' = [sid EXCEPT ![c] = Len(sessions) + 1] /\ idem' = idem
    BY <1>3 DEF HireCreate
  <2>2. new.call = c
    OBVIOUS
  <2>3. sessions \in Seq(Session)
    BY DEF HireInv
  <2> HIDE DEF new
  <2>4. /\ Len(sessions) + 1 \in Nat /\ Len(sessions) + 1 \in DOMAIN sessions'
        /\ sessions'[Len(sessions) + 1] = new
    BY <2>1, <2>3
  <2>5. Len(sessions) + 1 \in SessionsOf'[c]
    BY <2>2, <2>4 DEF SessionsOf
  <2> QED
    BY <1>1, <1>2, <2>1, <2>4, <2>5 DEF MemoInv, MemoStep
<1>4. CASE HireRecord(c)
  <2>1. idem' = [idem EXCEPT ![Key(c)] = sid[c]] /\ sid' = sid
    BY <1>4 DEF HireRecord, clientVars
  <2>2. sid[c] \in Nat /\ sid[c] \in SessionsOf'[Key(c)[2]]
    BY <1>1 DEF MemoInv
  <2> QED
    BY <1>1, <1>2, <2>1, <2>2 DEF MemoInv, MemoStep
<1>5. CASE HireReplay(c)
  <2>1. sid' = [sid EXCEPT ![c] = idem[Key(c)]] /\ idem' = idem
    BY <1>5 DEF HireReplay, daemonVars
  <2>2. idem[Key(c)] \in Nat /\ idem[Key(c)] \in SessionsOf'[c]
    BY <1>1 DEF MemoInv
  <2> QED
    BY <1>1, <1>2, <2>1, <2>2 DEF MemoInv, MemoStep
<1>6. CASE HireResent(c)
  <2>1. sid' = [sid EXCEPT ![c] = NoSid] /\ idem' = idem
    BY <1>6 DEF HireResent, daemonVars
  <2>2. NoSid \in Nat /\ NoSid \in SessionsOf'[c]
    BY OwnersGrow DEF NoSid
  <2> QED
    BY <1>1, <1>2, <2>1, <2>2 DEF MemoInv, MemoStep
<1> QED
  BY <1>3, <1>4, <1>5, <1>6

\* A call has a session from its hire to its release.
HeldInv ==
  /\ DOMAIN sid = Calls
  /\ \A c \in Calls : pc[c] \in {"created", "hired", "await", "settled"} => sid[c] # NoSid

LEMMA NextHeld == HireInv /\ HeldInv /\ [Next]_vars => HeldInv'
<1> SUFFICES ASSUME HireInv, HeldInv, [Next]_vars PROVE HeldInv'
  OBVIOUS
<1> DEFINE Holding == {"created", "hired", "await", "settled"}
<1>0. pc \in [Calls -> Phase]
  BY DEF HireInv
<1>1. ASSUME NEW c \in Calls,
             \/ CallSteps(c) \/ HireLimited(c) \/ HireFails(c) \/ HireResent(c)
             \/ AwaitFails(c) \/ SchemaRetry(c)
      PROVE  HeldInv'
  <2>1. CASE \/ IssueCached(c) \/ IssueBraked(c) \/ IssueOverAgents(c) \/ IssueQueueFull(c)
             \/ IssueQueued(c) \/ AdmitRefused(c)
    <3>1. \/ pc' = ThrowsTo(c)
          \/ \E to \in {"cached", "gate"} : pc' = [pc EXCEPT ![c] = to]
      BY <2>1 DEF IssueCached, IssueBraked, IssueOverAgents, IssueQueueFull, IssueQueued, AdmitRefused
    <3>2. \A d \in Calls : pc'[d] \in Holding => pc[d] \in Holding /\ d # c
      BY <1>0, <3>1, Throws, OneMoves, Phases
    <3>3. sid' = sid \/ \E i : sid' = [sid EXCEPT ![c] = i]
      BY <2>1 DEF IssueCached, IssueBraked, IssueOverAgents, IssueQueueFull, IssueQueued,
         AdmitRefused, IssueLive, clientVars
    <3> QED
      BY <3>2, <3>3 DEF HeldInv
  <2>2. CASE HireCreate(c) \/ HireReplay(c)
    <3>1. PICK to \in {"created", "hired"} : pc' = [pc EXCEPT ![c] = to]
      BY <2>2 DEF HireCreate, HireReplay, Moves
    <3>2. \A d \in Calls \ {c} : pc'[d] = pc[d]
      BY <1>0, <3>1
    <3>3. Len(sessions) + 1 # 0
      BY DEF HireInv
    <3>4. \E i : i # NoSid /\ sid' = [sid EXCEPT ![c] = i]
      BY <2>2, <3>3 DEF HireCreate, HireReplay, NoSid
    <3> QED
      BY <3>2, <3>4 DEF HeldInv
  <2>3. CASE HireFails(c) \/ HireResent(c)
    <3>1. /\ \E to \in {"done", "hire"} : pc' = [pc EXCEPT ![c] = to]
          /\ sid' = [sid EXCEPT ![c] = NoSid]
      BY <2>3 DEF HireFails, HireResent, Moves, Resolves
    <3>2. \A d \in Calls : pc'[d] \in Holding => pc[d] \in Holding /\ d # c
      BY <1>0, <3>1
    <3> QED
      BY <3>1, <3>2 DEF HeldInv
  <2>4. CASE Admit(c)
    <3>1. /\ pc' = [pc EXCEPT ![c] = IF sid[c] = NoSid THEN "hire" ELSE "await"]
          /\ sid' = sid
      BY <2>4 DEF Admit, Moves
    <3>2. \A d \in Calls : pc'[d] = pc[d] \/ (d = c /\ (sid[c] = NoSid => pc'[d] = "hire"))
      BY <1>0, <3>1
    <3> QED
      BY <3>1, <3>2 DEF HeldInv
  <2>5. CASE \/ PassGate(c) \/ TakeRunSlot(c) \/ TakePoolSlot(c) \/ HireRecord(c) \/ HireReturns(c)
             \/ HireAgain(c) \/ OutcomeArrives(c) \/ Release(c) \/ HireLimited(c) \/ AwaitFails(c)
             \/ SchemaRetry(c)
    <3>1. /\ \E to \in Phase : pc' = [pc EXCEPT ![c] = to] /\ (to \in Holding => pc[c] \in Holding)
          /\ sid' = sid
      BY <2>5, Phases DEF PassGate, TakeRunSlot, TakePoolSlot, HireRecord, HireReturns, HireAgain,
         OutcomeArrives, Release, HireLimited, AwaitFails, SchemaRetry, Moves, Resolves, clientVars
    <3>2. \A d \in Calls : pc'[d] \in Holding => pc[d] \in Holding
      BY <1>0, <3>1
    <3> QED
      BY <3>1, <3>2 DEF HeldInv
  <2> QED
    BY <1>1, <2>1, <2>2, <2>3, <2>4, <2>5 DEF CallSteps
<1>2. CASE Resume
  BY <1>2 DEF Resume, HeldInv
<1>3. CASE \/ \E i \in DOMAIN sessions : WorkerEnds(i)
           \/ \E p \in Pools : BackoffPasses(p)
           \/ \E k \in DOMAIN idem : Forget(k)
           \/ Unpause \/ EndRun \/ WallClockPasses \/ Pause \/ Kill \/ UNCHANGED vars
  <2>1. UNCHANGED <<pc, sid>>
    BY <1>3 DEF WorkerEnds, BackoffPasses, Forget, Unpause, EndRun, WallClockPasses, Pause, Kill,
       vars, scriptVars, clientVars
  <2> QED
    BY <2>1 DEF HeldInv
<1> QED
  BY <1>1, <1>2, <1>3 DEF Next, Progress, Mishap

LEMMA InitHeld == Init => HeldInv
  BY DEF Init, HeldInv

\* A line of the journal: at the dispatch, at the end, at a failed hire.
LEMMA LineMemos ==
  ASSUME MemoInv, HireInv, SeqInv, HeldInv, [Next]_vars, NEW c \in Calls,
         HireReturns(c) \/ HireFails(c) \/ OutcomeArrives(c) \/ AwaitFails(c)
  PROVE  MemoStep
<1>1. /\ DOMAIN sessions \subseteq DOMAIN sessions' /\ SessionsOf[c] \subseteq SessionsOf'[c]
      /\ seqOf[c] \in Seqs /\ NoSid \in SessionsOf'[c]
  BY OwnersGrow, Places
<1>2. sid[c] \in Nat /\ sid[c] \in SessionsOf'[c] /\ sid[c] \in DOMAIN sessions \union {NoSid}
  BY <1>1 DEF MemoInv, SessionsOf
<1> DEFINE L(i, b) == [call |-> c, sid |-> i, done |-> b]
<1>3. \A i \in {sid[c], NoSid}, b \in BOOLEAN :
        L(i, b) \in Entry /\ L(i, b).sid \in SessionsOf'[L(i, b).call]
  BY <1>1, <1>2 DEF Entry, NoSid
<1>4. \/ \E B : Journals(seqOf[c], L(sid[c], FALSE), B)
      \/ \E B : Journals(seqOf[c], L(sid[c], TRUE), B)
      \/ \E B : Journals(seqOf[c], L(NoSid, TRUE), B)
  <2>1. CASE HireReturns(c)
    BY <2>1 DEF HireReturns
  <2>2. CASE HireFails(c)
    BY <2>2 DEF HireFails, HireRefusal
  <2>3. CASE OutcomeArrives(c) \/ AwaitFails(c)
    BY <2>3 DEF OutcomeArrives, AwaitFails, DoneLine
  <2> QED
    BY <2>1, <2>2, <2>3
<1> HIDE DEF L
<1>5. /\ file' \in [Seqs -> Entry]
      /\ \A s \in Seqs : file'[s] = file[s] \/ file'[s].sid \in SessionsOf'[file'[s].call]
  BY <1>1, <1>3, <1>4, LineWritten
<1>6. UNCHANGED <<prior, idem>>
  BY DEF HireReturns, HireFails, OutcomeArrives, AwaitFails, daemonVars
<1>7. CASE HireFails(c)
  <2>1. /\ answer' = [answer EXCEPT ![c] = NoSid] /\ sid' = [sid EXCEPT ![c] = NoSid]
        /\ tracked' = tracked
    BY <1>7 DEF HireFails, Resolves
  <2> QED
    BY <1>1, <1>5, <1>6, <2>1 DEF MemoInv, MemoStep, NoSid
<1>8. CASE ~HireFails(c)
  <2>1. /\ UNCHANGED <<answer, sid>> /\ pc[c] \in {"hired", "await"}
        /\ (tracked' = tracked \/ tracked' = tracked \union {sid[c]})
    BY <1>8 DEF HireReturns, OutcomeArrives, AwaitFails, Moves, clientVars
  <2>2. sid[c] \in DOMAIN sessions
    BY <1>2, <2>1 DEF HeldInv
  <2> QED
    BY <1>1, <1>5, <1>6, <2>1, <2>2 DEF MemoInv, MemoStep
<1> QED
  BY <1>7, <1>8

\* A call that starts or comes to its end.
LEMMA EndMemos ==
  ASSUME MemoInv, HireInv, HeldInv, [Next]_vars, NEW c \in Calls, Admit(c) \/ Release(c)
  PROVE  MemoStep
<1>1. DOMAIN sessions \subseteq DOMAIN sessions' /\ SessionsOf[c] \subseteq SessionsOf'[c]
  BY OwnersGrow
<1>2. sid[c] \in Nat /\ sid[c] \in SessionsOf'[c] /\ sid[c] \in DOMAIN sessions \union {NoSid}
  BY <1>1 DEF MemoInv, SessionsOf
<1>3. UNCHANGED <<sid, file, prior, idem>>
  BY DEF Admit, Release, journalVars, daemonVars
<1>4. CASE Admit(c)
  <2>1. /\ answer' = answer
        /\ tracked' = tracked \/ (sid[c] # NoSid /\ tracked' = tracked \union {sid[c]})
    BY <1>4 DEF Admit, Moves
  <2> QED
    BY <1>1, <1>2, <1>3, <2>1 DEF MemoInv, MemoStep
<1>5. CASE Release(c)
  <2>1. answer' = [answer EXCEPT ![c] = sid[c]] /\ tracked' = tracked \ {sid[c]}
    BY <1>5 DEF Release, Resolves
  <2> QED
    BY <1>1, <1>2, <1>3, <2>1 DEF MemoInv, MemoStep
<1> QED
  BY <1>4, <1>5

\* The steps of calls, of workers, of time and of the host that write no memo.
LEMMA RestMemos ==
  ASSUME MemoInv, HireInv, [Next]_vars,
         \/ \E c \in Calls :
              \/ PassGate(c) \/ TakeRunSlot(c) \/ TakePoolSlot(c) \/ AdmitRefused(c)
              \/ HireAgain(c) \/ HireLimited(c) \/ SchemaRetry(c)
         \/ \E i \in DOMAIN sessions : WorkerEnds(i)
         \/ \E p \in Pools : BackoffPasses(p)
         \/ Unpause \/ EndRun \/ WallClockPasses \/ Pause \/ UNCHANGED vars
  PROVE  MemoStep
<1>1. UNCHANGED <<answer, sid, file, prior, idem>> /\ (tracked' = tracked \/ tracked' = {})
  BY DEF PassGate, TakeRunSlot, TakePoolSlot, AdmitRefused, HireAgain, HireLimited, SchemaRetry,
     Moves, WorkerEnds, BackoffPasses, Unpause, EndRun, WallClockPasses, Pause, vars, scriptVars,
     journalVars, daemonVars, clientVars
<1>2. tracked' \subseteq DOMAIN sessions'
  BY <1>1, OwnersGrow DEF MemoInv
<1> QED
  BY <1>1, <1>2, NoMemoWritten

\* Ends of processes: the daemon finishes its hires, or drops them; a resumed
\* run holds nothing but the journal.
LEMMA ProcessMemos ==
  ASSUME MemoInv, HireInv, SeqInv, [Next]_vars,
         Kill \/ Resume \/ \E k \in DOMAIN idem : Forget(k)
  PROVE  MemoStep
<1>1. DOMAIN sessions \subseteq DOMAIN sessions'
  BY OwnersGrow
<1>2. \A c \in Calls : SessionsOf[c] \subseteq SessionsOf'[c] /\ NoSid \in SessionsOf'[c]
  BY OwnersGrow
<1>3. CASE Kill
  <2>1. UNCHANGED <<answer, sid, file, prior, tracked>>
    BY <1>3 DEF Kill, scriptVars, journalVars, clientVars
  <2>2. PICK D \in SUBSET In({"created"}) :
          idem' = [k \in DOMAIN idem |->
                     IF \E c \in In({"created"}) \ D : Key(c) = k THEN sid[k[2]] ELSE idem[k]]
    BY <1>3 DEF Kill
  <2>3. \A k \in Seqs \X Calls : /\ idem'[k] \in {idem[k], sid[k[2]]}
                                 /\ k[2] \in Calls /\ sid[k[2]] \in Nat /\ idem[k] \in Nat
    BY <2>2 DEF MemoInv
  <2>4. idem' \in [Seqs \X Calls -> Nat]
    <3>1. DOMAIN idem' = Seqs \X Calls /\ idem' = [k \in DOMAIN idem |-> idem'[k]]
      BY <2>2 DEF MemoInv
    <3>2. \A k \in Seqs \X Calls : idem'[k] \in Nat
      BY <2>3
    <3>3. DOMAIN idem = Seqs \X Calls
      BY DEF MemoInv
    <3> QED
      BY <3>1, <3>2, <3>3
  <2>5. \A k \in Seqs \X Calls : idem'[k] \in {idem[k]} \union SessionsOf'[k[2]]
    BY <1>2, <2>3 DEF MemoInv
  <2> QED
    BY <1>1, <2>1, <2>4, <2>5 DEF MemoInv, MemoStep
<1>4. CASE Resume
  <2>1. /\ answer' = [c \in Calls |-> NoSid] /\ sid' = [c \in Calls |-> NoSid]
        /\ tracked' = {} /\ prior' = file /\ UNCHANGED <<file, idem>>
    BY <1>4 DEF Resume, daemonVars
  <2> QED
    BY <1>1, <1>2, <2>1 DEF MemoInv, MemoStep, NoSid
<1>5. CASE \E k \in DOMAIN idem : Forget(k)
  <2>1. PICK k \in DOMAIN idem : Forget(k)
    BY <1>5
  <2>2. /\ UNCHANGED <<answer, sid, file, prior, tracked>>
        /\ idem' = [idem EXCEPT ![k] = NoSid]
    BY <2>1 DEF Forget, scriptVars, journalVars, clientVars
  <2>3. k \in Seqs \X Calls /\ k[2] \in Calls
    BY <2>1 DEF MemoInv
  <2> QED
    BY <1>1, <1>2, <2>2, <2>3 DEF MemoInv, MemoStep, NoSid
<1> QED
  BY <1>3, <1>4, <1>5

\* What the theorems about memos rest on.
ServeInv == HireInv /\ SeqInv /\ HeldInv /\ MemoInv

LEMMA InitServes == Init => ServeInv
<1> SUFFICES ASSUME Init PROVE ServeInv
  OBVIOUS
<1>1. HireInv /\ SeqInv /\ HeldInv
  BY InitHires, InitPlaces, InitHeld
<1>2. \A c \in Calls \union {0} : NoSid \in SessionsOf[c]
  BY DEF SessionsOf
<1>3. NoLine \in Entry
  BY DEF NoLine, Entry, NoSid
<1>4. /\ answer = [c \in Calls |-> NoSid] /\ sid = [c \in Calls |-> NoSid] /\ tracked = {}
      /\ file = [s \in Seqs |-> NoLine] /\ prior = file /\ idem = [k \in Seqs \X Calls |-> NoSid]
  BY DEF Init
<1>5. \A s \in Seqs : file[s].sid = NoSid /\ file[s].call = 0
  BY <1>4 DEF NoLine
<1>6. \A k \in Seqs \X Calls : idem[k] = NoSid /\ k[2] \in Calls
  BY <1>4
<1>7. /\ answer \in [Calls -> Nat] /\ sid \in [Calls -> Nat] /\ tracked \subseteq DOMAIN sessions
      /\ file \in [Seqs -> Entry] /\ prior \in [Seqs -> Entry] /\ idem \in [Seqs \X Calls -> Nat]
  BY <1>3, <1>4 DEF NoSid
<1>8. MemoInv
  BY <1>2, <1>4, <1>5, <1>6, <1>7 DEF MemoInv
<1> QED
  BY <1>1, <1>8 DEF ServeInv

LEMMA NextServes == ServeInv /\ [Next]_vars => ServeInv'
<1> SUFFICES ASSUME ServeInv, [Next]_vars PROVE ServeInv'
  OBVIOUS
<1>1. HireInv /\ SeqInv /\ HeldInv /\ MemoInv
  BY DEF ServeInv
<1>2. ASSUME NEW c \in Calls,
             \/ CallSteps(c) \/ HireLimited(c) \/ HireFails(c) \/ HireResent(c)
             \/ AwaitFails(c) \/ SchemaRetry(c)
      PROVE  MemoStep
  BY <1>1, <1>2, IssueMemos, HireMemos, LineMemos, EndMemos, RestMemos DEF CallSteps
<1>3. MemoStep
  BY <1>1, <1>2, RestMemos, ProcessMemos DEF Next, Progress, Mishap
<1>4. MemoInv'
  BY <1>1, <1>3, MemoStepKeeps
<1> QED
  BY <1>1, <1>4, NextHires, NextPlaces, NextHeld DEF ServeInv

\* Journal, re-attachment and replay key serve a call a session that was hired
\* for it: across kills, a new order of the calls, evictions and failed writes.
THEOREM MemosServeTheirCall == Spec => []AnswersAreOwn
<1>1. ServeInv => AnswersAreOwn
  <2> SUFFICES ASSUME ServeInv PROVE AnswersAreOwn
    OBVIOUS
  <2>1. MemoInv
    BY DEF ServeInv
  <2>2. \A c \in Calls \union {0} : \A i \in SessionsOf[c] : i = NoSid \/ sessions[i].call = c
    BY DEF SessionsOf
  <2>3. \A s \in Seqs : file[s].call \in Calls \union {0}
    BY <2>1 DEF MemoInv, Entry
  <2>4. \A k \in DOMAIN idem : k \in Seqs \X Calls /\ k[2] \in Calls
    BY <2>1 DEF MemoInv
  <2> QED
    BY <2>1, <2>2, <2>3, <2>4 DEF MemoInv, AnswersAreOwn
<1> QED
  BY <1>1, InitServes, NextServes, PTL DEF Spec

-----------------------------------------------------------------------------
(* Nobody left behind.  What a call answered with is a session of an        *)
(* earlier process, or one the release of the call stopped, or warned of.  *)

LeftInv ==
  /\ \A c \in Calls \ Kept :
       answer[c] # NoSid /\ sessions[answer[c]].node = node
       => ~sessions[answer[c]].up \/ answer[c] \in warned
  /\ \A s \in Seqs : prior[s].sid # NoSid => sessions[prior[s].sid].node < node

\* A stopped session is not started again.
LEMMA DownStays ==
  ASSUME HireInv, [Next]_vars
  PROVE  \A i \in DOMAIN sessions : ~sessions[i].up => ~sessions'[i].up
<1> SUFFICES ASSUME NEW i \in DOMAIN sessions, ~sessions[i].up PROVE ~sessions'[i].up
  OBVIOUS
<1>0. sessions \in Seq(Session) /\ sessions[i] \in Session
  BY Entries DEF HireInv
<1>1. ASSUME NEW t PROVE [sessions[i] EXCEPT !.turn = t].up = sessions[i].up
  BY <1>0 DEF Session
<1>2. ASSUME NEW c \in Calls, HireCreate(c) PROVE sessions'[i] = sessions[i]
  <2>1. \E new : sessions' = Append(sessions, new)
    BY <1>2 DEF HireCreate
  <2> QED
    BY <1>0, <2>1
<1>3. ASSUME NEW D, sessions' = Tasked(D) PROVE ~sessions'[i].up
  BY <1>1, <1>3 DEF Tasked
<1>4. ASSUME NEW S, sessions' = Stopped(S) PROVE ~sessions'[i].up
  <2>1. CASE sessions'[i] = sessions[i]
    BY <2>1
  <2>2. CASE sessions'[i] # sessions[i]
    <3>1. \E t : sessions'[i] = [sessions[i] EXCEPT !.up = FALSE, !.turn = t]
      BY <1>4, <2>2 DEF Stopped
    <3> QED
      BY <1>0, <3>1 DEF Session
  <2> QED
    BY <2>1, <2>2
<1>5. ASSUME NEW j, NEW t, sessions' = [sessions EXCEPT ![j].turn = t] PROVE ~sessions'[i].up
  <2>1. sessions'[i] = sessions[i] \/ sessions'[i] = [sessions[i] EXCEPT !.turn = t]
    BY <1>5
  <2> QED
    BY <1>1, <2>1
<1>6. \/ \E c \in Calls : HireCreate(c)
      \/ \E D : sessions' = Tasked(D)
      \/ \E S : sessions' = Stopped(S)
      \/ \E j, t : sessions' = [sessions EXCEPT ![j].turn = t]
      \/ sessions' = sessions
  <2>1. ASSUME NEW c \in Calls, HireRecord(c) PROVE \E D : sessions' = Tasked(D)
    BY <2>1 DEF HireRecord
  <2>2. ASSUME NEW c \in Calls, Release(c) PROVE \E S : sessions' = Stopped(S)
    BY <2>2 DEF Release, Stops
  <2>3. ASSUME NEW c \in Calls, SchemaRetry(c)
        PROVE  \E j, t : sessions' = [sessions EXCEPT ![j].turn = t]
    BY <2>3 DEF SchemaRetry
  <2>4. ASSUME NEW j \in DOMAIN sessions, WorkerEnds(j)
        PROVE  \E k, t : sessions' = [sessions EXCEPT ![k].turn = t]
    BY <2>4 DEF WorkerEnds
  <2>5. ASSUME EndRun PROVE \E S : sessions' = Stopped(S)
    BY <2>5 DEF EndRun, Stops
  <2>6. ASSUME Kill PROVE \E D : sessions' = Tasked(D)
    BY <2>6 DEF Kill
  <2>7. ASSUME NEW c \in Calls,
               \/ IssueCached(c) \/ IssueBraked(c) \/ IssueOverAgents(c) \/ IssueQueueFull(c)
               \/ IssueQueued(c) \/ PassGate(c) \/ TakeRunSlot(c) \/ TakePoolSlot(c) \/ Admit(c)
               \/ AdmitRefused(c) \/ HireReplay(c) \/ HireReturns(c) \/ HireAgain(c)
               \/ OutcomeArrives(c) \/ HireLimited(c) \/ HireFails(c) \/ AwaitFails(c)
        PROVE  sessions' = sessions
    BY <2>7 DEF IssueCached, IssueBraked, IssueOverAgents, IssueQueueFull, IssueQueued, IssueLive,
       Issued, PassGate, TakeRunSlot, TakePoolSlot, Admit, AdmitRefused, HireReplay, HireReturns,
       HireAgain, OutcomeArrives, HireLimited, HireFails, AwaitFails, daemonVars
  <2>8. ASSUME \/ \E p \in Pools : BackoffPasses(p)
               \/ \E k \in DOMAIN idem : Forget(k)
               \/ Unpause \/ WallClockPasses \/ Pause \/ Resume \/ UNCHANGED vars
        PROVE  sessions' = sessions
    BY <2>8 DEF BackoffPasses, Forget, Unpause, WallClockPasses, Pause, Resume, vars, daemonVars
  <2>9. ASSUME NEW c \in Calls, HireResent(c)
        PROVE  (\E D : sessions' = Tasked(D)) \/ sessions' = sessions
    BY <2>9 DEF HireResent, daemonVars
  <2> QED
    BY <2>1, <2>2, <2>3, <2>4, <2>5, <2>6, <2>7, <2>8, <2>9 DEF Next, Progress, Mishap, CallSteps
<1> QED
  BY <1>2, <1>3, <1>4, <1>5, <1>6

\* What the script gets: what the journal had, nothing, or the session's answer.
LEMMA AnswerStep ==
  ASSUME MemoInv, [Next]_vars, NEW c \in Calls
  PROVE  \/ answer'[c] = answer[c] \/ answer'[c] = NoSid
         \/ IssueCached(c) /\ answer'[c] = prior[nextSeq].sid
         \/ Release(c) /\ answer'[c] = sid[c]
<1>0. answer \in [Calls -> Nat]
  BY DEF MemoInv
<1>1. ASSUME NEW d \in Calls, IssueCached(d)
      PROVE  answer' = [answer EXCEPT ![d] = prior[nextSeq].sid]
  BY <1>1 DEF IssueCached
<1>2. ASSUME NEW d \in Calls, Release(d) PROVE answer' = [answer EXCEPT ![d] = sid[d]]
  BY <1>2 DEF Release, Resolves
<1>3. ASSUME NEW d \in Calls, HireFails(d) PROVE answer' = [answer EXCEPT ![d] = NoSid]
  BY <1>3 DEF HireFails, Resolves
<1>4. ASSUME Resume PROVE answer'[c] = NoSid
  BY <1>4 DEF Resume
<1>5. ASSUME NEW d \in Calls,
             \/ IssueBraked(d) \/ IssueOverAgents(d) \/ IssueQueueFull(d)
             \/ IssueQueued(d) \/ PassGate(d) \/ TakeRunSlot(d) \/ TakePoolSlot(d) \/ Admit(d)
             \/ AdmitRefused(d) \/ HireCreate(d) \/ HireRecord(d) \/ HireReplay(d) \/ HireReturns(d)
             \/ HireAgain(d) \/ OutcomeArrives(d) \/ HireLimited(d) \/ HireResent(d) \/ AwaitFails(d)
             \/ SchemaRetry(d)
      PROVE  answer' = answer
  BY <1>5 DEF IssueBraked, IssueOverAgents, IssueQueueFull, IssueQueued, IssueLive, Moves,
     PassGate, TakeRunSlot, TakePoolSlot, Admit, AdmitRefused, HireCreate, HireRecord, HireReplay,
     HireReturns, HireAgain, OutcomeArrives, HireLimited, HireResent, AwaitFails, SchemaRetry
<1>6. ASSUME \/ \E i \in DOMAIN sessions : WorkerEnds(i)
             \/ \E p \in Pools : BackoffPasses(p)
             \/ \E k \in DOMAIN idem : Forget(k)
             \/ Unpause \/ EndRun \/ WallClockPasses \/ Pause \/ Kill \/ UNCHANGED vars
      PROVE  answer' = answer
  BY <1>6 DEF WorkerEnds, BackoffPasses, Forget, Unpause, EndRun, WallClockPasses, Pause, Kill, vars,
     scriptVars
<1> QED
  BY <1>0, <1>1, <1>2, <1>3, <1>4, <1>5, <1>6 DEF Next, Progress, Mishap, CallSteps

\* What a life read of the journal stays, until the next life reads it again; and
\* so does what it warned of.
LEMMA PriorStep ==
  ASSUME [Next]_vars
  PROVE  \/ Resume /\ prior' = file /\ node' = node + 1
         \/ ~Resume /\ UNCHANGED <<prior, node>> /\ warned \subseteq warned'
<1>1. ASSUME NEW c \in Calls, CallSteps(c)
      PROVE  UNCHANGED <<prior, node, run>> /\ warned \subseteq warned' /\ run = "live"
  BY <1>1 DEF CallSteps, IssueCached, IssueBraked, IssueOverAgents, IssueQueueFull, IssueQueued,
     IssueLive, Issued, PassGate, TakeRunSlot, TakePoolSlot, Admit, AdmitRefused, HireCreate,
     HireRecord, HireReplay, HireReturns, HireAgain, OutcomeArrives, Release, Stops, Resolves, Moves,
     journalVars, clientVars
<1>2. ASSUME NEW c \in Calls,
             \/ HireLimited(c) \/ HireFails(c) \/ HireResent(c) \/ AwaitFails(c)
             \/ SchemaRetry(c)
      PROVE  UNCHANGED <<prior, node, run>> /\ warned \subseteq warned' /\ run = "live"
  BY <1>2 DEF HireLimited, HireFails, HireResent, AwaitFails, SchemaRetry, Resolves, Moves,
     journalVars, clientVars
<1>3. ASSUME \/ \E i \in DOMAIN sessions : WorkerEnds(i)
             \/ \E p \in Pools : BackoffPasses(p)
             \/ \E k \in DOMAIN idem : Forget(k)
             \/ Unpause \/ EndRun \/ WallClockPasses \/ Pause \/ Kill \/ UNCHANGED vars
      PROVE  UNCHANGED <<prior, node>> /\ warned \subseteq warned' /\ (run' = run \/ run = "live")
  BY <1>3 DEF WorkerEnds, BackoffPasses, Forget, Unpause, EndRun, Stops, WallClockPasses, Pause, Kill, vars,
     scriptVars, journalVars, clientVars
<1>4. Resume => run = "down" /\ run' = "live" /\ prior' = file /\ node' = node + 1
  BY DEF Resume
<1> QED
  BY <1>1, <1>2, <1>3, <1>4 DEF Next, Progress, Mishap

\* The release of a call stops what it answers with, unless that is to be kept, or
\* warns that it could not.
LEMMA ReleaseStops ==
  ASSUME HireInv, MemoInv, HeldInv, NEW c \in Calls \ Kept, Release(c),
         sessions[sid[c]].node = node
  PROVE  ~sessions'[sid[c]].up \/ sid[c] \in warned'
<1>1. c \in Calls /\ pc[c] = "settled"
  BY DEF Release
<1>2. sid[c] # NoSid /\ sid[c] \in SessionsOf[c]
  BY <1>1 DEF HeldInv, MemoInv
<1>3. sid[c] \in DOMAIN sessions /\ sessions[sid[c]].call = c
  BY <1>1, <1>2 DEF SessionsOf
<1>4. \A k \in Kept : k \in Calls /\ sid[k] # sid[c]
  <2>1. \A k \in Kept : k \in Calls /\ sid[k] \in SessionsOf[k]
    BY BehindAssumption DEF MemoInv
  <2> QED
    BY <1>2, <1>3, <2>1 DEF SessionsOf
<1>5. sid[c] \in {sid[c]} \ {sid[k] : k \in Kept}
  BY <1>4
<1> DEFINE S == {sid[c]} \ {sid[k] : k \in Kept}
<1>6. PICK F \in SUBSET S : sessions' = Stopped(S \ F) /\ F \subseteq warned'
  BY DEF Release, Stops
<1>7. sessions[sid[c]] \in Session
  BY <1>3, Entries DEF HireInv
<1>8. CASE sid[c] \in F
  BY <1>6, <1>8
<1>9. CASE sid[c] \notin F
  <2>1. sid[c] \in S \ F
    BY <1>5, <1>9
  <2>2. \E t : sessions'[sid[c]] = [sessions[sid[c]] EXCEPT !.up = FALSE, !.turn = t]
    BY <1>3, <1>6, <2>1 DEF Stopped
  <2> QED
    BY <1>7, <2>2 DEF Session
<1> QED
  BY <1>8, <1>9

LEMMA NextLeaves == ServeInv /\ LeftInv /\ [Next]_vars => LeftInv'
<1> SUFFICES ASSUME ServeInv, LeftInv, [Next]_vars PROVE LeftInv'
  OBVIOUS
<1>0. HireInv /\ SeqInv /\ HeldInv /\ MemoInv
  BY DEF ServeInv
<1>1. \A i \in DOMAIN sessions :
        /\ sessions'[i].node = sessions[i].node
        /\ ~sessions[i].up => ~sessions'[i].up
  BY <1>0, SessionsLast, DownStays
<1>2. \A c \in Calls \union {0} : \A i \in SessionsOf[c] : i # NoSid => i \in DOMAIN sessions
  BY DEF SessionsOf
<1>3. /\ \A s \in Seqs : prior[s].sid # NoSid => prior[s].sid \in DOMAIN sessions
      /\ \A s \in Seqs : file[s].sid # NoSid => file[s].sid \in DOMAIN sessions
      /\ \A c \in Calls : answer[c] # NoSid => answer[c] \in DOMAIN sessions
      /\ \A c \in Calls : sid[c] # NoSid => sid[c] \in DOMAIN sessions
  BY <1>0, <1>2 DEF MemoInv, Entry
<1>4. /\ node \in Nat
      /\ \A i \in DOMAIN sessions : sessions[i].node \in Nat /\ sessions[i].node <= node
  <2>1. \A i \in DOMAIN sessions : sessions[i] \in Session
    BY <1>0, Entries DEF HireInv
  <2> QED
    BY <1>0, <2>1 DEF HireInv, Session
<1>5. \A s \in Seqs : prior'[s].sid # NoSid => sessions'[prior'[s].sid].node < node'
  <2>1. CASE Resume
    <3>1. prior' = file /\ node' = node + 1
      BY <2>1, PriorStep
    <3> QED
      BY <1>1, <1>3, <1>4, <3>1
  <2>2. CASE ~Resume
    <3>1. prior' = prior /\ node' = node
      BY <2>2, PriorStep
    <3> QED
      BY <1>1, <1>3, <3>1 DEF LeftInv
  <2> QED
    BY <2>1, <2>2
<1>6. ASSUME NEW c \in Calls \ Kept, answer'[c] # NoSid, sessions'[answer'[c]].node = node'
      PROVE  ~sessions'[answer'[c]].up \/ answer'[c] \in warned'
  <2>1. CASE Resume
    BY <1>6, <2>1 DEF Resume
  <2>2. CASE ~Resume
    <3>1. node' = node /\ warned \subseteq warned'
      BY <2>2, PriorStep
    <3>2. CASE answer'[c] = answer[c]
      BY <1>1, <1>3, <1>6, <3>1, <3>2 DEF LeftInv
    <3>3. CASE IssueCached(c) /\ answer'[c] = prior[nextSeq].sid
      <4>1. nextSeq \in Seqs
        BY <1>0, <3>3, Places DEF IssueCached
      <4>2. sessions[prior[nextSeq].sid].node < node
        BY <1>6, <3>3, <4>1 DEF LeftInv
      <4>3. sessions'[prior[nextSeq].sid].node = sessions[prior[nextSeq].sid].node
        BY <1>1, <1>3, <1>6, <3>3, <4>1
      <4>4. prior[nextSeq].sid \in DOMAIN sessions
        BY <1>3, <1>6, <3>3, <4>1
      <4> QED
        BY <1>4, <1>6, <3>1, <3>3, <4>2, <4>3, <4>4
    <3>4. CASE Release(c) /\ answer'[c] = sid[c]
      <4>1. sessions[sid[c]].node = node
        BY <1>1, <1>3, <1>6, <3>1, <3>4
      <4> QED
        BY <1>0, <3>4, <4>1, ReleaseStops
    <3> QED
      BY <1>0, <1>6, <3>2, <3>3, <3>4, AnswerStep
  <2> QED
    BY <2>1, <2>2
<1> QED
  BY <1>5, <1>6 DEF LeftInv

\* Every answer a call that keeps nothing gave: its worker is stopped, or not of
\* this process, or its stop failed and the log says so.  So when the run is over
\* none is left running in silence.
THEOREM NoWorkerLeft == Spec => []NobodyLeftBehind
<1>1. Init => LeftInv
  BY DEF Init, LeftInv, NoLine
<1>2. LeftInv => NobodyLeftBehind
  BY DEF LeftInv, NobodyLeftBehind
<1> QED
  BY <1>1, <1>2, InitServes, NextServes, NextLeaves, PTL DEF Spec

-----------------------------------------------------------------------------
(* No second hire.  A session that was given its task is in the daemon's     *)
(* table of replays under the place and the call it was hired for.         *)

\* The handler is dropped before it records, and the client asks again.
Dropped(c) == pc[c] = "created" /\ HireResent(c)

SpentInv == spent \in [Faults -> Nat] /\ \A b \in Faults : spent[b] <= Bound[b]

\* Faults are counted, and never uncounted.
LEMMA SpentStep ==
  ASSUME SpentInv, [Next]_vars
  PROVE  /\ SpentInv'
         /\ \A b \in Faults : spent'[b] >= spent[b]
         /\ (\E k \in DOMAIN idem : Forget(k)) => spent'["forget"] > 0
         /\ (\E c \in Calls : Dropped(c)) => spent'["drop"] > 0
<1>1. ASSUME NEW B, Spend(B)
      PROVE  /\ SpentInv' /\ \A b \in Faults : spent'[b] >= spent[b]
             /\ \A b \in Faults \cap B : spent'[b] > 0
  BY <1>1, FlowBoundsAssumption DEF Spend, SpentInv
<1>2. spent' = spent => SpentInv' /\ \A b \in Faults : spent'[b] >= spent[b]
  BY DEF SpentInv
<1>3. ASSUME NEW s, NEW l, NEW B, Journals(s, l, B) PROVE \E C : Spend(C)
  BY <1>3 DEF Journals
<1>4. ASSUME NEW c \in Calls, CallSteps(c) PROVE spent' = spent \/ \E B : Spend(B)
  <2>1. CASE HireReturns(c) \/ OutcomeArrives(c) \/ Release(c)
    BY <1>3, <2>1 DEF HireReturns, OutcomeArrives, Release, Stops
  <2>2. CASE ~HireReturns(c) /\ ~OutcomeArrives(c) /\ ~Release(c)
    BY <1>4, <2>2 DEF CallSteps, IssueCached, IssueBraked, IssueOverAgents, IssueQueueFull,
       IssueQueued, IssueLive, Issued, PassGate, TakeRunSlot, TakePoolSlot, Admit, AdmitRefused,
       HireCreate, HireRecord, HireReplay, HireAgain
  <2> QED
    BY <2>1, <2>2
<1>5. ASSUME NEW c \in Calls,
             \/ HireLimited(c) \/ HireFails(c) \/ HireResent(c) \/ AwaitFails(c)
             \/ SchemaRetry(c)
      PROVE  spent' = spent \/ \E B : Spend(B)
  BY <1>3, <1>5 DEF HireLimited, HireFails, HireRefusal, HireResent, AwaitFails, SchemaRetry
<1>6. ASSUME \/ \E i \in DOMAIN sessions : WorkerEnds(i)
             \/ \E p \in Pools : BackoffPasses(p)
             \/ \E k \in DOMAIN idem : Forget(k)
             \/ Unpause \/ EndRun \/ WallClockPasses \/ Pause \/ Kill \/ Resume \/ UNCHANGED vars
      PROVE  spent' = spent \/ \E B : Spend(B)
  BY <1>6 DEF WorkerEnds, BackoffPasses, Forget, Unpause, EndRun, Stops, WallClockPasses, Pause,
     Kill, Resume, vars
<1>7. (\E k \in DOMAIN idem : Forget(k)) => spent'["forget"] > 0
  BY <1>1 DEF Forget, Faults
<1>8. spent' = spent \/ \E B : Spend(B)
  BY <1>4, <1>5, <1>6 DEF Next, Progress, Mishap
<1>9. (\E c \in Calls : Dropped(c)) => spent'["drop"] > 0
  <2>1. ASSUME NEW c \in Calls, Dropped(c) PROVE Spend({"drop"})
    BY <2>1 DEF Dropped, HireResent, Moves
  <2> QED
    BY <1>1, <2>1 DEF Faults
<1> QED
  BY <1>1, <1>2, <1>7, <1>8, <1>9

\* Neither was a recorded hire forgotten, nor one dropped before it was recorded.
Remembered == spent["forget"] = 0 /\ spent["drop"] = 0

OnceInv ==
  Remembered =>
    /\ \A i \in DOMAIN sessions :
         sessions[i].turn # "none" => idem[<<sessions[i].seq, sessions[i].call>>] = i
    /\ run = "live" =>
         \A c \in In({"created"}) :
           idem[Key(c)] = NoSid /\ sid[c] \in DOMAIN sessions /\ sessions[sid[c]].seq = seqOf[c]

\* A session is given its task where the daemon's handler does it, or not at all.
LEMMA TaskStep ==
  ASSUME HireInv, [Next]_vars, NEW i \in DOMAIN sessions
  PROVE  /\ sessions'[i].seq = sessions[i].seq
         /\ sessions[i].turn = "none" /\ sessions'[i].turn # "none" =>
              \/ \E c \in Calls : HireRecord(c) /\ i = sid[c]
              \/ \E c \in Calls : Dropped(c)
              \/ Kill
<1>0. sessions \in Seq(Session) /\ sessions[i] \in Session
  BY Entries DEF HireInv
<1>1. \A t : [sessions[i] EXCEPT !.turn = t].seq = sessions[i].seq
  BY <1>0 DEF Session
<1>2. ASSUME NEW D, sessions' = Tasked(D)
      PROVE  /\ sessions'[i].seq = sessions[i].seq
             /\ sessions'[i].turn = sessions[i].turn \/ i \in {sid[c] : c \in D}
  <2>1. sessions'[i] = [sessions[i] EXCEPT !.turn = IF i \in {sid[c] : c \in D} THEN "busy" ELSE @]
    BY <1>2 DEF Tasked
  <2> QED
    BY <1>0, <2>1 DEF Session
<1>3. ASSUME NEW S, sessions' = Stopped(S)
      PROVE  /\ sessions'[i].seq = sessions[i].seq
             /\ sessions[i].turn = "none" => sessions'[i].turn = "none"
  <2>1. \/ sessions'[i] = sessions[i]
        \/ sessions'[i] = [sessions[i] EXCEPT !.up = FALSE, !.turn = IF @ = "busy" THEN "failed" ELSE @]
    BY <1>3 DEF Stopped
  <2> QED
    BY <1>0, <2>1 DEF Session
<1>4. ASSUME NEW j \in DOMAIN sessions, NEW t, sessions' = [sessions EXCEPT ![j].turn = t],
             sessions[j].turn # "none"
      PROVE  /\ sessions'[i].seq = sessions[i].seq
             /\ sessions[i].turn = "none" => sessions'[i].turn = "none"
  <2>1. \/ sessions'[i] = sessions[i]
        \/ i = j /\ sessions'[i] = [sessions[i] EXCEPT !.turn = t]
    BY <1>4
  <2> QED
    BY <1>1, <1>4, <2>1
<1>5. ASSUME NEW c \in Calls, HireCreate(c) PROVE sessions'[i] = sessions[i]
  <2>1. \E new : sessions' = Append(sessions, new)
    BY <1>5 DEF HireCreate
  <2> QED
    BY <1>0, <2>1
<1>6. ASSUME NEW c \in Calls, HireRecord(c)
      PROVE  /\ sessions'[i].seq = sessions[i].seq
             /\ sessions'[i].turn = sessions[i].turn \/ i = sid[c]
  BY <1>2, <1>6 DEF HireRecord
<1>7. ASSUME NEW c \in Calls, SchemaRetry(c)
      PROVE  /\ sessions'[i].seq = sessions[i].seq
             /\ sessions[i].turn = "none" => sessions'[i].turn = "none"
  <2>1. sessions' = [sessions EXCEPT ![sid[c]].turn = "busy"] /\ sessions[sid[c]].turn = "ok"
    BY <1>7 DEF SchemaRetry
  <2>2. CASE sid[c] \in DOMAIN sessions
    BY <1>4, <2>1, <2>2
  <2>3. CASE sid[c] \notin DOMAIN sessions
    <3>1. sessions'[i] = sessions[i]
      BY <2>1, <2>3
    <3> QED
      BY <3>1
  <2> QED
    BY <2>2, <2>3
<1>8. ASSUME NEW j \in DOMAIN sessions, WorkerEnds(j)
      PROVE  /\ sessions'[i].seq = sessions[i].seq
             /\ sessions[i].turn = "none" => sessions'[i].turn = "none"
  BY <1>4, <1>8 DEF WorkerEnds
<1>9. ASSUME \/ \E c \in Calls :
                  \/ IssueCached(c) \/ IssueBraked(c) \/ IssueOverAgents(c) \/ IssueQueueFull(c)
                  \/ IssueQueued(c) \/ PassGate(c) \/ TakeRunSlot(c) \/ TakePoolSlot(c) \/ Admit(c)
                  \/ AdmitRefused(c) \/ HireReplay(c) \/ HireReturns(c) \/ HireAgain(c)
                  \/ OutcomeArrives(c) \/ HireLimited(c) \/ HireFails(c) \/ AwaitFails(c)
             \/ \E p \in Pools : BackoffPasses(p)
             \/ \E k \in DOMAIN idem : Forget(k)
             \/ Unpause \/ WallClockPasses \/ Pause \/ Resume \/ UNCHANGED vars
      PROVE  sessions' = sessions
  BY <1>9 DEF IssueCached, IssueBraked, IssueOverAgents, IssueQueueFull, IssueQueued, IssueLive,
     Issued, PassGate, TakeRunSlot, TakePoolSlot, Admit, AdmitRefused, HireReplay, HireReturns,
     HireAgain, OutcomeArrives, HireLimited, HireFails, AwaitFails, daemonVars, BackoffPasses,
     Forget, Unpause, WallClockPasses, Pause, Resume, vars
<1>10. ASSUME NEW c \in Calls, Release(c) PROVE \E S : sessions' = Stopped(S)
  BY <1>10 DEF Release, Stops
<1>11. EndRun => \E S : sessions' = Stopped(S)
  BY DEF EndRun, Stops
<1>12. Kill => \E D : sessions' = Tasked(D)
  BY DEF Kill
<1>13. ASSUME NEW c \in Calls, HireResent(c)
       PROVE  (Dropped(c) /\ \E D : sessions' = Tasked(D)) \/ sessions' = sessions
  BY <1>13 DEF Dropped, HireResent, Moves, daemonVars
<1> QED
  BY <1>2, <1>3, <1>5, <1>6, <1>7, <1>8, <1>9, <1>10, <1>11, <1>12, <1>13
  DEF Next, Progress, Mishap, CallSteps

\* The table of replays: written by the handler, by a handler that outlives the
\* run, or emptied of an entry.
LEMMA ReplayStep ==
  ASSUME [Next]_vars
  PROVE  \/ idem' = idem
         \/ \E c \in Calls : HireRecord(c)
         \/ \E k \in DOMAIN idem : Forget(k)
         \/ Kill
<1>1. ASSUME \/ \E c \in Calls :
                  \/ IssueCached(c) \/ IssueBraked(c) \/ IssueOverAgents(c) \/ IssueQueueFull(c)
                  \/ IssueQueued(c) \/ PassGate(c) \/ TakeRunSlot(c) \/ TakePoolSlot(c) \/ Admit(c)
                  \/ AdmitRefused(c) \/ HireCreate(c) \/ HireReplay(c) \/ HireReturns(c)
                  \/ HireAgain(c) \/ OutcomeArrives(c) \/ Release(c) \/ HireLimited(c)
                  \/ HireFails(c) \/ HireResent(c) \/ AwaitFails(c) \/ SchemaRetry(c)
             \/ \E i \in DOMAIN sessions : WorkerEnds(i)
             \/ \E p \in Pools : BackoffPasses(p)
             \/ Unpause \/ EndRun \/ WallClockPasses \/ Pause \/ Resume \/ UNCHANGED vars
      PROVE  idem' = idem
  BY <1>1 DEF IssueCached, IssueBraked, IssueOverAgents, IssueQueueFull, IssueQueued, IssueLive,
     Issued, PassGate, TakeRunSlot, TakePoolSlot, Admit, AdmitRefused, HireCreate, HireReplay,
     HireReturns, HireAgain, OutcomeArrives, Release, HireLimited, HireFails, HireResent, AwaitFails,
     SchemaRetry, WorkerEnds, daemonVars, BackoffPasses, EndRun, Unpause, WallClockPasses, Pause,
     Resume, vars
<1> QED
  BY <1>1 DEF Next, Progress, Mishap, CallSteps

\* A session is added by a hire alone, at the end.
LEMMA SessionCount ==
  ASSUME HireInv, [Next]_vars
  PROVE  \/ \E c \in Calls : HireCreate(c)
         \/ DOMAIN sessions' = DOMAIN sessions
<1>1. ASSUME NEW c \in Calls, Plain(c) PROVE DOMAIN sessions' = DOMAIN sessions
  BY <1>1, PlainSessions
<1>2. ASSUME NEW c \in Calls, IssueQueued(c) PROVE sessions' = sessions
  BY <1>2 DEF IssueQueued, IssueLive, Issued, daemonVars
<1>3. ASSUME NEW c \in Calls,
             \/ CallSteps(c) \/ HireLimited(c) \/ HireFails(c) \/ HireResent(c)
             \/ AwaitFails(c) \/ SchemaRetry(c)
      PROVE  HireCreate(c) \/ IssueQueued(c) \/ Plain(c)
  BY <1>3 DEF CallSteps, Plain
<1>4. ASSUME NEW i \in DOMAIN sessions, WorkerEnds(i) PROVE DOMAIN sessions' = DOMAIN sessions
  BY <1>4 DEF WorkerEnds
<1>5. ASSUME EndRun PROVE DOMAIN sessions' = DOMAIN sessions
  BY <1>5 DEF EndRun, Stops, Stopped
<1>6. ASSUME Kill PROVE DOMAIN sessions' = DOMAIN sessions
  BY <1>6 DEF Kill, Tasked
<1>7. ASSUME \/ \E p \in Pools : BackoffPasses(p)
             \/ \E k \in DOMAIN idem : Forget(k)
             \/ Unpause \/ WallClockPasses \/ Pause \/ Resume \/ UNCHANGED vars
      PROVE  sessions' = sessions
  BY <1>7 DEF BackoffPasses, Forget, Unpause, WallClockPasses, Pause, Resume, vars, daemonVars
<1> QED
  BY <1>1, <1>2, <1>3, <1>4, <1>5, <1>6, <1>7 DEF Next, Progress, Mishap

\* The place a session was hired at is one of the journal's.
PlaceInv == \A i \in DOMAIN sessions : sessions[i].seq \in Seqs

LEMMA NextPlaced == ServeInv /\ PlaceInv /\ [Next]_vars => PlaceInv'
<1> SUFFICES ASSUME ServeInv, PlaceInv, [Next]_vars, NEW i \in DOMAIN sessions'
             PROVE  sessions'[i].seq \in Seqs
  BY DEF PlaceInv
<1>0. HireInv /\ SeqInv
  BY DEF ServeInv
<1>1. CASE i \in DOMAIN sessions
  BY <1>0, <1>1, TaskStep DEF PlaceInv
<1>2. CASE i \notin DOMAIN sessions
  <2>1. PICK c \in Calls : HireCreate(c)
    BY <1>0, <1>2, SessionCount
  <2> DEFINE new == [call |-> c, seq |-> seqOf[c], node |-> node, turn |-> "none", up |-> TRUE]
  <2>2. sessions' = Append(sessions, new)
    BY <2>1 DEF HireCreate
  <2>3. new.seq \in Seqs
    BY <1>0, Places
  <2> HIDE DEF new
  <2>4. sessions \in Seq(Session)
    BY <1>0 DEF HireInv
  <2>5. sessions'[i] = new
    BY <1>2, <2>2, <2>4
  <2> QED
    BY <2>3, <2>5
<1> QED
  BY <1>1, <1>2

\* A session the daemon is about to give its task was made by a step of the call.
LEMMA CreatedStep ==
  ASSUME HireInv, HeldInv, [Next]_vars, NEW c \in Calls, run' = "live", pc'[c] = "created"
  PROVE  \/ HireCreate(c)
         \/ /\ run = "live" /\ pc[c] = "created"
            /\ sid'[c] = sid[c] /\ seqOf'[c] = seqOf[c]
            /\ ~HireRecord(c)
<1>0. pc \in [Calls -> Phase] /\ seqOf \in [Calls -> Int] /\ DOMAIN sid = Calls
  BY DEF HireInv, HeldInv
<1>1. ASSUME NEW d \in Calls,
             \/ CallSteps(d) \/ HireLimited(d) \/ HireFails(d) \/ HireResent(d)
             \/ AwaitFails(d) \/ SchemaRetry(d),
             ~HireCreate(c)
      PROVE  /\ run = "live" /\ pc[c] = "created" /\ c # d
             /\ sid'[c] = sid[c] /\ seqOf'[c] = seqOf[c]
  <2>1. run = "live"
    BY <1>1 DEF CallSteps, IssueCached, IssueBraked, IssueOverAgents, IssueQueueFull, IssueQueued,
       IssueLive, Issued, PassGate, TakeRunSlot, TakePoolSlot, Admit, AdmitRefused, HireCreate,
       HireRecord, HireReplay, HireReturns, HireAgain, OutcomeArrives, Release, Moves, HireLimited,
       HireFails, HireResent, AwaitFails, SchemaRetry
  <2>2. \/ pc' = ThrowsTo(d)
        \/ HireCreate(d)
        \/ \E to \in Phase \ {"created"} : pc' = [pc EXCEPT ![d] = to]
    <3>1. CASE IssueBraked(d) \/ IssueOverAgents(d) \/ IssueQueueFull(d) \/ AdmitRefused(d)
      BY <3>1 DEF IssueBraked, IssueOverAgents, IssueQueueFull, AdmitRefused
    <3>2. CASE ~(IssueBraked(d) \/ IssueOverAgents(d) \/ IssueQueueFull(d) \/ AdmitRefused(d))
      BY <1>1, <3>2, Phases DEF CallSteps, IssueCached, IssueQueued, PassGate, TakeRunSlot,
         TakePoolSlot, Admit, HireRecord, HireReplay, HireReturns, HireAgain, OutcomeArrives,
         Release, Moves, HireLimited, HireFails, HireResent, AwaitFails, SchemaRetry, Resolves
    <3> QED
      BY <3>1, <3>2
  <2>3. pc[c] = "created" /\ c # d
    <3>1. CASE pc' = ThrowsTo(d)
      BY <1>0, <3>1, Throws
    <3>2. CASE HireCreate(d)
      BY <1>0, <1>1, <3>2 DEF HireCreate, Moves
    <3>3. CASE \E to \in Phase \ {"created"} : pc' = [pc EXCEPT ![d] = to]
      BY <1>0, <3>3
    <3> QED
      BY <2>2, <3>1, <3>2, <3>3
  <2>4. /\ sid' = sid \/ \E i : sid' = [sid EXCEPT ![d] = i]
        /\ seqOf' = seqOf \/ \E i : seqOf' = [seqOf EXCEPT ![d] = i]
    BY <1>1 DEF CallSteps, IssueCached, IssueBraked, IssueOverAgents, IssueQueueFull, IssueQueued,
       IssueLive, Issued, PassGate, TakeRunSlot, TakePoolSlot, Admit, AdmitRefused, HireCreate,
       HireRecord, HireReplay, HireReturns, HireAgain, OutcomeArrives, Release, Moves, HireLimited,
       HireFails, HireResent, AwaitFails, SchemaRetry, Resolves, clientVars
  <2> QED
    BY <1>0, <2>1, <2>3, <2>4
<1>2. ~Resume /\ ~Kill
  BY DEF Resume, Kill
<1>3. ASSUME \/ \E i \in DOMAIN sessions : WorkerEnds(i)
             \/ \E p \in Pools : BackoffPasses(p)
             \/ \E k \in DOMAIN idem : Forget(k)
             \/ Unpause \/ EndRun \/ WallClockPasses \/ Pause \/ UNCHANGED vars
      PROVE  UNCHANGED <<run, pc, sid, seqOf>>
  BY <1>3 DEF WorkerEnds, BackoffPasses, Forget, Unpause, EndRun, WallClockPasses, Pause, vars,
     scriptVars, clientVars
<1>4. ~HireCreate(c) => run = "live" /\ pc[c] = "created" /\ sid'[c] = sid[c] /\ seqOf'[c] = seqOf[c]
  BY <1>1, <1>2, <1>3 DEF Next, Progress, Mishap
<1>5. ~HireRecord(c)
  BY <1>0 DEF HireRecord, Moves
<1> QED
  BY <1>4, <1>5

LEMMA NextOnce == ServeInv /\ SpentInv /\ PlaceInv /\ OnceInv /\ [Next]_vars => OnceInv'
<1> SUFFICES ASSUME ServeInv, SpentInv, PlaceInv, OnceInv, [Next]_vars, Remembered' PROVE OnceInv'
  BY DEF OnceInv
<1>0. HireInv /\ SeqInv /\ HeldInv /\ MemoInv
  BY DEF ServeInv
<1>1. Remembered /\ ~(\E k \in DOMAIN idem : Forget(k)) /\ ~(\E c \in Calls : Dropped(c))
  <2>1. /\ "forget" \in Faults /\ "drop" \in Faults
        /\ spent["forget"] \in Nat /\ spent["drop"] \in Nat
    BY DEF SpentInv, Faults
  <2> QED
    BY <2>1, SpentStep DEF Remembered
<1>2. /\ sessions \in Seq(Session) /\ DOMAIN idem = Seqs \X Calls
      /\ \A i \in DOMAIN sessions : sessions[i] \in Session /\ i # NoSid
  BY <1>0, Entries DEF HireInv, MemoInv, NoSid
<1>3. \A c \in Calls : sid[c] # NoSid => sid[c] \in DOMAIN sessions /\ sessions[sid[c]].call = c
  BY <1>0 DEF MemoInv, SessionsOf
<1>4. \A c \in Calls : Key(c) \in DOMAIN idem /\ Key(c)[2] = c
  BY <1>0, <1>2, Places
<1>5. ASSUME NEW c \in Calls, pc[c] = "created", run = "live"
      PROVE  /\ idem[Key(c)] = NoSid /\ sid[c] \in DOMAIN sessions
             /\ Key(c) = <<sessions[sid[c]].seq, sessions[sid[c]].call>>
  <2>1. idem[Key(c)] = NoSid /\ sid[c] \in DOMAIN sessions /\ sessions[sid[c]].seq = seqOf[c]
    BY <1>1, <1>5 DEF OnceInv, In
  <2> QED
    BY <1>2, <1>3, <2>1 DEF Key
<1>6. ASSUME NEW i \in DOMAIN sessions
      PROVE  /\ i \in DOMAIN sessions'
             /\ sessions'[i].call = sessions[i].call /\ sessions'[i].seq = sessions[i].seq
  BY <1>0, SessionsLast, TaskStep
\* The handlers that record, when the process dies: all of them.
<1>7. ASSUME Kill
      PROVE  /\ run = "live" /\ run' # "live"
             /\ \A k \in DOMAIN idem :
                  idem'[k] = IF \E c \in In({"created"}) : Key(c) = k THEN sid[k[2]] ELSE idem[k]
             /\ sessions' = Tasked(In({"created"}))
  <2> DEFINE Finishes(D, T) ==
          /\ Spend(IF D = {} THEN {"kill"} ELSE {"kill", "drop"})
          /\ sessions' = Tasked((In({"created"}) \ D) \union T)
          /\ idem' = [k \in DOMAIN idem |->
                        IF \E c \in In({"created"}) \ D : Key(c) = k THEN sid[k[2]] ELSE idem[k]]
  <2>0. PICK D \in SUBSET In({"created"}) : \E T \in SUBSET D : Finishes(D, T)
    BY <1>7 DEF Kill
  <2>1. PICK T \in SUBSET D : Finishes(D, T)
    BY <2>0
  <2>2. D = {}
    <3>1. CASE D # {}
      <4>1. spent' = [b \in Faults |-> IF b \in {"kill", "drop"} THEN spent[b] + 1 ELSE spent[b]]
        BY <2>1, <3>1 DEF Spend
      <4>2. "drop" \in Faults /\ spent["drop"] = 0
        BY <1>1 DEF Faults, Remembered
      <4> QED
        BY <4>1, <4>2 DEF Remembered
    <3> QED
      BY <3>1
  <2>3. In({"created"}) \ D = In({"created"}) /\ (In({"created"}) \ D) \union T = In({"created"})
    BY <2>2
  <2>4. run = "live" /\ run' # "live"
    BY <1>7 DEF Kill
  <2> QED
    BY <2>1, <2>3, <2>4
<1>8. ASSUME NEW c \in Calls, HireRecord(c)
      PROVE  /\ run = "live" /\ pc[c] = "created"
             /\ idem' = [idem EXCEPT ![Key(c)] = sid[c]]
  BY <1>8 DEF HireRecord, Moves
\* The record of a session that had its task is not touched.
<1>9. ASSUME NEW k \in DOMAIN idem, idem[k] # NoSid PROVE idem'[k] = idem[k]
  <2>1. CASE idem' = idem
    BY <2>1
  <2>2. ASSUME NEW c \in Calls, HireRecord(c) PROVE idem'[k] = idem[k]
    <3>1. idem[Key(c)] = NoSid
      BY <1>5, <1>8, <2>2
    <3> QED
      BY <1>8, <1>9, <2>2, <3>1
  <2>3. CASE Kill
    <3>1. \A c \in In({"created"}) : Key(c) # k
      BY <1>5, <1>7, <1>9, <2>3 DEF In
    <3> QED
      BY <1>7, <2>3, <3>1
  <2> QED
    BY <1>1, <2>1, <2>2, <2>3, ReplayStep
<1>10. ASSUME NEW i \in DOMAIN sessions', sessions'[i].turn # "none"
       PROVE  idem'[<<sessions'[i].seq, sessions'[i].call>>] = i
  <2>1. CASE i \notin DOMAIN sessions
    <3>1. PICK c \in Calls : HireCreate(c)
      <4>1. \/ \E c \in Calls : HireCreate(c)
            \/ DOMAIN sessions' = DOMAIN sessions
        BY <1>0, SessionCount
      <4> QED
        BY <1>10, <2>1, <4>1
    <3> DEFINE new == [call |-> c, seq |-> seqOf[c], node |-> node, turn |-> "none", up |-> TRUE]
    <3>2. sessions' = Append(sessions, new)
      BY <3>1 DEF HireCreate
    <3>3. new.turn = "none"
      OBVIOUS
    <3> HIDE DEF new
    <3>4. sessions'[i] = new
      BY <1>2, <1>10, <2>1, <3>2
    <3> QED
      BY <1>10, <3>3, <3>4
  <2>2. CASE i \in DOMAIN sessions
    <3> DEFINE k == <<sessions[i].seq, sessions[i].call>>
    <3>1. <<sessions'[i].seq, sessions'[i].call>> = k
      BY <1>6, <2>2
    <3>2. CASE sessions[i].turn # "none"
      <4>1. idem[k] = i
        BY <1>1, <2>2, <3>2 DEF OnceInv
      <4>2. k \in DOMAIN idem
        BY <1>2, <2>2 DEF PlaceInv, Session
      <4> QED
        BY <1>2, <1>9, <2>2, <3>1, <4>1, <4>2
    <3>3. CASE sessions[i].turn = "none"
      <4>1. CASE \E c \in Calls : HireRecord(c) /\ i = sid[c]
        <5>1. PICK c \in Calls : HireRecord(c) /\ i = sid[c]
          BY <4>1
        <5>2. k = Key(c)
          BY <1>5, <1>8, <5>1
        <5> QED
          BY <1>4, <1>8, <3>1, <5>1, <5>2
      <4>2. CASE Kill
        <5>1. PICK c \in In({"created"}) : i = sid[c]
          <6>1. sessions'[i] = [sessions[i] EXCEPT !.turn =
                                  IF i \in {sid[c] : c \in In({"created"})} THEN "busy" ELSE @]
            BY <1>7, <2>2, <4>2 DEF Tasked
          <6>2. i \notin {sid[c] : c \in In({"created"})} => sessions'[i].turn = "none"
            BY <1>2, <2>2, <3>3, <6>1 DEF Session
          <6> QED
            BY <1>10, <6>2
        <5>2. c \in Calls /\ pc[c] = "created"
          BY DEF In
        <5>3. k = Key(c)
          BY <1>5, <1>7, <4>2, <5>1, <5>2
        <5> QED
          BY <1>4, <1>7, <3>1, <4>2, <5>1, <5>2, <5>3
      <4> QED
        BY <1>0, <1>1, <1>10, <2>2, <3>3, <4>1, <4>2, TaskStep
    <3> QED
      BY <3>2, <3>3
  <2> QED
    BY <2>1, <2>2
<1>11. ASSUME run' = "live", NEW c \in Calls, pc'[c] = "created"
       PROVE  /\ idem'[Key(c)'] = NoSid
              /\ sid'[c] \in DOMAIN sessions' /\ sessions'[sid'[c]].seq = seqOf'[c]
  <2>1. CASE HireCreate(c)
    <3> DEFINE new == [call |-> c, seq |-> seqOf[c], node |-> node, turn |-> "none", up |-> TRUE]
    <3>1. /\ sessions' = Append(sessions, new) /\ idem[Key(c)] = NoSid
          /\ sid' = [sid EXCEPT ![c] = Len(sessions) + 1]
          /\ idem' = idem /\ seqOf' = seqOf
      BY <2>1 DEF HireCreate, Moves
    <3>2. new.seq = seqOf[c]
      OBVIOUS
    <3> HIDE DEF new
    <3>3. Len(sessions) + 1 \in DOMAIN sessions' /\ sessions'[Len(sessions) + 1] = new
      BY <1>2, <3>1
    <3>4. sid'[c] = Len(sessions) + 1
      BY <1>0, <3>1 DEF HeldInv
    <3>5. Key(c)' = Key(c)
      BY <3>1 DEF Key
    <3> QED
      BY <3>1, <3>2, <3>3, <3>4, <3>5
  <2>2. CASE /\ run = "live" /\ pc[c] = "created"
             /\ sid'[c] = sid[c] /\ seqOf'[c] = seqOf[c]
             /\ ~HireRecord(c)
    <3>1. /\ idem[Key(c)] = NoSid /\ sid[c] \in DOMAIN sessions /\ Key(c)' = Key(c)
          /\ sessions[sid[c]].seq = seqOf[c]
      BY <1>1, <2>2 DEF OnceInv, In, Key
    <3>2. idem'[Key(c)] = NoSid
      <4>1. ASSUME NEW d \in Calls, HireRecord(d) PROVE idem'[Key(c)] = NoSid
        <5>1. Key(d) # Key(c)
          BY <2>2, <4>1 DEF Key
        <5> QED
          BY <1>4, <1>8, <3>1, <4>1, <5>1
      <4>2. ~Kill
        BY <1>7, <1>11
      <4> QED
        BY <1>1, <3>1, <4>1, <4>2, ReplayStep
    <3> QED
      BY <1>6, <2>2, <3>1, <3>2
  <2> QED
    BY <1>0, <1>11, <2>1, <2>2, CreatedStep
<1> QED
  BY <1>10, <1>11 DEF OnceInv, In

LEMMA InitOnce == Init => SpentInv /\ PlaceInv /\ OnceInv
<1> SUFFICES ASSUME Init PROVE SpentInv /\ PlaceInv /\ OnceInv
  OBVIOUS
<1>1. spent \in [Faults -> Nat] /\ \A b \in Faults : spent[b] <= Bound[b]
  BY FlowBoundsAssumption DEF Init
<1>2. DOMAIN sessions = {} /\ In({"created"}) = {}
  BY DEF Init, In
<1> QED
  BY <1>1, <1>2 DEF SpentInv, PlaceInv, OnceInv

\* One worker per call and place, over any number of kills: the handler that
\* outlives the run records its hire, so the next life is answered with it.
\* Refused hires and lost journal lines do not change that; only a forgotten
\* record or a dropped handler does.
THEOREM OneHirePerCall == Spec => []NoSecondHire
<1>1. ServeInv /\ SpentInv /\ OnceInv => NoSecondHire
  <2> SUFFICES ASSUME ServeInv, SpentInv, OnceInv, ~NoSecondHire PROVE FALSE
    OBVIOUS
  <2>1. spent["forget"] \in Nat /\ spent["drop"] \in Nat
    BY DEF SpentInv, Faults
  <2>2. PICK i \in DOMAIN sessions, j \in DOMAIN sessions :
          /\ i < j /\ sessions[i].call = sessions[j].call /\ sessions[i].seq = sessions[j].seq
          /\ sessions[i].turn # "none" /\ sessions[j].turn # "none"
          /\ ~(spent["forget"] + spent["drop"] > 0)
    BY DEF NoSecondHire
  <2>3. i \in Int /\ j \in Int
    BY DEF ServeInv, HireInv
  <2>4. Remembered
    BY <2>1, <2>2 DEF Remembered
  <2>5. /\ idem[<<sessions[i].seq, sessions[i].call>>] = i
        /\ idem[<<sessions[j].seq, sessions[j].call>>] = j
    BY <2>2, <2>4 DEF OnceInv
  <2> QED
    BY <2>2, <2>3, <2>5
<1>2. SpentInv /\ [Next]_vars => SpentInv'
  BY SpentStep
<1> QED
  BY <1>1, <1>2, InitServes, NextServes, InitOnce, NextPlaced, NextOnce, PTL DEF Spec

-----------------------------------------------------------------------------
(* What the journal can serve.  A call is hired for only behind a place     *)
(* where this life left the order of the last.                             *)

\* Calls can be put in the order of the text.
LEMMA Ordered ==
  ASSUME NEW S \in SUBSET Calls
  PROVE  InOrder(S) \in [1 .. Cardinality(S) -> S] /\ InOrder(S) \in Seq(S)
<1> DEFINE n == Cardinality(S)
           Upto(x) == {y \in S : y <= x}
           r == [x \in S |-> Cardinality(Upto(x))]
           q == [i \in 1 .. n |-> CHOOSE x \in S : r[x] = i]
<1>1. IsFiniteSet(S) /\ S \subseteq Nat /\ n \in Nat
  BY CallsAssumption, FS_Subset, FS_CardinalityType
<1>2. \A x \in S : /\ IsFiniteSet(Upto(x)) /\ Cardinality(Upto(x)) \in Nat
                   /\ Cardinality(Upto(x)) <= n
                   /\ Cardinality(Upto(x)) >= 1
  <2> TAKE x \in S
  <2>1. Upto(x) \in SUBSET S /\ x \in Upto(x)
    BY <1>1
  <2>2. IsFiniteSet(Upto(x)) /\ Cardinality(Upto(x)) <= n
    BY <1>1, <2>1, FS_Subset
  <2>3. Cardinality(Upto(x)) \in Nat /\ Cardinality(Upto(x)) # 0
    BY <2>1, <2>2, FS_CardinalityType, FS_EmptySet
  <2> QED
    BY <2>2, <2>3
<1>3. \A x, y \in S : x < y => Cardinality(Upto(x)) < Cardinality(Upto(y))
  <2> SUFFICES ASSUME NEW x \in S, NEW y \in S, x < y
               PROVE  Cardinality(Upto(x)) < Cardinality(Upto(y))
    OBVIOUS
  <2>0. x \in Nat /\ y \in Nat /\ \A z \in S : z \in Nat
    BY <1>1
  <2>1. Upto(x) \in SUBSET Upto(y) /\ Upto(x) # Upto(y)
    <3>1. y \in Upto(y) /\ y \notin Upto(x)
      BY <2>0
    <3>2. \A z \in Upto(x) : z \in Upto(y)
      BY <2>0
    <3> QED
      BY <3>1, <3>2
  <2>2. /\ Cardinality(Upto(x)) <= Cardinality(Upto(y))
        /\ Cardinality(Upto(x)) = Cardinality(Upto(y)) => Upto(x) = Upto(y)
    BY <1>2, <2>1, FS_Subset
  <2>3. Cardinality(Upto(x)) \in Nat /\ Cardinality(Upto(y)) \in Nat
    BY <1>2
  <2> HIDE DEF Upto
  <2> QED
    BY <2>1, <2>2, <2>3
<1> HIDE DEF Upto
<1>4. r \in Injection(S, 1 .. n)
  <2>1. r \in [S -> 1 .. n]
    BY <1>1, <1>2
  <2>2. \A x, y \in S : r[x] = r[y] => x = y
    BY <1>1, <1>2, <1>3
  <2> QED
    BY <2>1, <2>2 DEF Injection, IsInjective
<1>5. IsFiniteSet(1 .. n) /\ Cardinality(1 .. n) = n
  BY <1>1, FS_Interval
<1>6. r \in Surjection(S, 1 .. n)
  BY <1>4, <1>5, FS_Injection
<1>7. \A i \in 1 .. n : q[i] \in S /\ r[q[i]] = i
  <2>1. \A i \in 1 .. n : \E x \in S : r[x] = i
    BY <1>6 DEF Surjection
  <2> QED
    BY <2>1
<1>8. q \in [1 .. n -> S]
  BY <1>7
<1>9. \A i, j \in 1 .. n : i < j => q[i] < q[j]
  <2> SUFFICES ASSUME NEW i \in 1 .. n, NEW j \in 1 .. n, i < j, ~(q[i] < q[j]) PROVE FALSE
    OBVIOUS
  <2> HIDE DEF q, r
  <2>1. q[i] \in S /\ q[j] \in S /\ r[q[i]] = i /\ r[q[j]] = j /\ q[i] \in Nat /\ q[j] \in Nat
    BY <1>1, <1>7
  <2>2. q[j] = q[i] \/ q[j] < q[i]
    BY <2>1
  <2>3. CASE q[j] < q[i]
    <3>1. Cardinality(Upto(q[j])) < Cardinality(Upto(q[i]))
      BY <1>3, <2>1, <2>3
    <3>2. r[q[j]] = Cardinality(Upto(q[j])) /\ r[q[i]] = Cardinality(Upto(q[i]))
      BY <2>1 DEF r
    <3> QED
      BY <2>1, <3>1, <3>2
  <2> QED
    BY <2>1, <2>2, <2>3
<1> HIDE DEF q, r
<1>10. \E f \in [1 .. n -> S] : \A i, j \in DOMAIN f : i < j => f[i] < f[j]
  <2>1. DOMAIN q = 1 .. n
    BY <1>8
  <2> QED
    BY <1>8, <1>9, <2>1
<1>11. InOrder(S) \in [1 .. n -> S]
  BY <1>10 DEF InOrder
<1> QED
  BY <1>1, <1>11, SeqDef

\* Where this life left the order of the last: the call that is at s now is not
\* the one that was there.
Parted(s) == \A d \in Calls : pc[d] # "new" /\ seqOf[d] = s => prior[s].call # d

\* Calls that hire, or will when they are admitted.
Fresh ==
  {c \in Calls : \/ pc[c] \in {"hire", "created", "hired", "stand"}
                 \/ pc[c] \in Waiting /\ sid[c] = NoSid}

Root(c) == Behind[c] = {}

\* Only a call with nothing before it in its chain is ever first.
ReadyInv ==
  /\ ready \in Seq(Calls)
  /\ nextSeq = 0 => \A i \in DOMAIN ready : Root(ready[i])

NumberInv ==
  \A c \in Calls :
    /\ pc[c] = "new" => seqOf[c] = 0
    /\ pc[c] # "new" => seqOf[c] < nextSeq
    /\ pc[c] \in Waiting \union Started /\ seqOf[c] = 0 => Root(c)

\* A dispatch line has a session, and the first place a call without a chain.
ProperLine(s, l) ==
  /\ l.call # 0 /\ ~l.done => l.sid # NoSid
  /\ s = 0 /\ l.call # 0 => Root(l.call)

LineInv == \A s \in Seqs : ProperLine(s, file[s]) /\ ProperLine(s, prior[s])

PartInv ==
  /\ ~usable /\ nextSeq = 0 => \A s \in Seqs : prior[s].call = 0
  /\ ~usable /\ nextSeq > 0 => \E s \in 0 .. nextSeq - 1 : Parted(s)
  /\ \A c \in Fresh : \E s \in 0 .. seqOf[c] : Parted(s)

JournalInv == ReadyInv /\ NumberInv /\ LineInv /\ PartInv

\* The step of an issued call, as the journal's order sees it.
LEMMA IssueFrame ==
  ASSUME HireInv, HeldInv, NEW c \in Calls,
         \/ IssueCached(c) \/ IssueBraked(c) \/ IssueOverAgents(c) \/ IssueQueueFull(c)
         \/ IssueQueued(c)
  PROVE  /\ Issued(c) /\ UNCHANGED <<file, prior>>
         /\ \A d \in Calls \ {c} :
              /\ pc'[d] = pc[d] \/ (pc[d] = "new" /\ pc'[d] = "refused" /\ c \in Behind[d])
              /\ sid'[d] = sid[d] /\ seqOf'[d] = seqOf[d]
         /\ seqOf'[c] = nextSeq
         /\ pc'[c] \in {"cached", "refused", "gate"}
         /\ ready' = Tail(ready) \/ \E S \in SUBSET Calls : ready' = Tail(ready) \o InOrder(S)
         /\ \/ pc'[c] = "cached" /\ usable' = usable
            \/ /\ ~Cached(c) /\ usable' = (usable /\ InFlight(c))
               /\ InFlight(c) => sid'[c] = prior[nextSeq].sid
<1>0. pc \in [Calls -> Phase] /\ seqOf \in [Calls -> Int] /\ DOMAIN sid = Calls
  BY DEF HireInv, HeldInv
<1>1. Issued(c) /\ UNCHANGED <<file, prior>>
  BY DEF IssueCached, IssueBraked, IssueOverAgents, IssueQueueFull, IssueQueued, IssueLive, Issued
<1>2. seqOf'[c] = nextSeq /\ \A d \in Calls \ {c} : seqOf'[d] = seqOf[d]
  BY <1>0, <1>1 DEF Issued
<1>3. CASE IssueCached(c)
  <2>1. /\ pc' = [pc EXCEPT ![c] = "cached"] /\ sid' = sid /\ usable' = usable
        /\ ready' = Tail(ready) \o InOrder(Unlocked(c))
    BY <1>3 DEF IssueCached
  <2>2. Unlocked(c) \in SUBSET Calls
    BY DEF Unlocked
  <2> QED
    BY <1>0, <1>1, <1>2, <2>1, <2>2
<1>4. CASE ~IssueCached(c)
  <2>1. /\ pc' = ThrowsTo(c) \/ pc' = [pc EXCEPT ![c] = "gate"]
        /\ sid' = [sid EXCEPT ![c] = IF InFlight(c) THEN prior[nextSeq].sid ELSE NoSid]
        /\ ~Cached(c) /\ usable' = (usable /\ InFlight(c)) /\ ready' = Tail(ready)
    BY <1>4 DEF IssueBraked, IssueOverAgents, IssueQueueFull, IssueQueued, IssueLive
  <2>2. CASE pc' = ThrowsTo(c)
    <3>1. /\ pc'[c] = "refused"
          /\ \A d \in Calls \ {c} :
               pc'[d] = pc[d] \/ (pc[d] = "new" /\ pc'[d] = "refused" /\ c \in Behind[d])
      BY <2>2 DEF ThrowsTo
    <3> QED
      BY <1>0, <1>1, <1>2, <2>1, <3>1
  <2>3. CASE pc' = [pc EXCEPT ![c] = "gate"]
    BY <1>0, <1>1, <1>2, <2>1, <2>3
  <2> QED
    BY <2>1, <2>2, <2>3
<1> QED
  BY <1>3, <1>4

\* The step of a call that has been issued.
Issues(c) ==
  IssueCached(c) \/ IssueBraked(c) \/ IssueOverAgents(c) \/ IssueQueueFull(c) \/ IssueQueued(c)

LEMMA CallFrame ==
  ASSUME HireInv, HeldInv, NEW c \in Calls, ~Issues(c),
         \/ CallSteps(c) \/ HireLimited(c) \/ HireFails(c) \/ HireResent(c)
         \/ AwaitFails(c) \/ SchemaRetry(c)
  PROVE  /\ UNCHANGED <<seqOf, nextSeq, prior, usable>>
         /\ \A d \in Calls \ {c} :
              /\ pc'[d] = pc[d] \/ (pc[d] = "new" /\ pc'[d] = "refused" /\ c \in Behind[d])
              /\ sid'[d] = sid[d]
         /\ pc[c] \in Waiting \union Started /\ pc'[c] # "new"
         /\ c \in Fresh' => c \in Fresh
         /\ ready' = ready \/ \E S \in SUBSET Calls : ready' = ready \o InOrder(S)
<1>0. pc \in [Calls -> Phase] /\ DOMAIN sid = Calls
  BY DEF HireInv, HeldInv
<1>1. UNCHANGED <<seqOf, nextSeq, prior, usable>>
  BY DEF CallSteps, Issues, PassGate, TakeRunSlot, TakePoolSlot, Admit, AdmitRefused,
     HireCreate, HireRecord, HireReplay, HireReturns, HireAgain, OutcomeArrives, Release, Moves,
     HireLimited, HireFails, HireResent, AwaitFails, SchemaRetry, Resolves, journalVars
<1>2. sid' = sid \/ \E i : sid' = [sid EXCEPT ![c] = i]
  BY DEF CallSteps, Issues, PassGate, TakeRunSlot, TakePoolSlot, Admit, AdmitRefused,
     HireCreate, HireRecord, HireReplay, HireReturns, HireAgain, OutcomeArrives, Release,
     HireLimited, HireFails, HireResent, AwaitFails, SchemaRetry, clientVars
<1>3. \A d \in Calls \ {c} : sid'[d] = sid[d]
  BY <1>0, <1>2
<1>4. ready' = ready \/ \E S \in SUBSET Calls : ready' = ready \o InOrder(S)
  <2>1. ready' = ready \/ ready' = ready \o InOrder(Unlocked(c))
    BY DEF CallSteps, Issues, PassGate, TakeRunSlot, TakePoolSlot, Admit, AdmitRefused,
       HireCreate, HireRecord, HireReplay, HireReturns, HireAgain, OutcomeArrives, Release, Moves,
       HireLimited, HireFails, HireResent, AwaitFails, SchemaRetry, Resolves
  <2> QED
    BY <2>1 DEF Unlocked
<1>5. CASE AdmitRefused(c)
  <2>1. pc' = ThrowsTo(c) /\ pc[c] = "spawn"
    BY <1>5 DEF AdmitRefused
  <2>2. /\ pc'[c] = "refused"
        /\ \A d \in Calls \ {c} :
             pc'[d] = pc[d] \/ (pc[d] = "new" /\ pc'[d] = "refused" /\ c \in Behind[d])
    BY <2>1 DEF ThrowsTo
  <2>3. c \notin Fresh'
    BY <2>2, Phases DEF Fresh
  <2> QED
    BY <1>1, <1>3, <1>4, <2>1, <2>2, <2>3, Phases
<1>6. CASE Admit(c)
  <2>1. /\ pc[c] = "spawn" /\ sid' = sid
        /\ pc' = [pc EXCEPT ![c] = IF sid[c] = NoSid THEN "hire" ELSE "await"]
    BY <1>6 DEF Admit, Moves
  <2>2. c \in Fresh' => c \in Fresh
    BY <1>0, <2>1, Phases DEF Fresh
  <2>3. pc'[c] # "new" /\ \A d \in Calls \ {c} : pc'[d] = pc[d]
    BY <1>0, <2>1
  <2> QED
    BY <1>1, <1>3, <1>4, <2>1, <2>2, <2>3, Phases
<1>7. CASE ~AdmitRefused(c) /\ ~Admit(c)
  <2>1. PICK from \in Waiting \union Started, to \in Phase \ {"new"} :
          /\ pc[c] = from /\ pc' = [pc EXCEPT ![c] = to]
          /\ to \in Waiting => from \in Waiting /\ sid' = sid
          /\ to \in {"hire", "created", "hired", "stand"} => from \in {"hire", "created", "hired", "stand"}
    <3>1. CASE PassGate(c) \/ TakeRunSlot(c) \/ TakePoolSlot(c)
      BY <3>1, Phases DEF PassGate, TakeRunSlot, TakePoolSlot, Moves, clientVars
    <3>2. CASE HireCreate(c) \/ HireRecord(c) \/ HireReplay(c) \/ HireReturns(c) \/ HireAgain(c)
               \/ HireLimited(c) \/ HireResent(c)
      BY <3>2, Phases DEF HireCreate, HireRecord, HireReplay, HireReturns, HireAgain, HireLimited,
         HireResent, Moves, Started, Waiting
    <3>3. CASE OutcomeArrives(c) \/ AwaitFails(c) \/ SchemaRetry(c)
      BY <3>3, Phases DEF OutcomeArrives, AwaitFails, SchemaRetry, Moves, Started, Waiting
    <3>4. CASE Release(c) \/ HireFails(c)
      <4>1. /\ pc[c] \in {"hire", "created", "hired", "settled"}
            /\ pc' = [pc EXCEPT ![c] = "done"]
        BY <3>4 DEF Release, HireFails, HireRefusal, Resolves
      <4>2. pc[c] \in Started /\ "done" \in Phase \ {"new"} /\ "done" \notin Waiting
        BY <4>1, Phases DEF Started
      <4> QED
        BY <4>1, <4>2
    <3> QED
      BY <1>7, <3>1, <3>2, <3>3, <3>4 DEF CallSteps, Issues
  <2>2. pc'[c] = to /\ \A d \in Calls \ {c} : pc'[d] = pc[d]
    BY <1>0, <2>1
  <2>3. c \in Fresh' => c \in Fresh
    BY <2>1, <2>2 DEF Fresh
  <2> QED
    BY <1>1, <1>3, <1>4, <2>1, <2>2, <2>3
<1> QED
  BY <1>5, <1>6, <1>7

\* What the rest of a step is: a resumed run starts over, nothing else touches
\* the order of the calls.
LEMMA OtherFrame ==
  ASSUME [Next]_vars,
         ~ \E c \in Calls :
             \/ CallSteps(c) \/ HireLimited(c) \/ HireFails(c) \/ HireResent(c)
             \/ AwaitFails(c) \/ SchemaRetry(c)
  PROVE  \/ UNCHANGED <<pc, seqOf, nextSeq, ready, sid, prior, usable>>
         \/ /\ Resume
            /\ pc' = [c \in Calls |-> "new"] /\ seqOf' = [c \in Calls |-> 0] /\ nextSeq' = 0
            /\ ready' = InOrder({c \in Calls : Behind[c] = {}})
            /\ prior' = file /\ usable' = TRUE
<1>1. ASSUME \/ \E i \in DOMAIN sessions : WorkerEnds(i)
             \/ \E p \in Pools : BackoffPasses(p)
             \/ \E k \in DOMAIN idem : Forget(k)
             \/ Unpause \/ EndRun \/ WallClockPasses \/ Pause \/ Kill \/ UNCHANGED vars
      PROVE  UNCHANGED <<pc, seqOf, nextSeq, ready, sid, prior, usable>>
  BY <1>1 DEF WorkerEnds, BackoffPasses, Forget, Unpause, EndRun, WallClockPasses, Pause, Kill, vars,
     scriptVars, journalVars, clientVars
<1>2. Resume => /\ pc' = [c \in Calls |-> "new"] /\ seqOf' = [c \in Calls |-> 0] /\ nextSeq' = 0
                /\ ready' = InOrder({c \in Calls : Behind[c] = {}})
                /\ prior' = file /\ usable' = TRUE
  BY DEF Resume
<1> QED
  BY <1>1, <1>2 DEF Next, Progress, Mishap

\* A line is written by a call that started, at its place.
LEMMA LineStep ==
  ASSUME HeldInv, [Next]_vars
  PROVE  \/ file' = file
         \/ \E c \in Calls : \E l :
              /\ pc[c] \in Started /\ l.call = c /\ (~l.done => l.sid # NoSid)
              /\ file' = [file EXCEPT ![seqOf[c]] = l]
<1>1. ASSUME NEW c \in Calls,
             HireReturns(c) \/ HireFails(c) \/ OutcomeArrives(c) \/ AwaitFails(c), file' # file
      PROVE  \E l : /\ pc[c] \in Started /\ l.call = c /\ (~l.done => l.sid # NoSid)
                    /\ file' = [file EXCEPT ![seqOf[c]] = l]
  <2> DEFINE L(i, b) == [call |-> c, sid |-> i, done |-> b]
  <2>1. CASE HireReturns(c)
    <3>1. pc[c] = "hired" /\ file' = [file EXCEPT ![seqOf[c]] = L(sid[c], FALSE)]
      BY <1>1, <2>1 DEF HireReturns, Moves, Journals
    <3>2. L(sid[c], FALSE).call = c /\ L(sid[c], FALSE).sid # NoSid
      BY <3>1 DEF HeldInv
    <3> QED
      BY <3>1, <3>2 DEF Started
  <2>2. CASE HireFails(c)
    <3>1. pc[c] \in Started /\ file' = [file EXCEPT ![seqOf[c]] = L(NoSid, TRUE)]
      BY <1>1, <2>2 DEF HireFails, HireRefusal, Journals, Started
    <3>2. L(NoSid, TRUE).call = c /\ L(NoSid, TRUE).done
      OBVIOUS
    <3> QED
      BY <3>1, <3>2
  <2>3. CASE OutcomeArrives(c) \/ AwaitFails(c)
    <3>1. pc[c] \in Started /\ file' = [file EXCEPT ![seqOf[c]] = L(sid[c], TRUE)]
      BY <1>1, <2>3 DEF OutcomeArrives, AwaitFails, DoneLine, Moves, Journals, Started
    <3>2. L(sid[c], TRUE).call = c /\ L(sid[c], TRUE).done
      OBVIOUS
    <3> QED
      BY <3>1, <3>2
  <2> QED
    BY <1>1, <2>1, <2>2, <2>3
<1>2. ASSUME \/ \E c \in Calls :
                  \/ Issues(c) \/ PassGate(c) \/ TakeRunSlot(c) \/ TakePoolSlot(c) \/ Admit(c)
                  \/ AdmitRefused(c) \/ HireCreate(c) \/ HireRecord(c) \/ HireReplay(c)
                  \/ HireAgain(c) \/ Release(c) \/ HireLimited(c) \/ HireResent(c)
                  \/ SchemaRetry(c)
             \/ \E i \in DOMAIN sessions : WorkerEnds(i)
             \/ \E p \in Pools : BackoffPasses(p)
             \/ \E k \in DOMAIN idem : Forget(k)
             \/ Unpause \/ EndRun \/ WallClockPasses \/ Pause \/ Kill \/ Resume \/ UNCHANGED vars
      PROVE  file' = file
  BY <1>2 DEF Issues, IssueCached, IssueBraked, IssueOverAgents, IssueQueueFull, IssueQueued,
     IssueLive, Issued, PassGate, TakeRunSlot, TakePoolSlot, Admit, AdmitRefused, HireCreate,
     HireRecord, HireReplay, HireAgain, Release, HireLimited, HireResent, SchemaRetry, WorkerEnds,
     BackoffPasses, Forget, Unpause, EndRun, WallClockPasses, Pause, Kill, Resume, journalVars, vars
<1> QED
  BY <1>1, <1>2 DEF Next, Progress, Mishap, CallSteps, Issues

LEMMA NextLines == ServeInv /\ NumberInv /\ LineInv /\ [Next]_vars => LineInv'
<1> SUFFICES ASSUME ServeInv, NumberInv, LineInv, [Next]_vars, NEW s \in Seqs
             PROVE  ProperLine(s, file'[s]) /\ ProperLine(s, prior'[s])
  BY DEF LineInv, ProperLine
<1>0. HeldInv /\ SeqInv /\ file \in [Seqs -> Entry]
  BY DEF ServeInv, MemoInv
<1>1. prior' = prior \/ prior' = file
  BY PriorStep
<1>2. ProperLine(s, file'[s])
  <2>1. CASE file' = file
    BY <2>1 DEF LineInv
  <2>2. ASSUME NEW c \in Calls, NEW l, pc[c] \in Started, l.call = c, ~l.done => l.sid # NoSid,
               file' = [file EXCEPT ![seqOf[c]] = l]
        PROVE  ProperLine(s, file'[s])
    <3>1. file'[s] = file[s] \/ (s = seqOf[c] /\ file'[s] = l)
      BY <1>0, <2>2
    <3>2. s = seqOf[c] /\ s = 0 => Root(c)
      BY <2>2 DEF NumberInv
    <3>3. CASE file'[s] = file[s]
      BY <3>3 DEF LineInv
    <3>4. CASE s = seqOf[c] /\ file'[s] = l
      BY <2>2, <3>2, <3>4 DEF ProperLine
    <3> QED
      BY <3>1, <3>3, <3>4
  <2> QED
    BY <1>0, <2>1, <2>2, LineStep
<1> QED
  BY <1>1, <1>2 DEF LineInv

\* The calls at the head of the queue.
LEMMA HeadReady ==
  ASSUME ReadyInv, NEW c \in Calls, Issued(c)
  PROVE  /\ nextSeq = 0 => Root(c)
         /\ Tail(ready) \in Seq(Calls)
  BY DEF ReadyInv, Issued

LEMMA NextReady == ServeInv /\ ReadyInv /\ NumberInv /\ [Next]_vars => ReadyInv'
<1> SUFFICES ASSUME ServeInv, ReadyInv, NumberInv, [Next]_vars PROVE ReadyInv'
  OBVIOUS
<1>0. HireInv /\ HeldInv /\ SeqInv /\ ready \in Seq(Calls) /\ nextSeq \in Nat /\ seqOf \in [Calls -> Seqs]
  BY DEF ServeInv, ReadyInv, SeqInv
<1>1. \A S \in SUBSET Calls : InOrder(S) \in Seq(Calls)
  <2>1. \A S \in SUBSET Calls : \A q \in Seq(S) : q \in Seq(Calls)
    OBVIOUS
  <2> QED
    BY <2>1, Ordered
<1>b. \A q, r \in Seq(Calls) : q \o r \in Seq(Calls)
  OBVIOUS
<1>2. ASSUME NEW c \in Calls, Issues(c) PROVE ReadyInv'
  <2>1. /\ Issued(c)
        /\ ready' = Tail(ready) \/ \E S \in SUBSET Calls : ready' = Tail(ready) \o InOrder(S)
    BY <1>0, <1>2, IssueFrame DEF Issues
  <2>2. Tail(ready) \in Seq(Calls) /\ nextSeq' = nextSeq + 1
    BY <2>1, HeadReady DEF Issued
  <2>3. ready' \in Seq(Calls)
    BY <1>1, <1>b, <2>1, <2>2, Zenon
  <2> QED
    BY <1>0, <2>2, <2>3 DEF ReadyInv
<1>3. ASSUME NEW c \in Calls, ~Issues(c),
             \/ CallSteps(c) \/ HireLimited(c) \/ HireFails(c) \/ HireResent(c)
             \/ AwaitFails(c) \/ SchemaRetry(c)
      PROVE  ReadyInv'
  <2>1. /\ nextSeq' = nextSeq /\ pc[c] # "new"
        /\ ready' = ready \/ \E S \in SUBSET Calls : ready' = ready \o InOrder(S)
    <3>1. "new" \notin Waiting \union Started
      BY DEF Waiting, Started
    <3> QED
      BY <1>0, <1>3, <3>1, CallFrame
  <2>2. nextSeq # 0
    <3>1. seqOf[c] < nextSeq /\ seqOf[c] \in Nat
      BY <1>0, <2>1 DEF NumberInv, Seqs
    <3> QED
      BY <1>0, <3>1
  <2>3. ready' \in Seq(Calls)
    BY <1>0, <1>1, <1>b, <2>1, Zenon
  <2> QED
    BY <2>1, <2>2, <2>3 DEF ReadyInv
<1>4. CASE UNCHANGED <<ready, nextSeq>>
  BY <1>4 DEF ReadyInv
<1>5. CASE ready' = InOrder({c \in Calls : Behind[c] = {}})
  <2> DEFINE R == {c \in Calls : Behind[c] = {}}
  <2>1. R \in SUBSET Calls
    OBVIOUS
  <2>2. InOrder(R) \in Seq(R) /\ InOrder(R) \in Seq(Calls)
    BY <1>1, <2>1, Ordered
  <2>3. \A i \in DOMAIN InOrder(R) : InOrder(R)[i] \in R
    <3>1. InOrder(R) \in [DOMAIN InOrder(R) -> R]
      BY <2>2, Entries
    <3> QED
      BY <3>1
  <2> QED
    BY <1>5, <2>2, <2>3 DEF ReadyInv, Root
<1> QED
  BY <1>2, <1>3, <1>4, <1>5, OtherFrame

LEMMA NextNumbers == ServeInv /\ ReadyInv /\ NumberInv /\ [Next]_vars => NumberInv'
<1> SUFFICES ASSUME ServeInv, ReadyInv, NumberInv, [Next]_vars, NEW d \in Calls
             PROVE  /\ pc'[d] = "new" => seqOf'[d] = 0
                    /\ pc'[d] # "new" => seqOf'[d] < nextSeq'
                    /\ pc'[d] \in Waiting \union Started /\ seqOf'[d] = 0 => Root(d)
  BY DEF NumberInv, Root
<1>0. HireInv /\ HeldInv /\ SeqInv /\ nextSeq \in Nat /\ seqOf[d] \in Nat
  BY DEF ServeInv, SeqInv, Seqs
<1>a. "refused" \notin Waiting \union Started /\ "cached" \notin Waiting \union Started
  BY DEF Waiting, Started
<1>1. ASSUME NEW c \in Calls, Issues(c)
      PROVE  /\ pc'[d] = "new" => seqOf'[d] = 0
             /\ pc'[d] # "new" => seqOf'[d] < nextSeq'
             /\ pc'[d] \in Waiting \union Started /\ seqOf'[d] = 0 => Root(d)
  <2>1. /\ Issued(c) /\ seqOf'[c] = nextSeq /\ nextSeq' = nextSeq + 1
        /\ pc'[c] \in {"cached", "refused", "gate"}
        /\ d # c => /\ pc'[d] = pc[d] \/ (pc[d] = "new" /\ pc'[d] = "refused")
                    /\ seqOf'[d] = seqOf[d]
    BY <1>0, <1>1, IssueFrame DEF Issues, Issued
  <2>2. CASE d = c
    BY <1>0, <2>1, <2>2, HeadReady
  <2>3. CASE d # c
    BY <1>0, <1>a, <2>1, <2>3 DEF NumberInv
  <2> QED
    BY <2>2, <2>3
<1>2. ASSUME NEW c \in Calls, ~Issues(c),
             \/ CallSteps(c) \/ HireLimited(c) \/ HireFails(c) \/ HireResent(c)
             \/ AwaitFails(c) \/ SchemaRetry(c)
      PROVE  /\ pc'[d] = "new" => seqOf'[d] = 0
             /\ pc'[d] # "new" => seqOf'[d] < nextSeq'
             /\ pc'[d] \in Waiting \union Started /\ seqOf'[d] = 0 => Root(d)
  <2>1. /\ UNCHANGED <<seqOf, nextSeq>>
        /\ d # c => pc'[d] = pc[d] \/ (pc[d] = "new" /\ pc'[d] = "refused")
        /\ pc[c] \in Waiting \union Started /\ pc'[c] # "new"
    BY <1>0, <1>2, CallFrame
  <2>2. "new" \notin Waiting \union Started
    BY DEF Waiting, Started
  <2>3. pc[c] # "new" /\ seqOf[c] < nextSeq /\ seqOf[c] \in Nat
    BY <1>0, <2>1, <2>2 DEF NumberInv, SeqInv, Seqs
  <2>4. CASE d = c
    BY <1>0, <2>1, <2>2, <2>3, <2>4 DEF NumberInv
  <2>5. CASE d # c
    BY <1>0, <1>a, <2>1, <2>3, <2>5 DEF NumberInv
  <2> QED
    BY <2>4, <2>5
<1>3. CASE UNCHANGED <<pc, seqOf, nextSeq>>
  BY <1>3 DEF NumberInv
<1>4. CASE pc' = [c \in Calls |-> "new"] /\ seqOf' = [c \in Calls |-> 0]
  <2>1. "new" \notin Waiting \union Started
    BY DEF Waiting, Started
  <2> QED
    BY <1>4, <2>1
<1> QED
  BY <1>1, <1>2, <1>3, <1>4, OtherFrame

\* Where the orders parted, they stay parted while the life lasts.
LEMMA PartedStays ==
  ASSUME LineInv, prior' = prior, NEW s, Parted(s),
         \A d \in Calls : pc'[d] # "new" /\ seqOf'[d] = s =>
            (pc[d] # "new" /\ seqOf[d] = s) \/ (s = 0 /\ ~Root(d))
  PROVE  Parted(s)'
<1> SUFFICES ASSUME NEW d \in Calls, pc'[d] # "new", seqOf'[d] = s, prior[s].call = d PROVE FALSE
  BY DEF Parted
<1>1. ~(pc[d] # "new" /\ seqOf[d] = s)
  BY DEF Parted
<1>2. s = 0 /\ ~Root(d) /\ 0 \in Seqs /\ d # 0
  BY <1>1, FirstPlace, CallsAssumption
<1> QED
  BY <1>2 DEF LineInv, ProperLine

LEMMA NextParts ==
  ServeInv /\ NumberInv /\ LineInv /\ PartInv /\ [Next]_vars => PartInv'
<1> SUFFICES ASSUME ServeInv, NumberInv, LineInv, PartInv, [Next]_vars PROVE PartInv'
  OBVIOUS
<1>0. /\ HireInv /\ HeldInv /\ SeqInv /\ nextSeq \in Nat
      /\ \A d \in Calls : seqOf[d] \in Nat /\ d # 0
  BY CallsAssumption DEF ServeInv, SeqInv, Seqs
<1>a. \A d \in Calls : /\ pc[d] = "new" => seqOf[d] = 0
                       /\ pc[d] # "new" => seqOf[d] < nextSeq
  BY DEF NumberInv
<1>1. ASSUME NEW c \in Calls, Issues(c) PROVE PartInv'
  <2>1. /\ Issued(c) /\ prior' = prior /\ seqOf'[c] = nextSeq /\ nextSeq' = nextSeq + 1
        /\ pc[c] = "new" /\ nextSeq \in Seqs
        /\ pc'[c] \in {"cached", "refused", "gate"}
        /\ \A d \in Calls \ {c} :
             /\ pc'[d] = pc[d] \/ (pc[d] = "new" /\ pc'[d] = "refused" /\ ~Root(d))
             /\ sid'[d] = sid[d] /\ seqOf'[d] = seqOf[d]
        /\ \/ pc'[c] = "cached" /\ usable' = usable
           \/ /\ ~Cached(c) /\ usable' = (usable /\ InFlight(c))
              /\ InFlight(c) => sid'[c] = prior[nextSeq].sid
    <3>1. Issued(c) /\ nextSeq \in Seqs
      BY <1>0, <1>1, IssueFrame, Places DEF Issues
    <3>2. \A d \in Calls : c \in Behind[d] => ~Root(d)
      BY DEF Root
    <3> QED
      BY <1>0, <1>1, <3>1, <3>2, IssueFrame DEF Issues, Issued
  <2>2. ASSUME NEW s \in 0 .. nextSeq - 1, Parted(s) PROVE Parted(s)'
    <3>1. \A d \in Calls : pc'[d] # "new" /\ seqOf'[d] = s =>
            (pc[d] # "new" /\ seqOf[d] = s) \/ (s = 0 /\ ~Root(d))
      BY <1>0, <1>a, <2>1, <2>2
    <3> QED
      BY <2>1, <2>2, <3>1, PartedStays
  <2>3. ASSUME ~usable' \/ (pc'[c] = "gate" /\ sid'[c] = NoSid)
        PROVE  \E s \in 0 .. nextSeq : Parted(s)'
    <3>1. CASE usable
      <4>1. prior[nextSeq].call # c
        <5>1. ~Cached(c) /\ ~InFlight(c)
          <6>1. CASE InFlight(c)
            <7>1. prior[nextSeq].call = c /\ ~prior[nextSeq].done
              BY <6>1 DEF InFlight
            <7>2. prior[nextSeq].sid # NoSid
              BY <1>0, <2>1, <7>1 DEF LineInv, ProperLine
            <7>3. ~Cached(c)
              BY <7>1 DEF Cached
            <7>4. pc'[c] = "cached" /\ usable'
              BY <2>1, <2>3, <3>1, <6>1, <7>2
            <7> QED
              BY <2>3, <7>4
          <6>2. CASE ~InFlight(c)
            BY <2>1, <2>3, <3>1, <6>2
          <6> QED
            BY <6>1, <6>2
        <5> QED
          BY <3>1, <5>1 DEF Cached, InFlight
      <4>2. ASSUME NEW s, s = nextSeq PROVE Parted(s)'
        <5> SUFFICES ASSUME NEW d \in Calls, pc'[d] # "new", seqOf'[d] = s, prior[s].call = d
                     PROVE  FALSE
          BY <2>1 DEF Parted
        <5>1. d # c /\ ~(pc'[d] = pc[d])
          BY <1>0, <1>a, <2>1, <4>1, <4>2
        <5>2. ~Root(d) /\ nextSeq = 0
          BY <1>a, <2>1, <4>2, <5>1
        <5> QED
          BY <1>0, <2>1, <4>2, <5>2 DEF LineInv, ProperLine
      <4> QED
        BY <1>0, <4>2
    <3>2. CASE ~usable /\ nextSeq = 0
      <4>1. prior[0].call = 0
        BY <2>1, <3>2 DEF PartInv
      <4>2. Parted(0)'
        BY <1>0, <2>1, <4>1 DEF Parted
      <4> QED
        BY <3>2, <4>2
    <3>3. CASE ~usable /\ nextSeq > 0
      <4>1. PICK s \in 0 .. nextSeq - 1 : Parted(s)
        BY <3>3 DEF PartInv
      <4>2. Parted(s)' /\ s \in 0 .. nextSeq
        BY <1>0, <2>2, <4>1
      <4> QED
        BY <4>2
    <3> QED
      BY <1>0, <3>1, <3>2, <3>3
  <2>4. ~usable' => \E s \in 0 .. nextSeq' - 1 : Parted(s)'
    <3>1. 0 .. nextSeq' - 1 = 0 .. nextSeq
      BY <1>0, <2>1
    <3> QED
      BY <2>3, <3>1
  <2>5. ASSUME NEW e \in Fresh' PROVE \E s \in 0 .. seqOf'[e] : Parted(s)'
    <3>1. e \in Calls /\ pc'[e] \notin {"refused", "cached", "new"}
      BY <2>5, Phases DEF Fresh
    <3>2. CASE e = c
      <4>1. pc'[c] = "gate" /\ sid'[c] = NoSid
        BY <2>1, <2>5, <3>1, <3>2 DEF Fresh
      <4> QED
        BY <2>1, <2>3, <3>2, <4>1
    <3>3. CASE e # c
      <4>1. pc'[e] = pc[e] /\ sid'[e] = sid[e] /\ seqOf'[e] = seqOf[e]
        BY <2>1, <3>1, <3>3
      <4>2. e \in Fresh
        BY <2>5, <3>1, <4>1 DEF Fresh
      <4>3. PICK s \in 0 .. seqOf[e] : Parted(s)
        BY <4>2 DEF PartInv
      <4>4. s \in 0 .. nextSeq - 1
        BY <1>0, <1>a, <3>1, <4>1, <4>3
      <4> QED
        BY <2>2, <4>1, <4>3, <4>4
    <3> QED
      BY <3>2, <3>3
  <2>6. nextSeq' # 0
    BY <1>0, <2>1
  <2> QED
    BY <2>4, <2>5, <2>6 DEF PartInv
<1>2. ASSUME NEW c \in Calls, ~Issues(c),
             \/ CallSteps(c) \/ HireLimited(c) \/ HireFails(c) \/ HireResent(c)
             \/ AwaitFails(c) \/ SchemaRetry(c)
      PROVE  PartInv'
  <2>1. /\ UNCHANGED <<seqOf, nextSeq, prior, usable>>
        /\ \A d \in Calls \ {c} :
             /\ pc'[d] = pc[d] \/ (pc[d] = "new" /\ pc'[d] = "refused" /\ ~Root(d))
             /\ sid'[d] = sid[d]
        /\ pc[c] # "new"
        /\ c \in Fresh' => c \in Fresh
    <3>1. \A d \in Calls : c \in Behind[d] => ~Root(d)
      BY DEF Root
    <3>2. "new" \notin Waiting \union Started
      BY DEF Waiting, Started
    <3> QED
      BY <1>0, <1>2, <3>1, <3>2, CallFrame
  <2>2. ASSUME NEW s, Parted(s) PROVE Parted(s)'
    <3>1. \A d \in Calls : pc'[d] # "new" /\ seqOf'[d] = s =>
            (pc[d] # "new" /\ seqOf[d] = s) \/ (s = 0 /\ ~Root(d))
      BY <1>a, <2>1
    <3> QED
      BY <2>1, <2>2, <3>1, PartedStays
  <2>3. \A e \in Fresh' : e \in Fresh
    <3> TAKE e \in Fresh'
    <3>1. e \in Calls /\ pc'[e] # "refused"
      BY Phases DEF Fresh
    <3>2. CASE e # c
      BY <2>1, <3>1, <3>2 DEF Fresh
    <3> QED
      BY <2>1, <3>2
  <2> QED
    BY <2>1, <2>2, <2>3 DEF PartInv
<1>3. CASE UNCHANGED <<pc, seqOf, nextSeq, sid, prior, usable>>
  <2>1. \A s : Parted(s)' <=> Parted(s)
    BY <1>3 DEF Parted
  <2>2. Fresh' = Fresh
    BY <1>3 DEF Fresh
  <2> QED
    BY <1>3, <2>1, <2>2 DEF PartInv
<1>4. CASE pc' = [c \in Calls |-> "new"] /\ usable' = TRUE
  <2>1. Fresh' = {}
    BY <1>4, Phases DEF Fresh
  <2> QED
    BY <1>4, <2>1 DEF PartInv
<1> QED
  BY <1>1, <1>2, <1>3, <1>4, OtherFrame

LEMMA InitJournal == Init => JournalInv
<1> SUFFICES ASSUME Init PROVE JournalInv
  OBVIOUS
<1>1. /\ ready = InOrder({c \in Calls : Behind[c] = {}})
      /\ pc = [c \in Calls |-> "new"] /\ seqOf = [c \in Calls |-> 0] /\ nextSeq = 0
      /\ file = [s \in Seqs |-> NoLine] /\ prior = file /\ usable = FALSE
  BY DEF Init
<1>2. ReadyInv
  <2> DEFINE R == {c \in Calls : Behind[c] = {}}
  <2>1. R \in SUBSET Calls
    OBVIOUS
  <2>2. InOrder(R) \in Seq(R)
    BY <2>1, Ordered
  <2>3. InOrder(R) \in [DOMAIN InOrder(R) -> R]
    BY <2>2, Entries
  <2>4. \A q \in Seq(R) : q \in Seq(Calls)
    BY <2>1
  <2> QED
    BY <1>1, <2>2, <2>3, <2>4 DEF ReadyInv, Root
<1>3. NumberInv
  BY <1>1 DEF NumberInv, Waiting, Started
<1>4. \A s \in Seqs : file[s].call = 0 /\ prior[s].call = 0
  BY <1>1 DEF NoLine
<1>5. LineInv
  BY <1>4 DEF LineInv, ProperLine
<1>6. Fresh = {}
  BY <1>1, Phases DEF Fresh
<1>7. PartInv
  BY <1>1, <1>4, <1>6 DEF PartInv
<1> QED
  BY <1>2, <1>3, <1>5, <1>7 DEF JournalInv

\* A call whose predecessors are all where the last life had them is served or
\* re-attached by the journal, however little the daemon remembers of it: what
\* reaches the hire comes behind a call at another place.
THEOREM JournalServes == Spec => []ServedByJournal
<1>1. JournalInv => ServedByJournal
  <2> SUFFICES ASSUME JournalInv, NEW c \in In({"hire", "created", "hired", "stand"})
               PROVE  \E s \in 0 .. seqOf[c] : Parted(s)
    BY DEF ServedByJournal, Parted
  <2>1. c \in Fresh
    BY DEF In, Fresh
  <2> QED
    BY <2>1 DEF JournalInv, PartInv
<1>2. ServeInv /\ JournalInv /\ [Next]_vars => JournalInv'
  BY NextReady, NextNumbers, NextLines, NextParts DEF JournalInv
<1> QED
  BY <1>1, <1>2, InitServes, NextServes, InitJournal, PTL DEF Spec

-----------------------------------------------------------------------------
(* The agent brake.  A call of this life that made a session answers for it, *)
(* as long as the daemon has its key; so the life has made one session for  *)
(* each such call, one more for each handler that was dropped before it     *)
(* recorded, and one more for each key that was forgotten.                  *)

\* The calls that answer for a session of this life, or need none.
Hirers ==
  {c \in Calls : \/ pc[c] \in {"created", "await", "settled", "done"}
                 \/ pc[c] \in {"hire", "stand", "hired"} /\ idem[Key(c)] # NoSid}

Extra == spent["drop"] + spent["forget"]

BrakeInv ==
  /\ Cardinality(Mine) <= Cardinality(Hirers) + Extra
  /\ Len(sessions) <= Cardinality(Calls) * node + Cardinality(Hirers) + Extra

\* A key that is recorded stays so, unless it is forgotten.
LEMMA KeysStay ==
  ASSUME HeldInv, MemoInv, [Next]_vars, ~ \E k \in DOMAIN idem : Forget(k)
  PROVE  \A k \in DOMAIN idem : idem[k] # NoSid => idem'[k] # NoSid
<1>1. CASE idem' = idem
  BY <1>1
<1>2. ASSUME NEW c \in Calls, HireRecord(c), NEW k \in DOMAIN idem, idem[k] # NoSid
      PROVE  idem'[k] # NoSid
  <2>1. pc[c] = "created" /\ idem' = [idem EXCEPT ![Key(c)] = sid[c]]
    BY <1>2 DEF HireRecord, Moves
  <2>2. sid[c] # NoSid
    BY <2>1 DEF HeldInv
  <2> QED
    BY <1>2, <2>1, <2>2
<1>3. ASSUME Kill, NEW k \in DOMAIN idem, idem[k] # NoSid PROVE idem'[k] # NoSid
  <2>1. PICK D \in SUBSET In({"created"}) :
          idem' = [j \in DOMAIN idem |->
                     IF \E c \in In({"created"}) \ D : Key(c) = j THEN sid[j[2]] ELSE idem[j]]
    BY <1>3 DEF Kill
  <2>2. ASSUME NEW c \in In({"created"}), Key(c) = k PROVE sid[k[2]] # NoSid
    <3>1. c \in Calls /\ pc[c] = "created" /\ k[2] = c
      BY <2>2 DEF In, Key
    <3> QED
      BY <3>1 DEF HeldInv
  <2> QED
    BY <1>3, <2>1, <2>2
<1> QED
  BY <1>1, <1>2, <1>3, ReplayStep

\* The step of a call that makes no session and drops no handler: it answers on.
LEMMA HirersGoOn ==
  ASSUME ServeInv, [Next]_vars, NEW c \in Calls, ~HireCreate(c), ~Dropped(c),
         \/ CallSteps(c) \/ HireLimited(c) \/ HireFails(c) \/ HireResent(c)
         \/ AwaitFails(c) \/ SchemaRetry(c),
         \A k \in DOMAIN idem : idem[k] # NoSid => idem'[k] # NoSid
  PROVE  Hirers \subseteq Hirers'
<1>0. /\ HireInv /\ HeldInv /\ SeqInv /\ pc \in [Calls -> Phase]
      /\ \A d \in Calls : Key(d) \in DOMAIN idem
  BY Places DEF ServeInv, HireInv, MemoInv
<1>1. ASSUME NEW d \in Hirers, pc'[d] = pc[d], seqOf'[d] = seqOf[d] PROVE d \in Hirers'
  <2>1. Key(d)' = Key(d) /\ d \in Calls
    BY <1>1 DEF Key, Hirers
  <2> QED
    BY <1>0, <1>1, <2>1 DEF Hirers
<1>2. CASE Issues(c)
  <2>1. /\ pc[c] = "new"
        /\ \A d \in Calls \ {c} : /\ pc'[d] = pc[d] \/ pc[d] = "new"
                                  /\ seqOf'[d] = seqOf[d]
    BY <1>0, <1>2, IssueFrame DEF Issued, Issues
  <2>2. \A d \in Hirers : d \in Calls /\ pc[d] # "new"
    BY DEF Hirers
  <2> QED
    BY <1>1, <2>1, <2>2
<1>3. CASE ~Issues(c)
  <2>1. /\ seqOf' = seqOf
        /\ \A d \in Calls \ {c} : pc'[d] = pc[d] \/ pc[d] = "new"
    BY <1>0, <1>3, CallFrame
  <2>2. \A d \in Hirers : d \in Calls /\ pc[d] # "new"
    BY DEF Hirers
  <2>3. ASSUME c \in Hirers PROVE c \in Hirers'
    <3>0. Key(c)' = Key(c)
      BY <2>1 DEF Key
    <3>1. CASE \/ PassGate(c) \/ TakeRunSlot(c) \/ TakePoolSlot(c) \/ Admit(c) \/ AdmitRefused(c)
      BY <2>3, <3>1 DEF Hirers, PassGate, TakeRunSlot, TakePoolSlot, Admit, AdmitRefused, Moves
    <3>2. CASE HireRecord(c)
      <4>1. /\ pc[c] = "created" /\ pc' = [pc EXCEPT ![c] = "hired"]
            /\ idem' = [idem EXCEPT ![Key(c)] = sid[c]]
        BY <3>2 DEF HireRecord, Moves
      <4>2. sid[c] # NoSid /\ pc'[c] = "hired" /\ idem'[Key(c)] = sid[c]
        BY <1>0, <4>1 DEF HeldInv
      <4> QED
        BY <3>0, <4>2 DEF Hirers
    <3>3. CASE HireReplay(c) \/ HireAgain(c) \/ HireLimited(c) \/ HireResent(c)
      <4>1. /\ pc[c] \in {"hire", "stand", "hired"}
            /\ \E to \in {"hire", "stand", "hired"} : pc' = [pc EXCEPT ![c] = to]
        BY <3>3 DEF HireReplay, HireAgain, HireLimited, HireResent, Dropped, Moves
      <4>2. pc'[c] \in {"hire", "stand", "hired"} /\ idem[Key(c)] # NoSid
        BY <1>0, <2>3, <4>1 DEF Hirers
      <4> QED
        BY <1>0, <3>0, <4>2 DEF Hirers
    <3>4. CASE \/ HireReturns(c) \/ OutcomeArrives(c) \/ Release(c) \/ HireFails(c)
               \/ AwaitFails(c) \/ SchemaRetry(c)
      <4>1. \E to \in {"await", "settled", "done"} : pc' = [pc EXCEPT ![c] = to]
        BY <3>4 DEF HireReturns, OutcomeArrives, Release, HireFails, AwaitFails, SchemaRetry, Moves,
           Resolves
      <4> QED
        BY <1>0, <4>1 DEF Hirers
    <3> QED
      BY <1>3, <3>1, <3>2, <3>3, <3>4 DEF CallSteps, Issues
  <2> QED
    BY <1>1, <2>1, <2>2, <2>3
<1> QED
  BY <1>2, <1>3

\* So a life makes a session for a call that begins to answer for one, and a call
\* stops to answer for its session where a fault is counted.
LEMMA HirersStep ==
  ASSUME ServeInv, SpentInv, [Next]_vars, ~Resume
  PROVE  /\ Extra' >= Extra
         /\ \/ DOMAIN sessions' = DOMAIN sessions /\ Hirers \subseteq Hirers'
            \/ \E c \in Calls : HireCreate(c) /\ c \notin Hirers /\ Hirers \union {c} \subseteq Hirers'
            \/ \E c \in Calls : /\ DOMAIN sessions' = DOMAIN sessions
                               /\ Hirers \ {c} \subseteq Hirers' /\ Extra' > Extra
<1>0. /\ HireInv /\ HeldInv /\ SeqInv /\ MemoInv /\ pc \in [Calls -> Phase]
      /\ \A d \in Calls : Key(d) \in DOMAIN idem /\ Key(d)[2] = d
  BY Places DEF ServeInv, HireInv, MemoInv
<1>1. /\ spent["drop"] \in Nat /\ spent["forget"] \in Nat
      /\ spent'["drop"] \in Nat /\ spent'["forget"] \in Nat
      /\ spent'["drop"] >= spent["drop"] /\ spent'["forget"] >= spent["forget"]
  BY SpentStep DEF SpentInv, Faults
<1>2. Extra' >= Extra
  BY <1>1 DEF Extra
<1>3. ASSUME NEW B, Spend(B), "drop" \in B \/ "forget" \in B PROVE Extra' > Extra
  <2>1. \A b \in Faults : spent'[b] = IF b \in B THEN spent[b] + 1 ELSE spent[b]
    BY <1>3 DEF Spend
  <2> QED
    BY <1>1, <1>3, <2>1 DEF Extra, Faults
<1>4. CASE \E k \in DOMAIN idem : Forget(k)
  <2>1. PICK k \in DOMAIN idem : Forget(k)
    BY <1>4
  <2>2. /\ k[2] \in Calls /\ idem' = [idem EXCEPT ![k] = NoSid]
        /\ UNCHANGED <<pc, seqOf, sessions>> /\ Spend({"forget"})
    BY <1>0, <2>1 DEF Forget, MemoInv, scriptVars
  <2>3. ASSUME NEW d \in Hirers \ {k[2]} PROVE d \in Hirers'
    <3>1. d \in Calls /\ Key(d) # k /\ Key(d)' = Key(d)
      BY <1>0, <2>2 DEF Hirers, Key
    <3>2. idem'[Key(d)] = idem[Key(d)]
      BY <1>0, <2>2, <3>1
    <3> QED
      BY <2>2, <3>1, <3>2 DEF Hirers
  <2> QED
    BY <1>2, <1>3, <2>2, <2>3
<1>5. ASSUME NEW c \in Calls, Dropped(c)
      PROVE  /\ DOMAIN sessions' = DOMAIN sessions
             /\ Hirers \ {c} \subseteq Hirers' /\ Extra' > Extra
  <2>1. /\ pc' = [pc EXCEPT ![c] = "hire"] /\ UNCHANGED <<seqOf, idem>>
        /\ \E D : sessions' = Tasked(D)
        /\ Spend({"drop"})
    BY <1>5 DEF Dropped, HireResent, Moves
  <2>2. DOMAIN sessions' = DOMAIN sessions
    BY <2>1 DEF Tasked
  <2>3. ASSUME NEW d \in Hirers \ {c} PROVE d \in Hirers'
    <3>1. d \in Calls /\ pc'[d] = pc[d] /\ Key(d)' = Key(d)
      BY <1>0, <2>1 DEF Hirers, Key
    <3> QED
      BY <2>1, <3>1 DEF Hirers
  <2> QED
    BY <1>3, <2>1, <2>2, <2>3
<1>6. ASSUME NEW c \in Calls, HireCreate(c)
      PROVE  c \notin Hirers /\ Hirers \union {c} \subseteq Hirers'
  <2>1. /\ pc[c] = "hire" /\ pc' = [pc EXCEPT ![c] = "created"] /\ UNCHANGED <<seqOf, idem>>
        /\ idem[Key(c)] = NoSid
    BY <1>6 DEF HireCreate, Moves
  <2>2. c \notin Hirers
    BY <2>1 DEF Hirers
  <2>3. c \in Hirers'
    BY <1>0, <2>1 DEF Hirers
  <2>4. ASSUME NEW d \in Hirers PROVE d \in Hirers'
    <3>1. d \in Calls /\ d # c
      BY <2>2 DEF Hirers
    <3>2. pc'[d] = pc[d] /\ Key(d)' = Key(d)
      BY <1>0, <2>1, <3>1 DEF Key
    <3> QED
      BY <2>1, <3>1, <3>2 DEF Hirers
  <2> QED
    BY <2>2, <2>3, <2>4
<1>7. CASE /\ ~ \E k \in DOMAIN idem : Forget(k)
           /\ ~ \E c \in Calls : Dropped(c)
           /\ ~ \E c \in Calls : HireCreate(c)
  <2>1. DOMAIN sessions' = DOMAIN sessions
    BY <1>0, <1>7, SessionCount
  <2>2. \A k \in DOMAIN idem : idem[k] # NoSid => idem'[k] # NoSid
    BY <1>0, <1>7, KeysStay
  <2>3. CASE UNCHANGED <<pc, seqOf>>
    <3>1. \A d \in Calls : Key(d)' = Key(d)
      BY <2>3 DEF Key
    <3> QED
      BY <1>0, <1>2, <2>1, <2>2, <2>3, <3>1 DEF Hirers
  <2>4. ASSUME NEW c \in Calls,
               \/ CallSteps(c) \/ HireLimited(c) \/ HireFails(c) \/ HireResent(c)
               \/ AwaitFails(c) \/ SchemaRetry(c)
        PROVE  Hirers \subseteq Hirers'
    BY <1>7, <2>2, <2>4, HirersGoOn
  <2> QED
    BY <1>2, <2>1, <2>3, <2>4, OtherFrame
<1> QED
  BY <1>2, <1>4, <1>5, <1>6, <1>7

\* What the brake reserved covers the calls that answer for a session.
LEMMA HirersCount ==
  /\ IsFiniteSet(Hirers) /\ Cardinality(Hirers) \in Nat /\ Cardinality(Calls) \in Nat
  /\ Cardinality(Hirers) <= Cardinality(Calls)
  /\ Cardinality(Hirers) <= Cardinality(In(Billed))
<1>1. Hirers \subseteq Calls /\ Hirers \subseteq In(Billed) /\ In(Billed) \subseteq Calls
  BY DEF Hirers, In, Billed, Started
<1>2. IsFiniteSet(Calls) /\ IsFiniteSet(In(Billed))
  BY CallsAssumption, <1>1, FS_Subset
<1> QED
  BY <1>1, <1>2, FS_Subset, FS_CardinalityType

LEMMA MineCounts ==
  ASSUME HireInv PROVE IsFiniteSet(Mine) /\ Cardinality(Mine) \in Nat
<1>1. DOMAIN sessions = 1 .. Len(sessions) /\ Len(sessions) \in Nat
  BY DEF HireInv
<1>2. IsFiniteSet(1 .. Len(sessions))
  BY <1>1, FS_Interval
<1> QED
  BY <1>1, <1>2, FS_Subset, FS_CardinalityType DEF Mine

LEMMA NextBraked == ServeInv /\ SpentInv /\ BrakeInv /\ [Next]_vars => BrakeInv'
<1> SUFFICES ASSUME ServeInv, SpentInv, BrakeInv, [Next]_vars PROVE BrakeInv'
  OBVIOUS
<1> DEFINE N == Cardinality(Calls)
           H == Cardinality(Hirers)
           M == Cardinality(Mine)
<1>0. /\ HireInv /\ node \in Nat /\ sessions \in Seq(Session) /\ Len(sessions) \in Nat
      /\ Extra \in Nat /\ Extra' \in Nat
  <2>1. /\ spent["drop"] \in Nat /\ spent["forget"] \in Nat
        /\ spent'["drop"] \in Nat /\ spent'["forget"] \in Nat
    BY SpentStep DEF SpentInv, Faults
  <2>2. HireInv
    BY DEF ServeInv
  <2> QED
    BY <2>1, <2>2 DEF HireInv, Extra
<1>1. /\ IsFiniteSet(Mine) /\ M \in Nat /\ N \in Nat /\ IsFiniteSet(Hirers) /\ H \in Nat /\ H <= N
      /\ IsFiniteSet(Hirers)' /\ H' \in Nat
  <2>1. /\ IsFiniteSet(Mine) /\ M \in Nat /\ N \in Nat /\ IsFiniteSet(Hirers) /\ H \in Nat /\ H <= N
    BY <1>0, MineCounts, HirersCount
  <2>2. Hirers' \subseteq Calls /\ IsFiniteSet(Calls)
    BY CallsAssumption DEF Hirers
  <2> QED
    BY <2>1, <2>2, FS_Subset, FS_CardinalityType
<1>2. \A i \in DOMAIN sessions :
        i \in DOMAIN sessions' /\ sessions'[i].node = sessions[i].node
  BY <1>0, SessionsLast
<1>3. CASE Resume
  <2>1. node' = node + 1 /\ UNCHANGED <<sessions, spent>> /\ Hirers' = {} /\ Cardinality({}) = 0
    BY <1>3, FS_EmptySet DEF Resume, daemonVars, Hirers
  <2>2. \A i \in DOMAIN sessions : sessions[i].node <= node /\ sessions[i].node \in Nat
    <3>1. \A i \in DOMAIN sessions : sessions[i] \in Session
      BY <1>0, Entries
    <3> QED
      BY <1>0, <3>1 DEF HireInv, Session
  <2>3. Mine' = {}
    BY <1>0, <2>1, <2>2 DEF Mine
  <2>4. N * (node + 1) = N * node + N /\ N * node \in Nat
    BY <1>0, <1>1
  <2>5. Extra' = Extra
    BY <2>1 DEF Extra
  <2>6. Len(sessions) <= N * node + H + Extra
    BY DEF BrakeInv
  <2> HIDE DEF N, H, M
  <2>7. Len(sessions') <= N * node' + 0 + Extra'
    BY <1>0, <1>1, <2>1, <2>4, <2>5, <2>6
  <2> QED
    BY <1>0, <2>1, <2>3, <2>7 DEF BrakeInv, N
<1>4. CASE ~Resume
  <2>0. node' = node
    BY <1>4, PriorStep
  <2>a. N * node \in Nat /\ N * node' = N * node
    BY <1>0, <1>1, <2>0
  <2>1. PICK p \in Nat : p = N * node' /\ M <= H + Extra /\ Len(sessions) <= p + H + Extra
    BY <2>a DEF BrakeInv
  <2>2. ASSUME DOMAIN sessions' = DOMAIN sessions, H + Extra <= H' + Extra' PROVE BrakeInv'
    <3>1. Mine' = Mine
      BY <1>2, <2>0, <2>2 DEF Mine
    <3>2. sessions' \in Seq(Session)
      BY <1>0, NextHires DEF HireInv
    <3>3. Len(sessions') = Len(sessions)
      <4>1. DOMAIN sessions = 1 .. Len(sessions) /\ DOMAIN sessions' = 1 .. Len(sessions')
            /\ Len(sessions') \in Nat
        BY <1>0, <3>2
      <4> QED
        BY <1>0, <2>2, <4>1
    <3>4. M' = M
      BY <3>1
    <3>5. M' <= H' + Extra' /\ Len(sessions') <= p + H' + Extra'
      BY <1>0, <1>1, <2>1, <2>2, <3>3, <3>4
    <3> QED
      BY <2>1, <3>5 DEF BrakeInv
  <2>3. ASSUME DOMAIN sessions' = DOMAIN sessions, Hirers \subseteq Hirers', Extra' >= Extra
        PROVE  BrakeInv'
    <3>1. H <= H'
      BY <1>1, <2>3, FS_Subset
    <3>2. H + Extra <= H' + Extra'
      BY <1>0, <1>1, <2>3, <3>1
    <3> QED
      BY <2>2, <2>3, <3>2
  <2>4. ASSUME NEW c \in Calls, DOMAIN sessions' = DOMAIN sessions,
               Hirers \ {c} \subseteq Hirers', Extra' > Extra
        PROVE  BrakeInv'
    <3>1. /\ IsFiniteSet(Hirers \ {c})
          /\ Cardinality(Hirers \ {c}) = H \/ Cardinality(Hirers \ {c}) = H - 1
      BY <1>1, FS_RemoveElement
    <3>2. Cardinality(Hirers \ {c}) <= H'
      BY <1>1, <2>4, <3>1, FS_Subset
    <3>3. H + Extra <= H' + Extra'
      BY <1>0, <1>1, <2>4, <3>1, <3>2
    <3> QED
      BY <2>2, <2>4, <3>3
  <2>5. ASSUME NEW c \in Calls, HireCreate(c), c \notin Hirers, Hirers \union {c} \subseteq Hirers',
               Extra' >= Extra
        PROVE  BrakeInv'
    <3> DEFINE new == [call |-> c, seq |-> seqOf[c], node |-> node, turn |-> "none", up |-> TRUE]
    <3>1. sessions' = Append(sessions, new) /\ new.node = node
      BY <2>5 DEF HireCreate
    <3> HIDE DEF new
    <3>2. /\ Len(sessions') = Len(sessions) + 1
          /\ DOMAIN sessions = 1 .. Len(sessions) /\ DOMAIN sessions' = 1 .. Len(sessions) + 1
          /\ sessions'[Len(sessions) + 1] = new
      BY <1>0, <3>1
    <3>3. Mine' = Mine \union {Len(sessions) + 1} /\ Len(sessions) + 1 \notin Mine
      BY <1>0, <1>2, <2>0, <3>1, <3>2 DEF Mine
    <3>4. M' = M + 1
      BY <1>1, <3>3, FS_AddElement
    <3>5. /\ IsFiniteSet(Hirers \union {c})
          /\ Cardinality(Hirers \union {c}) = H + 1
      BY <1>1, <2>5, FS_AddElement
    <3>6. H + 1 <= H'
      BY <1>1, <2>5, <3>5, FS_Subset
    <3>a. /\ Extra' >= Extra /\ Extra \in Nat /\ Extra' \in Nat /\ Len(sessions) \in Nat
          /\ H \in Nat /\ H' \in Nat /\ M \in Nat /\ Len(sessions') = Len(sessions) + 1
      BY <1>0, <1>1, <2>5, <3>2
    <3>b. M <= H + Extra /\ Len(sessions) <= p + H + Extra
      BY <2>1
    <3>7. M' <= H' + Extra' /\ Len(sessions') <= p + H' + Extra'
      BY <3>a, <3>b, <3>4, <3>6
    <3> QED
      BY <2>1, <3>7 DEF BrakeInv
  <2> QED
    BY <1>4, <2>3, <2>4, <2>5, HirersStep
<1> QED
  BY <1>3, <1>4

LEMMA InitBraked == Init => SpentInv /\ BrakeInv
<1> SUFFICES ASSUME Init PROVE SpentInv /\ BrakeInv
  OBVIOUS
<1>1. sessions = << >> /\ node = 0 /\ Extra = 0 /\ Hirers = {}
  BY DEF Init, Extra, Faults, Hirers
<1>2. Mine = {} /\ Cardinality({}) = 0 /\ Cardinality(Calls) \in Nat
  BY <1>1, CallsAssumption, FS_EmptySet, FS_CardinalityType DEF Mine
<1>3. BrakeInv
  BY <1>1, <1>2 DEF BrakeInv
<1> QED
  BY <1>3, InitOnce

\* The agent brake is a brake on workers: what one life reserves, hires, gives back,
\* asks again, fails and retries never adds up to more sessions than it allows and
\* the handlers that were dropped and the keys that were forgotten account for.
THEOREM BrakeBoundsHires == Spec => []AgentBrakeHolds
<1>1. CountInv /\ ServeInv /\ SpentInv /\ BrakeInv => AgentBrakeHolds
  <2> SUFFICES ASSUME CountInv, ServeInv, SpentInv, BrakeInv PROVE AgentBrakeHolds
    OBVIOUS
  <2>1. /\ HireInv /\ admitted = Cardinality(In(Billed)) /\ admitted \in Int
        /\ admitted <= MaxAgents /\ MaxAgents \in Int
    BY LimitAssumption DEF CountInv, CountersHonest, ServeInv, HireInv
  <2>2. spent["drop"] \in Nat /\ spent["forget"] \in Nat
    BY DEF SpentInv, Faults
  <2>3. Cardinality(Mine) \in Nat /\ Cardinality(Hirers) \in Nat
    BY <2>1, MineCounts, HirersCount
  <2>4. Cardinality(Hirers) <= MaxAgents
    BY <2>1, <2>3, HirersCount
  <2>5. Cardinality(Mine) <= MaxAgents + spent["drop"] + spent["forget"]
    BY <2>1, <2>2, <2>3, <2>4 DEF BrakeInv, Extra
  <2> QED
    BY <2>5 DEF Mine, AgentBrakeHolds
<1>2. SpentInv /\ [Next]_vars => SpentInv'
  BY SpentStep
<1> QED
  BY <1>1, <1>2, InitCounts, NextCounts, InitServes, NextServes, InitBraked, NextBraked, PTL DEF Spec

-----------------------------------------------------------------------------
(* Types and ranges.  There are no more lives than kills and one.          *)

\* A process dies and another takes over, or it goes on, or comes to its end.
LEMMA RunStep ==
  ASSUME [Next]_vars, SpentInv
  PROVE  \/ /\ run = "live" /\ run' = "down" /\ node' = node
            /\ spent'["kill"] = spent["kill"] + 1
         \/ run = "down" /\ run' = "live" /\ node' = node + 1 /\ sessions' = sessions
         \/ run' = run /\ node' = node
         \/ run = "live" /\ run' = "ended" /\ node' = node
<1>1. ASSUME Kill
      PROVE  /\ run = "live" /\ run' = "down" /\ node' = node
             /\ spent'["kill"] = spent["kill"] + 1
  <2>1. \E B : "kill" \in B /\ Spend(B)
    BY <1>1 DEF Kill
  <2> QED
    BY <1>1, <2>1 DEF Kill, Spend, Faults, clientVars
<1>2. Resume => run = "down" /\ run' = "live" /\ node' = node + 1 /\ sessions' = sessions
  BY DEF Resume, daemonVars
<1>3. EndRun => run = "live" /\ run' = "ended" /\ node' = node
  BY DEF EndRun
<1>4. ASSUME NEW c \in Calls,
             \/ CallSteps(c) \/ HireLimited(c) \/ HireFails(c) \/ HireResent(c)
             \/ AwaitFails(c) \/ SchemaRetry(c)
      PROVE  run' = run
  BY <1>4 DEF CallSteps, IssueCached, IssueBraked, IssueOverAgents, IssueQueueFull, IssueQueued,
     IssueLive, Issued, PassGate, TakeRunSlot, TakePoolSlot, Admit, AdmitRefused, HireCreate,
     HireRecord, HireReplay, HireReturns, HireAgain, OutcomeArrives, Release, Resolves, Moves,
     HireLimited, HireFails, HireResent, AwaitFails, SchemaRetry
<1>5. ASSUME \/ \E i \in DOMAIN sessions : WorkerEnds(i)
             \/ \E p \in Pools : BackoffPasses(p)
             \/ \E k \in DOMAIN idem : Forget(k)
             \/ Unpause \/ WallClockPasses \/ Pause \/ UNCHANGED vars
      PROVE  run' = run
  BY <1>5 DEF WorkerEnds, BackoffPasses, Forget, Unpause, WallClockPasses, Pause, vars, scriptVars
<1>6. Resume \/ node' = node
  BY PriorStep
<1> QED
  BY <1>1, <1>2, <1>3, <1>4, <1>5, <1>6 DEF Next, Progress, Mishap

LifeInv == node <= spent["kill"] /\ (run = "down" => node < spent["kill"])

LEMMA NextLives == HireInv /\ SpentInv /\ LifeInv /\ [Next]_vars => LifeInv'
<1> SUFFICES ASSUME HireInv, SpentInv, LifeInv, [Next]_vars PROVE LifeInv'
  OBVIOUS
<1>1. /\ node \in Nat
      /\ spent["kill"] \in Nat /\ spent'["kill"] \in Nat /\ spent'["kill"] >= spent["kill"]
  BY SpentStep DEF HireInv, SpentInv, Faults
<1> QED
  BY <1>1, RunStep DEF LifeInv

\* What this life warned of are sessions that were hired.
WarnInv == warned \subseteq DOMAIN sessions

LEMMA NextWarned == ServeInv /\ WarnInv /\ [Next]_vars => WarnInv'
<1> SUFFICES ASSUME ServeInv, WarnInv, [Next]_vars PROVE WarnInv'
  OBVIOUS
<1>0. HireInv /\ HeldInv /\ MemoInv
  BY DEF ServeInv
<1>1. DOMAIN sessions \subseteq DOMAIN sessions'
  BY <1>0, SessionsLast
<1>2. ASSUME NEW S \in SUBSET DOMAIN sessions, Stops(S) PROVE WarnInv'
  <2>1. PICK F \in SUBSET S :
          warned' = warned \union F \union {i \in S : sessions[i].node # node}
    BY <1>2 DEF Stops
  <2> QED
    BY <1>1, <2>1 DEF WarnInv
<1>3. ASSUME NEW c \in Calls, Release(c) PROVE WarnInv'
  <2>1. pc[c] = "settled" /\ Stops({sid[c]} \ {sid[k] : k \in Kept})
    BY <1>3 DEF Release
  <2>2. sid[c] \in DOMAIN sessions
    BY <1>0, <2>1 DEF HeldInv, MemoInv, SessionsOf
  <2> QED
    BY <1>2, <2>1, <2>2
<1>4. CASE EndRun
  <2>1. Stops(tracked) /\ tracked \subseteq DOMAIN sessions
    BY <1>0, <1>4 DEF EndRun, MemoInv
  <2> QED
    BY <1>2, <2>1
<1>5. ASSUME \/ \E c \in Calls :
                  \/ Issues(c) \/ PassGate(c) \/ TakeRunSlot(c) \/ TakePoolSlot(c) \/ Admit(c)
                  \/ AdmitRefused(c) \/ HireCreate(c) \/ HireRecord(c) \/ HireReplay(c)
                  \/ HireReturns(c) \/ HireAgain(c) \/ OutcomeArrives(c) \/ HireLimited(c)
                  \/ HireFails(c) \/ HireResent(c) \/ AwaitFails(c) \/ SchemaRetry(c)
             \/ \E i \in DOMAIN sessions : WorkerEnds(i)
             \/ \E p \in Pools : BackoffPasses(p)
             \/ \E k \in DOMAIN idem : Forget(k)
             \/ Unpause \/ WallClockPasses \/ Pause \/ Kill \/ Resume \/ UNCHANGED vars
      PROVE  warned' \in {warned, {}}
  BY <1>5 DEF Issues, IssueCached, IssueBraked, IssueOverAgents, IssueQueueFull, IssueQueued,
     IssueLive, Issued, PassGate, TakeRunSlot, TakePoolSlot, Admit, AdmitRefused, HireCreate,
     HireRecord, HireReplay, HireReturns, HireAgain, OutcomeArrives, HireLimited, HireFails,
     HireResent, AwaitFails, SchemaRetry, WorkerEnds, BackoffPasses, Forget, Unpause,
     WallClockPasses, Pause, Kill, Resume, clientVars, vars
<1>6. CASE warned' \in {warned, {}}
  BY <1>1, <1>6 DEF WarnInv
<1> QED
  BY <1>3, <1>4, <1>5, <1>6 DEF Next, Progress, Mishap, CallSteps, Issues

\* What is left: the brakes, the clock, the permits.
RestInv ==
  /\ brake \in {"none", "agents", "cost", "time"} /\ cost \in Nat
  /\ runFree >= 0 /\ \A p \in Pools : poolFree[p] >= 0
  /\ limited \subseteq Pools
  /\ late \in BOOLEAN /\ paused \in BOOLEAN /\ usable \in BOOLEAN
  /\ tries \in [Calls -> Nat]

LEMMA NextRests == CountInv /\ RestInv /\ [Next]_vars => RestInv'
<1> SUFFICES ASSUME CountInv, RestInv, [Next]_vars PROVE RestInv'
  OBVIOUS
<1>0. /\ runFree \in Int /\ poolFree \in [Pools -> Int] /\ Over \in {"none", "agents", "cost", "time"}
      /\ \A c \in Calls : PoolOf[c] \in Pools
  BY PoolAssumption DEF CountInv, Ranges, RestInv, Over
<1>1. ASSUME NEW c \in Calls,
             \/ IssueCached(c) \/ IssueBraked(c) \/ IssueOverAgents(c) \/ IssueQueueFull(c)
             \/ IssueQueued(c)
      PROVE  RestInv'
  <2>1. CASE IssueCached(c)
    BY <2>1 DEF IssueCached, schedVars, RestInv
  <2>2. CASE IssueLive(c) /\ brake' \in {brake, Over, "agents"}
    BY <1>0, <2>2 DEF IssueLive, RestInv
  <2> QED
    BY <1>1, <2>1, <2>2 DEF IssueBraked, IssueOverAgents, IssueQueueFull, IssueQueued
<1>2. ASSUME NEW c \in Calls, TakeRunSlot(c) \/ TakePoolSlot(c) PROVE RestInv'
  <2>1. CASE TakeRunSlot(c)
    BY <1>0, <2>1 DEF TakeRunSlot, RestInv, journalVars
  <2>2. CASE TakePoolSlot(c)
    BY <1>0, <2>2 DEF TakePoolSlot, RestInv, journalVars
  <2> QED
    BY <1>2, <2>1, <2>2
<1>3. ASSUME NEW c \in Calls, AdmitRefused(c) \/ HireFails(c) \/ Release(c) PROVE RestInv'
  <2>1. FreeSlots(c) /\ brake' \in {brake, Over} /\ UNCHANGED <<cost, late, paused, usable, tries>>
        /\ limited' \in {limited, limited \union {PoolOf[c]}}
    BY <1>3 DEF AdmitRefused, HireFails, HireRefusal, Release, journalVars
  <2> QED
    BY <1>0, <2>1 DEF FreeSlots, RestInv
<1>4. ASSUME NEW c \in Calls,
             \/ HireReturns(c) \/ HireLimited(c) \/ OutcomeArrives(c) \/ SchemaRetry(c)
      PROVE  RestInv'
  <2>1. /\ UNCHANGED <<brake, runFree, poolFree, late, paused, usable>>
        /\ cost' \in {cost, cost + 1}
        /\ limited' \in {limited, limited \union {PoolOf[c]}, limited \ {PoolOf[c]}}
        /\ tries' \in {tries, [tries EXCEPT ![c] = @ + 1], [tries EXCEPT ![c] = 0]}
    BY <1>4 DEF HireReturns, HireLimited, OutcomeArrives, SchemaRetry, journalVars
  <2>2. tries' \in [Calls -> Nat]
    BY <2>1 DEF RestInv
  <2> QED
    BY <1>0, <2>1, <2>2 DEF RestInv
<1>5. ASSUME \/ \E c \in Calls :
                  \/ PassGate(c) \/ Admit(c) \/ HireCreate(c) \/ HireRecord(c) \/ HireReplay(c)
                  \/ HireAgain(c) \/ HireResent(c) \/ AwaitFails(c)
             \/ \E i \in DOMAIN sessions : WorkerEnds(i)
             \/ \E k \in DOMAIN idem : Forget(k)
             \/ EndRun \/ Kill \/ UNCHANGED vars
      PROVE  RestInv'
  <2>1. UNCHANGED <<brake, cost, runFree, poolFree, limited, late, paused, usable, tries>>
    BY <1>5 DEF PassGate, Admit, HireCreate, HireRecord, HireReplay, HireAgain, HireResent, AwaitFails,
       WorkerEnds, Forget, EndRun, Kill, vars, schedVars, journalVars
  <2> QED
    BY <2>1 DEF RestInv
<1>6. ASSUME \/ \E p \in Pools : BackoffPasses(p)
             \/ WallClockPasses \/ Pause \/ Unpause
      PROVE  RestInv'
  <2>1. /\ UNCHANGED <<brake, cost, runFree, poolFree, usable, tries>>
        /\ limited' \subseteq limited /\ late' \in {late, TRUE} /\ paused' \in {paused, TRUE, FALSE}
    BY <1>6 DEF BackoffPasses, WallClockPasses, Pause, Unpause, journalVars
  <2> QED
    BY <2>1 DEF RestInv
<1>7. CASE Resume
  <2>1. MaxParallel \in Nat /\ PoolSize \in Nat
    BY LimitAssumption
  <2>2. /\ runFree' = MaxParallel /\ poolFree' = [p \in Pools |-> PoolSize]
        /\ limited' = {} /\ brake' = "none" /\ cost' = 0
        /\ tries' = [c \in Calls |-> 0]
    BY <1>7 DEF Resume
  <2>3. late' \in BOOLEAN /\ paused' \in BOOLEAN /\ usable' \in BOOLEAN
    BY <1>7 DEF Resume
  <2> QED
    BY <2>1, <2>2, <2>3 DEF RestInv
<1> QED
  BY <1>1, <1>2, <1>3, <1>4, <1>5, <1>6, <1>7 DEF Next, Progress, Mishap, CallSteps

LEMMA InitRests == Init => LifeInv /\ WarnInv /\ RestInv
<1> SUFFICES ASSUME Init PROVE LifeInv /\ WarnInv /\ RestInv
  OBVIOUS
<1>1. /\ run = "live" /\ node = 0 /\ warned = {} /\ spent["kill"] = 0
      /\ runFree = MaxParallel /\ poolFree = [p \in Pools |-> PoolSize]
      /\ limited = {} /\ brake = "none" /\ cost = 0 /\ tries = [c \in Calls |-> 0]
  BY DEF Init, Faults
<1>6. late \in BOOLEAN /\ paused \in BOOLEAN /\ usable \in BOOLEAN
  BY DEF Init
<1>2. MaxParallel \in Nat /\ PoolSize \in Nat
  BY LimitAssumption
<1>4. LifeInv /\ WarnInv
  BY <1>1 DEF LifeInv, WarnInv
<1>5. RestInv
  BY <1>1, <1>2, <1>6 DEF RestInv
<1> QED
  BY <1>4, <1>5

\* No more sessions than a worker per call and life, and those hired again: so a
\* sid is in range.
LEMMA SessionsBounded ==
  ASSUME HireInv, SpentInv, LifeInv, BrakeInv
  PROVE  DOMAIN sessions \subseteq Sids
<1> DEFINE N == Cardinality(Calls)
           K == Bound["kill"]
           E == Bound["drop"] + Bound["forget"]
<1>1. /\ node \in Nat /\ K \in Nat /\ node <= K /\ Extra \in Nat /\ E \in Nat /\ Extra <= E
  <2>1. /\ K \in Nat /\ spent["kill"] \in Nat /\ spent["kill"] <= K
        /\ Bound["drop"] \in Nat /\ spent["drop"] \in Nat /\ spent["drop"] <= Bound["drop"]
        /\ Bound["forget"] \in Nat /\ spent["forget"] \in Nat /\ spent["forget"] <= Bound["forget"]
    BY FlowBoundsAssumption DEF SpentInv, Faults
  <2>2. node \in Nat /\ node <= spent["kill"]
    BY DEF HireInv, LifeInv
  <2> QED
    BY <2>1, <2>2 DEF Extra
<1>2. DOMAIN sessions = 1 .. Len(sessions) /\ Len(sessions) \in Nat
  BY DEF HireInv
<1>3. N \in Nat /\ Len(sessions) <= N * node + N + Extra
  <2>1. Cardinality(Hirers) \in Nat /\ N \in Nat /\ Cardinality(Hirers) <= N
    BY HirersCount
  <2>2. Len(sessions) <= N * node + Cardinality(Hirers) + Extra
    BY DEF BrakeInv
  <2>3. N * node \in Nat
    BY <1>1, <2>1
  <2> HIDE DEF N, K, E
  <2> QED
    BY <1>1, <1>2, <2>1, <2>2, <2>3
<1> HIDE DEF N, K, E
<1>4. N * node <= N * K /\ N * (K + 1) = N * K + N /\ N * K \in Nat /\ N * node \in Nat
  BY <1>1, <1>3
<1>5. Len(sessions) <= N * (K + 1) + E
  BY <1>1, <1>2, <1>3, <1>4
<1>6. DOMAIN sessions \subseteq 1 .. N * (K + 1) + E
  BY <1>1, <1>2, <1>3, <1>4, <1>5
<1>7. Sids = 1 .. N * (K + 1) + E
  <2>1. Bound["drop"] \in Nat /\ Bound["forget"] \in Nat
    BY FlowBoundsAssumption DEF Faults
  <2>2. N * (K + 1) \in Nat
    BY <1>1, <1>3, <1>4
  <2>3. N * (K + 1) + Bound["drop"] + Bound["forget"] = N * (K + 1) + E
    BY <2>1, <2>2 DEF E
  <2> QED
    BY <2>3 DEF Sids, N, K
<1> QED
  BY <1>6, <1>7

\* The scheduler's permits and counters stay in range, and every sid that a
\* memo, a call or the script holds is one of a session that was hired.
THEOREM FlowTypes == Spec => []TypeOK
<1>1. /\ CountInv /\ ServeInv /\ SpentInv /\ LifeInv /\ BrakeInv /\ WarnInv /\ RestInv /\ ReadyInv
      => TypeOK
  <2> SUFFICES ASSUME CountInv, ServeInv, SpentInv, LifeInv, BrakeInv, WarnInv, RestInv, ReadyInv
               PROVE  TypeOK
    OBVIOUS
  <2>1. /\ Ranges /\ CountersHonest /\ HireInv /\ SeqInv /\ MemoInv
    BY DEF CountInv, ServeInv
  <2>2. DOMAIN sessions \subseteq Sids
    BY <2>1, SessionsBounded
  <2>3. \A P : IsFiniteSet(In(P)) /\ Cardinality(In(P)) \in Nat
    BY Countable, FS_CardinalityType
  <2>4. \A p : IsFiniteSet(InPool(p)) /\ Cardinality(InPool(p)) \in Nat
    BY Countable, FS_CardinalityType
  <2>5. admitted \in Nat /\ pending \in Nat
    BY <2>1, <2>3 DEF CountersHonest
  <2>6. MaxParallel \in Nat /\ PoolSize \in Nat
    BY LimitAssumption
  <2>7. runFree \in 0 .. MaxParallel
    BY <2>1, <2>3, <2>6 DEF CountersHonest, Ranges, RestInv
  <2>8. poolFree \in [Pools -> 0 .. PoolSize]
    <3>1. \A p \in Pools : poolFree[p] \in 0 .. PoolSize
      BY <2>1, <2>4, <2>6 DEF CountersHonest, Ranges, RestInv
    <3> QED
      BY <2>1, <3>1 DEF Ranges
  <2>9. \A c \in Calls \union {0} : SessionsOf[c] \subseteq Sids \union {NoSid}
    BY <2>2 DEF SessionsOf
  <2>10. answer \in [Calls -> Sids \union {NoSid}] /\ sid \in [Calls -> Sids \union {NoSid}]
    BY <2>1, <2>9 DEF MemoInv
  <2>11. file \in [Seqs -> Line] /\ prior \in [Seqs -> Line]
    <3>1. \A l \in Entry : l.sid \in SessionsOf[l.call] => l \in Line
      BY <2>9 DEF Entry, Line
    <3> QED
      BY <2>1, <3>1 DEF MemoInv
  <2>12. idem \in [Seqs \X Calls -> Sids \union {NoSid}]
    <3>1. \A k \in Seqs \X Calls : idem[k] \in Sids \union {NoSid}
      <4> TAKE k \in Seqs \X Calls
      <4>1. k[2] \in Calls
        OBVIOUS
      <4> QED
        BY <2>1, <2>9, <4>1 DEF MemoInv
    <3> QED
      BY <2>1, <3>1 DEF MemoInv
  <2>13. tracked \subseteq Sids /\ warned \subseteq Sids
    BY <2>1, <2>2 DEF MemoInv, WarnInv
  <2>14. \A i \in DOMAIN ready : ready[i] \in Calls
    BY DEF ReadyInv
  <2>15. pc \in [Calls -> {"new"} \union Waiting \union Started \union Finished]
         /\ run \in {"live", "down", "ended"}
    BY <2>1 DEF Ranges, Phase
  <2>16. seqOf \in [Calls -> Seqs] /\ nextSeq \in Nat /\ node \in Nat
    BY <2>1 DEF SeqInv, HireInv
  <2> QED
    BY <2>2, <2>5, <2>7, <2>8, <2>10, <2>11, <2>12, <2>13, <2>14, <2>15, <2>16 DEF TypeOK, RestInv
<1>2. ServeInv => HireInv
  BY DEF ServeInv
<1>3. JournalInv => ReadyInv
  BY DEF JournalInv
<1>4. ServeInv /\ JournalInv /\ [Next]_vars => JournalInv'
  BY NextReady, NextNumbers, NextLines, NextParts DEF JournalInv
<1>5. SpentInv /\ [Next]_vars => SpentInv'
  BY SpentStep
<1> QED
  BY <1>1, <1>2, <1>3, <1>4, <1>5, InitCounts, NextCounts, InitServes, NextServes, InitRests,
     InitBraked, NextBraked, NextLives, NextWarned, NextRests, InitJournal, PTL DEF Spec
=============================================================================
