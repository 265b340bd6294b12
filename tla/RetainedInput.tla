---------------------------- MODULE RetainedInput ----------------------------
(***************************************************************************)
(* The lines of one Claude session: claude_stream_json of ccteam-harness.  *)
(* A line that must run as a turn of its own is parked behind the turn in  *)
(* flight, mirrored to deferred-input.json, and written by the status tap  *)
(* at the next turn boundary; any other line is written at once.  Every    *)
(* line has the execution-turn id under which its turn will be reported,   *)
(* which a second subscriber of the same stream, the event translator,     *)
(* reads: the tap and the translator advance independently of each other.  *)
(*                                                                         *)
(* A line stands for its text and for the id minted for it; a line is      *)
(* submitted when those before it were.  What the vendor says is left out; *)
(* which lines a turn of it runs is kept.                                  *)
(***************************************************************************)
EXTENDS Integers, Sequences, FiniteSets

CONSTANTS
  Lines,       \* the lines submitted to the session
  Routes,      \* for each line, how it may be submitted: see Route
  MaxLives,    \* bound: process lives of the session
  MaxTurns,    \* bound: lines submitted and turns the vendor opens by itself
  MaxFaults,   \* bound: failed writes of the mirror
  MaxOwn,      \* bound: turns the vendor opens by itself, when no write failed
  MaxUnread    \* bound: what the translator has not read

\* TurnRouting::Queue, ::Notification, a slash command, ordinary input.
Route == {"task", "note", "slash", "user"}

ASSUME LinesAssumption  == Lines \subseteq Nat \ {0} /\ IsFiniteSet(Lines)
ASSUME BoundsAssumption ==
  /\ Routes \in [Lines -> SUBSET Route] /\ MaxLives \in Nat \ {0}
  /\ {MaxTurns, MaxFaults, MaxOwn, MaxUnread} \subseteq Nat

VARIABLES
  up,        \* "live"; "closed": the child died; "down": the daemon let go of it
  life,      \* how often the session was started
  \* the submit calls
  pc,        \* phase of each line
  route,     \* how each line is submitted
  was,       \* the value of active_turn each submission swapped out
  \* the session: LiveSession, TurnIdentity
  active,    \* active_turn
  queue,     \* deferred_input
  pending,   \* TurnIdentity::pending, or NoId
  current,   \* TurnIdentity::active, or NoId
  replay,    \* TurnIdentity::replay_pending
  disk,      \* deferred-input.json
  \* the readers of the child's output
  writing,   \* the line the tap has claimed and not yet written
  tapIn,     \* how many results the tap has not read; the rest it only displays
  eventsIn,  \* what the translator has not read
  pumping,   \* the translator has not seen the stream close
  rows,      \* the turns reported, by id
  \* the vendor's process
  stdin,     \* lines it has not read
  heard,     \* lines it read during a turn and will run as a later one
  busy, prompt,  \* a turn runs, of these lines
  \* history
  asked,     \* <<line, life>> of the lines parked, in order
  handed,    \* what the tap wrote, in order
  ran,       \* lines the vendor opened a turn with
  crossed,   \* turns met: see Meets
  spent      \* failed writes, and turns of the vendor's own

submitVars == <<pc, route, was>>
idVars     == <<pending, current, replay>>
streamVars == <<tapIn, eventsIn>>
reportVars == <<pumping, rows>>
vendorVars == <<stdin, heard, busy, prompt>>
pastVars   == <<asked, handed, ran, crossed, spent>>
vars == <<up, life, submitVars, active, queue, idVars, disk, writing, streamVars, reportVars,
          vendorVars, pastVars>>

NoId   == 0
Vendor == -1     \* an id minted for a turn nobody reserved

\* DeferredLine: the lines it delivers, the first of which names its turn.
Parked(l, r) == [id |-> l, members |-> {l}, note |-> r = "note", frozen |-> FALSE, replayed |-> FALSE]
Entry  == [id : Lines, members : SUBSET Lines, note : BOOLEAN, frozen : BOOLEAN, replayed : BOOLEAN]
NoLine == [id |-> NoId, members |-> {}, note |-> FALSE, frozen |-> FALSE, replayed |-> FALSE]
Empty  == [inFlight |-> NoLine, parked |-> << >>]

Init ==
  /\ up = "live" /\ life = 1
  /\ pc = [l \in Lines |-> "new"] /\ route = [l \in Lines |-> "user"]
  /\ was = [l \in Lines |-> FALSE]
  /\ active = FALSE /\ queue = Empty /\ disk = Empty
  /\ pending = NoId /\ current = NoId /\ replay = FALSE
  /\ writing = NoLine /\ tapIn = 0 /\ eventsIn = << >> /\ pumping = TRUE /\ rows = {}
  /\ stdin = << >> /\ heard = << >> /\ busy = FALSE /\ prompt = {}
  /\ asked = << >> /\ handed = << >> /\ ran = {} /\ crossed = FALSE
  /\ spent = [faults |-> 0, own |-> 0]

\* persist_deferred_input of q succeeds, or fails and leaves the file.
Mirrors(q) == disk' = q /\ UNCHANGED spent
MirrorFails ==
  /\ spent.faults < MaxFaults /\ spent.own = 0
  /\ spent' = [spent EXCEPT !.faults = @ + 1]
  /\ UNCHANGED disk

\* Two turns met: a line was written while another turn was under way or not yet
\* read, the vendor opened a turn by itself, or a line claimed the identity of the
\* next turn while the turn that had claimed it was not reported.
Meets(b) == crossed' = (crossed \/ b)

Turns == spent.own + Cardinality({l \in Lines : pc[l] # "new"})

-----------------------------------------------------------------------------
(* submit_turn_routed and the slash path.                                  *)

MaySubmit(l) ==
  /\ up # "down" /\ Turns < MaxTurns
  /\ pc[l] = "new" /\ \A k \in Lines : k < l => pc[k] # "new"

\* Mutant: whether a turn is in flight is asked before the lock is taken.
ParkIdle(l, r) ==
  LET q == [queue EXCEPT !.parked = Append(@, Parked(l, r))]
  IN  /\ MaySubmit(l) /\ r # "user"
      /\ route' = [route EXCEPT ![l] = r]
      /\ Mirrors(q) /\ queue' = q
      /\ pc' = [pc EXCEPT ![l] = "queued"] /\ asked' = Append(asked, <<l, life>>)
      /\ UNCHANGED <<up, life, was, active, idVars, writing, streamVars, reportVars, vendorVars,
                     handed, ran, crossed>>

\* park_deferred_line, under one lock.  A mirror that refuses takes a task or a
\* notification back, which then goes out at once; a slash command stays.
Park(l, r) ==
  LET q == [queue EXCEPT !.parked = Append(@, Parked(l, r))]
  IN  /\ MaySubmit(l) /\ r # "user" /\ active
      /\ route' = [route EXCEPT ![l] = r]
      /\ \/ /\ Mirrors(q) /\ queue' = q
            /\ pc' = [pc EXCEPT ![l] = "queued"] /\ asked' = Append(asked, <<l, life>>)
         \/ /\ MirrorFails /\ r = "slash" /\ queue' = q
            /\ pc' = [pc EXCEPT ![l] = "queued"] /\ asked' = Append(asked, <<l, life>>)
         \/ /\ MirrorFails /\ r # "slash" /\ UNCHANGED <<queue, asked>>
            /\ pc' = [pc EXCEPT ![l] = "direct"]
      /\ UNCHANGED <<up, life, was, active, idVars, writing, streamVars, reportVars, vendorVars,
                     handed, ran, crossed>>

\* Ordinary input, or the session is idle, or the mirror refused: active_turn is
\* swapped, and under the identity lock the line takes the id of the turn in
\* flight, which it joins, or its own.
Claim(l, r) ==
  /\ \/ MaySubmit(l) /\ (r = "user" \/ ~active)
     \/ up # "down" /\ pc[l] = "direct" /\ r = route[l]
  /\ pc' = [pc EXCEPT ![l] = "claimed"]
  /\ was' = [was EXCEPT ![l] = active]
  /\ active' = TRUE
  /\ pending' = IF active /\ (current # NoId \/ pending # NoId) THEN pending ELSE l
  /\ replay' = (replay \/ active)
  /\ Meets(~active /\ pending # NoId)
  /\ UNCHANGED <<up, life, route, queue, current, disk, writing, streamVars, reportVars, vendorVars,
                 asked, handed, ran, spent>>

\* Nothing of an earlier turn is under way anywhere.
AtRest == ~busy /\ stdin = << >> /\ heard = << >> /\ tapIn = 0 /\ writing = NoLine

Send(l) ==
  /\ up = "live" /\ pc[l] = "claimed"
  /\ pc' = [pc EXCEPT ![l] = "sent"]
  /\ was' = [was EXCEPT ![l] = FALSE]
  /\ stdin' = Append(stdin, {l})
  /\ Meets(was[l] \/ ~AtRest)
  /\ UNCHANGED <<up, life, route, active, queue, idVars, disk, writing, streamVars, reportVars,
                 heard, busy, prompt, asked, handed, ran, spent>>

\* The writer is closed: ThreadDied, and the gateway submits it once more.
SendFails(l) ==
  /\ up = "closed" /\ pc[l] = "claimed"
  /\ pc' = [pc EXCEPT ![l] = "new"]
  /\ active' = was[l] /\ was' = [was EXCEPT ![l] = FALSE]
  /\ pending' = IF ~was[l] /\ pending = l THEN NoId ELSE pending
  /\ UNCHANGED <<up, life, route, queue, current, replay, disk, writing, streamVars, reportVars,
                 vendorVars, pastVars>>

-----------------------------------------------------------------------------
(* The status tap.                                                         *)

\* Mutant: a batch made up before is filled up again.
BatchesRefilled(q) ==
  IF ~q[1].note
  THEN {[line |-> q[1], rest |-> Tail(q)]}
  ELSE {[line |-> [q[1] EXCEPT !.members = UNION {q[i].members : i \in 1 .. n}, !.frozen = TRUE],
         rest |-> SubSeq(q, n + 1, Len(q))] :
          n \in {m \in DOMAIN q : \A i \in 2 .. m : q[i].note /\ ~q[i].frozen}}

\* take_deferred_batch: the first line, or the notifications at the front that
\* fit in one; a task, a command or an earlier batch ends it.
Batches(q) ==
  IF ~q[1].note \/ q[1].frozen
  THEN {[line |-> q[1], rest |-> Tail(q)]}
  ELSE {[line |-> [q[1] EXCEPT !.members = UNION {q[i].members : i \in 1 .. n}, !.frozen = TRUE,
                               !.replayed = \E i \in 1 .. n : q[i].replayed],
         rest |-> SubSeq(q, n + 1, Len(q))] :
          n \in {m \in DOMAIN q : \A i \in 2 .. m : q[i].note /\ ~q[i].frozen}}

\* The result of a turn reaches the tap.
Boundary ==
  /\ up # "down" /\ writing = NoLine
  /\ tapIn > 0 /\ tapIn' = tapIn - 1
  /\ UNCHANGED <<up, life, submitVars, current, replay, eventsIn, reportVars, vendorVars,
                 asked, handed, ran>>

\* advance_deferred_queue with nothing parked: the line in flight is retired.
Retire ==
  /\ Boundary
  /\ queue.parked = << >>
  /\ active' = FALSE
  /\ \/ queue.inFlight = NoLine /\ UNCHANGED <<queue, disk, spent>>
     \/ queue.inFlight # NoLine /\ queue' = Empty /\ Mirrors(Empty)
     \/ queue.inFlight # NoLine /\ UNCHANGED queue /\ MirrorFails
  /\ UNCHANGED <<pending, writing, crossed>>

\* Mutant: what is handed out is not recorded as in flight.
AdvanceForgets ==
  /\ Boundary
  /\ queue.parked # << >>
  /\ \E b \in Batches(queue.parked) :
       /\ active' = TRUE /\ pending' = b.line.id /\ writing' = b.line
       /\ Meets(pending # NoId)
       /\ queue' = [inFlight |-> NoLine, parked |-> b.rest]
       /\ Mirrors(queue')

\* ... with something parked: it is written ahead and claimed ...
Advance ==
  /\ Boundary
  /\ queue.parked # << >>
  /\ \E b \in Batches(queue.parked) :
       /\ active' = TRUE /\ pending' = b.line.id /\ writing' = b.line
       /\ Meets(pending # NoId)
       /\ queue' = [inFlight |-> b.line, parked |-> b.rest]
       /\ Mirrors(queue')

\* ... and when the file refuses, nothing is handed out.
AdvanceRefused ==
  /\ Boundary
  /\ queue.parked # << >>
  /\ active' = FALSE /\ pending' = NoId /\ Meets(pending # NoId)
  /\ MirrorFails
  /\ UNCHANGED <<queue, writing>>

TapWrites ==
  /\ up = "live" /\ writing # NoLine
  /\ stdin' = Append(stdin, writing.members)
  /\ handed' = Append(handed, [line |-> writing, life |-> life])
  /\ writing' = NoLine
  /\ UNCHANGED <<up, life, submitVars, active, queue, idVars, disk, streamVars, reportVars, heard,
                 busy, prompt, asked, ran, crossed, spent>>

\* Mutant: put back behind the others.
PutBackBehind ==
  /\ up = "closed" /\ writing # NoLine
  /\ active' = FALSE
  /\ pending' = IF pending = writing.id THEN NoId ELSE pending
  /\ queue' = [inFlight |-> NoLine, parked |-> Append(queue.parked, writing)]
  /\ Mirrors(queue') \/ MirrorFails
  /\ writing' = NoLine
  /\ UNCHANGED <<up, life, submitVars, current, replay, streamVars, reportVars, vendorVars,
                 asked, handed, ran, crossed>>

\* The write fails: back to the front, the reservation given up.
PutBack ==
  /\ up = "closed" /\ writing # NoLine
  /\ active' = FALSE
  /\ pending' = IF pending = writing.id THEN NoId ELSE pending
  /\ queue' = [inFlight |-> NoLine, parked |-> <<writing>> \o queue.parked]
  /\ Mirrors(queue') \/ MirrorFails
  /\ writing' = NoLine
  /\ UNCHANGED <<up, life, submitVars, current, replay, streamVars, reportVars, vendorVars,
                 asked, handed, ran, crossed>>

-----------------------------------------------------------------------------
(* The event translator and the transcript.                                *)

\* TurnIdentity::open, when no turn is open: the reserved id, else a fresh one.
Opened    == IF current # NoId THEN current ELSE IF pending # NoId THEN pending ELSE Vendor
OpensOwn  == current = NoId /\ pending = NoId
Unopened  == IF current # NoId THEN pending ELSE NoId

TurnText ==
  /\ up # "down" /\ pumping /\ eventsIn # << >> /\ Head(eventsIn).kind = "text"
  /\ eventsIn' = Tail(eventsIn)
  /\ current' = Opened /\ pending' = Unopened
  /\ replay' = (replay /\ ~OpensOwn)
  /\ UNCHANGED <<up, life, submitVars, active, queue, disk, writing, tapIn, reportVars, vendorVars,
                 pastVars>>

\* Mutant: the turn that is reported stays open.
ResultLeavesOpen ==
  /\ up # "down" /\ pumping /\ eventsIn # << >> /\ Head(eventsIn).kind = "result"
  /\ eventsIn' = Tail(eventsIn)
  /\ rows' = rows \union {[id |-> Opened, of |-> Head(eventsIn).of, life |-> life, failed |-> FALSE]}
  /\ current' = Opened /\ pending' = Unopened
  /\ replay' = (replay /\ ~OpensOwn)
  /\ UNCHANGED <<up, life, submitVars, active, queue, disk, writing, tapIn, pumping, vendorVars,
                 pastVars>>

\* The turn is reported under its id, held if an injected line is to be re-run.
TurnResult ==
  /\ up # "down" /\ pumping /\ eventsIn # << >> /\ Head(eventsIn).kind = "result"
  /\ eventsIn' = Tail(eventsIn)
  /\ rows' = rows \union {[id |-> Opened, of |-> Head(eventsIn).of, life |-> life, failed |-> FALSE]}
  /\ current' = NoId /\ pending' = Unopened
  /\ replay' = (replay /\ ~OpensOwn)
  /\ UNCHANGED <<up, life, submitVars, active, queue, disk, writing, tapIn, pumping, vendorVars,
                 pastVars>>

\* on_close: the open or reserved turn fails under its id.
StreamCloses ==
  /\ up = "closed" /\ pumping /\ eventsIn = << >>
  /\ pumping' = FALSE
  /\ rows' = IF OpensOwn THEN rows
             ELSE rows \union {[id |-> Opened, of |-> {}, life |-> life, failed |-> TRUE]}
  /\ current' = NoId /\ pending' = NoId /\ replay' = FALSE
  /\ UNCHANGED <<up, life, submitVars, active, queue, disk, writing, streamVars, vendorVars,
                 pastVars>>

-----------------------------------------------------------------------------
(* The vendor's process.                                                   *)

Emits(kinds, p) ==
  /\ kinds # {} => Len(eventsIn) < MaxUnread
  /\ tapIn' = tapIn + Cardinality(kinds \intersect {"result"})
  /\ eventsIn' = IF kinds = {} THEN eventsIn
                 ELSE Append(eventsIn, [kind |-> CHOOSE k \in kinds : TRUE, of |-> p])

\* A turn says something, or ends as "a pure error / empty turn".
VendorOpens(p) ==
  /\ up = "live" /\ ~busy
  /\ busy' = TRUE
  /\ prompt' = p
  /\ ran' = ran \union p
  /\ Emits({"text"}, p) \/ Emits({}, p)
  /\ UNCHANGED <<up, life, submitVars, active, queue, idVars, disk, writing, reportVars,
                 asked, handed>>

ReadsLine ==
  /\ heard = << >> /\ stdin # << >>
  /\ VendorOpens(Head(stdin))
  /\ stdin' = Tail(stdin)
  /\ UNCHANGED <<heard, crossed, spent>>

\* A line heard during a turn is re-run: two of them as two turns, or as one.
Rereads ==
  /\ heard # << >>
  /\ \/ VendorOpens(heard[1]) /\ heard' = Tail(heard)
     \/ /\ Len(heard) > 1
        /\ VendorOpens(UNION {heard[i] : i \in DOMAIN heard}) /\ heard' = << >>
  /\ UNCHANGED <<stdin, crossed, spent>>

\* Its background work wakes it.
WakesItself ==
  /\ Turns < MaxTurns /\ spent.own < MaxOwn /\ spent.faults = 0
  /\ VendorOpens({})
  /\ spent' = [spent EXCEPT !.own = @ + 1]
  /\ Meets(TRUE)
  /\ UNCHANGED <<stdin, heard>>

HearsLine ==
  /\ up = "live" /\ busy /\ stdin # << >>
  /\ heard' = Append(heard, Head(stdin))
  /\ stdin' = Tail(stdin)
  /\ UNCHANGED <<up, life, submitVars, active, queue, idVars, disk, writing, streamVars, reportVars,
                 busy, prompt, pastVars>>

Ends ==
  /\ up = "live" /\ busy
  /\ busy' = FALSE /\ prompt' = {}
  /\ Emits({"result"}, prompt)
  /\ UNCHANGED <<up, life, submitVars, active, queue, idVars, disk, writing, reportVars,
                 stdin, heard, pastVars>>

-----------------------------------------------------------------------------
(* The end of a process, and start_thread.                                 *)

\* Its process is gone with what it has not answered.
ChildEnds == stdin' = << >> /\ heard' = << >> /\ busy' = FALSE /\ prompt' = {}

ChildDies ==
  /\ up = "live" /\ life < MaxLives
  /\ up' = "closed"
  /\ ChildEnds
  /\ UNCHANGED <<life, submitVars, active, queue, idVars, disk, writing, streamVars, reportVars,
                 pastVars>>

\* The daemon dies, or detaches from the child, which then goes on by itself for
\* a while: what it runs meanwhile leaves no row with an id.
DaemonDies ==
  LET waiting == heard \o stdin
  IN  /\ up = "live" /\ life < MaxLives
      /\ up' = "down"
      /\ ChildEnds
      /\ \E n \in 0 .. Len(waiting) : ran' = ran \union UNION {waiting[i] : i \in 1 .. n}
      /\ pc' = [l \in Lines |-> IF pc[l] \in {"direct", "claimed"} THEN "lost" ELSE pc[l]]
      /\ was' = [l \in Lines |-> FALSE]
      /\ active' = FALSE /\ queue' = Empty /\ writing' = NoLine
      /\ pending' = NoId /\ current' = NoId /\ replay' = FALSE
      /\ tapIn' = 0 /\ eventsIn' = << >> /\ pumping' = FALSE
      /\ UNCHANGED <<life, route, disk, rows, asked, handed, crossed, spent>>

\* Mutant: it is never asked whether the line in flight ran.
LoadedBlindly ==
  LET q == disk.inFlight
  IN  IF q = NoLine THEN disk.parked ELSE <<[q EXCEPT !.replayed = q.note]>> \o disk.parked

\* load_deferred_input: a notification in flight is repeated and marked; any
\* other line is repeated unless the transcript has a row of its turn.
Loaded ==
  LET q == disk.inFlight
  IN  CASE q = NoLine                              -> disk.parked
        [] q.note                                  -> <<[q EXCEPT !.replayed = TRUE]>> \o disk.parked
        [] ~q.note /\ \E r \in rows : r.id = q.id -> disk.parked
        [] OTHER                                   -> <<q>> \o disk.parked

Restart ==
  /\ up # "live"
  /\ up' = "live" /\ life' = life + 1
  /\ active' = FALSE
  /\ queue' = [inFlight |-> NoLine, parked |-> Loaded]
  /\ pending' = NoId /\ current' = NoId /\ replay' = FALSE
  /\ writing' = NoLine /\ tapIn' = 0 /\ eventsIn' = << >> /\ pumping' = TRUE
  /\ ChildEnds
  /\ pc' = [l \in Lines |-> IF pc[l] \in {"direct", "claimed"} THEN "new" ELSE pc[l]]
  /\ was' = [l \in Lines |-> FALSE]
  /\ UNCHANGED <<route, disk, rows, pastVars>>

-----------------------------------------------------------------------------

Submits == \E l \in Lines :
  \/ \E r \in Routes[l] : Park(l, r) \/ Claim(l, r)
  \/ Send(l) \/ SendFails(l)

Tap == Retire \/ Advance \/ AdvanceRefused \/ TapWrites \/ PutBack
Translator == TurnText \/ TurnResult \/ StreamCloses
VendorSteps == ReadsLine \/ Rereads \/ HearsLine \/ Ends

Next ==
  \/ Submits \/ Tap \/ Translator \/ VendorSteps
  \/ WakesItself \/ ChildDies \/ DaemonDies \/ Restart

Spec == Init /\ [][Next]_vars

-----------------------------------------------------------------------------
(* Properties.                                                             *)

TypeOK ==
  /\ up \in {"live", "closed", "down"} /\ life \in 1 .. MaxLives
  /\ pc \in [Lines -> {"new", "direct", "claimed", "sent", "queued", "lost"}]
  /\ route \in [Lines -> Route] /\ was \in [Lines -> BOOLEAN]
  /\ {active, replay, pumping, busy, crossed} \subseteq BOOLEAN
  /\ {queue, disk} \subseteq [inFlight : Entry \union {NoLine}, parked : Seq(Entry)]
  /\ pending \in Lines \union {NoId} /\ current \in Lines \union {NoId, Vendor}
  /\ writing \in Entry \union {NoLine} /\ (writing # NoLine => writing = queue.inFlight)
  /\ tapIn \in Nat /\ eventsIn \in Seq([kind : {"text", "result"}, of : SUBSET Lines])
  /\ rows \subseteq [id : Lines \union {Vendor}, of : SUBSET Lines, life : 1 .. MaxLives,
                     failed : BOOLEAN]
  /\ {stdin, heard} \subseteq Seq(SUBSET Lines) /\ prompt \subseteq Lines
  /\ asked \in Seq(Lines \X (1 .. MaxLives))
  /\ spent \in [faults : Nat, own : Nat]

Held(q) == q.inFlight.members \union UNION {q.parked[i].members : i \in DOMAIN q.parked}

\* A task or a notification accepted as queued is on disk until the vendor has
\* run it or its turn was reported as failed.
Kept(l) ==
  pc[l] = "queued" /\ route[l] # "slash" =>
    l \in Held(disk) \union ran \/ \E r \in rows : r.id = l /\ r.failed

\* "Lost a dispatched task outright - no turn, no answer, and nothing left on disk
\* to replay": no line is, across failed writes, refused lines and the end of
\* either process, as long as no two turns meet.
QueuedIsKept == ~crossed => \A l \in Lines : Kept(l)

\* A turn reported under the id of a line ran that line, across the two readers of
\* the stream, as long as no two turns meet.
OwnIdentity ==
  ~crossed => \A r \in rows : r.id \in Lines /\ ~r.failed => r.id \in r.of

Asked(l) == CHOOSE i \in DOMAIN asked : asked[i][1] = l

\* Parked lines reach the child in the order they were accepted, whatever is
\* refused, put back or loaded in between; a repetition may come later.
HandedInOrder ==
  \A i, j \in DOMAIN handed : \A a \in handed[i].line.members, b \in handed[j].line.members :
    i < j /\ Asked(a) > Asked(b) =>
      \E k \in 1 .. i : b \in handed[k].line.members

\* A line goes out once in the life of a process; a notification that goes out
\* again does so in the batch it was in, and says that it is a repetition.
RepeatsAreMarked ==
  \A i, j \in DOMAIN handed :
    LET a == handed[i].line
        b == handed[j].line
    IN  i < j /\ a.members \intersect b.members # {} =>
          /\ handed[i].life < handed[j].life
          /\ a.id = b.id /\ a.members = b.members
          /\ a.note => b.replayed

\* "A row means it ran, and replaying it would ask the child to do the work
\* twice": a task a turn was reported for is not handed over in a later life.
AnsweredIsNotRepeated ==
  \A i \in DOMAIN handed : \A r \in rows :
    ~(~handed[i].line.note /\ r.life < handed[i].life /\ r.id = handed[i].line.id /\ r.id \in r.of)

UnderWay ==
  \/ busy \/ stdin # << >> \/ heard # << >> \/ tapIn > 0 \/ writing # NoLine
  \/ \E l \in Lines : pc[l] \in {"direct", "claimed"}

\* Nothing else would ever send it: a line accepted in this life is parked only
\* while something is under way whose end the tap will see, unless the mirror
\* refused to let it go.
ParkedBehindSomething ==
  \A l \in Lines : \A i \in DOMAIN queue.parked :
    /\ up = "live" /\ spent.faults = 0
    /\ l \in queue.parked[i].members /\ <<l, life>> \in {asked[k] : k \in DOMAIN asked}
    => UnderWay /\ active

-----------------------------------------------------------------------------
(* What the comments say and the code does not do.                         *)

\* The line in flight "only leaves when the turn boundary that consumed it
\* arrives": whatever turns meet, a queued line is kept until it ran.
NothingQueuedIsLost == \A l \in Lines : Kept(l)
=============================================================================
