----------------------------- MODULE ExecSession -----------------------------
(***************************************************************************)
(* A vendor process run on a satellite: the exec link a call of            *)
(* HostChannel has paired.  The daemon's side is remote_exec and the pump   *)
(* of the web handler; the satellite's is run_exec_session, which starts    *)
(* the child and moves bytes between the link and the child's two pipes,    *)
(* one thing at a time.                                                    *)
(*                                                                         *)
(* Bytes are counted in units of what a pipe may hold; a line is one frame  *)
(* of LineSize units.  The bridge and the socket behind it are one queue in *)
(* each direction, without the backpressure of either.                     *)
(***************************************************************************)
EXTENDS HostChannel

CONSTANTS
  LineSize,    \* units of a line the daemon writes
  MaxReply,    \* units the child writes for one it reads, if it writes any
  MaxLines,    \* bound: lines written on a link
  PipeCap      \* units a pipe of the child holds

ASSUME SizesAssumption == {LineSize, MaxReply, MaxLines, PipeCap} \subseteq Nat

VARIABLES
  \* the daemon's side
  hold,      \* what the caller does with its bridge
  lines,     \* lines it wrote
  pump,      \* pump_exec_dialback
  \* the link
  wire,      \* "up", or "cut"
  outward, inward,  \* frames towards the satellite, and towards the daemon
  severed,   \* links cut and outputs closed, which count among MaxFaults
  \* the satellite's side
  sess,      \* phase of run_exec_session
  feed,      \* units of a line it has yet to write to the child
  stdin,     \* its handle of the child's stdin: open, or dropped
  inPipe, outPipe,  \* what the child's pipes hold
  child,     \* the process: "alive", "mute" once it has closed its stdout, "dead"
  owes       \* units it must write before it reads on

execVars == <<hold, lines, pump, wire, outward, inward, severed, sess, feed, stdin,
              inPipe, outPipe, child, owes>>
daemonVars == <<hold, lines, pump>>
linkVars   == <<wire, outward, inward, severed>>
childVars  == <<stdin, inPipe, outPipe, child, owes>>
engineVars == <<sess, feed>>
vars       == <<channelVars, execVars>>

Execs == {r \in Requests : KindOf[r] = "exec"}

ExecInit ==
  /\ Init
  /\ hold = [r \in Execs |-> "none"] /\ lines = [r \in Execs |-> 0]
  /\ pump = [r \in Execs |-> "none"] /\ wire = [r \in Execs |-> "up"]
  /\ outward = [r \in Execs |-> <<>>] /\ inward = [r \in Execs |-> <<>>]
  /\ severed = 0
  /\ sess = [r \in Execs |-> "none"] /\ feed = [r \in Execs |-> 0]
  /\ stdin = [r \in Execs |-> FALSE]
  /\ inPipe = [r \in Execs |-> 0] /\ outPipe = [r \in Execs |-> 0]
  /\ child = [r \in Execs |-> "none"] /\ owes = [r \in Execs |-> 0]

\* A frame put on a link; a silent link swallows it, and an end that has gone
\* reads nothing.
Sent(q, r, frame) == IF wire[r] = "up" THEN [q EXCEPT ![r] = Append(@, frame)] ELSE q
ToSatellite(r, frame) == IF sess[r] = "over" THEN outward ELSE Sent(outward, r, frame)
ToCaller(r, frame)    == IF hold[r] = "over" THEN inward ELSE Sent(inward, r, frame)

-----------------------------------------------------------------------------
(* Where the two components meet.                                          *)

\* The pump and the engine begin; a pump whose caller has gone closes at once.
PairLink(r) ==
  /\ Pair(r)
  /\ pump' = [pump EXCEPT ![r] = IF pc[r] = "waiting" THEN "up" ELSE "over"]
  /\ sess' = [sess EXCEPT ![r] = "spec"]
  /\ outward' = IF pc[r] = "waiting" THEN outward ELSE ToSatellite(r, "close")
  /\ UNCHANGED <<hold, lines, wire, severed, inward, feed, childVars>>

\* connect: the caller has the bridge and sends its ExecSpec.
TakeBridge(r) ==
  /\ Answered(r)
  /\ hold' = [hold EXCEPT ![r] = "shaking"]
  /\ outward' = ToSatellite(r, "spec")
  /\ UNCHANGED <<lines, pump, wire, severed, inward, engineVars, childVars>>

\* A call dropped before it took the bridge drops the bridge as well.
LeftLink(r) ==
  /\ Left(r)
  /\ hold' = [hold EXCEPT ![r] = "over"]
  /\ UNCHANGED <<lines, pump, linkVars, engineVars, childVars>>

-----------------------------------------------------------------------------
(* The daemon's side: connect, ws_stream_io and the transport above it.    *)

\* await_exec_started: the session has begun, or was refused.
Started(r) ==
  /\ hold[r] = "shaking" /\ inward[r] # <<>>
  /\ hold' = [hold EXCEPT ![r] = IF Head(inward[r]) = "started" THEN "using" ELSE "over"]
  /\ inward' = [inward EXCEPT ![r] = IF Head(@) = "started" THEN Tail(@) ELSE <<>>]
  /\ UNCHANGED <<lines, pump, wire, severed, outward, engineVars, childVars>>

\* connect fails: the link has closed, or CONNECT_TIMEOUT ran out; or its caller
\* dropped it.
ConnectFails(r) ==
  /\ hold[r] = "shaking"
  /\ hold' = [hold EXCEPT ![r] = "over"]
  /\ inward' = [inward EXCEPT ![r] = <<>>]
  /\ UNCHANGED <<lines, pump, wire, severed, outward, engineVars, childVars>>

WriteLine(r) ==
  /\ hold[r] = "using" /\ pump[r] = "up" /\ lines[r] < MaxLines
  /\ lines' = [lines EXCEPT ![r] = @ + 1]
  /\ outward' = ToSatellite(r, "line")
  /\ UNCHANGED <<hold, pump, wire, severed, inward, engineVars, childVars>>

\* The reader comes to the tail frame, or to the end of what a pump that has gone
\* brought.
ReadEnd(r) ==
  /\ hold[r] = "using"
  /\ IF inward[r] = <<>> THEN pump[r] = "over" ELSE Head(inward[r]) = "exit"
  /\ hold' = [hold EXCEPT ![r] = "over"]
  /\ inward' = [inward EXCEPT ![r] = <<>>]
  /\ UNCHANGED <<lines, pump, wire, severed, outward, engineVars, childVars>>

\* The transport lets go: after a poll_shutdown, which asks to close the child's
\* stdin first, or by an abort of the writer.
LetGo(r) ==
  /\ hold[r] = "using"
  /\ hold' = [hold EXCEPT ![r] = "over"]
  /\ inward' = [inward EXCEPT ![r] = <<>>]
  /\ \/ outward' = IF pump[r] = "up" THEN ToSatellite(r, "stdin_close") ELSE outward
     \/ UNCHANGED outward
  /\ UNCHANGED <<lines, pump, wire, severed, engineVars, childVars>>

\* The caller's half of the bridge has gone: the pump mirrors it as a close.
PumpMirrorsClose(r) ==
  /\ pump[r] = "up" /\ hold[r] = "over"
  /\ pump' = [pump EXCEPT ![r] = "over"]
  /\ outward' = ToSatellite(r, "close")
  /\ UNCHANGED <<hold, lines, wire, severed, inward, engineVars, childVars>>

\* The socket has closed, or nothing has come for IDLE_TIMEOUT: the link is silent,
\* or the session reads no ping while it waits for its child.  The socket goes with
\* the pump.
PumpBreaks(r) ==
  /\ pump[r] = "up"
  /\ sess[r] \in {"feeding", "reaping", "over"} \/ wire[r] = "cut"
  /\ pump' = [pump EXCEPT ![r] = "over"]
  /\ outward' = ToSatellite(r, "close")
  /\ UNCHANGED <<hold, lines, wire, severed, inward, engineVars, childVars>>

-----------------------------------------------------------------------------
(* The satellite's side: run_exec_session.                                 *)

\* The first frame: a spec is refused or its child is spawned.
ReadSpec(r) ==
  /\ sess[r] = "spec" /\ outward[r] # <<>> /\ Head(outward[r]) = "spec"
  /\ \/ /\ inward' = ToCaller(r, "refused")
        /\ outward' = [outward EXCEPT ![r] = <<>>]
        /\ sess' = [sess EXCEPT ![r] = "over"]
        /\ UNCHANGED childVars
     \/ /\ inward' = ToCaller(r, "started")
        /\ outward' = [outward EXCEPT ![r] = Tail(@)]
        /\ sess' = [sess EXCEPT ![r] = "pump"]
        /\ child' = [child EXCEPT ![r] = "alive"]
        /\ stdin' = [stdin EXCEPT ![r] = TRUE]
        /\ UNCHANGED <<inPipe, outPipe, owes>>
  /\ UNCHANGED <<daemonVars, wire, severed, feed>>

\* No spec: the link closed, or SPEC_TIMEOUT ran out.
NoSpec(r) ==
  /\ sess[r] = "spec"
  /\ sess' = [sess EXCEPT ![r] = "over"]
  /\ outward' = [outward EXCEPT ![r] = <<>>]
  /\ UNCHANGED <<daemonVars, wire, severed, inward, feed, childVars>>

\* A line for the child: written to its end before anything else is looked at.
\* One that comes after the half-close ends the session.
TakeLine(r) ==
  /\ sess[r] = "pump" /\ outward[r] # <<>> /\ Head(outward[r]) = "line"
  /\ outward' = [outward EXCEPT ![r] = Tail(@)]
  /\ sess' = [sess EXCEPT ![r] = IF stdin[r] THEN "feeding" ELSE "ending"]
  /\ feed' = [feed EXCEPT ![r] = IF stdin[r] THEN LineSize ELSE 0]
  /\ UNCHANGED <<daemonVars, wire, severed, inward, childVars>>

\* Mutant: written without waiting for room.
FeedChildAtOnce(r) ==
  /\ sess[r] = "feeding" /\ child[r] # "dead"
  /\ inPipe' = [inPipe EXCEPT ![r] = @ + feed[r]]
  /\ feed' = [feed EXCEPT ![r] = 0]
  /\ sess' = [sess EXCEPT ![r] = "pump"]
  /\ UNCHANGED <<daemonVars, linkVars, stdin, outPipe, child, owes>>

\* write_all: a unit goes into the pipe when there is room, and fails when the
\* child has gone.
FeedChild(r) ==
  /\ sess[r] = "feeding"
  /\ \/ /\ child[r] = "dead"
        /\ sess' = [sess EXCEPT ![r] = "ending"]
        /\ feed' = [feed EXCEPT ![r] = 0]
        /\ UNCHANGED inPipe
     \/ /\ child[r] # "dead" /\ feed[r] > 0 /\ inPipe[r] < PipeCap
        /\ inPipe' = [inPipe EXCEPT ![r] = @ + 1]
        /\ feed' = [feed EXCEPT ![r] = @ - 1]
        /\ UNCHANGED sess
     \/ /\ feed[r] = 0
        /\ sess' = [sess EXCEPT ![r] = "pump"]
        /\ UNCHANGED <<feed, inPipe>>
  /\ UNCHANGED <<daemonVars, linkVars, stdin, outPipe, child, owes>>

\* stdin_close: the handle is dropped, and the child will read its end.
HalfClose(r) ==
  /\ sess[r] = "pump" /\ outward[r] # <<>> /\ Head(outward[r]) = "stdin_close"
  /\ outward' = [outward EXCEPT ![r] = Tail(@)]
  /\ stdin' = [stdin EXCEPT ![r] = FALSE]
  /\ UNCHANGED <<daemonVars, wire, severed, inward, engineVars, inPipe, outPipe, child, owes>>

\* What the child wrote goes out, and is no longer followed.
PumpOutput(r) ==
  /\ sess[r] = "pump" /\ outPipe[r] > 0
  /\ outPipe' = [outPipe EXCEPT ![r] = @ - 1]
  /\ UNCHANGED <<daemonVars, linkVars, engineVars, stdin, inPipe, child, owes>>

\* Mutant: no idle check, a link that falls silent is not noticed.
EngineBreaksWhenTold(r) ==
  /\ sess[r] = "pump"
  /\ \/ outward[r] # <<>> /\ Head(outward[r]) = "close"
     \/ child[r] = "dead"
  /\ sess' = [sess EXCEPT ![r] = "ending"]
  /\ UNCHANGED <<daemonVars, linkVars, feed, childVars>>

\* The loop ends: the link has closed, is idle past IDLE_TIMEOUT, or the child has
\* exited, whatever its pipe still holds.
EngineBreaks(r) ==
  /\ sess[r] = "pump"
  /\ \/ outward[r] # <<>> /\ Head(outward[r]) = "close"
     \/ wire[r] = "cut"
     \/ child[r] = "dead"
  /\ sess' = [sess EXCEPT ![r] = "ending"]
  /\ UNCHANGED <<daemonVars, linkVars, feed, childVars>>

\* The end of the child's stdout: the session waits for its exit, and looks at
\* nothing else.
StdoutEnds(r) ==
  /\ sess[r] = "pump" /\ child[r] = "mute" /\ outPipe[r] = 0
  /\ sess' = [sess EXCEPT ![r] = "reaping"]
  /\ UNCHANGED <<daemonVars, linkVars, feed, childVars>>

Reaped(r) ==
  /\ sess[r] = "reaping" /\ child[r] = "dead"
  /\ sess' = [sess EXCEPT ![r] = "ending"]
  /\ UNCHANGED <<daemonVars, linkVars, feed, childVars>>

\* The child is killed if it has not exited, and the tail frame is sent.
EndSession(r) ==
  /\ sess[r] = "ending"
  /\ child' = [child EXCEPT ![r] = "dead"]
  /\ inPipe' = [inPipe EXCEPT ![r] = 0]
  /\ outPipe' = [outPipe EXCEPT ![r] = 0]
  /\ owes' = [owes EXCEPT ![r] = 0]
  /\ stdin' = [stdin EXCEPT ![r] = FALSE]
  /\ inward' = ToCaller(r, "exit")
  /\ outward' = [outward EXCEPT ![r] = <<>>]
  /\ sess' = [sess EXCEPT ![r] = "over"]
  /\ UNCHANGED <<daemonVars, wire, severed, feed>>

-----------------------------------------------------------------------------
(* The child and the network.                                              *)

\* It reads a unit, which makes it write some, and reads on when it has.  One that
\* has closed its stdout writes nothing.
ChildReads(r) ==
  /\ child[r] \in {"alive", "mute"} /\ owes[r] = 0 /\ inPipe[r] > 0
  /\ inPipe' = [inPipe EXCEPT ![r] = @ - 1]
  /\ \E n \in IF child[r] = "alive" THEN {0, MaxReply} ELSE {0} :
       owes' = [owes EXCEPT ![r] = n]
  /\ UNCHANGED <<daemonVars, linkVars, engineVars, stdin, outPipe, child>>

ChildWrites(r) ==
  /\ child[r] = "alive" /\ owes[r] > 0 /\ outPipe[r] < PipeCap
  /\ outPipe' = [outPipe EXCEPT ![r] = @ + 1]
  /\ owes' = [owes EXCEPT ![r] = @ - 1]
  /\ UNCHANGED <<daemonVars, linkVars, engineVars, stdin, inPipe, child>>

\* It closes its stdout and lives on.
ChildClosesStdout(r) ==
  /\ severed' = severed + 1
  /\ child[r] = "alive"
  /\ child' = [child EXCEPT ![r] = "mute"]
  /\ owes' = [owes EXCEPT ![r] = 0]
  /\ UNCHANGED <<daemonVars, wire, outward, inward, engineVars, stdin, inPipe, outPipe>>

\* It exits at the end of its input, or by itself.
ChildExits(r) ==
  /\ child[r] \in {"alive", "mute"}
  /\ child' = [child EXCEPT ![r] = "dead"]
  /\ inPipe' = [inPipe EXCEPT ![r] = 0]
  /\ owes' = [owes EXCEPT ![r] = 0]
  /\ UNCHANGED <<daemonVars, linkVars, engineVars, stdin, outPipe>>

\* The exec link falls silent in both directions.
Sever(r) ==
  /\ severed' = severed + 1
  /\ wire[r] = "up" /\ sess[r] \notin {"none", "over"}
  /\ wire' = [wire EXCEPT ![r] = "cut"]
  /\ outward' = [outward EXCEPT ![r] = <<>>]
  /\ inward' = [inward EXCEPT ![r] = <<>>]
  /\ UNCHANGED <<daemonVars, engineVars, childVars>>

-----------------------------------------------------------------------------
Daemon(r) == \/ Started(r) \/ ConnectFails(r) \/ WriteLine(r) \/ ReadEnd(r) \/ LetGo(r)
             \/ PumpMirrorsClose(r) \/ PumpBreaks(r)
Engine(r) == \/ ReadSpec(r) \/ NoSpec(r) \/ TakeLine(r) \/ FeedChild(r) \/ HalfClose(r)
             \/ PumpOutput(r) \/ EngineBreaks(r) \/ StdoutEnds(r) \/ Reaped(r)
             \/ EndSession(r)
Child(r)  == ChildReads(r) \/ ChildWrites(r) \/ ChildClosesStdout(r) \/ ChildExits(r)

\* The steps of the control channel that do not concern a link.
Channel ==
  \/ \E c \in Conns : Client(c) \/ Handler(c) \/ Cut(c)
  \/ \E r \in Requests : Open(r) \/ Send(r) \/ SendFails(r) \/ GivesUp(r)
                         \/ ProjectCreated(r) \/ ClaimExec(r) \/ UpgradeLost(r)
  \/ \E r \in Requests \ Execs : Answered(r) \/ Left(r)

ExecNext ==
  \/ Channel /\ UNCHANGED execVars
  \/ \E r \in Execs : PairLink(r) \/ TakeBridge(r) \/ LeftLink(r)
  \/ \E r \in Execs : (Daemon(r) \/ Engine(r) \/ Child(r) \/ Sever(r)) /\ UNCHANGED channelVars

\* The two components share one bound on what may go wrong.
ExecSpec == ExecInit /\ [][ExecNext /\ faults' + severed' <= MaxFaults]_vars

\* What runs on by itself: the tasks of daemon and satellite with their timeouts,
\* and a vendor process that goes on reading and writing.  That a call is made or
\* dropped, a line written, a process exits or closes its stdout, or a link falls
\* silent is not promised.
Runs ==
  \/ \E c \in Conns : (Client(c) \/ Handler(c)) /\ UNCHANGED execVars
  \/ \E r \in Requests : (Send(r) \/ SendFails(r) \/ GivesUp(r)
                          \/ ProjectCreated(r) \/ ClaimExec(r)) /\ UNCHANGED execVars
  \/ \E r \in Requests \ Execs : Answered(r) /\ UNCHANGED execVars
  \/ \E r \in Execs :
       \/ PairLink(r) \/ TakeBridge(r)
       \/ /\ \/ Started(r) \/ ConnectFails(r) \/ ReadEnd(r) \/ PumpMirrorsClose(r) \/ PumpBreaks(r)
             \/ Engine(r) \/ ChildReads(r) \/ ChildWrites(r)
          /\ UNCHANGED channelVars

\* Every behaviour runs out of such steps under the bounds, so that it is enough
\* to ask for one of them while there is one.
Fairness == WF_vars(Runs)

ExecFairSpec == ExecSpec /\ Fairness

-----------------------------------------------------------------------------
(* Properties.                                                             *)

Frames == {"spec", "line", "stdin_close", "close", "started", "refused", "exit"}

\* Every variable has its type, and no pipe holds more than it can.
ExecTypeOK ==
  /\ TypeOK
  /\ hold \in [Execs -> {"none", "shaking", "using", "over"}]
  /\ lines \in [Execs -> 0 .. MaxLines]
  /\ pump \in [Execs -> {"none", "up", "over"}]
  /\ wire \in [Execs -> {"up", "cut"}]
  /\ outward \in [Execs -> Seq(Frames)] /\ inward \in [Execs -> Seq(Frames)]
  /\ sess \in [Execs -> {"none", "spec", "pump", "feeding", "reaping", "ending", "over"}]
  /\ feed \in [Execs -> 0 .. LineSize]
  /\ severed \in 0 .. MaxFaults
  /\ stdin \in [Execs -> BOOLEAN]
  /\ inPipe \in [Execs -> 0 .. PipeCap] /\ outPipe \in [Execs -> 0 .. PipeCap]
  /\ child \in [Execs -> {"none", "alive", "mute", "dead"}]
  /\ owes \in [Execs -> 0 .. MaxReply]

\* Session and child wait for each other: the session writes a line to a child
\* that reads nothing before its output is taken.
Wedged(r) ==
  /\ sess[r] = "feeding" /\ feed[r] > 0 /\ inPipe[r] = PipeCap
  /\ child[r] = "alive" /\ owes[r] > 0 /\ outPipe[r] = PipeCap

\* The session waits for the exit of a child that has closed its stdout.
Unwatched(r) == sess[r] = "reaping" /\ child[r] = "mute"

\* A call to the satellite that has not returned.
Outstanding(r) == pc[r] \in Calling \/ (r \in Execs /\ hold[r] = "shaking")

\* One end of a link is over and the other is not.
HalfOver(r) ==
  \/ /\ pc[r] \in {"failed", "left"} \/ hold[r] = "over"
     /\ sess[r] \notin {"none", "over"}
  \/ hold[r] = "using" /\ sess[r] = "over"

\* A call to a satellite returns whatever becomes of the connection, the message,
\* the dial-back, the session or the link (the timeouts of open_exec,
\* request_project_init and connect).
CallsReturn == \A r \in Requests : Outstanding(r) ~> ~Outstanding(r)

\* The two ends of an exec link end together: a process is not left running for
\* a caller that has gone, and a caller is not left reading from a session that
\* is over, also when the link fell silent between them (the closes, idle checks
\* and drops of the pump and of run_exec_session).  The exceptions are a session
\* that is wedged, and one that watches neither link nor timers while a child
\* whose stdout is closed lives on.
EndsTogether ==
  \A r \in Execs : HalfOver(r) ~> (~HalfOver(r) \/ Wedged(r) \/ Unwatched(r))
=============================================================================
