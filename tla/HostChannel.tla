----------------------------- MODULE HostChannel -----------------------------
(***************************************************************************)
(* The control channel of one satellite host: HostChannelHub of            *)
(* ccteam-harness, the WebSocket handlers of ccteam-web and the satellite's *)
(* client.  The satellite dials out and keeps one control connection; the  *)
(* daemon registers it, and the newest registration wins.  A call opens an *)
(* exec or creates a project: it leaves a nonce in the pending map, sends a *)
(* message down the connection, and waits for the dial-back or the result  *)
(* that claims the nonce.                                                  *)
(*                                                                         *)
(* A request stands for the call, its nonce and its message.  Connections  *)
(* are numbered as the satellite dials them.  What happens on an exec link *)
(* once it is paired is the subject of ExecSession.                        *)
(***************************************************************************)
EXTENDS Integers, Sequences

CONSTANTS
  Requests,     \* the calls
  KindOf,       \* "exec" or "init", by call
  MaxConns,     \* bound: control connections dialled
  CtrlBuffer,   \* CTRL_BUFFER
  MaxFaults     \* bound: links that fall silent, upgrades that come to nothing, calls dropped

ASSUME KindAssumption == KindOf \in [Requests -> {"exec", "init"}]
ASSUME NumbersAssumption ==
  /\ MaxConns \in Nat /\ MaxFaults \in Nat
  /\ CtrlBuffer \in Nat \ {0}

VARIABLES
  \* HostChannelHub
  hub,        \* the connection whose handle is in hosts, or None
  lastGen,    \* generation
  entry,      \* each nonce: in the pending map, claimed, its slot filled or dropped
  \* run_host_channel, one task per connection
  srv,        \* its phase
  gen,        \* the generation it registered under
  displaced,  \* the connection whose handle its own replaced, to be kicked
  kicked,     \* CancellationToken
  ctrl,       \* the messages in its channel
  \* the link of each connection, and the satellite's end
  link,       \* "up", or "cut": silent in both directions, and neither end told
  down, back, \* frames on the way to the satellite, and to the daemon
  sat,        \* phase of run_control_channel
  \* the calls, and the satellite's tasks that serve them
  pc, chan,   \* phase of a call; the connection whose sender it cloned
  task, via,  \* phase of the task; the connection a project's result goes out by
  faults      \* how much of MaxFaults is used

hubVars    == <<hub, lastGen>>
srvVars    == <<srv, gen, displaced, kicked>>
wireVars   == <<link, down, back>>
callVars   == <<pc, chan>>
taskVars   == <<task, via>>
channelVars == <<hubVars, entry, srvVars, ctrl, wireVars, sat, callVars, taskVars, faults>>

Conns == 1 .. MaxConns
None  == 0

Calling   == {"sending", "waiting"}
Returned  == {"answered", "failed", "left"}
SrvPhase  == {"none", "accepted", "minted", "kicking", "serving", "leaving", "over"}
EntryState == {"none", "pending", "claimed", "filled", "dropped", "gone"}

Init ==
  /\ hub = None /\ lastGen = 0
  /\ entry = [r \in Requests |-> "none"]
  /\ srv = [c \in Conns |-> "none"]
  /\ gen = [c \in Conns |-> 0]
  /\ displaced = [c \in Conns |-> None]
  /\ kicked = [c \in Conns |-> FALSE]
  /\ ctrl = [c \in Conns |-> <<>>]
  /\ link = [c \in Conns |-> "up"]
  /\ down = [c \in Conns |-> <<>>]
  /\ back = [c \in Conns |-> <<>>]
  /\ sat = [c \in Conns |-> "idle"]
  /\ pc = [r \in Requests |-> "idle"]
  /\ chan = [r \in Requests |-> None]
  /\ task = [r \in Requests |-> "none"]
  /\ via = [r \in Requests |-> None]
  /\ faults = 0

Fault == faults < MaxFaults /\ faults' = faults + 1

-----------------------------------------------------------------------------
(* The satellite's client: one connection at a time.                       *)

\* The next connection, once the one before it has returned.  The daemon has
\* accepted the upgrade; its handler has yet to run.
Dial(c) ==
  /\ sat[c] = "idle" /\ \A d \in Conns : d < c => sat[d] = "over"
  /\ sat' = [sat EXCEPT ![c] = "up"]
  /\ srv' = [srv EXCEPT ![c] = "accepted"]
  /\ UNCHANGED <<hubVars, entry, gen, displaced, kicked, ctrl, wireVars, callVars, taskVars, faults>>

\* The end of a connection: the daemon's end has closed, or nothing has come
\* for IDLE_TIMEOUT.  What was still on the way is lost.
SatelliteEnds(c) ==
  /\ sat[c] = "up"
  /\ \/ srv[c] = "over"
     \/ link[c] = "cut"
  /\ sat' = [sat EXCEPT ![c] = "over"]
  /\ down' = [down EXCEPT ![c] = <<>>]
  /\ UNCHANGED <<hubVars, entry, srvVars, ctrl, link, back, callVars, taskVars, faults>>

\* handle_control_frame: each message has a task of its own.
HandleControlFrame(c) ==
  /\ sat[c] = "up" /\ down[c] # <<>>
  /\ LET r == Head(down[c])
     IN /\ task' = [task EXCEPT ![r] = IF KindOf[r] = "exec" THEN "dialing" ELSE "creating"]
        /\ via' = IF KindOf[r] = "exec" THEN via ELSE [via EXCEPT ![r] = c]
  /\ down' = [down EXCEPT ![c] = Tail(@)]
  /\ UNCHANGED <<hubVars, entry, srvVars, ctrl, link, back, sat, callVars, faults>>

\* initialize_satellite_project returned: its result goes out on the connection
\* the message came by, and nowhere if that has ended.
ProjectCreated(r) ==
  /\ task[r] = "creating"
  /\ task' = [task EXCEPT ![r] = "over"]
  /\ back' = IF sat[via[r]] = "up" /\ link[via[r]] = "up"
             THEN [back EXCEPT ![via[r]] = Append(@, r)] ELSE back
  /\ UNCHANGED <<hubVars, entry, srvVars, ctrl, link, down, sat, callVars, via, faults>>

\* A control link falls silent: nothing arrives any more, and nobody is told.
Cut(c) ==
  /\ Fault
  /\ link[c] = "up" /\ sat[c] = "up"
  /\ link' = [link EXCEPT ![c] = "cut"]
  /\ down' = [down EXCEPT ![c] = <<>>]
  /\ back' = [back EXCEPT ![c] = <<>>]
  /\ UNCHANGED <<hubVars, entry, srvVars, ctrl, sat, callVars, taskVars>>

-----------------------------------------------------------------------------
(* run_host_channel.                                                       *)

\* register, first step: the generation is minted outside the lock.
MintGeneration(c) ==
  /\ srv[c] = "accepted"
  /\ lastGen' = lastGen + 1
  /\ gen' = [gen EXCEPT ![c] = lastGen + 1]
  /\ srv' = [srv EXCEPT ![c] = "minted"]
  /\ UNCHANGED <<hub, entry, displaced, kicked, ctrl, wireVars, sat, callVars, taskVars, faults>>

\* register, under the lock: the handle replaces any other.
InsertHandle(c) ==
  /\ srv[c] = "minted"
  /\ hub' = c
  /\ displaced' = [displaced EXCEPT ![c] = hub]
  /\ srv' = [srv EXCEPT ![c] = "kicking"]
  /\ UNCHANGED <<lastGen, entry, gen, kicked, ctrl, wireVars, sat, callVars, taskVars, faults>>

\* register, after the lock: the replaced handler is told to leave.
KickReplaced(c) ==
  /\ srv[c] = "kicking"
  /\ kicked' = IF displaced[c] = None THEN kicked ELSE [kicked EXCEPT ![displaced[c]] = TRUE]
  /\ srv' = [srv EXCEPT ![c] = "serving"]
  /\ UNCHANGED <<hubVars, entry, gen, displaced, ctrl, wireVars, sat, callVars, taskVars, faults>>

\* The next control message goes out as a frame, into the void if nobody reads it.
ForwardCtrl(c) ==
  /\ srv[c] = "serving" /\ ctrl[c] # <<>>
  /\ ctrl' = [ctrl EXCEPT ![c] = Tail(@)]
  /\ down' = IF sat[c] = "up" /\ link[c] = "up"
             THEN [down EXCEPT ![c] = Append(@, Head(ctrl[c]))] ELSE down
  /\ UNCHANGED <<hubVars, entry, srvVars, link, back, sat, callVars, taskVars, faults>>

\* complete_project_init on a result frame: the nonce is single-use, and its
\* result is of use only while the caller waits.
CompleteProjectInit(c) ==
  /\ srv[c] = "serving" /\ back[c] # <<>>
  /\ LET r == Head(back[c])
     IN entry' = IF entry[r] # "pending" THEN entry
                 ELSE [entry EXCEPT ![r] = IF pc[r] \in Calling THEN "filled" ELSE "gone"]
  /\ back' = [back EXCEPT ![c] = Tail(@)]
  /\ UNCHANGED <<hubVars, srvVars, ctrl, link, down, sat, callVars, taskVars, faults>>

\* The loop ends: kicked, closed by the peer, or idle past IDLE_TIMEOUT.
HandlerBreaks(c) ==
  /\ srv[c] = "serving"
  /\ \/ kicked[c]
     \/ sat[c] = "over"
     \/ link[c] = "cut"
  /\ srv' = [srv EXCEPT ![c] = "leaving"]
  /\ UNCHANGED <<hubVars, entry, gen, displaced, kicked, ctrl, wireVars, sat, callVars, taskVars, faults>>

\* Mutant: whatever is registered goes.
UnregisterAny(c) ==
  /\ srv[c] = "leaving"
  /\ hub' = None
  /\ srv' = [srv EXCEPT ![c] = "over"]
  /\ ctrl' = [ctrl EXCEPT ![c] = <<>>]
  /\ back' = [back EXCEPT ![c] = <<>>]
  /\ UNCHANGED <<lastGen, entry, gen, displaced, kicked, link, down, sat, callVars, taskVars, faults>>

\* unregister, unless another generation is registered, and the handler returns:
\* the messages of its channel go with it.
Unregister(c) ==
  /\ srv[c] = "leaving"
  /\ hub' = IF hub # None /\ gen[hub] = gen[c] THEN None ELSE hub
  /\ srv' = [srv EXCEPT ![c] = "over"]
  /\ ctrl' = [ctrl EXCEPT ![c] = <<>>]
  /\ back' = [back EXCEPT ![c] = <<>>]
  /\ UNCHANGED <<lastGen, entry, gen, displaced, kicked, link, down, sat, callVars, taskVars, faults>>

-----------------------------------------------------------------------------
(* open_exec and request_project_init.                                     *)

\* The sender of the registered connection is cloned and the nonce minted.
Open(r) ==
  /\ pc[r] = "idle"
  /\ IF hub = None
     THEN pc' = [pc EXCEPT ![r] = "failed"] /\ UNCHANGED <<chan, entry>>
     ELSE /\ pc' = [pc EXCEPT ![r] = "sending"]
          /\ chan' = [chan EXCEPT ![r] = hub]
          /\ entry' = [entry EXCEPT ![r] = "pending"]
  /\ UNCHANGED <<hubVars, srvVars, ctrl, wireVars, sat, taskVars, faults>>

\* ctrl_tx.send: waits for room in the channel.
Send(r) ==
  /\ pc[r] = "sending" /\ srv[chan[r]] # "over" /\ Len(ctrl[chan[r]]) < CtrlBuffer
  /\ ctrl' = [ctrl EXCEPT ![chan[r]] = Append(@, r)]
  /\ pc' = [pc EXCEPT ![r] = "waiting"]
  /\ UNCHANGED <<hubVars, entry, srvVars, wireVars, sat, chan, taskVars, faults>>

\* What the pending map keeps of a nonce its caller removes.
Removed(r) == [entry EXCEPT ![r] = IF @ = "pending" THEN "gone" ELSE @]

\* The handler has returned: the message cannot be sent.
SendFails(r) ==
  /\ pc[r] = "sending" /\ srv[chan[r]] = "over"
  /\ pc' = [pc EXCEPT ![r] = "failed"]
  /\ entry' = Removed(r)
  /\ UNCHANGED <<hubVars, srvVars, ctrl, wireVars, sat, chan, taskVars, faults>>

\* The slot was filled: the bridge of the dial-back, or the result.
Answered(r) ==
  /\ pc[r] = "waiting" /\ entry[r] = "filled"
  /\ pc' = [pc EXCEPT ![r] = "answered"]
  /\ UNCHANGED <<hubVars, entry, srvVars, ctrl, wireVars, sat, chan, taskVars, faults>>

\* Mutants: the nonce stays in the map; a call whose connection has gone is left
\* to the connection to end.
GivesUpLeavingNonce(r) ==
  /\ pc[r] = "waiting" /\ entry[r] # "filled"
  /\ pc' = [pc EXCEPT ![r] = "failed"]
  /\ UNCHANGED <<hubVars, entry, srvVars, ctrl, wireVars, sat, chan, taskVars, faults>>
GivesUpConnected(r) ==
  /\ pc[r] = "waiting" /\ entry[r] # "filled" /\ srv[chan[r]] # "over"
  /\ pc' = [pc EXCEPT ![r] = "failed"]
  /\ entry' = Removed(r)
  /\ UNCHANGED <<hubVars, srvVars, ctrl, wireVars, sat, chan, taskVars, faults>>

\* Its slot was dropped, or the timeout ran out before anything filled it.
GivesUp(r) ==
  /\ pc[r] = "waiting" /\ entry[r] # "filled"
  /\ pc' = [pc EXCEPT ![r] = "failed"]
  /\ entry' = Removed(r)
  /\ UNCHANGED <<hubVars, srvVars, ctrl, wireVars, sat, chan, taskVars, faults>>

\* The caller drops the call: nothing is cleaned up.
Left(r) ==
  /\ Fault
  /\ pc[r] \in Calling
  /\ pc' = [pc EXCEPT ![r] = "left"]
  /\ UNCHANGED <<hubVars, entry, srvVars, ctrl, wireVars, sat, chan, taskVars>>

-----------------------------------------------------------------------------
(* The exec dial-back: handle_host_exec_dialback.                          *)

\* claim_exec, before the upgrade: the entry is removed, and a nonce that is not
\* in the map is refused.
ClaimExec(r) ==
  /\ task[r] = "dialing"
  /\ IF entry[r] = "pending"
     THEN /\ entry' = [entry EXCEPT ![r] = "claimed"]
          /\ task' = [task EXCEPT ![r] = "claimed"]
     ELSE task' = [task EXCEPT ![r] = "over"] /\ UNCHANGED entry
  /\ UNCHANGED <<hubVars, srvVars, ctrl, wireVars, sat, callVars, via, faults>>

\* The upgrade comes to nothing, and the slot is dropped with it.
UpgradeLost(r) ==
  /\ Fault
  /\ task[r] = "claimed"
  /\ entry' = [entry EXCEPT ![r] = "dropped"]
  /\ task' = [task EXCEPT ![r] = "over"]
  /\ UNCHANGED <<hubVars, srvVars, ctrl, wireVars, sat, callVars, via>>

\* pump_exec_dialback begins: the bridge goes to the caller if it still waits.
Pair(r) ==
  /\ task[r] = "claimed"
  /\ entry' = [entry EXCEPT ![r] = IF pc[r] = "waiting" THEN "filled" ELSE "gone"]
  /\ task' = [task EXCEPT ![r] = IF pc[r] = "waiting" THEN "paired" ELSE "over"]
  /\ UNCHANGED <<hubVars, srvVars, ctrl, wireVars, sat, callVars, via, faults>>

-----------------------------------------------------------------------------
Client(c)  == Dial(c) \/ SatelliteEnds(c) \/ HandleControlFrame(c)
Handler(c) == \/ MintGeneration(c) \/ InsertHandle(c) \/ KickReplaced(c)
              \/ ForwardCtrl(c) \/ CompleteProjectInit(c) \/ HandlerBreaks(c) \/ Unregister(c)
Call(r)    == Open(r) \/ Send(r) \/ SendFails(r) \/ Answered(r) \/ GivesUp(r) \/ Left(r)
Task(r)    == ProjectCreated(r) \/ ClaimExec(r) \/ UpgradeLost(r) \/ Pair(r)

Next ==
  \/ \E c \in Conns : Client(c) \/ Handler(c) \/ Cut(c)
  \/ \E r \in Requests : Call(r) \/ Task(r)

Spec == Init /\ [][Next]_channelVars

-----------------------------------------------------------------------------
(* Properties.                                                             *)

\* Every variable has its type; a channel holds no more than CTRL_BUFFER.
TypeOK ==
  /\ hub \in Conns \cup {None} /\ lastGen \in Nat
  /\ entry \in [Requests -> EntryState]
  /\ srv \in [Conns -> SrvPhase]
  /\ gen \in [Conns -> Nat]
  /\ displaced \in [Conns -> Conns \cup {None}]
  /\ kicked \in [Conns -> BOOLEAN]
  /\ ctrl \in [Conns -> Seq(Requests)] /\ \A c \in Conns : Len(ctrl[c]) <= CtrlBuffer
  /\ link \in [Conns -> {"up", "cut"}]
  /\ down \in [Conns -> Seq(Requests)] /\ back \in [Conns -> Seq(Requests)]
  /\ sat \in [Conns -> {"idle", "up", "over"}]
  /\ pc \in [Requests -> {"idle"} \cup Calling \cup Returned]
  /\ chan \in [Requests -> Conns \cup {None}]
  /\ task \in [Requests -> {"none", "dialing", "creating", "claimed", "paired", "over"}]
  /\ via \in [Requests -> Conns \cup {None}]
  /\ faults \in 0 .. MaxFaults

\* The registration a call finds belongs to a handler that has not returned and was
\* not told to leave, though it may have broken off by itself and be about to
\* unregister; any other handler has been told to leave, or is about to be.  So a
\* handler that unregisters late, or is replaced at any point, takes nobody's
\* registration but its own (register, unregister).  Which of two connections that
\* register at the same time is left registered is another matter: see
\* NewestConnectionWins.
PresenceIsServed ==
  /\ hub # None => srv[hub] \in {"kicking", "serving", "leaving"} /\ ~kicked[hub]
  /\ \A c \in Conns : srv[c] \in {"kicking", "serving"} /\ c # hub =>
       kicked[c] \/ \E d \in Conns : srv[d] = "kicking" /\ displaced[d] = c

\* A nonce that can still be claimed is one whose call still waits, unless its
\* caller dropped the call: no way open_exec or request_project_init returns by
\* leaves its entry in the pending map.
PendingIsAwaited ==
  \A r \in Requests : entry[r] = "pending" => pc[r] \in Calling \cup {"left"}

-----------------------------------------------------------------------------
(* What the comment on register says, and the code does not do.            *)

\* The newest connection always wins (host_channel.rs:243): it is never replaced
\* by an older one.  A handler that was accepted before it, and inserts its handle
\* after it, replaces it and has it told to leave; nobody then serves the host
\* until the satellite dials again.
NewestConnectionWins ==
  \A c \in Conns : displaced[c] # None => displaced[c] < c

=============================================================================
